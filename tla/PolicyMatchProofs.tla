------------------------- MODULE PolicyMatchProofs -------------------------
(***************************************************************************)
(* What the matchers decide, for every rule and every request.             *)
(*                                                                         *)
(* Three results.  The Go matcher and the enforcer's Python matcher, one   *)
(* written as what is best and the other as the scans that find it, decide *)
(* alike.  A host that is tunnelled at CONNECT would have been allowed,    *)
(* and one that is refused there has a rule that denies it.  And a verdict *)
(* does not depend on the order of the rules.                              *)
(*                                                                         *)
(* A recursive function is a choice of one that satisfies its equation:    *)
(* for each the module proves first that there is one (a table filled from *)
(* its last row up, or a value that some steps are applied to), and then   *)
(* by induction what it is.                                                *)
(***************************************************************************)
EXTENDS EnforcerPolicy, Iteration, SequenceTheorems, FiniteSetTheorems, TLAPS

(***************************************************************************)
(* Orders.                                                                 *)
(***************************************************************************)

\* Sequences of numbers are in order: one comes before the other or they are
\* the same.
LEMMA LexAsymmetric ==
    ASSUME NEW a \in Seq(Int), NEW b \in Seq(Int), LexLess(a, b)
    PROVE  ~LexLess(b, a)
<1>1. PICK i \in 1..Len(b) : /\ i > Len(a) \/ a[i] < b[i]
                             /\ \A k \in 1..(i - 1) : k <= Len(a) /\ a[k] = b[k]
  BY DEF LexLess
<1>2. SUFFICES ASSUME NEW j \in 1..Len(a), j > Len(b) \/ b[j] < a[j],
                      \A k \in 1..(j - 1) : k <= Len(b) /\ b[k] = a[k]
               PROVE  FALSE
  BY DEF LexLess
<1>3. CASE i < j
  BY <1>1, <1>2, <1>3
<1>4. CASE j < i
  BY <1>1, <1>2, <1>4
<1>5. CASE i = j
  <2>1. a[i] \in Int /\ b[i] \in Int
    BY <1>1, <1>2, <1>5
  <2> QED BY <1>1, <1>2, <1>5, <2>1
<1> QED BY <1>1, <1>2, <1>3, <1>4, <1>5

\* The order can be followed.
LEMMA LexTransitive ==
    ASSUME NEW a \in Seq(Int), NEW b \in Seq(Int), NEW c \in Seq(Int),
           LexLess(a, b), LexLess(b, c)
    PROVE  LexLess(a, c)
<1>1. PICK i \in 1..Len(b) : /\ i > Len(a) \/ a[i] < b[i]
                             /\ \A k \in 1..(i - 1) : k <= Len(a) /\ a[k] = b[k]
  BY DEF LexLess
<1>2. PICK j \in 1..Len(c) : /\ j > Len(b) \/ b[j] < c[j]
                             /\ \A k \in 1..(j - 1) : k <= Len(b) /\ b[k] = c[k]
  BY DEF LexLess
<1>3. CASE i < j
  <2>1. i \in 1..Len(c) /\ b[i] = c[i] /\ (i > Len(a) \/ a[i] < c[i])
    BY <1>1, <1>2, <1>3
  <2>2. \A k \in 1..(i - 1) : k <= Len(a) /\ a[k] = c[k]
    BY <1>1, <1>2, <1>3
  <2> QED BY <2>1, <2>2 DEF LexLess
<1>4. CASE j <= i
  <2>1. j > Len(a) \/ a[j] < c[j]
    <3>1. CASE j < i
      BY <1>1, <1>2, <3>1
    <3>2. CASE j = i
      <4>1. j <= Len(a) => a[j] \in Int /\ b[j] \in Int /\ c[j] \in Int
        BY <1>1, <1>2, <3>2
      <4> QED BY <1>1, <1>2, <3>2, <4>1, SMTT(30)
    <3> QED BY <1>4, <3>1, <3>2
  <2>2. \A k \in 1..(j - 1) : k <= Len(a) /\ a[k] = c[k]
    BY <1>1, <1>2, <1>4
  <2> QED BY <1>2, <2>1, <2>2 DEF LexLess
<1> QED BY <1>3, <1>4

\* Sequences that differ are ordered.
LEMMA LexTotal ==
    ASSUME NEW a \in Seq(Int), NEW b \in Seq(Int), a # b
    PROVE  LexLess(a, b) \/ LexLess(b, a)
<1> DEFINE T == {i \in Nat \ {0} : \/ i <= Len(a) /\ i > Len(b)
                                   \/ i <= Len(b) /\ i > Len(a)
                                   \/ i <= Len(a) /\ i <= Len(b) /\ a[i] # b[i]}
<1>1. T # {}
  <2>1. CASE Len(a) # Len(b)
    <3>1. CASE Len(a) < Len(b)
      <4>1. Len(b) \in T
        BY <3>1
      <4> QED BY <4>1
    <3>2. CASE Len(b) < Len(a)
      <4>1. Len(a) \in T
        BY <3>2
      <4> QED BY <4>1
    <3> QED BY <2>1, <3>1, <3>2
  <2>2. CASE Len(a) = Len(b)
    <3>1. PICK i \in 1..Len(a) : a[i] # b[i]
      BY <2>2, SeqEqual
    <3>2. i \in T
      BY <2>2, <3>1
    <3> QED BY <3>2
  <2> QED BY <2>1, <2>2
<1>2. PICK i \in T : \A j \in T : i <= j
  BY <1>1, Least
<1>3. \A k \in 1..(i - 1) : k <= Len(a) /\ k <= Len(b) /\ a[k] = b[k]
  BY <1>2
<1>4. CASE i > Len(a)
  <2>1. i \in 1..Len(b)
    BY <1>2, <1>4
  <2> QED BY <1>3, <1>4, <2>1 DEF LexLess
<1>5. CASE i > Len(b)
  <2>1. i \in 1..Len(a)
    BY <1>2, <1>5
  <2> QED BY <1>3, <1>5, <2>1 DEF LexLess
<1>6. CASE i <= Len(a) /\ i <= Len(b)
  <2>1. a[i] \in Int /\ b[i] \in Int /\ a[i] # b[i]
    BY <1>2, <1>6
  <2>2. CASE a[i] < b[i]
    BY <1>2, <1>3, <1>6, <2>2 DEF LexLess
  <2>3. CASE b[i] < a[i]
    BY <1>2, <1>3, <1>6, <2>3 DEF LexLess
  <2> QED BY <2>1, <2>2, <2>3
<1> QED BY <1>2, <1>4, <1>5, <1>6

\* So what is not before can be followed too.
LEMMA LexNegative ==
    ASSUME NEW a \in Seq(Int), NEW b \in Seq(Int), NEW c \in Seq(Int),
           ~LexLess(a, b), ~LexLess(b, c)
    PROVE  ~LexLess(a, c)
BY LexAsymmetric, LexTransitive, LexTotal

\* Tuples of five numbers are compared field by field.
Fields == [1..5 -> Int]

\* The comparison, written out.
LEMMA LexMoreFields ==
    ASSUME NEW a \in Fields, NEW b \in Fields
    PROVE  LexMore(a, b) <=>
             \/ a[1] > b[1]
             \/ a[1] = b[1] /\ a[2] > b[2]
             \/ a[1] = b[1] /\ a[2] = b[2] /\ a[3] > b[3]
             \/ a[1] = b[1] /\ a[2] = b[2] /\ a[3] = b[3] /\ a[4] > b[4]
             \/ a[1] = b[1] /\ a[2] = b[2] /\ a[3] = b[3] /\ a[4] = b[4] /\ a[5] > b[5]
<1>1. DOMAIN a = 1..5
  BY DEF Fields
<1>2. LexMore(a, b) <=> \E i \in 1..5 : a[i] > b[i] /\ \A j \in 1..(i - 1) : a[j] = b[j]
  BY <1>1 DEF LexMore
<1>3. \A i \in 1..5 : i = 1 \/ i = 2 \/ i = 3 \/ i = 4 \/ i = 5
  OBVIOUS
<1> QED BY <1>2, <1>3

\* Equality, written out.
LEMMA FieldsEqual ==
    ASSUME NEW a \in Fields, NEW b \in Fields
    PROVE  /\ a[1] \in Int /\ a[2] \in Int /\ a[3] \in Int /\ a[4] \in Int /\ a[5] \in Int
           /\ (a = b) <=> /\ a[1] = b[1] /\ a[2] = b[2] /\ a[3] = b[3]
                          /\ a[4] = b[4] /\ a[5] = b[5]
<1>1. \A i \in 1..5 : i = 1 \/ i = 2 \/ i = 3 \/ i = 4 \/ i = 5
  OBVIOUS
<1>2. a = [i \in 1..5 |-> a[i]] /\ b = [i \in 1..5 |-> b[i]]
  BY DEF Fields
<1> QED BY <1>1, <1>2 DEF Fields

\* No tuple is more than one that is more than it.
LEMMA MoreAsymmetric ==
    ASSUME NEW a \in Fields, NEW b \in Fields, LexMore(a, b)
    PROVE  ~LexMore(b, a) /\ a # b
BY LexMoreFields, FieldsEqual

\* Tuples that no field tells apart are the same.
LEMMA MoreTotal ==
    ASSUME NEW a \in Fields, NEW b \in Fields, ~LexMore(a, b), ~LexMore(b, a)
    PROVE  a = b
BY LexMoreFields, FieldsEqual

\* What is not more can be followed.
LEMMA MoreNegative ==
    ASSUME NEW a \in Fields, NEW b \in Fields, NEW c \in Fields,
           ~LexMore(a, b), ~LexMore(b, c)
    PROVE  ~LexMore(a, c) /\ (a = c => a = b)
BY LexMoreFields, FieldsEqual

\* What is above what: the fields first, then the bytes.
Above(a, x, b, y) == LexMore(a, b) \/ (a = b /\ LexLess(x, y))

\* Nothing is above what is above it.
LEMMA AboveAsymmetric ==
    ASSUME NEW a \in Fields, NEW b \in Fields, NEW x \in Seq(Int), NEW y \in Seq(Int),
           Above(a, x, b, y)
    PROVE  ~Above(b, y, a, x)
BY MoreAsymmetric, LexAsymmetric DEF Above

\* What is not above can be followed.
LEMMA AboveNegative ==
    ASSUME NEW a \in Fields, NEW b \in Fields, NEW c \in Fields,
           NEW x \in Seq(Int), NEW y \in Seq(Int), NEW z \in Seq(Int),
           ~Above(a, x, b, y), ~Above(b, y, c, z)
    PROVE  ~Above(a, x, c, z)
<1>1. ~LexMore(a, c) /\ (a = c => a = b)
  BY MoreNegative DEF Above
<1>2. CASE a = c
  BY <1>1, <1>2, LexNegative DEF Above
<1> QED BY <1>1, <1>2 DEF Above

\* What neither is above the other of has the same fields and bytes.
LEMMA AboveTotal ==
    ASSUME NEW a \in Fields, NEW b \in Fields, NEW x \in Seq(Int), NEW y \in Seq(Int),
           ~Above(a, x, b, y), ~Above(b, y, a, x)
    PROVE  a = b /\ x = y
BY MoreTotal, LexTotal DEF Above

(***************************************************************************)
(* Scans.                                                                  *)
(***************************************************************************)

\* The index a scan of E has kept after it has looked at i, when it had b.
Kept(E, B, i, b) ==
    IF i \notin E THEN b
    ELSE IF b = 0 THEN i
    ELSE IF <<i, b>> \in B THEN i ELSE b

\* B is a strict weak order of E.
Ranks(B, E) ==
    /\ \A i, j \in E : <<i, j>> \in B => <<j, i>> \notin B
    /\ \A i, j, k \in E : <<i, j>> \notin B /\ <<j, k>> \notin B => <<i, k>> \notin B

\* None of E is better than b, and all before it are worse.
IsFirst(E, B, b) ==
    IF E = {} THEN b = 0
    ELSE /\ b \in E
         /\ \A j \in E : <<j, b>> \notin B /\ (j < b => <<b, j>> \in B)

\* There is at most one first of the best.
LEMMA FirstUnique ==
    ASSUME NEW E, E \subseteq Nat, NEW B, NEW a, NEW b,
           IsFirst(E, B, a), IsFirst(E, B, b)
    PROVE  a = b
<1>1. CASE E = {}
  BY <1>1 DEF IsFirst
<1>2. CASE E # {}
  <2>1. a \in E /\ b \in E /\ <<a, b>> \notin B /\ <<b, a>> \notin B
    BY <1>2 DEF IsFirst
  <2>2. ~(a < b) /\ ~(b < a)
    BY <1>2, <2>1 DEF IsFirst
  <2> QED BY <2>1, <2>2
<1> QED BY <1>1, <1>2

\* s has what a scan of E up to n has kept at each step.
Scans(s, E, B, n) ==
    \A i \in 0..n : s[i] = IF i = 0 THEN 0 ELSE Kept(E, B, i, s[i - 1])

\* A scan ends with the first of the best.
LEMMA Scan ==
    ASSUME NEW n \in Nat, NEW E, E \subseteq 1..n, NEW B, Ranks(B, E),
           NEW s, Scans(s, E, B, n)
    PROVE  IsFirst(E, B, s[n])
<1>0. s[0] = 0 /\ \A i \in 1..n : s[i] = Kept(E, B, i, s[i - 1])
  BY DEF Scans
<1> DEFINE S == {i \in 0..n : IsFirst(E \cap 1..i, B, s[i])}
<1>1. 0 \in S
  <2>1. E \cap 1..0 = {}
    OBVIOUS
  <2> QED BY <1>0, <2>1 DEF IsFirst
<1>2. ASSUME NEW i \in 1..n, i - 1 \in S PROVE i \in S
  <2> DEFINE b == s[i - 1]
             P == E \cap 1..(i - 1)
             Q == E \cap 1..i
  <2>1. IsFirst(P, B, b)
    BY <1>2
  <2>2. s[i] = Kept(E, B, i, b)
    BY <1>0
  <2>3. CASE i \notin E
    <3>1. P = Q
      BY <2>3
    <3> QED BY <2>1, <2>2, <2>3, <3>1 DEF Kept
  <2>4. CASE i \in E
    <3>1. Q = P \cup {i} /\ i \in Q /\ \A j \in P : j < i /\ j # 0 /\ j \in E
      BY <2>4
    <3>2. <<i, i>> \notin B
      BY <2>4 DEF Ranks
    <3> HIDE DEF P, Q, b
    <3>3. CASE P = {}
      <4>1. b = 0 /\ s[i] = i
        BY <2>1, <2>2, <2>4, <3>3 DEF IsFirst, Kept
      <4>2. IsFirst(Q, B, s[i])
        BY <3>1, <3>2, <3>3, <4>1 DEF IsFirst
      <4> QED BY <4>2 DEF Q
    <3>4. CASE P # {} /\ <<i, b>> \in B
      <4>1. b \in P /\ \A j \in P : <<j, b>> \notin B
        BY <2>1, <3>4 DEF IsFirst
      <4>2. s[i] = i
        BY <2>2, <2>4, <3>1, <3>4, <4>1 DEF Kept
      <4>3. ASSUME NEW j \in P PROVE <<i, j>> \in B /\ <<j, i>> \notin B
        BY <2>4, <3>1, <3>4, <4>1 DEF Ranks
      <4>4. IsFirst(Q, B, i)
        BY <3>1, <3>2, <4>3 DEF IsFirst
      <4> QED BY <4>2, <4>4 DEF Q
    <3>5. CASE P # {} /\ <<i, b>> \notin B
      <4>1. b \in P /\ \A j \in P : <<j, b>> \notin B /\ (j < b => <<b, j>> \in B)
        BY <2>1, <3>5 DEF IsFirst
      <4>2. s[i] = b /\ b < i
        BY <2>2, <2>4, <3>1, <3>5, <4>1 DEF Kept
      <4>3. ~(i < b)
        <5>1. b \in Int /\ i \in Int
          BY <3>1, <4>1
        <5> QED BY <4>2, <5>1
      <4>4. IsFirst(Q, B, b)
        BY <3>1, <3>5, <4>1, <4>3 DEF IsFirst
      <4> QED BY <4>2, <4>4 DEF Q
    <3> QED BY <3>3, <3>4, <3>5
  <2> QED BY <2>3, <2>4
<1>3. \A i \in 0..n : i \in S
  <2> HIDE DEF S
  <2> QED BY <1>1, <1>2, UpTo
<1>4. E \cap 1..n = E
  OBVIOUS
<1> QED BY <1>3, <1>4

\* What a scan keeps is one of E, or nothing.
LEMMA KeptType ==
    ASSUME NEW E, NEW B, NEW i, NEW b \in E \cup {0}
    PROVE  Kept(E, B, i, b) \in E \cup {0}
BY DEF Kept

\* Every scan can be made.
LEMMA ScanExists ==
    ASSUME NEW n \in Nat, NEW E, NEW B
    PROVE  \E s \in [0..n -> E \cup {0}] : Scans(s, E, B, n)
<1> DEFINE V == E \cup {0}
           step == [i \in 1..n |-> [b \in V |-> Kept(E, B, i, b)]]
<1>1. step \in [1..n -> [V -> V]]
  BY KeptType
<1>2. \A i \in 1..n, b \in V : step[i][b] = Kept(E, B, i, b)
  OBVIOUS
<1>3. 0 \in V
  OBVIOUS
<1> HIDE DEF step, V
<1>4. PICK s \in [0..n -> V] : Goes(s, n, 0, step)
  BY <1>1, <1>3, Iterate
<1>5. \A i \in 1..n : s[i - 1] \in V
  OBVIOUS
<1>6. ASSUME NEW i \in 0..n
      PROVE  s[i] = IF i = 0 THEN 0 ELSE Kept(E, B, i, s[i - 1])
  <2>1. s[i] = IF i = 0 THEN 0 ELSE step[i][s[i - 1]]
    BY <1>4 DEF Goes
  <2>2. i # 0 => step[i][s[i - 1]] = Kept(E, B, i, s[i - 1])
    BY <1>2, <1>5
  <2> QED BY <2>1, <2>2
<1>7. Scans(s, E, B, n)
  BY <1>6 DEF Scans
<1> QED BY <1>7 DEF V

\* It is enough to scan as long as what is kept is one of E.
LEMMA ScanOf ==
    ASSUME NEW n \in Nat, NEW E, E \subseteq 1..n, NEW B, Ranks(B, E), NEW s, s[0] = 0,
           \A i \in 1..n : s[i - 1] \in E \cup {0} => s[i] = Kept(E, B, i, s[i - 1])
    PROVE  IsFirst(E, B, s[n]) /\ Scans(s, E, B, n) /\ \A i \in 0..n : s[i] \in E \cup {0}
<1> DEFINE V == E \cup {0}
           S == {i \in 0..n : s[i] \in V}
<1>1. 0 \in S
  OBVIOUS
<1>2. ASSUME NEW i \in 1..n, i - 1 \in S PROVE i \in S
  <2>1. s[i - 1] \in V
    BY <1>2
  <2>2. s[i] \in V
    BY <2>1, KeptType
  <2> QED BY <2>2
<1>3. \A i \in 0..n : i \in S
  <2> HIDE DEF S
  <2> QED BY <1>1, <1>2, UpTo
<1>4. \A i \in 1..n : s[i - 1] \in V
  <2> TAKE i \in 1..n
  <2>1. i - 1 \in 0..n
    OBVIOUS
  <2> QED BY <1>3, <2>1
<1>5. Scans(s, E, B, n)
  BY <1>4 DEF Scans
<1> QED BY <1>3, <1>5, Scan

\* So there is a first of the best.
LEMMA FirstExists ==
    ASSUME NEW n \in Nat, NEW E, E \subseteq 1..n, NEW B, Ranks(B, E)
    PROVE  \E b : IsFirst(E, B, b)
BY ScanExists, Scan

\* The first of the best is the least of those that none is better than.
TopOf(E, B) == {i \in E : \A j \in E : <<j, i>> \notin B}
LeastOf(T) == CHOOSE i \in T : \A j \in T : i <= j

LEMMA FirstIsLeast ==
    ASSUME NEW E, E \subseteq Nat, NEW B, NEW b, IsFirst(E, B, b), E # {}
    PROVE  b = LeastOf(TopOf(E, B))
<1> DEFINE T == TopOf(E, B)
<1>1. /\ b \in E /\ b \in Nat /\ T \subseteq E
      /\ \A j \in E : <<j, b>> \notin B /\ (j < b => <<b, j>> \in B)
  BY DEF IsFirst, TopOf
<1>2. b \in T /\ \A j \in T : ~(j < b)
  BY <1>1 DEF TopOf
<1> HIDE DEF T
<1>3. \A j \in T : b <= j
  BY <1>1, <1>2
<1>4. \A i \in T : (\A j \in T : i <= j) => i = b
  BY <1>1, <1>2, <1>3
<1>5. \E i \in T : \A j \in T : i <= j
  BY <1>2, <1>3
<1> QED BY <1>1, <1>4, <1>5 DEF LeastOf, T

(***************************************************************************)
(* Rules.                                                                  *)
(***************************************************************************)

JoinStep(list, sep) ==
    [i \in 1..Len(list) |-> [x \in Seq(Words) |-> x \o list[i] \o <<sep>>]]

\* Joining words gives words: Joined is the history of a sequence that grows.
LEMMA JoinedType ==
    ASSUME NEW list \in Seq(Seq(Words)), NEW sep \in Words
    PROVE  Joined(list, sep) \in Seq(Words)
<1> DEFINE n == Len(list)
           Body(j, i) == IF i = 0 THEN <<>> ELSE j[i - 1] \o list[i] \o <<sep>>
<1>1. n \in Nat /\ <<>> \in Seq(Words)
  OBVIOUS
<1>2. \A i \in 1..n, x \in Seq(Words) : x \o list[i] \o <<sep>> \in Seq(Words)
  OBVIOUS
<1>3. JoinStep(list, sep) \in [1..n -> [Seq(Words) -> Seq(Words)]]
  BY <1>2 DEF JoinStep
<1>4. PICK g \in [0..n -> Seq(Words)] : Goes(g, n, <<>>, JoinStep(list, sep))
  BY <1>1, <1>3, Iterate
<1>5. \E j : j = [i \in 0..n |-> Body(j, i)]
  <2>1. ASSUME NEW i \in 0..n PROVE g[i] = Body(g, i)
    <3>1. g[i] = IF i = 0 THEN <<>> ELSE JoinStep(list, sep)[i][g[i - 1]]
      BY <1>4 DEF Goes
    <3>2. CASE i = 0
      BY <3>1, <3>2
    <3>3. CASE i # 0
      <4>1. i \in 1..n /\ i - 1 \in 0..n
        BY <3>3
      <4>2. g[i - 1] \in Seq(Words)
        BY <4>1
      <4>3. JoinStep(list, sep)[i][g[i - 1]] = g[i - 1] \o list[i] \o <<sep>>
        BY <4>1, <4>2 DEF JoinStep
      <4> QED BY <3>1, <3>3, <4>3
    <3> QED BY <3>2, <3>3
  <2>2. g = [i \in 0..n |-> Body(g, i)]
    BY <2>1
  <2> QED BY <2>2
<1> DEFINE h == CHOOSE j : j = [i \in 0..n |-> Body(j, i)]
<1>6. h = [i \in 0..n |-> Body(h, i)]
  BY <1>5, Zenon
<1>7. Joined(list, sep) = h[n]
  BY Zenon DEF Joined
<1> HIDE DEF h
<1> DEFINE S == {k \in 0..n : h[k] \in Seq(Words)}
<1>8. 0 \in S
  BY <1>6
<1>9. ASSUME NEW i \in 1..n, i - 1 \in S PROVE i \in S
  <2>1. h[i - 1] \in Seq(Words) /\ i \in 0..n /\ i # 0
    BY <1>9
  <2>2. h[i] = h[i - 1] \o list[i] \o <<sep>>
    BY <1>6, <2>1
  <2>3. h[i] \in Seq(Words)
    BY <1>2, <2>1, <2>2
  <2> QED BY <2>1, <2>3
<1>10. \A i \in 0..n : i \in S
  <2> HIDE DEF S
  <2> QED BY <1>1, <1>8, <1>9, UpTo
<1>11. n \in S
  BY <1>1, <1>10
<1> QED BY <1>7, <1>11

Spell(host, paths, methods, mode, bar, slash, comma) ==
    host \o <<bar>> \o Joined([i \in DOMAIN paths |-> Joined(paths[i], slash)], comma)
         \o <<bar>> \o methods \o <<bar, mode>>

EndsWithWord(s, word) ==
    s \in Seq(Words) /\ Len(s) \in Nat \ {0} /\ s[Len(s)] = word

\* What is joined with separators is made of words, and ends with the mode.
LEMMA Spelled ==
    ASSUME NEW host \in Seq(Words), NEW paths \in Seq(Seq(Seq(Words))),
           NEW methods \in Seq(Words), NEW mode \in Words,
           NEW bar \in Words, NEW slash \in Words, NEW comma \in Words
    PROVE  EndsWithWord(Spell(host, paths, methods, mode, bar, slash, comma), mode)
<1> DEFINE joined == [i \in DOMAIN paths |-> Joined(paths[i], slash)]
           list == Joined(joined, comma)
           s == Spell(host, paths, methods, mode, bar, slash, comma)
           front == host \o <<bar>> \o list \o <<bar>> \o methods
<1>1. joined \in Seq(Seq(Words))
  <2>1. DOMAIN paths = 1..Len(paths) /\ Len(paths) \in Nat
    OBVIOUS
  <2>2. ASSUME NEW i \in 1..Len(paths) PROVE Joined(paths[i], slash) \in Seq(Words)
    <3>1. paths[i] \in Seq(Seq(Words))
      OBVIOUS
    <3> QED BY <3>1, JoinedType
  <2> QED BY <2>1, <2>2, IsASeq
<1>2. list \in Seq(Words)
  BY <1>1, JoinedType
<1> HIDE DEF joined, list
<1>3. host \o <<bar>> \o list \in Seq(Words)
  BY <1>2
<1>4. front \in Seq(Words)
  BY <1>3
<1>5. s = front \o <<bar, mode>>
  BY DEF joined, list, Spell
<1> HIDE DEF s
<1>6. <<bar, mode>> \in Seq(Words) /\ Len(<<bar, mode>>) = 2 /\ <<bar, mode>>[2] = mode
  OBVIOUS
<1> DEFINE back == <<bar, mode>>
<1> HIDE DEF front, back
<1>7. /\ front \o back \in Seq(Words) /\ Len(front \o back) = Len(front) + 2
      /\ (front \o back)[Len(front) + 2] = mode
  BY <1>4, <1>6, ConcatProperties DEF back
<1> QED BY <1>4, <1>5, <1>7 DEF back, s, EndsWithWord

Key(r) == Bytes(canonical(r))

\* A rule's bytes end with its mode.
LEMMA KeyType ==
    ASSUME NEW r, RuleOK(r)
    PROVE  /\ Key(r) \in Seq(Int) /\ Len(Key(r)) \in Nat \ {0}
           /\ Key(r)[Len(Key(r))] = Code[r.mode]
<1> DEFINE c == canonical(r)
           joined == [i \in DOMAIN c[2] |-> Joined(c[2][i], "/")]
           s == c[1] \o <<"|">> \o Joined(joined, ",") \o <<"|">> \o c[3] \o <<"|", c[4]>>
<1>1. /\ "|" \in Words /\ "/" \in Words /\ "," \in Words
      /\ "intercept" \in Words /\ "passthrough" \in Words
      /\ Code \in [Words -> Int]
  BY CodeAssumption, Zenon
<1>2. c[1] \in Seq(Words) /\ c[4] = r.mode
  BY DEF canonical, RuleOK
<1>3. c[2] \in Seq(Seq(Seq(Words)))
  BY DEF canonical, Items, RuleOK, Nil
<1>4. c[3] \in Seq(Words)
  BY DEF canonical, Items, RuleOK, Nil
<1>5. c[4] \in Words
  BY <1>1, <1>2, Zenon DEF RuleOK
<1>6. Key(r) = [i \in DOMAIN s |-> Code[s[i]]]
  BY Zenon DEF Key, Bytes
<1>7. s \in Seq(Words) /\ Len(s) \in Nat \ {0} /\ s[Len(s)] = c[4]
  <2>1. PICK bar \in Words, slash \in Words, comma \in Words :
            bar = "|" /\ slash = "/" /\ comma = ","
    BY <1>1, Zenon
  <2>2. s = Spell(c[1], c[2], c[3], c[4], bar, slash, comma)
    BY <2>1, Zenon DEF Spell
  <2> HIDE DEF c, s
  <2>3. c[1] \in Seq(Words) /\ bar \in Words /\ slash \in Words /\ comma \in Words
    BY <1>2, <2>1, Zenon
  <2>4. EndsWithWord(Spell(c[1], c[2], c[3], c[4], bar, slash, comma), c[4])
    BY <2>3, <1>3, <1>4, <1>5, Spelled
  <2> QED BY <2>2, <2>4 DEF EndsWithWord
<1>8. Code \in [Words -> Int] /\ c[4] = r.mode
  BY <1>1, <1>2
<1> HIDE DEF s, c
<1>9. \A i \in 1..Len(s) : Code[s[i]] \in Int
  BY <1>7, <1>8
<1>10. Key(r) = [i \in 1..Len(s) |-> Code[s[i]]]
  BY <1>6, <1>7
<1>11. Key(r) \in Seq(Int) /\ Len(Key(r)) = Len(s)
  BY <1>7, <1>9, <1>10
<1> QED BY <1>7, <1>8, <1>10, <1>11

PathScoped(r) == IF r.paths # Nil THEN 1 ELSE 0
Literals(p) == {i \in DOMAIN p : ~Wild(p[i])}
LiteralSegs(r, p) == IF r.paths # Nil THEN Cardinality(Literals(p)) ELSE 0
TotalSegs(r, p) == IF r.paths # Nil THEN Len(p) ELSE 0
MethodScoped(r) == IF r.methods # Nil THEN 1 ELSE 0

\* The five numbers of a rule.
LEMMA FieldTypes ==
    ASSUME NEW r, NEW p \in Seq(Seq(Words))
    PROVE  /\ hostRank(r.host) \in Int /\ PathScoped(r) \in Int
           /\ LiteralSegs(r, p) \in Int /\ TotalSegs(r, p) \in Int
           /\ MethodScoped(r) \in Int
<1>1. Len(p) \in Nat /\ DOMAIN p = 1..Len(p)
  OBVIOUS
<1>2. IsFiniteSet(1..Len(p))
  BY <1>1, FS_Interval
<1>3. Literals(p) \subseteq 1..Len(p)
  BY <1>1 DEF Literals
<1>4. Cardinality(Literals(p)) \in Nat
  BY <1>2, <1>3, FS_Subset, FS_CardinalityType
<1> QED BY <1>1, <1>4 DEF hostRank, PathScoped, LiteralSegs, TotalSegs, MethodScoped

\* Specificity is five numbers.
LEMMA SpecificityType ==
    ASSUME NEW r, NEW p \in Seq(Seq(Words))
    PROVE  /\ ruleSpecificity(r, p) \in Fields
           /\ ruleSpecificity(r, p)[1] = hostRank(r.host)
           /\ ruleSpecificity(r, p)[2] = PathScoped(r)
           /\ ruleSpecificity(r, p)[3] = LiteralSegs(r, p)
           /\ ruleSpecificity(r, p)[4] = TotalSegs(r, p)
           /\ ruleSpecificity(r, p)[5] = MethodScoped(r)
<1>1. ruleSpecificity(r, p) =
        <<hostRank(r.host), PathScoped(r), LiteralSegs(r, p), TotalSegs(r, p), MethodScoped(r)>>
  BY Zenon DEF ruleSpecificity, PathScoped, LiteralSegs, TotalSegs, MethodScoped, Literals
<1>2. \A a, b, c, d, e \in Int : <<a, b, c, d, e>> \in Fields
  BY DEF Fields
<1> QED BY <1>1, <1>2, FieldTypes, SMTT(30)

\* Go's order of two rules, each with the pattern it matches by.
LEMMA SpecificIsAbove ==
    ASSUME NEW r, NEW p, NEW s, NEW q
    PROVE  moreSpecific(r, p, s, q) <=>
             Above(ruleSpecificity(r, p), Key(r), ruleSpecificity(s, q), Key(s))
BY DEF moreSpecific, Above, Key

\* Python compares field by field, as Go does with tuples.
LEMMA SameOrder ==
    ASSUME NEW r, NEW p \in Seq(Seq(Words)), NEW s, NEW q \in Seq(Seq(Words))
    PROVE  Py_more_specific(Py_rule_specificity(r, p), Py_rule_specificity(s, q))
             <=> moreSpecific(r, p, s, q)
<1> DEFINE a == Py_rule_specificity(r, p)
           b == Py_rule_specificity(s, q)
           x == ruleSpecificity(r, p)
           y == ruleSpecificity(s, q)
<1>1. /\ a.host_rank = hostRank(r.host) /\ a.path_scoped = PathScoped(r)
      /\ a.literal_segs = LiteralSegs(r, p) /\ a.total_segs = TotalSegs(r, p)
      /\ a.method_scoped = MethodScoped(r) /\ a.canonical = Key(r)
  BY DEF Py_rule_specificity, Py_host_rank, hostRank, PathScoped, LiteralSegs,
         TotalSegs, MethodScoped, Literals, Wild, Key
<1>2. /\ b.host_rank = hostRank(s.host) /\ b.path_scoped = PathScoped(s)
      /\ b.literal_segs = LiteralSegs(s, q) /\ b.total_segs = TotalSegs(s, q)
      /\ b.method_scoped = MethodScoped(s) /\ b.canonical = Key(s)
  BY DEF Py_rule_specificity, Py_host_rank, hostRank, PathScoped, LiteralSegs,
         TotalSegs, MethodScoped, Literals, Wild, Key
<1>3. /\ x \in Fields /\ y \in Fields
      /\ x[1] = a.host_rank /\ x[2] = a.path_scoped /\ x[3] = a.literal_segs
      /\ x[4] = a.total_segs /\ x[5] = a.method_scoped
      /\ y[1] = b.host_rank /\ y[2] = b.path_scoped /\ y[3] = b.literal_segs
      /\ y[4] = b.total_segs /\ y[5] = b.method_scoped
  BY <1>1, <1>2, SpecificityType
<1>4. moreSpecific(r, p, s, q) <=>
        LexMore(x, y) \/ (x = y /\ LexLess(a.canonical, b.canonical))
  BY <1>1, <1>2 DEF moreSpecific, Key
<1> HIDE DEF a, b, x, y
<1>5. LexMore(x, y) <=>
        \/ x[1] > y[1]
        \/ x[1] = y[1] /\ x[2] > y[2]
        \/ x[1] = y[1] /\ x[2] = y[2] /\ x[3] > y[3]
        \/ x[1] = y[1] /\ x[2] = y[2] /\ x[3] = y[3] /\ x[4] > y[4]
        \/ x[1] = y[1] /\ x[2] = y[2] /\ x[3] = y[3] /\ x[4] = y[4] /\ x[5] > y[5]
  BY <1>3, LexMoreFields
<1>6. /\ x[1] \in Int /\ x[2] \in Int /\ x[3] \in Int /\ x[4] \in Int /\ x[5] \in Int
      /\ y[1] \in Int /\ y[2] \in Int /\ y[3] \in Int /\ y[4] \in Int /\ y[5] \in Int
      /\ (x = y) <=> /\ x[1] = y[1] /\ x[2] = y[2] /\ x[3] = y[3]
                     /\ x[4] = y[4] /\ x[5] = y[5]
  BY <1>3, FieldsEqual
<1>7. Py_more_specific(a, b) <=>
        IF x[1] # y[1] THEN x[1] > y[1]
        ELSE IF x[2] # y[2] THEN x[2] > y[2]
        ELSE IF x[3] # y[3] THEN x[3] > y[3]
        ELSE IF x[4] # y[4] THEN x[4] > y[4]
        ELSE IF x[5] # y[5] THEN x[5] > y[5]
        ELSE LexLess(a.canonical, b.canonical)
  BY <1>3, Zenon DEF Py_more_specific
<1>8. Py_more_specific(a, b) <=> moreSpecific(r, p, s, q)
  BY <1>4, <1>5, <1>6, <1>7
<1> QED BY <1>8 DEF a, b

(***************************************************************************)
(* The best of some rules, as Go says which it is and as Python finds it.  *)
(***************************************************************************)

\* m has the pattern by which each rule matches, if it does.
PatternsOK(rules, m) ==
    \A i \in DOMAIN rules : m[i] # Nil => m[i][1] \in Seq(Seq(Words))

Matched(rules, m, eligible) ==
    {i \in DOMAIN rules : rules[i] \in eligible /\ m[i] # Nil}

BetterPairs(rules, m) ==
    {e \in (DOMAIN rules) \X (DOMAIN rules) :
        moreSpecific(rules[e[1]], m[e[1]][1], rules[e[2]], m[e[2]][1])}

\* The pairs are those the order says.
LEMMA InBetter ==
    ASSUME NEW rules, NEW m, NEW i \in DOMAIN rules, NEW j \in DOMAIN rules
    PROVE  <<i, j>> \in BetterPairs(rules, m)
             <=> moreSpecific(rules[i], m[i][1], rules[j], m[j][1])
BY DEF BetterPairs

\* Specificity, with its tie-break, is a strict weak order of the rules that
\* match.
LEMMA BetterRanks ==
    ASSUME NEW rules, RulesOK(rules), NEW m, PatternsOK(rules, m), NEW eligible
    PROVE  Ranks(BetterPairs(rules, m), Matched(rules, m, eligible))
<1> DEFINE E == Matched(rules, m, eligible)
           B == BetterPairs(rules, m)
           F(i) == ruleSpecificity(rules[i], m[i][1])
           K(i) == Key(rules[i])
<1>1. ASSUME NEW i \in E PROVE i \in DOMAIN rules /\ F(i) \in Fields /\ K(i) \in Seq(Int)
  <2>1. i \in DOMAIN rules /\ m[i][1] \in Seq(Seq(Words)) /\ RuleOK(rules[i])
    BY DEF Matched, PatternsOK, RulesOK
  <2> QED BY <2>1, SpecificityType, KeyType
<1>2. ASSUME NEW i \in E, NEW j \in E
      PROVE  <<i, j>> \in B <=> Above(F(i), K(i), F(j), K(j))
  BY <1>1, InBetter, SpecificIsAbove
<1> HIDE DEF E, B, F, K
<1>3. ASSUME NEW i \in E, NEW j \in E, <<i, j>> \in B PROVE <<j, i>> \notin B
  BY <1>1, <1>2, <1>3, AboveAsymmetric
<1>4. ASSUME NEW i \in E, NEW j \in E, NEW k \in E, <<i, j>> \notin B, <<j, k>> \notin B
      PROVE  <<i, k>> \notin B
  BY <1>1, <1>2, <1>4, AboveNegative
<1>5. Ranks(B, E)
  BY <1>3, <1>4 DEF Ranks
<1> QED BY <1>5 DEF E, B

\* What Go says is the best is the first of the best.
LEMMA GoBest ==
    ASSUME NEW rules, RulesOK(rules), NEW m, PatternsOK(rules, m), NEW eligible
    PROVE  IsFirst(Matched(rules, m, eligible), BetterPairs(rules, m),
                   bestOf(rules, m, eligible))
<1> DEFINE E == Matched(rules, m, eligible)
           B == BetterPairs(rules, m)
           U == {i \in E : \A j \in E :
                    ~moreSpecific(rules[j], m[j][1], rules[i], m[i][1])}
<1>1. bestOf(rules, m, eligible) = IF E = {} THEN 0 ELSE LeastOf(U)
  BY Zenon DEF bestOf, Best, NoRule, Matched, LeastOf
<1>2. E \subseteq DOMAIN rules /\ E \subseteq 1..Len(rules) /\ E \subseteq Nat
  BY DEF Matched, RulesOK
<1>3. TopOf(E, B) = U
  <2> HIDE DEF B, E
  <2>1. \A i, j \in E : <<i, j>> \in B
                         <=> moreSpecific(rules[i], m[i][1], rules[j], m[j][1])
    BY <1>2, InBetter DEF B
  <2> QED BY <2>1 DEF TopOf
<1>4. PICK b : IsFirst(E, B, b)
  BY <1>2, BetterRanks, FirstExists DEF RulesOK
<1> HIDE DEF E, B, U
<1> SUFFICES IsFirst(E, B, bestOf(rules, m, eligible))
  BY DEF E, B
<1>5. CASE E = {}
  BY <1>1, <1>4, <1>5 DEF IsFirst
<1>6. CASE E # {}
  <2>1. b = LeastOf(U)
    BY <1>2, <1>3, <1>4, <1>6, FirstIsLeast
  <2> QED BY <1>1, <1>4, <1>6, <2>1
<1> QED BY <1>5, <1>6

\* Python's scan ends with the first of the best.
LEMMA PyBest ==
    ASSUME NEW rules, RulesOK(rules), NEW m, PatternsOK(rules, m), NEW eligible
    PROVE  IsFirst(Matched(rules, m, eligible), BetterPairs(rules, m),
                   Py_best_of(rules, m, eligible))
<1> DEFINE n == Len(rules)
           E == Matched(rules, m, eligible)
           B == BetterPairs(rules, m)
           V == E \cup {0}
           Body(s, i) ==
             IF i = 0 THEN 0
             ELSE IF rules[i] \notin eligible \/ m[i] = Nil THEN s[i - 1]
             ELSE IF s[i - 1] = 0 THEN i
             ELSE IF Py_more_specific(Py_rule_specificity(rules[i], m[i][1]),
                                      Py_rule_specificity(rules[s[i - 1]], m[s[i - 1]][1]))
             THEN i ELSE s[i - 1]
<1>1. E \subseteq 1..n /\ n \in Nat /\ DOMAIN rules = 1..n
  BY DEF Matched, RulesOK
<1>2. ASSUME NEW s, NEW i \in 1..n, s[i - 1] \in V
      PROVE  Body(s, i) = Kept(E, B, i, s[i - 1])
  <2>1. i \in E <=> ~(rules[i] \notin eligible \/ m[i] = Nil)
    BY <1>1 DEF Matched
  <2>2. ASSUME i \in E, NEW j \in E
        PROVE  <<i, j>> \in B
               <=> Py_more_specific(Py_rule_specificity(rules[i], m[i][1]),
                                    Py_rule_specificity(rules[j], m[j][1]))
    <3>1. i \in DOMAIN rules /\ j \in DOMAIN rules
      BY <1>1, <2>2
    <3>2. m[i][1] \in Seq(Seq(Words)) /\ m[j][1] \in Seq(Seq(Words))
      BY <2>2 DEF Matched, PatternsOK
    <3> QED BY <3>1, <3>2, InBetter, SameOrder
  <2>3. s[i - 1] # 0 => s[i - 1] \in E
    BY <1>2
  <2>4. i # 0
    OBVIOUS
  <2> HIDE DEF E, B
  <2> QED BY <2>1, <2>2, <2>3, <2>4, Zenon DEF Kept
<1>3. \E s : s = [i \in 0..n |-> Body(s, i)]
  <2>1. PICK g \in [0..n -> V] : Scans(g, E, B, n)
    BY <1>1, ScanExists
  <2>2. ASSUME NEW i \in 0..n PROVE g[i] = Body(g, i)
    <3>1. CASE i = 0
      BY <2>1, <3>1 DEF Scans
    <3>2. CASE i # 0
      <4>1. i \in 1..n /\ i - 1 \in 0..n
        BY <3>2
      <4>2. g[i - 1] \in V
        BY <4>1
      <4>3. Body(g, i) = Kept(E, B, i, g[i - 1])
        BY <1>2, <4>1, <4>2
      <4> QED BY <2>1, <3>2, <4>3 DEF Scans
    <3> QED BY <3>1, <3>2
  <2>3. g = [i \in 0..n |-> Body(g, i)]
    BY <2>2
  <2> QED BY <2>3
<1> DEFINE h == CHOOSE s : s = [i \in 0..n |-> Body(s, i)]
<1>4. h = [i \in 0..n |-> Body(h, i)]
  BY <1>3, Zenon
<1>5. Py_best_of(rules, m, eligible) = h[n]
  BY Zenon DEF Py_best_of
<1> HIDE DEF h
<1>6. h[0] = 0
  BY <1>1, <1>4
<1>7. \A i \in 1..n : h[i] = Body(h, i)
  <2> HIDE DEF Body
  <2> QED BY <1>1, <1>4
<1>8. \A i \in 1..n : h[i - 1] \in V => h[i] = Kept(E, B, i, h[i - 1])
  <2> HIDE DEF Body
  <2> QED BY <1>2, <1>7
<1> HIDE DEF E, B
<1>9. Ranks(B, E)
  BY BetterRanks DEF E, B
<1>10. IsFirst(E, B, h[n])
  BY <1>1, <1>6, <1>8, <1>9, ScanOf
<1> QED BY <1>5, <1>10 DEF E, B

(***************************************************************************)
(* Hosts.                                                                  *)
(***************************************************************************)

\* A host with another spelling, field by field.
LEMMA HostExcept ==
    ASSUME NEW h \in Hosts, NEW e
    PROVE  [h EXCEPT !.upper = FALSE, !.tail = e]
             = [labels |-> h.labels, upper |-> FALSE, tail |-> e]
<1> DEFINE x == [h EXCEPT !.upper = FALSE, !.tail = e]
<1>1. x \in [labels : Seq(STRING), upper : BOOLEAN, tail : {e}]
  BY DEF Hosts
<1>2. x.labels = h.labels /\ x.upper = FALSE /\ x.tail = e
  BY DEF Hosts
<1> HIDE DEF x
<1>3. x = [labels |-> x.labels, upper |-> x.upper, tail |-> x.tail]
  BY <1>1
<1>4. x = [labels |-> h.labels, upper |-> FALSE, tail |-> e]
  BY <1>2, <1>3
<1> QED BY <1>4 DEF x

\* Both strip a port and then a dot, and nothing else.
LEMMA SameCanonicalHost ==
    ASSUME NEW h \in Hosts
    PROVE  /\ canonicalHost(h) = Py_canonical_host(h)
           /\ canonicalHost(h) \in Hosts
<1> DEFINE tail == h.tail
           n == Len(tail)
           colons == {i \in DOMAIN tail : tail[i] # "."}
           bare == IF Cardinality(colons) = 1 /\ n \in colons /\ tail[n] = ":443"
                   THEN SubSeq(tail, 1, n - 1) ELSE tail
           end == IF bare # <<>> /\ bare[Len(bare)] = "."
                   THEN SubSeq(bare, 1, Len(bare) - 1) ELSE bare
<1>1. tail \in Seq(STRING) /\ n \in Nat
  BY DEF Hosts
<1>2. n \in colons /\ tail[n] = ":443" <=> tail # <<>> /\ tail[n] = ":443"
  BY <1>1
<1>3. StripPort(tail) = bare
  BY <1>2, Zenon DEF StripPort, Colons, isAllDigits, AllButLast
<1>4. bare \in Seq(STRING)
  <2>1. SubSeq(tail, 1, n - 1) \in Seq(STRING)
    <3>1. \A i \in 1..(n - 1) : tail[i] \in STRING
      BY <1>1
    <3>2. 1 \in Int /\ n - 1 \in Int
      BY <1>1
    <3> HIDE DEF tail, n
    <3> QED BY <3>1, <3>2, SubSeqProperties
  <2> QED BY <1>1, <2>1
<1>5. StripDot(bare) = end /\ end \in Seq(STRING)
  <2> HIDE DEF bare
  <2>1. StripDot(bare) = end
    BY DEF StripDot, EndsWith, AllButLast
  <2>2. SubSeq(bare, 1, Len(bare) - 1) \in Seq(STRING)
    <3>1. \A i \in 1..(Len(bare) - 1) : bare[i] \in STRING
      BY <1>4
    <3>2. 1 \in Int /\ Len(bare) - 1 \in Int
      BY <1>4
    <3> QED BY <3>1, <3>2, SubSeqProperties
  <2> QED BY <1>4, <2>1, <2>2
<1>6. Py_canonical_host(h) = [labels |-> h.labels, upper |-> FALSE, tail |-> end]
  BY Zenon DEF Py_canonical_host
<1>7. canonicalHost(h) = [h EXCEPT !.upper = FALSE, !.tail = end]
  BY <1>3, <1>5 DEF canonicalHost
<1> HIDE DEF end
<1>8. [h EXCEPT !.upper = FALSE, !.tail = end]
        = [labels |-> h.labels, upper |-> FALSE, tail |-> end]
  BY HostExcept
<1> QED BY <1>5, <1>6, <1>7, <1>8 DEF Hosts

\* A host pattern matches in Go when it does in Python: a suffix compared as a
\* sequence is a suffix compared label by label.
LEMMA SameMatchHost ==
    ASSUME NEW p \in Seq(Words), p # <<>>, NEW h \in Hosts
    PROVE  /\ matchHost(p, h) <=> Py_match_host(p, h)
           /\ Py_host_rank(p) = hostRank(p)
<1> DEFINE n == Len(h.labels)
           U == Words \cup STRING
           d == n - Len(p)
<1>1. /\ n \in Nat /\ Len(p) \in Nat \ {0} /\ h.labels \in Seq(STRING)
      /\ p \in Seq(U) /\ h.labels \in Seq(U)
  BY SeqMonotonic DEF Hosts
<1>2. Py_host_rank(p) = hostRank(p)
  BY DEF Py_host_rank, hostRank
<1>3. CASE p = <<"*">>
  BY <1>2, <1>3 DEF matchHost, Py_match_host, hostRank
<1>4. CASE p # <<"*">> /\ p[1] = "*"
  <2>1. matchHost(p, h) <=>
          /\ h.tail = <<>> /\ n > Len(p) - 1
          /\ SubSeq(h.labels, n - (Len(p) - 1) + 1, n) = Tail(p)
    BY <1>4 DEF matchHost, hostRank
  <2>2. Py_match_host(p, h) <=>
          h.tail = <<>> /\ d >= 0 /\ \A i \in 2..Len(p) : h.labels[i + d] = p[i]
    BY <1>4 DEF Py_match_host
  <2>3. ASSUME d >= 0
        PROVE  SubSeq(h.labels, n - (Len(p) - 1) + 1, n) = Tail(p)
                 <=> \A i \in 2..Len(p) : h.labels[i + d] = p[i]
    <3> DEFINE s == SubSeq(h.labels, d + 2, n)
               t == Tail(p)
    <3>1. /\ s \in Seq(U) /\ Len(s) = Len(p) - 1
          /\ \A i \in 1..(Len(p) - 1) : s[i] = h.labels[d + 1 + i]
      <4>1. \A i \in (d + 2)..n : h.labels[i] \in U
        BY <1>1, <2>3
      <4>2. /\ s \in Seq(U) /\ Len(s) = IF d + 2 <= n THEN n - (d + 2) + 1 ELSE 0
            /\ \A i \in 1..(n - (d + 2) + 1) : s[i] = h.labels[(d + 2) + i - 1]
        BY <1>1, <4>1, SubSeqProperties
      <4>3. n - (d + 2) + 1 = Len(p) - 1 /\ (d + 2 <= n <=> 1 <= Len(p) - 1)
        BY <1>1
      <4>4. d \in Int /\ Len(p) \in Nat \ {0}
        BY <1>1
      <4> HIDE DEF s, n, d
      <4> QED BY <4>2, <4>3, <4>4
    <3>2. /\ t \in Seq(U) /\ Len(t) = Len(p) - 1
          /\ \A i \in 1..(Len(p) - 1) : t[i] = p[i + 1]
      BY <1>1, HeadTailProperties
    <3>3. n - (Len(p) - 1) + 1 = d + 2
      BY <1>1
    <3> HIDE DEF s, t
    <3>4. s = t <=> \A i \in 1..(Len(p) - 1) : h.labels[d + 1 + i] = p[i + 1]
      BY <3>1, <3>2, SeqEqual, ZenonT(30)
    <3>5. (\A i \in 1..(Len(p) - 1) : h.labels[d + 1 + i] = p[i + 1])
            <=> \A i \in 2..Len(p) : h.labels[i + d] = p[i]
      <4>0. d \in Int /\ Len(p) \in Nat
        BY <1>1
      <4> HIDE DEF n, d
      <4>1. ASSUME \A i \in 1..(Len(p) - 1) : h.labels[d + 1 + i] = p[i + 1],
                   NEW i \in 2..Len(p)
            PROVE  h.labels[i + d] = p[i]
        <5>1. i - 1 \in 1..(Len(p) - 1) /\ d + 1 + (i - 1) = i + d /\ (i - 1) + 1 = i
          BY <4>0
        <5> QED BY <4>1, <5>1
      <4>2. ASSUME \A i \in 2..Len(p) : h.labels[i + d] = p[i],
                   NEW i \in 1..(Len(p) - 1)
            PROVE  h.labels[d + 1 + i] = p[i + 1]
        <5>1. i + 1 \in 2..Len(p) /\ (i + 1) + d = d + 1 + i
          BY <4>0
        <5> QED BY <4>2, <5>1
      <4> QED BY <4>1, <4>2
    <3> QED BY <3>3, <3>4, <3>5 DEF s, t
  <2>4. n > Len(p) - 1 <=> d >= 0
    BY <1>1
  <2> HIDE DEF n, d
  <2> QED BY <1>2, <2>1, <2>2, <2>3, <2>4
<1>5. CASE p # <<"*">> /\ p[1] # "*"
  <2>1. matchHost(p, h) <=> h.tail = <<>> /\ p = h.labels
    BY <1>5 DEF matchHost, hostRank
  <2>2. Py_match_host(p, h) <=>
          h.tail = <<>> /\ d = 0 /\ \A i \in 1..Len(p) : h.labels[i] = p[i]
    BY <1>5 DEF Py_match_host
  <2>3. p = h.labels <=> d = 0 /\ \A i \in 1..Len(p) : h.labels[i] = p[i]
    BY <1>1, SeqEqual
  <2> QED BY <1>2, <2>1, <2>2, <2>3
<1> QED BY <1>3, <1>4, <1>5

(***************************************************************************)
(* Paths.                                                                  *)
(***************************************************************************)

\* What holds where a later place is in Y is what holds at a place in Y and,
\* before the last place, where it holds at the next one.
RunsTo(X, Y, n0) == \A j \in 1..n0 : j \in X <=> \E k \in j..n0 : k \in Y

StepsTo(X, Y, n0) ==
    \A j \in 1..n0 : j \in X <=> j \in Y \/ (j < n0 /\ j + 1 \in X)

\* By induction from the last place back.
LEMMA RunsSteps ==
    ASSUME NEW n \in Nat, NEW X, NEW Y
    PROVE  RunsTo(X, Y, n) <=> StepsTo(X, Y, n)
<1>1. ASSUME RunsTo(X, Y, n), NEW j \in 1..n
      PROVE  j \in X <=> j \in Y \/ (j < n /\ j + 1 \in X)
  <2>1. j \in X <=> \E k \in j..n : k \in Y
    BY <1>1 DEF RunsTo
  <2>2. j < n => (j + 1 \in X <=> \E k \in (j + 1)..n : k \in Y)
    BY <1>1 DEF RunsTo
  <2>3. \A k \in j..n : k = j \/ (j < n /\ k \in (j + 1)..n)
    OBVIOUS
  <2>4. j \in j..n /\ \A k \in (j + 1)..n : k \in j..n
    OBVIOUS
  <2> QED BY <2>1, <2>2, <2>3, <2>4
<1>2. ASSUME StepsTo(X, Y, n) PROVE RunsTo(X, Y, n)
  <2> DEFINE Runs(j) == j \in X <=> \E k \in j..n : k \in Y
             S == {d \in 0..(n - 1) : Runs(n - d)}
  <2>1. CASE n = 0
    BY <2>1 DEF RunsTo
  <2>2. CASE n > 0
    <3>1. 0 \in S
      <4>1. n \in 1..n /\ n..n = {n} /\ ~(n < n) /\ n - 0 = n /\ 0 \in 0..(n - 1)
        BY <2>2
      <4>2. n \in X <=> n \in Y
        BY <1>2, <4>1 DEF StepsTo
      <4> QED BY <4>1, <4>2
    <3>2. ASSUME NEW d \in 1..(n - 1), d - 1 \in S PROVE d \in S
      <4> DEFINE j == n - d
      <4>1. j \in 1..n /\ j < n /\ n - (d - 1) = j + 1
        OBVIOUS
      <4>2. Runs(j + 1)
        BY <3>2, <4>1
      <4>3. j \in X <=> j \in Y \/ j + 1 \in X
        BY <1>2, <4>1 DEF StepsTo
      <4>4. \A k \in j..n : k = j \/ k \in (j + 1)..n
        OBVIOUS
      <4>5. j \in j..n /\ \A k \in (j + 1)..n : k \in j..n
        OBVIOUS
      <4> HIDE DEF j
      <4>6. Runs(j)
        BY <4>2, <4>3, <4>4, <4>5
      <4> QED BY <4>6 DEF j
    <3>3. \A d \in 0..(n - 1) : d \in S
      <4> HIDE DEF S
      <4>1. n - 1 \in Nat
        BY <2>2
      <4> QED BY <3>1, <3>2, <4>1, UpTo
    <3>4. ASSUME NEW j \in 1..n PROVE Runs(j)
      <4>1. n - j \in 0..(n - 1) /\ n - (n - j) = j
        OBVIOUS
      <4> QED BY <3>3, <4>1
    <3> QED BY <3>4 DEF RunsTo
  <2> QED BY <2>1, <2>2
<1> QED BY <1>1, <1>2 DEF StepsTo

Deep == <<"*", "*">>

\* Row i of the table of matchSegments, and the same without the row itself.
SegRow(p, path, m, i) ==
    [j \in 1..(Len(path) + 1) |->
        IF i > Len(p) THEN TRUE
        ELSE IF p[i] = Deep
        THEN m[i + 1][j] \/ (j <= Len(path) /\ m[i][j + 1])
        ELSE /\ j <= Len(path)
             /\ GlobMatches(p[i], path[j])
             /\ m[i + 1][j + 1]]

SegRun(p, path, m, i) ==
    [j \in 1..(Len(path) + 1) |->
        IF i > Len(p) THEN TRUE
        ELSE IF p[i] = Deep
        THEN \E k \in j..(Len(path) + 1) : m[i + 1][k]
        ELSE /\ j <= Len(path)
             /\ GlobMatches(p[i], path[j])
             /\ m[i + 1][j + 1]]

\* A row depends on the next one only.
LEMMA SegRunLocal ==
    ASSUME NEW p, NEW path, NEW m, NEW o, NEW i \in Int, Len(p) \in Nat,
           i <= Len(p) => m[i + 1] = o[i + 1]
    PROVE  SegRun(p, path, m, i) = SegRun(p, path, o, i)
<1>1. CASE i > Len(p)
  BY <1>1, Zenon DEF SegRun
<1>2. CASE i <= Len(p)
  BY <1>2, Zenon DEF SegRun
<1> QED BY <1>1, <1>2

\* The table without self-reference can be filled, from the last row up.
LEMMA SegRunsExist ==
    ASSUME NEW p, NEW path, Len(p) \in Nat
    PROVE  \E m : m = [i \in 1..(Len(p) + 1) |-> SegRun(p, path, m, i)]
<1> DEFINE P == Len(p)
           S == {n \in 0..P : \E m : m = [i \in (P + 1 - n)..(P + 1) |-> SegRun(p, path, m, i)]}
<1>1. 0 \in S
  <2> DEFINE z == [i \in (P + 1)..(P + 1) |-> SegRun(p, path, <<>>, i)]
  <2>1. z = [i \in (P + 1)..(P + 1) |-> SegRun(p, path, z, i)]
    <3>1. ASSUME NEW i \in (P + 1)..(P + 1)
          PROVE  SegRun(p, path, <<>>, i) = SegRun(p, path, z, i)
      <4> HIDE DEF z
      <4> QED BY SegRunLocal
    <3> QED BY <3>1
  <2>2. \E m : m = [i \in (P + 1)..(P + 1) |-> SegRun(p, path, m, i)]
    <3> HIDE DEF z
    <3> QED BY <2>1
  <2>3. P + 1 - 0 = P + 1 /\ 0 \in 0..P
    OBVIOUS
  <2> QED BY <2>2, <2>3
<1>2. ASSUME NEW n \in 1..P, n - 1 \in S PROVE n \in S
  <2> DEFINE f == P + 1 - n
  <2>1. PICK g : g = [i \in (f + 1)..(P + 1) |-> SegRun(p, path, g, i)]
    <3>1. P + 1 - (n - 1) = f + 1
      OBVIOUS
    <3> QED BY <1>2, <3>1
  <2> DEFINE h == [i \in f..(P + 1) |-> IF i = f THEN SegRun(p, path, g, f) ELSE g[i]]
  <2>2. f \in 1..P /\ f \in Int
    OBVIOUS
  <2>3. \A i \in (f + 1)..(P + 1) : h[i] = g[i]
    BY <2>2
  <2>4. ASSUME NEW i \in f..(P + 1) PROVE h[i] = SegRun(p, path, h, i)
    <3> HIDE DEF f
    <3>1. i \in Int /\ (i <= P => i + 1 \in (f + 1)..(P + 1))
      BY <2>2
    <3>2. SegRun(p, path, g, i) = SegRun(p, path, h, i)
      <4> HIDE DEF h
      <4> QED BY <2>3, <3>1, SegRunLocal
    <3>3. h[i] = SegRun(p, path, g, i)
      <4>1. CASE i = f
        BY <4>1
      <4>2. CASE i # f
        <5>1. i \in (f + 1)..(P + 1)
          BY <2>2, <4>2
        <5> QED BY <2>1, <2>3, <5>1
      <4> QED BY <4>1, <4>2
    <3> QED BY <3>2, <3>3
  <2>5. h = [i \in f..(P + 1) |-> SegRun(p, path, h, i)]
    BY <2>4
  <2> HIDE DEF h
  <2> QED BY <2>5
<1>3. \A n \in 0..P : n \in S
  <2> HIDE DEF S
  <2> QED BY <1>1, <1>2, UpTo
<1>4. P \in 0..P /\ P + 1 - P = 1
  OBVIOUS
<1> QED BY <1>3, <1>4

\* That table satisfies the equation of matchSegments: a row's run says the
\* same as its steps.
LEMMA SegTableExists ==
    ASSUME NEW p, NEW path, Len(p) \in Nat, Len(path) \in Nat
    PROVE  \E m : m = [i \in 1..(Len(p) + 1) |-> SegRow(p, path, m, i)]
<1> DEFINE P == Len(p)
           N == Len(path) + 1
<1>1. PICK m : m = [i \in 1..(P + 1) |-> SegRun(p, path, m, i)]
  BY SegRunsExist
<1>2. ASSUME NEW i \in 1..(P + 1) PROVE SegRun(p, path, m, i) = SegRow(p, path, m, i)
  <2>1. CASE i > P
    BY <2>1, Zenon DEF SegRun, SegRow
  <2>2. CASE ~(i > P) /\ p[i] # Deep
    BY <2>2, Zenon DEF SegRun, SegRow
  <2>3. CASE ~(i > P) /\ p[i] = Deep
    <3> DEFINE X == {j \in 1..N : m[i][j]}
               Y == {j \in 1..N : m[i + 1][j]}
               run == [j \in 1..N |-> \E k \in j..N : m[i + 1][k]]
               step == [j \in 1..N |-> m[i + 1][j] \/ (j <= Len(path) /\ m[i][j + 1])]
    <3>1. SegRun(p, path, m, i) = run
      <4>1. SegRun(p, path, m, i) = [j \in 1..N |-> IF i > P THEN TRUE
                 ELSE IF p[i] = Deep THEN \E k \in j..N : m[i + 1][k]
                 ELSE j <= Len(path) /\ GlobMatches(p[i], path[j]) /\ m[i + 1][j + 1]]
        BY Zenon DEF SegRun
      <4> QED BY <4>1, <2>3, Zenon
    <3>2. SegRow(p, path, m, i) = step
      <4>1. SegRow(p, path, m, i) = [j \in 1..N |-> IF i > P THEN TRUE
                 ELSE IF p[i] = Deep THEN m[i + 1][j] \/ (j <= Len(path) /\ m[i][j + 1])
                 ELSE j <= Len(path) /\ GlobMatches(p[i], path[j]) /\ m[i + 1][j + 1]]
        BY Zenon DEF SegRow
      <4> QED BY <4>1, <2>3, Zenon
    <3>3. m[i] = run
      <4>1. m[i] = SegRun(p, path, m, i)
        BY <1>1
      <4> QED BY <3>1, <4>1
    <3>4. \A j \in 1..N : m[i][j] <=> \E k \in j..N : m[i + 1][k]
      <4>1. \A j \in 1..N : run[j] <=> \E k \in j..N : m[i + 1][k]
        BY Zenon
      <4> HIDE DEF run
      <4> QED BY <3>3, <4>1
    <3>5. RunsTo(X, Y, N)
      BY <3>4 DEF RunsTo
    <3>6. StepsTo(X, Y, N)
      BY <3>5, RunsSteps
    <3>7. ASSUME NEW j \in 1..N
          PROVE  (\E k \in j..N : m[i + 1][k])
                   <=> m[i + 1][j] \/ (j <= Len(path) /\ m[i][j + 1])
      <4>1. j \in X <=> j \in Y \/ (j < N /\ j + 1 \in X)
        BY <3>6 DEF StepsTo
      <4>2. j < N <=> j <= Len(path)
        OBVIOUS
      <4>3. j < N => j + 1 \in 1..N
        OBVIOUS
      <4> QED BY <3>4, <4>1, <4>2, <4>3
    <3>8. run = step
      BY <3>7, Zenon
    <3> QED BY <3>1, <3>2, <3>8
  <2> QED BY <2>1, <2>2, <2>3
<1>3. m = [i \in 1..(P + 1) |-> SegRow(p, path, m, i)]
  BY <1>1, <1>2
<1> QED BY <1>3

SegTable(p, path) == CHOOSE m : m = [i \in 1..(Len(p) + 1) |-> SegRow(p, path, m, i)]
SegAt(p, path, i, j) == SegTable(p, path)[i][j]

\* matchSegments is the table's first cell.
LEMMA SegIsCell ==
    ASSUME NEW p, NEW path, Len(p) \in Nat, Len(path) \in Nat
    PROVE  /\ SegTable(p, path) =
                [i \in 1..(Len(p) + 1) |-> SegRow(p, path, SegTable(p, path), i)]
           /\ matchSegments(p, path) = SegAt(p, path, 1, 1)
<1>1. SegTable(p, path) = [i \in 1..(Len(p) + 1) |-> SegRow(p, path, SegTable(p, path), i)]
  BY SegTableExists, Zenon DEF SegTable
<1>2. matchSegments(p, path) = SegTable(p, path)[1][1]
  BY Zenon DEF matchSegments, SegTable, SegRow, Deep
<1> QED BY <1>1, <1>2 DEF SegAt

\* What each cell of the table is.
LEMMA SegCells ==
    ASSUME NEW p, NEW path, Len(p) \in Nat, Len(path) \in Nat,
           NEW i \in 1..(Len(p) + 1), NEW j \in 1..(Len(path) + 1)
    PROVE  /\ i > Len(p) => SegAt(p, path, i, j)
           /\ i <= Len(p) /\ p[i] = Deep =>
                (SegAt(p, path, i, j) <=>
                    \/ SegAt(p, path, i + 1, j)
                    \/ j <= Len(path) /\ SegAt(p, path, i, j + 1))
           /\ i <= Len(p) /\ p[i] # Deep =>
                (SegAt(p, path, i, j) <=> /\ j <= Len(path)
                                          /\ GlobMatches(p[i], path[j])
                                          /\ SegAt(p, path, i + 1, j + 1))
<1> DEFINE m == SegTable(p, path)
<1>1. m[i] = SegRow(p, path, m, i)
  <2>1. m = [n \in 1..(Len(p) + 1) |-> SegRow(p, path, m, n)]
    BY SegIsCell
  <2> HIDE DEF m
  <2> QED BY <2>1
<1>2. \A n, k : SegAt(p, path, n, k) = m[n][k]
  BY DEF SegAt
<1> HIDE DEF m
<1>3. m[i][j] = IF i > Len(p) THEN TRUE
                ELSE IF p[i] = Deep
                THEN m[i + 1][j] \/ (j <= Len(path) /\ m[i][j + 1])
                ELSE j <= Len(path) /\ GlobMatches(p[i], path[j]) /\ m[i + 1][j + 1]
  <2>1. m[i][j] = SegRow(p, path, m, i)[j]
    BY <1>1, Zenon
  <2> QED BY <2>1, Zenon DEF SegRow
<1>4. i > Len(p) <=> ~(i <= Len(p))
  OBVIOUS
<1> QED BY <1>2, <1>3, <1>4, Zenon

\* The places of the path that element n of the pattern leads to from some.
Reach(p, path, n, at) ==
    IF p[n] = Deep
    THEN {j \in 1..(Len(path) + 1) : \E i \in at : i <= j}
    ELSE {j + 1 : j \in {i \in at : i <= Len(path) /\ GlobMatches(p[n], path[i])}}

\* Places of the path lead to places of the path.
LEMMA ReachType ==
    ASSUME NEW p, NEW path, Len(path) \in Nat, NEW n,
           NEW at \in SUBSET (1..(Len(path) + 1))
    PROVE  Reach(p, path, n, at) \in SUBSET (1..(Len(path) + 1))
<1>1. \A j \in 1..(Len(path) + 1) : j <= Len(path) => j + 1 \in 1..(Len(path) + 1)
  OBVIOUS
<1> QED BY <1>1 DEF Reach

\* Somewhere the rest of the pattern matches before an element of it is used
\* if and only if it does so somewhere after.
LEMMA ReachKeeps ==
    ASSUME NEW p, NEW path, Len(p) \in Nat, Len(path) \in Nat, NEW n \in 1..Len(p),
           NEW at \in SUBSET (1..(Len(path) + 1))
    PROVE  (\E j \in at : SegAt(p, path, n, j))
             <=> \E j \in Reach(p, path, n, at) : SegAt(p, path, n + 1, j)
<1> DEFINE N == Len(path) + 1
<1>1. n \in 1..(Len(p) + 1) /\ n <= Len(p) /\ N \in Nat
  OBVIOUS
<1>2. CASE p[n] = Deep
  <2> DEFINE X == {j \in 1..N : SegAt(p, path, n, j)}
             Y == {j \in 1..N : SegAt(p, path, n + 1, j)}
  <2>1. StepsTo(X, Y, N)
    <3>1. ASSUME NEW j \in 1..N
          PROVE  j \in X <=> j \in Y \/ (j < N /\ j + 1 \in X)
      <4>1. SegAt(p, path, n, j) <=>
                    \/ SegAt(p, path, n + 1, j)
                    \/ j <= Len(path) /\ SegAt(p, path, n, j + 1)
        BY <1>1, <1>2, SegCells
      <4>2. (j <= Len(path) <=> j < N) /\ (j < N => j + 1 \in 1..N)
        OBVIOUS
      <4> QED BY <4>1, <4>2
    <3> HIDE DEF X, Y, N
    <3> QED BY <3>1 DEF StepsTo
  <2>2. RunsTo(X, Y, N)
    BY <1>1, <2>1, RunsSteps
  <2>3. \A j \in 1..N : SegAt(p, path, n, j) <=> \E k \in j..N : SegAt(p, path, n + 1, k)
    <3>1. ASSUME NEW j \in 1..N
          PROVE  SegAt(p, path, n, j) <=> \E k \in j..N : SegAt(p, path, n + 1, k)
      <4>1. j \in X <=> \E k \in j..N : k \in Y
        BY <2>2 DEF RunsTo
      <4>2. \A k \in j..N : k \in 1..N
        BY <1>1
      <4> HIDE DEF N
      <4> QED BY <4>1, <4>2
    <3> QED BY <3>1
  <2>4. Reach(p, path, n, at) = {j \in 1..N : \E i \in at : i <= j}
    BY <1>2 DEF Reach
  <2>5. ASSUME NEW j \in at, SegAt(p, path, n, j)
        PROVE  \E k \in Reach(p, path, n, at) : SegAt(p, path, n + 1, k)
    <3>1. PICK k \in j..N : SegAt(p, path, n + 1, k)
      BY <2>3, <2>5
    <3>2. k \in 1..N /\ j <= k
      BY <1>1
    <3> HIDE DEF N
    <3> QED BY <2>4, <3>1, <3>2
  <2>6. ASSUME NEW k \in Reach(p, path, n, at), SegAt(p, path, n + 1, k)
        PROVE  \E j \in at : SegAt(p, path, n, j)
    <3>1. k \in 1..N /\ \E i \in at : i <= k
      BY <2>4
    <3>2. PICK i \in at : i <= k
      BY <3>1
    <3>3. i \in 1..N /\ k \in i..N
      BY <1>1, <3>1, <3>2
    <3> HIDE DEF N
    <3> QED BY <2>3, <2>6, <3>3
  <2> QED BY <2>5, <2>6
<1>3. CASE p[n] # Deep
  <2>1. \A j \in at : SegAt(p, path, n, j) <=>
            /\ j <= Len(path) /\ GlobMatches(p[n], path[j])
            /\ SegAt(p, path, n + 1, j + 1)
    BY <1>1, <1>3, SegCells
  <2>2. Reach(p, path, n, at) =
            {j + 1 : j \in {i \in at : i <= Len(path) /\ GlobMatches(p[n], path[i])}}
    BY <1>3 DEF Reach
  <2>3. ASSUME NEW j \in at, SegAt(p, path, n, j)
        PROVE  \E k \in Reach(p, path, n, at) : SegAt(p, path, n + 1, k)
    BY <2>1, <2>2, <2>3
  <2>4. ASSUME NEW k \in Reach(p, path, n, at), SegAt(p, path, n + 1, k)
        PROVE  \E j \in at : SegAt(p, path, n, j)
    <3>1. PICK j \in at : /\ j <= Len(path) /\ GlobMatches(p[n], path[j])
                          /\ k = j + 1
      BY <2>2
    <3> QED BY <2>1, <2>4, <3>1
  <2> QED BY <2>3, <2>4
<1> QED BY <1>2, <1>3

\* A path pattern matches in Go when it does in Python.
LEMMA SameMatchSegments ==
    ASSUME NEW p, NEW path, Len(p) \in Nat, Len(path) \in Nat
    PROVE  matchSegments(p, path) <=> Py_match_segments(p, path)
<1> DEFINE P == Len(p)
           V == SUBSET (1..(Len(path) + 1))
           Body(m, n) == IF n = 0 THEN {1} ELSE Reach(p, path, n, m[n - 1])
           step == [n \in 1..P |-> [at \in V |-> Reach(p, path, n, at)]]
<1>1. step \in [1..P -> [V -> V]]
  <2>1. \A n \in 1..P, at \in V : Reach(p, path, n, at) \in V
    BY ReachType
  <2> HIDE DEF V
  <2> QED BY <2>1
<1>2. {1} \in V
  OBVIOUS
<1>3. \A n \in 1..P, at \in V : step[n][at] = Reach(p, path, n, at)
  OBVIOUS
<1> HIDE DEF step, V
<1>4. PICK g \in [0..P -> V] : Goes(g, P, {1}, step)
  BY <1>1, <1>2, Iterate
<1>5. ASSUME NEW n \in 0..P PROVE g[n] = Body(g, n)
  <2>1. g[n] = IF n = 0 THEN {1} ELSE step[n][g[n - 1]]
    BY <1>4 DEF Goes
  <2>2. n # 0 => n \in 1..P /\ g[n - 1] \in V
    OBVIOUS
  <2> QED BY <1>3, <2>1, <2>2
<1>6. \E m : m = [n \in 0..P |-> Body(m, n)]
  <2>1. g = [n \in 0..P |-> Body(g, n)]
    BY <1>5
  <2> QED BY <2>1
<1> DEFINE h == CHOOSE m : m = [n \in 0..P |-> Body(m, n)]
<1>7. h = [n \in 0..P |-> Body(h, n)]
  BY <1>6, Zenon
<1>8. Py_match_segments(p, path) <=> h[P] # {}
  BY Zenon DEF Py_match_segments, Reach, Deep
<1> HIDE DEF h
<1>9. \A n \in 0..P : h[n] = Body(h, n)
  <2> HIDE DEF Body
  <2> QED BY <1>7, Zenon
<1> DEFINE Somewhere(n) == \E j \in h[n] : SegAt(p, path, n + 1, j)
           S == {n \in 0..P : h[n] \in V /\ (SegAt(p, path, 1, 1) <=> Somewhere(n))}
<1>10. 0 \in S
  <2>1. 0 \in 0..P /\ 0 + 1 = 1
    OBVIOUS
  <2>2. h[0] = {1}
    BY <1>9, <2>1
  <2> QED BY <1>2, <2>1, <2>2
<1>11. ASSUME NEW n \in 1..P, n - 1 \in S PROVE n \in S
  <2>1. h[n - 1] \in V /\ (n - 1) + 1 = n /\ n \in 0..P /\ n # 0
    BY <1>11
  <2>2. h[n] = Reach(p, path, n, h[n - 1])
    BY <1>9, <2>1
  <2>3. h[n] \in V
    BY <2>1, <2>2, ReachType DEF V
  <2>4. Somewhere(n - 1) <=> Somewhere(n)
    BY <2>1, <2>2, ReachKeeps DEF V
  <2>5. SegAt(p, path, 1, 1) <=> Somewhere(n - 1)
    BY <1>11
  <2> HIDE DEF Somewhere
  <2> QED BY <2>1, <2>3, <2>4, <2>5
<1>12. \A n \in 0..P : n \in S
  <2> HIDE DEF S
  <2> QED BY <1>10, <1>11, UpTo
<1>13. h[P] \in V /\ (SegAt(p, path, 1, 1) <=> Somewhere(P))
  <2>1. P \in 0..P
    OBVIOUS
  <2> QED BY <1>12, <2>1
<1>14. \A j \in h[P] : SegAt(p, path, P + 1, j)
  <2>1. P + 1 \in 1..(P + 1) /\ P + 1 > P
    OBVIOUS
  <2>2. \A j \in h[P] : j \in 1..(Len(path) + 1)
    BY <1>13 DEF V
  <2> QED BY <2>1, <2>2, SegCells
<1>15. matchSegments(p, path) = SegAt(p, path, 1, 1)
  BY SegIsCell
<1> QED BY <1>8, <1>13, <1>14, <1>15

\* Go and Python have the same best rule.
LEMMA SameBest ==
    ASSUME NEW rules, RulesOK(rules), NEW m, PatternsOK(rules, m), NEW eligible
    PROVE  bestOf(rules, m, eligible) = Py_best_of(rules, m, eligible)
<1>1. Matched(rules, m, eligible) \subseteq Nat
  BY DEF Matched, RulesOK
<1> QED BY <1>1, GoBest, PyBest, FirstUnique

(***************************************************************************)
(* The path pattern by which a rule matches.                               *)
(***************************************************************************)

MatchedPaths(ps, path) == {i \in DOMAIN ps : matchSegments(ps[i], path)}

PatternPairs(r, ps) ==
    {e \in (DOMAIN ps) \X (DOMAIN ps) : moreSpecific(r, ps[e[1]], r, ps[e[2]])}

\* Specificity is a strict weak order of the path patterns of one rule.
LEMMA PatternRanks ==
    ASSUME NEW r, RuleOK(r), NEW ps \in Seq(Seq(Seq(Words))), NEW path
    PROVE  Ranks(PatternPairs(r, ps), MatchedPaths(ps, path))
<1> DEFINE E == MatchedPaths(ps, path)
           B == PatternPairs(r, ps)
           F(i) == ruleSpecificity(r, ps[i])
           K == Key(r)
<1>1. K \in Seq(Int) /\ \A i \in E : i \in DOMAIN ps /\ F(i) \in Fields
  <2>1. \A i \in E : i \in DOMAIN ps /\ ps[i] \in Seq(Seq(Words))
    BY DEF MatchedPaths
  <2> QED BY <2>1, SpecificityType, KeyType
<1>2. ASSUME NEW i \in E, NEW j \in E
      PROVE  <<i, j>> \in B <=> Above(F(i), K, F(j), K)
  <2>1. <<i, j>> \in B <=> moreSpecific(r, ps[i], r, ps[j])
    BY <1>1 DEF PatternPairs
  <2> QED BY <2>1, SpecificIsAbove
<1> HIDE DEF E, B, F, K
<1>3. ASSUME NEW i \in E, NEW j \in E, <<i, j>> \in B PROVE <<j, i>> \notin B
  BY <1>1, <1>2, <1>3, AboveAsymmetric
<1>4. ASSUME NEW i \in E, NEW j \in E, NEW k \in E, <<i, j>> \notin B, <<j, k>> \notin B
      PROVE  <<i, k>> \notin B
  BY <1>1, <1>2, <1>4, AboveNegative
<1>5. Ranks(B, E)
  BY <1>3, <1>4 DEF Ranks
<1> QED BY <1>5 DEF E, B

\* The pattern with an index, if there is one.
PatternAt(ps, i) == IF i = 0 THEN Nil ELSE Some(ps[i])

\* Go's choice, by the first of the best indices.
LEMMA GoPattern ==
    ASSUME NEW r, RuleOK(r), NEW ps \in Seq(Seq(Seq(Words))), r.paths = Some(ps),
           NEW req, matchHost(r.host, req.host), matchMethod(r.methods, req.method),
           NEW b, IsFirst(MatchedPaths(ps, req.path), PatternPairs(r, ps), b)
    PROVE  ruleMatches(r, req) = PatternAt(ps, b)
<1> DEFINE E == MatchedPaths(ps, req.path)
           B == PatternPairs(r, ps)
           U == {i \in E : \A j \in E : ~moreSpecific(r, ps[j], r, ps[i])}
<1>1. r.paths[1] = ps /\ r.paths # Nil
  BY DEF Some, Nil
<1>2. ruleMatches(r, req) = IF E = {} THEN Nil ELSE Some(ps[LeastOf(U)])
  <2> DEFINE Hit(qs) == MatchedPaths(qs, req.path)
             Top(qs) == {i \in Hit(qs) : \A j \in Hit(qs) :
                            ~moreSpecific(r, qs[j], r, qs[i])}
             Go(qs) == IF Hit(qs) = {} THEN Nil ELSE Some(qs[LeastOf(Top(qs))])
  <2>1. ruleMatches(r, req) = Go(r.paths[1])
    BY <1>1, Zenon DEF ruleMatches, Best, LeastOf, MatchedPaths
  <2>2. Go(ps) = IF E = {} THEN Nil ELSE Some(ps[LeastOf(U)])
    OBVIOUS
  <2> HIDE DEF Go
  <2> QED BY <1>1, <2>1, <2>2
<1>3. E \subseteq DOMAIN ps /\ E \subseteq Nat /\ 0 \notin E
  BY DEF MatchedPaths
<1>4. TopOf(E, B) = U
  <2>1. ASSUME NEW i \in E, NEW j \in E
        PROVE  <<i, j>> \in B <=> moreSpecific(r, ps[i], r, ps[j])
    BY <1>3 DEF PatternPairs
  <2> HIDE DEF E, B
  <2> QED BY <2>1 DEF TopOf
<1> HIDE DEF E, B, U
<1>5. IsFirst(E, B, b)
  BY DEF E, B
<1>6. CASE E = {}
  BY <1>2, <1>5, <1>6 DEF IsFirst, PatternAt
<1>7. CASE E # {}
  <2>1. b = LeastOf(U) /\ b \in E
    BY <1>3, <1>4, <1>5, <1>7, FirstIsLeast DEF IsFirst
  <2> QED BY <1>2, <1>3, <1>7, <2>1 DEF PatternAt
<1> QED BY <1>6, <1>7

\* What Python has found after it has looked at one more pattern.
Py_kept(r, ps, path, i, best) ==
    IF ~Py_match_segments(ps[i], path) THEN best
    ELSE IF best = Nil THEN Some(ps[i])
    ELSE IF Py_more_specific(Py_rule_specificity(r, ps[i]),
                             Py_rule_specificity(r, best[1]))
    THEN Some(ps[i]) ELSE best

\* One step of the scan keeps the pattern at the index a scan keeps.
LEMMA PyKept ==
    ASSUME NEW r, NEW ps \in Seq(Seq(Seq(Words))), NEW path, Len(path) \in Nat,
           NEW i \in 1..Len(ps), NEW b \in MatchedPaths(ps, path) \cup {0}
    PROVE  Py_kept(r, ps, path, i, PatternAt(ps, b))
             = PatternAt(ps, Kept(MatchedPaths(ps, path), PatternPairs(r, ps), i, b))
<1> DEFINE E == MatchedPaths(ps, path)
           B == PatternPairs(r, ps)
<1>1. /\ i \in DOMAIN ps /\ ps[i] \in Seq(Seq(Words)) /\ Len(ps[i]) \in Nat /\ i # 0
      /\ E \subseteq DOMAIN ps /\ E \subseteq Nat /\ 0 \notin E
  BY DEF MatchedPaths
<1>2. i \in E <=> Py_match_segments(ps[i], path)
  BY <1>1, SameMatchSegments DEF MatchedPaths
<1>3. CASE b = 0
  BY <1>1, <1>2, <1>3, Zenon DEF Py_kept, PatternAt, Kept
<1>4. CASE b # 0
  <2>1. b \in E /\ b \in DOMAIN ps /\ ps[b] \in Seq(Seq(Words))
    BY <1>1, <1>4
  <2>2. <<i, b>> \in B <=> Py_more_specific(Py_rule_specificity(r, ps[i]),
                                           Py_rule_specificity(r, ps[b]))
    <3>1. <<i, b>> \in B <=> moreSpecific(r, ps[i], r, ps[b])
      BY <1>1, <2>1 DEF PatternPairs
    <3> QED BY <1>1, <2>1, <3>1, SameOrder
  <2>3. PatternAt(ps, b) = Some(ps[b]) /\ Some(ps[b]) # Nil /\ Some(ps[b])[1] = ps[b]
    BY <1>4 DEF PatternAt, Some, Nil
  <2>4. PatternAt(ps, i) = Some(ps[i])
    BY <1>1 DEF PatternAt
  <2> HIDE DEF E, B
  <2>5. Py_kept(r, ps, path, i, Some(ps[b]))
          = IF i \notin E THEN Some(ps[b])
            ELSE IF <<i, b>> \in B THEN Some(ps[i]) ELSE Some(ps[b])
    BY <1>2, <2>2, <2>3, Zenon DEF Py_kept
  <2>6. Kept(E, B, i, b) = IF i \notin E THEN b ELSE IF <<i, b>> \in B THEN i ELSE b
    BY <1>4, Zenon DEF Kept
  <2> QED BY <2>3, <2>4, <2>5, <2>6 DEF E, B
<1> QED BY <1>3, <1>4

\* Python's scan finds the pattern at the index a scan ends with.
LEMMA PyPattern ==
    ASSUME NEW r, NEW ps \in Seq(Seq(Seq(Words))), r.paths = Some(ps),
           NEW req, Len(req.path) \in Nat, Py_match_host(r.host, req.host),
           Py_match_method(r.methods, req.method),
           NEW s \in [0..Len(ps) -> MatchedPaths(ps, req.path) \cup {0}],
           Scans(s, MatchedPaths(ps, req.path), PatternPairs(r, ps), Len(ps))
    PROVE  Py_rule_matches(r, req) = PatternAt(ps, s[Len(ps)])
<1> DEFINE n == Len(ps)
           E == MatchedPaths(ps, req.path)
           B == PatternPairs(r, ps)
           Body(o, i) == IF i = 0 THEN Nil ELSE Py_kept(r, ps, req.path, i, o[i - 1])
           g == [i \in 0..n |-> PatternAt(ps, s[i])]
<1>1. r.paths[1] = ps /\ r.paths # Nil /\ n \in Nat
  BY DEF Some, Nil
<1>2. s[0] = 0 /\ \A i \in 1..n : s[i] = Kept(E, B, i, s[i - 1])
  <2>1. Scans(s, E, B, n)
    OBVIOUS
  <2> HIDE DEF E, B
  <2>2. 0 \in 0..n /\ \A i \in 1..n : i \in 0..n /\ i # 0
    BY <1>1
  <2> QED BY <2>1, <2>2 DEF Scans
<1>3. ASSUME NEW i \in 0..n PROVE g[i] = Body(g, i)
  <2>1. g[i] = PatternAt(ps, s[i])
    OBVIOUS
  <2>2. CASE i = 0
    BY <1>2, <2>1, <2>2 DEF PatternAt
  <2>3. CASE i # 0
    <3>1. i \in 1..n /\ i - 1 \in 0..n
      BY <2>3
    <3>2. g[i - 1] = PatternAt(ps, s[i - 1]) /\ s[i - 1] \in E \cup {0}
      BY <3>1
    <3>3. Py_kept(r, ps, req.path, i, PatternAt(ps, s[i - 1]))
            = PatternAt(ps, Kept(E, B, i, s[i - 1]))
      BY <3>1, <3>2, PyKept
    <3> HIDE DEF g
    <3> QED BY <1>2, <2>1, <2>3, <3>1, <3>2, <3>3
  <2> QED BY <2>2, <2>3
<1>4. \E o : o = [i \in 0..n |-> Body(o, i)]
  <2>1. g = [i \in 0..n |-> Body(g, i)]
    <3> HIDE DEF Body
    <3> QED BY <1>3
  <2> HIDE DEF g
  <2> QED BY <2>1
<1> DEFINE h == CHOOSE o : o = [i \in 0..n |-> Body(o, i)]
<1>5. h = [i \in 0..n |-> Body(h, i)]
  BY <1>4, Zenon
<1>6. Py_rule_matches(r, req) = h[n]
  <2> DEFINE Rec(qs) == CHOOSE o : o = [i \in 0..Len(qs) |->
                 IF i = 0 THEN Nil ELSE Py_kept(r, qs, req.path, i, o[i - 1])]
  <2>1. Py_rule_matches(r, req) = Rec(r.paths[1])[Len(r.paths[1])]
    BY <1>1, Zenon DEF Py_rule_matches, Py_kept
  <2>2. Rec(ps) = h
    OBVIOUS
  <2> HIDE DEF Rec, h
  <2> QED BY <1>1, <2>1, <2>2
<1> HIDE DEF h
<1>7. \A i \in 0..n : h[i] = Body(h, i)
  <2> HIDE DEF Body
  <2> QED BY <1>5, Zenon
<1> DEFINE S == {i \in 0..n : h[i] = PatternAt(ps, s[i])}
<1>8. 0 \in S
  <2>1. h[0] = Nil
    BY <1>1, <1>7
  <2> QED BY <1>1, <1>2, <2>1 DEF PatternAt
<1>9. ASSUME NEW i \in 1..n, i - 1 \in S PROVE i \in S
  <2>1. i \in 0..n /\ i # 0 /\ i - 1 \in 0..n
    BY <1>1
  <2>2. h[i] = Py_kept(r, ps, req.path, i, h[i - 1])
    BY <1>7, <2>1
  <2>3. h[i - 1] = PatternAt(ps, s[i - 1])
    BY <1>9
  <2>4. s[i - 1] \in E \cup {0}
    BY <2>1
  <2>5. h[i] = PatternAt(ps, Kept(E, B, i, s[i - 1]))
    BY <2>2, <2>3, <2>4, PyKept
  <2>6. h[i] = PatternAt(ps, s[i])
    BY <1>2, <2>5
  <2> QED BY <2>1, <2>6
<1>10. \A i \in 0..n : i \in S
  <2> HIDE DEF S
  <2> QED BY <1>1, <1>8, <1>9, UpTo
<1>11. n \in S
  BY <1>1, <1>10
<1> QED BY <1>6, <1>11

\* A rule matches in Go when it does in Python, and by the same pattern; one
\* without paths when its host and its methods do.
LEMMA SameRuleMatches ==
    ASSUME NEW r, RuleOK(r), NEW req \in RequestTypes
    PROVE  /\ ruleMatches(r, req) = Py_rule_matches(r, req)
           /\ ruleMatches(r, req) # Nil => ruleMatches(r, req)[1] \in Seq(Seq(Words))
           /\ r.paths = Nil =>
                (ruleMatches(r, req) # Nil <=>
                    matchHost(r.host, req.host) /\ matchMethod(r.methods, req.method))
           /\ ruleMatches(r, req) # Nil => matchHost(r.host, req.host)
<1>1. req.host \in Hosts /\ Len(req.path) \in Nat
  BY DEF RequestTypes
<1>2. matchHost(r.host, req.host) <=> Py_match_host(r.host, req.host)
  BY <1>1, SameMatchHost DEF RuleOK
<1>3. matchMethod(r.methods, req.method) <=> Py_match_method(r.methods, req.method)
  BY DEF matchMethod, Py_match_method
<1>4. CASE ~matchHost(r.host, req.host) \/ ~matchMethod(r.methods, req.method)
  <2>1. ruleMatches(r, req) = Nil
    BY <1>4, Zenon DEF ruleMatches
  <2>2. Py_rule_matches(r, req) = Nil
    BY <1>2, <1>3, <1>4, Zenon DEF Py_rule_matches
  <2> QED BY <1>4, <2>1, <2>2
<1>5. CASE /\ matchHost(r.host, req.host) /\ matchMethod(r.methods, req.method)
           /\ r.paths = Nil
  <2>1. ruleMatches(r, req) = Some(<<>>)
    BY <1>5, Zenon DEF ruleMatches
  <2>2. Py_rule_matches(r, req) = Some(<<>>)
    BY <1>2, <1>3, <1>5, Zenon DEF Py_rule_matches
  <2> QED BY <1>5, <2>1, <2>2 DEF Some, Nil
<1>6. CASE /\ matchHost(r.host, req.host) /\ matchMethod(r.methods, req.method)
           /\ r.paths # Nil
  <2> DEFINE ps == r.paths[1]
             n == Len(ps)
             E == MatchedPaths(ps, req.path)
             B == PatternPairs(r, ps)
  <2>1. r.paths = Some(ps) /\ ps \in Seq(Seq(Seq(Words)))
    BY <1>6 DEF RuleOK
  <2>2. n \in Nat /\ E \subseteq 1..n /\ DOMAIN ps = 1..n
    BY <2>1 DEF MatchedPaths
  <2>3. Ranks(B, E)
    BY <2>1, PatternRanks
  <2> HIDE DEF E, B, ps
  <2>4. PICK s \in [0..n -> E \cup {0}] : Scans(s, E, B, n)
    BY <2>2, ScanExists
  <2>5. IsFirst(E, B, s[n])
    BY <2>2, <2>3, <2>4, Scan
  <2>6. ruleMatches(r, req) = PatternAt(ps, s[n])
    BY <1>6, <2>1, <2>5, GoPattern DEF E, B
  <2>7. Py_rule_matches(r, req) = PatternAt(ps, s[n])
    BY <1>1, <1>2, <1>3, <1>6, <2>1, <2>4, PyPattern DEF E, B
  <2>8. PatternAt(ps, s[n]) # Nil => PatternAt(ps, s[n])[1] \in Seq(Seq(Words))
    <3>1. s[n] # 0 => s[n] \in 1..n
      BY <2>2, <2>4
    <3> QED BY <2>1, <2>2, <3>1 DEF PatternAt, Some, Nil
  <2> QED BY <1>6, <2>6, <2>7, <2>8
<1> QED BY <1>4, <1>5, <1>6

(***************************************************************************)
(* Decisions.                                                              *)
(***************************************************************************)

Patterns(rules, req) == [i \in DOMAIN rules |-> ruleMatches(rules[i], req)]

\* The patterns by which the rules of a policy match.
LEMMA PatternsTyped ==
    ASSUME NEW rules, RulesOK(rules), NEW req \in RequestTypes
    PROVE  /\ PatternsOK(rules, Patterns(rules, req))
           /\ Patterns(rules, req) = [i \in DOMAIN rules |-> Py_rule_matches(rules[i], req)]
<1>1. \A i \in DOMAIN rules : RuleOK(rules[i])
  BY DEF RulesOK
<1>2. \A i \in DOMAIN rules :
        /\ ruleMatches(rules[i], req) = Py_rule_matches(rules[i], req)
        /\ ruleMatches(rules[i], req) # Nil
             => ruleMatches(rules[i], req)[1] \in Seq(Seq(Words))
  BY <1>1, SameRuleMatches
<1>3. \A i \in DOMAIN rules : Patterns(rules, req)[i] = ruleMatches(rules[i], req)
  BY DEF Patterns
<1> QED BY <1>2, <1>3 DEF PatternsOK, Patterns

\* The best match is the same.
LEMMA SameBestMatch ==
    ASSUME NEW rules, RulesOK(rules), NEW req \in RequestTypes, NEW eligible
    PROVE  bestMatch(rules, req, eligible) = Py_best_match(rules, req, eligible)
<1>1. bestMatch(rules, req, eligible) = bestOf(rules, Patterns(rules, req), eligible)
  BY Zenon DEF bestMatch, Patterns
<1>2. Py_best_match(rules, req, eligible) = Py_best_of(rules, Patterns(rules, req), eligible)
  BY PatternsTyped, Zenon DEF Py_best_match
<1> QED BY <1>1, <1>2, PatternsTyped, SameBest

\* So is the decision, for a host that is spelled as rules spell it.
LEMMA SameDecideCanonical ==
    ASSUME NEW rs, RulesOK(rs.allow), RulesOK(rs.deny), NEW req \in RequestTypes
    PROVE  DecideCanonical(rs, req) = Py_decide_canonical(rs, req)
<1> DEFINE a == bestMatch(rs.allow, req, Elements(rs.allow))
           d == bestMatch(rs.deny, req, denies(rs, a))
<1>1. a = Py_best_match(rs.allow, req, Elements(rs.allow))
  BY SameBestMatch
<1>2. DecideCanonical(rs, req) = Verdict(rs, a, d)
  BY Zenon DEF DecideCanonical, DecideUnder, AnyRule
<1>3. denies(rs, a) = IF a # 0 /\ rs.allow[a].mode = "passthrough"
                      THEN {r \in Elements(rs.deny) : r.paths = Nil}
                      ELSE Elements(rs.deny)
  BY Zenon DEF denies, HostLevel, AnyRule, NoRule
<1>4. d = Py_best_match(rs.deny, req, denies(rs, a))
  BY SameBestMatch
<1> HIDE DEF a, d
<1>5. Py_decide_canonical(rs, req) = Py_verdict(rs, a, d)
  <2>1. Py_decide_canonical(rs, req) = Py_decide_under(rs, req, a)
    BY <1>1, Zenon DEF Py_decide_canonical
  <2>2. Py_decide_under(rs, req, a) =
          Py_verdict(rs, a, Py_best_match(rs.deny, req,
              IF a # 0 /\ rs.allow[a].mode = "passthrough"
              THEN {r \in Elements(rs.deny) : r.paths = Nil} ELSE Elements(rs.deny)))
    BY Zenon DEF Py_decide_under
  <2> QED BY <1>3, <1>4, <2>1, <2>2
<1>6. Verdict(rs, a, d) = Py_verdict(rs, a, d)
  <2>1. CASE d # 0
    BY <2>1 DEF Verdict, Py_verdict, NoRule
  <2>2. CASE d = 0 /\ a # 0
    BY <2>2 DEF Verdict, Py_verdict, NoRule
  <2>3. CASE d = 0 /\ a = 0
    BY <2>3 DEF Verdict, Py_verdict, NoRule
  <2> QED BY <2>1, <2>2, <2>3
<1> QED BY <1>2, <1>5, <1>6

\* A request whose host is spelled as rules spell it.
Spelt(q) == [q EXCEPT !.host = canonicalHost(@)]

\* Both spell it the same.
LEMMA SpeltType ==
    ASSUME NEW q \in RequestTypes
    PROVE  /\ Spelt(q) \in RequestTypes
           /\ Spelt(q) = [q EXCEPT !.host = Py_canonical_host(@)]
           /\ Spelt(q).host = canonicalHost(q.host) /\ Spelt(q).method = q.method
<1>1. q.host \in Hosts
  BY DEF RequestTypes
<1>2. canonicalHost(q.host) = Py_canonical_host(q.host) /\ canonicalHost(q.host) \in Hosts
  BY <1>1, SameCanonicalHost
<1> QED BY <1>2 DEF Spelt, RequestTypes

\* So is the decision on any request.
LEMMA SameDecide ==
    ASSUME NEW rs, RulesOK(rs.allow), RulesOK(rs.deny), NEW q \in RequestTypes
    PROVE  Decide(rs, q) = Py_decide(rs, q)
<1>1. Decide(rs, q) = DecideCanonical(rs, Spelt(q))
  BY Zenon DEF Decide, Spelt
<1>2. Py_decide(rs, q) = Py_decide_canonical(rs, Spelt(q))
  BY SpeltType, Zenon DEF Py_decide
<1> QED BY <1>1, <1>2, SpeltType, SameDecideCanonical

(***************************************************************************)
(* What is known at CONNECT.                                               *)
(***************************************************************************)

HostDenies(rules, h) ==
    {i \in DOMAIN rules : rules[i].paths = Nil /\ matchHost(rules[i].host, h)}

HigherPairs(rules) ==
    {e \in (DOMAIN rules) \X (DOMAIN rules) :
        hostRank(rules[e[1]].host) > hostRank(rules[e[2]].host)}

\* The rank of a host pattern is a strict weak order.
LEMMA HigherRanks ==
    ASSUME NEW rules, NEW h
    PROVE  Ranks(HigherPairs(rules), HostDenies(rules, h))
<1> DEFINE E == HostDenies(rules, h)
           B == HigherPairs(rules)
           R(i) == hostRank(rules[i].host)
<1>1. \A i \in E : i \in DOMAIN rules /\ R(i) \in Int
  BY DEF HostDenies, hostRank
<1>2. \A i, j \in E : <<i, j>> \in B <=> R(i) > R(j)
  BY <1>1 DEF HigherPairs
<1> HIDE DEF E, B, R
<1>3. Ranks(B, E)
  BY <1>1, <1>2 DEF Ranks
<1> QED BY <1>3 DEF E, B

\* The reason Go gives is that of the first of the highest denials.
LEMMA GoDenyReason ==
    ASSUME NEW rs, RulesOK(rs.deny), NEW host,
           NEW b, IsFirst(HostDenies(rs.deny, canonicalHost(host)), HigherPairs(rs.deny), b)
    PROVE  HostDisposition(rs, host).deny_reason =
             IF b = 0 THEN "" ELSE rs.deny[b].reason
<1> DEFINE h == canonicalHost(host)
           rules == rs.deny
           E == HostDenies(rules, h)
           B == HigherPairs(rules)
           U == {i \in E : \A j \in E :
                    ~(hostRank(rules[j].host) > hostRank(rules[i].host))}
           D == {i \in DOMAIN rules : rules[i] \in HostLevel(rules)
                                      /\ matchHost(rules[i].host, h)}
           V == {i \in D : \A j \in D :
                    ~(hostRank(rules[j].host) > hostRank(rules[i].host))}
<1>1. HostDisposition(rs, host).deny_reason =
        IF D = {} THEN "" ELSE rules[LeastOf(V)].reason
  BY Zenon DEF HostDisposition, Best, LeastOf
<1>2. E = D
  BY DEF HostDenies, HostLevel, Elements
<1>3. E \subseteq DOMAIN rules /\ E \subseteq Nat /\ 0 \notin E
  BY DEF HostDenies, RulesOK
<1>4. TopOf(E, B) = U
  <2>1. \A i, j \in E : <<i, j>> \in B
                         <=> hostRank(rules[i].host) > hostRank(rules[j].host)
    BY <1>3 DEF HigherPairs
  <2> HIDE DEF E, B
  <2> QED BY <2>1 DEF TopOf
<1>5. U = V
  <2> HIDE DEF E, D
  <2> QED BY <1>2
<1>6. IsFirst(E, B, b)
  OBVIOUS
<1> HIDE DEF E, B, U, V, D
<1>7. CASE E = {}
  BY <1>1, <1>2, <1>6, <1>7 DEF IsFirst
<1>8. CASE E # {}
  <2>1. b = LeastOf(U) /\ b \in E
    BY <1>3, <1>4, <1>6, <1>8, FirstIsLeast DEF IsFirst
  <2> QED BY <1>1, <1>2, <1>3, <1>5, <1>8, <2>1
<1> QED BY <1>7, <1>8

\* So is the one that Python's scan finds.
LEMMA PyDenyReason ==
    ASSUME NEW rs, RulesOK(rs.deny), NEW host \in Hosts
    PROVE  \E b : /\ IsFirst(HostDenies(rs.deny, canonicalHost(host)),
                             HigherPairs(rs.deny), b)
                  /\ Py_host_disposition(rs, host).deny_reason =
                        IF b = 0 THEN Nil ELSE Some(rs.deny[b].reason)
<1> DEFINE rules == rs.deny
           n == Len(rules)
           h == canonicalHost(host)
           E == HostDenies(rules, h)
           B == HigherPairs(rules)
           V == E \cup {0}
           Body(s, i) ==
             IF i = 0 THEN 0
             ELSE IF rules[i].paths # Nil \/ ~Py_match_host(rules[i].host, h)
             THEN s[i - 1]
             ELSE IF s[i - 1] = 0 THEN i
             ELSE IF Py_host_rank(rules[i].host) > Py_host_rank(rules[s[i - 1]].host)
             THEN i ELSE s[i - 1]
<1>1. E \subseteq 1..n /\ n \in Nat /\ DOMAIN rules = 1..n
  BY DEF HostDenies, RulesOK
<1>2. h \in Hosts /\ h = Py_canonical_host(host)
  BY SameCanonicalHost
<1>3. \A i \in DOMAIN rules :
        /\ matchHost(rules[i].host, h) <=> Py_match_host(rules[i].host, h)
        /\ Py_host_rank(rules[i].host) = hostRank(rules[i].host)
  BY <1>1, <1>2, SameMatchHost DEF RulesOK, RuleOK
<1>4. ASSUME NEW s, NEW i \in 1..n, s[i - 1] \in V
      PROVE  Body(s, i) = Kept(E, B, i, s[i - 1])
  <2>1. i \in E <=> ~(rules[i].paths # Nil \/ ~Py_match_host(rules[i].host, h))
    BY <1>1, <1>3 DEF HostDenies
  <2>2. ASSUME NEW j \in E
        PROVE  <<i, j>> \in B
               <=> Py_host_rank(rules[i].host) > Py_host_rank(rules[j].host)
    <3>1. i \in DOMAIN rules /\ j \in DOMAIN rules
      BY <1>1
    <3> QED BY <1>3, <3>1 DEF HigherPairs
  <2>3. s[i - 1] # 0 => s[i - 1] \in E
    BY <1>4
  <2>4. i # 0
    OBVIOUS
  <2> HIDE DEF E, B, h, rules
  <2> QED BY <2>1, <2>2, <2>3, <2>4, Zenon DEF Kept
<1>5. \E s : s = [i \in 0..n |-> Body(s, i)]
  <2>1. PICK g \in [0..n -> V] : Scans(g, E, B, n)
    BY <1>1, ScanExists
  <2>2. ASSUME NEW i \in 0..n PROVE g[i] = Body(g, i)
    <3>1. CASE i = 0
      BY <2>1, <3>1 DEF Scans
    <3>2. CASE i # 0
      <4>1. i \in 1..n /\ i - 1 \in 0..n
        BY <3>2
      <4>2. g[i - 1] \in V
        BY <4>1
      <4>3. Body(g, i) = Kept(E, B, i, g[i - 1])
        BY <1>4, <4>1, <4>2
      <4> QED BY <2>1, <3>2, <4>3 DEF Scans
    <3> QED BY <3>1, <3>2
  <2>3. g = [i \in 0..n |-> Body(g, i)]
    BY <2>2
  <2> QED BY <2>3
<1> DEFINE g == CHOOSE s : s = [i \in 0..n |-> Body(s, i)]
<1>6. g = [i \in 0..n |-> Body(g, i)]
  BY <1>5, Zenon
<1>7. Py_host_disposition(rs, host).deny_reason =
        IF g[n] = 0 THEN Nil ELSE Some(rules[g[n]].reason)
  <2>1. ASSUME NEW k, k = Py_canonical_host(host), k = h
        PROVE  Py_host_disposition(rs, host).deny_reason =
                 IF g[n] = 0 THEN Nil ELSE Some(rules[g[n]].reason)
    <3> DEFINE Found(x) == CHOOSE s : s = [i \in 0..n |->
                    IF i = 0 THEN 0
                    ELSE IF rules[i].paths # Nil \/ ~Py_match_host(rules[i].host, x)
                    THEN s[i - 1]
                    ELSE IF s[i - 1] = 0 THEN i
                    ELSE IF Py_host_rank(rules[i].host)
                              > Py_host_rank(rules[s[i - 1]].host)
                    THEN i ELSE s[i - 1]]
    <3>1. Py_host_disposition(rs, host).deny_reason =
            IF Found(Py_canonical_host(host))[n] = 0 THEN Nil
            ELSE Some(rules[Found(Py_canonical_host(host))[n]].reason)
      BY Zenon DEF Py_host_disposition
    <3>2. Found(h) = g
      OBVIOUS
    <3> HIDE DEF Found, g, h
    <3> QED BY <1>2, <3>1, <3>2
  <2> QED BY <1>2, <2>1
<1> HIDE DEF g
<1>8. \A i \in 0..n : g[i] = Body(g, i)
  <2> HIDE DEF Body
  <2> QED BY <1>6, Zenon
<1>9. g[0] = 0 /\ \A i \in 1..n : g[i - 1] \in V => g[i] = Kept(E, B, i, g[i - 1])
  <2>1. 0 \in 0..n /\ \A i \in 1..n : i \in 0..n
    BY <1>1
  <2>2. g[0] = 0
    BY <1>8, <2>1
  <2> HIDE DEF Body, V
  <2> QED BY <1>4, <1>8, <2>1, <2>2
<1> HIDE DEF E, B
<1>10. Ranks(B, E)
  BY HigherRanks DEF E, B
<1>11. IsFirst(E, B, g[n])
  BY <1>1, <1>9, <1>10, ScanOf
<1> QED BY <1>7, <1>11 DEF E, B

\* Both say that a host is tunnelled when the highest rules for it say so.
Allows(rules, h) == {i \in DOMAIN rules : matchHost(rules[i].host, h)}

Highest(rules, h) ==
    {i \in Allows(rules, h) : \A j \in Allows(rules, h) :
        ~(hostRank(rules[j].host) > hostRank(rules[i].host))}

Tunnelled(rules, h) ==
    /\ Allows(rules, h) # {}
    /\ \A i \in Highest(rules, h) : rules[i].mode = "passthrough"

\* Go says so.
LEMMA GoPassthrough ==
    ASSUME NEW rs, NEW host
    PROVE  HostDisposition(rs, host).passthrough <=> Tunnelled(rs.allow, canonicalHost(host))
BY Zenon DEF HostDisposition, Tunnelled, Highest, Allows

\* Among numbers up to two there is a largest one.
LEMMA LargestRank ==
    ASSUME NEW ranks, ranks \subseteq {0, 1, 2}, ranks # {}
    PROVE  \E n \in ranks : \A k \in ranks : k <= n
<1>1. CASE 2 \in ranks
  BY <1>1
<1>2. CASE 2 \notin ranks /\ 1 \in ranks
  <2>1. \A k \in ranks : k <= 1
    BY <1>2
  <2> QED BY <1>2, <2>1
<1>3. CASE 2 \notin ranks /\ 1 \notin ranks
  <2>1. \A k \in ranks : k = 0
    BY <1>3
  <2>2. 0 \in ranks
    BY <2>1
  <2>3. ASSUME NEW k \in ranks PROVE k <= 0
    <3>1. k = 0
      BY <2>1
    <3>2. 0 <= 0
      OBVIOUS
    <3> QED BY <3>1, <3>2
  <2> QED BY <2>2, <2>3, Zenon
<1> QED BY <1>1, <1>2, <1>3

\* Python says so, with the rules where Go has their indices.
LEMMA PyPassthrough ==
    ASSUME NEW rs, RulesOK(rs.allow), NEW host \in Hosts
    PROVE  Py_host_disposition(rs, host).passthrough
             <=> Tunnelled(rs.allow, canonicalHost(host))
<1> DEFINE rules == rs.allow
           h == canonicalHost(host)
           A == Allows(rules, h)
           Matching(k) == {r \in Elements(rules) : Py_match_host(r.host, k)}
           RanksOf(k) == {Py_host_rank(r.host) : r \in Matching(k)}
           TopRank(k) == CHOOSE n \in RanksOf(k) : \A i \in RanksOf(k) : i <= n
           Top(k) == {r \in Matching(k) : Py_host_rank(r.host) = TopRank(k)}
<1>1. Py_host_disposition(rs, host).passthrough <=>
        /\ Matching(Py_canonical_host(host)) # {}
        /\ \A r \in Top(Py_canonical_host(host)) : r.mode = "passthrough"
  BY Zenon DEF Py_host_disposition
<1>2. h \in Hosts /\ h = Py_canonical_host(host)
  BY SameCanonicalHost
<1>3. \A i \in DOMAIN rules :
        /\ matchHost(rules[i].host, h) <=> Py_match_host(rules[i].host, h)
        /\ Py_host_rank(rules[i].host) = hostRank(rules[i].host)
        /\ hostRank(rules[i].host) \in {0, 1, 2}
  <2>1. \A i \in DOMAIN rules : rules[i].host \in Seq(Words) /\ rules[i].host # <<>>
    BY DEF RulesOK, RuleOK
  <2>2. \A p : hostRank(p) \in {0, 1, 2}
    BY DEF hostRank
  <2> QED BY <1>2, <2>1, <2>2, SameMatchHost
<1>4. Py_host_disposition(rs, host).passthrough <=>
        Matching(h) # {} /\ \A r \in Top(h) : r.mode = "passthrough"
  <2> DEFINE Says(k) == Matching(k) # {} /\ \A r \in Top(k) : r.mode = "passthrough"
  <2>1. Py_host_disposition(rs, host).passthrough <=> Says(Py_canonical_host(host))
    BY <1>1, Zenon
  <2> HIDE DEF Says, h
  <2>2. Py_host_disposition(rs, host).passthrough <=> Says(h)
    BY <1>2, <2>1
  <2> QED BY <2>2 DEF Says
<1> HIDE DEF h
<1>5. \A r : r \in Matching(h) <=> \E i \in A : r = rules[i]
  BY <1>3 DEF Elements, Allows
<1>6. A \subseteq DOMAIN rules
  BY DEF Allows
<1>7. CASE A = {}
  <2>1. Matching(h) = {}
    <3> HIDE DEF A, Matching
    <3> QED BY <1>5, <1>7
  <2>2. ~Tunnelled(rules, h)
    BY <1>7, Zenon DEF Tunnelled
  <2> HIDE DEF Matching, Top
  <2> QED BY <1>4, <2>1, <2>2, Zenon DEF h
<1>8. CASE A # {}
  <2> DEFINE R(i) == hostRank(rules[i].host)
  <2>1. \A k : k \in RanksOf(h) <=> \E i \in A : k = R(i)
    <3> HIDE DEF A, Matching
    <3> QED BY <1>3, <1>5, <1>6
  <2>2. TopRank(h) \in RanksOf(h) /\ \A k \in RanksOf(h) : k <= TopRank(h)
    <3> HIDE DEF RanksOf
    <3>1. RanksOf(h) \subseteq {0, 1, 2} /\ RanksOf(h) # {}
      BY <1>3, <1>6, <1>8, <2>1
    <3>2. \E n \in RanksOf(h) : \A k \in RanksOf(h) : k <= n
      BY <3>1, LargestRank
    <3> QED BY <3>2, Zenon
  <2> DEFINE t == TopRank(h)
  <2> HIDE DEF RanksOf, TopRank, t, A, Matching
  <2>3. \A i \in A : i \in Highest(rules, h) <=> R(i) = t
    <3>1. \A i \in A : R(i) \in Int /\ R(i) <= t /\ t \in Int
      BY <1>3, <1>6, <2>1, <2>2 DEF t
    <3>2. \E i \in A : R(i) = t
      BY <2>1, <2>2 DEF t
    <3>3. Highest(rules, h) = {i \in A : \A j \in A : ~(R(j) > R(i))}
      BY DEF Highest, A
    <3> HIDE DEF R
    <3> QED BY <3>1, <3>2, <3>3
  <2>4. Highest(rules, h) \subseteq A
    BY DEF Highest, A
  <2>5. Matching(h) # {}
    BY <1>5, <1>8
  <2>6. (\A r \in Top(h) : r.mode = "passthrough")
          <=> \A i \in Highest(rules, h) : rules[i].mode = "passthrough"
    <3>1. \A r : r \in Top(h) <=> \E i \in A : r = rules[i] /\ R(i) = t
      BY <1>3, <1>5, <1>6 DEF t
    <3> HIDE DEF Top, R
    <3> QED BY <2>3, <2>4, <3>1
  <2> HIDE DEF Top
  <2>7. Tunnelled(rules, h) <=>
          \A i \in Highest(rules, h) : rules[i].mode = "passthrough"
    BY <1>8, Zenon DEF Tunnelled, A
  <2> QED BY <1>4, <2>5, <2>6, <2>7, Zenon DEF h
<1> QED BY <1>7, <1>8

\* A rule that tunnels has no paths and no methods: it matches every request
\* to its hosts.
LEMMA TunnelMatches ==
    ASSUME NEW r, RuleOK(r), r.mode = "passthrough", NEW req \in RequestTypes,
           matchHost(r.host, req.host)
    PROVE  ruleMatches(r, req) # Nil
<1>1. r.paths = Nil /\ r.methods = Nil
  BY DEF RuleOK
<1>2. ruleMatches(r, req) = Some(<<>>)
  BY <1>1, Zenon DEF ruleMatches, matchMethod
<1> QED BY <1>2 DEF Some, Nil

\* When the highest rules for a host tunnel it, so does the rule that decides.
LEMMA DecidedByHighest ==
    ASSUME NEW rules, RulesOK(rules), NEW req \in RequestTypes, Tunnelled(rules, req.host)
    PROVE  LET a == bestMatch(rules, req, Elements(rules))
           IN a \in 1..Len(rules) /\ rules[a].mode = "passthrough"
<1> DEFINE m == Patterns(rules, req)
           E == Matched(rules, m, Elements(rules))
           B == BetterPairs(rules, m)
           A == Allows(rules, req.host)
           a == bestMatch(rules, req, Elements(rules))
           R(i) == hostRank(rules[i].host)
<1>1. a = bestOf(rules, m, Elements(rules))
  BY Zenon DEF bestMatch, Patterns
<1>2. PatternsOK(rules, m)
  BY PatternsTyped
<1>3. IsFirst(E, B, a)
  BY <1>1, <1>2, GoBest
<1>4. /\ DOMAIN rules = 1..Len(rules) /\ \A i \in DOMAIN rules : RuleOK(rules[i])
      /\ \A i \in DOMAIN rules : R(i) \in {0, 1, 2}
  BY DEF RulesOK, hostRank
<1>5. \A i \in DOMAIN rules : m[i] = ruleMatches(rules[i], req) /\ rules[i] \in Elements(rules)
  BY DEF Patterns, Elements
<1>6. \A i : i \in E <=> i \in DOMAIN rules /\ ruleMatches(rules[i], req) # Nil
  BY <1>5 DEF Matched
<1> HIDE DEF m, E, B, A, a, R
<1>7. E \subseteq A
  BY <1>4, <1>6, SameRuleMatches DEF A, Allows
<1>8. PICK top \in A : \A j \in A : R(j) <= R(top)
  <2> DEFINE ranks == {R(i) : i \in A}
  <2>1. A # {} /\ A \subseteq DOMAIN rules
    BY DEF Tunnelled, A, Allows
  <2>2. ranks # {} /\ ranks \subseteq {0, 1, 2}
    BY <1>4, <2>1
  <2> HIDE DEF ranks
  <2>3. PICK n \in ranks : \A k \in ranks : k <= n
    BY <2>2, LargestRank
  <2> QED BY <2>3 DEF ranks
<1>9. A \subseteq DOMAIN rules
  BY DEF A, Allows
<1>10. top \in Highest(rules, req.host)
  BY <1>4, <1>8, <1>9 DEF Highest, A, R
<1>11. rules[top].mode = "passthrough"
  BY <1>10 DEF Tunnelled
<1>12. top \in E
  BY <1>4, <1>6, <1>8, <1>9, <1>11, TunnelMatches DEF A, Allows
<1>13. a \in E /\ <<top, a>> \notin B
  BY <1>3, <1>12 DEF IsFirst
<1>14. R(top) <= R(a)
  <2> DEFINE F(i) == ruleSpecificity(rules[i], m[i][1])
  <2>1. top \in DOMAIN rules /\ a \in DOMAIN rules
    BY <1>6, <1>12, <1>13
  <2>2. \A i \in E : F(i) \in Fields /\ F(i)[1] = R(i)
    <3>1. \A i \in E : m[i][1] \in Seq(Seq(Words))
      BY <1>2, <1>5, <1>6 DEF PatternsOK
    <3> QED BY <3>1, SpecificityType DEF R
  <2>3. ~LexMore(F(top), F(a))
    BY <1>13, <2>1, InBetter DEF B, moreSpecific
  <2> HIDE DEF F
  <2>4. ~(F(top)[1] > F(a)[1])
    BY <1>12, <1>13, <2>2, <2>3, LexMoreFields
  <2> QED BY <1>4, <1>12, <1>13, <2>1, <2>2, <2>4
<1>15. a \in Highest(rules, req.host)
  <2>1. a \in A
    BY <1>7, <1>13
  <2>2. \A j \in A : R(j) \in {0, 1, 2}
    BY <1>4, <1>9
  <2>3. \A j \in A : ~(R(j) > R(a))
    BY <1>8, <1>14, <2>1, <2>2
  <2> QED BY <2>1, <2>3 DEF Highest, A, R
<1>16. rules[a].mode = "passthrough"
  BY <1>15 DEF Tunnelled
<1> QED BY <1>4, <1>6, <1>13, <1>16 DEF a

\* Nothing that is tunnelled at CONNECT would have been refused.
LEMMA TunnelAllowed ==
    ASSUME NEW rs, RulesOK(rs.allow), RulesOK(rs.deny), NEW q \in RequestTypes,
           Py_host_disposition(rs, q.host).passthrough,
           Py_host_disposition(rs, q.host).deny_reason = Nil
    PROVE  Decide(rs, q).decision = "allow" /\ Decide(rs, q).mode = "passthrough"
<1> DEFINE req == Spelt(q)
           a == bestMatch(rs.allow, req, Elements(rs.allow))
           d == bestMatch(rs.deny, req, denies(rs, a))
<1>1. req \in RequestTypes /\ req.host = canonicalHost(q.host) /\ q.host \in Hosts
  BY SpeltType DEF RequestTypes
<1>2. Tunnelled(rs.allow, req.host)
  BY <1>1, PyPassthrough
<1>3. a \in 1..Len(rs.allow) /\ rs.allow[a].mode = "passthrough"
  BY <1>1, <1>2, DecidedByHighest
<1>4. a # 0
  BY <1>3
<1>5. HostDenies(rs.deny, req.host) = {}
  <2>1. PICK b : /\ IsFirst(HostDenies(rs.deny, canonicalHost(q.host)),
                            HigherPairs(rs.deny), b)
                 /\ Py_host_disposition(rs, q.host).deny_reason =
                        IF b = 0 THEN Nil ELSE Some(rs.deny[b].reason)
    BY <1>1, PyDenyReason
  <2>2. b = 0
    <3>1. \A x : Some(x) # Nil
      BY DEF Some, Nil
    <3> QED BY <2>1, <3>1, Zenon
  <2>3. 0 \notin HostDenies(rs.deny, canonicalHost(q.host))
    BY DEF HostDenies, RulesOK
  <2> QED BY <1>1, <2>1, <2>2, <2>3 DEF IsFirst
<1>6. denies(rs, a) = HostLevel(rs.deny)
  BY <1>3, <1>4 DEF denies, NoRule
<1>7. d = 0
  <2> DEFINE m == Patterns(rs.deny, req)
             E == Matched(rs.deny, m, HostLevel(rs.deny))
  <2>1. d = bestOf(rs.deny, m, HostLevel(rs.deny))
    BY <1>6, Zenon DEF bestMatch, Patterns
  <2>2. IsFirst(E, BetterPairs(rs.deny, m), d)
    BY <1>1, <2>1, PatternsTyped, GoBest
  <2>3. E = {}
    <3>1. ASSUME NEW i \in E PROVE FALSE
      <4>1. /\ i \in DOMAIN rs.deny /\ rs.deny[i].paths = Nil
            /\ ruleMatches(rs.deny[i], req) # Nil
        BY DEF Matched, Patterns, HostLevel
      <4>2. RuleOK(rs.deny[i])
        BY <4>1 DEF RulesOK
      <4>3. matchHost(rs.deny[i].host, req.host)
        BY <1>1, <4>1, <4>2, SameRuleMatches
      <4> QED BY <1>5, <4>1, <4>3 DEF HostDenies
    <3> QED BY <3>1
  <2> HIDE DEF E, d
  <2> QED BY <2>2, <2>3 DEF IsFirst
<1>8. Decide(rs, q) = Verdict(rs, a, d)
  BY Zenon DEF Decide, DecideCanonical, DecideUnder, AnyRule, Spelt
<1> HIDE DEF a, d
<1>9. Verdict(rs, a, d) = Result("allow", rs.allow[a].mode, "allow", a)
  BY <1>4, <1>7 DEF Verdict, NoRule
<1> QED BY <1>3, <1>8, <1>9 DEF Result

\* A rule without paths denies what it matches.
LEMMA DeniedByHost ==
    ASSUME NEW rs, RulesOK(rs.allow), RulesOK(rs.deny), NEW q \in RequestTypes,
           NEW r \in HostLevel(rs.deny), matchHost(r.host, canonicalHost(q.host)),
           matchMethod(r.methods, q.method)
    PROVE  Decide(rs, q).decision = "hard-deny"
<1> DEFINE req == Spelt(q)
           a == bestMatch(rs.allow, req, Elements(rs.allow))
           d == bestMatch(rs.deny, req, denies(rs, a))
<1>1. /\ req \in RequestTypes /\ req.host = canonicalHost(q.host)
      /\ req.method = q.method
  BY SpeltType
<1>2. PICK i \in DOMAIN rs.deny : rs.deny[i] = r
  BY DEF HostLevel, Elements
<1>3. r.paths = Nil /\ RuleOK(r) /\ r \in denies(rs, a)
  BY <1>2 DEF HostLevel, RulesOK, denies, AnyRule
<1>4. ruleMatches(r, req) # Nil
  BY <1>1, <1>3, SameRuleMatches
<1>5. d # 0
  <2> DEFINE m == Patterns(rs.deny, req)
             E == Matched(rs.deny, m, denies(rs, a))
  <2>1. d = bestOf(rs.deny, m, denies(rs, a))
    BY Zenon DEF bestMatch, Patterns
  <2>2. IsFirst(E, BetterPairs(rs.deny, m), d)
    <3>1. PatternsOK(rs.deny, m)
      BY <1>1, PatternsTyped
    <3> HIDE DEF m, d
    <3> QED BY <2>1, <3>1, GoBest
  <2>3. i \in E
    BY <1>2, <1>3, <1>4 DEF Matched, Patterns
  <2>4. 0 \notin E
    BY DEF Matched, RulesOK
  <2> HIDE DEF E, d
  <2> QED BY <2>2, <2>3, <2>4 DEF IsFirst
<1>6. Decide(rs, q) = Verdict(rs, a, d)
  BY Zenon DEF Decide, DecideCanonical, DecideUnder, AnyRule, Spelt
<1> HIDE DEF a, d
<1>7. Verdict(rs, a, d) = Result("hard-deny", rs.deny[d].mode, "deny_always", d)
  BY <1>5 DEF Verdict, NoRule
<1> QED BY <1>6, <1>7 DEF Result

\* Where CONNECT finds a reason to refuse a host there is such a rule.
LEMMA ReasonOfRule ==
    ASSUME NEW rs, RulesOK(rs.deny), NEW host \in Hosts,
           Py_host_disposition(rs, host).deny_reason # Nil
    PROVE  \E r \in HostLevel(rs.deny) : matchHost(r.host, canonicalHost(host))
<1>1. PICK b : /\ IsFirst(HostDenies(rs.deny, canonicalHost(host)),
                          HigherPairs(rs.deny), b)
               /\ Py_host_disposition(rs, host).deny_reason =
                    IF b = 0 THEN Nil ELSE Some(rs.deny[b].reason)
  BY PyDenyReason
<1>2. b # 0
  BY <1>1
<1>3. b \in HostDenies(rs.deny, canonicalHost(host))
  BY <1>1, <1>2 DEF IsFirst
<1> QED BY <1>3 DEF HostDenies, HostLevel, Elements

\* The Go matcher and the Python matcher agree on what is known of a host.
LEMMA SameDisposition ==
    ASSUME NEW rs, RulesOK(rs.allow), RulesOK(rs.deny), NEW host \in Hosts
    PROVE  LET go == HostDisposition(rs, host)
               py == Py_host_disposition(rs, host)
           IN /\ go.passthrough = py.passthrough
              /\ go.deny_reason =
                   IF py.deny_reason = Nil THEN "" ELSE py.deny_reason[1]
<1> DEFINE go == HostDisposition(rs, host)
           py == Py_host_disposition(rs, host)
<1>1. go.passthrough = py.passthrough
  <2>1. go.passthrough <=> py.passthrough
    BY GoPassthrough, PyPassthrough
  <2>2. go.passthrough \in BOOLEAN /\ py.passthrough \in BOOLEAN
    BY Zenon DEF HostDisposition, Py_host_disposition
  <2> HIDE DEF go, py
  <2> QED BY <2>1, <2>2
<1>2. go.deny_reason = IF py.deny_reason = Nil THEN "" ELSE py.deny_reason[1]
  <2>1. PICK b : /\ IsFirst(HostDenies(rs.deny, canonicalHost(host)),
                            HigherPairs(rs.deny), b)
                 /\ py.deny_reason = IF b = 0 THEN Nil ELSE Some(rs.deny[b].reason)
    BY PyDenyReason
  <2>2. go.deny_reason = IF b = 0 THEN "" ELSE rs.deny[b].reason
    BY <2>1, GoDenyReason
  <2>3. \A x : Some(x) # Nil /\ Some(x)[1] = x
    BY DEF Some, Nil
  <2> HIDE DEF go, py
  <2> QED BY <2>1, <2>2, <2>3
<1> QED BY <1>1, <1>2

(***************************************************************************)
(* The order of the rules.                                                 *)
(***************************************************************************)

\* Two lists of the same rules.
Permuted(rules, turned) ==
    RulesOK(rules) /\ RulesOK(turned) /\ Elements(rules) = Elements(turned)

\* A rule that matches does so wherever it is.
LEMMA MatchedIn ==
    ASSUME NEW rules, RulesOK(rules), NEW turned, NEW req, NEW eligible,
           Elements(rules) = Elements(turned),
           NEW i \in Matched(rules, Patterns(rules, req), eligible)
    PROVE  \E j \in Matched(turned, Patterns(turned, req), eligible) : turned[j] = rules[i]
<1>1. i \in DOMAIN rules /\ rules[i] \in eligible /\ ruleMatches(rules[i], req) # Nil
  BY DEF Matched, Patterns
<1>2. rules[i] \in Elements(turned)
  BY <1>1 DEF Elements
<1>3. PICK j \in DOMAIN turned : turned[j] = rules[i]
  BY <1>2 DEF Elements
<1>4. Patterns(turned, req)[j] = ruleMatches(rules[i], req)
  BY <1>3 DEF Patterns
<1> QED BY <1>1, <1>3, <1>4 DEF Matched

\* Rules that no order tells apart have the same mode: it ends their bytes.
LEMMA TiedModes ==
    ASSUME NEW r, RuleOK(r), NEW s, RuleOK(s), NEW p \in Seq(Seq(Words)),
           NEW o \in Seq(Seq(Words)), ~moreSpecific(r, p, s, o), ~moreSpecific(s, o, r, p)
    PROVE  r.mode = s.mode
<1>1. Key(r) = Key(s)
  BY SpecificIsAbove, SpecificityType, KeyType, AboveTotal
<1>2. Code[r.mode] = Code[s.mode]
  BY <1>1, KeyType
<1>3. r.mode \in Words /\ s.mode \in Words
  <2>1. "intercept" \in Words /\ "passthrough" \in Words
    BY CodeAssumption, Zenon
  <2> QED BY <2>1, Zenon DEF RuleOK
<1>4. \A v, w \in Words : Code[v] = Code[w] => v = w
  BY CodeAssumption, Zenon
<1> QED BY <1>2, <1>3, <1>4

\* The best match in two lists of the same rules: there is one in both or in
\* none, and with the same mode.
LEMMA TurnedBest ==
    ASSUME NEW rules, NEW turned, Permuted(rules, turned),
           NEW req \in RequestTypes, NEW eligible
    PROVE  LET a == bestMatch(rules, req, eligible)
               b == bestMatch(turned, req, eligible)
           IN /\ a = 0 <=> b = 0
              /\ a # 0 => rules[a].mode = turned[b].mode
<1> DEFINE m == Patterns(rules, req)
           o == Patterns(turned, req)
           E == Matched(rules, m, eligible)
           D == Matched(turned, o, eligible)
           a == bestMatch(rules, req, eligible)
           b == bestMatch(turned, req, eligible)
<1>1. RulesOK(rules) /\ RulesOK(turned) /\ Elements(rules) = Elements(turned)
  BY DEF Permuted
<1>2. IsFirst(E, BetterPairs(rules, m), a) /\ IsFirst(D, BetterPairs(turned, o), b)
  <2>1. a = bestOf(rules, m, eligible) /\ b = bestOf(turned, o, eligible)
    BY Zenon DEF bestMatch, Patterns
  <2> HIDE DEF a, b, m, o
  <2>2. PatternsOK(rules, m) /\ PatternsOK(turned, o)
    BY <1>1, PatternsTyped DEF m, o
  <2> QED BY <1>1, <2>1, <2>2, GoBest
<1>3. (\A i \in E : \E j \in D : turned[j] = rules[i])
      /\ (\A j \in D : \E i \in E : rules[i] = turned[j])
  BY <1>1, MatchedIn
<1>4. /\ \A i \in E : i \in DOMAIN rules /\ i # 0 /\ RuleOK(rules[i])
                      /\ m[i] = ruleMatches(rules[i], req) /\ m[i][1] \in Seq(Seq(Words))
      /\ \A j \in D : j \in DOMAIN turned /\ j # 0 /\ RuleOK(turned[j])
                      /\ o[j] = ruleMatches(turned[j], req) /\ o[j][1] \in Seq(Seq(Words))
  <2>1. PatternsOK(rules, m) /\ PatternsOK(turned, o)
    BY <1>1, PatternsTyped
  <2>2. /\ \A i \in DOMAIN rules : i # 0 /\ RuleOK(rules[i])
                                   /\ m[i] = ruleMatches(rules[i], req)
        /\ \A j \in DOMAIN turned : j # 0 /\ RuleOK(turned[j])
                                   /\ o[j] = ruleMatches(turned[j], req)
    BY <1>1 DEF RulesOK, Patterns
  <2> HIDE DEF m, o
  <2> QED BY <2>1, <2>2 DEF Matched, PatternsOK
<1> HIDE DEF m, o, E, D, a, b
<1>5. CASE E = {}
  BY <1>2, <1>3, <1>5 DEF IsFirst, a, b
<1>6. CASE E # {}
  <2>1. a \in E /\ b \in D /\ a # 0 /\ b # 0
    BY <1>2, <1>3, <1>4, <1>6 DEF IsFirst
  <2>2. PICK j \in D : turned[j] = rules[a]
    BY <1>3, <2>1
  <2>3. PICK i \in E : rules[i] = turned[b]
    BY <1>3, <2>1
  <2>4. m[a] = o[j] /\ m[i] = o[b]
    BY <1>4, <2>1, <2>2, <2>3
  <2>5. <<i, a>> \notin BetterPairs(rules, m) /\ <<j, b>> \notin BetterPairs(turned, o)
    BY <1>2, <1>6, <2>1 DEF IsFirst
  <2>6. ~moreSpecific(rules[i], m[i][1], rules[a], m[a][1])
    BY <1>4, <2>1, <2>5, InBetter
  <2>7. ~moreSpecific(turned[j], o[j][1], turned[b], o[b][1])
    BY <1>4, <2>1, <2>5, InBetter
  <2>8. ~moreSpecific(rules[a], m[a][1], rules[i], m[i][1])
    BY <2>2, <2>3, <2>4, <2>7
  <2>9. rules[a].mode = rules[i].mode
    BY <1>4, <2>1, <2>6, <2>8, TiedModes
  <2> QED BY <2>1, <2>3, <2>9 DEF a, b
<1> QED BY <1>5, <1>6

\* Two policies with the same rules decide alike.
LEMMA TurnedDecide ==
    ASSUME NEW rs, NEW ts, Permuted(rs.allow, ts.allow), Permuted(rs.deny, ts.deny),
           NEW q \in RequestTypes
    PROVE  /\ Decide(rs, q).decision = Decide(ts, q).decision
           /\ Decide(rs, q).mode = Decide(ts, q).mode
<1> DEFINE req == Spelt(q)
           a == bestMatch(rs.allow, req, Elements(rs.allow))
           b == bestMatch(ts.allow, req, Elements(ts.allow))
           d == bestMatch(rs.deny, req, denies(rs, a))
           e == bestMatch(ts.deny, req, denies(ts, b))
<1>1. req \in RequestTypes
  BY SpeltType
<1>2. Elements(rs.allow) = Elements(ts.allow) /\ Elements(rs.deny) = Elements(ts.deny)
  BY DEF Permuted
<1>3. (a = 0 <=> b = 0) /\ (a # 0 => rs.allow[a].mode = ts.allow[b].mode)
  BY <1>1, <1>2, TurnedBest
<1>4. Decide(rs, q) = Verdict(rs, a, d) /\ Decide(ts, q) = Verdict(ts, b, e)
  BY Zenon DEF Decide, DecideCanonical, DecideUnder, AnyRule, Spelt
<1> HIDE DEF req, a, b
<1>5. denies(rs, a) = denies(ts, b)
  BY <1>2, <1>3 DEF denies, HostLevel, AnyRule, NoRule
<1>6. (d = 0 <=> e = 0) /\ (d # 0 => rs.deny[d].mode = ts.deny[e].mode)
  BY <1>1, <1>5, TurnedBest
<1> HIDE DEF d, e
<1>7. CASE d # 0
  <2>1. /\ Verdict(rs, a, d) = Result("hard-deny", rs.deny[d].mode, "deny_always", d)
        /\ Verdict(ts, b, e) = Result("hard-deny", ts.deny[e].mode, "deny_always", e)
    BY <1>6, <1>7 DEF Verdict, NoRule
  <2> QED BY <1>4, <1>6, <1>7, <2>1 DEF Result
<1>8. CASE d = 0 /\ a # 0
  <2>1. /\ Verdict(rs, a, d) = Result("allow", rs.allow[a].mode, "allow", a)
        /\ Verdict(ts, b, e) = Result("allow", ts.allow[b].mode, "allow", b)
    BY <1>3, <1>6, <1>8 DEF Verdict, NoRule
  <2> QED BY <1>3, <1>4, <1>8, <2>1 DEF Result
<1>9. CASE d = 0 /\ a = 0
  <2>1. Verdict(rs, a, d) = Verdict(ts, b, e)
    BY <1>3, <1>6, <1>9 DEF Verdict, NoRule
  <2> QED BY <1>4, <2>1
<1> QED BY <1>7, <1>8, <1>9

=============================================================================
