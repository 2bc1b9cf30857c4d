----------------------------- MODULE Iteration -----------------------------
(***************************************************************************)
(* Facts that the proofs share: induction on numbers, the history of a     *)
(* value that steps are applied to, one after the other, which is what a   *)
(* recursive function of a sequence is, and sequences that are joined,     *)
(* without their repetitions, or taken in part.                            *)
(***************************************************************************)
EXTENDS Lists, WellFoundedInduction, TLAPS

(***************************************************************************)
(* Induction, from the least element of a set of numbers.                  *)
(***************************************************************************)

\* The order of the numbers, as a relation, is well-founded.
LEMMA NatWellFounded ==
    \E R : IsWellFoundedOn(R, Nat) /\ \A x, y \in Nat : y < x => <<y, x>> \in R
<1>1. IsWellFoundedOn(OpToRel(<, Nat), Nat)
  BY NatLessThanWellFounded, Zenon
<1>2. \A x, y \in Nat : y < x => <<y, x>> \in OpToRel(<, Nat)
  BY DEF OpToRel
<1> QED
  BY <1>1, <1>2, Zenon

\* A set of numbers that is not empty has a least element.
LEMMA Least ==
    ASSUME NEW T, T \subseteq Nat, T # {}
    PROVE  \E x \in T : \A y \in T : x <= y
<1> PICK R : IsWellFoundedOn(R, Nat) /\ \A x, y \in Nat : y < x => <<y, x>> \in R
  BY NatWellFounded
<1>1. PICK x \in T : \A y \in T : ~ (<<y, x>> \in R)
  BY WFMin
<1>2. x \in Nat
  OBVIOUS
<1>3. ASSUME NEW y \in T PROVE x <= y
  <2>1. y \in Nat
    OBVIOUS
  <2>2. ~(y < x)
    BY <1>1, <1>2, <2>1
  <2> QED BY <1>2, <2>1, <2>2
<1> QED BY <1>3

\* What holds of 0, and of each number whose predecessor it holds of, holds
\* of all numbers up to n.
LEMMA UpTo ==
    ASSUME NEW n \in Nat, NEW S, 0 \in S, \A i \in 1..n : i - 1 \in S => i \in S
    PROVE  \A i \in 0..n : i \in S
<1>1. CASE (0..n) \ S = {}
  BY <1>1
<1>2. CASE (0..n) \ S # {}
  <2>1. (0..n) \ S \subseteq Nat
    OBVIOUS
  <2>2. PICK m \in (0..n) \ S : \A i \in (0..n) \ S : m <= i
    BY <1>2, <2>1, Least
  <2>3. m \in 1..n /\ m - 1 \in 0..n
    BY <2>2
  <2>4. m - 1 \in S
    BY <2>2, <2>3
  <2> QED BY <2>2, <2>3, <2>4
<1> QED BY <1>1, <1>2

(***************************************************************************)
(* Histories.                                                              *)
(***************************************************************************)

\* A value that n steps are applied to, one after the other, has a history.
Goes(g, n, z, step) ==
    \A i \in 0..n : g[i] = IF i = 0 THEN z ELSE step[i][g[i - 1]]

\* By induction on the steps.
LEMMA Iterate ==
    ASSUME NEW n \in Nat, NEW V, NEW z \in V, NEW step \in [1..n -> [V -> V]]
    PROVE  \E g \in [0..n -> V] : Goes(g, n, z, step)
<1> DEFINE S == {m \in 0..n : \E g \in [0..m -> V] : Goes(g, m, z, step)}
<1>1. 0 \in S
  <2> DEFINE g == [i \in 0..0 |-> z]
  <2>1. g \in [0..0 -> V] /\ Goes(g, 0, z, step)
    BY DEF Goes
  <2> HIDE DEF g
  <2> QED BY <2>1
<1>2. ASSUME NEW m \in 1..n, m - 1 \in S PROVE m \in S
  <2>1. PICK g \in [0..(m - 1) -> V] : Goes(g, m - 1, z, step)
    BY <1>2
  <2> DEFINE h == [i \in 0..m |-> IF i = m THEN step[m][g[m - 1]] ELSE g[i]]
  <2>2. step[m][g[m - 1]] \in V
    OBVIOUS
  <2>3. h \in [0..m -> V]
    BY <2>2
  <2>4. ASSUME NEW i \in 0..m
        PROVE  h[i] = IF i = 0 THEN z ELSE step[i][h[i - 1]]
    <3>1. CASE i = m
      BY <3>1
    <3>2. CASE i # m
      <4>1. i \in 0..(m - 1) /\ h[i] = g[i] /\ (i # 0 => h[i - 1] = g[i - 1])
        BY <3>2
      <4> QED BY <2>1, <4>1 DEF Goes
    <3> QED BY <3>1, <3>2
  <2>5. Goes(h, m, z, step)
    BY <2>4 DEF Goes
  <2> HIDE DEF h
  <2> QED BY <2>3, <2>5
<1>3. \A m \in 0..n : m \in S
  <2> HIDE DEF S
  <2> QED BY <1>1, <1>2, UpTo
<1> QED BY <1>3

\* What n steps lead to is of the type they keep.
LEMMA Stays ==
    ASSUME NEW n \in Nat, NEW V, NEW h, h[0] \in V,
           \A i \in 1..n : h[i - 1] \in V => h[i] \in V
    PROVE  \A i \in 0..n : h[i] \in V
<1> DEFINE S == {i \in 0..n : h[i] \in V}
<1>1. 0 \in S
  OBVIOUS
<1>2. ASSUME NEW i \in 1..n, i - 1 \in S PROVE i \in S
  BY <1>2
<1>3. \A i \in 0..n : i \in S
  <2> HIDE DEF S
  <2> QED BY <1>1, <1>2, UpTo
<1> QED BY <1>3

\* Two histories that begin alike and take the same steps are the same.
LEMMA SameHistory ==
    ASSUME NEW n \in Nat, NEW m \in Nat, NEW k \in Nat, k <= n, k <= m,
           NEW z, NEW g, NEW step, Goes(g, n, z, step),
           NEW h, NEW other, Goes(h, m, z, other),
           \A i \in 1..k : step[i] = other[i]
    PROVE  \A i \in 0..k : g[i] = h[i]
<1> DEFINE S == {i \in 0..k : g[i] = h[i]}
<1>1. 0 \in S
  BY DEF Goes
<1>2. ASSUME NEW i \in 1..k, i - 1 \in S PROVE i \in S
  BY <1>2 DEF Goes
<1>3. \A i \in 0..k : i \in S
  <2> HIDE DEF S
  <2> QED BY <1>1, <1>2, UpTo
<1> QED BY <1>3

(***************************************************************************)
(* Sequences joined.  Concat joins them one by one, and stays in every set *)
(* that joining two keeps.                                                 *)
(***************************************************************************)

NoParts == <<>>
SequencesOf(V) == Seq(V)
Then(e, x) == e \o x
Closed(V) == <<>> \in V /\ \A e, x \in V : e \o x \in V

JoinSteps(V, parts) == [i \in 1..Len(parts) |-> [e \in V |-> Then(e, parts[i])]]

\* Concat is the last of a history of joins.
LEMMA ConcatHistory ==
    ASSUME NEW V, Closed(V), NEW parts \in SequencesOf(V)
    PROVE  \E g \in [0..Len(parts) -> V] :
               Goes(g, Len(parts), NoParts, JoinSteps(V, parts)) /\ Concat(parts) = g[Len(parts)]
<1> DEFINE n == Len(parts)
           Body(e, i) ==
               IF i = 0 THEN <<>>
               ELSE e[i - 1] \o parts[i]
           h == CHOOSE e : e = [i \in 0..n |-> Body(e, i)]
<1>1. n \in Nat /\ (\A i \in 1..n : parts[i] \in V) /\ NoParts \in V
  BY DEF NoParts, Closed, SequencesOf
<1>2. \A i \in 1..n, e \in V : Then(e, parts[i]) \in V
  <2> HIDE DEF n
  <2> QED BY <1>1 DEF Then, Closed
<1>3. /\ JoinSteps(V, parts) \in [1..n -> [V -> V]]
      /\ \A i \in 1..n, e \in V : JoinSteps(V, parts)[i][e] = Then(e, parts[i])
  <2>1. JoinSteps(V, parts) = [i \in 1..n |-> [e \in V |-> Then(e, parts[i])]]
    BY Zenon DEF JoinSteps, n
  <2> HIDE DEF n
  <2> QED BY <1>2, <2>1
<1>4. PICK g \in [0..n -> V] : Goes(g, n, NoParts, JoinSteps(V, parts))
  <2> HIDE DEF n
  <2> QED BY <1>1, <1>3, Iterate
<1>5. \A i \in 1..n : \A e : Body(e, i) = Then(e[i - 1], parts[i])
  <2>1. \A i \in 1..n : i # 0
    OBVIOUS
  <2> HIDE DEF n
  <2> QED BY <2>1, Zenon DEF Then
<1>6. Goes(h, n, NoParts, JoinSteps(V, parts)) /\ h \in [0..n -> V]
  <2>1. ASSUME NEW i \in 0..n PROVE g[i] = Body(g, i)
    <3>1. g[i] = IF i = 0 THEN NoParts ELSE JoinSteps(V, parts)[i][g[i - 1]]
      BY <1>4 DEF Goes
    <3>2. CASE i = 0
      BY <3>1, <3>2 DEF NoParts
    <3>3. CASE i # 0
      <4>1. i \in 1..n /\ i - 1 \in 0..n
        BY <3>3, <1>1
      <4> HIDE DEF Body, n
      <4>2. g[i - 1] \in V
        BY <1>4, <4>1
      <4>3. Body(g, i) = Then(g[i - 1], parts[i])
        BY <1>5, <4>1
      <4> QED BY <1>3, <3>1, <3>3, <4>1, <4>2, <4>3
    <3> QED BY <3>2, <3>3
  <2>2. g = [i \in 0..n |-> Body(g, i)]
    <3> HIDE DEF Body, n
    <3> QED BY <2>1
  <2>3. h = [i \in 0..n |-> Body(h, i)]
    <3> HIDE DEF Body, n
    <3> QED BY <2>2, Zenon
  <2> HIDE DEF h
  <2>4. h[0] = NoParts /\ \A i \in 1..n : h[i] = Then(h[i - 1], parts[i])
    <3>1. h[0] = Body(h, 0) /\ \A i \in 1..n : h[i] = Body(h, i)
      <4> HIDE DEF Body, n
      <4> QED BY <1>1, <2>3
    <3> QED BY <1>5, <3>1 DEF NoParts
  <2> HIDE DEF Body, n
  <2>5. \A i \in 0..n : h[i] \in V
    <3>1. \A i \in 1..n : h[i - 1] \in V => h[i] \in V
      BY <1>2, <2>4
    <3> QED BY <1>1, <2>4, <3>1, Stays
  <2>6. h \in [0..n -> V]
    BY <2>3, <2>5
  <2>7. \A i \in 1..n : i - 1 \in 0..n
    BY <1>1
  <2> QED BY <1>3, <2>4, <2>5, <2>6, <2>7 DEF Goes
<1>7. Concat(parts) = h[n]
  BY Zenon DEF Concat
<1> QED BY <1>6, <1>7 DEF n

\* So a part more is joined at the end.
LEMMA ConcatGrows ==
    ASSUME NEW V, Closed(V)
    PROVE  /\ Concat(<<>>) = <<>>
           /\ \A parts \in SequencesOf(V) : Concat(parts) \in V
           /\ \A parts \in SequencesOf(V), x \in V :
                  Concat(Append(parts, x)) = Then(Concat(parts), x)
<1>2. Concat(<<>>) = <<>>
  <2>1. <<>> \in SequencesOf(V) /\ Len(<<>>) = 0
    BY DEF SequencesOf
  <2> QED BY <2>1, ConcatHistory DEF Goes, NoParts
<1>3. ASSUME NEW parts \in SequencesOf(V) PROVE Concat(parts) \in V
  <2>1. Len(parts) \in Nat
    BY DEF SequencesOf
  <2> QED BY <2>1, ConcatHistory
<1>4. ASSUME NEW parts \in SequencesOf(V), NEW x \in V
      PROVE  Concat(Append(parts, x)) = Then(Concat(parts), x)
  <2> DEFINE t == Append(parts, x)
             n == Len(parts)
  <2>1. t \in SequencesOf(V) /\ Len(t) = n + 1 /\ t[n + 1] = x
        /\ \A i \in 1..n : t[i] = parts[i]
    BY DEF SequencesOf
  <2>2. n \in Nat
    BY DEF SequencesOf
  <2> HIDE DEF t, n
  <2>3. PICK g \in [0..n -> V] :
            Goes(g, n, NoParts, JoinSteps(V, parts)) /\ Concat(parts) = g[n]
    BY ConcatHistory DEF n
  <2>4. PICK h \in [0..(n + 1) -> V] :
            Goes(h, n + 1, NoParts, JoinSteps(V, t)) /\ Concat(t) = h[n + 1]
    BY <2>1, ConcatHistory
  <2>5. \A i \in 1..n : JoinSteps(V, parts)[i] = JoinSteps(V, t)[i]
    BY <2>1, <2>2 DEF JoinSteps, n
  <2>6. g[n] = h[n]
    <3>1. n + 1 \in Nat /\ n <= n /\ n <= n + 1
      BY <2>2
    <3>2. \A i \in 0..n : g[i] = h[i]
      BY <2>2, <2>3, <2>4, <2>5, <3>1, SameHistory, SMTT(30)
    <3> QED BY <2>2, <3>2
  <2>7. h[n + 1] = JoinSteps(V, t)[n + 1][h[n]]
    BY <2>2, <2>4 DEF Goes
  <2>8. h[n] \in V
    BY <2>2
  <2>9. JoinSteps(V, t)[n + 1][h[n]] = Then(h[n], x)
    BY <2>1, <2>2, <2>8 DEF JoinSteps
  <2> QED BY <2>3, <2>4, <2>6, <2>7, <2>9 DEF t
<1> QED BY <1>2, <1>3, <1>4

(***************************************************************************)
(* Sequences without repetitions.  DedupeBy is the last of a history too:  *)
(* an element is appended if its key is new.                               *)
(***************************************************************************)

Seen(keys, i) == \E j \in 1..(i - 1) : keys[j] = keys[i]
Dedupes(h, S, s, keys) ==
    /\ h[0] = <<>>
    /\ \A i \in 0..Len(s) : h[i] \in Seq(S)
    /\ \A i \in 1..Len(s) :
          h[i] = IF Seen(keys, i) THEN h[i - 1] ELSE Append(h[i - 1], s[i])

LEMMA DedupeHistory ==
    ASSUME NEW S, NEW s \in Seq(S), NEW keys
    PROVE  \E h : DedupeBy(s, keys) = h[Len(s)] /\ Dedupes(h, S, s, keys)
<1> DEFINE n == Len(s)
           V == Seq(S)
           Body(d, i) == IF i = 0 THEN <<>>
                         ELSE IF Seen(keys, i) THEN d[i - 1] ELSE Append(d[i - 1], s[i])
           step == [i \in 1..n |-> [x \in V |-> IF Seen(keys, i) THEN x ELSE Append(x, s[i])]]
<1>1. n \in Nat /\ <<>> \in V /\ \A i \in 1..n, x \in V : Append(x, s[i]) \in V
  OBVIOUS
<1>2. step \in [1..n -> [V -> V]] /\ \A i \in 1..n, x \in V :
          step[i][x] = IF Seen(keys, i) THEN x ELSE Append(x, s[i])
  <2> HIDE DEF V, n
  <2> QED BY <1>1, Zenon
<1>3. PICK g \in [0..n -> V] : Goes(g, n, <<>>, step)
  <2> HIDE DEF step, V, n
  <2> QED BY <1>1, <1>2, Iterate
<1>4. \E d : d = [i \in 0..n |-> Body(d, i)]
  <2>1. ASSUME NEW i \in 0..n PROVE g[i] = Body(g, i)
    <3> HIDE DEF step, V
    <3>1. g[i] = IF i = 0 THEN <<>> ELSE step[i][g[i - 1]]
      BY <1>3 DEF Goes
    <3>2. CASE i = 0
      BY <3>1, <3>2
    <3>3. CASE i # 0
      <4>1. i \in 1..n /\ i - 1 \in 0..n
        BY <3>3
      <4>2. g[i - 1] \in V
        BY <4>1
      <4> QED BY <1>2, <3>1, <3>3, <4>1, <4>2
    <3> QED BY <3>2, <3>3
  <2>2. g = [i \in 0..n |-> Body(g, i)]
    <3> HIDE DEF Body
    <3> QED BY <2>1
  <2> QED BY <2>2
<1> DEFINE h == CHOOSE d : d = [i \in 0..n |-> Body(d, i)]
<1>5. h = [i \in 0..n |-> Body(h, i)]
  BY <1>4, Zenon
<1>6. DedupeBy(s, keys) = h[n]
  BY Zenon DEF DedupeBy, Seen
<1> HIDE DEF h
<1>7. h[0] \in V
  BY <1>5
<1>8. \A i \in 1..n : h[i] = IF Seen(keys, i) THEN h[i - 1] ELSE Append(h[i - 1], s[i])
  <2> TAKE i \in 1..n
  <2>1. i \in 0..n /\ i # 0
    OBVIOUS
  <2> QED BY <1>5, <2>1
<1>9. \A i \in 1..n : h[i - 1] \in V => h[i] \in V
  <2> HIDE DEF V
  <2> QED BY <1>1, <1>8
<1>10. \A i \in 0..n : h[i] \in V
  <2> HIDE DEF V
  <2> QED BY <1>1, <1>7, <1>9, Stays
<1>11. h[0] = <<>>
  BY <1>1, <1>5
<1>12. Dedupes(h, S, s, keys)
  BY <1>8, <1>10, <1>11 DEF Dedupes
<1> QED BY <1>6, <1>12

\* The elements of two sequences that are joined.
LEMMA JoinedElements ==
    ASSUME NEW S, NEW a \in Seq(S), NEW b \in Seq(S)
    PROVE  /\ a \o b \in Seq(Elements(a \o b))
           /\ Elements(a \o b) = Elements(a) \cup Elements(b)
<1> DEFINE s == a \o b
<1>1. s \in Seq(S) /\ Len(s) = Len(a) + Len(b) /\ Len(a) \in Nat /\ Len(b) \in Nat
  OBVIOUS
<1>2. /\ \A i \in 1..Len(a) : s[i] = a[i]
      /\ \A i \in 1..Len(b) : s[Len(a) + i] = b[i]
      /\ \A i \in 1..Len(s) : i > Len(a) => s[i] = b[i - Len(a)]
  BY <1>1
<1>3. Elements(s) \subseteq Elements(a) \cup Elements(b)
  <2>1. ASSUME NEW i \in 1..Len(s) PROVE s[i] \in Elements(a) \cup Elements(b)
    <3>1. CASE i <= Len(a)
      BY <1>1, <1>2, <3>1 DEF Elements
    <3>2. CASE i > Len(a)
      BY <1>1, <1>2, <3>2 DEF Elements
    <3> QED BY <1>1, <3>1, <3>2
  <2> HIDE DEF s
  <2> QED BY <1>1, <2>1 DEF Elements
<1>4. ASSUME NEW x \in Elements(a) PROVE x \in Elements(s)
  <2> HIDE DEF s
  <2>1. PICK i \in 1..Len(a) : x = a[i]
    BY DEF Elements
  <2>2. i \in 1..Len(s) /\ s[i] = x
    BY <1>1, <1>2, <2>1
  <2> QED BY <1>1, <2>2 DEF Elements
<1>5. ASSUME NEW x \in Elements(b) PROVE x \in Elements(s)
  <2> HIDE DEF s
  <2>1. PICK i \in 1..Len(b) : x = b[i]
    BY DEF Elements
  <2>2. Len(a) + i \in 1..Len(s) /\ s[Len(a) + i] = x
    BY <1>1, <1>2, <2>1
  <2> QED BY <1>1, <2>2, SMTT(30) DEF Elements
<1>6. s \in Seq(Elements(s))
  <2> HIDE DEF s
  <2> QED BY <1>1 DEF Elements
<1> QED BY <1>3, <1>4, <1>5, <1>6 DEF s

\* What is appended is one more element.
LEMMA AppendElements ==
    ASSUME NEW S, NEW s \in Seq(S), NEW x \in S
    PROVE  Elements(Append(s, x)) = Elements(s) \cup {x}
<1> DEFINE t == Append(s, x)
           n == Len(s)
<1>1. n \in Nat /\ DOMAIN s = 1..n /\ DOMAIN t = 1..(n + 1)
      /\ t[n + 1] = x /\ \A i \in 1..n : t[i] = s[i]
  OBVIOUS
<1> HIDE DEF t, n
<1>2. \A i \in 1..(n + 1) : i = n + 1 \/ i \in 1..n
  BY <1>1
<1>3. n + 1 \in 1..(n + 1) /\ \A i \in 1..n : i \in 1..(n + 1)
  BY <1>1
<1>4. Elements(t) = Elements(s) \cup {x}
  BY <1>1, <1>2, <1>3 DEF Elements
<1> QED BY <1>4 DEF t

\* It has elements of the sequence.
LEMMA DedupeType ==
    ASSUME NEW S, NEW s \in Seq(S), NEW keys
    PROVE  DedupeBy(s, keys) \in Seq(S)
<1>1. Len(s) \in 0..Len(s)
  OBVIOUS
<1>2. PICK h : DedupeBy(s, keys) = h[Len(s)] /\ Dedupes(h, S, s, keys)
  BY DedupeHistory
<1> QED BY <1>1, <1>2 DEF Dedupes

\* Each key stays, with the first element that has it.
LEMMA DedupeKeeps ==
    ASSUME NEW S, NEW s \in Seq(S), NEW keys, NEW at \in 1..Len(s)
    PROVE  \E k \in 1..at : keys[k] = keys[at] /\ s[k] \in Elements(DedupeBy(s, keys))
<1>0. PICK h : DedupeBy(s, keys) = h[Len(s)] /\ Dedupes(h, S, s, keys)
  BY DedupeHistory
<1> DEFINE n == Len(s)
<1>1. /\ h[0] = <<>> /\ DedupeBy(s, keys) = h[n]
      /\ \A i \in 0..n : h[i] \in Seq(S)
      /\ \A i \in 1..n :
            h[i] = IF Seen(keys, i) THEN h[i - 1] ELSE Append(h[i - 1], s[i])
  BY <1>0 DEF Dedupes
<1> DEFINE T == {m \in 0..n : \A i \in 1..m :
                    \E k \in 1..i : keys[k] = keys[i] /\ s[k] \in Elements(h[m])}
<1>2. n \in Nat
  OBVIOUS
<1>3. 0 \in T
  BY <1>2
<1>4. ASSUME NEW m \in 1..n, m - 1 \in T PROVE m \in T
  <2>1. h[m - 1] \in Seq(S) /\ s[m] \in S
    BY <1>1
  <2>2. \A x \in Elements(h[m - 1]) : x \in Elements(h[m])
    <3>1. CASE Seen(keys, m)
      BY <1>1, <3>1
    <3>2. CASE ~Seen(keys, m)
      <4>1. h[m] = Append(h[m - 1], s[m])
        BY <1>1, <3>2
      <4> QED BY <2>1, <4>1, AppendElements
    <3> QED BY <3>1, <3>2
  <2>3. ASSUME NEW i \in 1..m
        PROVE  \E k \in 1..i : keys[k] = keys[i] /\ s[k] \in Elements(h[m])
    <3>1. ASSUME NEW j \in 1..(m - 1), j <= i, keys[j] = keys[i]
          PROVE  \E k \in 1..i : keys[k] = keys[i] /\ s[k] \in Elements(h[m])
      <4>1. PICK k \in 1..j : keys[k] = keys[j] /\ s[k] \in Elements(h[m - 1])
        BY <1>4
      <4>2. k \in 1..i
        BY <3>1
      <4> QED BY <2>2, <3>1, <4>1, <4>2
    <3>2. CASE i # m
      BY <3>1, <3>2
    <3>3. CASE i = m /\ Seen(keys, m)
      BY <3>1, <3>3 DEF Seen
    <3>4. CASE i = m /\ ~Seen(keys, m)
      <4>1. h[m] = Append(h[m - 1], s[m])
        BY <1>1, <3>4
      <4>2. s[m] \in Elements(h[m])
        BY <2>1, <4>1, AppendElements
      <4> QED BY <3>4, <4>2
    <3> QED BY <3>2, <3>3, <3>4
  <2> QED BY <2>3
<1>5. \A m \in 0..n : m \in T
  <2> HIDE DEF T, n
  <2> QED BY <1>2, <1>3, <1>4, UpTo
<1>6. n \in T /\ at \in 1..n
  <2> HIDE DEF T
  <2> QED BY <1>2, <1>5
<1> QED BY <1>1, <1>6

\* So nothing is lost of a sequence but its repetitions.
LEMMA DedupeElements ==
    ASSUME NEW S, NEW s \in Seq(S)
    PROVE  Elements(DedupeBy(s, s)) = Elements(s)
<1>1. s \in Seq(Elements(s))
  BY DEF Elements
<1>2. DedupeBy(s, s) \in Seq(Elements(s))
  BY <1>1, DedupeType
<1>3. Elements(DedupeBy(s, s)) \subseteq Elements(s)
  BY <1>2 DEF Elements
<1>4. ASSUME NEW x \in Elements(s) PROVE x \in Elements(DedupeBy(s, s))
  <2>1. PICK i \in 1..Len(s) : s[i] = x
    BY DEF Elements
  <2>2. \E k \in 1..i : s[k] = s[i] /\ s[k] \in Elements(DedupeBy(s, s))
    BY <2>1, DedupeKeeps
  <2> QED BY <2>1, <2>2
<1> QED BY <1>3, <1>4

(***************************************************************************)
(* The elements of a sequence that are in a set: a history as well.        *)
(***************************************************************************)

Takes(h, S, s, U) ==
    /\ h[0] = <<>>
    /\ \A i \in 0..Len(s) : h[i] \in Seq(S \cap U)
    /\ \A i \in 1..Len(s) :
          h[i] = IF s[i] \in U THEN Append(h[i - 1], s[i]) ELSE h[i - 1]

LEMMA AmongHistory ==
    ASSUME NEW S, NEW s \in Seq(S), NEW U
    PROVE  \E h : Among(s, U) = h[Len(s)] /\ Takes(h, S, s, U)
<1> DEFINE n == Len(s)
           V == Seq(S \cap U)
           Then1(x, i) == IF s[i] \in U THEN Append(x, s[i]) ELSE x
           Body(d, i) == IF i = 0 THEN <<>>
                         ELSE IF s[i] \in U THEN Append(d[i - 1], s[i]) ELSE d[i - 1]
           step == [i \in 1..n |-> [x \in V |-> Then1(x, i)]]
<1>1. n \in Nat /\ <<>> \in V /\ \A i \in 1..n, x \in V : Then1(x, i) \in V
  OBVIOUS
<1>2. step \in [1..n -> [V -> V]] /\ \A i \in 1..n, x \in V : step[i][x] = Then1(x, i)
  <2> HIDE DEF V, n, Then1
  <2> QED BY <1>1, Zenon
<1>3. PICK g \in [0..n -> V] : Goes(g, n, <<>>, step)
  <2> HIDE DEF step, V, n
  <2> QED BY <1>1, <1>2, Iterate
<1>4. \E d : d = [i \in 0..n |-> Body(d, i)]
  <2>1. ASSUME NEW i \in 0..n PROVE g[i] = Body(g, i)
    <3> HIDE DEF step, V
    <3>1. g[i] = IF i = 0 THEN <<>> ELSE step[i][g[i - 1]]
      BY <1>3 DEF Goes
    <3>2. CASE i = 0
      BY <3>1, <3>2
    <3>3. CASE i # 0
      <4>1. i \in 1..n /\ i - 1 \in 0..n
        BY <3>3
      <4>2. g[i - 1] \in V
        BY <4>1
      <4> QED BY <1>2, <3>1, <3>3, <4>1, <4>2
    <3> QED BY <3>2, <3>3
  <2>2. g = [i \in 0..n |-> Body(g, i)]
    <3> HIDE DEF Body
    <3> QED BY <2>1
  <2> QED BY <2>2
<1> DEFINE h == CHOOSE d : d = [i \in 0..n |-> Body(d, i)]
<1>5. h = [i \in 0..n |-> Body(h, i)]
  BY <1>4, Zenon
<1>6. Among(s, U) = h[n]
  BY Zenon DEF Among
<1> HIDE DEF h
<1>7. h[0] \in V
  BY <1>5
<1>8. \A i \in 1..n : h[i] = Then1(h[i - 1], i)
  <2> TAKE i \in 1..n
  <2>1. i \in 0..n /\ i # 0
    OBVIOUS
  <2> QED BY <1>5, <2>1
<1>9. \A i \in 1..n : h[i - 1] \in V => h[i] \in V
  <2> HIDE DEF V, Then1
  <2> QED BY <1>1, <1>8
<1>10. \A i \in 0..n : h[i] \in V
  <2> HIDE DEF V
  <2> QED BY <1>1, <1>7, <1>9, Stays
<1>11. h[0] = <<>>
  BY <1>1, <1>5
<1>12. Takes(h, S, s, U)
  BY <1>8, <1>10, <1>11 DEF Takes
<1> QED BY <1>6, <1>12

\* What is taken is of the sequence and of the set.
LEMMA AmongType ==
    ASSUME NEW S, NEW s \in Seq(S), NEW U
    PROVE  Among(s, U) \in Seq(S \cap U)
<1>1. Len(s) \in 0..Len(s)
  OBVIOUS
<1>2. PICK h : Among(s, U) = h[Len(s)] /\ Takes(h, S, s, U)
  BY AmongHistory
<1> QED BY <1>1, <1>2 DEF Takes

\* And nothing of both is left.
LEMMA AmongElements ==
    ASSUME NEW S, NEW s \in Seq(S), NEW U
    PROVE  Elements(Among(s, U)) = Elements(s) \cap U
<1>0. PICK h : Among(s, U) = h[Len(s)] /\ Takes(h, S, s, U)
  BY AmongHistory
<1> DEFINE n == Len(s)
           T == {m \in 0..n : Elements(h[m]) = {s[i] : i \in 1..m} \cap U}
<1>1. /\ h[0] = <<>> /\ n \in Nat
      /\ \A i \in 0..n : h[i] \in Seq(S \cap U)
      /\ \A i \in 1..n : h[i] = IF s[i] \in U THEN Append(h[i - 1], s[i]) ELSE h[i - 1]
  BY <1>0 DEF Takes
<1>2. 0 \in T
  BY <1>1 DEF Elements
<1>3. ASSUME NEW m \in 1..n, m - 1 \in T PROVE m \in T
  <2>1. h[m - 1] \in Seq(S \cap U) /\ s[m] \in S
    BY <1>1
  <2>2. {s[i] : i \in 1..m} = {s[i] : i \in 1..(m - 1)} \cup {s[m]}
    <3>1. 1..m = (1..(m - 1)) \cup {m}
      OBVIOUS
    <3> QED BY <3>1
  <2>3. Elements(h[m - 1]) = {s[i] : i \in 1..(m - 1)} \cap U
    BY <1>3
  <2>4. CASE s[m] \in U
    <3>1. Elements(h[m]) = Elements(h[m - 1]) \cup {s[m]}
      BY <1>1, <2>1, <2>4, AppendElements, SMTT(30)
    <3> QED BY <2>2, <2>3, <2>4, <3>1
  <2>5. CASE s[m] \notin U
    <3>1. h[m] = h[m - 1]
      BY <1>1, <2>5
    <3> QED BY <2>2, <2>3, <2>5, <3>1
  <2> QED BY <2>4, <2>5
<1>4. \A m \in 0..n : m \in T
  <2> HIDE DEF T, n
  <2> QED BY <1>1, <1>2, <1>3, UpTo
<1>5. n \in T
  <2> HIDE DEF T
  <2> QED BY <1>1, <1>4
<1>6. Elements(s) = {s[i] : i \in 1..n}
  BY DEF Elements
<1> QED BY <1>0, <1>5, <1>6
=============================================================================
