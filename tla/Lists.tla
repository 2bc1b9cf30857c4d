-------------------------------- MODULE Lists --------------------------------
(***************************************************************************)
(* Optional values and a few operators on sequences that the policy and    *)
(* config modules share.                                                   *)
(***************************************************************************)
EXTENDS Integers, Sequences, FiniteSets

Nil == <<>>
Some(x) == <<x>>

Elements(s) == {s[i] : i \in DOMAIN s}
AllButLast(s) == SubSeq(s, 1, Len(s) - 1)
Without(s, i) == SubSeq(s, 1, i - 1) \o SubSeq(s, i + 1, Len(s))
Bag(s) == [x \in Elements(s) |-> Cardinality({i \in DOMAIN s : s[i] = x})]

\* The first index at which P holds, 0 if there is none.
IndexOf(s, P(_)) ==
    LET at == {i \in DOMAIN s : P(s[i])}
    IN IF at = {} THEN 0 ELSE CHOOSE i \in at : \A j \in at : i <= j

\* A sequence of at most one element: Nil, or Some of it.
Opt(S) == {s \in Seq(S) : Len(s) <= 1}

\* The elements of a sequence whose keys come for the first time.
DedupeBy(s, keys) ==
    LET d[i \in 0..Len(s)] ==
            IF i = 0 THEN <<>>
            ELSE IF \E j \in 1..(i - 1) : keys[j] = keys[i] THEN d[i - 1]
            ELSE Append(d[i - 1], s[i])
    IN d[Len(s)]

\* The elements of a sequence that are in S.
Among(s, S) ==
    LET a[i \in 0..Len(s)] ==
            IF i = 0 THEN <<>>
            ELSE IF s[i] \in S THEN Append(a[i - 1], s[i]) ELSE a[i - 1]
    IN a[Len(s)]

\* Sequences joined.
Concat(seqs) ==
    LET c[i \in 0..Len(seqs)] ==
            IF i = 0 THEN <<>> ELSE c[i - 1] \o seqs[i]
    IN c[Len(seqs)]
=============================================================================
