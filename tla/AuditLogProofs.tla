--------------------------- MODULE AuditLogProofs ---------------------------
(***************************************************************************)
(* A theorem of AuditLog, for any number of entries, rotations, restarts   *)
(* and torn writes, and every pace of the readers: what the tail prints is *)
(* what was written, in order and at most once, and a dump that no         *)
(* rotation split misses no entry in between (LogReadInOrder).             *)
(***************************************************************************)
EXTENDS AuditLog, Iteration, SequenceTheorems

(***************************************************************************)
(* The lines of a text.  ParseLines reads it piece by piece.               *)
(***************************************************************************)

Pieces == [entry : Nat, nl : BOOLEAN]
Texts == Seq(Pieces)
Filled == Texts \ {<<>>}
Parses == [lines : Seq(Filled), rest : Texts]

\* What is read of no text, and what one more piece makes of what was read.
Unread == [lines |-> <<>>, rest |-> <<>>]
ParseStep(p, x) ==
    IF ~x.nl THEN [p EXCEPT !.rest = Append(p.rest, x)]
    ELSE [lines |-> Append(p.lines, Append(p.rest, x)), rest |-> <<>>]

ParseSteps(s) == [i \in 1..Len(s) |-> [p \in Parses |-> ParseStep(p, s[i])]]

\* A piece more leaves lines, none of them empty, and a rest.
LEMMA ParseStepType ==
    ASSUME NEW p \in Parses, NEW x \in Pieces
    PROVE  ParseStep(p, x) \in Parses
<1>1. Append(p.rest, x) \in Texts
  BY DEF Parses, Texts
<1>2. Append(p.lines, Append(p.rest, x)) \in Seq(Filled)
  <2>1. p.rest \in Seq(Pieces)
    BY DEF Parses, Texts
  <2>2. Len(Append(p.rest, x)) = Len(p.rest) + 1 /\ Len(p.rest) \in Nat
    BY <2>1
  <2>3. \A t : t = <<>> => Len(t) = 0
    OBVIOUS
  <2> DEFINE t == Append(p.rest, x)
  <2> HIDE DEF t
  <2>5. Len(t) # 0
    BY <2>2 DEF t
  <2>6. t # <<>>
    BY <2>3, <2>5
  <2>4. Append(p.rest, x) \in Filled
    BY <1>1, <2>6 DEF Filled, t
  <2> QED BY <2>4 DEF Parses
<1>3. <<>> \in Texts
  BY DEF Texts
<1> QED BY <1>1, <1>2, <1>3 DEF ParseStep, Parses

\* ParseLines is the last of a history of such steps.
LEMMA ParseHistory ==
    ASSUME NEW s \in Texts
    PROVE  \E g \in [0..Len(s) -> Parses] :
               Goes(g, Len(s), Unread, ParseSteps(s)) /\ ParseLines(s) = g[Len(s)]
<1> DEFINE n == Len(s)
           Body(p, i) ==
               IF i = 0 THEN [lines |-> <<>>, rest |-> <<>>]
               ELSE LET line == Append(p[i - 1].rest, s[i])
                    IN IF ~s[i].nl THEN [p[i - 1] EXCEPT !.rest = line]
                       ELSE [lines |-> Append(p[i - 1].lines, line), rest |-> <<>>]
           h == CHOOSE p : p = [i \in 0..n |-> Body(p, i)]
<1>1. n \in Nat /\ \A i \in 1..n : s[i] \in Pieces
  BY DEF Texts
<1>2. Unread \in Parses
  BY DEF Unread, Parses, Texts
<1>3. /\ ParseSteps(s) \in [1..n -> [Parses -> Parses]]
      /\ \A i \in 1..n, p \in Parses : ParseSteps(s)[i][p] = ParseStep(p, s[i])
  <2> HIDE DEF n
  <2>1. ParseSteps(s) = [i \in 1..n |-> [p \in Parses |-> ParseStep(p, s[i])]]
    BY Zenon DEF ParseSteps, n
  <2>2. \A i \in 1..n, p \in Parses : ParseStep(p, s[i]) \in Parses
    BY <1>1, ParseStepType
  <2> QED BY <2>1, <2>2
<1>4. PICK g \in [0..n -> Parses] : Goes(g, n, Unread, ParseSteps(s))
  <2> HIDE DEF n
  <2> QED BY <1>1, <1>2, <1>3, Iterate
<1>5. \A i \in 1..n : \A p : Body(p, i) = ParseStep(p[i - 1], s[i])
  BY DEF ParseStep
<1>6. Goes(h, n, Unread, ParseSteps(s)) /\ h \in [0..n -> Parses]
  <2>1. ASSUME NEW i \in 0..n PROVE g[i] = Body(g, i)
    <3>1. g[i] = IF i = 0 THEN Unread ELSE ParseSteps(s)[i][g[i - 1]]
      BY <1>4 DEF Goes
    <3>2. CASE i = 0
      BY <3>1, <3>2 DEF Unread
    <3>3. CASE i # 0
      <4>1. i \in 1..n /\ i - 1 \in 0..n
        BY <3>3, <1>1
      <4> HIDE DEF Body, n
      <4>2. g[i - 1] \in Parses
        BY <1>4, <4>1
      <4>3. Body(g, i) = ParseStep(g[i - 1], s[i])
        BY <1>5, <4>1
      <4> QED BY <1>3, <3>1, <3>3, <4>1, <4>2, <4>3
    <3> QED BY <3>2, <3>3
  <2>2. g = [i \in 0..n |-> Body(g, i)]
    <3> HIDE DEF Body, n
    <3> QED BY <2>1
  <2>3. h = [i \in 0..n |-> Body(h, i)]
    <3> HIDE DEF Body, n
    <3> QED BY <2>2, Zenon
  <2> HIDE DEF h
  <2>4. h[0] = Unread /\ \A i \in 1..n : h[i] = ParseStep(h[i - 1], s[i])
    <3>1. h[0] = Body(h, 0) /\ \A i \in 1..n : h[i] = Body(h, i)
      <4> HIDE DEF Body
      <4> QED BY <1>1, <2>3
    <3>2. h[0] = Unread
      BY <3>1 DEF Unread
    <3>3. ASSUME NEW i \in 1..n PROVE h[i] = ParseStep(h[i - 1], s[i])
      <4> HIDE DEF Body, n
      <4> QED BY <1>5, <3>1, Zenon
    <3> QED BY <3>2, <3>3
  <2> HIDE DEF Body, n
  <2>5. \A i \in 0..n : h[i] \in Parses
    <3>1. \A i \in 1..n : h[i - 1] \in Parses => h[i] \in Parses
      BY <1>1, <2>4, ParseStepType
    <3> QED BY <1>1, <1>2, <2>4, <3>1, Stays
  <2>6. h \in [0..n -> Parses]
    BY <2>3, <2>5
  <2>7. \A i \in 1..n : i - 1 \in 0..n
    BY <1>1
  <2> QED BY <1>3, <2>4, <2>5, <2>6, <2>7 DEF Goes
<1>7. ParseLines(s) = h[n]
  BY Zenon DEF ParseLines
<1> QED BY <1>6, <1>7 DEF n

\* So it reads a text that has a piece more in one step more.
LEMMA ParseAppend ==
    /\ ParseLines(<<>>) = Unread
    /\ \A s \in Texts : ParseLines(s) \in Parses
    /\ \A s \in Texts, x \in Pieces :
           ParseLines(Append(s, x)) = ParseStep(ParseLines(s), x)
<1>1. ASSUME NEW s \in Texts PROVE Len(s) \in Nat
  BY DEF Texts
<1>2. ParseLines(<<>>) = Unread
  <2>1. <<>> \in Texts /\ Len(<<>>) = 0
    BY DEF Texts
  <2> QED BY <2>1, ParseHistory DEF Goes
<1>3. ASSUME NEW s \in Texts PROVE ParseLines(s) \in Parses
  BY <1>1, ParseHistory
<1>4. ASSUME NEW s \in Texts, NEW x \in Pieces
      PROVE  ParseLines(Append(s, x)) = ParseStep(ParseLines(s), x)
  <2> DEFINE t == Append(s, x)
             n == Len(s)
  <2>1. t \in Texts /\ Len(t) = n + 1 /\ t[n + 1] = x /\ \A i \in 1..n : t[i] = s[i]
    BY DEF Texts
  <2>2. n \in Nat
    BY <1>1
  <2> HIDE DEF t, n
  <2>3. PICK g \in [0..n -> Parses] : Goes(g, n, Unread, ParseSteps(s)) /\ ParseLines(s) = g[n]
    BY ParseHistory DEF n
  <2>4. PICK h \in [0..(n + 1) -> Parses] :
            Goes(h, n + 1, Unread, ParseSteps(t)) /\ ParseLines(t) = h[n + 1]
    BY <2>1, ParseHistory
  <2>5. \A i \in 1..n : ParseSteps(s)[i] = ParseSteps(t)[i]
    BY <2>1, <2>2 DEF ParseSteps, n
  <2>6. g[n] = h[n]
    BY <2>2, <2>3, <2>4, <2>5, SameHistory
  <2>7. h[n + 1] = ParseSteps(t)[n + 1][h[n]]
    BY <2>2, <2>4 DEF Goes
  <2>8. h[n] \in Parses
    BY <2>2
  <2>9. ParseSteps(t)[n + 1][h[n]] = ParseStep(h[n], x)
    BY <2>1, <2>2, <2>8 DEF ParseSteps
  <2> QED BY <2>3, <2>4, <2>6, <2>7, <2>9 DEF t
<1> QED BY <1>2, <1>3, <1>4

(***************************************************************************)
(* The entries of lines.  Parsed reports them line by line.                *)
(***************************************************************************)

Reports == Seq(Nat)
ManyLines == Seq(Filled)
Told(e, line) == IF ParseLine(line) = 0 THEN e ELSE Append(e, ParseLine(line))

NoEntries == <<>>

ToldSteps(lines) == [i \in 1..Len(lines) |-> [e \in Reports |-> Told(e, lines[i])]]

\* What a line adds to the entries reported so far.
LEMMA ToldType ==
    ASSUME NEW e \in Reports, NEW line \in Filled
    PROVE  ParseLine(line) \in Nat /\ Told(e, line) \in Reports
<1>1. ParseLine(line) \in Nat
  <2>1. Len(line) \in 1..Len(line) /\ line[Len(line)] \in Pieces
    BY DEF Filled, Texts
  <2> QED BY <2>1 DEF ParseLine, Pieces
<1> QED BY <1>1 DEF Told, Reports

\* Parsed is the last of a history of reports, one for each line.
LEMMA ParsedHistory ==
    ASSUME NEW lines \in ManyLines
    PROVE  \E g \in [0..Len(lines) -> Reports] :
               Goes(g, Len(lines), NoEntries, ToldSteps(lines)) /\ Parsed(lines) = g[Len(lines)]
<1> DEFINE n == Len(lines)
           Body(e, i) ==
               IF i = 0 THEN <<>>
               ELSE IF ParseLine(lines[i]) = 0 THEN e[i - 1]
               ELSE Append(e[i - 1], ParseLine(lines[i]))
           h == CHOOSE e : e = [i \in 0..n |-> Body(e, i)]
<1>1. n \in Nat /\ (\A i \in 1..n : lines[i] \in Filled) /\ NoEntries \in Reports
  BY DEF NoEntries, Reports, ManyLines
<1>2. \A i \in 1..n, e \in Reports : Told(e, lines[i]) \in Reports
  <2> HIDE DEF n
  <2> QED BY <1>1, ToldType
<1>3. /\ ToldSteps(lines) \in [1..n -> [Reports -> Reports]]
      /\ \A i \in 1..n, e \in Reports : ToldSteps(lines)[i][e] = Told(e, lines[i])
  <2>1. ToldSteps(lines) = [i \in 1..n |-> [e \in Reports |-> Told(e, lines[i])]]
    BY Zenon DEF ToldSteps, n
  <2> HIDE DEF n
  <2> QED BY <1>2, <2>1
<1>4. PICK g \in [0..n -> Reports] : Goes(g, n, NoEntries, ToldSteps(lines))
  <2> HIDE DEF n
  <2> QED BY <1>1, <1>3, Iterate
<1>5. \A i \in 1..n : \A e : Body(e, i) = Told(e[i - 1], lines[i])
  BY DEF Told
<1>6. Goes(h, n, NoEntries, ToldSteps(lines)) /\ h \in [0..n -> Reports]
  <2>1. ASSUME NEW i \in 0..n PROVE g[i] = Body(g, i)
    <3>1. g[i] = IF i = 0 THEN NoEntries ELSE ToldSteps(lines)[i][g[i - 1]]
      BY <1>4 DEF Goes
    <3>2. CASE i = 0
      BY <3>1, <3>2 DEF NoEntries
    <3>3. CASE i # 0
      <4>1. i \in 1..n /\ i - 1 \in 0..n
        BY <3>3, <1>1
      <4> HIDE DEF Body, n
      <4>2. g[i - 1] \in Reports
        BY <1>4, <4>1
      <4>3. Body(g, i) = Told(g[i - 1], lines[i])
        BY <1>5, <4>1
      <4> QED BY <1>3, <3>1, <3>3, <4>1, <4>2, <4>3
    <3> QED BY <3>2, <3>3
  <2>2. g = [i \in 0..n |-> Body(g, i)]
    <3> HIDE DEF Body, n
    <3> QED BY <2>1
  <2>3. h = [i \in 0..n |-> Body(h, i)]
    <3> HIDE DEF Body, n
    <3> QED BY <2>2, Zenon
  <2> HIDE DEF h
  <2>4. h[0] = NoEntries /\ \A i \in 1..n : h[i] = Told(h[i - 1], lines[i])
    <3>1. h[0] = Body(h, 0) /\ \A i \in 1..n : h[i] = Body(h, i)
      <4> HIDE DEF Body, n
      <4> QED BY <1>1, <2>3
    <3> QED BY <1>5, <3>1 DEF NoEntries
  <2> HIDE DEF Body, n
  <2>5. \A i \in 0..n : h[i] \in Reports
    <3>1. \A i \in 1..n : h[i - 1] \in Reports => h[i] \in Reports
      BY <1>2, <2>4
    <3> QED BY <1>1, <2>4, <3>1, Stays
  <2>6. h \in [0..n -> Reports]
    BY <2>3, <2>5
  <2>7. \A i \in 1..n : i - 1 \in 0..n
    BY <1>1
  <2> QED BY <1>3, <2>4, <2>5, <2>6, <2>7 DEF Goes
<1>7. Parsed(lines) = h[n]
  BY Zenon DEF Parsed
<1> QED BY <1>6, <1>7 DEF n

\* So a line more is one report more.
LEMMA ParsedAppend ==
    /\ Parsed(<<>>) = <<>>
    /\ \A lines \in ManyLines : Parsed(lines) \in Reports
    /\ \A lines \in ManyLines, x \in Filled :
           Parsed(Append(lines, x)) = Told(Parsed(lines), x)
<1>2. Parsed(<<>>) = <<>>
  <2>1. <<>> \in ManyLines /\ Len(<<>>) = 0
    BY DEF ManyLines
  <2> QED BY <2>1, ParsedHistory DEF Goes, NoEntries
<1>3. ASSUME NEW lines \in ManyLines PROVE Parsed(lines) \in Reports
  <2>1. Len(lines) \in Nat
    BY DEF ManyLines
  <2> QED BY <2>1, ParsedHistory
<1>4. ASSUME NEW lines \in ManyLines, NEW x \in Filled
      PROVE  Parsed(Append(lines, x)) = Told(Parsed(lines), x)
  <2> DEFINE t == Append(lines, x)
             n == Len(lines)
  <2>1. t \in ManyLines /\ Len(t) = n + 1 /\ t[n + 1] = x
        /\ \A i \in 1..n : t[i] = lines[i]
    BY DEF ManyLines
  <2>2. n \in Nat
    BY DEF ManyLines
  <2> HIDE DEF t, n
  <2>3. PICK g \in [0..n -> Reports] :
            Goes(g, n, NoEntries, ToldSteps(lines)) /\ Parsed(lines) = g[n]
    BY ParsedHistory DEF n
  <2>4. PICK h \in [0..(n + 1) -> Reports] :
            Goes(h, n + 1, NoEntries, ToldSteps(t)) /\ Parsed(t) = h[n + 1]
    BY <2>1, ParsedHistory
  <2>5. \A i \in 1..n : ToldSteps(lines)[i] = ToldSteps(t)[i]
    BY <2>1, <2>2 DEF ToldSteps, n
  <2>6. g[n] = h[n]
    BY <2>2, <2>3, <2>4, <2>5, SameHistory
  <2>7. h[n + 1] = ToldSteps(t)[n + 1][h[n]]
    BY <2>2, <2>4 DEF Goes
  <2>8. h[n] \in Reports
    BY <2>2
  <2>9. ToldSteps(t)[n + 1][h[n]] = Told(h[n], x)
    BY <2>1, <2>2, <2>8 DEF ToldSteps
  <2> QED BY <2>3, <2>4, <2>6, <2>7, <2>9 DEF t
<1> QED BY <1>2, <1>3, <1>4

(***************************************************************************)
(* What is read in parts.                                                  *)
(***************************************************************************)

Tellings == Seq(Reports)

\* Two reports joined are a report.
LEMMA JoinType ==
    ASSUME NEW e \in Reports, NEW x \in Reports
    PROVE  Then(e, x) \in Reports
BY DEF Reports, Then

\* So Concat joins them part by part.
LEMMA ConcatAppend ==
    /\ Concat(<<>>) = <<>>
    /\ \A parts \in Tellings : Concat(parts) \in Reports
    /\ \A parts \in Tellings, x \in Reports :
           Concat(Append(parts, x)) = Then(Concat(parts), x)
<1>1. <<>> \in Reports
  BY DEF Reports
<1>2. \A e, x \in Reports : e \o x \in Reports
  BY JoinType DEF Then
<1>3. Closed(Reports)
  BY <1>1, <1>2, Zenon DEF Closed
<1> QED BY <1>3, ConcatGrows, Zenon DEF Tellings, SequencesOf

(***************************************************************************)
(* Texts, piece by piece.                                                  *)
(***************************************************************************)

\* What holds of no text, and with a text of one that has a piece more, holds
\* of all texts.
LEMMA TextInduction ==
    ASSUME NEW S, <<>> \in S, \A s \in Texts, x \in Pieces : s \in S => Append(s, x) \in S
    PROVE  Texts \subseteq S
<1> SUFFICES ASSUME NEW s \in Texts PROVE s \in S
  OBVIOUS
<1> DEFINE n == Len(s)
           T == {i \in 0..n : SubSeq(s, 1, i) \in S}
<1>1. n \in Nat /\ SubSeq(s, 1, 0) = <<>> /\ SubSeq(s, 1, n) = s
  BY DEF Texts
<1>2. 0 \in T
  <2>1. 0 \in 0..n
    BY <1>1
  <2>2. SubSeq(s, 1, 0) \in S
    BY <1>1, Zenon
  <2> HIDE DEF n
  <2> QED BY <2>1, <2>2
<1>3. ASSUME NEW i \in 1..n, i - 1 \in T PROVE i \in T
  <2>1. SubSeq(s, 1, i - 1) \in Texts /\ s[i] \in Pieces
        /\ SubSeq(s, 1, i) = Append(SubSeq(s, 1, i - 1), s[i])
    BY DEF Texts
  <2>2. SubSeq(s, 1, i - 1) \in S
    BY <1>3
  <2>3. i \in 0..n
    BY <1>1
  <2> HIDE DEF n
  <2> QED BY <2>1, <2>2, <2>3
<1>4. \A i \in 0..n : i \in T
  <2> HIDE DEF T, n
  <2> QED BY <1>1, <1>2, <1>3, UpTo
<1>5. n \in T
  <2> HIDE DEF T, n
  <2> QED BY <1>1, <1>4
<1> QED BY <1>1, <1>5

\* What is no whole line yet.
Rest(s) == ParseLines(s).rest

\* What is read of a text: entries, and a text that is left.
LEMMA ReadType ==
    ASSUME NEW s \in Texts
    PROVE  EntriesOf(s) \in Reports /\ Rest(s) \in Texts
<1>1. ParseLines(s) \in Parses
  BY ParseAppend
<1>2. ParseLines(s).lines \in ManyLines
  BY <1>1 DEF Parses, ManyLines
<1> QED BY <1>1, <1>2, ParsedAppend DEF EntriesOf, Rest, Parses

\* A piece more ends a line or does not.
LEMMA ReadStep ==
    ASSUME NEW s \in Texts, NEW x \in Pieces
    PROVE  /\ ~x.nl => /\ Rest(Append(s, x)) = Append(Rest(s), x)
                       /\ EntriesOf(Append(s, x)) = EntriesOf(s)
           /\ x.nl => /\ Rest(Append(s, x)) = <<>>
                      /\ EntriesOf(Append(s, x)) = Told(EntriesOf(s), Append(Rest(s), x))
                      /\ Append(Rest(s), x) \in Filled
<1> DEFINE p == ParseLines(s)
           line == Append(p.rest, x)
<1>1. p \in Parses /\ ParseLines(Append(s, x)) = ParseStep(p, x)
  BY ParseAppend
<1>2. ParseStep(p, x) \in Parses
  BY <1>1, ParseStepType
<1> HIDE DEF p
<1>3. CASE ~x.nl
  <2>1. ParseStep(p, x) = [p EXCEPT !.rest = line]
    BY <1>3 DEF ParseStep
  <2>2. ParseStep(p, x).rest = line /\ ParseStep(p, x).lines = p.lines
    BY <1>1, <2>1 DEF Parses
  <2> QED BY <1>1, <1>3, <2>2 DEF Rest, EntriesOf, p
<1>4. CASE x.nl
  <2>1. ParseStep(p, x).rest = <<>> /\ ParseStep(p, x).lines = Append(p.lines, line)
    BY <1>4 DEF ParseStep
  <2>2. p.lines \in ManyLines /\ p.rest \in Texts
    BY <1>1 DEF Parses, ManyLines
  <2>3. line \in Filled
    <3>1. line \in Texts /\ Len(line) = Len(p.rest) + 1 /\ Len(p.rest) \in Nat
      BY <2>2 DEF Texts
    <3>2. Len(<<>>) = 0
      OBVIOUS
    <3> HIDE DEF line
    <3>3. line # <<>>
      BY <3>1, <3>2
    <3> QED BY <3>1, <3>3 DEF Filled
  <2> HIDE DEF line
  <2>4. Parsed(Append(p.lines, line)) = Told(Parsed(p.lines), line)
    BY <2>2, <2>3, ParsedAppend
  <2> QED BY <1>1, <1>4, <2>1, <2>3, <2>4 DEF Rest, EntriesOf, p, line
<1> QED BY <1>3, <1>4

\* Of no text nothing is read, and nothing is left.
LEMMA ReadNothing ==
    EntriesOf(<<>>) = <<>> /\ Rest(<<>>) = <<>>
BY ParseAppend, ParsedAppend DEF EntriesOf, Rest, Unread

\* What is no whole line yet has no newline, and reads as itself.
LEMMA RestIsOpen ==
    \A s \in Texts : /\ \A j \in DOMAIN Rest(s) : ~Rest(s)[j].nl
                     /\ Rest(Rest(s)) = Rest(s)
                     /\ EntriesOf(Rest(s)) = <<>>
<1> DEFINE Open(r) == (\A j \in DOMAIN r : ~r[j].nl) /\ Rest(r) = r /\ EntriesOf(r) = <<>>
           S == {s \in Texts : Open(Rest(s))}
<1>0. Open(<<>>)
  BY ReadNothing
<1>1. <<>> \in S
  BY <1>0, ReadNothing DEF Texts
<1>2. ASSUME NEW s \in Texts, NEW x \in Pieces, s \in S PROVE Append(s, x) \in S
  <2>1. Append(s, x) \in Texts
    BY DEF Texts
  <2>2. CASE x.nl
    <3>1. Rest(Append(s, x)) = <<>>
      BY <2>2, ReadStep
    <3> QED BY <1>0, <2>1, <3>1
  <2>3. CASE ~x.nl
    <3> DEFINE r == Rest(s)
               t == Append(r, x)
    <3>1. Rest(Append(s, x)) = t
      BY <2>3, ReadStep
    <3>2. r \in Texts /\ Open(r)
      BY <1>2, ReadType
    <3>3. Rest(t) = Append(Rest(r), x) /\ EntriesOf(t) = EntriesOf(r)
      BY <2>3, <3>2, ReadStep
    <3> HIDE DEF r
    <3>4. \A j \in DOMAIN t : ~t[j].nl
      BY <2>3, <3>2 DEF Texts
    <3>5. Open(t)
      BY <3>2, <3>3, <3>4
    <3> HIDE DEF t, Open
    <3> QED BY <2>1, <3>1, <3>5
  <2> QED BY <2>2, <2>3
<1>3. Texts \subseteq S
  <2> HIDE DEF S
  <2> QED BY <1>1, <1>2, TextInduction
<1> QED BY <1>3

\* A text read in two parts: the second read goes on with what was no whole
\* line of the first.
LEMMA ReadOn ==
    ASSUME NEW a \in Texts, NEW b \in Texts
    PROVE  /\ Rest(a \o b) = Rest(Rest(a) \o b)
           /\ EntriesOf(a \o b) = EntriesOf(a) \o EntriesOf(Rest(a) \o b)
<1> DEFINE r == Rest(a)
           S == {t \in Texts : /\ Rest(a \o t) = Rest(r \o t)
                               /\ EntriesOf(a \o t) = EntriesOf(a) \o EntriesOf(r \o t)}
<1>0. r \in Texts /\ EntriesOf(a) \in Reports
  BY ReadType
<1>1. <<>> \in S
  <2>1. a \o <<>> = a /\ r \o <<>> = r /\ <<>> \in Texts
    BY <1>0 DEF Texts
  <2>2. Rest(r) = r /\ EntriesOf(r) = <<>>
    BY RestIsOpen
  <2>3. EntriesOf(a) \o <<>> = EntriesOf(a)
    BY <1>0 DEF Reports
  <2> QED BY <2>1, <2>2, <2>3
<1>2. ASSUME NEW t \in Texts, NEW x \in Pieces, t \in S PROVE Append(t, x) \in S
  <2> HIDE DEF r
  <2> DEFINE u == a \o t
             v == r \o t
  <2>1. /\ Append(t, x) \in Texts /\ u \in Texts /\ v \in Texts
        /\ a \o Append(t, x) = Append(u, x) /\ r \o Append(t, x) = Append(v, x)
    BY <1>0 DEF Texts
  <2>2. Rest(u) = Rest(v) /\ EntriesOf(u) = EntriesOf(a) \o EntriesOf(v)
    BY <1>2
  <2> HIDE DEF u, v, S
  <2>3. CASE ~x.nl
    <3>1. Rest(Append(u, x)) = Append(Rest(u), x) /\ EntriesOf(Append(u, x)) = EntriesOf(u)
      BY <2>1, <2>3, ReadStep, Zenon
    <3>2. Rest(Append(v, x)) = Append(Rest(v), x) /\ EntriesOf(Append(v, x)) = EntriesOf(v)
      BY <2>1, <2>3, ReadStep, Zenon
    <3> QED BY <2>1, <2>2, <3>1, <3>2 DEF S
  <2>4. CASE x.nl
    <3> DEFINE line == Append(Rest(u), x)
    <3>1. Rest(Append(u, x)) = Rest(Append(v, x))
      <4>1. Rest(Append(u, x)) = <<>> /\ Rest(Append(v, x)) = <<>>
        BY <2>1, <2>4, ReadStep, Zenon
      <4> QED BY <4>1
    <3>2. /\ EntriesOf(Append(u, x)) = Told(EntriesOf(u), line)
          /\ EntriesOf(Append(v, x)) = Told(EntriesOf(v), line)
          /\ line \in Filled
      <4>1. line = Append(Rest(v), x)
        BY <2>2
      <4>2. EntriesOf(Append(v, x)) = Told(EntriesOf(v), Append(Rest(v), x))
        BY <2>1, <2>4, ReadStep, Zenon
      <4>3. EntriesOf(Append(u, x)) = Told(EntriesOf(u), line) /\ line \in Filled
        BY <2>1, <2>4, ReadStep, Zenon
      <4> QED BY <4>1, <4>2, <4>3
    <3>3. EntriesOf(v) \in Reports
      BY <2>1, ReadType
    <3> HIDE DEF line
    <3>4. ParseLine(line) \in Nat
      BY <3>2, <3>3, ToldType
    <3>5. Told(EntriesOf(a) \o EntriesOf(v), line) = EntriesOf(a) \o Told(EntriesOf(v), line)
      <4>1. ASSUME NEW e \in Reports, NEW f \in Reports, NEW k \in Nat
            PROVE  Append(e \o f, k) = e \o Append(f, k)
        <5>1. e \in Seq(Nat) /\ f \in Seq(Nat) /\ e \o f \in Seq(Nat) /\ <<k>> \in Seq(Nat)
          BY DEF Reports
        <5>2. Append(e \o f, k) = (e \o f) \o <<k>> /\ Append(f, k) = f \o <<k>>
          BY <5>1, AppendIsConcat
        <5>3. (e \o f) \o <<k>> = e \o (f \o <<k>>)
          BY <5>1, ConcatAssociative
        <5> QED BY <5>2, <5>3
      <4> QED BY <1>0, <3>3, <3>4, <4>1 DEF Told
    <3> QED BY <2>1, <2>2, <3>1, <3>2, <3>5 DEF S
  <2> QED BY <2>3, <2>4
<1>3. Texts \subseteq S
  <2> HIDE DEF S
  <2> QED BY <1>1, <1>2, TextInduction
<1> QED BY <1>3

\* Every entry that is read ends at a newline of its own.
LEMMA EntriesEnd ==
    \A s \in Texts : \A i \in DOMAIN EntriesOf(s) :
        \E j \in DOMAIN s : s[j].nl /\ s[j].entry = EntriesOf(s)[i]
<1> DEFINE Ends(s, e) == \E j \in DOMAIN s : s[j].nl /\ s[j].entry = e
           S == {s \in Texts : \A i \in DOMAIN EntriesOf(s) : Ends(s, EntriesOf(s)[i])}
<1>1. <<>> \in S
  BY ReadNothing DEF Texts
<1>2. ASSUME NEW s \in Texts, NEW x \in Pieces, s \in S PROVE Append(s, x) \in S
  <2> DEFINE t == Append(s, x)
  <2>0. \A i \in DOMAIN EntriesOf(s) : Ends(s, EntriesOf(s)[i])
    BY <1>2
  <2>1. /\ t \in Texts /\ Len(s) \in Nat /\ Len(t) = Len(s) + 1 /\ t[Len(t)] = x
        /\ \A j \in DOMAIN s : j \in DOMAIN t /\ t[j] = s[j]
    BY DEF Texts
  <2>2. \A e : Ends(s, e) => Ends(t, e)
    <3> HIDE DEF t
    <3> QED BY <2>1
  <2>3. EntriesOf(s) \in Reports
    BY ReadType
  <2> SUFFICES ASSUME NEW i \in DOMAIN EntriesOf(t) PROVE Ends(t, EntriesOf(t)[i])
    BY <2>1
  <2>4. CASE ~x.nl
    <3>1. EntriesOf(t) = EntriesOf(s)
      BY <2>4, ReadStep
    <3> HIDE DEF t, Ends
    <3> QED BY <2>0, <2>1, <2>2, <3>1
  <2>5. CASE x.nl
    <3> DEFINE line == Append(Rest(s), x)
    <3>1. EntriesOf(t) = Told(EntriesOf(s), line) /\ line \in Filled
      BY <2>5, ReadStep
    <3>2. ParseLine(line) \in Nat
      BY <2>3, <3>1, ToldType
    <3>3. ParseLine(line) \in {0, x.entry}
      <4>1. line[Len(line)] = x
        BY ReadType DEF Texts
      <4> HIDE DEF line
      <4> QED BY <4>1 DEF ParseLine
    <3>4. Len(t) \in DOMAIN t
      BY <2>1
    <3>5. Ends(t, x.entry)
      BY <2>1, <2>5, <3>4
    <3> HIDE DEF t, line, Ends
    <3>6. CASE ParseLine(line) = 0
      <4>1. EntriesOf(t) = EntriesOf(s)
        BY <3>1, <3>6 DEF Told
      <4> QED BY <2>0, <2>2, <4>1
    <3>7. CASE ParseLine(line) # 0
      <4>1. EntriesOf(t) = Append(EntriesOf(s), x.entry)
        BY <3>1, <3>3, <3>7 DEF Told
      <4>2. \/ i \in DOMAIN EntriesOf(s) /\ EntriesOf(t)[i] = EntriesOf(s)[i]
            \/ EntriesOf(t)[i] = x.entry
        BY <2>3, <4>1 DEF Reports
      <4> QED BY <2>0, <2>2, <3>5, <4>2
    <3> QED BY <3>6, <3>7
  <2> QED BY <2>4, <2>5
<1>3. Texts \subseteq S
  <2> HIDE DEF S
  <2> QED BY <1>1, <1>2, TextInduction
<1> QED BY <1>3

\* Entries that rise; lines that end with entries newer than those before
\* and older than those after.
Ordered(s) == \A i, j \in DOMAIN s : i < j => s[i] < s[j]
EndsInOrder(s) == \A i, j \in DOMAIN s : i < j /\ s[i].nl => s[i].entry < s[j].entry

LEMMA OrderedOn ==
    ASSUME NEW e \in Reports, Ordered(e), NEW v \in Nat, \A i \in DOMAIN e : e[i] < v
    PROVE  Ordered(Append(e, v))
BY DEF Ordered, Reports

\* Lines that end in order are read in order.
LEMMA EntriesOrdered ==
    \A s \in Texts : EndsInOrder(s) => Ordered(EntriesOf(s))
<1> DEFINE S == {s \in Texts : EndsInOrder(s) => Ordered(EntriesOf(s))}
<1>1. <<>> \in S
  BY ReadNothing DEF Texts, Ordered
<1>2. ASSUME NEW s \in Texts, NEW x \in Pieces, s \in S PROVE Append(s, x) \in S
  <2> DEFINE t == Append(s, x)
  <2>1. t \in Texts /\ Len(s) \in Nat /\ DOMAIN s = 1..Len(s) /\ DOMAIN t = 1..(Len(s) + 1)
        /\ t[Len(s) + 1] = x /\ \A j \in DOMAIN s : t[j] = s[j]
    BY DEF Texts
  <2> SUFFICES ASSUME EndsInOrder(t) PROVE Ordered(EntriesOf(t))
    BY <2>1
  <2>2. EndsInOrder(s) /\ \A j \in DOMAIN s : s[j].nl => s[j].entry < x.entry
    <3> HIDE DEF t
    <3> QED BY <2>1 DEF EndsInOrder
  <2>3. Ordered(EntriesOf(s)) /\ EntriesOf(s) \in Reports
    BY <1>2, <2>2, ReadType
  <2>4. \A i \in DOMAIN EntriesOf(s) : EntriesOf(s)[i] < x.entry
    BY <2>2, EntriesEnd
  <2>5. CASE ~x.nl
    BY <2>3, <2>5, ReadStep
  <2>6. CASE x.nl
    <3> DEFINE line == Append(Rest(s), x)
    <3>1. EntriesOf(t) = Told(EntriesOf(s), line)
      BY <2>6, ReadStep
    <3>2. ParseLine(line) \in {0, x.entry}
      <4>1. line[Len(line)] = x
        BY ReadType DEF Texts
      <4> HIDE DEF line
      <4> QED BY <4>1 DEF ParseLine
    <3> HIDE DEF line, t
    <3>3. EntriesOf(t) = EntriesOf(s) \/ EntriesOf(t) = Append(EntriesOf(s), x.entry)
      BY <3>1, <3>2 DEF Told
    <3>4. x.entry \in Nat
      BY DEF Pieces
    <3> QED BY <2>3, <2>4, <3>3, <3>4, OrderedOn, Zenon
  <2> QED BY <2>5, <2>6
<1>3. Texts \subseteq S
  <2> HIDE DEF S
  <2> QED BY <1>1, <1>2, TextInduction
<1> QED BY <1>3

\* The elements of two sequences joined.
LEMMA JoinElements ==
    ASSUME NEW e \in Reports, NEW d \in Reports
    PROVE  Elements(e \o d) = Elements(e) \cup Elements(d)
BY JoinedElements DEF Reports

\* A text that grows keeps its entries; those that come are of what is new.
LEMMA GrownText ==
    ASSUME NEW a \in Texts, NEW b \in Texts
    PROVE  /\ Elements(EntriesOf(a)) \subseteq Elements(EntriesOf(a \o b))
           /\ \A n \in Elements(EntriesOf(a \o b)) :
                  \/ n \in Elements(EntriesOf(a))
                  \/ \E j \in DOMAIN b : b[j].entry = n
<1> DEFINE r == Rest(a)
           t == r \o b
           e == EntriesOf(a)
           d == EntriesOf(t)
<1>1. r \in Texts /\ t \in Texts /\ (\A j \in DOMAIN r : ~r[j].nl)
      /\ \A j \in DOMAIN t : j \notin DOMAIN r => \E k \in DOMAIN b : t[j] = b[k]
  <2>1. r \in Texts /\ \A j \in DOMAIN r : ~r[j].nl
    BY ReadType, RestIsOpen
  <2> HIDE DEF r
  <2>2. t \in Texts /\ DOMAIN r = 1..Len(r) /\ DOMAIN b = 1..Len(b)
        /\ DOMAIN t = 1..(Len(r) + Len(b)) /\ Len(r) \in Nat /\ Len(b) \in Nat
        /\ \A j \in DOMAIN t : j > Len(r) => t[j] = b[j - Len(r)]
    BY <2>1 DEF Texts
  <2>3. ASSUME NEW j \in DOMAIN t, j \notin DOMAIN r PROVE \E k \in DOMAIN b : t[j] = b[k]
    <3>1. j - Len(r) \in DOMAIN b /\ t[j] = b[j - Len(r)]
      BY <2>2, <2>3
    <3> QED BY <3>1
  <2> QED BY <2>1, <2>2, <2>3
<1>2. \A j \in DOMAIN r : j \in DOMAIN t /\ t[j] = r[j]
  BY <1>1 DEF Texts
<1>3. EntriesOf(a \o b) = e \o d
  BY ReadOn
<1>4. e \in Reports /\ d \in Reports
  BY <1>1, ReadType
<1>5. ASSUME NEW n \in Elements(d) PROVE \E j \in DOMAIN b : b[j].entry = n
  <2> HIDE DEF r, t
  <2>1. PICK i \in DOMAIN d : d[i] = n
    BY DEF Elements
  <2>2. PICK j \in DOMAIN t : t[j].nl /\ t[j].entry = n
    BY <1>1, <2>1, EntriesEnd
  <2> HIDE DEF r, t, d
  <2> QED BY <1>1, <1>2, <2>2
<1> HIDE DEF e, d
<1>6. Elements(e \o d) = Elements(e) \cup Elements(d)
  BY <1>4, JoinElements
<1> QED BY <1>3, <1>5, <1>6 DEF e

(***************************************************************************)
(* The writer: only the newest file is written, and what is written is     *)
(* newer than all there is.                                                *)
(***************************************************************************)

\* The newest entry of which a piece may be in the log.
Written == IF writing = "idle" THEN entries ELSE entries - 1

\* The current file, if there is one, is the last; .1 is the one before.
WriterInv ==
    /\ file \in Seq(Texts)
    /\ entries \in Nat
    /\ current \in {0, Len(file)}
    /\ rotated = IF current = 0 THEN Len(file) ELSE Len(file) - 1
    /\ handle \in {0, current}
    /\ writing \in {"opened", "ready"} => handle # 0
    /\ writing = "replaced" => current = 0

\* The lines of a file end in order, and the files follow each other.
OrderInv ==
    /\ \A f \in DOMAIN file : EndsInOrder(file[f])
    /\ \A f \in DOMAIN file : \A i \in DOMAIN file[f] : file[f][i].entry <= Written
    /\ \A f, g \in DOMAIN file : f < g =>
           \A i \in DOMAIN file[f], j \in DOMAIN file[g] :
               file[f][i].entry < file[g][j].entry

WriterNext == ensure_open \/ Rotate \/ Reopen \/ WriteLine \/ RotateFails \/ Restart

\* What the readers see of a step of the writer.
LogGrows ==
    /\ DOMAIN file \subseteq DOMAIN file'
    /\ \A f \in DOMAIN file : f # current => file'[f] = file[f]
    /\ \A f \in DOMAIN file : \E t \in Texts :
           file'[f] = file[f] \o t /\ \A j \in DOMAIN t : t[j].entry > Written
    /\ \A f \in DOMAIN file' \ DOMAIN file : file'[f] = <<>>
    /\ current' \in {0, current} \/ current' \notin 0..Len(file)

\* The part of a line that is written.
LEMMA LineType ==
    ASSUME NEW e \in Nat, NEW n \in 0..2
    PROVE  LET t == SubSeq(encode(e), 1, n)
           IN  t \in Texts /\ EndsInOrder(t) /\ \A j \in DOMAIN t : t[j].entry = e
<1> DEFINE line == encode(e)
           t == SubSeq(line, 1, n)
<1>1. line \in Texts /\ Len(line) = 2 /\ line[1] = Piece(e, FALSE) /\ line[2] = Piece(e, TRUE)
  BY DEF encode, Texts, Pieces, Piece
<1> HIDE DEF line
<1>2. t \in Texts /\ DOMAIN t = 1..n /\ \A j \in 1..n : t[j] = line[j]
  <2>1. line \in Seq(Pieces) /\ 1 \in 1..(Len(line) + 1) /\ n \in 0..Len(line)
    BY <1>1 DEF Texts
  <2>2. t \in Seq(Pieces) /\ Len(t) = n /\ \A j \in 1..n : t[j] = line[j]
    BY <2>1
  <2> QED BY <2>2 DEF Texts
<1> HIDE DEF t
<1>3. ASSUME NEW j \in 1..n PROVE t[j].entry = e /\ (t[j].nl => j = 2)
  <2>1. j \in {1, 2}
    OBVIOUS
  <2> QED BY <1>1, <1>2, <2>1 DEF Piece
<1>4. EndsInOrder(t)
  BY <1>2, <1>3 DEF EndsInOrder
<1> QED BY <1>2, <1>3, <1>4 DEF t, line

\* A new file, an empty one.
NewFile ==
    /\ file' = Append(file, <<>>)
    /\ current' = Len(file) + 1

\* More of the newest file.
MoreText ==
    /\ current' = current /\ current = Len(file) /\ current # 0
    /\ \E t \in Texts :
        /\ file' = [file EXCEPT ![current] = @ \o t]
        /\ EndsInOrder(t) /\ \A j \in DOMAIN t : t[j].entry = entries

\* A step of the writer leaves the files, begins one or lengthens the newest.
LEMMA WriterSteps ==
    ASSUME WriterInv, WriterNext
    PROVE  /\ \/ file' = file /\ current' \in {0, current}
              \/ NewFile
              \/ MoreText /\ writing # "idle" /\ writing' = "idle" /\ entries' = entries
           /\ Written' >= Written /\ WriterInv'
<1>1. CASE ensure_open
  <2>1. writing = "idle" /\ entries' = entries + 1 /\ writing' = "opened" /\ rotated' = rotated
    BY <1>1 DEF ensure_open
  <2>2. \/ handle # 0 /\ UNCHANGED <<file, current, handle>>
        \/ handle = 0 /\ current # 0 /\ handle' = current /\ UNCHANGED <<file, current>>
        \/ handle = 0 /\ current = 0 /\ NewFile /\ handle' = Len(file) + 1
    BY <1>1 DEF ensure_open, NewFile, Created
  <2>3. <<>> \in Texts
    BY DEF Texts
  <2>4. WriterInv'
    BY <2>1, <2>2, <2>3 DEF WriterInv, NewFile
  <2> QED BY <2>1, <2>2, <2>4 DEF WriterInv, Written
<1>2. CASE Rotate
  <2>1. writing = "opened" /\ writing' = "replaced" /\ entries' = entries /\ file' = file
        /\ rotated' = current /\ current' = 0 /\ handle' = 0
    BY <1>2 DEF Rotate
  <2> QED BY <2>1 DEF WriterInv, Written
<1>3. CASE Reopen
  <2>1. <<>> \in Texts
    BY DEF Texts
  <2> QED BY <1>3, <2>1 DEF Reopen, WriterInv, Written, NewFile, Created
<1>4. CASE WriteLine
  <2>1. writing \in {"ready", "opened"} /\ writing' = "idle" /\ entries' = entries
        /\ current' = current /\ rotated' = rotated /\ handle' = handle
    BY <1>4 DEF WriteLine
  <2>2. handle = current /\ current = Len(file) /\ current # 0
    BY <2>1 DEF WriterInv
  <2>3. PICK n \in 0..2 :
            file' = [file EXCEPT ![handle] = @ \o SubSeq(encode(entries), 1, n)]
    BY <1>4 DEF WriteLine
  <2> DEFINE t == SubSeq(encode(entries), 1, n)
  <2>4. t \in Texts /\ EndsInOrder(t) /\ \A j \in DOMAIN t : t[j].entry = entries
    BY LineType DEF WriterInv
  <2>5. file' = [file EXCEPT ![current] = @ \o t]
    BY <2>2, <2>3
  <2> HIDE DEF t
  <2>6. MoreText
    BY <2>1, <2>2, <2>4, <2>5 DEF MoreText
  <2>7. \A a, b \in Texts : a \o b \in Texts
    BY DEF Texts
  <2>8. file' \in Seq(Texts) /\ Len(file') = Len(file)
    BY <2>2, <2>4, <2>5, <2>7 DEF WriterInv
  <2>9. WriterInv'
    BY <2>1, <2>8 DEF WriterInv
  <2> QED BY <2>1, <2>6, <2>9 DEF WriterInv, Written
<1>5. CASE RotateFails
  BY <1>5 DEF RotateFails, WriterInv, Written
<1>6. CASE Restart
  BY <1>6 DEF Restart, WriterInv, Written
<1> QED BY <1>1, <1>2, <1>3, <1>4, <1>5, <1>6 DEF WriterNext

\* So it keeps their order, and the readers see a log that only grows.
LEMMA WriterKeepsOrder ==
    ASSUME WriterInv, OrderInv, WriterNext
    PROVE  OrderInv' /\ LogGrows
<1>0. /\ file \in Seq(Texts) /\ Len(file) \in Nat /\ DOMAIN file = 1..Len(file)
      /\ Written \in Int /\ Written' \in Int /\ Written' >= Written
      /\ \A f \in DOMAIN file : file[f] \in Texts
  BY WriterSteps DEF WriterInv, Written
<1>1. /\ \A t \in Texts : t \o <<>> = t
      /\ <<>> \in Texts /\ DOMAIN <<>> = {} /\ EndsInOrder(<<>>)
      /\ \A t \in Texts : \A i \in DOMAIN t : t[i].entry \in Nat
  <2>1. \A t \in Texts : t \o <<>> = t
    BY ConcatEmptySeq DEF Texts
  <2>2. <<>> \in Texts /\ DOMAIN <<>> = {} /\ EndsInOrder(<<>>)
    BY DEF Texts, EndsInOrder
  <2>3. ASSUME NEW t \in Texts, NEW i \in DOMAIN t PROVE t[i].entry \in Nat
    <3>1. t[i] \in Pieces
      BY DEF Texts
    <3> QED BY <3>1 DEF Pieces
  <2> QED BY <2>1, <2>2, <2>3
<1>2. ASSUME file' = file, current' \in {0, current} PROVE OrderInv' /\ LogGrows
  <2>1. ASSUME NEW f \in DOMAIN file, NEW i \in DOMAIN file[f]
        PROVE  file[f][i].entry <= Written'
    BY <1>0, <1>1 DEF OrderInv
  <2>2. OrderInv'
    BY <1>2, <2>1 DEF OrderInv
  <2>3. \A f \in DOMAIN file : \E t \in Texts :
            file'[f] = file[f] \o t /\ \A j \in DOMAIN t : t[j].entry > Written
    BY <1>0, <1>1, <1>2
  <2> QED BY <1>2, <2>2, <2>3 DEF LogGrows
<1>3. ASSUME NewFile PROVE OrderInv' /\ LogGrows
  <2>1. /\ DOMAIN file' = 1..(Len(file) + 1) /\ file'[Len(file) + 1] = <<>>
        /\ \A f \in DOMAIN file : file'[f] = file[f]
    BY <1>0, <1>3 DEF NewFile
  <2>2. \A f \in DOMAIN file' : f \in DOMAIN file \/ file'[f] = <<>>
    BY <1>0, <2>1
  <2>3. ASSUME NEW f \in DOMAIN file', NEW i \in DOMAIN file'[f]
        PROVE  f \in DOMAIN file /\ i \in DOMAIN file[f] /\ file'[f][i] = file[f][i]
    BY <1>1, <2>1, <2>2
  <2>4. ASSUME NEW f \in DOMAIN file', NEW i \in DOMAIN file'[f]
        PROVE  file'[f][i].entry <= Written'
    <3>1. file[f][i].entry <= Written /\ file[f][i].entry \in Nat
      BY <1>0, <1>1, <2>3 DEF OrderInv
    <3> QED BY <1>0, <2>3, <3>1
  <2>5. ASSUME NEW f \in DOMAIN file' PROVE EndsInOrder(file'[f])
    BY <1>1, <2>1, <2>2 DEF OrderInv
  <2>6. ASSUME NEW f \in DOMAIN file', NEW g \in DOMAIN file', f < g,
               NEW i \in DOMAIN file'[f], NEW k \in DOMAIN file'[g]
        PROVE  file'[f][i].entry < file'[g][k].entry
    BY <2>3, <2>6 DEF OrderInv
  <2>7. OrderInv'
    BY <2>4, <2>5, <2>6 DEF OrderInv
  <2>8. \A f \in DOMAIN file : \E t \in Texts :
            file'[f] = file[f] \o t /\ \A j \in DOMAIN t : t[j].entry > Written
    BY <1>0, <1>1, <2>1
  <2>9. DOMAIN file \subseteq DOMAIN file' /\ current' \notin 0..Len(file)
    BY <1>0, <1>3, <2>1 DEF NewFile
  <2> QED BY <2>1, <2>2, <2>7, <2>8, <2>9 DEF LogGrows
<1>4. ASSUME MoreText, writing # "idle", writing' = "idle", entries' = entries
      PROVE  OrderInv' /\ LogGrows
  <2>1. Written = entries - 1 /\ Written' = entries /\ entries \in Nat
    BY <1>4 DEF Written, WriterInv
  <2>2. PICK t \in Texts : /\ file' = [file EXCEPT ![current] = @ \o t]
                           /\ EndsInOrder(t) /\ \A i \in DOMAIN t : t[i].entry = entries
    BY <1>4, Zenon DEF MoreText
  <2>3. current \in DOMAIN file /\ current = Len(file) /\ current' = current
    <3>1. current = Len(file) /\ current # 0 /\ current' = current
      BY <1>4, Zenon DEF MoreText
    <3> QED BY <1>0, <3>1
  <2> DEFINE a == file[current]
             b == a \o t
  <2>4. /\ DOMAIN file' = DOMAIN file /\ file'[current] = b
        /\ \A f \in DOMAIN file : f # current => file'[f] = file[f]
    BY <1>0, <2>2, <2>3
  <2>5. a \in Texts /\ EndsInOrder(a) /\ \A i \in DOMAIN a : a[i].entry < entries
    <3>1. a \in Texts /\ EndsInOrder(a) /\ \A i \in DOMAIN a : a[i].entry <= Written
      BY <1>0, <2>3 DEF OrderInv
    <3> HIDE DEF a
    <3> QED BY <1>1, <2>1, <3>1
  <2> HIDE DEF a
  <2>6. /\ \A i \in DOMAIN b : \/ i \in DOMAIN a /\ b[i] = a[i]
                               \/ i - Len(a) \in DOMAIN t /\ b[i] = t[i - Len(a)]
        /\ \A i \in DOMAIN b, k \in DOMAIN b : i \notin DOMAIN a /\ i < k => k \notin DOMAIN a
        /\ DOMAIN b \subseteq Int /\ Len(a) \in Int
    BY <2>2, <2>5 DEF Texts
  <2> HIDE DEF b
  <2>7. \A i \in DOMAIN b : \/ i \in DOMAIN a /\ b[i] = a[i] /\ b[i].entry < entries
                            \/ i \notin DOMAIN a /\ b[i].entry = entries
    <3>1. \A i \in DOMAIN t : t[i].entry = entries
      BY <2>2
    <3>2. DOMAIN a = 1..Len(a) /\ DOMAIN t = 1..Len(t) /\ Len(t) \in Nat
      BY <2>5 DEF Texts
    <3> QED BY <2>5, <2>6, <3>1, <3>2
  <2>8. EndsInOrder(b)
    <3>1. ASSUME NEW i \in DOMAIN b, NEW k \in DOMAIN b, i < k, b[i].nl
          PROVE  b[i].entry < b[k].entry
      <4>1. CASE i \in DOMAIN a /\ k \in DOMAIN a
        BY <2>5, <2>7, <3>1, <4>1 DEF EndsInOrder
      <4>2. CASE i \in DOMAIN a /\ k \notin DOMAIN a
        BY <2>7, <4>2
      <4>3. CASE i \notin DOMAIN a
        <5>1. k \notin DOMAIN a
          BY <2>6, <3>1, <4>3
        <5>2. /\ i - Len(a) \in DOMAIN t /\ b[i] = t[i - Len(a)]
              /\ k - Len(a) \in DOMAIN t /\ b[k] = t[k - Len(a)]
              /\ i - Len(a) < k - Len(a)
          BY <2>6, <3>1, <4>3, <5>1
        <5> QED BY <2>2, <3>1, <5>2 DEF EndsInOrder
      <4> QED BY <4>1, <4>2, <4>3
    <3> QED BY <3>1 DEF EndsInOrder
  <2>9. ASSUME NEW f \in DOMAIN file' PROVE EndsInOrder(file'[f])
    BY <2>4, <2>8 DEF OrderInv
  <2>10. ASSUME NEW f \in DOMAIN file', NEW i \in DOMAIN file'[f]
         PROVE  file'[f][i].entry <= Written'
    <3>1. CASE f = current
      <4>1. file'[f] = b /\ i \in DOMAIN b
        BY <2>4, <3>1
      <4>2. \/ b[i].entry = entries
            \/ i \in DOMAIN a /\ b[i] = a[i] /\ b[i].entry < entries
        BY <2>7, <4>1
      <4>3. i \in DOMAIN a => a[i].entry \in Nat
        BY <1>1, <2>5
      <4> QED BY <2>1, <4>1, <4>2, <4>3
    <3>2. CASE f # current
      <4>1. file'[f] = file[f] /\ file[f][i].entry <= Written /\ file[f][i].entry \in Nat
        BY <1>0, <1>1, <2>4, <3>2 DEF OrderInv
      <4> QED BY <2>1, <4>1
    <3> QED BY <3>1, <3>2
  <2>11. ASSUME NEW f \in DOMAIN file', NEW g \in DOMAIN file', f < g,
                NEW i \in DOMAIN file'[f], NEW k \in DOMAIN file'[g]
         PROVE  file'[f][i].entry < file'[g][k].entry
    <3>1. f # current /\ f \in DOMAIN file /\ g \in DOMAIN file /\ file'[f] = file[f]
      BY <1>0, <2>3, <2>4, <2>11
    <3>2. CASE g = current
      <4>1. file[f][i].entry <= Written /\ file[f][i].entry \in Nat
        BY <1>0, <1>1, <3>1 DEF OrderInv
      <4>2. CASE k \in DOMAIN a
        <5>1. file[f][i].entry < a[k].entry
          BY <2>11, <3>1, <3>2, <4>2 DEF OrderInv, a
        <5> QED BY <2>4, <2>7, <3>1, <3>2, <4>2, <5>1
      <4>3. CASE k \notin DOMAIN a
        BY <2>1, <2>4, <2>7, <3>1, <3>2, <4>1, <4>3
      <4> QED BY <4>2, <4>3
    <3>3. CASE g # current
      BY <2>4, <2>11, <3>1, <3>3 DEF OrderInv
    <3> QED BY <3>2, <3>3
  <2>12. OrderInv'
    BY <2>9, <2>10, <2>11 DEF OrderInv
  <2>13. ASSUME NEW f \in DOMAIN file
         PROVE  \E u \in Texts : file'[f] = file[f] \o u
                                 /\ \A i \in DOMAIN u : u[i].entry > Written
    <3>1. CASE f = current
      BY <2>1, <2>2, <2>4, <3>1 DEF a, b
    <3>2. CASE f # current
      BY <1>0, <1>1, <2>4, <3>2
    <3> QED BY <3>1, <3>2
  <2> QED BY <2>3, <2>4, <2>12, <2>13 DEF LogGrows
<1> QED BY <1>2, <1>3, <1>4, WriterSteps

(***************************************************************************)
(* The follower.  It leaves a file when nobody writes it any more and it   *)
(* has read its end; of the one it holds, leftover is what was read and is *)
(* no whole line yet.                                                      *)
(***************************************************************************)

Starts == [file : Nat, from : Nat]

\* No file twice, and none after a newer one; each from a place it has.
Rising(st) == \A i, j \in DOMAIN st : i < j => st[i].file < st[j].file

Begun(fs, st) ==
    \A i \in DOMAIN st : st[i].file \in DOMAIN fs /\ st[i].from <= Len(fs[st[i].file])

\* What is read of the files of st, of the last one up to o if it is held.
ReadTo(fs, st, h, o, i) ==
    SubSeq(fs[st[i].file], st[i].from + 1,
           IF i = Len(st) /\ h # 0 THEN o ELSE Len(fs[st[i].file]))

Reads(fs, st, h, o) == [i \in DOMAIN st |-> EntriesOf(ReadTo(fs, st, h, o, i))]

Newest == started[Len(started)]

\* Of the files it opened, and how far it is in the one it holds.
FollowPlaces ==
    /\ started \in Seq(Starts) /\ Begun(file, started)
    /\ held \in Nat /\ offset \in Nat
    /\ held # 0 => /\ started # <<>> /\ held = Newest.file
                   /\ Newest.from <= offset /\ offset <= Len(file[held])

\* Of when it leaves a file, and what it read and printed.
FollowReads ==
    /\ Rising(started)
    /\ following = "off" => started = <<>> /\ held = 0
    /\ held # 0 => leftover = Rest(SubSeq(file[held], Newest.from + 1, offset))
    /\ \A i \in DOMAIN started : started[i].file = current => held = current
    /\ following \in {"drain old", "open"} => current = 0 \/ current # held
    /\ following = "open" /\ held # 0 => offset = Len(file[held])
    /\ shown = Concat(Reads(file, started, held, offset))

FollowInv == FollowPlaces /\ FollowReads

\* A part of a text.
LEMMA PartType ==
    ASSUME NEW t \in Texts, NEW m \in Nat, NEW n \in Nat, n <= Len(t)
    PROVE  /\ SubSeq(t, m + 1, n) \in Texts
           /\ n <= m => SubSeq(t, m + 1, n) = <<>>
<1>1. \A i \in (m + 1)..n : t[i] \in Pieces
  BY DEF Texts
<1>2. SubSeq(t, m + 1, n) \in Seq(Pieces)
  BY <1>1, SubSeqProperties
<1>3. n <= m => SubSeq(t, m + 1, n) = <<>>
  BY SubSeqEmpty
<1> QED BY <1>2, <1>3 DEF Texts

\* The reads are reports, one for each file that was opened.
LEMMA ReadsType ==
    ASSUME NEW fs \in Seq(Texts), NEW st \in Seq(Starts), Begun(fs, st),
           NEW h \in Nat, NEW o \in Nat,
           st # <<>> /\ h # 0 => o <= Len(fs[st[Len(st)].file])
    PROVE  /\ Reads(fs, st, h, o) \in Tellings /\ Len(Reads(fs, st, h, o)) = Len(st)
           /\ DOMAIN Reads(fs, st, h, o) = DOMAIN st
<1>1. ASSUME NEW i \in DOMAIN st PROVE EntriesOf(ReadTo(fs, st, h, o, i)) \in Reports
  <2> DEFINE t == fs[st[i].file]
             n == IF i = Len(st) /\ h # 0 THEN o ELSE Len(t)
  <2>1. t \in Texts /\ st[i].from \in Nat
    <3>1. st[i] \in Starts /\ st[i].file \in DOMAIN fs
      BY DEF Begun
    <3> QED BY <3>1 DEF Starts
  <2>2. n \in Nat /\ n <= Len(t)
    BY <2>1 DEF Texts
  <2> HIDE DEF t, n
  <2>3. SubSeq(t, st[i].from + 1, n) \in Texts
    BY <2>1, <2>2, PartType
  <2> QED BY <2>3, ReadType DEF ReadTo, t, n
<1>2. DOMAIN st = 1..Len(st) /\ Len(st) \in Nat
  OBVIOUS
<1> QED BY <1>1, <1>2 DEF Reads, Tellings

\* The reads of FollowsTheLog.
Printed(fs, st, h, o) ==
    [i \in DOMAIN st |->
        EntriesOf(SubSeq(fs[st[i].file], st[i].from + 1,
                         IF st[i] = st[Len(st)] /\ h # 0 THEN o
                         ELSE Len(fs[st[i].file])))]

\* They are those of FollowsTheLog, no file having been opened twice.
LEMMA ReadsAre ==
    ASSUME NEW fs, NEW st \in Seq(Starts), Rising(st), NEW h, NEW o
    PROVE  Printed(fs, st, h, o) = Reads(fs, st, h, o)
<1>1. ASSUME NEW i \in DOMAIN st PROVE st[i] = st[Len(st)] <=> i = Len(st)
  <2>1. CASE i = Len(st)
    BY <2>1
  <2>2. CASE i # Len(st)
    <3>1. Len(st) \in DOMAIN st /\ i < Len(st)
      BY <2>2
    <3>2. st[i] \in Starts
      OBVIOUS
    <3>3. st[i].file < st[Len(st)].file /\ st[i].file \in Nat
      BY <3>1, <3>2 DEF Rising, Starts
    <3> QED BY <2>2, <3>3
  <2> QED BY <2>1, <2>2
<1> QED BY <1>1, Zenon DEF Printed, Reads, ReadTo

\* Reports are joined in any grouping.
LEMMA JoinThree ==
    \A a, b, c \in Reports : a \o (b \o c) = (a \o b) \o c
<1> TAKE a \in Reports, b \in Reports, c \in Reports
<1>1. a \in Seq(Nat) /\ b \in Seq(Nat) /\ c \in Seq(Nat)
  BY DEF Reports
<1>2. (a \o b) \o c = a \o (b \o c)
  BY <1>1, ConcatAssociative, SMTT(30)
<1> QED BY <1>2

\* The last part is longer by e.
LEMMA ReadMore ==
    ASSUME NEW parts \in Tellings, NEW more \in Tellings, NEW e \in Reports,
           NEW n \in Nat \ {0}, Len(parts) = n, Len(more) = n,
           \A i \in 1..(n - 1) : parts[i] = more[i], more[n] = parts[n] \o e
    PROVE  Concat(more) = Concat(parts) \o e
<1> DEFINE front == SubSeq(parts, 1, n - 1)
<1>1. /\ front \in Tellings /\ parts[n] \in Reports /\ more[n] \in Reports
      /\ parts = Append(front, parts[n]) /\ more = Append(front, more[n])
  <2>1. front \in Tellings /\ Len(front) = n - 1 /\ \A i \in 1..(n - 1) : front[i] = parts[i]
    BY DEF Tellings
  <2> HIDE DEF front
  <2>2. ASSUME NEW ps \in Tellings, Len(ps) = n, \A i \in 1..(n - 1) : ps[i] = front[i]
        PROVE  ps[n] \in Reports /\ ps = Append(front, ps[n])
    <3>1. ps[n] \in Reports
      BY <2>2 DEF Tellings
    <3>2. /\ Append(front, ps[n]) \in Seq(Reports) /\ Len(Append(front, ps[n])) = n
          /\ \A i \in 1..(n - 1) : Append(front, ps[n])[i] = front[i]
          /\ Append(front, ps[n])[n] = ps[n]
      BY <2>1, <3>1 DEF Tellings
    <3>3. \A i \in 1..n : ps[i] = Append(front, ps[n])[i]
      BY <2>2, <3>2
    <3> QED BY <2>2, <3>1, <3>2, <3>3 DEF Tellings
  <2>3. parts[n] \in Reports /\ parts = Append(front, parts[n])
    BY <2>1, <2>2
  <2>4. more[n] \in Reports /\ more = Append(front, more[n])
    BY <2>1, <2>2
  <2> QED BY <2>1, <2>3, <2>4
<1> HIDE DEF front
<1>2. /\ Concat(parts) = Concat(front) \o parts[n]
      /\ Concat(more) = Concat(front) \o more[n]
      /\ Concat(front) \in Reports
  <2>1. \A r \in Reports : Concat(Append(front, r)) = Then(Concat(front), r)
    BY <1>1, ConcatAppend
  <2>2. Concat(parts) = Then(Concat(front), parts[n]) /\ Concat(more) = Then(Concat(front), more[n])
    BY <1>1, <2>1, Zenon
  <2>3. Concat(front) \in Reports
    BY <1>1, ConcatAppend
  <2> QED BY <2>2, <2>3, Zenon DEF Then
<1>4. Concat(front) \o (parts[n] \o e) = (Concat(front) \o parts[n]) \o e
  <2>1. Concat(front) \in Reports /\ parts[n] \in Reports
    BY <1>1, <1>2
  <2> QED BY <2>1, JoinThree, Zenon
<1> QED BY <1>2, <1>4, Zenon

\* What of a follower's state the proofs use again and again.
LEMMA FollowFacts ==
    ASSUME WriterInv, FollowPlaces
    PROVE  /\ DOMAIN file = 1..Len(file) /\ Len(file) \in Nat
           /\ \A f \in DOMAIN file : file[f] \in Texts /\ Len(file[f]) \in Nat
           /\ started \in Seq(Starts)
           /\ DOMAIN started = 1..Len(started) /\ Len(started) \in Nat
           /\ \A i \in DOMAIN started :
                  /\ started[i].file \in DOMAIN file
                  /\ started[i].from \in Nat
                  /\ started[i].from <= Len(file[started[i].file])
           /\ held \in Nat /\ offset \in Nat
           /\ held # 0 => /\ Len(started) \in DOMAIN started /\ held = Newest.file
                          /\ held \in DOMAIN file
                          /\ Newest.from \in Nat /\ Newest.from <= offset
                          /\ offset <= Len(file[held])
<1>1. DOMAIN file = 1..Len(file) /\ Len(file) \in Nat
  BY DEF WriterInv
<1>2. \A f \in DOMAIN file : file[f] \in Texts
  BY DEF WriterInv
<1>3. \A t \in Texts : Len(t) \in Nat
  BY DEF Texts
<1>4. started \in Seq(Starts) /\ Begun(file, started) /\ held \in Nat /\ offset \in Nat
  BY Zenon DEF FollowPlaces
<1>5. DOMAIN started = 1..Len(started) /\ Len(started) \in Nat
  BY <1>4
<1>6. ASSUME NEW i \in DOMAIN started
      PROVE  /\ started[i].file \in DOMAIN file /\ started[i].from \in Nat
             /\ started[i].from <= Len(file[started[i].file])
  <2>1. started[i] \in Starts
    BY <1>4
  <2> QED BY <1>4, <2>1 DEF Begun, Starts
<1>7. ASSUME held # 0
      PROVE  /\ Len(started) \in DOMAIN started /\ held = Newest.file
             /\ Newest.from <= offset /\ offset <= Len(file[held])
  <2>1. started # <<>> /\ held = Newest.file
        /\ Newest.from <= offset /\ offset <= Len(file[held])
    BY <1>7, Zenon DEF FollowPlaces
  <2>2. Len(started) \in DOMAIN started
    BY <1>4, <2>1
  <2> QED BY <2>1, <2>2
<1>8. held # 0 => held \in DOMAIN file /\ Newest.from \in Nat
  BY <1>6, <1>7 DEF Newest
<1>9. \A f \in DOMAIN file : Len(file[f]) \in Nat
  BY <1>2, <1>3
<1> QED BY <1>1, <1>2, <1>4, <1>5, <1>6, <1>7, <1>8, <1>9

\* Of a file that grows, what was read stays as it was.
LEMMA PartStays ==
    ASSUME NEW a \in Texts, NEW t \in Texts
    PROVE  /\ Len(a) <= Len(a \o t)
           /\ \A m \in Nat, n \in Nat : n <= Len(a) =>
                  SubSeq(a \o t, m + 1, n) = SubSeq(a, m + 1, n)
<1>1. a \in Seq(Pieces) /\ t \in Seq(Pieces)
  BY DEF Texts
<1>2. ASSUME NEW m \in Nat, NEW n \in Nat, n <= Len(a)
      PROVE  SubSeq(a \o t, m + 1, n) = SubSeq(a, m + 1, n)
  <2>1. CASE n <= m
    <3>1. n < m + 1
      BY <2>1
    <3>2. \A s : SubSeq(s, m + 1, n) = <<>>
      BY <3>1, SubSeqEmpty
    <3> QED BY <3>2
  <2>2. CASE n > m
    <3>1. m + 1 \in 1..Len(a) /\ n \in 1..Len(a)
      BY <1>1, <1>2, <2>2
    <3> QED BY <1>1, <3>1, SubSeqOfConcat1
  <2>3. n <= m \/ n > m
    OBVIOUS
  <2> QED BY <2>1, <2>2, <2>3, Zenon
<1> QED BY <1>1, <1>2

\* To the follower a step of the writer adds at the end of the file it holds.
LEMMA WriterKeepsFollower ==
    ASSUME WriterInv, FollowInv, LogGrows, file' \in Seq(Texts), UNCHANGED followVars
    PROVE  FollowInv'
<1>1. ASSUME NEW f \in DOMAIN file
      PROVE  /\ f \in DOMAIN file' /\ Len(file[f]) <= Len(file'[f])
             /\ \A m \in Nat, n \in Nat : n <= Len(file[f]) =>
                    SubSeq(file'[f], m + 1, n) = SubSeq(file[f], m + 1, n)
             /\ Len(file'[f]) \in Nat /\ Len(file[f]) \in Nat
  <2>1. PICK t \in Texts : file'[f] = file[f] \o t
    BY DEF LogGrows
  <2>2. file[f] \in Texts /\ f \in DOMAIN file' /\ file'[f] \in Texts
    BY DEF WriterInv, LogGrows
  <2>3. \A s \in Texts : Len(s) \in Nat
    BY DEF Texts
  <2>4. /\ Len(file[f]) <= Len(file[f] \o t)
        /\ \A m \in Nat, n \in Nat : n <= Len(file[f]) =>
               SubSeq(file[f] \o t, m + 1, n) = SubSeq(file[f], m + 1, n)
    BY <2>2, PartStays
  <2> QED BY <2>1, <2>2, <2>3, <2>4, Zenon
<1>2. UNCHANGED <<following, held, offset, leftover, started, shown>>
  BY DEF followVars
<1>3. Newest' = Newest
  BY <1>2 DEF Newest
<1>4. /\ DOMAIN file = 1..Len(file) /\ Len(file) \in Nat
      /\ DOMAIN started = 1..Len(started) /\ Len(started) \in Nat
      /\ \A i \in DOMAIN started :
             /\ started[i].file \in DOMAIN file
             /\ started[i].from \in Nat
             /\ started[i].from <= Len(file[started[i].file])
      /\ started \in Seq(Starts) /\ held \in Nat /\ offset \in Nat
      /\ held # 0 => /\ Len(started) \in DOMAIN started /\ held = Newest.file
                     /\ held \in DOMAIN file
                     /\ Newest.from \in Nat /\ Newest.from <= offset
                     /\ offset <= Len(file[held])
      /\ held # 0 => started # <<>>
  <2>1. held # 0 => started # <<>>
    BY Zenon DEF FollowInv, FollowPlaces
  <2> QED BY <2>1, FollowFacts, Zenon DEF FollowInv
<1>5. FollowReads
  BY DEF FollowInv
<1>6. FollowPlaces'
  <2>1. Begun(file', started)
    <3>1. ASSUME NEW i \in DOMAIN started
          PROVE  started[i].file \in DOMAIN file' /\ started[i].from <= Len(file'[started[i].file])
      BY <1>1, <1>4
    <3> QED BY <3>1 DEF Begun
  <2>2. ASSUME held # 0 PROVE offset <= Len(file'[held])
    <3>1. held \in DOMAIN file /\ offset <= Len(file[held]) /\ offset \in Nat
      BY <1>4, <2>2, Zenon
    <3>2. /\ Len(file[held]) <= Len(file'[held])
          /\ Len(file'[held]) \in Nat /\ Len(file[held]) \in Nat
      BY <1>1, <3>1, Zenon
    <3> QED BY <3>1, <3>2
  <2> QED BY <1>2, <1>3, <1>4, <2>1, <2>2 DEF FollowPlaces
<1>7. ASSUME NEW i \in DOMAIN started, ~(i = Len(started) /\ held # 0)
      PROVE  started[i].file # current
  <2> SUFFICES ASSUME started[i].file = current PROVE FALSE
    OBVIOUS
  <2>1. held = current /\ Rising(started)
    BY <1>5, Zenon DEF FollowReads
  <2>2. held # 0
    BY <1>4, <2>1
  <2>3. i < Len(started) /\ started[Len(started)].file = started[i].file
    BY <1>4, <1>7, <2>1, <2>2 DEF Newest
  <2>4. started[i].file < started[Len(started)].file
    BY <1>4, <2>1, <2>2, <2>3 DEF Rising
  <2>5. started[i].file \in Nat
    BY <1>4
  <2> QED BY <2>3, <2>4, <2>5
<1>8. Reads(file', started, held, offset) = Reads(file, started, held, offset)
  <2>1. ASSUME NEW i \in DOMAIN started
        PROVE  ReadTo(file', started, held, offset, i) = ReadTo(file, started, held, offset, i)
    <3>1. CASE i = Len(started) /\ held # 0
      <4>1. /\ held = started[i].file /\ held \in DOMAIN file /\ offset <= Len(file[held])
            /\ offset \in Nat /\ started[i].from \in Nat
        BY <1>4, <3>1 DEF Newest
      <4>2. SubSeq(file'[held], started[i].from + 1, offset)
            = SubSeq(file[held], started[i].from + 1, offset)
        BY <1>1, <4>1, Zenon
      <4> QED BY <3>1, <4>1, <4>2, Zenon DEF ReadTo
    <3>2. CASE ~(i = Len(started) /\ held # 0)
      <4>1. file'[started[i].file] = file[started[i].file]
        BY <1>4, <1>7, <3>2 DEF LogGrows
      <4> QED BY <3>2, <4>1, Zenon DEF ReadTo
    <3> QED BY <3>1, <3>2
  <2> QED BY <2>1, Zenon DEF Reads
<1>9. held # 0 => SubSeq(file'[held], Newest.from + 1, offset)
                  = SubSeq(file[held], Newest.from + 1, offset)
  BY <1>1, <1>4, Zenon
<1>10. \A i \in DOMAIN started : started[i].file = current' => held = current'
  <2> SUFFICES ASSUME NEW i \in DOMAIN started, started[i].file = current'
               PROVE  held = current'
    OBVIOUS
  <2>1. current' = current
    BY <1>4 DEF LogGrows
  <2> QED BY <1>5, <2>1, Zenon DEF FollowReads
<1>11. following \in {"drain old", "open"} => current' = 0 \/ current' # held
  <2>1. held \in 0..Len(file)
    BY <1>4
  <2>2. following \in {"drain old", "open"} => current = 0 \/ current # held
    BY <1>5, Zenon DEF FollowReads
  <2>3. current' \in {0, current} \/ current' \notin 0..Len(file)
    BY Zenon DEF LogGrows
  <2>4. CASE current' = 0
    BY <2>4, Zenon
  <2>5. CASE current' = current
    BY <2>2, <2>5, Zenon
  <2>6. CASE current' \notin 0..Len(file)
    <3>1. current' # held
      BY <2>1, <2>6, Zenon
    <3> QED BY <3>1, Zenon
  <2> QED BY <2>3, <2>4, <2>5, <2>6, Zenon
<1>12. following = "open" /\ held # 0 => offset = Len(file'[held])
  <2> SUFFICES ASSUME following = "open", held # 0 PROVE offset = Len(file'[held])
    OBVIOUS
  <2>1. (current = 0 \/ current # held) /\ offset = Len(file[held])
    BY <1>5 DEF FollowReads
  <2> QED BY <1>4, <2>1 DEF LogGrows
<1>13. FollowReads'
  <2>1. /\ Rising(started) /\ (following = "off" => started = <<>> /\ held = 0)
        /\ (held # 0 => leftover = Rest(SubSeq(file[held], Newest.from + 1, offset)))
        /\ shown = Concat(Reads(file, started, held, offset))
    BY <1>5, Zenon DEF FollowReads
  <2>2. shown = Concat(Reads(file', started, held, offset))
    BY <1>8, <2>1, Zenon
  <2>3. held # 0 => leftover = Rest(SubSeq(file'[held], Newest.from + 1, offset))
    BY <1>9, <2>1, Zenon
  <2> QED BY <1>2, <1>3, <1>10, <1>11, <1>12, <2>1, <2>2, <2>3, Zenon DEF FollowReads
<1> QED BY <1>6, <1>13 DEF FollowInv

\* A further read of n pieces, and what it makes of them.
Further(fs, st, h, o, n) ==
    LET t == SubSeq(fs[h], st[Len(st)].from + 1, o)
        u == SubSeq(fs[h], o + 1, o + n)
    IN  /\ Rest(SubSeq(fs[h], st[Len(st)].from + 1, o + n)) = Rest(Rest(t) \o u)
        /\ Concat(Reads(fs, st, h, o + n))
           = Concat(Reads(fs, st, h, o)) \o EntriesOf(Rest(t) \o u)

\* More is read of the file it holds.
LEMMA ReadGrows ==
    ASSUME NEW fs \in Seq(Texts), NEW st \in Seq(Starts), Begun(fs, st),
           NEW k \in DOMAIN st, k = Len(st), NEW h \in Nat \ {0}, h = st[k].file,
           NEW o \in Nat, st[k].from <= o, NEW n \in Nat, o + n <= Len(fs[h])
    PROVE  Further(fs, st, h, o, n)
<1> DEFINE a == fs[h]
           from == st[k].from
           t == SubSeq(a, from + 1, o)
           u == SubSeq(a, o + 1, o + n)
           parts == Reads(fs, st, h, o)
           more == Reads(fs, st, h, o + n)
           e == EntriesOf(Rest(t) \o u)
<1>1. a \in Texts /\ from \in Nat /\ h \in DOMAIN fs /\ Len(a) \in Nat
  <2>1. st[k] \in Starts
    OBVIOUS
  <2>2. h \in DOMAIN fs
    BY DEF Begun
  <2>3. a \in Texts
    BY <2>2
  <2>4. \A s \in Texts : Len(s) \in Nat
    BY DEF Texts
  <2> QED BY <2>1, <2>2, <2>3, <2>4 DEF Starts
<1>2. t \in Texts /\ u \in Texts /\ t \o u = SubSeq(a, from + 1, o + n)
  <2> HIDE DEF a, from
  <2>0. from <= o /\ o + n <= Len(a)
    BY DEF a, from
  <2>1. t \in Texts
    <3>1. o <= Len(a)
      BY <1>1, <2>0
    <3> QED BY <1>1, <3>1, PartType
  <2>2. u \in Texts
    <3>1. o + n \in Nat
      OBVIOUS
    <3> QED BY <1>1, <2>0, <3>1, PartType
  <2>3. t \o u = SubSeq(a, from + 1, o + n)
    <3>1. a \in Seq(Pieces)
      BY <1>1 DEF Texts
    <3>2. from + 1 \in 1..(Len(a) + 1) /\ o \in ((from + 1) - 1)..Len(a) /\ o + n \in o..Len(a)
      <4>1. from \in Nat /\ o <= Len(a) /\ o >= from /\ Len(a) \in Nat /\ o + n >= o
        BY <1>1, <2>0
      <4> QED BY <2>0, <4>1
    <3> QED BY <3>1, <3>2, ConcatAdjacentSubSeq
  <2> QED BY <2>1, <2>2, <2>3
<1>3. Rest(t) \in Texts /\ e \in Reports
  <2> HIDE DEF t, u
  <2>1. Rest(t) \in Texts
    BY <1>2, ReadType
  <2>2. Rest(t) \o u \in Texts
    BY <1>2, <2>1 DEF Texts
  <2> QED BY <2>1, <2>2, ReadType
<1>4. Rest(t \o u) = Rest(Rest(t) \o u) /\ EntriesOf(t \o u) = EntriesOf(t) \o e
  <2> HIDE DEF t, u
  <2> QED BY <1>2, ReadOn
<1>5. /\ parts \in Tellings /\ Len(parts) = k /\ more \in Tellings /\ Len(more) = k
      /\ k \in Nat \ {0}
  <2>1. o <= Len(a) /\ o + n \in Nat /\ h \in Nat
    BY <1>1
  <2>2. parts \in Tellings /\ Len(parts) = Len(st)
    BY <2>1, ReadsType
  <2>3. more \in Tellings /\ Len(more) = Len(st)
    BY <2>1, ReadsType
  <2> QED BY <2>2, <2>3
<1>6. \A i \in 1..(k - 1) : parts[i] = more[i]
  <2>1. \A i \in 1..(k - 1) : i \in DOMAIN st /\ i # Len(st)
    OBVIOUS
  <2> QED BY <2>1, Zenon DEF Reads, ReadTo
<1>7. more[k] = parts[k] \o e
  <2>1. parts[k] = EntriesOf(t) /\ more[k] = EntriesOf(SubSeq(a, from + 1, o + n))
    <3>1. h # 0
      OBVIOUS
    <3> QED BY <3>1, Zenon DEF Reads, ReadTo
  <2> QED BY <1>2, <1>4, <2>1, Zenon
<1>8. Concat(more) = Concat(parts) \o e
  <2> HIDE DEF parts, more, e
  <2> QED BY <1>3, <1>5, <1>6, <1>7, ReadMore
<1>9. Rest(SubSeq(a, from + 1, o + n)) = Rest(Rest(t) \o u)
  BY <1>2, <1>4, Zenon
<1> QED BY <1>8, <1>9, Zenon DEF Further

\* A file that was read to its end may be left.
LEMMA ReadLeft ==
    ASSUME NEW fs, NEW st, NEW h, NEW o, h # 0 => o = Len(fs[st[Len(st)].file])
    PROVE  Reads(fs, st, h, o) = Reads(fs, st, 0, 0)
BY Zenon DEF Reads, ReadTo

\* Of a file that was just opened nothing was read.
LEMMA ReadOpened ==
    ASSUME NEW fs \in Seq(Texts), NEW st \in Seq(Starts), Begun(fs, st),
           NEW f \in DOMAIN fs, NEW from \in Nat, from <= Len(fs[f])
    PROVE  LET new == Append(st, [file |-> f, from |-> from])
           IN  Concat(Reads(fs, new, f, from)) = Concat(Reads(fs, st, 0, 0))
<1> DEFINE s == [file |-> f, from |-> from]
           new == Append(st, s)
           parts == Reads(fs, st, 0, 0)
           n == Len(st)
<1>1. /\ new \in Seq(Starts) /\ Len(new) = n + 1 /\ new[n + 1] = s
      /\ DOMAIN new = 1..(n + 1) /\ DOMAIN st = 1..n /\ n \in Nat
      /\ \A i \in 1..n : new[i] = st[i]
  <2>1. s \in Starts
    BY DEF Starts
  <2> HIDE DEF s
  <2> QED BY <2>1
<1>2. parts \in Tellings /\ Len(parts) = n /\ Concat(parts) \in Reports
  <2>1. parts \in Tellings /\ Len(parts) = n
    BY ReadsType
  <2> QED BY <2>1, ConcatAppend
<1>3. fs[f] \in Texts /\ f # 0 /\ f \in Nat
  OBVIOUS
<1>4. SubSeq(fs[f], from + 1, from) = <<>>
  BY <1>3, PartType
<1>5. Reads(fs, new, f, from) = Append(parts, NoEntries)
  <2>1. \A i \in 1..n : ReadTo(fs, new, f, from, i) = ReadTo(fs, st, 0, 0, i)
    <3>1. \A i \in 1..n : i # n + 1
      BY <1>1
    <3> HIDE DEF new, n, s
    <3> QED BY <1>1, <3>1, Zenon DEF ReadTo
  <2>2. ReadTo(fs, new, f, from, n + 1) = <<>>
    <3> HIDE DEF new, n
    <3>1. new[n + 1].file = f /\ new[n + 1].from = from
      BY <1>1
    <3> HIDE DEF s
    <3> QED BY <1>1, <1>3, <1>4, <3>1, Zenon DEF ReadTo
  <2>3. Reads(fs, new, f, from) = [i \in 1..(n + 1) |->
            EntriesOf(ReadTo(fs, new, f, from, i))]
    BY <1>1, Zenon DEF Reads
  <2>4. \A i \in 1..n : parts[i] = EntriesOf(ReadTo(fs, st, 0, 0, i))
    BY <1>1, Zenon DEF Reads
  <2>5. EntriesOf(ReadTo(fs, new, f, from, n + 1)) = NoEntries
    BY <2>2, ReadNothing, Zenon DEF NoEntries
  <2>6. \A i \in 1..n : EntriesOf(ReadTo(fs, new, f, from, i)) = parts[i]
    BY <2>1, <2>4, Zenon
  <2>7. parts \in Seq(Reports) /\ NoEntries \in Reports
    BY <1>2 DEF Tellings, NoEntries, Reports
  <2> DEFINE R(i) == EntriesOf(ReadTo(fs, new, f, from, i))
  <2>8. R(n + 1) = NoEntries /\ \A i \in 1..n : R(i) = parts[i]
    BY <2>5, <2>6
  <2> HIDE DEF R, new, parts, n
  <2>9. Append(parts, NoEntries) = [i \in 1..(n + 1) |-> R(i)]
    <3>1. n \in Nat /\ Len(parts) = n /\ parts \in Seq(Reports)
      BY <1>1, <1>2, <2>7
    <3>2. \A i \in 1..(n + 1) : R(i) \in Reports
      <4>1. \A i \in 1..(n + 1) : i \in 1..n \/ i = n + 1
        BY <3>1
      <4>2. \A i \in 1..n : parts[i] \in Reports
        BY <3>1
      <4> QED BY <2>7, <2>8, <4>1, <4>2, Zenon
    <3> DEFINE q == [i \in 1..(n + 1) |-> R(i)]
               p == Append(parts, NoEntries)
    <3>3. q \in Seq(Reports) /\ Len(q) = n + 1 /\ \A i \in 1..(n + 1) : q[i] = R(i)
      BY <3>1, <3>2
    <3>4. /\ p \in Seq(Reports) /\ Len(p) = n + 1 /\ p[n + 1] = NoEntries
          /\ \A i \in 1..n : p[i] = parts[i]
      BY <2>7, <3>1
    <3> HIDE DEF p, q
    <3>5. \A i \in 1..(n + 1) : p[i] = q[i]
      BY <2>8, <3>1, <3>3, <3>4
    <3>6. p = q
      BY <3>3, <3>4, <3>5, SeqEqual
    <3> QED BY <3>6 DEF p, q
  <2> QED BY <2>3, <2>9, Zenon DEF R
<1>6. Concat(Append(parts, NoEntries)) = Then(Concat(parts), NoEntries)
  <2> HIDE DEF parts
  <2>1. NoEntries \in Reports
    BY DEF NoEntries, Reports
  <2> QED BY <1>2, <2>1, ConcatAppend
<1>7. \A r \in Reports : Then(r, NoEntries) = r
  BY ConcatEmptySeq DEF Then, NoEntries, Reports
<1> QED BY <1>2, <1>5, <1>6, <1>7, Zenon

\* The current file is the newest.
LEMMA CurrentFile ==
    ASSUME WriterInv
    PROVE  current # 0 => /\ current = Len(file) /\ current \in DOMAIN file /\ current \in Nat
                          /\ Len(file[current]) \in Nat
<1> SUFFICES ASSUME current # 0
             PROVE  /\ current = Len(file) /\ current \in DOMAIN file /\ current \in Nat
                    /\ Len(file[current]) \in Nat
  OBVIOUS
<1>1. file \in Seq(Texts) /\ current = Len(file)
  BY DEF WriterInv
<1>2. current \in DOMAIN file /\ current \in Nat
  BY <1>1
<1>3. file[current] \in Texts
  BY <1>1, <1>2
<1>4. \A t \in Texts : Len(t) \in Nat
  BY DEF Texts
<1> QED BY <1>1, <1>2, <1>3, <1>4

\* A file is opened when those before were read to their ends.
LEMMA OpenKeepsFollower ==
    ASSUME WriterInv, FollowInv, NEW from, Opened(current, from),
           IF current = 0 THEN from = 0 ELSE from \in Nat /\ from <= Len(file[current]),
           held # 0 => offset = Len(file[held]), current # 0 => current # held,
           UNCHANGED <<file, current, shown>>, following' \in {"idle", "drain"}
    PROVE  FollowInv'
<1>1. /\ DOMAIN file = 1..Len(file) /\ Len(file) \in Nat
      /\ \A f \in DOMAIN file : file[f] \in Texts /\ Len(file[f]) \in Nat
      /\ DOMAIN started = 1..Len(started) /\ Len(started) \in Nat
      /\ \A i \in DOMAIN started :
             /\ started[i].file \in DOMAIN file
             /\ started[i].from \in Nat
             /\ started[i].from <= Len(file[started[i].file])
      /\ started \in Seq(Starts) /\ held \in Nat /\ offset \in Nat
      /\ held # 0 => held = Newest.file
  BY FollowFacts, Zenon DEF FollowInv
<1>2. /\ file \in Seq(Texts) /\ Begun(file, started) /\ Rising(started)
      /\ shown = Concat(Reads(file, started, held, offset))
      /\ \A i \in DOMAIN started : started[i].file = current => held = current
      /\ current \in {0, Len(file)}
  BY Zenon DEF WriterInv, FollowInv, FollowPlaces, FollowReads
<1>3. Reads(file, started, held, offset) = Reads(file, started, 0, 0)
  <2>1. held # 0 => offset = Len(file[started[Len(started)].file])
    BY <1>1, Zenon DEF Newest
  <2> QED BY <2>1, ReadLeft
<1>4. /\ held' = current /\ offset' = from
      /\ current # 0 => /\ leftover' = <<>>
                        /\ started' = Append(started, [file |-> current, from |-> from])
      /\ current = 0 => started' = started
  BY DEF Opened
<1>5. CASE current = 0
  <2>1. shown = Concat(Reads(file, started, 0, 0))
    BY <1>2, <1>3, Zenon
  <2>2. held' = 0 /\ offset' = 0 /\ started' = started /\ file' = file /\ current' = 0
        /\ shown' = shown /\ following' # "off"
    BY <1>4, <1>5
  <2>3. FollowPlaces'
    BY <1>1, <1>2, <2>2 DEF FollowPlaces
  <2>4. FollowReads'
    <3>1. \A i \in DOMAIN started : started[i].file # 0
      BY <1>1
    <3> QED BY <1>2, <2>1, <2>2, <3>1, Zenon DEF FollowReads
  <2> QED BY <2>3, <2>4 DEF FollowInv
<1>6. CASE current # 0
  <2> DEFINE s == [file |-> current, from |-> from]
             new == Append(started, s)
             n == Len(started)
  <2>1. current \in DOMAIN file /\ current \in Nat
    BY <1>6, CurrentFile, Zenon
  <2>2. from \in Nat /\ from <= Len(file[current])
    BY <1>6
  <2>3. /\ new \in Seq(Starts) /\ Len(new) = n + 1 /\ new[n + 1] = s
        /\ DOMAIN new = 1..(n + 1) /\ new # <<>>
        /\ \A i \in 1..n : new[i] = started[i]
    <3>1. s \in Starts
      BY <2>1, <2>2 DEF Starts
    <3> HIDE DEF s
    <3>2. Len(new) = n + 1 /\ Len(<<>>) = 0 /\ n \in Nat
      BY <1>1, <3>1
    <3>3. new # <<>>
      <4> HIDE DEF new
      <4> QED BY <3>2
    <3> QED BY <1>1, <3>1, <3>3
  <2>4. s.file = current /\ s.from = from
    OBVIOUS
  <2>5. /\ held' = current /\ offset' = from /\ leftover' = <<>> /\ started' = new
        /\ file' = file /\ current' = current /\ shown' = shown
    BY <1>4, <1>6
  <2>6. Concat(Reads(file, new, current, from)) = shown
    <3>1. Concat(Reads(file, new, current, from)) = Concat(Reads(file, started, 0, 0))
      BY <1>1, <1>2, <2>1, <2>2, ReadOpened
    <3> QED BY <1>2, <1>3, <3>1, Zenon
  <2> HIDE DEF s, new, n
  <2>7. \A i \in DOMAIN started : started[i].file < current
    <3> SUFFICES ASSUME NEW i \in DOMAIN started PROVE started[i].file < current
      OBVIOUS
    <3>1. started[i].file \in 1..Len(file) /\ current = Len(file)
      BY <1>1, <1>2, <1>6
    <3>2. started[i].file # current
      BY <1>2, <1>6, Zenon
    <3> QED BY <3>1, <3>2
  <2>8. DOMAIN started = 1..n /\ n \in Nat
    BY <1>1 DEF n
  <2>9. Rising(new)
    <3>1. ASSUME NEW i \in DOMAIN new, NEW j \in DOMAIN new, i < j
          PROVE  new[i].file < new[j].file
      <4>1. i \in 1..n
        BY <2>3, <2>8, <3>1
      <4>2. CASE j = n + 1
        BY <2>3, <2>4, <2>7, <2>8, <4>1, <4>2
      <4>3. CASE j # n + 1
        <5>1. j \in 1..n
          BY <2>3, <2>8, <4>3
        <5> QED BY <1>2, <2>3, <2>8, <3>1, <4>1, <5>1 DEF Rising
      <4> QED BY <4>2, <4>3
    <3> QED BY <3>1 DEF Rising
  <2>10. Begun(file, new)
    <3>1. ASSUME NEW i \in DOMAIN new
          PROVE  new[i].file \in DOMAIN file /\ new[i].from <= Len(file[new[i].file])
      <4>1. CASE i = n + 1
        BY <2>1, <2>2, <2>3, <2>4, <4>1
      <4>2. CASE i # n + 1
        <5>1. i \in 1..n
          BY <2>3, <2>8, <4>2
        <5> QED BY <1>1, <2>3, <2>8, <5>1
      <4> QED BY <4>1, <4>2
    <3> QED BY <3>1 DEF Begun
  <2>11. Newest' = s /\ Newest'.file = current /\ Newest'.from = from
    <3>1. Newest' = new[Len(new)]
      BY <2>5 DEF Newest
    <3> QED BY <2>3, <2>4, <3>1, Zenon
  <2>12. Rest(SubSeq(file[current], from + 1, from)) = <<>>
    <3>1. SubSeq(file[current], from + 1, from) = <<>>
      BY <1>1, <2>1, <2>2, PartType
    <3> QED BY <3>1, ReadNothing
  <2>13. FollowPlaces'
    <3>1. from <= from
      BY <2>2
    <3> QED BY <2>1, <2>2, <2>3, <2>5, <2>10, <2>11, <3>1, Zenon DEF FollowPlaces
  <2>14. FollowReads'
    <3>1. following' # "off" /\ following' \notin {"drain old", "open"} /\ following' # "open"
      OBVIOUS
    <3>2. (held # 0 => leftover = Rest(SubSeq(file[held], Newest.from + 1, offset)))'
      BY <2>5, <2>11, <2>12, Zenon
    <3>3. (\A i \in DOMAIN started : started[i].file = current => held = current)'
      BY <2>5, Zenon
    <3>4. (shown = Concat(Reads(file, started, held, offset)))'
      BY <2>5, <2>6, Zenon
    <3>5. Rising(started)'
      BY <2>5, <2>9, Zenon
    <3> QED BY <3>1, <3>2, <3>3, <3>4, <3>5, Zenon DEF FollowReads
  <2> QED BY <2>13, <2>14 DEF FollowInv
<1> QED BY <1>5, <1>6

\* More is read of the file it holds.
LEMMA DrainKeepsFollower ==
    ASSUME WriterInv, FollowInv, drain
    PROVE  FollowInv'
<1>1. PICK n \in 1..(Len(file[held]) - offset) :
          LET p == ParseLines(leftover \o SubSeq(file[held], offset + 1, offset + n))
          IN  /\ offset' = offset + n
              /\ leftover' = p.rest
              /\ shown' = shown \o Parsed(p.lines)
  BY Zenon DEF drain
<1>2. held # 0 /\ following \in {"drain", "drain old"}
      /\ UNCHANGED <<file, current, held, started, following>>
  BY DEF drain, writerVars
<1>3. /\ \A f \in DOMAIN file : Len(file[f]) \in Nat
      /\ Len(started) \in DOMAIN started
      /\ started \in Seq(Starts) /\ held \in Nat /\ offset \in Nat
      /\ held = Newest.file /\ held \in DOMAIN file
      /\ Newest.from \in Nat /\ Newest.from <= offset
  BY <1>2, FollowFacts, Zenon DEF FollowInv
<1>4. /\ file \in Seq(Texts) /\ Begun(file, started) /\ Rising(started) /\ started # <<>>
      /\ leftover = Rest(SubSeq(file[held], Newest.from + 1, offset))
      /\ shown = Concat(Reads(file, started, held, offset))
      /\ \A i \in DOMAIN started : started[i].file = current => held = current
      /\ following \in {"drain old", "open"} => current = 0 \/ current # held
  BY <1>2, Zenon DEF WriterInv, FollowInv, FollowPlaces, FollowReads
<1>5. n \in Nat /\ offset + n <= Len(file[held]) /\ offset + n \in Nat
      /\ Newest.from <= offset + n
  BY <1>3
<1> DEFINE t == SubSeq(file[held], Newest.from + 1, offset)
           u == SubSeq(file[held], offset + 1, offset + n)
<1>6. /\ Rest(SubSeq(file[held], Newest.from + 1, offset + n)) = Rest(Rest(t) \o u)
      /\ Concat(Reads(file, started, held, offset + n))
         = Concat(Reads(file, started, held, offset)) \o EntriesOf(Rest(t) \o u)
  <2>1. held \in Nat \ {0} /\ held = started[Len(started)].file
    BY <1>2, <1>3 DEF Newest
  <2> DEFINE k == Len(started)
  <2>2. k \in DOMAIN started /\ k = Len(started) /\ held = started[k].file
        /\ started[k].from <= offset /\ Newest = started[k]
    BY <1>3, <2>1, Zenon DEF Newest
  <2> HIDE DEF k
  <2>3. Further(file, started, held, offset, n)
    BY <1>3, <1>4, <1>5, <2>1, <2>2, ReadGrows, Zenon
  <2> QED BY <2>3, Zenon DEF Further, Newest
<1>7. /\ leftover' = Rest(leftover \o u)
      /\ shown' = shown \o EntriesOf(leftover \o u)
      /\ offset' = offset + n
  BY <1>1, Zenon DEF Rest, EntriesOf
<1>8. Newest' = Newest
  BY <1>2 DEF Newest
<1> HIDE DEF u
<1>9. FollowPlaces'
  BY <1>2, <1>3, <1>4, <1>5, <1>7, <1>8, Zenon DEF FollowPlaces
<1>10. FollowReads'
  <2>1. following' # "off" /\ following' # "open"
    BY <1>2
  <2>2. (held # 0 => leftover = Rest(SubSeq(file[held], Newest.from + 1, offset)))'
    BY <1>2, <1>4, <1>6, <1>7, <1>8, Zenon
  <2>3. (shown = Concat(Reads(file, started, held, offset)))'
    BY <1>2, <1>4, <1>6, <1>7, Zenon
  <2> QED BY <1>2, <1>4, <2>1, <2>2, <2>3, Zenon DEF FollowReads
<1> QED BY <1>9, <1>10 DEF FollowInv

FollowerNext == openTail \/ checkRotation \/ drain \/ AtEnd \/ openFromStart

\* A step of the follower.
LEMMA FollowerSteps ==
    ASSUME WriterInv, FollowInv, FollowerNext
    PROVE  FollowInv' /\ UNCHANGED <<writerVars, dumpVars, split>>
<1>0. UNCHANGED <<writerVars, dumpVars, split>>
  BY Zenon DEF FollowerNext, openTail, checkRotation, drain, AtEnd, openFromStart
<1>1. UNCHANGED <<file, current>>
  BY <1>0 DEF writerVars
<1>2. /\ held # 0 => held \in DOMAIN file /\ offset <= Len(file[held])
      /\ \A f \in DOMAIN file : Len(file[f]) \in Nat
      /\ offset \in Nat /\ held \in Nat
      /\ DOMAIN file = 1..Len(file) /\ Len(file) \in Nat
  BY FollowFacts, Zenon DEF FollowInv
<1>3. ASSUME following # "off",
             UNCHANGED <<held, offset, leftover, started, shown>>,
             following' # "off",
             following' \in {"drain old", "open"} => current = 0 \/ current # held,
             following' = "open" /\ held # 0 => offset = Len(file[held])
      PROVE  FollowInv'
  <2>1. Newest' = Newest
    BY <1>3 DEF Newest
  <2>2. FollowPlaces'
    BY <1>1, <1>3, <2>1, Zenon DEF FollowInv, FollowPlaces
  <2>3. FollowReads'
    BY <1>1, <1>3, <2>1, Zenon DEF FollowInv, FollowReads
  <2> QED BY <2>2, <2>3 DEF FollowInv
<1>4. CASE openTail
  <2>1. held = 0 /\ following' = "idle" /\ UNCHANGED shown
    BY <1>4, Zenon DEF openTail, FollowInv, FollowReads
  <2> DEFINE from == IF current = 0 THEN 0 ELSE Len(file[current])
  <2>2. Opened(current, from)
    BY <1>4, Zenon DEF openTail
  <2>3. IF current = 0 THEN from = 0 ELSE from \in Nat /\ from <= Len(file[current])
    <3>1. \A k \in Nat : k <= k
      OBVIOUS
    <3> QED BY <3>1, CurrentFile, Zenon
  <2> HIDE DEF from
  <2>4. following' \in {"idle", "drain"} /\ UNCHANGED <<file, current, shown>>
    BY <1>1, <2>1
  <2>5. (held # 0 => offset = Len(file[held])) /\ (current # 0 => current # held)
    BY <2>1, Zenon
  <2> QED BY <1>0, <2>2, <2>3, <2>4, <2>5, OpenKeepsFollower, Zenon
<1>5. CASE checkRotation
  <2>1. /\ following = "idle" /\ UNCHANGED <<held, offset, leftover, started, shown>>
        /\ following' = IF current = 0 \/ current = held THEN "drain"
                        ELSE IF held # 0 THEN "drain old" ELSE "open"
    BY <1>5, Zenon DEF checkRotation
  <2>2. \/ following' = "drain"
        \/ following' = "drain old" /\ current # held
        \/ following' = "open" /\ current # held /\ held = 0
    BY <2>1
  <2>3. following # "off" /\ following' # "off"
    BY <2>1, <2>2
  <2>4. following' \in {"drain old", "open"} => current = 0 \/ current # held
    BY <2>2
  <2>5. following' = "open" /\ held # 0 => offset = Len(file[held])
    BY <2>2
  <2> QED BY <1>0, <1>3, <2>1, <2>3, <2>4, <2>5, Zenon
<1>6. CASE drain
  BY <1>0, <1>6, DrainKeepsFollower
<1>7. CASE AtEnd
  <2>1. /\ following \in {"drain", "drain old"}
        /\ UNCHANGED <<held, offset, leftover, started, shown>>
        /\ ~(held # 0 /\ offset < Len(file[held]))
        /\ following' = IF following = "drain" THEN "idle" ELSE "open"
    BY <1>7, Zenon DEF AtEnd
  <2>2. following \in {"drain old", "open"} => current = 0 \/ current # held
    BY Zenon DEF FollowInv, FollowReads
  <2>3. ASSUME held # 0 PROVE offset = Len(file[held])
    <3>1. /\ ~(offset < Len(file[held])) /\ offset <= Len(file[held])
          /\ offset \in Nat /\ Len(file[held]) \in Nat
      BY <1>2, <2>1, <2>3, Zenon
    <3> QED BY <3>1
  <2>4. \/ following = "drain" /\ following' = "idle"
        \/ following = "drain old" /\ following' = "open"
    BY <2>1
  <2>5. following # "off" /\ following' # "off"
    BY <2>4
  <2>6. following' \in {"drain old", "open"} => current = 0 \/ current # held
    BY <2>2, <2>4
  <2> QED BY <1>0, <1>3, <2>1, <2>3, <2>5, <2>6, Zenon
<1>8. CASE openFromStart
  <2>1. following = "open" /\ following' = "drain" /\ UNCHANGED shown /\ Opened(current, 0)
    BY <1>8, Zenon DEF openFromStart
  <2>2. (held # 0 => offset = Len(file[held])) /\ (current = 0 \/ current # held)
    BY <2>1, Zenon DEF FollowInv, FollowReads
  <2>3. IF current = 0 THEN 0 = 0 ELSE 0 \in Nat /\ 0 <= Len(file[current])
    <3>1. 0 \in Nat /\ \A k \in Nat : 0 <= k
      OBVIOUS
    <3> QED BY <3>1, CurrentFile, Zenon
  <2>4. following' \in {"idle", "drain"} /\ UNCHANGED <<file, current, shown>>
    BY <1>1, <2>1
  <2>5. (held # 0 => offset = Len(file[held])) /\ (current # 0 => current # held)
    BY <2>2, Zenon
  <2> QED BY <1>0, <2>1, <2>3, <2>4, <2>5, OpenKeepsFollower, Zenon
<1> QED BY <1>0, <1>4, <1>5, <1>6, <1>7, <1>8 DEF FollowerNext

(***************************************************************************)
(* The dump.                                                               *)
(***************************************************************************)

Whole(fs, f) == Elements(EntriesOf(fs[f]))

\* Of the files it has open, and what it printed of those before.
DumpPlaces ==
    /\ dumped \in Reports /\ streams \in Seq(Nat) /\ Len(streams) <= 2
    /\ dumping # "reading" => dumped = <<>>
    /\ dumping = "off" => streams = <<>>
    /\ dumping = "opening" =>
        /\ Len(streams) <= 1
        /\ \A k \in DOMAIN streams : streams[k] <= rotated
        /\ ~split => streams = IF rotated = 0 THEN <<>> ELSE <<rotated>>
    /\ \A k \in DOMAIN streams : streams[k] \in DOMAIN file
    /\ Len(streams) = 2 => streams[1] < streams[2]
    /\ \A n \in Elements(dumped) : \E f \in DOMAIN file :
           n \in Whole(file, f) /\ \A k \in DOMAIN streams : f < streams[k]
    /\ ~split /\ dumping = "reading" /\ Len(streams) = 2 =>
        dumped = <<>> /\ streams[2] = streams[1] + 1
    /\ ~split /\ dumping = "reading" /\ Len(streams) = 1 /\ dumped # <<>> =>
        /\ streams[1] - 1 \in DOMAIN file
        /\ Elements(dumped) = Whole(file, streams[1] - 1)

NoneMissing(fs, d) ==
    \A f \in DOMAIN fs : \A n \in Whole(fs, f) :
        d # <<>> /\ d[1] < n /\ n < d[Len(d)] => n \in Elements(d)

DumpInv == DumpPlaces /\ Ordered(dumped) /\ (split \/ NoneMissing(file, dumped))

\* The entries of the files.
LEMMA WholeFiles ==
    ASSUME WriterInv, OrderInv
    PROVE  /\ \A f \in DOMAIN file : /\ EntriesOf(file[f]) \in Reports
                                     /\ Ordered(EntriesOf(file[f]))
           /\ \A f \in DOMAIN file : \A n \in Whole(file, f) : n <= Written /\ n \in Nat
           /\ \A f, g \in DOMAIN file : f < g =>
                  \A m \in Whole(file, f), n \in Whole(file, g) : m < n
<1>1. ASSUME NEW f \in DOMAIN file
      PROVE  file[f] \in Texts /\ EndsInOrder(file[f])
  BY DEF WriterInv, OrderInv
<1>2. ASSUME NEW f \in DOMAIN file
      PROVE  EntriesOf(file[f]) \in Reports /\ Ordered(EntriesOf(file[f]))
  BY <1>1, ReadType, EntriesOrdered
<1>3. ASSUME NEW f \in DOMAIN file, NEW n \in Whole(file, f)
      PROVE  \E j \in DOMAIN file[f] : file[f][j].entry = n
  <2>1. PICK i \in DOMAIN EntriesOf(file[f]) : EntriesOf(file[f])[i] = n
    BY Zenon DEF Whole, Elements
  <2> QED BY <1>1, <2>1, EntriesEnd
<1>4. ASSUME NEW f \in DOMAIN file, NEW n \in Whole(file, f) PROVE n <= Written /\ n \in Nat
  <2>1. PICK j \in DOMAIN file[f] : file[f][j].entry = n
    BY <1>3
  <2>2. file[f][j].entry <= Written
    BY Zenon DEF OrderInv
  <2>3. file[f][j] \in Pieces
    BY <1>1 DEF Texts
  <2>4. file[f][j].entry \in Nat
    BY <2>3 DEF Pieces
  <2> QED BY <2>1, <2>2, <2>4
<1>5. ASSUME NEW f \in DOMAIN file, NEW g \in DOMAIN file, f < g,
             NEW m \in Whole(file, f), NEW n \in Whole(file, g)
      PROVE  m < n
  <2>1. PICK i \in DOMAIN file[f] : file[f][i].entry = m
    BY <1>3
  <2>2. PICK j \in DOMAIN file[g] : file[g][j].entry = n
    BY <1>3
  <2>3. file[f][i].entry < file[g][j].entry
    BY <1>5, Zenon DEF OrderInv
  <2> QED BY <2>1, <2>2, <2>3
<1> QED BY <1>2, <1>4, <1>5

\* A step of the writer adds entries that are newer than all there are, to the
\* current file or a new one.
LEMMA WholeGrows ==
    ASSUME WriterInv, LogGrows
    PROVE  /\ \A f \in DOMAIN file : /\ f \in DOMAIN file'
                                     /\ Whole(file, f) \subseteq Whole(file', f)
                                     /\ f # current => Whole(file', f) = Whole(file, f)
           /\ \A f \in DOMAIN file' : \A n \in Whole(file', f) :
                  n > Written \/ (f \in DOMAIN file /\ n \in Whole(file, f))
<1>1. ASSUME NEW f \in DOMAIN file
      PROVE  /\ f \in DOMAIN file' /\ Whole(file, f) \subseteq Whole(file', f)
             /\ f # current => Whole(file', f) = Whole(file, f)
             /\ \A n \in Whole(file', f) : n > Written \/ n \in Whole(file, f)
  <2>1. file[f] \in Texts
    BY DEF WriterInv
  <2>2. PICK t \in Texts : file'[f] = file[f] \o t /\ \A j \in DOMAIN t : t[j].entry > Written
    BY Zenon DEF LogGrows
  <2>3. /\ Elements(EntriesOf(file[f])) \subseteq Elements(EntriesOf(file[f] \o t))
        /\ \A n \in Elements(EntriesOf(file[f] \o t)) :
               \/ n \in Elements(EntriesOf(file[f]))
               \/ \E j \in DOMAIN t : t[j].entry = n
    BY <2>1, GrownText
  <2>4. f \in DOMAIN file' /\ (f # current => file'[f] = file[f])
    BY Zenon DEF LogGrows
  <2> QED BY <2>2, <2>3, <2>4, Zenon DEF Whole
<1>2. ASSUME NEW f \in DOMAIN file', f \notin DOMAIN file PROVE Whole(file', f) = {}
  <2>1. file'[f] = <<>>
    BY <1>2, Zenon DEF LogGrows
  <2>2. EntriesOf(file'[f]) = <<>>
    BY <2>1, ReadNothing, Zenon
  <2>3. Elements(<<>>) = {}
    BY DEF Elements
  <2> QED BY <2>2, <2>3, Zenon DEF Whole
<1> QED BY <1>1, <1>2, Zenon

\* To a dump that has printed, nothing that is written later is in between; a
\* rotation while it opens the files is one it knows of.
LEMMA WriterKeepsDump ==
    ASSUME WriterInv, OrderInv, DumpInv, LogGrows, UNCHANGED dumpVars,
           file' \in Seq(Texts),
           rotated \in Nat, rotated' \in Nat, rotated <= rotated', split => split',
           dumping = "opening" /\ ~split' => rotated' = rotated
    PROVE  DumpInv'
<1>1. dumped' = dumped /\ streams' = streams /\ dumping' = dumping
  BY DEF dumpVars
<1>2. DumpPlaces
  BY DEF DumpInv
<1>3. /\ \A f \in DOMAIN file : /\ f \in DOMAIN file'
                                /\ Whole(file, f) \subseteq Whole(file', f)
                                /\ f # current => Whole(file', f) = Whole(file, f)
      /\ \A f \in DOMAIN file' : \A n \in Whole(file', f) :
             n > Written \/ (f \in DOMAIN file /\ n \in Whole(file, f))
  BY WholeGrows
<1>4. /\ dumped \in Reports /\ streams \in Seq(Nat) /\ Len(streams) <= 2
      /\ DOMAIN streams = 1..Len(streams) /\ Len(streams) \in Nat
      /\ DOMAIN file = 1..Len(file) /\ Len(file) \in Nat /\ current \in {0, Len(file)}
      /\ \A k \in DOMAIN streams : streams[k] \in Nat
  <2>1. dumped \in Reports /\ streams \in Seq(Nat) /\ Len(streams) <= 2
    BY <1>2, Zenon DEF DumpPlaces
  <2>2. file \in Seq(Texts) /\ current \in {0, Len(file)}
    BY DEF WriterInv
  <2> QED BY <2>1, <2>2
<1>5. /\ \A k \in DOMAIN streams : streams[k] \in DOMAIN file
      /\ \A n \in Elements(dumped) : \E f \in DOMAIN file :
             n \in Whole(file, f) /\ \A k \in DOMAIN streams : f < streams[k]
  BY <1>2, Zenon DEF DumpPlaces
<1>6. dumping = "opening" =>
        /\ Len(streams) <= 1
        /\ \A k \in DOMAIN streams : streams[k] <= rotated'
        /\ ~split' => streams = IF rotated' = 0 THEN <<>> ELSE <<rotated'>>
  <2> SUFFICES ASSUME dumping = "opening"
               PROVE  /\ Len(streams) <= 1
                      /\ \A k \in DOMAIN streams : streams[k] <= rotated'
                      /\ ~split' => streams = IF rotated' = 0 THEN <<>> ELSE <<rotated'>>
    OBVIOUS
  <2>1. /\ Len(streams) <= 1
        /\ \A k \in DOMAIN streams : streams[k] <= rotated
        /\ ~split => streams = IF rotated = 0 THEN <<>> ELSE <<rotated>>
    BY <1>2, Zenon DEF DumpPlaces
  <2>2. \A k \in DOMAIN streams : streams[k] \in Nat
    BY <1>4, Zenon
  <2>3. \A k \in DOMAIN streams : streams[k] <= rotated'
    BY <2>1, <2>2
  <2>4. ~split' => streams = IF rotated' = 0 THEN <<>> ELSE <<rotated'>>
    BY <2>1, Zenon
  <2> QED BY <2>1, <2>3, <2>4
<1>7. ~split' /\ dumping = "reading" /\ Len(streams) = 2 =>
        dumped = <<>> /\ streams[2] = streams[1] + 1
  BY <1>2, Zenon DEF DumpPlaces
<1>8. ~split' /\ dumping = "reading" /\ Len(streams) = 1 /\ dumped # <<>> =>
        /\ streams[1] - 1 \in DOMAIN file'
        /\ Elements(dumped) = Whole(file', streams[1] - 1)
  <2> SUFFICES ASSUME ~split', dumping = "reading", Len(streams) = 1, dumped # <<>>
               PROVE  /\ streams[1] - 1 \in DOMAIN file'
                      /\ Elements(dumped) = Whole(file', streams[1] - 1)
    OBVIOUS
  <2>1. streams[1] - 1 \in DOMAIN file /\ Elements(dumped) = Whole(file, streams[1] - 1)
    BY <1>2, Zenon DEF DumpPlaces
  <2>2. 1 \in DOMAIN streams
    <3>1. DOMAIN streams = 1..Len(streams)
      BY <1>4, Zenon
    <3>2. 1 \in 1..1
      OBVIOUS
    <3> QED BY <3>1, <3>2, Zenon
  <2>3. streams[1] - 1 # current
    <3>1. streams[1] \in DOMAIN file /\ DOMAIN file = 1..Len(file) /\ Len(file) \in Nat
          /\ current \in {0, Len(file)}
      BY <1>4, <1>5, <2>2, Zenon
    <3>2. \A b \in Nat : \A a \in 1..b, c \in {0, b} : a - 1 \in 1..b => a - 1 # c
      OBVIOUS
    <3> QED BY <2>1, <3>1, <3>2, Zenon
  <2> QED BY <1>3, <2>1, <2>3, Zenon
<1>9. DumpPlaces'
  <2>1. \A k \in DOMAIN streams : streams[k] \in DOMAIN file'
    BY <1>3, <1>5, Zenon
  <2>2. \A n \in Elements(dumped) : \E f \in DOMAIN file' :
             n \in Whole(file', f) /\ \A k \in DOMAIN streams : f < streams[k]
    BY <1>3, <1>5, Zenon
  <2>3. /\ dumping # "reading" => dumped = <<>>
        /\ dumping = "off" => streams = <<>>
        /\ Len(streams) = 2 => streams[1] < streams[2]
    BY <1>2, Zenon DEF DumpPlaces
  <2> QED BY <1>1, <1>4, <1>6, <1>7, <1>8, <2>1, <2>2, <2>3, Zenon DEF DumpPlaces
<1>10. split' \/ NoneMissing(file', dumped)
  <2> SUFFICES ASSUME ~split', NEW f \in DOMAIN file', NEW n \in Whole(file', f),
                      dumped # <<>>, dumped[1] < n, n < dumped[Len(dumped)]
               PROVE  n \in Elements(dumped)
    BY Zenon DEF NoneMissing
  <2>1. NoneMissing(file, dumped)
    BY Zenon DEF DumpInv
  <2>2. CASE f \in DOMAIN file /\ n \in Whole(file, f)
    BY <2>1, <2>2, Zenon DEF NoneMissing
  <2>3. CASE n > Written
    <3>1. Len(dumped) \in DOMAIN dumped
      <4>1. \A d \in Reports : d # <<>> => Len(d) \in DOMAIN d
        BY DEF Reports
      <4> QED BY <1>4, <4>1, Zenon
    <3>2. dumped[Len(dumped)] \in Elements(dumped)
      BY <3>1 DEF Elements
    <3>3. PICK g \in DOMAIN file : dumped[Len(dumped)] \in Whole(file, g)
      BY <1>5, <3>2, Zenon
    <3>4. dumped[Len(dumped)] <= Written /\ dumped[Len(dumped)] \in Nat
      BY <3>3, WholeFiles
    <3>5. Written \in Int
      BY DEF Written, WriterInv
    <3>6. n \in Nat
      <4>1. EntriesOf(file'[f]) \in Reports
        BY ReadType
      <4>2. PICK i \in DOMAIN EntriesOf(file'[f]) : n = EntriesOf(file'[f])[i]
        BY Zenon DEF Whole, Elements
      <4> QED BY <4>1, <4>2 DEF Reports
    <3> QED BY <2>3, <3>4, <3>5, <3>6
  <2> QED BY <1>3, <2>2, <2>3, Zenon
<1>11. Ordered(dumped)
  BY DEF DumpInv
<1> QED BY <1>1, <1>9, <1>10, <1>11, Zenon DEF DumpInv

\* The rotated file has the number before the current one's.
LEMMA WriterAndDump ==
    ASSUME WriterInv, WriterNext
    PROVE  /\ UNCHANGED <<followVars, dumpVars>> /\ file' \in Seq(Texts)
           /\ rotated \in Nat /\ rotated' \in Nat /\ rotated <= rotated'
           /\ split => split'
           /\ dumping = "opening" /\ ~split' => rotated' = rotated
<1>1. Len(file) \in Nat /\ rotated \in Nat /\ (current = Len(file) \/ current = 0)
      /\ (current = 0 => rotated = Len(file)) /\ (current # 0 => rotated = Len(file) - 1)
  <2>1. /\ Len(file) \in Nat /\ current \in {0, Len(file)}
        /\ rotated = IF current = 0 THEN Len(file) ELSE Len(file) - 1
    BY DEF WriterInv
  <2> QED BY <2>1
<1>2. CASE Rotate
  <2>1. rotated' = current /\ split' = (split \/ dumping = "opening")
        /\ UNCHANGED <<followVars, dumpVars>> /\ writing = "opened"
    BY <1>2, Zenon DEF Rotate
  <2>2. current # 0
    BY <2>1 DEF WriterInv
  <2>3. rotated' \in Nat /\ rotated <= rotated'
    BY <1>1, <2>1, <2>2
  <2>4. (split => split') /\ (dumping = "opening" => split')
    BY <2>1, Zenon
  <2>5. file' \in Seq(Texts)
    BY WriterSteps DEF WriterInv
  <2> QED BY <1>1, <2>1, <2>3, <2>4, <2>5, Zenon
<1>3. CASE ensure_open \/ Reopen \/ WriteLine \/ RotateFails \/ Restart
  <2>1. rotated' = rotated /\ split' = split /\ UNCHANGED <<followVars, dumpVars>>
    BY <1>3, Zenon DEF ensure_open, Reopen, WriteLine, RotateFails, Restart
  <2>2. file' \in Seq(Texts)
    BY WriterSteps DEF WriterInv
  <2>3. rotated <= rotated
    BY <1>1
  <2> QED BY <1>1, <2>1, <2>2, <2>3, Zenon
<1> QED BY <1>2, <1>3, Zenon DEF WriterNext

\* The files are opened in the order they were written.
LEMMA OpensKeepDump ==
    ASSUME WriterInv, OrderInv, DumpInv, OpenRotated \/ OpenCurrent
    PROVE  DumpInv' /\ UNCHANGED <<writerVars, followVars>>
<1>1. UNCHANGED <<writerVars, followVars, dumped>>
  BY Zenon DEF OpenRotated, OpenCurrent
<1>2. UNCHANGED <<file, current, rotated>>
  BY <1>1 DEF writerVars
<1>3. dumped = <<>> /\ dumped' = <<>>
  <2>1. dumping # "reading"
    BY DEF OpenRotated, OpenCurrent
  <2> QED BY <1>1, <2>1, Zenon DEF DumpInv, DumpPlaces
<1>4. /\ Elements(<<>>) = {} /\ Ordered(<<>>) /\ NoneMissing(file, <<>>) /\ <<>> \in Reports
      /\ <<>> \in Seq(Nat) /\ Len(<<>>) = 0 /\ DOMAIN <<>> = {}
  <2>1. NoneMissing(file, <<>>)
    BY Zenon DEF NoneMissing
  <2> QED BY <2>1 DEF Elements, Ordered, Reports
<1>5. /\ rotated \in Nat /\ current \in Nat
      /\ rotated # 0 => rotated \in DOMAIN file
      /\ current # 0 => current \in DOMAIN file /\ current = rotated + 1
  <2>1. /\ Len(file) \in Nat /\ DOMAIN file = 1..Len(file) /\ current \in {0, Len(file)}
        /\ rotated = IF current = 0 THEN Len(file) ELSE Len(file) - 1
    BY DEF WriterInv
  <2> DEFINE n == Len(file)
  <2>2. n \in Nat /\ DOMAIN file = 1..n /\ current \in {0, n}
        /\ rotated = IF current = 0 THEN n ELSE n - 1
    BY <2>1, Zenon
  <2> HIDE DEF n
  <2>3. CASE current = 0
    <3>1. rotated = n /\ n \in Nat /\ (n # 0 => n \in 1..n)
      BY <2>2, <2>3
    <3> QED BY <2>2, <2>3, <3>1
  <2>4. CASE current # 0
    <3>1. current = n /\ rotated = n - 1 /\ n # 0
      BY <2>2, <2>4
    <3>2. n \in 1..n /\ n - 1 \in Nat /\ (n - 1 # 0 => n - 1 \in 1..n) /\ n = (n - 1) + 1
      BY <2>2, <3>1
    <3> QED BY <2>2, <3>1, <3>2, Zenon
  <2> QED BY <2>3, <2>4
<1>6. ASSUME dumping' # "off", streams' \in Seq(Nat), Len(streams') <= 2,
             \A k \in DOMAIN streams' : streams'[k] \in DOMAIN file,
             Len(streams') = 2 => streams'[1] < streams'[2],
             dumping' = "opening" =>
                /\ Len(streams') <= 1
                /\ \A k \in DOMAIN streams' : streams'[k] <= rotated
                /\ ~split' => streams' = IF rotated = 0 THEN <<>> ELSE <<rotated>>,
             ~split' /\ Len(streams') = 2 => streams'[2] = streams'[1] + 1
      PROVE  DumpInv'
  <2>1. DumpPlaces'
    BY <1>2, <1>3, <1>4, <1>6, Zenon DEF DumpPlaces
  <2>2. Ordered(dumped)' /\ NoneMissing(file, dumped)'
    BY <1>2, <1>3, <1>4, Zenon
  <2> QED BY <2>1, <2>2, Zenon DEF DumpInv
<1>7. CASE OpenRotated
  <2>1. /\ streams' = IF rotated = 0 THEN <<>> ELSE <<rotated>>
        /\ dumping' = "opening" /\ split' = FALSE
    BY <1>7, Zenon DEF OpenRotated
  <2>2. CASE rotated = 0
    <3>1. streams' = <<>>
      BY <2>1, <2>2
    <3>2. 0 <= 2 /\ 0 # 2 /\ 0 <= 1 /\ "opening" # "off"
      OBVIOUS
    <3> QED BY <1>1, <1>4, <1>6, <2>1, <3>1, <3>2, Zenon
  <2>3. CASE rotated # 0
    <3> DEFINE s == <<rotated>>
    <3>1. s \in Seq(Nat) /\ Len(s) = 1 /\ DOMAIN s = {1} /\ s[1] = rotated
      BY <1>5
    <3>2. 1 <= 2 /\ 1 # 2 /\ 1 <= 1 /\ "opening" # "off" /\ \A r \in Nat : r <= r
      OBVIOUS
    <3>3. streams' = s
      BY <2>1, <2>3
    <3>4. ~split' => streams' = IF rotated = 0 THEN <<>> ELSE <<rotated>>
      BY <2>1
    <3> HIDE DEF s
    <3> QED BY <1>1, <1>5, <1>6, <2>1, <2>3, <3>1, <3>2, <3>3, <3>4, Zenon
  <2> QED BY <2>2, <2>3
<1>8. CASE OpenCurrent
  <2>1. /\ streams' = IF current = 0 THEN streams ELSE Append(streams, current)
        /\ dumping = "opening" /\ dumping' = "reading" /\ split' = split
    BY <1>8, Zenon DEF OpenCurrent
  <2>2. /\ streams \in Seq(Nat) /\ Len(streams) <= 1
        /\ \A k \in DOMAIN streams : streams[k] <= rotated
        /\ ~split => streams = IF rotated = 0 THEN <<>> ELSE <<rotated>>
        /\ \A k \in DOMAIN streams : streams[k] \in DOMAIN file
    BY <2>1, Zenon DEF DumpInv, DumpPlaces
  <2>3. "reading" # "off" /\ "reading" # "opening" /\ \A n \in Nat : n <= 1 => n <= 2 /\ n # 2
    OBVIOUS
  <2>4. CASE current = 0
    <3>1. streams' = streams /\ Len(streams) \in Nat
      BY <2>1, <2>2, <2>4
    <3> QED BY <1>1, <1>6, <2>1, <2>2, <2>3, <3>1, Zenon
  <2>5. CASE current # 0
    <3> DEFINE s == Append(streams, current)
               n == Len(streams)
    <3>0. n \in {0, 1} /\ DOMAIN streams = 1..n
      <4>1. streams \in Seq(Nat) /\ n <= 1
        BY <2>2, Zenon
      <4>2. n \in Nat /\ DOMAIN streams = 1..n
        BY <4>1
      <4> HIDE DEF n
      <4> QED BY <4>1, <4>2
    <3>1. /\ s \in Seq(Nat) /\ Len(s) = n + 1 /\ DOMAIN s = 1..(n + 1) /\ s[n + 1] = current
          /\ \A k \in 1..n : s[k] = streams[k]
      BY <1>5, <2>2
    <3>2. streams' = s
      BY <2>1, <2>5
    <3>3. ~split /\ n = 1 => streams[1] = rotated
      BY <2>2
    <3> HIDE DEF s, n
    <3>4. \A k \in DOMAIN s : s[k] \in DOMAIN file
      <4>1. \A k \in DOMAIN s : k \in 1..n \/ k = n + 1
        BY <3>0, <3>1
      <4> QED BY <1>5, <2>2, <2>5, <3>0, <3>1, <4>1, Zenon
    <3>5. n = 1 => 1 \in DOMAIN streams /\ s[1] = streams[1] /\ s[2] = current
                   /\ streams[1] \in Nat
      <4>1. SUFFICES ASSUME n = 1
                     PROVE  1 \in DOMAIN streams /\ s[1] = streams[1] /\ s[2] = current
                            /\ streams[1] \in Nat
        OBVIOUS
      <4>2. 1 \in 1..n /\ n + 1 = 2
        BY <4>1
      <4> QED BY <2>2, <3>0, <3>1, <4>2
    <3>6. /\ Len(s) <= 2 /\ (Len(s) = 2 => s[1] < s[2])
          /\ ~split /\ Len(s) = 2 => s[2] = s[1] + 1
      <4>1. CASE n = 0
        BY <3>1, <4>1
      <4>2. CASE n = 1
        <5>1. streams[1] <= rotated
          BY <2>2, <3>5, <4>2
        <5>2. s[1] < s[2]
          BY <1>5, <2>5, <3>5, <4>2, <5>1
        <5>3. ~split => s[2] = s[1] + 1
          BY <1>5, <2>5, <3>3, <3>5, <4>2
        <5>4. Len(s) = 2
          BY <3>1, <4>2
        <5> QED BY <5>2, <5>3, <5>4
      <4> QED BY <3>0, <4>1, <4>2
    <3> QED BY <1>1, <1>6, <2>1, <2>3, <3>1, <3>2, <3>4, <3>6, Zenon
  <2> QED BY <2>4, <2>5
<1> QED BY <1>1, <1>7, <1>8, Zenon

\* Ordered sequences joined, the second after the first.
LEMMA JoinOrdered ==
    ASSUME NEW a \in Reports, NEW b \in Reports, Ordered(a), Ordered(b),
           \A x \in Elements(a), y \in Elements(b) : x < y
    PROVE  Ordered(a \o b)
<1>1. /\ \A i \in DOMAIN a : a[i] \in Elements(a)
      /\ \A i \in DOMAIN b : b[i] \in Elements(b)
  BY Zenon DEF Elements
<1>2. /\ \A i \in DOMAIN (a \o b) : \/ i \in DOMAIN a /\ (a \o b)[i] = a[i]
                                  \/ /\ i \notin DOMAIN a /\ i - Len(a) \in DOMAIN b
                                     /\ (a \o b)[i] = b[i - Len(a)]
      /\ DOMAIN (a \o b) \subseteq Int /\ Len(a) \in Int
      /\ \A i, j \in DOMAIN (a \o b) : i \notin DOMAIN a /\ i < j => j \notin DOMAIN a
  BY DEF Reports
<1> DEFINE c == a \o b
<1> HIDE DEF c
<1>3. ASSUME NEW i \in DOMAIN c, NEW j \in DOMAIN c, i < j PROVE c[i] < c[j]
  <2>1. CASE i \in DOMAIN a /\ j \in DOMAIN a
    BY <1>2, <1>3, <2>1 DEF Ordered, c
  <2>2. CASE i \in DOMAIN a /\ j \notin DOMAIN a
    <3>1. c[i] = a[i] /\ c[j] = b[j - Len(a)] /\ j - Len(a) \in DOMAIN b
      BY <1>2, <2>2 DEF c
    <3> QED BY <1>1, <2>2, <3>1
  <2>3. CASE i \notin DOMAIN a
    <3>1. j \notin DOMAIN a
      BY <1>2, <1>3, <2>3 DEF c
    <3>2. /\ c[i] = b[i - Len(a)] /\ i - Len(a) \in DOMAIN b
          /\ c[j] = b[j - Len(a)] /\ j - Len(a) \in DOMAIN b
      BY <1>2, <2>3, <3>1 DEF c
    <3>3. i - Len(a) < j - Len(a)
      BY <1>2, <1>3 DEF c
    <3> QED BY <3>2, <3>3 DEF Ordered
  <2> QED BY <2>1, <2>2, <2>3
<1> QED BY <1>3 DEF Ordered, c

\* The first and the last of a sequence that has elements.
LEMMA Ends ==
    ASSUME NEW a \in Reports, a # <<>>
    PROVE  /\ Len(a) \in DOMAIN a /\ a[1] \in Elements(a) /\ a[Len(a)] \in Elements(a)
           /\ \A b \in Reports : (a \o b)[1] = a[1] /\ (b \o a)[Len(b \o a)] = a[Len(a)]
<1>1. 1 \in DOMAIN a /\ Len(a) \in DOMAIN a
  BY DEF Reports
<1>2. a[1] \in Elements(a) /\ a[Len(a)] \in Elements(a)
  BY <1>1, Zenon DEF Elements
<1>3. ASSUME NEW b \in Reports
      PROVE  (a \o b)[1] = a[1] /\ (b \o a)[Len(b \o a)] = a[Len(a)]
  <2>1. (a \o b)[1] = a[1]
    BY <1>1 DEF Reports
  <2>2. Len(b \o a) = Len(b) + Len(a) /\ (b \o a)[Len(b) + Len(a)] = a[Len(a)]
    BY <1>1 DEF Reports
  <2> QED BY <2>1, <2>2
<1> QED BY <1>1, <1>2, <1>3

\* What is left of one file or two.
LEMMA ShortTails ==
    ASSUME NEW s \in Seq(Nat)
    PROVE  /\ Len(s) = 1 =>
                /\ Tail(s) \in Seq(Nat) /\ Len(Tail(s)) = 0 /\ DOMAIN Tail(s) = {}
           /\ Len(s) = 2 =>
                /\ Tail(s) \in Seq(Nat) /\ Len(Tail(s)) = 1 /\ DOMAIN Tail(s) = {1}
                /\ Tail(s)[1] = s[2] /\ 2 \in DOMAIN s
<1>1. ASSUME Len(s) \in {1, 2}
      PROVE  /\ Tail(s) \in Seq(Nat) /\ Len(Tail(s)) = Len(s) - 1
             /\ \A i \in 1..Len(Tail(s)) : Tail(s)[i] = s[i + 1]
  <2>1. Len(<<>>) = 0 /\ 0 \notin {1, 2}
    OBVIOUS
  <2>2. s # <<>>
    BY <1>1, <2>1, Zenon
  <2> QED BY <2>2, HeadTailProperties
<1> DEFINE t == Tail(s)
<1> HIDE DEF t
<1>2. ASSUME Len(s) = 1
      PROVE  t \in Seq(Nat) /\ Len(t) = 0 /\ DOMAIN t = {}
  <2>1. t \in Seq(Nat) /\ Len(t) = 1 - 1
    BY <1>1, <1>2, Zenon DEF t
  <2> QED BY <2>1
<1>3. ASSUME Len(s) = 2
      PROVE  /\ t \in Seq(Nat) /\ Len(t) = 1 /\ DOMAIN t = {1}
             /\ t[1] = s[2] /\ 2 \in DOMAIN s
  <2>1. t \in Seq(Nat) /\ Len(t) = 2 - 1 /\ \A i \in 1..Len(t) : t[i] = s[i + 1]
    BY <1>1, <1>3, Zenon DEF t
  <2> QED BY <1>3, <2>1
<1> QED BY <1>2, <1>3 DEF t

\* A file is printed after those before it.
LEMMA DumpKeepsDump ==
    ASSUME WriterInv, OrderInv, DumpInv, Dump
    PROVE  DumpInv' /\ UNCHANGED <<writerVars, followVars>>
<1> DEFINE h == streams[1]
           W == EntriesOf(file[h])
           d == dumped \o W
<1>1. /\ dumping = "reading" /\ dumping' = "reading" /\ split' = split
      /\ streams # <<>> /\ streams' = Tail(streams) /\ dumped' = d
      /\ UNCHANGED <<writerVars, followVars>>
  <2>1. /\ dumping = "reading" /\ UNCHANGED dumping /\ split' = split
        /\ streams # <<>> /\ streams' = Tail(streams)
        /\ dumped' = dumped \o EntriesOf(file[Head(streams)])
        /\ UNCHANGED <<writerVars, followVars>>
    BY Zenon DEF Dump
  <2>2. streams \in Seq(Nat)
    BY Zenon DEF DumpInv, DumpPlaces
  <2>3. Head(streams) = streams[1]
    BY <2>1, <2>2
  <2> QED BY <2>1, <2>3, Zenon
<1>2. UNCHANGED <<file, current, rotated>>
  BY <1>1 DEF writerVars
<1>3. /\ streams \in Seq(Nat) /\ Len(streams) \in {1, 2} /\ DOMAIN streams = 1..Len(streams)
      /\ dumped \in Reports /\ h \in DOMAIN file /\ h \in Nat
  <2>1. /\ streams \in Seq(Nat) /\ Len(streams) <= 2 /\ dumped \in Reports
        /\ \A k \in DOMAIN streams : streams[k] \in DOMAIN file
    BY Zenon DEF DumpInv, DumpPlaces
  <2>2. Len(streams) \in Nat /\ Len(streams) # 0 /\ DOMAIN streams = 1..Len(streams)
    BY <1>1, <2>1
  <2>3. Len(streams) \in {1, 2} /\ 1 \in 1..Len(streams)
    BY <2>1, <2>2
  <2>4. h \in Nat
    BY <2>1, <2>2, <2>3
  <2> QED BY <2>1, <2>2, <2>3, <2>4, Zenon
<1>4. W \in Reports /\ Ordered(W) /\ Elements(W) = Whole(file, h)
  BY <1>3, WholeFiles, Zenon DEF Whole
<1> HIDE DEF h, W
<1>5. d \in Reports /\ Elements(d) = Elements(dumped) \cup Elements(W)
  <2>1. \A a, b \in Reports : a \o b \in Reports
    BY DEF Reports
  <2> QED BY <1>3, <1>4, <2>1, JoinElements, Zenon
<1>6. \A n \in Elements(dumped) : \E f \in DOMAIN file : n \in Whole(file, f) /\ f < h
  <2>1. 1 \in DOMAIN streams
    BY <1>3
  <2> QED BY <2>1, Zenon DEF DumpInv, DumpPlaces, h
<1>7. Ordered(d)
  <2>1. \A x \in Elements(dumped), y \in Elements(W) : x < y
    <3> SUFFICES ASSUME NEW x \in Elements(dumped), NEW y \in Elements(W) PROVE x < y
      OBVIOUS
    <3>1. PICK f \in DOMAIN file : x \in Whole(file, f) /\ f < h
      BY <1>6
    <3>2. y \in Whole(file, h)
      BY <1>4, Zenon
    <3> QED BY <1>3, <3>1, <3>2, WholeFiles, Zenon
  <2>2. Ordered(dumped)
    BY Zenon DEF DumpInv
  <2> QED BY <1>3, <1>4, <2>1, <2>2, JoinOrdered
<1>8. ASSUME streams' \in Seq(Nat), Len(streams') \in {0, 1},
             \A k \in DOMAIN streams' : streams'[k] \in DOMAIN file /\ h < streams'[k],
             ~split /\ Len(streams') = 1 =>
                 /\ streams'[1] - 1 \in DOMAIN file
                 /\ Elements(d) = Whole(file, streams'[1] - 1)
      PROVE  DumpPlaces'
  <2>1. \A n \in Elements(d) : \E f \in DOMAIN file :
            n \in Whole(file, f) /\ \A k \in DOMAIN streams' : f < streams'[k]
    <3> SUFFICES ASSUME NEW n \in Elements(d)
                 PROVE  \E f \in DOMAIN file :
                            n \in Whole(file, f) /\ \A k \in DOMAIN streams' : f < streams'[k]
      OBVIOUS
    <3>1. CASE n \in Elements(W)
      BY <1>3, <1>4, <1>8, <3>1, Zenon
    <3>2. CASE n \in Elements(dumped)
      <4>1. PICK f \in DOMAIN file : n \in Whole(file, f) /\ f < h
        BY <1>6, <3>2
      <4>2. f \in Nat /\ \A k \in DOMAIN streams' : streams'[k] \in Nat
        BY <1>8 DEF WriterInv
      <4>3. \A a, b, c \in Nat : a < b /\ b < c => a < c
        OBVIOUS
      <4>4. \A k \in DOMAIN streams' : f < streams'[k]
        BY <1>3, <1>8, <4>1, <4>2, <4>3, Zenon
      <4> QED BY <4>1, <4>4
    <3> QED BY <1>5, <3>1, <3>2, Zenon
  <2>2. \A n \in {0, 1} : n <= 2 /\ n # 2
    OBVIOUS
  <2>3. "reading" # "off" /\ "reading" # "opening"
    OBVIOUS
  <2> HIDE DEF d
  <2> QED BY <1>1, <1>2, <1>5, <1>8, <2>1, <2>2, <2>3, Zenon DEF DumpPlaces
<1>9. DumpPlaces'
  <2>1. CASE Len(streams) = 2
    <3>2. /\ streams' \in Seq(Nat) /\ Len(streams') = 1 /\ DOMAIN streams' = {1}
          /\ streams'[1] = streams[2] /\ 2 \in DOMAIN streams
      BY <1>1, <1>3, <2>1, ShortTails, Zenon
    <3>3. h < streams[2] /\ streams[2] \in DOMAIN file
      BY <2>1, <3>2, Zenon DEF DumpInv, DumpPlaces, h
    <3>4. ASSUME ~split PROVE streams'[1] - 1 \in DOMAIN file /\ Elements(d) = Whole(file, streams'[1] - 1)
      <4>1. dumped = <<>> /\ streams[2] = h + 1
        BY <1>1, <2>1, <3>4, Zenon DEF DumpInv, DumpPlaces, h
      <4>2. \A k \in Nat : (k + 1) - 1 = k
        OBVIOUS
      <4>3. streams'[1] - 1 = h
        BY <1>3, <3>2, <4>1, <4>2, Zenon
      <4>4. Elements(<<>>) = {}
        BY DEF Elements
      <4>5. Elements(d) = Elements(W)
        BY <1>5, <4>1, <4>4, Zenon
      <4> QED BY <1>3, <1>4, <4>3, <4>5, Zenon
    <3> HIDE DEF d
    <3> QED BY <1>8, <3>2, <3>3, <3>4, Zenon
  <2>2. CASE Len(streams) = 1
    <3>2. streams' \in Seq(Nat) /\ Len(streams') = 0 /\ DOMAIN streams' = {}
      BY <1>1, <1>3, <2>2, ShortTails, Zenon
    <3>3. 0 # 1
      OBVIOUS
    <3> QED BY <1>8, <3>2, <3>3, Zenon
  <2> QED BY <1>3, <2>1, <2>2, Zenon
<1>10. ASSUME ~split PROVE NoneMissing(file, d)
  <2> SUFFICES ASSUME NEW f \in DOMAIN file, NEW n \in Whole(file, f),
                      d # <<>>, d[1] < n, n < d[Len(d)]
               PROVE  n \in Elements(dumped) \/ n \in Elements(W)
    BY <1>5, Zenon DEF NoneMissing
  <2>1. CASE W = <<>>
    <3>1. d = dumped
      BY <1>3, <2>1, ConcatEmptySeq DEF Reports
    <3>2. NoneMissing(file, dumped)
      BY <1>10, Zenon DEF DumpInv
    <3> QED BY <3>1, <3>2, Zenon DEF NoneMissing
  <2>2. CASE W # <<>>
    <3>1. W[Len(W)] \in Whole(file, h) /\ d[Len(d)] = W[Len(W)] /\ W[1] \in Whole(file, h)
      BY <1>3, <1>4, <2>2, Ends, Zenon
    <3>2. f \in Nat /\ n \in Nat /\ W[Len(W)] \in Nat /\ W[1] \in Nat
      <4>1. f \in Nat
        BY DEF WriterInv
      <4> QED BY <1>3, <3>1, <4>1, WholeFiles, Zenon
    <3>3. ~(h < f)
      <4>1. h < f => W[Len(W)] < n
        BY <1>3, <3>1, WholeFiles, Zenon
      <4> QED BY <3>1, <3>2, <4>1
    <3>4. CASE dumped = <<>>
      <4>1. d[1] = W[1]
        <5>1. d = W
          BY <1>4, <3>4, ConcatEmptySeq DEF Reports
        <5> QED BY <5>1
      <4>2. ~(f < h)
        <5>1. f < h => n < W[1]
          BY <1>3, <3>1, WholeFiles, Zenon
        <5> QED BY <3>2, <4>1, <5>1
      <4>3. f = h
        BY <1>3, <3>2, <3>3, <4>2
      <4> QED BY <1>4, <4>3, Zenon
    <3>5. CASE dumped # <<>>
      <4>1. Len(streams) = 1
        BY <1>1, <1>3, <1>10, <3>5, Zenon DEF DumpInv, DumpPlaces
      <4>2. h - 1 \in DOMAIN file /\ Elements(dumped) = Whole(file, h - 1)
        BY <1>1, <1>10, <3>5, <4>1, Zenon DEF DumpInv, DumpPlaces, h
      <4>3. dumped[1] \in Whole(file, h - 1) /\ d[1] = dumped[1]
        BY <1>3, <1>4, <3>5, <4>2, Ends, Zenon
      <4>4. dumped[1] \in Nat
        BY <4>2, <4>3, WholeFiles, Zenon
      <4>5. ~(f < h - 1)
        <5>1. f < h - 1 => n < dumped[1]
          BY <4>2, <4>3, WholeFiles, Zenon
        <5> QED BY <3>2, <4>3, <4>4, <5>1
      <4>6. f = h \/ f = h - 1
        <5>1. f \in Nat /\ h \in Nat /\ ~(h < f) /\ ~(f < h - 1)
          BY <1>3, <3>2, <3>3, <4>5, Zenon
        <5> QED BY <5>1
      <4> QED BY <1>4, <4>2, <4>6, Zenon
    <3> QED BY <3>4, <3>5
  <2> QED BY <2>1, <2>2
<1> HIDE DEF d
<1> QED BY <1>1, <1>2, <1>7, <1>9, <1>10, Zenon DEF DumpInv

(***************************************************************************)
(* The log.                                                                *)
(***************************************************************************)

LogInv == WriterInv /\ OrderInv /\ FollowInv /\ DumpInv

\* Nothing was written, and nobody reads.
LEMMA LogBegins == AuditInit => LogInv
<1> SUFFICES ASSUME AuditInit PROVE LogInv
  OBVIOUS
<1>1. /\ file = <<>> /\ current = 0 /\ rotated = 0 /\ handle = 0 /\ writing = "idle" /\ entries = 0
      /\ following = "off" /\ held = 0 /\ offset = 0 /\ started = <<>> /\ shown = <<>>
      /\ dumping = "off" /\ streams = <<>> /\ dumped = <<>>
  BY Zenon DEF AuditInit
<1>2. /\ DOMAIN <<>> = {} /\ Len(<<>>) = 0 /\ \A S : <<>> \in Seq(S)
      /\ Elements(<<>>) = {}
  BY DEF Elements
<1>3. WriterInv
  BY <1>1, <1>2 DEF WriterInv
<1>4. OrderInv
  BY <1>1, <1>2, Zenon DEF OrderInv
<1>5. FollowInv
  <2>1. Reads(file, started, held, offset) = <<>>
    <3>1. \A S : S = {} => \A f : [i \in S |-> f[i]] = <<>>
      BY <1>2
    <3>2. Reads(file, started, held, offset)
          = [i \in {} |-> EntriesOf(ReadTo(file, started, held, offset, i))]
      BY <1>1, <1>2, Zenon DEF Reads
    <3> QED BY <3>2
  <2>2. shown = Concat(Reads(file, started, held, offset))
    BY <1>1, <2>1, ConcatAppend, Zenon
  <2>3. FollowPlaces
    <3>1. 0 \in Nat
      OBVIOUS
    <3> QED BY <1>1, <1>2, <3>1, Zenon DEF FollowPlaces, Begun
  <2>4. FollowReads
    <3>1. "off" \notin {"drain old", "open"} /\ "off" # "open"
      OBVIOUS
    <3> QED BY <1>1, <1>2, <2>2, <3>1, Zenon DEF FollowReads, Rising
  <2> QED BY <2>3, <2>4 DEF FollowInv
<1>6. DumpInv
  <2>1. DumpPlaces
    <3>1. 0 <= 2 /\ 0 # 2 /\ 0 # 1 /\ "off" # "reading" /\ "off" # "opening"
      OBVIOUS
    <3> QED BY <1>1, <1>2, <3>1, Zenon DEF DumpPlaces, Reports
  <2>2. Ordered(dumped) /\ NoneMissing(file, dumped)
    BY <1>1, <1>2, Zenon DEF Ordered, NoneMissing
  <2> QED BY <2>1, <2>2 DEF DumpInv
<1> QED BY <1>3, <1>4, <1>5, <1>6 DEF LogInv

\* By the writer, the follower and the dump.
LEMMA LogStep == LogInv /\ [AuditNext]_auditVars => LogInv'
<1> SUFFICES ASSUME LogInv, [AuditNext]_auditVars PROVE LogInv'
  OBVIOUS
<1>0. WriterInv /\ OrderInv /\ FollowInv /\ DumpInv
  BY DEF LogInv
<1>1. UNCHANGED writerVars => WriterInv' /\ OrderInv'
  BY <1>0, Zenon DEF writerVars, WriterInv, OrderInv, Written
<1>2. UNCHANGED <<writerVars, followVars>> => FollowInv'
  BY <1>0, Zenon DEF writerVars, followVars, FollowInv, FollowPlaces, FollowReads, Newest
<1>3. UNCHANGED <<writerVars, dumpVars, split>> => DumpInv'
  <2> SUFFICES ASSUME UNCHANGED <<writerVars, dumpVars, split>> PROVE DumpInv'
    OBVIOUS
  <2>1. /\ file' = file /\ rotated' = rotated /\ dumping' = dumping
        /\ streams' = streams /\ dumped' = dumped /\ split' = split
    BY DEF writerVars, dumpVars
  <2>2. DumpPlaces /\ Ordered(dumped) /\ (split \/ NoneMissing(file, dumped))
    BY <1>0, Zenon DEF DumpInv
  <2>3. split' <=> split
    BY <2>1, SMT
  <2>4. DumpPlaces'
    BY <2>1, <2>2, <2>3, Zenon DEF DumpPlaces
  <2>5. Ordered(dumped)' /\ (split \/ NoneMissing(file, dumped))'
    BY <2>1, <2>2, <2>3, Zenon
  <2> QED BY <2>4, <2>5, Zenon DEF DumpInv
<1>4. CASE WriterNext
  <2>1. WriterInv' /\ OrderInv' /\ LogGrows
    BY <1>0, <1>4, WriterSteps, WriterKeepsOrder, Zenon
  <2>2. /\ UNCHANGED followVars /\ UNCHANGED dumpVars /\ file' \in Seq(Texts)
        /\ rotated \in Nat /\ rotated' \in Nat /\ rotated <= rotated'
        /\ split => split'
        /\ dumping = "opening" /\ ~split' => rotated' = rotated
    BY <1>0, <1>4, WriterAndDump, Zenon
  <2>3. FollowInv'
    BY <1>0, <2>1, <2>2, WriterKeepsFollower, Zenon
  <2>4. DumpInv'
    BY <1>0, <2>1, <2>2, WriterKeepsDump, Zenon
  <2> QED BY <2>1, <2>3, <2>4 DEF LogInv
<1>5. CASE FollowerNext
  <2>1. FollowInv' /\ UNCHANGED <<writerVars, dumpVars, split>>
    BY <1>0, <1>5, FollowerSteps, Zenon
  <2> QED BY <1>1, <1>3, <2>1, Zenon DEF LogInv
<1>6. CASE OpenRotated \/ OpenCurrent
  <2>1. DumpInv' /\ UNCHANGED <<writerVars, followVars>>
    BY <1>0, <1>6, OpensKeepDump, Zenon
  <2> QED BY <1>1, <1>2, <2>1, Zenon DEF LogInv
<1>7. CASE Dump
  <2>1. DumpInv' /\ UNCHANGED <<writerVars, followVars>>
    BY <1>0, <1>7, DumpKeepsDump, Zenon
  <2> QED BY <1>1, <1>2, <2>1, Zenon DEF LogInv
<1>8. CASE UNCHANGED auditVars
  BY <1>1, <1>2, <1>3, <1>8, Zenon DEF auditVars, LogInv
<1> QED BY <1>4, <1>5, <1>6, <1>7, <1>8, Zenon DEF AuditNext, WriterNext, FollowerNext

\* What it says of the readers.
LEMMA LogIsRead == LogInv => LogReadInOrder
<1> SUFFICES ASSUME LogInv PROVE LogReadInOrder
  OBVIOUS
<1>1. FollowsTheLog
  <2>1. /\ started \in Seq(Starts) /\ Rising(started)
        /\ shown = Concat(Reads(file, started, held, offset))
    BY Zenon DEF LogInv, FollowInv, FollowPlaces, FollowReads
  <2>2. Printed(file, started, held, offset) = Reads(file, started, held, offset)
    BY <2>1, ReadsAre, Zenon
  <2>3. shown = Concat(Printed(file, started, held, offset))
    BY <2>1, <2>2, Zenon
  <2> QED BY <2>3, Zenon DEF Printed, FollowsTheLog, ReadOf
<1>2. dumped \in Reports /\ Ordered(dumped) /\ (split \/ NoneMissing(file, dumped))
  BY Zenon DEF LogInv, DumpInv, DumpPlaces
<1>3. Increasing(dumped)
  <2>1. \A i \in 2..Len(dumped) : i \in DOMAIN dumped /\ i - 1 \in DOMAIN dumped /\ i - 1 < i
    BY <1>2 DEF Reports
  <2> QED BY <1>2, <2>1, Zenon DEF Increasing, Ordered
<1>4. split \/ \A n \in Intact :
          dumped # <<>> /\ dumped[1] < n /\ n < dumped[Len(dumped)] =>
              \E i \in DOMAIN dumped : dumped[i] = n
  <2>1. CASE split
    BY <2>1
  <2>2. CASE NoneMissing(file, dumped)
    <3>1. ASSUME NEW n \in Intact, dumped # <<>>, dumped[1] < n, n < dumped[Len(dumped)]
          PROVE  \E i \in DOMAIN dumped : dumped[i] = n
      <4>1. PICK f \in DOMAIN file : n \in Whole(file, f)
        BY DEF Intact, Whole
      <4>2. n \in Elements(dumped)
        BY <2>2, <3>1, <4>1, Zenon DEF NoneMissing
      <4> QED BY <4>2 DEF Elements
    <3> QED BY <3>1
  <2> QED BY <1>2, <2>1, <2>2
<1> QED BY <1>1, <1>3, <1>4 DEF LogReadInOrder, DumpsTheLog

\* The readers tell the log as it was written: the follower prints the entries
\* of each file it opened once and in their order, however it is rotated while
\* it reads and however the reads fall; a dump prints them in their order, and
\* none is missing in between unless the log was rotated while it opened the
\* files (internal/audit, enforcer/audit.py).
THEOREM LogCorrect == AuditSpec => []LogReadInOrder
<1>1. AuditInit => LogInv
  BY LogBegins
<1>2. LogInv /\ [AuditNext]_auditVars => LogInv'
  BY LogStep
<1>3. LogInv => LogReadInOrder
  BY LogIsRead
<1> QED BY <1>1, <1>2, <1>3, PTL DEF AuditSpec
=============================================================================
