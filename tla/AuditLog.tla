------------------------------ MODULE AuditLog ------------------------------
(***************************************************************************)
(* The egress log: the enforcer's writer (enforcer/audit.py), which        *)
(* rotates it, and the readers of other processes (internal/audit): one    *)
(* that follows it, and one that dumps it.                                 *)
(*                                                                         *)
(* An entry is a line, appended by one write.  A line is told in two       *)
(* pieces, its head and its end with the newline, as a full disk may take  *)
(* the head only.  A file is known by its number; its name is the current  *)
(* one, the rotated one, or gone.  A behaviour has one reader: readers     *)
(* share nothing but the files.                                            *)
(***************************************************************************)
EXTENDS Lists

CONSTANTS
    MaxSize,        \* pieces a file may hold (DEFAULT_MAX_BYTES)
    MaxEntries      \* bound: entries written

VARIABLES
    file,           \* the contents of each file there was, in order
    current, rotated,       \* the files of the two names, 0 without one
    handle, size,   \* the writer's open file, and its size as it knows it
    writing,        \* what the writer does next
    entries,        \* entries given to it so far
    following, held, offset, leftover,  \* the follower, its file, how far it
                                        \* is, and what is no whole line yet
    started,        \* the files it had open, with where it began in each
    shown,          \* the entries it printed
    dumping, streams, dumped,   \* the dump, the files it has, what it printed
    split           \* whether the log was rotated while it opened them

writerVars == <<file, current, rotated, handle, size, writing, entries>>
followVars == <<following, held, offset, leftover, started, shown>>
dumpVars == <<dumping, streams, dumped>>
auditVars == <<writerVars, followVars, dumpVars, split>>

Piece(n, nl) == [entry |-> n, nl |-> nl]
encode(n) == <<Piece(n, FALSE), Piece(n, TRUE)>>

\* What a parse makes of each whole line: an entry, or a malformed line.
ParseLines(pieces) ==
    LET p[i \in 0..Len(pieces)] ==
            IF i = 0 THEN [lines |-> <<>>, rest |-> <<>>]
            ELSE LET line == Append(p[i - 1].rest, pieces[i])
                 IN IF ~pieces[i].nl THEN [p[i - 1] EXCEPT !.rest = line]
                    ELSE [lines |-> Append(p[i - 1].lines, line), rest |-> <<>>]
    IN p[Len(pieces)]

ParseLine(line) == IF line = encode(line[Len(line)].entry)
                   THEN line[Len(line)].entry ELSE 0

\* Malformed lines are skipped.
Parsed(lines) ==
    LET e[i \in 0..Len(lines)] ==
            IF i = 0 THEN <<>>
            ELSE IF ParseLine(lines[i]) = 0 THEN e[i - 1]
            ELSE Append(e[i - 1], ParseLine(lines[i]))
    IN e[Len(lines)]

EntriesOf(pieces) == Parsed(ParseLines(pieces).lines)

(***************************************************************************)
(* The writer                                                              *)
(***************************************************************************)

Created == Len(file) + 1

\* write(): the handle is opened late, after a restart too.
ensure_open ==
    /\ writing = "idle" /\ entries < MaxEntries
    /\ entries' = entries + 1
    /\ IF handle # 0 THEN UNCHANGED <<file, current, handle, size>>
       ELSE IF current # 0
       THEN /\ handle' = current /\ size' = Len(file[current])
            /\ UNCHANGED <<file, current>>
       ELSE /\ file' = Append(file, <<>>)
            /\ current' = Created /\ handle' = Created /\ size' = 0
    /\ writing' = "opened"
    /\ UNCHANGED <<rotated, followVars, dumpVars, split>>

Full == size > 0 /\ size + 2 > MaxSize

\* The current file takes the rotated one's name.
Rotate ==
    /\ writing = "opened" /\ Full
    /\ rotated' = current /\ current' = 0 /\ handle' = 0
    /\ writing' = "replaced"
    /\ split' = (split \/ dumping = "opening")
    /\ UNCHANGED <<file, size, entries, followVars, dumpVars>>

Reopen ==
    /\ writing = "replaced"
    /\ file' = Append(file, <<>>)
    /\ current' = Created /\ handle' = Created /\ size' = 0
    /\ writing' = "ready"
    /\ UNCHANGED <<rotated, entries, followVars, dumpVars, split>>

\* All of the line, or on a full disk its head, or nothing.
WriteLine ==
    /\ writing \in {"ready", IF Full THEN "ready" ELSE "opened"}
    /\ \E n \in 0..2 :
        /\ file' = [file EXCEPT ![handle] = @ \o SubSeq(encode(entries), 1, n)]
        /\ size' = IF n = 0 THEN size ELSE size + 2
    /\ writing' = "idle"
    /\ UNCHANGED <<current, rotated, handle, entries, followVars, dumpVars, split>>

\* The rename or the opening fails, and with it the hook: the next write opens
\* what there is.
RotateFails ==
    /\ writing \in {"replaced", IF Full THEN "opened" ELSE "replaced"}
    /\ handle' = 0 /\ writing' = "idle"
    /\ UNCHANGED <<file, current, rotated, size, entries, followVars, dumpVars, split>>

\* The proxy ends; the next one appends to the same file.
Restart ==
    /\ writing = "idle" /\ handle # 0
    /\ handle' = 0
    /\ UNCHANGED <<file, current, rotated, size, writing, entries, followVars,
                   dumpVars, split>>

(***************************************************************************)
(* logs --follow                                                           *)
(***************************************************************************)

Opened(f, from) ==
    /\ held' = f /\ offset' = from
    /\ leftover' = IF f = 0 THEN leftover ELSE <<>>
    /\ started' = IF f = 0 THEN started ELSE Append(started, [file |-> f, from |-> from])

openTail ==
    /\ following = "off" /\ dumping = "off"
    /\ Opened(current, IF current = 0 THEN 0 ELSE Len(file[current]))
    /\ following' = "idle"
    /\ UNCHANGED <<writerVars, shown, dumpVars, split>>

\* A bug that would matter: the old file is closed before it is read to its
\* end.
Slip_checkRotation ==
    /\ following = "idle"
    /\ following' = IF current = 0 \/ current = held THEN "drain" ELSE "open"
    /\ UNCHANGED <<writerVars, held, offset, leftover, started, shown, dumpVars, split>>

\* An event or the poll: is the current file still the one it holds?
checkRotation ==
    /\ following = "idle"
    /\ following' = IF current = 0 \/ current = held THEN "drain"
                    ELSE IF held # 0 THEN "drain old" ELSE "open"
    /\ UNCHANGED <<writerVars, held, offset, leftover, started, shown, dumpVars, split>>

\* A read returns some of what is left; whole lines are printed.
drain ==
    /\ following \in {"drain", "drain old"}
    /\ held # 0 /\ offset < Len(file[held])
    /\ \E n \in 1..(Len(file[held]) - offset) :
        LET p == ParseLines(leftover \o SubSeq(file[held], offset + 1, offset + n))
        IN /\ offset' = offset + n
           /\ leftover' = p.rest
           /\ shown' = shown \o Parsed(p.lines)
    /\ UNCHANGED <<writerVars, following, held, started, dumpVars, split>>

AtEnd ==
    /\ following \in {"drain", "drain old"}
    /\ ~(held # 0 /\ offset < Len(file[held]))
    /\ following' = IF following = "drain" THEN "idle" ELSE "open"
    /\ UNCHANGED <<writerVars, held, offset, leftover, started, shown, dumpVars, split>>

openFromStart ==
    /\ following = "open"
    /\ Opened(current, 0)
    /\ following' = "drain"
    /\ UNCHANGED <<writerVars, shown, dumpVars, split>>

(***************************************************************************)
(* logs, logs --summary: both files are opened, then read                  *)
(***************************************************************************)

OpenRotated ==
    /\ dumping = "off" /\ following = "off"
    /\ streams' = IF rotated = 0 THEN <<>> ELSE <<rotated>>
    /\ dumping' = "opening" /\ split' = FALSE
    /\ UNCHANGED <<writerVars, followVars, dumped>>

OpenCurrent ==
    /\ dumping = "opening"
    /\ streams' = IF current = 0 THEN streams ELSE Append(streams, current)
    /\ dumping' = "reading"
    /\ UNCHANGED <<writerVars, followVars, dumped, split>>

\* At the end of a file an unfinished line is parsed too: it is malformed.
Dump ==
    /\ dumping = "reading" /\ streams # <<>>
    /\ dumped' = dumped \o EntriesOf(file[Head(streams)])
    /\ streams' = Tail(streams)
    /\ UNCHANGED <<writerVars, followVars, dumping, split>>

AuditInit ==
    /\ file = <<>> /\ current = 0 /\ rotated = 0
    /\ handle = 0 /\ size = 0 /\ writing = "idle" /\ entries = 0
    /\ following = "off" /\ held = 0 /\ offset = 0 /\ leftover = <<>>
    /\ started = <<>> /\ shown = <<>>
    /\ dumping = "off" /\ streams = <<>> /\ dumped = <<>> /\ split = FALSE

AuditNext ==
    \/ ensure_open \/ Rotate \/ Reopen \/ WriteLine \/ RotateFails \/ Restart
    \/ openTail \/ checkRotation \/ drain \/ AtEnd \/ openFromStart
    \/ OpenRotated \/ OpenCurrent \/ Dump

AuditSpec == AuditInit /\ [][AuditNext]_auditVars

(***************************************************************************)
(* Properties                                                              *)
(***************************************************************************)

\* What the follower has read of a file it had open: all of it, but for the
\* one it holds.
ReadOf(s) ==
    SubSeq(file[s.file], s.from + 1,
           IF s = started[Len(started)] /\ held # 0 THEN offset
           ELSE Len(file[s.file]))

\* The follower prints the entries of the files it opened, from where it
\* began, each once and in the order they were written, however the reads
\* fall, and leaves no file before it read its end.
FollowsTheLog ==
    shown = Concat([i \in DOMAIN started |-> EntriesOf(ReadOf(started[i]))])

Increasing(s) == \A i \in 2..Len(s) : s[i - 1] < s[i]

Intact == UNION {Elements(EntriesOf(file[f])) : f \in DOMAIN file}

\* A dump prints entries in the order they were written, and none of them is
\* missing in between, unless the log was rotated while it opened the files.
DumpsTheLog ==
    /\ Increasing(dumped)
    /\ split \/ \A n \in Intact :
            dumped # <<>> /\ dumped[1] < n /\ n < dumped[Len(dumped)] =>
                \E i \in DOMAIN dumped : dumped[i] = n

\* The readers tell the log as it was written.
LogReadInOrder == FollowsTheLog /\ DumpsTheLog
=============================================================================
