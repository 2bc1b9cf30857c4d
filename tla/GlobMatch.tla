----------------------------- MODULE GlobMatch -----------------------------
(***************************************************************************)
(* The loop that matches one path segment against a pattern with "*"       *)
(* (matchSegmentGlob of internal/policy/glob.go, _match_segment_glob of    *)
(* the enforcer): two pointers, and one place to go back to, the last "*"  *)
(* and where its run ended.  Indices count from 0, as the code's do.       *)
(***************************************************************************)
EXTENDS PolicyMatch

VARIABLES
    pat, seg,       \* the pattern and the segment
    pi, si,         \* where the loop is in them
    star,           \* the last "*" met, -1 before the first
    starMatchEnd,   \* where the run that it matches ends
    result          \* "running", then "yes" or "no"

globVars == <<pat, seg, pi, si, star, starMatchEnd, result>>

GlobInit(p, s) ==
    /\ pat = p /\ seg = s
    /\ pi = 0 /\ si = 0 /\ star = -1 /\ starMatchEnd = 0
    /\ result = "running"

AtStar == pi < Len(pat) /\ pat[pi + 1] = "*"

More == result = "running" /\ si < Len(seg)
Keep == UNCHANGED <<pat, seg>>

\* A bug that would matter: the star's run starts after the character.
Slip_MeetStar ==
    /\ More /\ AtStar
    /\ star' = pi /\ starMatchEnd' = si + 1 /\ pi' = pi + 1 /\ si' = si + 1
    /\ Keep /\ UNCHANGED result

MeetStar ==
    /\ More /\ AtStar
    /\ star' = pi /\ starMatchEnd' = si /\ pi' = pi + 1
    /\ Keep /\ UNCHANGED <<si, result>>

Same == pi < Len(pat) /\ pat[pi + 1] = seg[si + 1]

MatchOne ==
    /\ More /\ ~AtStar
    /\ Same
    /\ pi' = pi + 1 /\ si' = si + 1
    /\ Keep /\ UNCHANGED <<star, starMatchEnd, result>>

GoBack ==
    /\ More /\ ~AtStar /\ ~Same
    /\ star >= 0
    /\ pi' = star + 1
    /\ starMatchEnd' = starMatchEnd + 1
    /\ si' = starMatchEnd'
    /\ Keep /\ UNCHANGED <<star, result>>

GiveUp ==
    /\ More /\ ~AtStar /\ ~Same
    /\ star < 0
    /\ result' = "no"
    /\ Keep /\ UNCHANGED <<pi, si, star, starMatchEnd>>

\* The segment is used up: the rest of the pattern may only be stars.
Finish ==
    /\ result = "running" /\ si >= Len(seg)
    /\ result' = IF \A i \in (pi + 1)..Len(pat) : pat[i] = "*"
                 THEN "yes" ELSE "no"
    /\ Keep /\ UNCHANGED <<pi, si, star, starMatchEnd>>

GlobNext == MeetStar \/ MatchOne \/ GoBack \/ GiveUp \/ Finish

\* The loop of two pointers and one place to go back to answers what the
\* pattern means: whether the characters between its stars can be found in
\* order.  It is what both matchers use for a path segment.
GlobCorrect ==
    result # "running" => ((result = "yes") <=> GlobMatches(pat, seg))
=============================================================================
