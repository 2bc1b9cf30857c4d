---------------------------- MODULE TokenService ----------------------------
(***************************************************************************)
(* What the credential broker promises the enforcer, without sockets,      *)
(* handlers, buffers or clocks: each question is refused or answered with the *)
(* token that was current, for the name it asked for, at one instant       *)
(* between question and answer.  A token replaced in just that instant may *)
(* arrive garbled.  Tokens only ever move forward, and they are withdrawn  *)
(* while nobody is being served.                                           *)
(***************************************************************************)
EXTENDS Integers

CONSTANTS Caller, Name, Nobody

None == 0
Garbled == -1

VARIABLES
    current,    \* the number of the token each name stands for, or None
    ask,        \* how far the question of each caller is
    given       \* what each caller was last given, None if it was refused

vars == <<current, ask, given>>

Idle == [st |-> "idle", name |-> Nobody, val |-> None]

Init ==
    /\ current = [n \in Name |-> None]
    /\ ask = [f \in Caller |-> Idle]
    /\ given = [f \in Caller |-> None]

\* Names receive tokens, at first and again and again.
Renew ==
    /\ \E S \in SUBSET Name :
          current' = [n \in Name |-> IF n \in S THEN current[n] + 1 ELSE current[n]]
    /\ UNCHANGED <<ask, given>>

Ask(f, n) ==
    /\ ask[f].st = "idle"
    /\ ask' = [ask EXCEPT ![f] = [st |-> "asked", name |-> n, val |-> None]]
    /\ UNCHANGED <<current, given>>

\* The instant the answer is taken from.
Resolve(f) ==
    /\ ask[f].st = "asked"
    /\ ask' = [ask EXCEPT ![f].st = "resolved", ![f].val = current[ask[f].name]]
    /\ UNCHANGED <<current, given>>

\* The answer is fixed: what was resolved, a refusal, or, if the token was
\* replaced meanwhile, garbage.
Seal(f) ==
    /\ ask[f].st = "resolved"
    /\ \E v \in {ask[f].val, None}
              \cup (IF current[ask[f].name] # ask[f].val THEN {Garbled} ELSE {}) :
          ask' = [ask EXCEPT ![f].st = "sealed", ![f].val = v]
    /\ UNCHANGED <<current, given>>

Give(f) ==
    /\ ask[f].st = "sealed"
    /\ given' = [given EXCEPT ![f] = ask[f].val]
    /\ ask' = [ask EXCEPT ![f] = Idle]
    /\ UNCHANGED current

\* A question may be refused at any time.
Refuse(f) ==
    /\ ask[f].st # "idle"
    /\ given' = [given EXCEPT ![f] = None]
    /\ ask' = [ask EXCEPT ![f] = Idle]
    /\ UNCHANGED current

\* The service ends: nobody is between Resolve and Seal.
Retire ==
    /\ \A f \in Caller : ask[f].st # "resolved"
    /\ current' = [n \in Name |-> None]
    /\ UNCHANGED <<ask, given>>

\* The service is gone, and what it was about to give with it.
Vanish ==
    /\ current' = [n \in Name |-> None]
    /\ ask' = [f \in Caller |-> IF ask[f].st = "idle" THEN Idle
                                ELSE [ask[f] EXCEPT !.st = "asked", !.val = None]]
    /\ UNCHANGED given

Next ==
    \/ Renew \/ Retire \/ Vanish
    \/ \E f \in Caller : \/ \E n \in Name : Ask(f, n)
                        \/ Resolve(f) \/ Seal(f) \/ Give(f) \/ Refuse(f)

Spec ==
    /\ Init /\ [][Next]_vars
    /\ \A f \in Caller : WF_vars(Give(f) \/ Refuse(f))
=============================================================================
