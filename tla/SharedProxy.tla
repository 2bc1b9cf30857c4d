---------------------------- MODULE SharedProxy ----------------------------
(***************************************************************************)
(* What the proxy lifecycle promises the cages of one project, without a   *)
(* lock file, processes or signals: a service at an address, and users     *)
(* that were told the address when they joined and can never be told       *)
(* another one (their sandbox profile is frozen, lifecycle.go:197-201).    *)
(* The service appears and disappears only while nobody uses it, and does  *)
(* not stay up for good when nobody comes back.                            *)
(***************************************************************************)
CONSTANTS User, Address, Nowhere

VARIABLES
    endpoint,   \* where the service is, or Nowhere
    told        \* the address each user was told, Nowhere if it is not a user

vars == <<endpoint, told>>

Unused == \A u \in User : told[u] = Nowhere

Init == endpoint = Nowhere /\ told = [u \in User |-> Nowhere]

Start(a) ==
    /\ endpoint = Nowhere /\ Unused
    /\ endpoint' = a
    /\ UNCHANGED told

Join(u) ==
    /\ endpoint # Nowhere
    /\ told[u] = Nowhere
    /\ told' = [told EXCEPT ![u] = endpoint]
    /\ UNCHANGED endpoint

Leave(u) ==
    /\ told[u] # Nowhere
    /\ told' = [told EXCEPT ![u] = Nowhere]
    /\ UNCHANGED endpoint

Stop ==
    /\ Unused
    /\ endpoint # Nowhere
    /\ endpoint' = Nowhere
    /\ UNCHANGED told

Next ==
    \/ \E a \in Address : Start(a)
    \/ \E u \in User : Join(u) \/ Leave(u)
    \/ Stop

Spec == Init /\ [][Next]_vars /\ WF_vars(Stop)
=============================================================================
