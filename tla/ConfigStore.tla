---------------------------- MODULE ConfigStore ----------------------------
(***************************************************************************)
(* What the editing commands promise about the config files they share     *)
(* (the project file and the global file): every command is one atomic     *)
(* update of the file as it is at that moment.  No edit ever undoes        *)
(* another one that it did not know of.                                    *)
(***************************************************************************)
CONSTANTS File, Rules

VARIABLE store

SInit == store \in [File -> SUBSET Rules]

Add(f, r) == store' = [store EXCEPT ![f] = @ \cup {r}]

Remove(f, r) == store' = [store EXCEPT ![f] = @ \ {r}]

SNext == \E f \in File, r \in Rules : Add(f, r) \/ Remove(f, r)

SSpec == SInit /\ [][SNext]_store
=============================================================================
