------------------------ MODULE ExclusiveRegistration ------------------------
(***************************************************************************)
(* What the Register*To family promises about Bloblang environments: an    *)
(* environment has one owner for good, and each plugin name in it is       *)
(* served once, by that owner, never replaced.                             *)
(***************************************************************************)
CONSTANTS Registry, Env, Slot, Nobody

VARIABLES
  owner,   \* the registry that claimed each environment, or Nobody
  served   \* what each plugin slot of each environment is bound to

exclusiveVars == <<owner, served>>

Init ==
  /\ owner = [e \in Env |-> Nobody]
  /\ served = [e \in Env |-> [s \in Slot |-> Nobody]]

Acquire(e, r) ==
  /\ owner[e] = Nobody
  /\ owner' = [owner EXCEPT ![e] = r]
  /\ UNCHANGED served

Serve(e, s) ==
  /\ owner[e] # Nobody
  /\ served[e][s] = Nobody
  /\ served' = [served EXCEPT ![e][s] = owner[e]]
  /\ UNCHANGED owner

Next ==
  \E e \in Env :
    \/ \E r \in Registry : Acquire(e, r)
    \/ \E s \in Slot : Serve(e, s)

Spec == Init /\ [][Next]_exclusiveVars
=============================================================================
