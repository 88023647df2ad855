---------------------------- MODULE PriorityGate ----------------------------
(***************************************************************************)
(* What FailPriority promises about the rule layer, with nothing of how    *)
(* the loop does it: groups are entered in ascending order, and a group in *)
(* which a rule failed is the last one entered.                            *)
(***************************************************************************)
EXTENDS Integers

CONSTANT Priority   \* group numbers

VARIABLES
  group,     \* the group whose rules are being run, -1 before the first
  failedIn   \* the groups in which some rule failed

gateVars == <<group, failedIn>>

Init == group = -1 /\ failedIn = {}

Enter(p) ==
  /\ failedIn = {}
  /\ p > group
  /\ group' = p
  /\ UNCHANGED failedIn

\* A rule of the current group fails; the group's other rules still run.
Fail ==
  /\ group \in Priority
  /\ failedIn' = failedIn \cup {group}
  /\ UNCHANGED group

Next == Fail \/ \E p \in Priority : Enter(p)

Spec == Init /\ [][Next]_gateVars
=============================================================================
