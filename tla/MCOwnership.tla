----------------------------- MODULE MCOwnership -----------------------------
(***************************************************************************)
(* Instances of EnvOwnership: two registries and three goroutines, so that *)
(* two registrations of one registry can meet a third of another.          *)
(***************************************************************************)
EXTENDS EnvOwnership

CONSTANTS r1, r2, e1, c1, c2, c3

MCRegistry == {r1, r2}
MCEnv == {e1}
MCCaller == {c1, c2, c3}
=============================================================================
