----------------------------- MODULE MCRegistry -----------------------------
(***************************************************************************)
(* Instances of SchemaRegistry: two keys, one compiling source, and the    *)
(* callers' option slice already holding a WithName for the first key.     *)
(***************************************************************************)
EXTENDS SchemaRegistry

CONSTANTS c1, c2, c3, s1

TwoCallers == {c1, c2}
ThreeCallers == {c1, c2, c3}
MCName == {1, 2}
OneName == {1}
AllOps == {"Register", "Put", "Get", "Has", "Unregister", "List", "Len"}
ReadAndWrite == {"Register", "List"}
MCSchema == {s1}
MCGivenOpts == <<1>>

ThreeInterchangeable == Permutations(ThreeCallers)
=============================================================================
