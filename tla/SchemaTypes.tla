---------------------------- MODULE SchemaTypes ----------------------------
(***************************************************************************)
(* The compiled form of a schema, shared by the walk that produces it      *)
(* (SchemaWalk) and the engine that runs it (ProcessEngine): the field     *)
(* descriptors and the rules of a Validator.                               *)
(***************************************************************************)
EXTENDS Integers, Sequences

CONSTANTS
  Path,      \* paths of fields a schema may declare
  Root,      \* the empty path: parent of top-level fields, path of E0C01
  Priority   \* the @meta(priority=N) values in use, and the default 0

\* A rule's flags; skipIf and requiredIf say that an expression is present.
Meta == [priority: Priority, failFast: BOOLEAN, skipIf: BOOLEAN,
         skipEmpty: BOOLEAN, omitEmpty: BOOLEAN, omitIfSkip: BOOLEAN,
         optional: BOOLEAN, requiredIf: BOOLEAN]

Rule == [path: Path, exec: BOOLEAN, meta: Meta]

Field == [path: Path, parent: Path \cup {Root}, kind: {"scalar", "list", "struct"},
          optional: BOOLEAN, nullable: BOOLEAN, hasBlob: BOOLEAN,
          fast: BOOLEAN, priority: Priority]

\* What sortBlobRules establishes and the loop's two breaks rely on.
SortedByPriority(rules) ==
  \A j, k \in DOMAIN rules : j < k => rules[j].meta.priority <= rules[k].meta.priority

\* compileCUEFields and extractRules walk the same value: distinct paths, in
\* preorder, a Go descriptor on no struct, a rule only where there is a field,
\* one @meta per path.
CompiledSchema(s) ==
  /\ s.fields \in Seq(Field) /\ s.rules \in Seq(Rule)
  /\ \A j, k \in DOMAIN s.fields : s.fields[j].path = s.fields[k].path => j = k
  /\ \A k \in DOMAIN s.fields :
       s.fields[k].parent # Root =>
         \E j \in 1 .. k - 1 : /\ s.fields[j].path = s.fields[k].parent
                               /\ s.fields[j].kind = "struct"
  /\ \A k \in DOMAIN s.fields : s.fields[k].fast => s.fields[k].kind # "struct"
  /\ \A k \in DOMAIN s.rules : \E j \in DOMAIN s.fields : s.fields[j].path = s.rules[k].path
  /\ \A j, k \in DOMAIN s.rules :
       s.rules[j].path = s.rules[k].path => s.rules[j].meta = s.rules[k].meta
  /\ SortedByPriority(s.rules)
=============================================================================
