----------------------------- MODULE SchemaWalk -----------------------------
(***************************************************************************)
(* Construction of a Validator: buildValidator's three walks over the CUE  *)
(* value of a schema.  checkDefinitionAttrs and extractRules reject or     *)
(* extract every @blob / @meta attribute, extractRules with the help of    *)
(* findAttrInListElements and findAttrInElementSchema, the rules are       *)
(* sorted, and compileCUEFields builds the field descriptors.              *)
(*                                                                         *)
(* A schema is a graph of CUE values: definitions that refer to each other *)
(* through lists make it cyclic, and only the depth limit ends the walk.   *)
(* The recursive calls are a stack of frames.  Definitions marked "Slip"   *)
(* are mistakes a property has to notice.                                  *)
(***************************************************************************)
EXTENDS Integers, Sequences, SequencesExt, Listing

CONSTANTS
  Priority,  \* the @meta(priority=N) values in use, and the default 0
  Sources,   \* the schemas New is given
  MaxDepth,  \* WithMaxSchemaDepth
  NoAttr     \* Attribute(...).Err() # nil

\* A field's path is the names that lead to it, the root's is empty.
FieldPath == Seq(STRING) \ {<< >>}

INSTANCE SchemaTypes WITH Path <- FieldPath, Root <- << >>

\* One argument of @meta; "whole" when CUE hands key=value over as the key, as
\* it does for a quoted argument.  n is the number a good priority spells.
Arg == [key: {"priority", "optional", "conditional", "skip_empty", "fail_fast",
              "omit_if_skip", "omit_empty", "required_if", "skip_if", "unknown"},
        whole: BOOLEAN, value: {"empty", "good", "bad"}, n: Priority]

\* The parts of a struct and of a list.
RoleIn(kind) ==
  IF kind = "struct" THEN {"field", "optional", "definition"}
  ELSE IF kind = "list" THEN {"element", "ellipsis"} ELSE {}

Role == RoleIn("struct") \cup RoleIn("list")

\* What the walks ask of a CUE value.  blob lists its expressions as they
\* compile; kids are the values of its fields or the element schemas of a list.
CUEValue(Node) ==
  [kind: {"struct", "list", "scalar"}, nullable: BOOLEAN,
   blob: Seq({"blank", "good", "bad"}) \cup {NoAttr}, meta: Seq(Arg) \cup {NoAttr},
   checkable: BOOLEAN,
   kids: Seq([name: STRING, to: Node, role: Role])]

ASSUME PriorityAssumption == Priority \subseteq Int /\ 0 \in Priority

ASSUME DepthAssumption == MaxDepth \in Nat \ {0}

ASSUME SourceAssumption ==
  \A s \in Sources :
    /\ s.root \in DOMAIN s.value
    /\ \A x \in DOMAIN s.value : s.value[x] \in CUEValue(DOMAIN s.value)
    /\ \A x \in DOMAIN s.value : LET v == s.value[x] IN
         /\ \A j, k \in DOMAIN v.kids : v.kids[j].name = v.kids[k].name => j = k
         /\ \A k \in DOMAIN v.kids : v.kids[k].role \in RoleIn(v.kind)

VARIABLES
  source,
  pc,      \* the walk under way, "done" or "failed"
  stack,   \* the frames of its recursive calls, the innermost last
  rules,   \* Validator.blobRules
  fields   \* Validator.cueFields, flattened in preorder

vars == <<source, pc, stack, rules, fields>>

Val(x) == source.value[x]

\* IncompleteKind() is exactly StructKind / ListKind: null adds a bit to it.
IsStruct(v) == v.kind = "struct" /\ ~v.nullable
IsList(v) == v.kind = "list" /\ ~v.nullable

hasSchemixAttr(v) == v.blob # NoAttr \/ v.meta # NoAttr

Frame(fn, x, path, depth) ==
  [fn |-> fn, node |-> x, path |-> path, depth |-> depth, next |-> 0]

Init ==
  /\ source \in Sources
  /\ pc = "definitions"
  /\ stack = <<Frame("checkDefinitionAttrs", source.root, << >>, 0)>>
  /\ rules = << >> /\ fields = << >>

----------------------------------------------------------------------------
(* @meta.                                                                  *)

Args(v) == IF v.meta = NoAttr THEN << >> ELSE v.meta

\* Arguments whose key is key when CUE split them.
Given(v, key) == {i \in DOMAIN Args(v) : Args(v)[i].key = key /\ ~Args(v)[i].whole}

Priorities(v) == {i \in Given(v, "priority") : Args(v)[i].value # "empty"}

\* parsefieldMeta returns an error.
MetaFails(v) ==
  \E i \in DOMAIN Args(v) : LET a == Args(v)[i] IN
    \/ a.key = "unknown"
    \/ a.key = "priority" /\ ~a.whole /\ a.value = "bad"
    \/ a.key \in {"required_if", "skip_if"} /\ a.value \in {"empty", "bad"}

HasExpression(v, key) == \E i \in DOMAIN Args(v) : Args(v)[i].key = key

SlipLastPriority(v) ==
  IF Given(v, "priority") = {} THEN 0 ELSE Args(v)[Max(Given(v, "priority"))].n

LastPriority(v) ==
  IF Priorities(v) = {} THEN 0 ELSE Args(v)[Max(Priorities(v))].n

\* What parsefieldMeta returns otherwise: a later argument overrides an earlier one.
parsefieldMeta(v, isOptional) ==
  [priority |-> LastPriority(v),
   failFast |-> Given(v, "fail_fast") # {},
   skipIf |-> HasExpression(v, "skip_if"),
   skipEmpty |-> Given(v, "skip_empty") # {},
   omitEmpty |-> Given(v, "omit_empty") # {},
   omitIfSkip |-> Given(v, "omit_if_skip") # {},
   optional |-> isOptional \/ Given(v, "optional") \cup Given(v, "conditional") # {},
   requiredIf |-> HasExpression(v, "required_if")]

\* The first argument that converts.
extractFieldPriority(v) ==
  LET good == {i \in Priorities(v) : Args(v)[i].value = "good"}
  IN  IF good = {} THEN 0 ELSE Args(v)[Min(good)].n

Expressions(v) == {k \in DOMAIN v.blob : v.blob[k] # "blank"}

\* The rules of one field: one per non-blank expression, or one node without
\* an expression when there is no @blob but a control that needs one.
RulesOf(v, path, isOptional) ==
  LET meta == parsefieldMeta(v, isOptional)
      controls == meta.requiredIf \/ meta.skipIf \/ meta.skipEmpty
                    \/ meta.omitEmpty \/ meta.omitIfSkip
  IN  IF v.blob # NoAttr
      THEN [k \in 1 .. Cardinality(Expressions(v)) |-> [path |-> path, exec |-> TRUE, meta |-> meta]]
      ELSE IF controls THEN <<[path |-> path, exec |-> FALSE, meta |-> meta]>> ELSE << >>

BlobFails(v) == v.blob # NoAttr /\ \E k \in DOMAIN v.blob : v.blob[k] = "bad"

----------------------------------------------------------------------------
(* One step of the innermost call.                                         *)

Top == stack[Len(stack)]
Here == Val(Top.node)

\* The children of the given roles in their order.
KidsWith(v, roles) ==
  LET order == Ascending({i \in DOMAIN v.kids : v.kids[i].role \in roles})
  IN  [n \in DOMAIN order |-> v.kids[order[n]]]

SlipIterated(fn, v) ==
  IF fn = "checkDefinitionAttrs" THEN KidsWith(v, {"field", "optional", "definition"})
  ELSE IF fn = "findAttrInListElements"
       THEN IF KidsWith(v, {"ellipsis"}) # << >> THEN KidsWith(v, {"ellipsis"})
            ELSE KidsWith(v, {"element"})
       ELSE IF fn = "compileCUEFields" THEN KidsWith(v, {"field"})
            ELSE KidsWith(v, {"field", "optional"})

\* Fields(...) skips definitions unless asked for them; AnyIndex answers the
\* element schema of an open list, so a closed prefix is not looked at then.
Iterated(fn, v) ==
  IF fn = "checkDefinitionAttrs" THEN KidsWith(v, {"field", "optional", "definition"})
  ELSE IF fn = "findAttrInListElements"
       THEN IF KidsWith(v, {"ellipsis"}) # << >> THEN KidsWith(v, {"ellipsis"})
            ELSE KidsWith(v, {"element"})
       ELSE KidsWith(v, {"field", "optional"})

Iteration == Iterated(Top.fn, Here)
Kid == Iteration[Top.next]
KidValue == Val(Kid.to)
KidPath == Append(Top.path, Kid.name)

InWalk == pc \in {"definitions", "rules", "fields"} /\ stack # << >>
Calling == InWalk /\ Top.next = 0
Iterating == InWalk /\ Top.next \in 1 .. Len(Iteration)

SlipStays == [stack EXCEPT ![Len(stack)].next = IF @ = 0 THEN 1 ELSE @]

SlipSkips == [stack EXCEPT ![Len(stack)].next = @ + 2]

Advanced == [stack EXCEPT ![Len(stack)].next = @ + 1]

Return == stack' = Front(stack) /\ UNCHANGED <<source, pc, rules, fields>>

\* New returns an error.
Reject == pc' = "failed" /\ UNCHANGED <<source, stack, rules, fields>>

Descend(fn) == stack' = Append(Advanced, Frame(fn, Kid.to, KidPath, Top.depth + 1))

StepOver == stack' = Advanced

SlipTruncates(f, v) ==
  IF f.fn # "compileCUEFields" /\ f.depth > MaxDepth THEN "return"
  ELSE IF f.fn = "findAttrInElementSchema" /\ hasSchemixAttr(v) THEN "reject"
  ELSE IF f.fn = "findAttrInListElements" \/ IsStruct(v) THEN "open" ELSE "return"

SlipRefusesList(f, v) ==
  IF f.fn # "compileCUEFields" /\ f.depth > MaxDepth THEN "reject"
  ELSE IF f.fn \in {"findAttrInElementSchema", "findAttrInListElements"} /\ hasSchemixAttr(v)
       THEN "reject"
  ELSE IF f.fn = "findAttrInListElements" \/ IsStruct(v) THEN "open" ELSE "return"

\* What a call does before it iterates.  compileCUEFields has no limit: by then
\* extractRules has made the same descent.
Outcome(f, v) ==
  IF f.fn # "compileCUEFields" /\ f.depth > MaxDepth THEN "reject"
  ELSE IF f.fn = "findAttrInElementSchema" /\ hasSchemixAttr(v) THEN "reject"
  ELSE IF f.fn = "findAttrInListElements" \/ IsStruct(v) THEN "open" ELSE "return"

RejectCall ==
  /\ Calling /\ Outcome(Top, Here) = "reject"
  /\ Reject

ReturnAtOnce ==
  /\ Calling /\ Outcome(Top, Here) = "return"
  /\ Return

OpenFields ==
  /\ Calling /\ Outcome(Top, Here) = "open"
  /\ StepOver
  /\ UNCHANGED <<source, pc, rules, fields>>

ReturnAtEnd ==
  /\ InWalk /\ Top.next = Len(Iteration) + 1
  /\ Return

CheckDefinition ==
  /\ Iterating /\ Top.fn = "checkDefinitionAttrs"
  /\ IF Kid.role = "definition" /\ hasSchemixAttr(KidValue) THEN Reject
     ELSE /\ IF IsStruct(KidValue) THEN Descend("checkDefinitionAttrs") ELSE StepOver
          /\ UNCHANGED <<source, pc, rules, fields>>

RejectField ==
  /\ Iterating /\ Top.fn = "extractRules"
  /\ MetaFails(KidValue) \/ BlobFails(KidValue)
  /\ Reject

ExtractField ==
  /\ Iterating /\ Top.fn = "extractRules"
  /\ ~MetaFails(KidValue) /\ ~BlobFails(KidValue)
  /\ rules' = rules \o RulesOf(KidValue, KidPath, Kid.role = "optional")
  /\ IF IsStruct(KidValue) THEN Descend("extractRules")
     ELSE IF IsList(KidValue) THEN Descend("findAttrInListElements") ELSE StepOver
  /\ UNCHANGED <<source, pc, fields>>

SearchElement ==
  /\ Iterating /\ Top.fn = "findAttrInListElements"
  /\ Descend("findAttrInElementSchema")
  /\ UNCHANGED <<source, pc, rules, fields>>

SlipSearches(v) == IF IsStruct(v) THEN "findAttrInElementSchema" ELSE "none"

Searches(v) ==
  IF IsStruct(v) THEN "findAttrInElementSchema"
  ELSE IF IsList(v) THEN "findAttrInListElements" ELSE "none"

SearchElementField ==
  /\ Iterating /\ Top.fn = "findAttrInElementSchema"
  /\ IF hasSchemixAttr(KidValue) THEN Reject
     ELSE /\ IF Searches(KidValue) = "none" THEN StepOver ELSE Descend(Searches(KidValue))
          /\ UNCHANGED <<source, pc, rules, fields>>

FieldOf(v, path, isOptional) ==
  [path |-> path, parent |-> Front(path),
   kind |-> IF IsStruct(v) THEN "struct" ELSE IF IsList(v) THEN "list" ELSE "scalar",
   optional |-> isOptional \/ Given(v, "optional") \cup Given(v, "conditional") # {},
   nullable |-> v.nullable,
   hasBlob |-> v.blob # NoAttr,
   fast |-> v.blob = NoAttr /\ ~IsStruct(v) /\ v.checkable,
   priority |-> extractFieldPriority(v)]

CompileField ==
  /\ Iterating /\ Top.fn = "compileCUEFields"
  /\ fields' = Append(fields, FieldOf(KidValue, KidPath, Kid.role = "optional"))
  /\ IF IsStruct(KidValue) THEN Descend("compileCUEFields") ELSE StepOver
  /\ UNCHANGED <<source, pc, rules>>

----------------------------------------------------------------------------
(* buildValidator.                                                         *)

StartWalk(phase, next, fn) ==
  /\ pc = phase /\ stack = << >>
  /\ pc' = next
  /\ stack' = <<Frame(fn, source.root, << >>, 0)>>

ExtractRules ==
  /\ StartWalk("definitions", "rules", "extractRules")
  /\ UNCHANGED <<source, rules, fields>>

\* Rules of one priority in reverse.
SlipSortBlobRules ==
  LET back(k) == Len(rules) + 1 - k
      order == StableOrder([k \in DOMAIN rules |-> rules[back(k)].meta.priority])
  IN  [k \in DOMAIN rules |-> rules[back(order[k])]]

\* Stable: rules of one priority keep the order they were extracted in.
sortBlobRules ==
  LET order == StableOrder([k \in DOMAIN rules |-> rules[k].meta.priority])
  IN  [k \in DOMAIN rules |-> rules[order[k]]]

SortAndCompile ==
  /\ StartWalk("rules", "fields", "compileCUEFields")
  /\ rules' = sortBlobRules
  /\ UNCHANGED <<source, fields>>

Finish ==
  /\ pc = "fields" /\ stack = << >>
  /\ pc' = "done"
  /\ UNCHANGED <<source, stack, rules, fields>>

Ended == pc \in {"done", "failed"} /\ UNCHANGED vars

Step ==
  \/ RejectCall \/ ReturnAtOnce \/ OpenFields \/ ReturnAtEnd
  \/ CheckDefinition \/ RejectField \/ ExtractField
  \/ SearchElement \/ SearchElementField \/ CompileField
  \/ ExtractRules \/ SortAndCompile \/ Finish

Next == Step \/ Ended

Spec == Init /\ [][Next]_vars

\* New runs alone and never waits.
FairSpec == Spec /\ WF_vars(Step)

----------------------------------------------------------------------------
Walks == {"checkDefinitionAttrs", "extractRules", "findAttrInListElements",
          "findAttrInElementSchema", "compileCUEFields"}

TypeOK ==
  /\ pc \in {"definitions", "rules", "fields", "done", "failed"}
  /\ \A k \in DOMAIN stack :
       /\ stack[k].fn \in Walks /\ stack[k].node \in DOMAIN source.value
       /\ stack[k].next \in 0 .. Len(Iterated(stack[k].fn, Val(stack[k].node))) + 1
  /\ rules \in Seq(Rule) /\ fields \in Seq(Field)

RootPlace ==
  [path |-> << >>, node |-> source.root, role |-> "field", depth |-> 0,
   inElement |-> FALSE, inDefinition |-> FALSE]

\* The place of child k of the value at place p.
Under(p, k) ==
  [path |-> Append(p.path, k.name), node |-> k.to, role |-> k.role, depth |-> p.depth + 1,
   inElement |-> p.inElement \/ k.role \in {"element", "ellipsis"},
   inDefinition |-> p.inDefinition \/ k.role = "definition"]

PlacesBelow(P) == UNION { {Under(p, k) : k \in ToSet(Val(p.node).kids)} : p \in P }

\* The places of a schema, one level past the limit included.
Places ==
  LET level[d \in 0 .. MaxDepth + 1] ==
        IF d = 0 THEN {RootPlace} ELSE PlacesBelow(level[d - 1])
  IN  UNION {level[d] : d \in 0 .. MaxDepth + 1}

\* The rules the attributes of a value ask for.
Owed(v) ==
  LET exprs == IF v.blob = NoAttr THEN {} ELSE Expressions(v)
      controlled == \/ HasExpression(v, "required_if") \/ HasExpression(v, "skip_if")
                    \/ \E key \in {"skip_empty", "omit_empty", "omit_if_skip"} : Given(v, key) # {}
  IN  IF exprs # {} THEN Cardinality(exprs) ELSE IF controlled THEN 1 ELSE 0

\* validator.go:144-145: a schema never validates less than it appears to.  Each
\* attribute of an accepted schema is on a field with a descriptor that has all
\* the rules it asks for; attributes inside a definition count where it is used.
LosesNothing ==
  \A p \in {q \in Places : q.depth > 0 /\ hasSchemixAttr(Val(q.node))} :
    /\ p.role # "definition"
    /\ ~p.inDefinition =>
         /\ \E k \in DOMAIN fields : fields[k].path = p.path
         /\ Cardinality({k \in DOMAIN rules : rules[k].path = p.path}) = Owed(Val(p.node))

\* The shapes the three walks understand: a struct at the root, no null in a
\* struct or list, no list directly in a list, no element before an ellipsis, no
\* definition inside an element schema, and no @blob without an expression.
Understood(p) ==
  LET v == Val(p.node) IN
    /\ v.nullable => v.kind = "scalar"
    /\ p.inElement => p.role # "definition"
    /\ p.role \in {"element", "ellipsis"} => v.kind # "list"
    /\ ~ \E j, k \in DOMAIN v.kids : v.kids[j].role = "element" /\ v.kids[k].role = "ellipsis"
    /\ v.blob # NoAttr => \E k \in DOMAIN v.blob : v.blob[k] # "blank"

Analysable == IsStruct(Val(source.root)) /\ \A p \in Places : Understood(p)

AnalysableLosesNothing == pc = "done" /\ Analysable => LosesNothing

\* options.go:260-263: exceeding the depth limit makes New return an error
\* rather than skip the deeper levels.  Nothing of an accepted schema that a
\* walk would have to enter lies past the limit, cyclic schemas included.
NothingUnexamined ==
  pc = "done" /\ Analysable =>
    \A p \in Places : p.depth > MaxDepth /\ ~p.inDefinition =>
      Val(p.node).kind = "scalar" /\ p.role \in {"field", "optional"}

\* What ProcessEngine assumes of a schema: the three walks agree on which
\* fields there are, although they recurse separately.
CompilesToSchema ==
  pc = "done" => CompiledSchema([fields |-> fields, rules |-> rules])

\* The two readings of @meta(priority=N) agree on every field that gives it at
\* most once; narrowing compares one with the other.
PriorityReadAlike ==
  pc = "done" =>
    \A p \in Places : Cardinality(Priorities(Val(p.node))) <= 1 =>
      \A j \in DOMAIN rules, k \in DOMAIN fields :
        rules[j].path = p.path /\ fields[k].path = p.path =>
          rules[j].meta.priority = fields[k].priority

\* Rules of one priority run in the order their fields are declared.
DeclarationOrderKept ==
  pc = "done" =>
    \A j, k \in DOMAIN rules : j < k /\ rules[j].meta.priority = rules[k].meta.priority =>
      \A i, l \in DOMAIN fields :
        fields[i].path = rules[j].path /\ fields[l].path = rules[k].path => i <= l

\* A schema is refused for a reason: an argument or expression that does not
\* parse, an attribute where none is extracted, or too deep a nesting.
RefusedForCause ==
  pc = "failed" =>
    \E p \in Places : LET v == Val(p.node) IN
      \/ MetaFails(v) \/ BlobFails(v)
      \/ hasSchemixAttr(v) /\ (p.role = "definition" \/ p.inElement)
      \/ p.depth > MaxDepth

\* New returns, also for definitions that refer to each other.
Termination == <>(pc \in {"done", "failed"})

\* validator.go:144-145 as it stands, of every schema.
EveryAttributeCounts == pc = "done" => LosesNothing
=============================================================================
