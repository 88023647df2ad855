---------------------------- MODULE FieldReport ----------------------------
(***************************************************************************)
(* What becomes of one field that is present in the input, from the        *)
(* constraint New compiles to the sentences a caller reads: the input is   *)
(* converted, the field is decided by its fast descriptor or by CUE, the   *)
(* findings become errors, and a catalog, validated at startup or not,     *)
(* words them.                                                             *)
(***************************************************************************)
EXTENDS FastPath, InputConversion, MessageCatalog

CONSTANT Scenes  \* the fields, values and catalogs considered

\* LocalizedMessagesWith: no catalog means English.
Reader(s) == IF s.root = "nil" THEN "en" ELSE s.root

\* The scalars of a value: itself, or its elements.
Scalars(v) == IF IsListValue(v) THEN {v.items[i] : i \in DOMAIN v.items} ELSE {v}

\* Numbers come as JSON texts where the value comes in JSON, and only there.
Written(way, v) ==
  \A x \in Scalars(v) :
    x.go \notin IF way = "json" THEN {"int", "uint", "float"} \cup NonFinite ELSE {"intText", "decText", "hugeText"}

ASSUME SceneAssumption ==
  \A s \in Scenes :
    /\ s.constraint \in Constraint /\ s.value \in Value /\ Written(s.way, s.value)
    /\ toMapAny(s.way, s.value).ok => toMapAny(s.way, s.value).value \in Value
    /\ Named(s.cats, Reader(s))

ASSUME CatalogAssumption == \A cats \in {s.cats : s \in Scenes} : LabelsFinal(cats) /\ Telling(cats)

VARIABLES
  scene,   \* [constraint, value, way, cats, root]: never changes
  stage,   \* where the field is on its way
  fast,    \* cueField.fast
  checked, \* what Catalog.Validate said: "no", "ok", "faulty"
  data,    \* the value in the input map
  served,  \* who decided the field: "", "convert", "fast", "cue"
  valid,   \* Result.Valid
  errors,  \* Result.Errors
  texts    \* LocalizedMessages

vars == <<scene, stage, fast, checked, data, served, valid, errors, texts>>

FieldPath == [name |-> "f", index |-> 0]
indexedPath(parent, index) == [parent EXCEPT !.index = index]

cueKindToString(kinds) ==
  IF kinds = {"int", "float"} THEN "number"
  ELSE IF \E k \in kinds : kinds = {k} THEN CHOOSE k \in kinds : TRUE
  ELSE "unknown"

FieldType == cueKindToString(Kinds(scene.constraint))

ErrorAt(code, path, fieldType) ==
  [code |-> code, path |-> path, fieldType |-> fieldType,
   bound |-> << >>, options |-> << >>, suggestion |-> << >>]

\* The candidates forgotten.
SlipAttachStructuredFields(e, d, bound) == IF e.code = "E1R01" THEN [e EXCEPT !.bound = bound] ELSE e

\* What the descriptor and the diagnostic add to an error.
attachStructuredFields(e, d, bound) ==
  CASE e.code = "E1E01" /\ e.options = << >> -> [e EXCEPT !.options = enumOptionsOf(d)]
    [] e.code = "E1R01" -> [e EXCEPT !.bound = bound]
    [] OTHER -> e

FastError(verdict, path, d) ==
  attachStructuredFields([ErrorAt(verdict.code, path, FieldType) EXCEPT !.suggestion = verdict.suggestion],
                         d, verdict.bound)

classifyByFormat(diag) ==
  CASE diag.format = "mismatch" -> "E1T01"
    [] diag.format \in {"conflict", "summary"} -> "E1E01"
    [] diag.format = "bound" -> "E1R01"
    [] diag.format = "pattern" -> "E1F01"
    [] OTHER -> "E1X01"

recordFieldError(diag) ==
  attachStructuredFields(ErrorAt(classifyByFormat(diag), FieldPath, FieldType), fast, diag.bound)

----------------------------------------------------------------------------
(* The errors of a list CUE rejected.                                      *)

\* A diagnostic beside the error made of it; an unknown one is an element's.
Collected(found) ==
  LET code == classifyByFormat(found.diag)
  IN  [diag |-> found.diag,
       error |-> ErrorAt(IF code = "E1X01" THEN "E1A01" ELSE code, indexedPath(FieldPath, found.index), "")]

\* What the merged error may suggest, when the input is a string.
suggestBranch(input, candidates) ==
  IF IsString(input) THEN suggestClosest(input.s, [i \in DOMAIN candidates |-> candidates[i].str])
  ELSE << >>

\* Any several errors of one path taken for a disjunction's.
SlipMergeable(group) == Len(group) >= 2

\* One path's diagnostics have the shape of one failed disjunction.
Mergeable(group) ==
  LET formats == {group[i].diag.format : i \in DOMAIN group}
  IN  /\ Len(group) >= 2
      /\ formats \subseteq {"summary", "mismatch", "conflict"}
      /\ "summary" \in formats /\ formats # {"summary"}

Finish(c) == attachStructuredFields(c.error, NoDescriptor, c.diag.bound)

mergeDisjunctionGroup(group, input) ==
  LET candidates == FlattenSeq([i \in DOMAIN group |-> group[i].diag.cand])
      e == group[1].error
  IN  [e EXCEPT !.code = "E1E01", !.options = candidates, !.suggestion = suggestBranch(input, candidates)]

\* The groups of one path, by the first error of each.
collapseDisjunctionErrors(collected, v) ==
  LET same(i) == {j \in DOMAIN collected : collected[j].error.path = collected[i].error.path}
      firsts == {i \in DOMAIN collected : \A j \in same(i) : i <= j}
      group(i) == Selection(collected, same(i))
      collapsed(i) ==
        IF Mergeable(group(i)) THEN <<mergeDisjunctionGroup(group(i), v.items[collected[i].error.path.index])>>
        ELSE [k \in DOMAIN group(i) |-> Finish(group(i)[k])]
  IN  FlattenSeq([n \in DOMAIN Ascending(firsts) |-> collapsed(Ascending(firsts)[n])])

listErrors(c, v) ==
  LET found == ListDiagnostics(c, v)
  IN  collapseDisjunctionErrors([i \in DOMAIN found |-> Collected(found[i])], v)

----------------------------------------------------------------------------

Init ==
  /\ scene \in Scenes
  /\ stage = "start" /\ fast = NoDescriptor /\ checked = "no"
  /\ data = scene.value /\ served = "" /\ valid = TRUE /\ errors = << >> /\ texts = << >>

Stage(from, to) == stage = from /\ stage' = to

\* compileCUEFields, once, in New.
Compile ==
  /\ Stage("start", "compiled")
  /\ fast' = extractFastConstraint(scene.constraint)
  /\ UNCHANGED <<scene, checked, data, served, valid, errors, texts>>

\* Nothing calls Validate automatically: the program may, at startup.
CheckCatalog ==
  LET verdict == ValidateCatalog(scene.cats, scene.root)
  IN  /\ scene.root # "nil"
      /\ Stage("compiled", IF verdict = "panics" THEN "panicked" ELSE "ready")
      /\ checked' = verdict
      /\ UNCHANGED <<scene, fast, data, served, valid, errors, texts>>

LeaveUnchecked ==
  /\ Stage("compiled", "ready")
  /\ UNCHANGED <<scene, fast, checked, data, served, valid, errors, texts>>

Convert ==
  LET m == toMapAny(scene.way, scene.value)
  IN  /\ Stage("ready", "converted") /\ m.ok /\ data' = m.value
      /\ UNCHANGED <<scene, fast, checked, served, valid, errors, texts>>

\* configErrors: an error that is about no field.
RejectInput ==
  /\ Stage("ready", "validated") /\ ~toMapAny(scene.way, scene.value).ok
  /\ served' = "convert" /\ valid' = FALSE
  /\ errors' = <<ErrorAt("E0C01", NoPath, "")>>
  /\ UNCHANGED <<scene, fast, checked, data, texts>>

\* The errors a field leaves, and with them the verdict.
Report(who, found) ==
  /\ served' = who /\ errors' = found /\ valid' = (found = << >>)
  /\ UNCHANGED <<scene, fast, checked, data, texts>>

CheckFast ==
  LET verdict == validateFast(fast, data)
  IN  /\ Stage("converted", "validated") /\ fast.kind \notin {"none", "list"} /\ verdict.handled
      /\ Report("fast", IF verdict.valid THEN << >> ELSE <<FastError(verdict, FieldPath, fast)>>)

CheckFastList ==
  LET failures == RejectedElements(fast, data)
      failure(i) == FastError(validateFast(fast.elem[1], data.items[i]), indexedPath(FieldPath, i), fast.elem[1])
  IN  /\ Stage("converted", "validated") /\ fast.kind = "list" /\ ElementsHandled(fast, data)
      /\ Report("fast", [k \in DOMAIN failures |-> failure(failures[k])])

\* No descriptor, or a value the descriptor could not decide.
Undecided ==
  IF fast.kind = "none" THEN TRUE
  ELSE IF fast.kind = "list" THEN ~ElementsHandled(fast, data)
  ELSE ~validateFast(fast, data).handled

IsListField == Kinds(scene.constraint) = {"list"}

ValidateScalarField ==
  LET found == Diagnostics(scene.constraint, data)
  IN  /\ Stage("converted", "validated") /\ Undecided /\ ~IsListField
      /\ Report("cue", [i \in DOMAIN found |-> recordFieldError(found[i])])

RejectNonList ==
  /\ Stage("converted", "validated") /\ Undecided /\ IsListField /\ CUEKind(data) # "list"
  /\ Report("cue", <<ErrorAt("E1T01", FieldPath, FieldType)>>)

ValidateListField ==
  /\ Stage("converted", "validated") /\ Undecided /\ IsListField /\ CUEKind(data) = "list"
  /\ Report("cue", IF CUEAccepts(scene.constraint, data) THEN << >> ELSE listErrors(scene.constraint, data))

\* LocalizedMessagesWith, an error at a time.
LocalizeNext ==
  LET said == Localize(scene.cats, Reader(scene), errors[Len(texts) + 1])
  IN  /\ stage = "validated" /\ Len(texts) < Len(errors)
      /\ IF said.panics THEN stage' = "panicked" /\ texts' = texts
         ELSE stage' = stage /\ texts' = Append(texts, said.text)
      /\ UNCHANGED <<scene, fast, checked, data, served, valid, errors>>

Finished ==
  /\ stage = "panicked" \/ (stage = "validated" /\ Len(texts) = Len(errors))
  /\ UNCHANGED vars

Next ==
  \/ Compile \/ CheckCatalog \/ LeaveUnchecked \/ Convert \/ RejectInput
  \/ CheckFast \/ CheckFastList \/ ValidateScalarField \/ RejectNonList \/ ValidateListField
  \/ LocalizeNext \/ Finished

Spec == Init /\ [][Next]_vars
=============================================================================
