------------------------- MODULE ProcessProperties -------------------------
(***************************************************************************)
(* What a call of Process / Validate promises its caller and its           *)
(* observers, stated over ProcessEngine.  The properties under "Claims of  *)
(* the documentation" are sentences of the README or of doc comments that  *)
(* the code does not live up to; runs of their own refute them.            *)
(***************************************************************************)
EXTENDS ProcessEngine

Stages == {"start", "walk", "lowest", "filter", "blob", "loop", "skipIf", "presence",
           "exec", "blobEnd", "defer", "report", "done"}

AtStage == pc \in {"skipIf", "presence", "exec"}

TypeOK ==
  /\ call \in Calls
  /\ pc \in Stages
  /\ at \in 1 .. Len(Fields) + 1
  /\ valid \in BOOLEAN
  /\ errors \in Seq(ErrorRec) /\ found \in Seq(ErrorRec)
  /\ output \in [Path -> OutputTag] \cup {NoOutput}
  /\ lowest \in Priority \cup {MaxInt}
  /\ readIdx \in Nat \ {0} /\ writeIdx \in Nat
  /\ nCUEErrors \in Nat
  /\ rule \in 1 .. Len(Rules) + 1
  /\ AtStage => rule <= Len(Rules)
  /\ currentPriority \in Priority \cup {-1}
  /\ failedPaths \subseteq Path /\ priorityHasError \in BOOLEAN
  /\ fate \in [DOMAIN Rules -> Fate]
  /\ begun \subseteq Layer /\ ended \subseteq Layer
  /\ decisions \in Seq(Path)
  /\ validations \in Seq(BOOLEAN) /\ codes \in Seq(ErrorCode)

InLoop == pc \in {"loop", "skipIf", "presence", "exec"}

\* The errors the rule loop has appended.
RuleErrors == {k \in DOMAIN errors : errors[k].code \in RuleCode}
RuleErrorPaths == {errors[k].path : k \in RuleErrors}

\* The input never reached the engine (RejectInput).
Rejected == \E k \in DOMAIN errors : errors[k].code = "E0C01"

\* The rule was evaluated: an expression of it was queried and counted.
Evaluated(k) == fate[k] \in {"ran", "faulted"}

\* The two readings of @meta(priority=N), extractFieldPriority's for the field
\* and parsefieldMeta's for its rules, agree.
PrioritiesAgree ==
  \A k \in DOMAIN Rules : Rules[k].meta.priority = fieldPriorityByPath(Rules[k].path)

NonNegative == \A k \in DOMAIN Rules : Rules[k].meta.priority >= 0

----------------------------------------------------------------------------
(* The result.                                                             *)

\* Result.Valid and Result.Errors agree at every step of the engine, so a
\* caller may test either: neither truncation, nor the in-place narrowing, nor
\* any of the error sites of the rule loop lets them drift apart.
ErrorsIffInvalid == valid <=> errors = << >>

\* README.md:860: any invalid result has Output == nil, whichever of the
\* returns of processInternal it leaves by.
InvalidHasNoOutput == pc \in {"report", "done"} /\ ~valid => output = NoOutput

\* process.go:46, ruleAbort: FailFast yields exactly one error; when the CUE
\* layer failed it is the first one the walk met, even if a field reported more.
FailFastReportsFirst ==
  pc = "done" /\ call.mode = "fast" /\ ~valid =>
    /\ Len(errors) = 1
    /\ found # << >> => errors[1] = found[1]

\* process.go:124-129: the rule loop only appends, so the prefix of length
\* nCUEErrors is the CUE layer's errors and everything after it the rules'.
CUEPrefixStable ==
  InLoop \/ pc = "blobEnd" =>
    \A k \in DOMAIN errors : errors[k].code = "cue" <=> k <= nCUEErrors

\* The CUE errors of the lowest failing group, by their position in found.
LowestGroup ==
  {k \in DOMAIN found : \A j \in DOMAIN found :
     fieldPriorityByPath(found[k].path) <= fieldPriorityByPath(found[j].path)}

\* The in-place filter of keepLowestFailedPriority equals the filter out of
\* place: every CUE error of the lowest failing group, in the order found, and
\* no other.
NarrowedToLowestGroup ==
  (InLoop \/ pc = "blobEnd") /\ call.mode = "priority" =>
    /\ nCUEErrors = Cardinality(LowestGroup)
    /\ \A k \in LowestGroup :
         errors[Cardinality({j \in LowestGroup : j <= k})] = found[k]

----------------------------------------------------------------------------
(* Which rules run.                                                        *)

\* process.go:122: a rule never executes on a field whose own CUE constraint
\* failed, even when narrowing dropped that field's error from the result:
\* such a field belongs to a group past the lowest one, which the loop does
\* not reach.  Outside FailPriority the same holds for errors below the field.
NoRuleOnFailedField ==
  PrioritiesAgree =>
    \A k \in DOMAIN Rules, j \in DOMAIN found :
      Evaluated(k) =>
        /\ found[j].path # Rules[k].path
        /\ call.mode # "priority" => <<found[j].path, Rules[k].path>> \notin Below

\* README.md:859-860: once a rule of a group fails, no rule of a later group is
\* evaluated, so all rule errors of a FailPriority result share one group.
OneFailedGroup ==
  call.mode = "priority" /\ NonNegative =>
    \A j \in RuleErrors, k \in DOMAIN Rules :
      Evaluated(k) => \E i \in DOMAIN Rules :
                        /\ Rules[i].path = errors[j].path
                        /\ Rules[k].meta.priority <= Rules[i].meta.priority

\* The loop's continue, break and return lose no rule: FailAll disposes of all
\* of them; FailPriority of every rule in a group no error is below
\* (README.md:858: the rules of the failing group are all evaluated); FailFast
\* of all unless it reports an error.
EveryRuleAccounted ==
  pc = "done" /\ ~Rejected /\ PrioritiesAgree =>
    \A k \in DOMAIN Rules :
      \/ fate[k] # "pending"
      \/ call.mode = "fast" /\ ~valid
      \/ /\ call.mode = "priority"
         /\ \E j \in DOMAIN errors :
              fieldPriorityByPath(errors[j].path) < Rules[k].meta.priority

\* process.go:18-25: the bookkeeping every error site must keep in lockstep.
\* A path is marked iff a rule on it failed or inherited a CUE failure; the
\* group flag is set iff a rule of it failed, never by an inherited failure.
LoopStateInLockstep ==
  InLoop =>
    /\ failedPaths = RuleErrorPaths \cup {Rules[k].path : k \in {i \in DOMAIN Rules : fate[i] = "inherited"}}
    /\ priorityHasError <=> RuleErrors # {}

\* @meta(fail_fast): once a rule on a path failed, no later rule on that path
\* is evaluated.
FieldFailFast ==
  [][\A k \in DOMAIN Rules :
       fate[k] = "pending" /\ fate'[k] \in {"ran", "faulted"} /\ Rules[k].meta.failFast =>
         \A j \in RuleErrors : errors[j].path # Rules[k].path]_vars

\* The rule loop, its flags, continues and breaks included, implements the
\* abstract gate of FailPriority when no rule's priority is negative.
Gated == call.mode = "priority" /\ NonNegative

Gate == INSTANCE PriorityGate WITH
  group <- IF Gated THEN currentPriority ELSE -1,
  failedIn <- IF Gated
              THEN {Rules[k].meta.priority :
                      k \in {i \in DOMAIN Rules : Rules[i].path \in RuleErrorPaths}}
              ELSE {}

ImplementsGate == Gate!Spec

----------------------------------------------------------------------------
(* The observers, and progress.                                            *)

\* The fields the fast path reports when the walk ends behind the n-th: those
\* that have a descriptor and a value.
Examined(n) ==
  {Fields[k].path : k \in {i \in 1 .. n : Fields[i].fast /\ ~IsNilValue(Fields[i].path)}}

\* The walk ended behind the n-th field: the last one, or with FailFast the one
\* that failed.
WalkedTo(n) ==
  IF call.mode = "fast" /\ found # << >>
  THEN n > 0 /\ \A j \in DOMAIN found : found[j].path \in {Fields[n].path} \cup ElementsOf(Fields[n])
  ELSE n = Len(Fields)

NothingReported == validations = << >> /\ codes = << >> /\ decisions = << >>

\* observability.go:18-59, cue_layer.go:71-99: what a recorder is told by one
\* call, call by call.  One ObserveValidation with the verdict the caller gets;
\* one ObserveErrorCode per error of the final result, in its order, after
\* truncation and narrowing; one ObserveFastpathDecision, never two, for each
\* field the walk got to that has a descriptor and a value.  A field that is
\* absent or nil gets none, and a call whose input is rejected reports nothing
\* at all, although observability.go:133 and README.md:954-958 promise both:
\* this is exactly what is reported, and the findings name the difference.
MetricsMatchResult ==
  pc = "done" =>
    IF call.metered /\ ~Rejected
    THEN /\ validations = <<valid>>
         /\ codes = [k \in DOMAIN errors |-> errors[k].code]
         /\ \A i, j \in DOMAIN decisions : decisions[i] = decisions[j] => i = j
         /\ \E n \in 0 .. Len(Fields) :
              /\ WalkedTo(n)
              /\ {decisions[i] : i \in DOMAIN decisions} = Examined(n)
    ELSE NothingReported

\* Every call returns.
Termination == <>(pc = "done")

----------------------------------------------------------------------------
(* Claims of the documentation the code refutes.                           *)

\* observability.go:151: ObserveLayerDuration is called once per layer.
EveryScopeEnds == pc = "done" => begun = ended

\* README.md:859-860 for any priority, compile_test.go:227 admitting negatives.
FailedGroupIsLast ==
  call.mode = "priority" =>
    \A j, k \in RuleErrors :
      fieldPriorityByPath(errors[j].path) = fieldPriorityByPath(errors[k].path)

\* The priority the schema declares for the field an error belongs to: for a
\* list element, the list's.
DeclaredPriorities(path) ==
  {Fields[k].priority : k \in {i \in DOMAIN Fields :
     \/ Fields[i].path = path
     \/ path \in Element /\ Fields[i].kind = "list" /\ <<path, Fields[i].path>> \in Below}}

\* README.md:843: FailPriority collects the errors of the first failing group:
\* no CUE error of a lower group is dropped for one of a higher group.
FirstGroupKept ==
  InLoop /\ call.mode = "priority" =>
    \A j \in DOMAIN found, k \in DOMAIN errors :
      \A p \in DeclaredPriorities(found[j].path), q \in DeclaredPriorities(errors[k].path) :
        errors[k].code = "cue" => q <= p

\* process.go:122: no rule executes after its field's CUE constraint failed,
\* the constraints of nested fields included.
NoRuleAboveFailedField ==
  \A k \in DOMAIN Rules, j \in DOMAIN found :
    Evaluated(k) => <<found[j].path, Rules[k].path>> \notin Below
=============================================================================
