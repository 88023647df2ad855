--------------------------- MODULE ProcessEngine ---------------------------
(***************************************************************************)
(* One call of Validator.Process / Validate: the entry point in api.go,    *)
(* the metrics wrapper in observability.go, and processInternal with its   *)
(* two layers.  Layer 1 walks the compiled CUE field descriptors; layer 2  *)
(* runs the @blob / @meta rules in priority order.  Between them           *)
(* FailPriority narrows the CUE errors to the lowest failing group.        *)
(*                                                                         *)
(* A call touches no state that outlives it except through the observers,  *)
(* so a behaviour is one call; the schema, the FailMode and the input are  *)
(* chosen by Init and never change.  What a CUE constraint, a @blob        *)
(* expression, skip_if or required_if answers is a nondeterministic choice *)
(* over the outcomes the code distinguishes.                               *)
(*                                                                         *)
(* Definitions marked "Slip" are one-line mistakes in the definition that  *)
(* follows them; they are used only to see that a property notices.        *)
(***************************************************************************)
EXTENDS SchemaTypes, FiniteSets

CONSTANTS
  Element,        \* paths of list elements, items[0]
  Below,          \* <<q, p>>: string q starts with p + "." or p + "["
  MaxInt,         \* math.MaxInt
  Schemas,        \* the compiled schemas a call may be made against
  NoOutput,       \* a nil Output map
  MaxFieldErrors  \* bound: errors one field may report in one visit

ErrPath == Path \cup Element

FailMode == {"all", "fast", "priority"}

\* What the code can tell about the value at a path.  "foreign" is a Go value
\* CUE encodes as a struct that is not a map[string]any; "other" is a value of
\* another kind where the schema declares a struct.
ValueClass == {"absent", "nil", "empty", "full", "foreign", "other"}

OutputTag == {"input", "computed", "omitted"}

RuleCode == {"E3X01", "E3C01", "E2X01", "E2B01", "E2T01"}

ErrorCode == RuleCode \cup {"cue", "E0C01"}

ErrorRec == [path: ErrPath \cup {Root}, code: ErrorCode]

Layer == {"cue", "blob"}

Fate == {"pending", "inherited", "suppressed", "skipped", "faulted", "passed", "ran"}

ASSUME PathAssumption ==
  /\ Root \notin ErrPath
  /\ Below \subseteq ErrPath \X Path
  /\ Path \cap Element = {}

ASSUME PriorityAssumption ==
  /\ Priority \subseteq Int /\ 0 \in Priority
  /\ MaxInt \in Int /\ \A p \in Priority : p <= MaxInt

ASSUME SchemaAssumption == \A s \in Schemas : CompiledSchema(s)

ASSUME OutputAssumption == NoOutput \notin [Path -> OutputTag]

ASSUME BoundAssumption == MaxFieldErrors \in Nat

VARIABLES
  call,               \* [schema, mode, wantOutput, metered, input]
  pc,                 \* stage of the call
  at,                 \* index of the next field of the walk
  valid, errors, output,                      \* the Result
  lowest,             \* minFailedPriority
  readIdx, writeIdx,  \* the two indices of the in-place narrowing
  nCUEErrors,
  rule,               \* index of the current rule
  currentPriority, failedPaths, priorityHasError,
  begun, ended,       \* layers whose scope was opened / closed
  decisions,          \* calls of ObserveFastpathDecision: their paths
  validations, codes, \* calls of ObserveValidation, of ObserveErrorCode
  found,              \* history: every CUE error in the order found
  fate                \* history: what became of each rule

result == <<valid, errors, output>>
walk == <<at, found, decisions>>
narrow == <<lowest, readIdx, writeIdx>>
loop == <<rule, currentPriority, failedPaths, priorityHasError, fate, nCUEErrors>>
scopes == <<begun, ended>>
report == <<validations, codes>>
vars == <<call, pc, result, walk, narrow, loop, scopes, report>>

Fields == call.schema.fields
Rules == call.schema.rules

----------------------------------------------------------------------------
(* Helpers of processInternal.                                             *)

\* findCUEField returns nil for a path no descriptor carries: 0 then.
fieldPriorityByPath(path) ==
  IF \E k \in DOMAIN Fields : Fields[k].path = path
  THEN Fields[CHOOSE k \in DOMAIN Fields : Fields[k].path = path].priority
  ELSE 0

hasValidationErrorAtPath(errs, path) ==
  \E k \in DOMAIN errs : errs[k].path = path \/ <<errs[k].path, path>> \in Below

SlipTruncated(errs) == errs

Truncated(errs) == IF Len(errs) > 1 THEN SubSeq(errs, 1, 1) ELSE errs

SlipReturnedOutput(ok, out) == out

\* The deferred closure.
ReturnedOutput(ok, out) == IF ok THEN out ELSE NoOutput

IsEmptyValue(p) == call.input[p] \in {"absent", "nil", "empty"}
IsNilValue(p) == call.input[p] \in {"absent", "nil"}

----------------------------------------------------------------------------
(* Entry.                                                                  *)

\* A child exists only inside a map; the two odd classes need a struct field.
ProperInput(s, input) ==
  /\ \A p \in Path :
       (\A k \in DOMAIN s.fields : s.fields[k].path # p) => input[p] = "absent"
  /\ \A k \in DOMAIN s.fields :
       LET f == s.fields[k] IN
       /\ f.parent # Root /\ input[f.parent] # "full" => input[f.path] = "absent"
       /\ input[f.path] \in {"foreign", "other"} => f.kind = "struct"

Calls ==
  UNION { [schema: {s}, mode: FailMode, wantOutput: BOOLEAN, metered: BOOLEAN,
           input: {i \in [Path -> ValueClass] : ProperInput(s, i)}] : s \in Schemas }

Init ==
  /\ call \in Calls
  /\ pc = "start"
  /\ at = 1 /\ found = << >> /\ decisions = << >>
  /\ valid = TRUE /\ errors = << >> /\ output = NoOutput
  /\ lowest = MaxInt /\ readIdx = 1 /\ writeIdx = 0
  /\ nCUEErrors = 0 /\ rule = 1 /\ currentPriority = -1
  /\ failedPaths = {} /\ priorityHasError = FALSE
  /\ fate = [k \in DOMAIN Rules |-> "pending"]
  /\ begun = {} /\ ended = {}
  /\ validations = << >> /\ codes = << >>

\* toMapAny fails: an E0C01 result that never reaches the metrics wrapper.
RejectInput ==
  /\ pc = "start"
  /\ valid' = FALSE
  /\ errors' = << [path |-> Root, code |-> "E0C01"] >>
  /\ pc' = "done"
  /\ UNCHANGED <<call, output, walk, narrow, loop, scopes, report>>

\* deepCopy of a nil map is nil, and a nil map has no field.
CopiesOfInput ==
  {[p \in Path |-> "input"]} \cup
  (IF \A p \in Path : call.input[p] = "absent" THEN {NoOutput} ELSE {})

BeginScope(l) == begun' = IF call.metered THEN begun \cup {l} ELSE begun
EndScope(l) == ended' = IF call.metered THEN ended \cup {l} ELSE ended

BeginCall ==
  /\ pc = "start"
  /\ output' \in IF call.wantOutput THEN CopiesOfInput ELSE {NoOutput}
  /\ BeginScope("cue")
  /\ pc' = "walk"
  /\ UNCHANGED <<call, valid, errors, walk, narrow, loop, ended, report>>

----------------------------------------------------------------------------
(* Layer 1: validateCUEFields, flattened to preorder.                      *)

StopEarly == call.mode = "fast" /\ ~valid

\* validateStructField enters the children of a map only; of a parent that was
\* not entered itself ProperInput leaves none but an absent value.
Reached(f) == f.parent # Root => call.input[f.parent] \in {"empty", "full"}

ElementsOf(f) == {q \in Element : <<q, f.path>> \in Below}

UpTo(n, S) == UNION {[1 .. k -> S] : k \in 0 .. n}

CUEErrors(paths) == [k \in DOMAIN paths |-> [path |-> paths[k], code |-> "cue"]]

SlipRecordFieldErrors(paths) ==
  /\ errors' = errors \o CUEErrors(paths)
  /\ found' = found \o CUEErrors(paths)
  /\ UNCHANGED valid

\* recordFieldError and the fast-path recorders.
RecordFieldErrors(paths) ==
  /\ errors' = errors \o CUEErrors(paths)
  /\ found' = found \o CUEErrors(paths)
  /\ valid' = (valid /\ paths = << >>)

Visiting(f) ==
  /\ pc = "walk" /\ ~StopEarly
  /\ at <= Len(Fields) /\ f = Fields[at]
  /\ at' = at + 1
  /\ UNCHANGED <<call, pc, output, narrow, loop, scopes, report>>

VisitUnreached(f) ==
  /\ Visiting(f) /\ ~Reached(f)
  /\ UNCHANGED <<valid, errors, found, decisions>>

VisitMissing(f) ==
  /\ Visiting(f) /\ Reached(f) /\ call.input[f.path] = "absent"
  /\ RecordFieldErrors(IF f.optional \/ f.hasBlob THEN << >> ELSE <<f.path>>)
  /\ UNCHANGED decisions

VisitNil(f) ==
  /\ Visiting(f) /\ Reached(f) /\ call.input[f.path] = "nil"
  /\ RecordFieldErrors(IF f.nullable THEN << >> ELSE <<f.path>>)
  /\ UNCHANGED decisions

\* The children of a map are fields of their own in the preorder; a foreign
\* struct is accepted without looking at them.
VisitStruct(f) ==
  /\ Visiting(f) /\ Reached(f) /\ f.kind = "struct"
  /\ ~IsNilValue(f.path)
  /\ RecordFieldErrors(IF call.input[f.path] = "other" THEN <<f.path>> ELSE << >>)
  /\ UNCHANGED decisions

SlipDecide(f) ==
  decisions' = IF f.fast /\ call.metered THEN decisions \o <<f.path, f.path>> ELSE decisions

\* checkFast and checkFastList tell the recorder about the field, whether the
\* descriptor decided it or CUE has to.
Decide(f) ==
  decisions' = IF f.fast /\ call.metered THEN Append(decisions, f.path) ELSE decisions

\* Scalars and lists: the Go descriptor when there is one, else CUE.  Either
\* may report nothing, the field itself, or (lists) some of its elements.
VisitValue(f) ==
  /\ Visiting(f) /\ Reached(f) /\ f.kind # "struct"
  /\ ~IsNilValue(f.path)
  /\ \E paths \in UpTo(MaxFieldErrors, {f.path} \cup ElementsOf(f)) : RecordFieldErrors(paths)
  /\ Decide(f)

VisitField ==
  \E f \in {Fields[k] : k \in DOMAIN Fields} :
    \/ VisitUnreached(f) \/ VisitMissing(f) \/ VisitNil(f)
    \/ VisitStruct(f) \/ VisitValue(f)

EndWalk ==
  /\ pc = "walk"
  /\ at > Len(Fields) \/ StopEarly
  /\ EndScope("cue")
  /\ UNCHANGED <<call, walk, valid, output, narrow, loop, begun, report>>

FailFastReturn ==
  /\ EndWalk /\ call.mode = "fast" /\ ~valid
  /\ errors' = Truncated(errors)
  /\ pc' = "defer"

StartNarrowing ==
  /\ EndWalk /\ call.mode = "priority" /\ ~valid
  /\ pc' = "lowest" /\ UNCHANGED errors

PassToBlob ==
  /\ EndWalk /\ (call.mode = "all" \/ valid)
  /\ pc' = "blob" /\ UNCHANGED errors

----------------------------------------------------------------------------
(* keepLowestFailedPriority: one loop finds the lowest priority, a second  *)
(* filters result.Errors in place.                                         *)

SlipNextRead == readIdx

NextRead == readIdx + 1

Narrowing == UNCHANGED <<call, walk, valid, output, loop, scopes, report>>

ScanError ==
  /\ pc = "lowest" /\ readIdx <= Len(errors)
  /\ LET p == fieldPriorityByPath(errors[readIdx].path)
     IN  lowest' = IF p < lowest THEN p ELSE lowest
  /\ readIdx' = NextRead
  /\ UNCHANGED <<pc, errors, writeIdx>> /\ Narrowing

ScanDone ==
  /\ pc = "lowest" /\ readIdx > Len(errors)
  /\ readIdx' = 1 /\ pc' = "filter"
  /\ UNCHANGED <<errors, lowest, writeIdx>> /\ Narrowing

SlipInLowestGroup(e) == fieldPriorityByPath(e.path) >= lowest

InLowestGroup(e) == fieldPriorityByPath(e.path) = lowest

KeepError ==
  /\ pc = "filter" /\ readIdx <= Len(errors)
  /\ InLowestGroup(errors[readIdx])
  /\ errors' = [errors EXCEPT ![writeIdx + 1] = errors[readIdx]]
  /\ writeIdx' = writeIdx + 1 /\ readIdx' = NextRead
  /\ UNCHANGED <<pc, lowest>> /\ Narrowing

DropError ==
  /\ pc = "filter" /\ readIdx <= Len(errors)
  /\ ~InLowestGroup(errors[readIdx])
  /\ readIdx' = NextRead
  /\ UNCHANGED <<pc, errors, lowest, writeIdx>> /\ Narrowing

FilterDone ==
  /\ pc = "filter" /\ readIdx > Len(errors)
  /\ errors' = SubSeq(errors, 1, writeIdx)
  /\ pc' = "blob"
  /\ UNCHANGED narrow /\ Narrowing

----------------------------------------------------------------------------
(* Layer 2: the rule loop of processInternal.                              *)

BeginBlobLayer ==
  /\ pc = "blob"
  /\ nCUEErrors' = Len(errors)
  /\ BeginScope("blob")
  /\ pc' = "loop"
  /\ UNCHANGED <<call, result, walk, narrow, rule, currentPriority, failedPaths,
                 priorityHasError, fate, ended, report>>

R == Rules[rule]
M == R.meta

SlipNextRule(f) ==
  /\ rule' = rule + 2
  /\ fate' = [fate EXCEPT ![rule] = f]
  /\ pc' = "loop"

\* The loop's continue, and falling off the end of its body.
NextRule(f) ==
  /\ rule' = rule + 1
  /\ fate' = [fate EXCEPT ![rule] = f]
  /\ pc' = "loop"

Inherited == hasValidationErrorAtPath(SubSeq(errors, 1, nCUEErrors), R.path)

EntersGroup == call.mode = "priority" /\ M.priority > currentPriority

SlipGroupFailed == priorityHasError

SlipNeverLeave == FALSE

GroupFailed == EntersGroup /\ priorityHasError

SlipPastLowest == FALSE

PastLowest == call.mode = "priority" /\ lowest < MaxInt /\ M.priority > lowest

AtRule == pc = "loop" /\ rule <= Len(Rules)

SlipMarkInherited ==
  /\ failedPaths' = failedPaths \cup {R.path}
  /\ priorityHasError' = TRUE

\* The path is marked, the group is not.
MarkInherited ==
  /\ failedPaths' = failedPaths \cup {R.path}
  /\ UNCHANGED priorityHasError

InheritCUEFailure ==
  /\ AtRule /\ Inherited
  /\ MarkInherited
  /\ NextRule("inherited")
  /\ UNCHANGED <<call, result, walk, narrow, currentPriority, nCUEErrors, scopes, report>>

\* break: a new group begins after a failed one.
LeaveFailedGroup ==
  /\ AtRule /\ ~Inherited /\ GroupFailed
  /\ pc' = "blobEnd"
  /\ UNCHANGED <<call, result, walk, narrow, loop, scopes, report>>

TransitionGroup ==
  currentPriority' = IF EntersGroup THEN M.priority ELSE currentPriority

\* break: this and every later rule lies past the lowest failed CUE group.
StopPastLowest ==
  /\ AtRule /\ ~Inherited /\ ~GroupFailed /\ PastLowest
  /\ TransitionGroup
  /\ pc' = "blobEnd"
  /\ UNCHANGED <<call, result, walk, narrow, rule, failedPaths, priorityHasError,
                 fate, nCUEErrors, scopes, report>>

SuppressByFailFast ==
  /\ AtRule /\ ~Inherited /\ ~GroupFailed /\ ~PastLowest
  /\ M.failFast /\ R.path \in failedPaths
  /\ TransitionGroup
  /\ NextRule("suppressed")
  /\ UNCHANGED <<call, result, walk, narrow, failedPaths, priorityHasError,
                 nCUEErrors, scopes, report>>

EnterRule ==
  /\ AtRule /\ ~Inherited /\ ~GroupFailed /\ ~PastLowest
  /\ ~(M.failFast /\ R.path \in failedPaths)
  /\ TransitionGroup
  /\ pc' = "skipIf"
  /\ UNCHANGED <<call, result, walk, narrow, rule, failedPaths, priorityHasError,
                 fate, nCUEErrors, scopes, report>>

\* What the stages of one rule leave alone.
InRule == UNCHANGED <<call, walk, narrow, currentPriority, nCUEErrors, scopes, report>>

SlipMarkFailed ==
  /\ failedPaths' = failedPaths \cup {R.path}
  /\ UNCHANGED priorityHasError

SlipMarkGroupOnly ==
  /\ priorityHasError' = TRUE
  /\ UNCHANGED failedPaths

markFailed ==
  /\ failedPaths' = failedPaths \cup {R.path}
  /\ priorityHasError' = TRUE

\* FailFast: return result, past the end of the blob scope.
AbortOrNext(f) ==
  IF call.mode = "fast"
  THEN /\ pc' = "defer" /\ fate' = [fate EXCEPT ![rule] = f] /\ UNCHANGED rule
  ELSE NextRule(f)

SlipWithError(errs, e) == <<e>> \o errs

WithError(errs, e) == Append(errs, e)

\* recordRuleError, and the E2T01 of checkBlobResultType with its caller.
recordRuleError(code, f) ==
  /\ valid' = FALSE
  /\ errors' = WithError(errors, [path |-> R.path, code |-> code])
  /\ markFailed
  /\ AbortOrNext(f)

\* deleteNestedKey, by exact path: what it does to nested maps is not tracked.
Omit(cond) ==
  output' = IF cond /\ output # NoOutput
            THEN [output EXCEPT ![R.path] = "omitted"] ELSE output

NoVerdict == UNCHANGED <<valid, errors, failedPaths, priorityHasError>>

\* applySkipIf.
SkipIfPasses ==
  /\ pc = "skipIf"
  /\ pc' = "presence"
  /\ InRule /\ NoVerdict /\ UNCHANGED <<output, rule, fate>>

SkipIfFaults ==
  /\ pc = "skipIf" /\ M.skipIf
  /\ recordRuleError("E3X01", "faulted")
  /\ InRule /\ UNCHANGED output

SkipIfSkips ==
  /\ pc = "skipIf" /\ M.skipIf
  /\ Omit(M.omitIfSkip)
  /\ NextRule("skipped")
  /\ InRule /\ NoVerdict

\* applyPresenceRules.
SkipsEmpty == M.skipEmpty /\ IsEmptyValue(R.path)
OptionalNil == M.optional /\ IsNilValue(R.path)

SkipEmptyValue ==
  /\ pc = "presence" /\ SkipsEmpty
  /\ Omit(M.omitIfSkip \/ M.omitEmpty)
  /\ NextRule("skipped")
  /\ InRule /\ NoVerdict

PresencePasses ==
  /\ pc = "presence" /\ ~SkipsEmpty /\ ~OptionalNil
  /\ Omit(M.omitEmpty /\ IsEmptyValue(R.path))
  /\ pc' = "exec"
  /\ InRule /\ NoVerdict /\ UNCHANGED <<rule, fate>>

\* No required_if, or one that does not hold.
SkipOptionalNil ==
  /\ pc = "presence" /\ ~SkipsEmpty /\ OptionalNil
  /\ Omit(M.omitEmpty)
  /\ NextRule("skipped")
  /\ InRule /\ NoVerdict

RequiredIfFails ==
  /\ pc = "presence" /\ ~SkipsEmpty /\ OptionalNil /\ M.requiredIf
  /\ Omit(M.omitEmpty)
  /\ \E code \in {"E3X01", "E3C01"} : recordRuleError(code, "faulted")
  /\ InRule

\* execBlobRule.
NothingToExec ==
  /\ pc = "exec" /\ ~R.exec
  /\ NextRule("passed")
  /\ InRule /\ NoVerdict /\ UNCHANGED output

ExecAccepts ==
  /\ pc = "exec" /\ R.exec
  /\ NextRule("ran")
  /\ InRule /\ NoVerdict /\ UNCHANGED output

ExecFails ==
  /\ pc = "exec" /\ R.exec
  /\ \E code \in {"E2X01", "E2B01", "E2T01"} : recordRuleError(code, "ran")
  /\ InRule /\ UNCHANGED output

\* Value mode, type check passed.
ExecComputes ==
  /\ pc = "exec" /\ R.exec
  /\ output' = IF output # NoOutput THEN [output EXCEPT ![R.path] = "computed"] ELSE output
  /\ NextRule("ran")
  /\ InRule /\ NoVerdict

LoopDone ==
  /\ pc = "loop" /\ rule > Len(Rules)
  /\ pc' = "blobEnd"
  /\ UNCHANGED <<call, result, walk, narrow, loop, scopes, report>>

EndBlobLayer ==
  /\ pc = "blobEnd"
  /\ EndScope("blob")
  /\ pc' = "defer"
  /\ UNCHANGED <<call, result, walk, narrow, loop, begun, report>>

----------------------------------------------------------------------------
(* Return: the deferred closure, then withValidationMetrics.               *)

RunDeferred ==
  /\ pc = "defer"
  /\ output' = ReturnedOutput(valid, output)
  /\ pc' = "report"
  /\ UNCHANGED <<call, valid, errors, walk, narrow, loop, scopes, report>>

SlipReported == [k \in DOMAIN found |-> found[k].code]

Reported == [k \in DOMAIN errors |-> errors[k].code]

ReportValidation ==
  /\ pc = "report"
  /\ validations' = IF call.metered THEN Append(validations, valid) ELSE validations
  /\ codes' = IF call.metered THEN codes \o Reported ELSE codes
  /\ pc' = "done"
  /\ UNCHANGED <<call, result, walk, narrow, loop, scopes>>

Returned == pc = "done" /\ UNCHANGED vars

RuleStep ==
  \/ InheritCUEFailure \/ LeaveFailedGroup \/ StopPastLowest
  \/ SuppressByFailFast \/ EnterRule
  \/ SkipIfPasses \/ SkipIfFaults \/ SkipIfSkips
  \/ SkipEmptyValue \/ PresencePasses \/ SkipOptionalNil \/ RequiredIfFails
  \/ NothingToExec \/ ExecAccepts \/ ExecFails \/ ExecComputes

Next ==
  \/ RejectInput \/ BeginCall
  \/ VisitField \/ FailFastReturn \/ StartNarrowing \/ PassToBlob
  \/ ScanError \/ ScanDone \/ KeepError \/ DropError \/ FilterDone
  \/ BeginBlobLayer \/ RuleStep \/ LoopDone \/ EndBlobLayer
  \/ RunDeferred \/ ReportValidation \/ Returned

\* A call runs on its caller's goroutine and never waits.
Spec == Init /\ [][Next]_vars
FairSpec == Spec /\ WF_vars(Next)
=============================================================================
