--------------------------- MODULE ProcessProofs ---------------------------
(***************************************************************************)
(* Theorems about ProcessEngine for every set of schemas, every input and  *)
(* every outcome of a rule.                                                *)
(***************************************************************************)
EXTENDS ProcessProperties, SequenceTheorems, TLAPS

----------------------------------------------------------------------------
(* Facts about the constants and the helpers.                              *)

\* A call is made against a compiled schema.
LEMMA CallFacts ==
  ASSUME call \in Calls
  PROVE  /\ call.schema \in Schemas /\ CompiledSchema(call.schema)
         /\ Fields \in Seq(Field) /\ Rules \in Seq(Rule)
         /\ call.mode \in FailMode
         /\ call.wantOutput \in BOOLEAN /\ call.metered \in BOOLEAN
<1>1. PICK s \in Schemas :
        call \in [schema: {s}, mode: FailMode, wantOutput: BOOLEAN, metered: BOOLEAN,
                  input: {i \in [Path -> ValueClass] : ProperInput(s, i)}]
  BY DEF Calls
<1>2. call.schema = s /\ CompiledSchema(s)
  BY <1>1, SchemaAssumption
<1>3. QED
  BY <1>1, <1>2 DEF CompiledSchema, Fields, Rules

\* fieldPriorityByPath answers a declared priority, or the default 0.
LEMMA PriorityOfPath ==
  ASSUME call \in Calls, NEW p
  PROVE  fieldPriorityByPath(p) \in Priority
<1>1. CASE \E k \in DOMAIN Fields : Fields[k].path = p
  <2> DEFINE j == CHOOSE k \in DOMAIN Fields : Fields[k].path = p
  <2>1. j \in DOMAIN Fields
    BY <1>1
  <2>2. Fields[j] \in Field
    BY <2>1, CallFacts
  <2>3. fieldPriorityByPath(p) = Fields[j].priority
    BY <1>1 DEF fieldPriorityByPath
  <2> QED
    BY <2>2, <2>3 DEF Field
<1>2. CASE ~ \E k \in DOMAIN Fields : Fields[k].path = p
  BY <1>2, PriorityAssumption DEF fieldPriorityByPath
<1> QED
  BY <1>1, <1>2

\* The rule a stage works on is a rule of the schema.
LEMMA CurrentRule ==
  ASSUME call \in Calls, rule \in 1 .. Len(Rules)
  PROVE  /\ R \in Rule /\ R.path \in Path /\ M \in Meta /\ M.priority \in Priority
         /\ rule \in DOMAIN Rules
<1>1. Rules \in Seq(Rule)
  BY CallFacts
<1>2. R \in Rule /\ rule \in DOMAIN Rules
  BY <1>1 DEF R
<1> QED
  BY <1>2 DEF M, Rule, Meta

\* The errors one field reports are error records, one per path.
LEMMA CUEErrorsType ==
  ASSUME NEW paths \in Seq(ErrPath)
  PROVE  /\ CUEErrors(paths) \in Seq(ErrorRec)
         /\ Len(CUEErrors(paths)) = Len(paths)
         /\ \A k \in 1 .. Len(paths) :
              CUEErrors(paths)[k].path = paths[k] /\ CUEErrors(paths)[k].code = "cue"
<1>1. DOMAIN paths = 1 .. Len(paths) /\ Len(paths) \in Nat
  BY LenProperties
<1>2. \A k \in 1 .. Len(paths) : [path |-> paths[k], code |-> "cue"] \in ErrorRec
  BY ElementOfSeq DEF ErrorRec, ErrorCode
<1>3. CUEErrors(paths) \in Seq(ErrorRec) /\ Len(CUEErrors(paths)) = Len(paths)
  BY <1>1, <1>2, IsASeq DEF CUEErrors
<1>4. \A k \in 1 .. Len(paths) :
        CUEErrors(paths)[k].path = paths[k] /\ CUEErrors(paths)[k].code = "cue"
  BY <1>1 DEF CUEErrors
<1> QED
  BY <1>3, <1>4

\* Sequences over S of length at most n are sequences over S.
LEMMA UpToType ==
  ASSUME NEW n \in Nat, NEW S
  PROVE  UpTo(n, S) \subseteq Seq(S)
BY DEF UpTo

\* A field of the walk reports errors at paths of its own.
LEMMA FieldPaths ==
  ASSUME call \in Calls, NEW k \in DOMAIN Fields
  PROVE  /\ Fields[k] \in Field /\ Fields[k].path \in Path
         /\ UpTo(MaxFieldErrors, {Fields[k].path} \cup ElementsOf(Fields[k])) \subseteq Seq(ErrPath)
         /\ <<Fields[k].path>> \in Seq(ErrPath)
<1>1. Fields[k] \in Field
  BY CallFacts
<1>2. Fields[k].path \in Path
  BY <1>1 DEF Field
<1>3. {Fields[k].path} \cup ElementsOf(Fields[k]) \subseteq ErrPath
  BY <1>2 DEF ElementsOf, ErrPath
<1>4. UpTo(MaxFieldErrors, {Fields[k].path} \cup ElementsOf(Fields[k]))
        \subseteq Seq({Fields[k].path} \cup ElementsOf(Fields[k]))
  BY UpToType, BoundAssumption
<1>5. Seq({Fields[k].path} \cup ElementsOf(Fields[k])) \subseteq Seq(ErrPath)
  BY <1>3, SeqMonotonic
<1>6. <<Fields[k].path>> \in Seq(ErrPath)
  BY <1>2 DEF ErrPath
<1> QED
  BY <1>1, <1>2, <1>4, <1>5, <1>6

----------------------------------------------------------------------------
(* The inductive invariant.                                                *)

Prio(k) == fieldPriorityByPath(errors[k].path)

\* keepLowestFailedPriority, in the middle of its two loops: the first has the
\* minimum of what it read, the second still has an error of the lowest group
\* ahead of it or has kept one, and its write index trails its read index.
NarrowInv ==
  /\ pc = "start" => valid /\ errors = << >> /\ found = << >>
  /\ pc \in {"start", "walk"} => readIdx = 1 /\ writeIdx = 0 /\ lowest = MaxInt
  /\ pc \in {"lowest", "filter"} =>
       ~valid /\ call.mode = "priority" /\ readIdx <= Len(errors) + 1
  /\ pc = "lowest" =>
       /\ writeIdx = 0
       /\ \A k \in 1 .. readIdx - 1 : lowest <= Prio(k)
       /\ lowest = MaxInt \/ \E k \in 1 .. readIdx - 1 : Prio(k) = lowest
  /\ pc = "filter" =>
       /\ writeIdx < readIdx
       /\ writeIdx > 0 \/ \E k \in readIdx .. Len(errors) : Prio(k) = lowest

IInv == TypeOK /\ NarrowInv /\ ErrorsIffInvalid

LEMMA InitType == Init => TypeOK
<1> SUFFICES ASSUME Init PROVE TypeOK
  OBVIOUS
<1>1. Fields \in Seq(Field) /\ Rules \in Seq(Rule)
  BY CallFacts DEF Init
<1>2. fate \in [DOMAIN Rules -> Fate]
  BY DEF Init, Fate
<1>3. Len(Fields) \in Nat /\ Len(Rules) \in Nat
  BY <1>1, LenProperties
<1>4. call \in Calls /\ errors \in Seq(ErrorRec) /\ found \in Seq(ErrorRec)
  BY EmptySeq DEF Init
<1>5. at \in 1 .. Len(Fields) + 1 /\ rule \in 1 .. Len(Rules) + 1
  BY <1>3 DEF Init
<1>6. pc \in Stages /\ ~AtStage
  BY DEF Init, Stages, AtStage
<1>7. /\ readIdx \in Nat \ {0} /\ writeIdx \in Nat /\ nCUEErrors \in Nat
      /\ lowest \in Priority \cup {MaxInt} /\ currentPriority \in Priority \cup {-1}
  BY DEF Init
<1>8. /\ output \in [Path -> OutputTag] \cup {NoOutput} /\ failedPaths \subseteq Path
      /\ begun \subseteq Layer /\ ended \subseteq Layer
  BY DEF Init
<1>9. valid \in BOOLEAN /\ priorityHasError \in BOOLEAN
  BY Zenon DEF Init
<1>10. decisions \in Seq(Path) /\ validations \in Seq(BOOLEAN) /\ codes \in Seq(ErrorCode)
  BY EmptySeq DEF Init
<1> QED
  BY <1>2, <1>4, <1>5, <1>6, <1>7, <1>8, <1>9, <1>10 DEF TypeOK

\* The codes of the errors, in their order.
LEMMA ErrorCodes ==
  ASSUME TypeOK
  PROVE  Reported \in Seq(ErrorCode)
<1>1. errors \in Seq(ErrorRec) /\ DOMAIN errors = 1 .. Len(errors) /\ Len(errors) \in Nat
  BY LenProperties DEF TypeOK
<1>2. \A k \in 1 .. Len(errors) : errors[k] \in ErrorRec
  BY <1>1, ElementOfSeq
<1>3. \A k \in 1 .. Len(errors) : errors[k].code \in ErrorCode
  BY <1>2 DEF ErrorRec
<1> QED
  BY <1>1, <1>3, IsASeq DEF Reported

\* Entry and return.
LEMMA TypeEntry ==
  ASSUME TypeOK, RejectInput \/ BeginCall \/ RunDeferred \/ ReportValidation
  PROVE  TypeOK'
<1> USE DEF TypeOK, Stages, AtStage, Fields, Rules, walk, narrow, loop, scopes, report, result
<1>1. CASE RejectInput
  <2>1. [path |-> Root, code |-> "E0C01"] \in ErrorRec
    BY DEF ErrorRec, ErrorCode
  <2>2. errors' \in Seq(ErrorRec)
    BY <1>1, <2>1 DEF RejectInput
  <2> QED
    BY <1>1, <2>2 DEF RejectInput
<1>2. CASE BeginCall
  <2>1. CopiesOfInput \subseteq [Path -> OutputTag] \cup {NoOutput}
    BY DEF CopiesOfInput, OutputTag
  <2> QED
    BY <1>2, <2>1 DEF BeginCall, BeginScope, Layer
<1>3. CASE RunDeferred
  BY <1>3 DEF RunDeferred, ReturnedOutput
<1>4. CASE ReportValidation
  <2>1. Reported \in Seq(ErrorCode)
    BY ErrorCodes
  <2>2. codes' \in Seq(ErrorCode)
    BY <1>4, <2>1, ConcatProperties DEF ReportValidation
  <2>3. validations' \in Seq(BOOLEAN)
    BY <1>4, AppendProperties DEF ReportValidation
  <2> QED
    BY <1>4, <2>2, <2>3 DEF ReportValidation
<1> QED
  BY <1>1, <1>2, <1>3, <1>4

\* What every visit of a field does to the errors.
LEMMA Recording ==
  ASSUME TypeOK, NEW paths \in Seq(ErrPath), RecordFieldErrors(paths)
  PROVE  /\ errors' \in Seq(ErrorRec) /\ found' \in Seq(ErrorRec)
         /\ valid' \in BOOLEAN
         /\ paths = << >> => errors' = errors /\ found' = found
         /\ errors' = << >> <=> errors = << >> /\ paths = << >>
<1> DEFINE new == CUEErrors(paths)
<1>1. new \in Seq(ErrorRec) /\ Len(new) = Len(paths)
  BY CUEErrorsType
<1>2. new = << >> <=> paths = << >>
  BY <1>1, EmptySeq
<1>3. errors' = errors \o new /\ found' = found \o new
  BY DEF RecordFieldErrors
<1>4. errors' \in Seq(ErrorRec) /\ found' \in Seq(ErrorRec)
  BY <1>1, <1>3, ConcatProperties DEF TypeOK
<1>5. paths = << >> => errors' = errors /\ found' = found
  BY <1>1, <1>2, <1>3, ConcatEmptySeq DEF TypeOK
<1>6. errors' = << >> <=> errors = << >> /\ paths = << >>
  BY <1>1, <1>2, <1>3, ConcatEqualIffEmpty, ConcatProperties, EmptySeq DEF TypeOK
<1>7. valid' \in BOOLEAN
  BY DEF RecordFieldErrors, TypeOK
<1> QED
  BY <1>4, <1>5, <1>6, <1>7

\* A visit either records the errors of one field or touches nothing else.
LEMMA VisitRecords ==
  ASSUME TypeOK, VisitField
  PROVE  /\ pc = "walk" /\ at \in 1 .. Len(Fields) /\ at' = at + 1
         /\ UNCHANGED <<call, pc, output, narrow, loop, scopes, report>>
         /\ decisions' \in Seq(Path)
         /\ \E paths \in Seq(ErrPath) :
              \/ RecordFieldErrors(paths)
              \/ UNCHANGED <<valid, errors, found>>
<1>1. PICK k \in DOMAIN Fields :
        LET f == Fields[k] IN
        VisitUnreached(f) \/ VisitMissing(f) \/ VisitNil(f) \/ VisitStruct(f) \/ VisitValue(f)
  BY DEF VisitField
<1> DEFINE f == Fields[k]
<1>2. Visiting(f)
  BY <1>1 DEF VisitUnreached, VisitMissing, VisitNil, VisitStruct, VisitValue
<1>3. /\ f.path \in Path /\ <<f.path>> \in Seq(ErrPath)
      /\ UpTo(MaxFieldErrors, {f.path} \cup ElementsOf(f)) \subseteq Seq(ErrPath)
  BY FieldPaths DEF TypeOK
<1>4. << >> \in Seq(ErrPath)
  BY EmptySeq
<1>5. \E paths \in Seq(ErrPath) :
        RecordFieldErrors(paths) \/ UNCHANGED <<valid, errors, found>>
  BY <1>1, <1>3, <1>4 DEF VisitUnreached, VisitMissing, VisitNil, VisitStruct, VisitValue
<1>6. decisions' \in {decisions, Append(decisions, f.path)}
  BY <1>1 DEF VisitUnreached, VisitMissing, VisitNil, VisitStruct, VisitValue, Decide
<1>7. decisions' \in Seq(Path)
  <2>1. decisions \in Seq(Path)
    BY DEF TypeOK
  <2>2. Append(decisions, f.path) \in Seq(Path)
    BY <1>3, <2>1, AppendProperties
  <2> QED
    BY <1>6, <2>1, <2>2
<1> QED
  BY <1>2, <1>5, <1>7 DEF Visiting, TypeOK

LEMMA TypeWalk ==
  ASSUME TypeOK, VisitField \/ FailFastReturn \/ StartNarrowing \/ PassToBlob
  PROVE  TypeOK'
<1>0. VisitField =>
        /\ pc = "walk" /\ at \in 1 .. Len(Fields) /\ at' = at + 1
        /\ UNCHANGED <<call, pc, output, narrow, loop, scopes, report>>
        /\ decisions' \in Seq(Path)
        /\ \E paths \in Seq(ErrPath) :
             \/ RecordFieldErrors(paths)
             \/ UNCHANGED <<valid, errors, found>>
  BY VisitRecords
<1> USE DEF TypeOK, Stages, AtStage, Fields, Rules, walk, narrow, loop, scopes, report, result
<1>1. CASE VisitField
  <2>1. PICK paths \in Seq(ErrPath) :
          RecordFieldErrors(paths) \/ UNCHANGED <<valid, errors, found>>
    BY <1>0, <1>1
  <2>2. errors' \in Seq(ErrorRec) /\ found' \in Seq(ErrorRec) /\ valid' \in BOOLEAN
    BY <2>1, Recording
  <2>3. /\ at' \in 1 .. Len(Fields) + 1 /\ pc' = pc /\ decisions' \in Seq(Path)
        /\ UNCHANGED <<call, output, lowest, readIdx, writeIdx, rule, currentPriority,
                       failedPaths, priorityHasError, fate, nCUEErrors, begun, ended,
                       validations, codes>>
    BY <1>0, <1>1
  <2> QED
    BY <2>2, <2>3
<1>2. CASE FailFastReturn
  <2>1. Truncated(errors) \in Seq(ErrorRec)
    BY SubSeqProperties DEF Truncated
  <2> QED
    BY <1>2, <2>1 DEF FailFastReturn, EndWalk, EndScope, Layer
<1>3. CASE StartNarrowing
  BY <1>3 DEF StartNarrowing, EndWalk, EndScope, Layer
<1>4. CASE PassToBlob
  BY <1>4 DEF PassToBlob, EndWalk, EndScope, Layer
<1> QED
  BY <1>1, <1>2, <1>3, <1>4

LEMMA TypeNarrow ==
  ASSUME TypeOK, NarrowInv, ScanError \/ ScanDone \/ KeepError \/ DropError \/ FilterDone
  PROVE  TypeOK'
<1> USE DEF TypeOK, Stages, AtStage, Fields, Rules, Narrowing, NextRead,
            walk, narrow, loop, scopes, report, result
<1>1. CASE ScanError
  <2>1. lowest' \in Priority \cup {MaxInt}
    BY <1>1, PriorityOfPath DEF ScanError
  <2> QED
    BY <1>1, <2>1 DEF ScanError
<1>2. CASE ScanDone
  BY <1>2 DEF ScanDone
<1>3. CASE KeepError
  <2>1. Len(errors) \in Nat /\ readIdx \in 1 .. Len(errors) /\ errors[readIdx] \in ErrorRec
    BY <1>3, LenProperties, ElementOfSeq DEF KeepError
  <2>2. writeIdx + 1 \in 1 .. Len(errors)
    BY <1>3, <2>1 DEF KeepError, NarrowInv
  <2>3. errors' \in Seq(ErrorRec)
    BY <1>3, <2>1, <2>2, ExceptSeq DEF KeepError
  <2> QED
    BY <1>3, <2>3, SMTT(30) DEF KeepError
<1>4. CASE DropError
  BY <1>4 DEF DropError
<1>5. CASE FilterDone
  <2>1. Len(errors) \in Nat /\ writeIdx \in 0 .. Len(errors)
    BY <1>5, LenProperties DEF FilterDone, NarrowInv
  <2>2. errors' \in Seq(ErrorRec)
    BY <1>5, <2>1, SubSeqProperties DEF FilterDone
  <2> QED
    BY <1>5, <2>2 DEF FilterDone
<1> QED
  BY <1>1, <1>2, <1>3, <1>4, <1>5

\* The frame of the rule loop: what no stage of it touches.
LEMMA LoopFrame ==
  ASSUME RuleStep \/ BeginBlobLayer \/ LoopDone \/ EndBlobLayer
  PROVE  UNCHANGED <<call, walk, narrow, report>>
BY DEF RuleStep, BeginBlobLayer, LoopDone, EndBlobLayer, result, loop, scopes,
       InheritCUEFailure, LeaveFailedGroup, StopPastLowest, SuppressByFailFast, EnterRule,
       SkipIfPasses, SkipIfFaults, SkipIfSkips, SkipEmptyValue, PresencePasses,
       SkipOptionalNil, RequiredIfFails, NothingToExec, ExecAccepts, ExecFails, ExecComputes,
       InRule

\* The cursor of the loop: it stays, or the rule is done and it moves on.
LEMMA LoopCursor ==
  ASSUME TypeOK, RuleStep
  PROVE  /\ rule \in 1 .. Len(Rules) /\ Len(Rules) \in Nat
         /\ pc' \in {"loop", "blobEnd", "defer", "skipIf", "presence", "exec"}
         /\ \/ rule' = rule
            \/ rule' = rule + 1 /\ pc' = "loop"
         /\ \/ fate' = fate
            \/ \E f \in Fate : fate' = [fate EXCEPT ![rule] = f]
<1>1. Len(Rules) \in Nat
  BY CallFacts, LenProperties DEF TypeOK
<1> USE <1>1 DEF TypeOK, AtStage, NextRule, Fate, loop
<1>2. CASE InheritCUEFailure \/ LeaveFailedGroup \/ StopPastLowest
           \/ SuppressByFailFast \/ EnterRule
  BY <1>2 DEF InheritCUEFailure, LeaveFailedGroup, StopPastLowest, SuppressByFailFast,
              EnterRule, AtRule
<1>3. CASE SkipIfPasses \/ SkipIfFaults \/ SkipIfSkips
  BY <1>3 DEF SkipIfPasses, SkipIfFaults, SkipIfSkips, recordRuleError, AbortOrNext
<1>4. CASE SkipEmptyValue \/ PresencePasses \/ SkipOptionalNil \/ RequiredIfFails
  BY <1>4 DEF SkipEmptyValue, PresencePasses, SkipOptionalNil, RequiredIfFails,
              recordRuleError, AbortOrNext
<1>5. CASE NothingToExec \/ ExecAccepts \/ ExecFails \/ ExecComputes
  BY <1>5 DEF NothingToExec, ExecAccepts, ExecFails, ExecComputes, recordRuleError, AbortOrNext
<1> QED
  BY <1>2, <1>3, <1>4, <1>5 DEF RuleStep

\* A stage either records one error, with all the bookkeeping that goes with
\* it, or leaves the verdict alone.
RecordsError ==
  /\ AtStage
  /\ \E code \in RuleCode : errors' = Append(errors, [path |-> R.path, code |-> code])
  /\ valid' = FALSE
  /\ failedPaths' = failedPaths \cup {R.path} /\ priorityHasError' = TRUE
  /\ fate'[rule] \in {"ran", "faulted"}
  /\ currentPriority' = currentPriority

LEMMA LoopVerdict ==
  ASSUME TypeOK, RuleStep
  PROVE  RecordsError \/ UNCHANGED <<valid, errors, priorityHasError>>
<1> USE DEF TypeOK, AtStage, NextRule, recordRuleError, AbortOrNext, markFailed,
            RuleCode, WithError, NoVerdict, InRule, result, loop
<1>0. rule \in DOMAIN Rules
  BY LoopCursor, CallFacts
<1>1. CASE InheritCUEFailure \/ LeaveFailedGroup \/ StopPastLowest
           \/ SuppressByFailFast \/ EnterRule
  BY <1>1 DEF InheritCUEFailure, LeaveFailedGroup, StopPastLowest, SuppressByFailFast,
              EnterRule, MarkInherited
<1>2. CASE SkipIfPasses \/ SkipIfSkips \/ SkipEmptyValue \/ PresencePasses \/ SkipOptionalNil
           \/ NothingToExec \/ ExecAccepts \/ ExecComputes
  BY <1>2 DEF SkipIfPasses, SkipIfSkips, SkipEmptyValue, PresencePasses, SkipOptionalNil,
              NothingToExec, ExecAccepts, ExecComputes
<1>3. CASE SkipIfFaults
  BY <1>0, <1>3 DEF SkipIfFaults, RecordsError
<1>4. CASE RequiredIfFails
  BY <1>0, <1>4 DEF RequiredIfFails, RecordsError
<1>5. CASE ExecFails
  BY <1>0, <1>5 DEF ExecFails, RecordsError
<1> QED
  BY <1>1, <1>2, <1>3, <1>4, <1>5 DEF RuleStep

\* What the stages do to the output, the marked paths and the current group.
LEMMA LoopData ==
  ASSUME TypeOK, RuleStep
  PROVE  /\ output' \in [Path -> OutputTag] \cup {NoOutput}
         /\ failedPaths' \subseteq Path
         /\ currentPriority' \in Priority \cup {-1}
         /\ UNCHANGED <<nCUEErrors, scopes>>
<1>0. R.path \in Path /\ M.priority \in Priority
  BY LoopCursor, CurrentRule DEF TypeOK
<1> USE <1>0 DEF TypeOK, NextRule, recordRuleError, AbortOrNext, markFailed, MarkInherited,
            NoVerdict, InRule, Omit, OutputTag, TransitionGroup, result, loop, scopes
<1>1. CASE InheritCUEFailure \/ LeaveFailedGroup \/ StopPastLowest
           \/ SuppressByFailFast \/ EnterRule
  BY <1>1 DEF InheritCUEFailure, LeaveFailedGroup, StopPastLowest, SuppressByFailFast, EnterRule
<1>2. CASE SkipIfPasses \/ SkipIfSkips \/ SkipEmptyValue \/ PresencePasses \/ SkipOptionalNil
           \/ NothingToExec \/ ExecAccepts \/ ExecComputes
  BY <1>2 DEF SkipIfPasses, SkipIfSkips, SkipEmptyValue, PresencePasses, SkipOptionalNil,
              NothingToExec, ExecAccepts, ExecComputes
<1>3. CASE SkipIfFaults
  BY <1>3 DEF SkipIfFaults
<1>4. CASE RequiredIfFails
  BY <1>4 DEF RequiredIfFails
<1>5. CASE ExecFails
  BY <1>5 DEF ExecFails
<1> QED
  BY <1>1, <1>2, <1>3, <1>4, <1>5 DEF RuleStep

LEMMA TypeLoop ==
  ASSUME TypeOK, RuleStep \/ BeginBlobLayer \/ LoopDone \/ EndBlobLayer
  PROVE  TypeOK'
<1>0. Len(errors) \in Nat
  BY LenProperties DEF TypeOK
<1> USE DEF TypeOK, Stages, AtStage, Fields, Rules, walk, narrow, loop, scopes, report, result
<1>1. CASE BeginBlobLayer
  BY <1>0, <1>1 DEF BeginBlobLayer, BeginScope, Layer
<1>2. CASE LoopDone
  BY <1>2 DEF LoopDone
<1>3. CASE EndBlobLayer
  BY <1>3 DEF EndBlobLayer, EndScope, Layer
<1>4. CASE RuleStep
  <2>1. errors' \in Seq(ErrorRec)
    <3>1. CASE UNCHANGED errors
      BY <3>1
    <3>2. CASE RecordsError
      <4>1. R.path \in Path
        BY <1>4, LoopCursor, CurrentRule
      <4>2. PICK code \in RuleCode : errors' = Append(errors, [path |-> R.path, code |-> code])
        BY <3>2 DEF RecordsError
      <4>3. [path |-> R.path, code |-> code] \in ErrorRec
        BY <4>1 DEF ErrorRec, ErrorCode, ErrPath
      <4> QED
        BY <4>2, <4>3, AppendProperties
    <3> QED
      BY <1>4, <3>1, <3>2, LoopVerdict
  <2>2. valid' \in BOOLEAN /\ priorityHasError' \in BOOLEAN
    BY <1>4, LoopVerdict DEF RecordsError
  <2>3. fate' \in [DOMAIN Rules -> Fate]
    BY <1>4, LoopCursor, CallFacts
  <2>4. UNCHANGED <<call, at, found, decisions, lowest, readIdx, writeIdx, validations, codes>>
    BY <1>4, LoopFrame
  <2>5. pc' \in Stages /\ rule' \in 1 .. Len(Rules) + 1 /\ (AtStage' => rule' <= Len(Rules))
    BY <1>4, LoopCursor
  <2>6. /\ output' \in [Path -> OutputTag] \cup {NoOutput} /\ failedPaths' \subseteq Path
        /\ currentPriority' \in Priority \cup {-1} /\ UNCHANGED <<nCUEErrors, begun, ended>>
    BY <1>4, LoopData
  <2> QED
    BY <2>1, <2>2, <2>3, <2>4, <2>5, <2>6
<1> QED
  BY <1>1, <1>2, <1>3, <1>4

LEMMA TypeStep ==
  ASSUME TypeOK, NarrowInv, [Next]_vars
  PROVE  TypeOK'
<1>1. CASE UNCHANGED vars
  BY <1>1 DEF TypeOK, Stages, AtStage, Fields, Rules, vars, walk, narrow, loop, scopes,
              report, result
<1>2. CASE Next
  BY <1>1, <1>2, TypeEntry, TypeWalk, TypeNarrow, TypeLoop DEF Next, Returned
<1> QED
  BY <1>1, <1>2

----------------------------------------------------------------------------
(* Narrowing keeps an error, so the verdict and the errors agree.          *)

LEMMA VerdictInit == Init => NarrowInv /\ ErrorsIffInvalid
BY DEF Init, NarrowInv, ErrorsIffInvalid

LEMMA VerdictWalk ==
  ASSUME IInv, RejectInput \/ BeginCall \/ VisitField \/ FailFastReturn \/ StartNarrowing \/ PassToBlob
  PROVE  NarrowInv' /\ ErrorsIffInvalid'
<1> USE DEF IInv, walk, narrow, loop, scopes, report, result
<1>0. errors \in Seq(ErrorRec) /\ Len(errors) \in Nat /\ (errors = << >> <=> Len(errors) = 0)
  BY LenProperties, EmptySeq DEF TypeOK
<1>1. CASE RejectInput
  BY <1>1 DEF RejectInput, NarrowInv, ErrorsIffInvalid
<1>2. CASE BeginCall
  BY <1>2 DEF BeginCall, NarrowInv, ErrorsIffInvalid
<1>3. CASE VisitField
  <2>1. PICK paths \in Seq(ErrPath) :
          RecordFieldErrors(paths) \/ UNCHANGED <<valid, errors, found>>
    BY <1>3, VisitRecords
  <2>2. ErrorsIffInvalid'
    <3>1. CASE RecordFieldErrors(paths)
      <4>1. errors' = << >> <=> errors = << >> /\ paths = << >>
        BY <3>1, Recording
      <4>2. valid' <=> valid /\ paths = << >>
        BY <3>1, Zenon DEF RecordFieldErrors
      <4> QED
        BY <4>1, <4>2, Zenon DEF ErrorsIffInvalid
    <3>2. CASE UNCHANGED <<valid, errors, found>>
      BY <3>2 DEF ErrorsIffInvalid
    <3> QED
      BY <2>1, <3>1, <3>2
  <2>3. NarrowInv'
    BY <1>3, VisitRecords DEF NarrowInv
  <2> QED
    BY <2>2, <2>3
<1>4. CASE FailFastReturn
  <2>1. Truncated(errors) # << >>
    BY <1>0, <1>4, SubSeqProperties DEF FailFastReturn, EndWalk, Truncated, ErrorsIffInvalid
  <2> QED
    BY <1>4, <2>1 DEF FailFastReturn, EndWalk, NarrowInv, ErrorsIffInvalid
<1>5. CASE StartNarrowing
  BY <1>0, <1>5 DEF StartNarrowing, EndWalk, NarrowInv, ErrorsIffInvalid
<1>6. CASE PassToBlob
  BY <1>6 DEF PassToBlob, EndWalk, NarrowInv, ErrorsIffInvalid
<1> QED
  BY <1>1, <1>2, <1>3, <1>4, <1>5, <1>6

LEMMA VerdictNarrow ==
  ASSUME IInv, ScanError \/ ScanDone \/ KeepError \/ DropError \/ FilterDone
  PROVE  NarrowInv' /\ ErrorsIffInvalid'
<1> USE DEF IInv, Narrowing, NextRead, walk, narrow, loop, scopes, report, result
<1>0. errors \in Seq(ErrorRec) /\ Len(errors) \in Nat /\ (errors = << >> <=> Len(errors) = 0)
  BY LenProperties, EmptySeq DEF TypeOK
<1>1. \A p : fieldPriorityByPath(p) \in Int /\ fieldPriorityByPath(p) <= MaxInt
  BY PriorityOfPath, PriorityAssumption DEF TypeOK
<1>2. lowest \in Int /\ readIdx \in Nat \ {0} /\ writeIdx \in Nat
  BY PriorityAssumption DEF TypeOK
<1>3. call' = call => \A p : fieldPriorityByPath(p)' = fieldPriorityByPath(p)
  BY DEF fieldPriorityByPath, Fields
<1>4. CASE ScanError
  <2> DEFINE p == Prio(readIdx)
  <2>1. /\ pc = "lowest" /\ pc' = "lowest" /\ readIdx <= Len(errors) /\ readIdx' = readIdx + 1
        /\ lowest' = IF p < lowest THEN p ELSE lowest
        /\ UNCHANGED <<errors, valid, call, writeIdx>>
    BY <1>4 DEF ScanError, Prio
  <2>2. \A k : Prio(k)' = Prio(k)
    BY <1>3, <2>1 DEF Prio
  <2>3. \A k : Prio(k) \in Int
    BY <1>1 DEF Prio
  <2>4. \A k \in 1 .. readIdx : lowest' <= Prio(k)
    BY <1>2, <2>1, <2>3 DEF NarrowInv
  <2>5. lowest' = MaxInt \/ \E k \in 1 .. readIdx : Prio(k) = lowest'
    BY <1>2, <2>1 DEF NarrowInv
  <2>6. NarrowInv'
    BY <1>2, <2>1, <2>2, <2>4, <2>5 DEF NarrowInv
  <2> QED
    BY <2>1, <2>6 DEF ErrorsIffInvalid
<1>5. CASE ScanDone
  <2>1. /\ pc = "lowest" /\ pc' = "filter" /\ readIdx = Len(errors) + 1 /\ readIdx' = 1
        /\ UNCHANGED <<errors, valid, call, writeIdx, lowest>>
    BY <1>0, <1>2, <1>5 DEF ScanDone, NarrowInv
  <2>2. \A k : Prio(k)' = Prio(k)
    BY <1>3, <2>1 DEF Prio
  <2>3. Len(errors) > 0
    BY <1>0, <2>1 DEF NarrowInv, ErrorsIffInvalid
  <2>4. \E k \in 1 .. Len(errors) : Prio(k) = lowest
    <3>1. CASE lowest = MaxInt
      <4>1. lowest <= Prio(1) /\ Prio(1) <= MaxInt /\ Prio(1) \in Int
        BY <1>0, <1>1, <2>1, <2>3 DEF NarrowInv, Prio
      <4> QED
        BY <1>0, <1>2, <2>3, <3>1, <4>1
    <3> QED
      BY <1>0, <2>1, <3>1 DEF NarrowInv
  <2>5. NarrowInv'
    BY <1>0, <2>1, <2>2, <2>4 DEF NarrowInv
  <2> QED
    BY <2>1, <2>5 DEF ErrorsIffInvalid
<1>6. CASE KeepError
  <2>1. /\ pc = "filter" /\ pc' = "filter" /\ readIdx <= Len(errors) /\ readIdx' = readIdx + 1
        /\ writeIdx' = writeIdx + 1 /\ writeIdx < readIdx
        /\ errors' = [errors EXCEPT ![writeIdx + 1] = errors[readIdx]]
        /\ UNCHANGED <<valid, call, lowest>>
    BY <1>6 DEF KeepError, NarrowInv
  <2>2. errors' # << >> /\ Len(errors') = Len(errors)
    BY <1>0, <1>2, <2>1, ExceptSeq, ElementOfSeq, EmptySeq
  <2>3. NarrowInv'
    BY <1>2, <2>1, <2>2 DEF NarrowInv
  <2> QED
    BY <2>1, <2>2, <2>3 DEF ErrorsIffInvalid, NarrowInv
<1>7. CASE DropError
  <2>1. /\ pc = "filter" /\ pc' = "filter" /\ readIdx <= Len(errors) /\ readIdx' = readIdx + 1
        /\ Prio(readIdx) # lowest
        /\ UNCHANGED <<errors, valid, call, lowest, writeIdx>>
    BY <1>7 DEF DropError, InLowestGroup, Prio
  <2>2. \A k : Prio(k)' = Prio(k)
    BY <1>3, <2>1 DEF Prio
  <2>3. NarrowInv'
    BY <1>0, <1>2, <2>1, <2>2 DEF NarrowInv
  <2> QED
    BY <2>1, <2>3 DEF ErrorsIffInvalid
<1>8. CASE FilterDone
  <2>1. /\ writeIdx \in 1 .. Len(errors) /\ errors' = SubSeq(errors, 1, writeIdx)
        /\ pc' = "blob" /\ ~valid' 
    BY <1>0, <1>2, <1>8 DEF FilterDone, NarrowInv
  <2>2. Len(errors') = writeIdx /\ errors' # << >>
    BY <1>0, <2>1, SubSeqProperties, EmptySeq
  <2> QED
    BY <2>1, <2>2 DEF NarrowInv, ErrorsIffInvalid
<1> QED
  BY <1>4, <1>5, <1>6, <1>7, <1>8

LEMMA VerdictLoop ==
  ASSUME IInv, RuleStep \/ BeginBlobLayer \/ LoopDone \/ EndBlobLayer
               \/ RunDeferred \/ ReportValidation
  PROVE  NarrowInv' /\ ErrorsIffInvalid'
<1> USE DEF IInv, walk, narrow, loop, scopes, report, result
<1>1. CASE BeginBlobLayer \/ LoopDone \/ EndBlobLayer \/ RunDeferred \/ ReportValidation
  BY <1>1 DEF BeginBlobLayer, LoopDone, EndBlobLayer, RunDeferred, ReportValidation,
              NarrowInv, ErrorsIffInvalid
<1>2. CASE RuleStep
  <2>1. NarrowInv'
    BY <1>2, LoopCursor DEF NarrowInv
  <2>2. ASSUME RecordsError PROVE ErrorsIffInvalid'
    BY <2>2, AppendProperties, EmptySeq DEF RecordsError, ErrorsIffInvalid, TypeOK
  <2>3. ErrorsIffInvalid'
    BY <1>2, <2>2, LoopVerdict DEF ErrorsIffInvalid
  <2> QED
    BY <2>1, <2>3
<1> QED
  BY <1>1, <1>2

LEMMA InductiveStep == IInv /\ [Next]_vars => IInv'
<1> SUFFICES ASSUME IInv, [Next]_vars PROVE IInv'
  OBVIOUS
<1>1. TypeOK'
  BY TypeStep DEF IInv
<1>2. CASE UNCHANGED vars
  <2>1. UNCHANGED <<call, pc, valid, errors, found, lowest, readIdx, writeIdx>>
    BY <1>2 DEF vars, walk, narrow, result
  <2>2. \A k : Prio(k)' = Prio(k)
    BY <2>1 DEF Prio, fieldPriorityByPath, Fields
  <2> QED
    BY <1>1, <2>1, <2>2 DEF IInv, NarrowInv, ErrorsIffInvalid
<1>3. CASE Next
  BY <1>1, <1>2, <1>3, VerdictWalk, VerdictNarrow, VerdictLoop DEF Next, Returned, IInv
<1> QED
  BY <1>2, <1>3

LEMMA Inductive == Spec => []IInv
<1>1. Init => IInv
  BY InitType, VerdictInit DEF IInv
<1> QED
  BY <1>1, InductiveStep, PTL DEF Spec

\* Every variable of a call has its type, whatever the schema and the input;
\* in particular the loop never indexes past the last rule.
THEOREM TypeCorrect == Spec => []TypeOK
<1>1. IInv => TypeOK
  BY DEF IInv
<1> QED
  BY <1>1, Inductive, PTL

\* A caller may test Result.Valid or len(Result.Errors): they agree at every
\* step, because narrowing always keeps an error of the lowest group.
THEOREM VerdictMatchesErrors == Spec => []ErrorsIffInvalid
<1>1. IInv => ErrorsIffInvalid
  BY DEF IInv
<1> QED
  BY <1>1, Inductive, PTL
----------------------------------------------------------------------------
(* FailPriority: a group in which a rule failed is the last one entered.   *)

P(k) == Rules[k].meta.priority

PreLoop == pc \in {"start", "walk", "lowest", "filter", "blob"}

NoRuleError == \A k \in DOMAIN errors : errors[k].code \notin RuleCode

\* The group flag says whether the rule loop has appended an error.
FlagInv ==
  /\ PreLoop => NoRuleError
  /\ priorityHasError <=> RuleErrors # {}

\* The current group is the one of the rule being evaluated, no rule ahead
\* lies below it, no evaluated rule above it, and it holds every failed rule.
GroupInv ==
  call.mode = "priority" /\ NonNegative =>
    /\ \A k \in DOMAIN Rules : rule <= k => currentPriority <= P(k)
    /\ AtStage => currentPriority = P(rule)
    /\ \A k \in DOMAIN Rules : Evaluated(k) => P(k) <= currentPriority
    /\ \A j \in RuleErrors : \E i \in DOMAIN Rules :
         Rules[i].path = errors[j].path /\ P(i) = currentPriority

\* P is a priority, and sortBlobRules has put the rules in its order.
LEMMA RulePriorities ==
  ASSUME TypeOK
  PROVE  /\ DOMAIN Rules = 1 .. Len(Rules) /\ Len(Rules) \in Nat
         /\ \A k \in DOMAIN Rules : Rules[k] \in Rule /\ P(k) \in Priority /\ P(k) \in Int
         /\ \A j, k \in DOMAIN Rules : j <= k => P(j) <= P(k)
         /\ currentPriority \in Int
<1>1. Rules \in Seq(Rule) /\ CompiledSchema(call.schema)
  BY CallFacts DEF TypeOK
<1>2. DOMAIN Rules = 1 .. Len(Rules) /\ Len(Rules) \in Nat
  BY <1>1, LenProperties
<1>3. \A k \in DOMAIN Rules : Rules[k] \in Rule
  BY <1>1, ElementOfSeq, <1>2
<1>4. \A k \in DOMAIN Rules : P(k) \in Priority /\ P(k) \in Int
  BY <1>3, PriorityAssumption DEF P, Rule, Meta
<1>5. \A j, k \in DOMAIN Rules : j < k => P(j) <= P(k)
  BY <1>1 DEF CompiledSchema, SortedByPriority, P, Rules
<1>6. \A j, k \in DOMAIN Rules : j <= k => P(j) <= P(k)
  BY <1>2, <1>4, <1>5
<1> QED
  BY <1>2, <1>3, <1>4, <1>6, PriorityAssumption DEF TypeOK

\* Up to the rule loop, no step touches the loop's state or adds a rule error.
LEMMA EarlySteps ==
  ASSUME IInv, FlagInv,
         RejectInput \/ BeginCall \/ VisitField \/ FailFastReturn \/ StartNarrowing \/ PassToBlob
         \/ ScanError \/ ScanDone \/ KeepError \/ DropError \/ FilterDone \/ BeginBlobLayer
  PROVE  /\ NoRuleError /\ NoRuleError' /\ ~AtStage'
         /\ UNCHANGED <<call, rule, currentPriority, failedPaths, priorityHasError, fate>>
<1> USE DEF IInv, PreLoop, AtStage, walk, narrow, loop, scopes, report, result
<1>0. errors \in Seq(ErrorRec) /\ Len(errors) \in Nat /\ DOMAIN errors = 1 .. Len(errors)
  BY LenProperties DEF TypeOK
<1>1. CASE RejectInput
  BY <1>1 DEF RejectInput, FlagInv, NoRuleError, RuleCode
<1>2. CASE BeginCall
  BY <1>2 DEF BeginCall, FlagInv, NoRuleError
<1>3. CASE VisitField
  <2>1. pc = "walk" /\ UNCHANGED <<call, pc, loop>>
    BY <1>3, VisitRecords DEF TypeOK
  <2>2. PICK paths \in Seq(ErrPath) :
          RecordFieldErrors(paths) \/ UNCHANGED <<valid, errors, found>>
    BY <1>3, VisitRecords
  <2>3. ASSUME RecordFieldErrors(paths) PROVE NoRuleError'
    <3> DEFINE new == CUEErrors(paths)
    <3>1. /\ new \in Seq(ErrorRec) /\ Len(new) \in Nat
          /\ \A k \in 1 .. Len(new) : new[k].code = "cue"
      <4>1. /\ new \in Seq(ErrorRec) /\ Len(new) = Len(paths)
            /\ \A k \in 1 .. Len(paths) : new[k].code = "cue"
        BY CUEErrorsType
      <4>2. Len(new) \in Nat
        BY <4>1, LenProperties
      <4>3. \A k \in 1 .. Len(new) : new[k].code = "cue"
        BY <4>1
      <4> QED
        BY <4>1, <4>2, <4>3
    <3>2. errors' = errors \o new
      BY <2>3 DEF RecordFieldErrors
    <3>3. /\ DOMAIN errors' = 1 .. Len(errors) + Len(new)
          /\ \A k \in 1 .. Len(errors) + Len(new) :
               errors'[k] = IF k <= Len(errors) THEN errors[k] ELSE new[k - Len(errors)]
      BY <1>0, <3>1, <3>2, ConcatProperties
    <3>4. \A k \in DOMAIN errors' : errors'[k].code \notin RuleCode
      <4> SUFFICES ASSUME NEW k \in DOMAIN errors' PROVE errors'[k].code \notin RuleCode
        OBVIOUS
      <4>1. CASE k <= Len(errors)
        BY <1>0, <2>1, <3>1, <3>3, <4>1 DEF FlagInv, NoRuleError
      <4>2. CASE k > Len(errors)
        <5>1. k - Len(errors) \in 1 .. Len(new) /\ errors'[k] = new[k - Len(errors)]
          BY <1>0, <3>1, <3>3, <4>2
        <5> QED
          BY <3>1, <5>1 DEF RuleCode
      <4> QED
        BY <1>0, <3>1, <3>3, <4>1, <4>2
    <3> QED
      BY <3>4 DEF NoRuleError
  <2> QED
    BY <2>1, <2>2, <2>3 DEF FlagInv, NoRuleError
<1>4. CASE FailFastReturn
  <2>1. DOMAIN Truncated(errors) \subseteq DOMAIN errors
        /\ \A k \in DOMAIN Truncated(errors) : Truncated(errors)[k] = errors[k]
    BY <1>0, SubSeqProperties DEF Truncated
  <2> QED
    BY <1>4, <2>1 DEF FailFastReturn, EndWalk, FlagInv, NoRuleError
<1>5. CASE StartNarrowing \/ PassToBlob
  BY <1>5 DEF StartNarrowing, PassToBlob, EndWalk, FlagInv, NoRuleError
<1>6. CASE ScanError \/ ScanDone \/ DropError
  BY <1>6 DEF ScanError, ScanDone, DropError, Narrowing, FlagInv, NoRuleError
<1>7. CASE KeepError
  BY <1>0, <1>7 DEF KeepError, Narrowing, FlagInv, NoRuleError, TypeOK
<1>8. CASE FilterDone
  <2>1. writeIdx \in 0 .. Len(errors)
    BY <1>0, <1>8 DEF FilterDone, NarrowInv, TypeOK
  <2>2. DOMAIN SubSeq(errors, 1, writeIdx) \subseteq DOMAIN errors
        /\ \A k \in DOMAIN SubSeq(errors, 1, writeIdx) : SubSeq(errors, 1, writeIdx)[k] = errors[k]
    BY <1>0, <2>1, SubSeqProperties
  <2> QED
    BY <1>8, <2>2 DEF FilterDone, Narrowing, FlagInv, NoRuleError
<1>9. CASE BeginBlobLayer
  BY <1>9 DEF BeginBlobLayer, FlagInv, NoRuleError
<1> QED
  BY <1>1, <1>2, <1>3, <1>4, <1>5, <1>6, <1>7, <1>8, <1>9
\* After the rule loop nothing the invariant speaks of changes.
LEMMA LateSteps ==
  ASSUME LoopDone \/ EndBlobLayer \/ RunDeferred \/ ReportValidation \/ UNCHANGED vars
  PROVE  /\ UNCHANGED <<call, errors, rule, currentPriority, failedPaths, priorityHasError, fate>>
         /\ AtStage' => AtStage /\ pc' = pc
         /\ PreLoop' => PreLoop
BY DEF LoopDone, EndBlobLayer, RunDeferred, ReportValidation, vars, result, loop, AtStage, PreLoop

\* The head of the loop body: it evaluates nothing, and moves to another group
\* only while the group flag is clear.
LoopHead ==
  InheritCUEFailure \/ LeaveFailedGroup \/ StopPastLowest \/ SuppressByFailFast \/ EnterRule

LEMMA HeadStep ==
  ASSUME TypeOK, LoopHead
  PROVE  /\ UNCHANGED <<call, errors, priorityHasError>>
         /\ AtStage' => rule' = rule /\ EnterRule
         /\ \A k \in DOMAIN Rules : Evaluated(k)' => Evaluated(k)
         /\ ~AtStage
         /\ \/ currentPriority' = currentPriority /\ ~EnterRule
            \/ TransitionGroup /\ ~GroupFailed
BY DEF TypeOK, LoopHead, InheritCUEFailure, LeaveFailedGroup, StopPastLowest, SuppressByFailFast,
       EnterRule, NextRule, MarkInherited, AtRule, AtStage, Evaluated, result, loop

\* A stage of the current rule leaves the group alone and may evaluate only it.
LEMMA StageStep ==
  ASSUME TypeOK, RuleStep, ~LoopHead
  PROVE  /\ AtStage /\ UNCHANGED <<call, currentPriority>>
         /\ \A k \in DOMAIN Rules : k # rule => (Evaluated(k)' <=> Evaluated(k))
         /\ AtStage' => rule' = rule
<1>1. AtStage /\ UNCHANGED <<call, currentPriority>>
  BY DEF RuleStep, LoopHead, AtStage, InRule, SkipIfPasses, SkipIfFaults, SkipIfSkips,
         SkipEmptyValue, PresencePasses, SkipOptionalNil, RequiredIfFails,
         NothingToExec, ExecAccepts, ExecFails, ExecComputes
<1>2. AtStage' => rule' = rule
  BY LoopCursor DEF AtStage
<1>3. \A k \in DOMAIN Rules : k # rule => fate'[k] = fate[k]
  BY LoopCursor DEF TypeOK
<1> QED
  BY <1>1, <1>2, <1>3 DEF Evaluated

\* Appending a rule error adds exactly its index to RuleErrors.
LEMMA RuleErrorsAppend ==
  ASSUME TypeOK, NEW code \in RuleCode, NEW path \in ErrPath,
         errors' = Append(errors, [path |-> path, code |-> code])
  PROVE  /\ RuleErrors' = RuleErrors \cup {Len(errors) + 1}
         /\ errors'[Len(errors) + 1].path = path
         /\ \A j \in RuleErrors : errors'[j] = errors[j] /\ j # Len(errors) + 1
<1> DEFINE e == [path |-> path, code |-> code]
<1>1. Len(errors) \in Nat /\ DOMAIN errors = 1 .. Len(errors)
  BY LenProperties DEF TypeOK
<1>2. e \in ErrorRec
  BY DEF ErrorRec, ErrorCode
<1>3. /\ DOMAIN errors' = 1 .. Len(errors) + 1
      /\ \A k \in 1 .. Len(errors) : errors'[k] = errors[k]
      /\ errors'[Len(errors) + 1] = e
  BY <1>1, <1>2, AppendProperties, LenProperties DEF TypeOK
<1> QED
  BY <1>1, <1>3 DEF RuleErrors

LEMMA FlagStep ==
  ASSUME IInv, FlagInv, [Next]_vars
  PROVE  FlagInv'
<1>1. CASE RejectInput \/ BeginCall \/ VisitField \/ FailFastReturn \/ StartNarrowing
           \/ PassToBlob \/ ScanError \/ ScanDone \/ KeepError \/ DropError \/ FilterDone
           \/ BeginBlobLayer
  <2>1. NoRuleError /\ NoRuleError' /\ priorityHasError' = priorityHasError
    BY <1>1, EarlySteps
  <2>2. RuleErrors = {} /\ RuleErrors' = {}
    BY <2>1 DEF NoRuleError, RuleErrors
  <2> QED
    BY <2>1, <2>2 DEF FlagInv
<1>2. CASE LoopDone \/ EndBlobLayer \/ RunDeferred \/ ReportValidation \/ UNCHANGED vars
  BY <1>2, LateSteps DEF FlagInv, RuleErrors, NoRuleError
<1>3. CASE RuleStep
  <2>1. ~PreLoop'
    BY <1>3, LoopCursor DEF IInv, PreLoop
  <2>2. CASE UNCHANGED <<valid, errors, priorityHasError>>
    BY <2>1, <2>2 DEF FlagInv, RuleErrors
  <2>3. CASE RecordsError
    <3>1. R.path \in ErrPath
      BY <1>3, LoopCursor, CurrentRule DEF IInv, TypeOK, ErrPath
    <3>2. PICK code \in RuleCode : errors' = Append(errors, [path |-> R.path, code |-> code])
      BY <2>3 DEF RecordsError
    <3>3. RuleErrors' # {}
      BY <3>1, <3>2, RuleErrorsAppend DEF IInv
    <3>4. priorityHasError'
      BY <2>3 DEF RecordsError
    <3> QED
      BY <2>1, <3>3, <3>4 DEF FlagInv
  <2> QED
    BY <1>3, <2>2, <2>3, LoopVerdict DEF IInv
<1> QED
  BY <1>1, <1>2, <1>3 DEF Next, Returned

LEMMA GroupStep ==
  ASSUME IInv, FlagInv, GroupInv, [Next]_vars
  PROVE  GroupInv'
<1> SUFFICES ASSUME call'.mode = "priority", NonNegative' PROVE
      /\ \A k \in DOMAIN Rules' : rule' <= k => currentPriority' <= P(k)'
      /\ AtStage' => currentPriority' = P(rule)'
      /\ \A k \in DOMAIN Rules' : Evaluated(k)' => P(k)' <= currentPriority'
      /\ \A j \in RuleErrors' : \E i \in DOMAIN Rules' :
           Rules'[i].path = errors'[j].path /\ P(i)' = currentPriority'
  BY DEF GroupInv
<1>0. TypeOK
  BY DEF IInv
<1>1. call' = call
  <2>1. CASE RuleStep
    BY <2>1, LoopFrame
  <2> QED
    BY <2>1, EarlySteps, LateSteps DEF Next, Returned
<1>2. Rules' = Rules /\ \A k : P(k)' = Rules[k].meta.priority
  BY <1>1 DEF Rules, P
<1>3. call.mode = "priority" /\ NonNegative
  BY <1>1, <1>2 DEF NonNegative
<1>4. /\ \A k \in DOMAIN Rules : rule <= k => currentPriority <= P(k)
      /\ AtStage => currentPriority = P(rule)
      /\ \A k \in DOMAIN Rules : Evaluated(k) => P(k) <= currentPriority
      /\ \A j \in RuleErrors : \E i \in DOMAIN Rules :
           Rules[i].path = errors[j].path /\ P(i) = currentPriority
  BY <1>3 DEF GroupInv
<1>5. CASE RejectInput \/ BeginCall \/ VisitField \/ FailFastReturn \/ StartNarrowing
           \/ PassToBlob \/ ScanError \/ ScanDone \/ KeepError \/ DropError \/ FilterDone
           \/ BeginBlobLayer
  <2>1. RuleErrors' = {}
    BY <1>5, EarlySteps DEF NoRuleError, RuleErrors
  <2>2. UNCHANGED <<rule, currentPriority, fate>> /\ ~AtStage'
    BY <1>5, EarlySteps
  <2> QED
    BY <1>2, <1>4, <2>1, <2>2 DEF P, Evaluated
<1>6. CASE LoopDone \/ EndBlobLayer \/ RunDeferred \/ ReportValidation \/ UNCHANGED vars
  <2>1. UNCHANGED <<call, errors, rule, currentPriority, fate>> /\ (AtStage' => AtStage)
    BY <1>6, LateSteps
  <2>2. RuleErrors' = RuleErrors
    BY <2>1 DEF RuleErrors
  <2> QED
    BY <1>2, <1>4, <2>1, <2>2 DEF P, Evaluated
<1>7. CASE RuleStep /\ LoopHead
  <2>1. rule \in DOMAIN Rules /\ (rule' = rule \/ rule' = rule + 1)
    BY <1>0, <1>7, LoopCursor, RulePriorities
  <2>2. /\ UNCHANGED <<errors, priorityHasError>>
        /\ AtStage' => rule' = rule /\ EnterRule
        /\ \A k \in DOMAIN Rules : Evaluated(k)' => Evaluated(k)
        /\ \/ currentPriority' = currentPriority /\ ~EnterRule
           \/ TransitionGroup /\ ~GroupFailed
    BY <1>0, <1>7, HeadStep
  <2>3. RuleErrors' = RuleErrors
    BY <2>2 DEF RuleErrors
  <2>4. /\ DOMAIN Rules = 1 .. Len(Rules) /\ Len(Rules) \in Nat /\ currentPriority \in Int
        /\ \A k \in DOMAIN Rules : P(k) \in Int
        /\ \A j, k \in DOMAIN Rules : j <= k => P(j) <= P(k)
    BY <1>0, RulePriorities
  <2>5. CASE currentPriority' = currentPriority /\ ~EnterRule
    BY <1>2, <1>4, <2>1, <2>2, <2>3, <2>4, <2>5 DEF P
  <2>6. CASE TransitionGroup /\ ~GroupFailed
    <3>1. currentPriority' = P(rule) /\ currentPriority <= P(rule)
      BY <1>3, <1>4, <2>1, <2>4, <2>6 DEF TransitionGroup, EntersGroup, M, R, P
    <3>2. currentPriority' = currentPriority \/ RuleErrors = {}
      BY <1>3, <2>6 DEF TransitionGroup, GroupFailed, FlagInv
    <3>3. \A k \in DOMAIN Rules : rule' <= k => P(rule) <= P(k)
      BY <2>1, <2>4
    <3>4. \A k \in DOMAIN Rules : Evaluated(k)' => P(k) <= P(rule)
      BY <1>4, <2>1, <2>2, <2>4, <3>1
    <3> QED
      BY <1>2, <1>4, <2>2, <2>3, <3>1, <3>2, <3>3, <3>4 DEF P
  <2> QED
    BY <2>2, <2>5, <2>6
<1>8. CASE RuleStep /\ ~LoopHead
  <2>1. rule \in DOMAIN Rules /\ (rule' = rule \/ rule' = rule + 1)
    BY <1>0, <1>8, LoopCursor, RulePriorities
  <2>2. /\ AtStage /\ currentPriority' = currentPriority
        /\ \A k \in DOMAIN Rules : k # rule => (Evaluated(k)' <=> Evaluated(k))
        /\ AtStage' => rule' = rule
    BY <1>0, <1>8, StageStep
  <2>3. currentPriority = P(rule) /\ currentPriority \in Int /\ DOMAIN Rules \subseteq Int
    BY <1>0, <1>4, <2>2, RulePriorities
  <2>4. \A k \in DOMAIN Rules : rule' <= k => currentPriority <= P(k)
    BY <1>4, <2>1, <2>3
  <2>5. \A k \in DOMAIN Rules : Evaluated(k)' => P(k) <= currentPriority
    BY <1>4, <2>2, <2>3
  <2>6. \A j \in RuleErrors' : \E i \in DOMAIN Rules :
          Rules[i].path = errors'[j].path /\ P(i) = currentPriority
    <3>1. CASE UNCHANGED errors
      BY <1>4, <3>1 DEF RuleErrors
    <3>2. CASE RecordsError
      <4>1. R.path \in ErrPath
        BY <1>0, <1>8, LoopCursor, CurrentRule DEF TypeOK, ErrPath
      <4>2. PICK code \in RuleCode : errors' = Append(errors, [path |-> R.path, code |-> code])
        BY <3>2 DEF RecordsError
      <4>3. /\ RuleErrors' = RuleErrors \cup {Len(errors) + 1}
            /\ errors'[Len(errors) + 1].path = R.path
            /\ \A j \in RuleErrors : errors'[j] = errors[j]
        BY <1>0, <4>1, <4>2, RuleErrorsAppend
      <4> QED
        BY <1>4, <2>1, <2>3, <4>3 DEF R
    <3> QED
      BY <1>0, <1>8, <3>1, <3>2, LoopVerdict
  <2> QED
    BY <1>2, <2>2, <2>3, <2>4, <2>5, <2>6 DEF P
<1> QED
  BY <1>5, <1>6, <1>7, <1>8 DEF Next, Returned

LEMMA GroupInvariant == Spec => [](IInv /\ FlagInv /\ GroupInv)
<1>1. Init => FlagInv /\ GroupInv
  <2> SUFFICES ASSUME Init PROVE FlagInv /\ GroupInv
    OBVIOUS
  <2>1. TypeOK /\ RuleErrors = {} /\ NoRuleError
    BY InitType DEF Init, RuleErrors, NoRuleError
  <2>2. \A k \in DOMAIN Rules : ~Evaluated(k)
    BY DEF Init, Evaluated
  <2>3. ~AtStage /\ currentPriority = -1 /\ ~priorityHasError
    BY DEF Init, AtStage
  <2>4. NonNegative => \A k \in DOMAIN Rules : -1 <= P(k)
    BY <2>1, RulePriorities DEF NonNegative, P
  <2> QED
    BY <2>1, <2>2, <2>3, <2>4 DEF FlagInv, GroupInv
<1>2. IInv /\ FlagInv /\ GroupInv /\ [Next]_vars => (IInv /\ FlagInv /\ GroupInv)'
  BY InductiveStep, FlagStep, GroupStep
<1>3. Init => IInv
  BY InitType, VerdictInit DEF IInv
<1> QED
  BY <1>1, <1>2, <1>3, PTL DEF Spec

\* README.md:859-860, for priorities that are not negative: once a rule of a
\* group failed, FailPriority evaluates no rule of a later group.
THEOREM FailedGroupStops == Spec => []OneFailedGroup
<1>1. IInv /\ GroupInv => OneFailedGroup
  <2> SUFFICES ASSUME IInv, GroupInv, call.mode = "priority", NonNegative
               PROVE  OneFailedGroup
    BY DEF OneFailedGroup
  <2> QED
    BY DEF GroupInv, OneFailedGroup, P
<1> QED
  BY <1>1, GroupInvariant, PTL

----------------------------------------------------------------------------
(* The rule loop and what it hands back: the bookkeeping of the loop, the  *)
(* rules it may run, the rules it may leave out, and the refinement of     *)
(* PriorityGate.                                                           *)

FP(path) == fieldPriorityByPath(path)
Walked == InLoop \/ pc = "blobEnd"
Leaving == pc \in {"defer", "report", "done"}

Early ==
  \/ BeginCall \/ VisitField \/ FailFastReturn \/ StartNarrowing \/ PassToBlob
  \/ ScanError \/ ScanDone \/ KeepError \/ DropError \/ FilterDone \/ BeginBlobLayer
Late == LoopDone \/ EndBlobLayer \/ RunDeferred \/ ReportValidation \/ UNCHANGED vars

LEMMA StepCases == [Next]_vars => RejectInput \/ Early \/ RuleStep \/ Late
BY DEF Next, Early, Late, Returned

\* The priorities a schema declares do not change during a call.
LEMMA SamePriorities ==
  ASSUME call' = call
  PROVE  Rules' = Rules /\ Fields' = Fields /\ \A p : FP(p)' = FP(p)
BY DEF Rules, Fields, FP, fieldPriorityByPath

LEMMA FPType ==
  ASSUME TypeOK, NEW p
  PROVE  FP(p) \in Int /\ FP(p) <= MaxInt
BY PriorityOfPath, PriorityAssumption DEF TypeOK, FP

LEMMA ErrorsSeq ==
  ASSUME TypeOK
  PROVE  /\ Len(errors) \in Nat /\ DOMAIN errors = 1 .. Len(errors)
         /\ Len(found) \in Nat /\ DOMAIN found = 1 .. Len(found)
         /\ Len(Rules) \in Nat /\ DOMAIN Rules = 1 .. Len(Rules)
         /\ errors = << >> <=> Len(errors) = 0
BY LenProperties, EmptySeq, CallFacts DEF TypeOK

\* The elements of a concatenation.
LEMMA ConcatParts ==
  ASSUME NEW S, NEW s \in Seq(S), NEW u \in Seq(S)
  PROVE  /\ Len(s) \in Nat /\ Len(u) \in Nat
         /\ Len(s \o u) = Len(s) + Len(u) /\ DOMAIN (s \o u) = 1 .. Len(s) + Len(u)
         /\ \A k \in 1 .. Len(s) : (s \o u)[k] = s[k]
         /\ \A k \in Len(s) + 1 .. Len(s) + Len(u) :
              (s \o u)[k] = u[k - Len(s)] /\ k - Len(s) \in 1 .. Len(u)
BY ConcatProperties, LenProperties

----------------------------------------------------------------------------
(* The output of an invalid result.                                        *)

OutInv == (pc = "start" => output = NoOutput) /\ InvalidHasNoOutput

LEMMA OutStep ==
  ASSUME IInv, OutInv, [Next]_vars
  PROVE  OutInv'
<1> USE DEF IInv, OutInv, InvalidHasNoOutput, walk, narrow, loop, scopes, report, result
<1>1. CASE RejectInput
  BY <1>1 DEF RejectInput
<1>2. CASE Early
  <2>1. CASE VisitField
    BY <2>1, VisitRecords DEF IInv
  <2>2. CASE ~VisitField
    BY <1>2, <2>2 DEF Early, BeginCall, FailFastReturn, StartNarrowing, PassToBlob, EndWalk,
          ScanError, ScanDone, KeepError, DropError, FilterDone, BeginBlobLayer
  <2> QED
    BY <2>1, <2>2
<1>3. CASE RuleStep
  BY <1>3, LoopCursor
<1>4. CASE Late
  BY <1>4 DEF Late, LoopDone, EndBlobLayer, RunDeferred, ReturnedOutput,
              ReportValidation, vars
<1> QED
  BY <1>1, <1>2, <1>3, <1>4, StepCases

\* README.md:860: whichever way processInternal returns, an invalid result has
\* no output.
THEOREM InvalidDropsOutput == Spec => []InvalidHasNoOutput
<1>1. Init => OutInv
  BY DEF Init, OutInv, InvalidHasNoOutput
<1>2. OutInv => InvalidHasNoOutput
  BY DEF OutInv
<1> QED
  BY <1>1, <1>2, OutStep, Inductive, PTL DEF Spec

----------------------------------------------------------------------------
(* The prefix of CUE errors.                                               *)

AllCUE == \A k \in DOMAIN errors : errors[k].code = "cue"

PrefixInv ==
  /\ PreLoop => AllCUE
  /\ Walked => nCUEErrors <= Len(errors)
  /\ CUEPrefixStable

\* Before the rule loop an error is appended by the walk or moved by the filter.
LEMMA EarlyErrors ==
  ASSUME IInv, Early, AllCUE
  PROVE  AllCUE'
<1> USE DEF IInv, walk, narrow, loop, scopes, report, result
<1>0. errors \in Seq(ErrorRec) /\ Len(errors) \in Nat /\ DOMAIN errors = 1 .. Len(errors)
  BY LenProperties DEF TypeOK
<1>1. CASE VisitField
  <2>1. PICK paths \in Seq(ErrPath) :
          RecordFieldErrors(paths) \/ UNCHANGED <<valid, errors, found>>
    BY <1>1, VisitRecords
  <2>2. CASE RecordFieldErrors(paths)
    <3> DEFINE new == CUEErrors(paths)
    <3>1. new \in Seq(ErrorRec) /\ errors' = errors \o new /\ Len(new) = Len(paths)
          /\ \A k \in 1 .. Len(paths) : new[k].code = "cue"
      BY <2>2, CUEErrorsType DEF RecordFieldErrors
    <3>2. Len(new) \in Nat /\ \A k \in 1 .. Len(new) : new[k].code = "cue"
      BY <3>1, LenProperties
    <3> HIDE DEF new
    <3>0. /\ DOMAIN (errors \o new) = 1 .. Len(errors) + Len(new)
          /\ \A k \in 1 .. Len(errors) : (errors \o new)[k] = errors[k]
          /\ \A k \in Len(errors) + 1 .. Len(errors) + Len(new) :
               (errors \o new)[k] = new[k - Len(errors)] /\ k - Len(errors) \in 1 .. Len(new)
      <4>1. errors \in Seq(ErrorRec) /\ new \in Seq(ErrorRec)
        BY <1>0, <3>1
      <4> HIDE DEF IInv
      <4> QED
        BY <4>1, ConcatParts
    <3>3. /\ DOMAIN errors' = 1 .. Len(errors) + Len(new)
          /\ \A k \in 1 .. Len(errors) : errors'[k] = errors[k]
          /\ \A k \in Len(errors) + 1 .. Len(errors) + Len(new) :
               errors'[k] = new[k - Len(errors)] /\ k - Len(errors) \in 1 .. Len(new)
      BY <3>1, <3>0
    <3> SUFFICES ASSUME NEW k \in DOMAIN errors' PROVE errors'[k].code = "cue"
      BY DEF AllCUE
    <3>4. CASE k <= Len(errors)
      BY <1>0, <3>2, <3>3, <3>4 DEF AllCUE
    <3>5. CASE k > Len(errors)
      BY <1>0, <3>2, <3>3, <3>5
    <3> QED
      BY <1>0, <3>2, <3>3, <3>4, <3>5
  <2> QED
    BY <2>1, <2>2 DEF AllCUE
<1>2. CASE FailFastReturn
  BY <1>0, <1>2, SubSeqProperties DEF FailFastReturn, EndWalk, Truncated, AllCUE
<1>3. CASE FilterDone
  <2>1. writeIdx \in 0 .. Len(errors)
    BY <1>0, <1>3 DEF FilterDone, NarrowInv, TypeOK
  <2> QED
    BY <1>0, <1>3, <2>1, SubSeqProperties DEF FilterDone, AllCUE
<1>4. CASE KeepError
  BY <1>0, <1>4 DEF KeepError, AllCUE, TypeOK
<1>5. CASE BeginCall \/ StartNarrowing \/ PassToBlob \/ ScanError \/ ScanDone \/ DropError \/ BeginBlobLayer
  BY <1>5 DEF BeginCall, StartNarrowing, PassToBlob, EndWalk, ScanError, ScanDone, DropError,
              BeginBlobLayer, AllCUE
<1> QED
  BY <1>1, <1>2, <1>3, <1>4, <1>5 DEF Early

\* Where a step before the loop leads.
LEMMA EarlyStages ==
  ASSUME IInv, Early
  PROVE  /\ PreLoop /\ ~Walked /\ ~Leaving
         /\ PreLoop' \/ BeginBlobLayer \/ FailFastReturn
         /\ BeginBlobLayer => pc' = "loop" /\ nCUEErrors' = Len(errors) /\ errors' = errors
         /\ FailFastReturn => pc' = "defer"
<1>1. CASE VisitField
  BY <1>1, VisitRecords DEF IInv, PreLoop, Walked, InLoop, Leaving, BeginBlobLayer, FailFastReturn, EndWalk
<1>2. CASE ~VisitField
  BY <1>2 DEF Early, PreLoop, Walked, InLoop, Leaving, BeginCall, FailFastReturn, StartNarrowing,
        PassToBlob, EndWalk, ScanError, ScanDone, KeepError, DropError, FilterDone, BeginBlobLayer, result
<1> QED
  BY <1>1, <1>2

\* What a step of the loop does to the errors.
LEMMA LoopErrors ==
  ASSUME TypeOK, RuleStep
  PROVE  /\ Walked /\ ~PreLoop' /\ nCUEErrors' = nCUEErrors
         /\ \/ errors' = errors
            \/ /\ RecordsError /\ Len(errors') = Len(errors) + 1
               /\ DOMAIN errors' = 1 .. Len(errors) + 1
               /\ \A k \in 1 .. Len(errors) : errors'[k] = errors[k]
               /\ errors'[Len(errors) + 1].code \in RuleCode
               /\ errors'[Len(errors) + 1].path = R.path
<1>1. Walked
  <2>1. LoopHead => Walked
    BY DEF LoopHead, Walked, InLoop, InheritCUEFailure, LeaveFailedGroup, StopPastLowest,
           SuppressByFailFast, EnterRule, AtRule
  <2>2. ~LoopHead => AtStage
    BY StageStep
  <2> QED
    BY <2>1, <2>2 DEF Walked, InLoop, AtStage
<1>2. ~PreLoop' /\ nCUEErrors' = nCUEErrors
  BY LoopCursor, LoopData DEF PreLoop
<1>3. ASSUME RecordsError
      PROVE  /\ Len(errors') = Len(errors) + 1 /\ DOMAIN errors' = 1 .. Len(errors) + 1
             /\ \A k \in 1 .. Len(errors) : errors'[k] = errors[k]
             /\ errors'[Len(errors) + 1].code \in RuleCode
             /\ errors'[Len(errors) + 1].path = R.path
  <2>1. PICK code \in RuleCode : errors' = Append(errors, [path |-> R.path, code |-> code])
    BY <1>3 DEF RecordsError
  <2>2. R.path \in ErrPath
    BY LoopCursor, CurrentRule DEF TypeOK, ErrPath
  <2>3. [path |-> R.path, code |-> code] \in ErrorRec
    BY <2>2 DEF ErrorRec, ErrorCode
  <2> QED
    BY <2>1, <2>3, AppendProperties, LenProperties DEF TypeOK
<1> QED
  BY <1>1, <1>2, <1>3, LoopVerdict

LEMMA PrefixStep ==
  ASSUME IInv, PrefixInv, [Next]_vars
  PROVE  PrefixInv'
<1>0. Len(errors) \in Nat /\ DOMAIN errors = 1 .. Len(errors) /\ nCUEErrors \in Nat
  BY ErrorsSeq DEF IInv, TypeOK
<1>1. CASE RejectInput
  BY <1>1 DEF RejectInput, PrefixInv, PreLoop, Walked, InLoop, CUEPrefixStable
<1>2. CASE Early
  <2>1. AllCUE'
    BY <1>2, EarlyErrors, EarlyStages DEF PrefixInv
  <2>2. CASE BeginBlobLayer
    BY <1>0, <1>2, <2>1, <2>2, EarlyStages DEF PrefixInv, CUEPrefixStable, AllCUE, PreLoop
  <2>3. CASE ~BeginBlobLayer
    BY <1>2, <2>1, <2>3, EarlyStages DEF PrefixInv, CUEPrefixStable, PreLoop, Walked, InLoop
  <2> QED
    BY <2>2, <2>3
<1>3. CASE RuleStep
  <2>1. Walked /\ ~PreLoop' /\ nCUEErrors' = nCUEErrors
    BY <1>3, LoopErrors DEF IInv
  <2>2. nCUEErrors <= Len(errors) /\ \A k \in DOMAIN errors : errors[k].code = "cue" <=> k <= nCUEErrors
    BY <2>1 DEF PrefixInv, CUEPrefixStable, Walked
  <2>3. nCUEErrors' <= Len(errors') /\ \A k \in DOMAIN errors' : errors'[k].code = "cue" <=> k <= nCUEErrors'
    <3>1. CASE errors' = errors
      BY <2>1, <2>2, <3>1
    <3>2. CASE errors' # errors
      <4>1. /\ Len(errors') = Len(errors) + 1 /\ DOMAIN errors' = 1 .. Len(errors) + 1
            /\ \A k \in 1 .. Len(errors) : errors'[k] = errors[k]
            /\ errors'[Len(errors) + 1].code # "cue"
        BY <1>3, <3>2, LoopErrors DEF IInv, RuleCode
      <4> QED
        BY <1>0, <2>1, <2>2, <4>1
    <3> QED
      BY <3>1, <3>2
  <2> QED
    BY <2>1, <2>3 DEF PrefixInv, CUEPrefixStable
<1>4. CASE Late
  BY <1>4 DEF Late, LoopDone, EndBlobLayer, RunDeferred, ReportValidation, vars, result, loop,
              PrefixInv, AllCUE, PreLoop, Walked, InLoop, CUEPrefixStable
<1> QED
  BY <1>1, <1>2, <1>3, <1>4, StepCases

\* process.go:124: the rule loop appends behind the CUE errors, so the prefix
\* it consults for inherited failures stays what the CUE layer left.
THEOREM PrefixIsCUE == Spec => []CUEPrefixStable
<1>1. Init => PrefixInv
  BY DEF Init, PrefixInv, AllCUE, Walked, InLoop, CUEPrefixStable
<1>2. PrefixInv => CUEPrefixStable
  BY DEF PrefixInv
<1> QED
  BY <1>1, <1>2, PrefixStep, Inductive, PTL DEF Spec

----------------------------------------------------------------------------
(* The bookkeeping of the loop.                                            *)

InheritedPaths == {Rules[k].path : k \in {i \in DOMAIN Rules : fate[i] = "inherited"}}

\* The rules before the cursor have their fate, the others none.
CursorInv ==
  /\ PreLoop => rule = 1
  /\ PreLoop \/ Walked => \A k \in DOMAIN Rules : k < rule <=> fate[k] # "pending"

LockInv == failedPaths = RuleErrorPaths \cup InheritedPaths

\* A rule that is past the head of the loop has passed every check there.
StageInv == AtStage => ~Inherited /\ ~PastLowest /\ (M.failFast => R.path \notin failedPaths)

\* What a step of the loop does to the cursor, the rule's fate and the marks.
Moves(f) == rule' = rule + 1 /\ pc' = "loop" /\ fate' = [fate EXCEPT ![rule] = f]

Stays == UNCHANGED <<rule, fate, failedPaths, errors>>

LEMMA LoopOutcome ==
  ASSUME TypeOK, RuleStep
  PROVE  \/ Stays /\ (AtStage' => EnterRule \/ AtStage)
         \/ InheritCUEFailure /\ Moves("inherited") /\ failedPaths' = failedPaths \cup {R.path}
         \/ /\ \E f \in {"suppressed", "skipped", "passed", "ran"} : Moves(f)
            /\ UNCHANGED <<failedPaths, errors>>
         \/ /\ RecordsError
            /\ \E f \in {"faulted", "ran"} :
                 \/ Moves(f) /\ call.mode # "fast"
                 \/ /\ rule' = rule /\ pc' = "defer" /\ fate' = [fate EXCEPT ![rule] = f]
                    /\ call.mode = "fast"
<1> USE DEF Moves, Stays, AtStage, NextRule, recordRuleError, AbortOrNext, markFailed, MarkInherited,
            RuleCode, WithError, NoVerdict, InRule, result, loop
<1>0. rule \in DOMAIN Rules /\ DOMAIN fate = DOMAIN Rules
  BY LoopCursor, CallFacts DEF TypeOK
<1>1. CASE InheritCUEFailure
  BY <1>1 DEF InheritCUEFailure
<1>2. CASE LeaveFailedGroup \/ StopPastLowest \/ SuppressByFailFast \/ EnterRule
  BY <1>2 DEF LeaveFailedGroup, StopPastLowest, SuppressByFailFast, EnterRule
<1>3. CASE SkipIfPasses \/ SkipIfSkips \/ SkipEmptyValue \/ PresencePasses \/ SkipOptionalNil
           \/ NothingToExec \/ ExecAccepts \/ ExecComputes
  BY <1>3 DEF SkipIfPasses, SkipIfSkips, SkipEmptyValue, PresencePasses, SkipOptionalNil,
              NothingToExec, ExecAccepts, ExecComputes
<1>4. CASE SkipIfFaults
  BY <1>0, <1>4 DEF SkipIfFaults, RecordsError
<1>5. CASE RequiredIfFails
  BY <1>0, <1>5 DEF RequiredIfFails, RecordsError
<1>6. CASE ExecFails
  BY <1>0, <1>6 DEF ExecFails, RecordsError
<1> QED
  BY <1>1, <1>2, <1>3, <1>4, <1>5, <1>6 DEF RuleStep

LEMMA CursorStep ==
  ASSUME IInv, FlagInv, CursorInv, [Next]_vars
  PROVE  CursorInv'
<1>0. TypeOK
  BY DEF IInv
<1>1. CASE RejectInput
  BY <1>1 DEF RejectInput, CursorInv, PreLoop, Walked, InLoop
<1>2. CASE Early
  <2>1. UNCHANGED <<call, rule, fate>> /\ PreLoop
    BY <1>2, EarlySteps, EarlyStages DEF Early
  <2> QED
    BY <2>1, SamePriorities DEF CursorInv
<1>3. CASE RuleStep
  <2>1. Walked /\ ~PreLoop' /\ call' = call
    BY <1>0, <1>3, LoopErrors, LoopFrame
  <2>2. \A k \in DOMAIN Rules : k < rule <=> fate[k] # "pending"
    BY <2>1 DEF CursorInv
  <2>3. rule \in 1 .. Len(Rules) /\ DOMAIN Rules = 1 .. Len(Rules) /\ Len(Rules) \in Nat
        /\ DOMAIN fate = DOMAIN Rules
    BY <1>0, <1>3, LoopCursor, ErrorsSeq DEF TypeOK
  <2>4. ASSUME NEW f, f # "pending", Moves(f)
        PROVE  \A k \in DOMAIN Rules : k < rule' <=> fate'[k] # "pending"
    BY <2>2, <2>3, <2>4 DEF Moves
  <2>5. Walked' => \A k \in DOMAIN Rules : k < rule' <=> fate'[k] # "pending"
    BY <1>0, <1>3, <2>2, <2>4, LoopOutcome DEF Stays, Walked, InLoop
  <2> QED
    BY <2>1, <2>5, SamePriorities DEF CursorInv
<1>4. CASE Late
  <2>1. UNCHANGED <<call, rule, fate>> /\ (PreLoop' => PreLoop) /\ (Walked' => Walked)
    BY <1>4, LateSteps DEF Late, LoopDone, EndBlobLayer, RunDeferred, ReportValidation, vars,
                           Walked, InLoop
  <2> QED
    BY <2>1, SamePriorities DEF CursorInv
<1> QED
  BY <1>1, <1>2, <1>3, <1>4, StepCases

\* A rule error adds its path, an inherited failure adds its path, nothing else
\* moves any of the three sets.
LEMMA LockStep ==
  ASSUME IInv, FlagInv, CursorInv, LockInv, [Next]_vars
  PROVE  LockInv'
<1>0. TypeOK
  BY DEF IInv
<1>1. CASE RejectInput \/ Early
  <2>1. /\ UNCHANGED <<call, failedPaths, fate>>
        /\ RuleErrors = {} /\ RuleErrors' = {}
    BY <1>1, EarlySteps DEF Early, NoRuleError, RuleErrors
  <2>2. InheritedPaths' = InheritedPaths
    BY <2>1, SamePriorities DEF InheritedPaths
  <2> QED
    BY <2>1, <2>2 DEF LockInv, RuleErrorPaths
<1>2. CASE Late
  <2>1. UNCHANGED <<call, errors, failedPaths, fate>>
    BY <1>2, LateSteps DEF Late
  <2>2. RuleErrorPaths' = RuleErrorPaths /\ InheritedPaths' = InheritedPaths
    BY <2>1, SamePriorities DEF InheritedPaths, RuleErrorPaths, RuleErrors
  <2> QED
    BY <2>1, <2>2 DEF LockInv
<1>3. CASE RuleStep
  <2>1. Walked /\ call' = call /\ Rules' = Rules
    BY <1>0, <1>3, LoopErrors, LoopFrame, SamePriorities
  <2>2. /\ rule \in DOMAIN Rules /\ DOMAIN fate = DOMAIN Rules
        /\ DOMAIN errors = 1 .. Len(errors) /\ Len(errors) \in Nat
    BY <1>0, <1>3, LoopCursor, ErrorsSeq DEF TypeOK
  <2>3. fate[rule] = "pending"
    BY <2>1, <2>2 DEF CursorInv
  <2>4. ASSUME NEW f, fate' = [fate EXCEPT ![rule] = f], f # "inherited"
        PROVE  InheritedPaths' = InheritedPaths
    BY <2>1, <2>2, <2>3, <2>4 DEF InheritedPaths
  <2>5. CASE Stays
    BY <2>1, <2>5 DEF Stays, LockInv, RuleErrorPaths, RuleErrors, InheritedPaths
  <2>6. CASE InheritCUEFailure /\ Moves("inherited") /\ failedPaths' = failedPaths \cup {R.path}
    <3>1. InheritedPaths' = InheritedPaths \cup {R.path}
      BY <2>1, <2>2, <2>3, <2>6 DEF Moves, InheritedPaths, R
    <3>2. errors' = errors
      BY <2>6 DEF InheritCUEFailure, result
    <3> QED
      BY <2>6, <3>1, <3>2 DEF LockInv, RuleErrorPaths, RuleErrors
  <2>7. CASE /\ \E f \in {"suppressed", "skipped", "passed", "ran"} : Moves(f)
             /\ UNCHANGED <<failedPaths, errors>>
    BY <2>4, <2>7 DEF Moves, LockInv, RuleErrorPaths, RuleErrors
  <2>8. CASE RecordsError /\ \E f \in {"faulted", "ran"} : fate' = [fate EXCEPT ![rule] = f]
    <3>1. InheritedPaths' = InheritedPaths
      BY <2>4, <2>8
    <3>2. RuleErrorPaths' = RuleErrorPaths \cup {R.path}
      <4>1. R.path \in ErrPath
        BY <1>0, <1>3, LoopCursor, CurrentRule DEF TypeOK, ErrPath
      <4>2. PICK code \in RuleCode : errors' = Append(errors, [path |-> R.path, code |-> code])
        BY <2>8 DEF RecordsError
      <4> QED
        BY <1>0, <4>1, <4>2, RuleErrorsAppend DEF RuleErrorPaths
    <3> QED
      BY <2>8, <3>1, <3>2 DEF RecordsError, LockInv
  <2> QED
    BY <1>0, <1>3, <2>5, <2>6, <2>7, <2>8, LoopOutcome DEF Moves
<1> QED
  BY <1>1, <1>2, <1>3, StepCases

LEMMA GuardStep ==
  ASSUME IInv, StageInv, [Next]_vars
  PROVE  StageInv'
<1>0. TypeOK
  BY DEF IInv
<1>1. CASE RejectInput \/ Early
  <2>1. CASE VisitField
    BY <2>1, VisitRecords DEF IInv, StageInv, AtStage
  <2>2. CASE ~VisitField
    BY <1>1, <2>2 DEF RejectInput, Early, StageInv, AtStage, BeginCall, FailFastReturn, StartNarrowing,
          PassToBlob, EndWalk, ScanError, ScanDone, KeepError, DropError, FilterDone, BeginBlobLayer
  <2> QED
    BY <2>1, <2>2
<1>2. CASE Late
  <2> SUFFICES ASSUME AtStage' PROVE (~Inherited /\ ~PastLowest /\ (M.failFast => R.path \notin failedPaths))'
    BY DEF StageInv
  <2>1. UNCHANGED vars
    BY <1>2 DEF Late, AtStage, LoopDone, EndBlobLayer, RunDeferred, ReportValidation
  <2>2. UNCHANGED <<call, pc, errors, nCUEErrors, rule, lowest, failedPaths>>
    BY <2>1 DEF vars, result, narrow, loop
  <2>3. ~Inherited /\ ~PastLowest /\ (M.failFast => R.path \notin failedPaths)
    BY <2>2 DEF StageInv, AtStage
  <2> QED
    BY <2>2, <2>3 DEF Inherited, PastLowest, M, R, Rules, hasValidationErrorAtPath
<1>3. CASE RuleStep
  <2> SUFFICES ASSUME AtStage' PROVE (~Inherited /\ ~PastLowest /\ (M.failFast => R.path \notin failedPaths))'
    BY DEF StageInv
  <2>1. Stays /\ (EnterRule \/ AtStage)
    BY <1>0, <1>3, LoopOutcome DEF Moves, AtStage
  <2>2. ~Inherited /\ ~PastLowest /\ (M.failFast => R.path \notin failedPaths)
    BY <2>1 DEF EnterRule, StageInv
  <2>3. UNCHANGED <<call, lowest, nCUEErrors, rule, errors, failedPaths>>
    BY <1>0, <1>3, <2>1, LoopFrame, LoopErrors DEF Stays, narrow
  <2> QED
    BY <2>2, <2>3 DEF Inherited, PastLowest, M, R, Rules, hasValidationErrorAtPath
<1> QED
  BY <1>1, <1>2, <1>3, StepCases

Bookkeeping == CursorInv /\ LockInv /\ StageInv

LEMMA BookkeepingInvariant == Spec => [](IInv /\ FlagInv /\ GroupInv /\ Bookkeeping)
<1>1. Init => Bookkeeping
  <2> SUFFICES ASSUME Init PROVE Bookkeeping
    OBVIOUS
  <2>1. TypeOK /\ RuleErrorPaths = {}
    BY InitType DEF Init, RuleErrors, RuleErrorPaths
  <2>2. InheritedPaths = {}
    BY DEF Init, InheritedPaths
  <2>3. LockInv /\ StageInv
    BY <2>1, <2>2 DEF Init, LockInv, StageInv, AtStage
  <2>4. CursorInv
    BY <2>1, ErrorsSeq DEF Init, CursorInv
  <2> QED
    BY <2>3, <2>4 DEF Bookkeeping
<1>2. IInv /\ FlagInv /\ Bookkeeping /\ [Next]_vars => Bookkeeping'
  BY CursorStep, LockStep, GuardStep DEF Bookkeeping
<1> QED
  BY <1>1, <1>2, GroupInvariant, PTL DEF Spec

\* process.go:18-25: the three pieces of bookkeeping an error site must update
\* agree throughout the loop, whichever site it was.
THEOREM BookkeepingAgrees == Spec => []LoopStateInLockstep
<1>1. FlagInv /\ Bookkeeping => LoopStateInLockstep
  BY Zenon DEF FlagInv, Bookkeeping, LockInv, LoopStateInLockstep, InheritedPaths
<1> QED
  BY <1>1, BookkeepingInvariant, PTL

\* @meta(fail_fast): once a rule on a path failed, no later rule on that path is
\* evaluated, because the paths of all rule errors are marked.
THEOREM FailFastStopsField == Spec => FieldFailFast
<1> DEFINE Step ==
      \A k \in DOMAIN Rules :
        fate[k] = "pending" /\ fate'[k] \in {"ran", "faulted"} /\ Rules[k].meta.failFast =>
          \A j \in RuleErrors : errors[j].path # Rules[k].path
<1>1. IInv /\ FlagInv /\ GroupInv /\ Bookkeeping /\ [Next]_vars => [Step]_vars
  <2> SUFFICES ASSUME IInv, FlagInv, Bookkeeping, Next,
                      NEW k \in DOMAIN Rules,
                      fate[k] = "pending", fate'[k] \in {"ran", "faulted"}, Rules[k].meta.failFast
               PROVE  \A j \in RuleErrors : errors[j].path # Rules[k].path
    BY DEF vars
  <2>1. TypeOK /\ [Next]_vars
    BY DEF IInv
  <2>2. RuleStep
    <3>1. CASE RejectInput \/ Early \/ Late
      BY <3>1, EarlySteps, LateSteps DEF Early, Late
    <3> QED
      BY <2>1, <3>1, StepCases
  <2>3. k = rule
    BY <2>1, <2>2, LoopCursor DEF TypeOK
  <2>4. AtStage
    <3>1. LoopHead => fate'[rule] \notin {"ran", "faulted"}
      BY <2>1, <2>3, HeadStep DEF Evaluated
    <3> QED
      BY <2>1, <2>2, <2>3, <3>1, StageStep
  <2>5. R.path \notin failedPaths
    BY <2>3, <2>4 DEF Bookkeeping, StageInv, M, R
  <2> QED
    BY <2>3, <2>5 DEF Bookkeeping, LockInv, RuleErrorPaths, R
<1>2. Spec => [][Step]_vars
  BY <1>1, BookkeepingInvariant, PTL DEF Spec
<1> QED
  BY <1>2 DEF FieldFailFast

----------------------------------------------------------------------------
(* The rule loop implements the gate of FailPriority.                      *)

FailedGroups == {P(k) : k \in {i \in DOMAIN Rules : Rules[i].path \in RuleErrorPaths}}

\* The rules of one path carry one @meta, so a failed path is in one group.
LEMMA FailedGroupsAre ==
  TypeOK /\ GroupInv /\ Gated => FailedGroups = IF RuleErrors = {} THEN {} ELSE {currentPriority}
<1> SUFFICES ASSUME TypeOK, GroupInv, Gated
             PROVE  FailedGroups = IF RuleErrors = {} THEN {} ELSE {currentPriority}
  OBVIOUS
<1>1. \A j, k \in DOMAIN Rules : Rules[j].path = Rules[k].path => P(j) = P(k)
  BY CallFacts DEF TypeOK, CompiledSchema, Rules, P
<1>2. \A j \in RuleErrors : \E i \in DOMAIN Rules :
        Rules[i].path = errors[j].path /\ P(i) = currentPriority
  BY DEF GroupInv, Gated
<1>3. \A k \in DOMAIN Rules : Rules[k].path \in RuleErrorPaths => P(k) = currentPriority
  BY <1>1, <1>2 DEF RuleErrorPaths
<1>4. RuleErrors # {} => \E k \in DOMAIN Rules : Rules[k].path \in RuleErrorPaths
  BY <1>2 DEF RuleErrorPaths
<1> QED
  BY <1>3, <1>4 DEF FailedGroups, RuleErrorPaths

GateGroup == IF Gated THEN currentPriority ELSE -1
GateFailed == IF Gated THEN FailedGroups ELSE {}

LEMMA GateStep ==
  ASSUME IInv, FlagInv, GroupInv, TypeOK', GroupInv', [Next]_vars
  PROVE  \/ UNCHANGED <<GateGroup, GateFailed>>
         \/ GateFailed = {} /\ GateFailed' = {} /\ GateGroup' \in Priority /\ GateGroup' > GateGroup
         \/ GateGroup \in Priority /\ GateFailed' = GateFailed \cup {GateGroup} /\ GateGroup' = GateGroup
<1>0. TypeOK
  BY DEF IInv
<1>1. call' = call /\ Rules' = Rules
  BY EarlySteps, LateSteps, LoopFrame, StepCases, SamePriorities DEF Early, Late
<1>2. Gated' = Gated
  BY <1>1 DEF Gated, NonNegative
<1>3. CASE ~Gated
  BY <1>2, <1>3 DEF GateGroup, GateFailed
<1>4. CASE Gated
  <2>1. GateGroup = currentPriority /\ GateGroup' = currentPriority'
        /\ GateFailed = FailedGroups /\ GateFailed' = FailedGroups'
    BY <1>2, <1>4 DEF GateGroup, GateFailed
  <2>2. FailedGroups = IF RuleErrors = {} THEN {} ELSE {currentPriority}
    BY <1>0, <1>4, FailedGroupsAre
  <2>3. FailedGroups' = IF RuleErrors' = {} THEN {} ELSE {currentPriority'}
    <3>1. (TypeOK /\ GroupInv /\ Gated => FailedGroups = IF RuleErrors = {} THEN {} ELSE {currentPriority})'
      BY FailedGroupsAre, PTL
    <3> QED
      BY <1>2, <1>4, <3>1
  <2>4. CASE RejectInput \/ Early
    BY <2>1, <2>2, <2>3, <2>4, EarlySteps DEF Early, NoRuleError, RuleErrors
  <2>5. CASE Late
    BY <2>1, <2>2, <2>3, <2>5, LateSteps DEF Late, RuleErrors
  <2>6. CASE RuleStep /\ LoopHead
    <3>1. /\ UNCHANGED <<errors, priorityHasError>>
          /\ \/ currentPriority' = currentPriority /\ ~EnterRule
             \/ TransitionGroup /\ ~GroupFailed
      BY <1>0, <2>6, HeadStep
    <3>2. RuleErrors' = RuleErrors
      BY <3>1 DEF RuleErrors
    <3>3. M.priority \in Priority /\ M.priority \in Int /\ currentPriority \in Int
      <4>1. M.priority \in Priority
        BY <1>0, <2>6, LoopCursor, CurrentRule DEF TypeOK
      <4> QED
        BY <1>0, <4>1, RulePriorities, PriorityAssumption
    <3>4. CASE currentPriority' = currentPriority
      BY <2>1, <2>2, <2>3, <3>2, <3>4
    <3>5. CASE TransitionGroup /\ ~GroupFailed /\ currentPriority' # currentPriority
      <4>1. EntersGroup /\ currentPriority' = M.priority /\ ~priorityHasError
        BY <3>5 DEF TransitionGroup, GroupFailed
      <4>2. RuleErrors = {}
        BY <4>1 DEF FlagInv
      <4> QED
        BY <2>1, <2>2, <2>3, <3>2, <3>3, <4>1, <4>2 DEF EntersGroup
    <3> QED
      BY <3>1, <3>4, <3>5
  <2>7. CASE RuleStep /\ ~LoopHead
    <3>1. AtStage /\ currentPriority' = currentPriority
      BY <1>0, <2>7, StageStep
    <3>2. currentPriority \in Priority
      <4>1. rule \in DOMAIN Rules
        BY <1>0, <2>7, LoopCursor, RulePriorities
      <4> QED
        BY <1>0, <1>4, <3>1, <4>1, RulePriorities DEF GroupInv, Gated
    <3>3. CASE errors' = errors
      BY <2>1, <2>2, <2>3, <3>1, <3>3 DEF RuleErrors
    <3>4. CASE errors' # errors
      <4>1. RuleErrors' # {}
        BY <1>0, <2>7, <3>4, LoopErrors, ErrorsSeq DEF RuleErrors
      <4> QED
        BY <2>1, <2>2, <2>3, <3>1, <3>2, <4>1
    <3> QED
      BY <3>3, <3>4
  <2> QED
    BY <2>4, <2>5, <2>6, <2>7, StepCases
<1> QED
  BY <1>3, <1>4

\* README.md:859-860: under FailPriority the rule loop, with its flags, its
\* continues and its breaks, enters groups in ascending order and none after
\* one in which a rule failed, as the abstract gate does.
THEOREM LoopImplementsGate == Spec => ImplementsGate
<1>1. Init => Gate!Init
  <2> SUFFICES ASSUME Init PROVE Gate!Init
    OBVIOUS
  <2>1. RuleErrorPaths = {} /\ currentPriority = -1
    BY DEF Init, RuleErrors, RuleErrorPaths
  <2> QED
    BY <2>1 DEF Gate!Init
<1>2. IInv /\ FlagInv /\ GroupInv /\ (IInv /\ GroupInv)' /\ [Next]_vars
        => [Gate!Next]_(Gate!gateVars)
  <2> SUFFICES ASSUME IInv, FlagInv, GroupInv, (IInv /\ GroupInv)', [Next]_vars
               PROVE  [Gate!Next]_(Gate!gateVars)
    OBVIOUS
  <2>1. TypeOK'
    BY DEF IInv
  <2> QED
    BY <2>1, GateStep DEF Gate!Next, Gate!Fail, Gate!Enter, Gate!gateVars,
                          GateGroup, GateFailed, FailedGroups, P
<1>3. Spec => Gate!Spec
  BY <1>1, <1>2, GroupInvariant, PTL DEF Spec, Gate!Spec
<1> QED
  BY <1>3 DEF ImplementsGate
=============================================================================
