--------------------------- MODULE AccountProofs ---------------------------
(***************************************************************************)
(* Theorems about ProcessEngine that relate the errors the walk met to the *)
(* rules the loop runs: what narrowing keeps, which rules it rules out,    *)
(* and that no other rule is lost; then those that need counting: the      *)
(* in-place filter keeps exactly the lowest failing group, in order, and   *)
(* the observers are told what the result says.                            *)
(***************************************************************************)
EXTENDS ProcessProofs, FiniteSetTheorems

\* Every error found is among the first n, unless narrowing dropped it for one
\* of a lower group; a lowest group is one that failed.
Kept(n) ==
  /\ \A j \in DOMAIN found :
       \/ \E k \in 1 .. n : errors[k] = found[j]
       \/ call.mode = "priority" /\ lowest < FP(found[j].path)
  /\ lowest < MaxInt => call.mode = "priority" /\ n > 0 /\ FP(errors[1].path) = lowest

\* In the middle of the filter an error of the lowest group is still to be read
\* or has been written back.
KeptInv ==
  /\ pc \in {"start", "walk", "lowest"} => errors = found
  /\ pc = "filter" =>
       /\ \A j \in DOMAIN found :
            /\ lowest <= FP(found[j].path)
            /\ \/ lowest < FP(found[j].path)
               \/ \E k \in 1 .. Len(errors) : (k <= writeIdx \/ readIdx <= k) /\ errors[k] = found[j]
       /\ writeIdx > 0 => FP(errors[1].path) = lowest
  /\ pc = "blob" => Kept(Len(errors))
  /\ Walked => Kept(nCUEErrors)

\* With FailFast the rule loop runs only on an input without errors, and what a
\* call returns is one error, the first one met.
FirstInv ==
  call.mode = "fast" =>
    /\ pc = "blob" \/ Walked => errors = << >> /\ found = << >>
    /\ Leaving /\ ~valid => Len(errors) = 1 /\ (found # << >> => errors[1] = found[1])

LEMMA KeptWalk ==
  ASSUME IInv, KeptInv, FirstInv, BeginCall \/ VisitField \/ FailFastReturn \/ StartNarrowing \/ PassToBlob
  PROVE  KeptInv' /\ FirstInv'
<1> USE DEF IInv, walk, narrow, loop, scopes, report, result, Walked, InLoop, Leaving
<1>0. Len(errors) \in Nat /\ DOMAIN errors = 1 .. Len(errors) /\ (errors = << >> <=> Len(errors) = 0)
      /\ DOMAIN found = 1 .. Len(found)
  BY ErrorsSeq
<1>1. CASE BeginCall
  BY <1>1 DEF BeginCall, KeptInv, FirstInv, NarrowInv
<1>2. CASE VisitField
  <2>1. pc = "walk" /\ pc' = pc /\ errors = found
    BY <1>2, VisitRecords DEF KeptInv
  <2>2. errors' = found'
    BY <1>2, <2>1, VisitRecords DEF RecordFieldErrors
  <2> QED
    BY <2>1, <2>2 DEF KeptInv, FirstInv
<1>3. CASE FailFastReturn
  <2>1. pc = "walk" /\ pc' = "defer" /\ errors' = Truncated(errors) /\ errors = found /\ found' = found /\ ~valid
    BY <1>3 DEF FailFastReturn, EndWalk, KeptInv
  <2>2. Len(errors) > 0
    BY <1>0, <2>1 DEF ErrorsIffInvalid
  <2>3. Len(Truncated(errors)) = 1 /\ Truncated(errors)[1] = errors[1]
    BY <1>0, <2>2, SubSeqProperties DEF Truncated, TypeOK
  <2> QED
    BY <2>1, <2>3 DEF KeptInv, FirstInv
<1>4. CASE StartNarrowing
  BY <1>4 DEF StartNarrowing, EndWalk, KeptInv, FirstInv
<1>5. CASE PassToBlob
  <2>1. /\ pc = "walk" /\ pc' = "blob" /\ errors = found
        /\ UNCHANGED <<call, errors, found, lowest>> /\ lowest = MaxInt
        /\ call.mode = "all" \/ valid
    BY <1>5 DEF PassToBlob, EndWalk, KeptInv, NarrowInv
  <2>2. Kept(Len(errors))'
    BY <1>0, <2>1, SamePriorities, PriorityAssumption DEF Kept
  <2>3. call.mode = "fast" => errors = << >>
    BY <2>1 DEF ErrorsIffInvalid
  <2> QED
    BY <2>1, <2>2, <2>3 DEF KeptInv, FirstInv
<1> QED
  BY <1>1, <1>2, <1>3, <1>4, <1>5

LEMMA KeptNarrow ==
  ASSUME IInv, KeptInv, FirstInv, ScanError \/ ScanDone \/ KeepError \/ DropError \/ FilterDone
  PROVE  KeptInv' /\ FirstInv'
<1> USE DEF IInv, Narrowing, NextRead, walk, narrow, loop, scopes, report, result, Walked, InLoop, Leaving
<1>0. Len(errors) \in Nat /\ DOMAIN errors = 1 .. Len(errors) /\ errors \in Seq(ErrorRec)
      /\ DOMAIN found = 1 .. Len(found) /\ Len(found) \in Nat
  BY ErrorsSeq DEF TypeOK
<1>1. lowest \in Int /\ readIdx \in Nat \ {0} /\ writeIdx \in Nat /\ \A p : FP(p) \in Int /\ FP(p) <= MaxInt
  BY FPType, PriorityAssumption DEF TypeOK
<1>2. call' = call /\ found' = found /\ call.mode = "priority" /\ \A p : FP(p)' = FP(p)
  <2>1. call' = call /\ found' = found /\ call.mode = "priority"
    BY DEF ScanError, ScanDone, KeepError, DropError, FilterDone, NarrowInv
  <2> QED
    BY <2>1, SamePriorities
<1>3. FirstInv'
  BY <1>2 DEF FirstInv
<1>4. CASE ScanError
  BY <1>2, <1>3, <1>4 DEF ScanError, KeptInv
<1>5. CASE ScanDone
  <2>1. /\ pc = "lowest" /\ pc' = "filter" /\ readIdx = Len(errors) + 1 /\ readIdx' = 1 /\ writeIdx = 0
        /\ UNCHANGED <<errors, lowest, writeIdx>> /\ errors = found
    BY <1>0, <1>1, <1>5 DEF ScanDone, NarrowInv, KeptInv
  <2>2. \A k \in 1 .. Len(errors) : lowest <= FP(errors[k].path)
    BY <1>0, <2>1 DEF NarrowInv, Prio, FP
  <2> QED
    BY <1>0, <1>2, <1>3, <2>1, <2>2 DEF KeptInv
<1>6. CASE KeepError
  <2>1. /\ pc = "filter" /\ pc' = "filter" /\ readIdx <= Len(errors) /\ readIdx' = readIdx + 1
        /\ writeIdx' = writeIdx + 1 /\ writeIdx < readIdx /\ lowest' = lowest
        /\ errors' = [errors EXCEPT ![writeIdx + 1] = errors[readIdx]]
        /\ FP(errors[readIdx].path) = lowest
    BY <1>6 DEF KeepError, NarrowInv, InLowestGroup, FP
  <2>2. /\ Len(errors') = Len(errors) /\ errors'[writeIdx + 1] = errors[readIdx]
        /\ \A k \in 1 .. Len(errors) : k # writeIdx + 1 => errors'[k] = errors[k]
    BY <1>0, <1>1, <2>1, ExceptSeq
  <2>3. \A j \in DOMAIN found :
          \/ lowest < FP(found[j].path)
          \/ \E k \in 1 .. Len(errors) : (k <= writeIdx + 1 \/ readIdx + 1 <= k) /\ errors'[k] = found[j]
    <3> SUFFICES ASSUME NEW j \in DOMAIN found, NEW k \in 1 .. Len(errors),
                        k <= writeIdx \/ readIdx <= k, errors[k] = found[j]
                 PROVE  \E i \in 1 .. Len(errors) :
                          (i <= writeIdx + 1 \/ readIdx + 1 <= i) /\ errors'[i] = found[j]
      BY <2>1 DEF KeptInv
    <3>1. CASE k = readIdx
      BY <1>0, <1>1, <2>1, <2>2, <3>1
    <3>2. CASE k # readIdx
      BY <1>0, <1>1, <2>1, <2>2, <3>2
    <3> QED
      BY <3>1, <3>2
  <2>4. FP(errors'[1].path) = lowest
    <3>1. CASE writeIdx = 0
      BY <1>0, <1>1, <2>1, <2>2, <3>1
    <3>2. CASE writeIdx > 0
      BY <1>0, <1>1, <2>1, <2>2, <3>2 DEF KeptInv
    <3> QED
      BY <1>1, <3>1, <3>2
  <2> QED
    BY <1>2, <1>3, <2>1, <2>2, <2>3, <2>4 DEF KeptInv
<1>7. CASE DropError
  <2>1. /\ pc = "filter" /\ pc' = "filter" /\ readIdx <= Len(errors) /\ readIdx' = readIdx + 1
        /\ UNCHANGED <<errors, lowest, writeIdx>> /\ FP(errors[readIdx].path) # lowest
    BY <1>7 DEF DropError, InLowestGroup, FP
  <2>2. \A j \in DOMAIN found :
          \/ lowest < FP(found[j].path)
          \/ \E k \in 1 .. Len(errors) : (k <= writeIdx \/ readIdx + 1 <= k) /\ errors[k] = found[j]
    <3> SUFFICES ASSUME NEW j \in DOMAIN found, ~(lowest < FP(found[j].path))
                 PROVE  \E k \in 1 .. Len(errors) : (k <= writeIdx \/ readIdx + 1 <= k) /\ errors[k] = found[j]
      OBVIOUS
    <3>1. FP(found[j].path) = lowest
      BY <1>1, <2>1 DEF KeptInv
    <3>2. PICK k \in 1 .. Len(errors) : (k <= writeIdx \/ readIdx <= k) /\ errors[k] = found[j]
      BY <2>1 DEF KeptInv
    <3>3. k # readIdx
      BY <2>1, <3>1, <3>2
    <3> QED
      BY <1>0, <1>1, <3>2, <3>3
  <2> QED
    BY <1>2, <1>3, <2>1, <2>2 DEF KeptInv
<1>8. CASE FilterDone
  <2>1. /\ pc = "filter" /\ pc' = "blob" /\ writeIdx \in 1 .. Len(errors) /\ readIdx > Len(errors)
        /\ errors' = SubSeq(errors, 1, writeIdx) /\ lowest' = lowest
    BY <1>0, <1>1, <1>8 DEF FilterDone, NarrowInv
  <2>2. Len(errors') = writeIdx /\ \A k \in 1 .. writeIdx : errors'[k] = errors[k]
    BY <1>0, <2>1, SubSeqProperties
  <2>3. \A j \in DOMAIN found :
          \/ lowest < FP(found[j].path)
          \/ \E k \in 1 .. writeIdx : errors'[k] = found[j]
    BY <1>0, <1>1, <2>1, <2>2 DEF KeptInv
  <2>4. FP(errors'[1].path) = lowest
    BY <1>0, <1>1, <2>1, <2>2 DEF KeptInv
  <2>5. Kept(Len(errors))'
    BY <1>0, <1>1, <1>2, <2>1, <2>2, <2>3, <2>4 DEF Kept
  <2> QED
    BY <1>3, <2>1, <2>5 DEF KeptInv
<1> QED
  BY <1>4, <1>5, <1>6, <1>7, <1>8

LEMMA KeptLoop ==
  ASSUME IInv, PrefixInv, KeptInv, FirstInv, RuleStep
  PROVE  KeptInv' /\ FirstInv'
<1>0. TypeOK
  BY DEF IInv
<1>1. Walked /\ ~PreLoop' /\ nCUEErrors' = nCUEErrors /\ UNCHANGED <<call, found, lowest>>
  BY <1>0, LoopErrors, LoopFrame DEF walk, narrow
<1>2. nCUEErrors \in Nat /\ nCUEErrors <= Len(errors) /\ Len(errors) \in Nat
  BY <1>0, <1>1, ErrorsSeq DEF PrefixInv, TypeOK
<1>3. \A k \in 1 .. nCUEErrors : errors'[k] = errors[k]
  BY <1>0, <1>2, LoopErrors
<1>4. Kept(nCUEErrors)'
  <2>1. Kept(nCUEErrors)
    BY <1>1 DEF KeptInv
  <2> QED
    BY <1>1, <1>2, <1>3, <2>1, SamePriorities DEF Kept
<1>5. KeptInv'
  BY <1>1, <1>4 DEF KeptInv, PreLoop
<1>6. FirstInv'
  <2> SUFFICES ASSUME call.mode = "fast" PROVE FirstInv'
    BY <1>1 DEF FirstInv
  <2>1. errors = << >> /\ found = << >> /\ valid
    BY <1>1 DEF FirstInv, IInv, ErrorsIffInvalid
  <2>2. CASE RecordsError
    <3>1. pc' = "defer"
      <4>1. errors' # errors
        BY <1>0, <2>2, AppendProperties, LenProperties DEF RecordsError, TypeOK
      <4> QED
        BY <1>0, <2>2, <4>1, LoopOutcome DEF Stays, InheritCUEFailure, result
    <3>2. Len(errors') = 1
      BY <2>1, <2>2 DEF RecordsError
    <3> QED
      BY <1>1, <2>1, <3>1, <3>2 DEF FirstInv, Walked, InLoop
  <2>3. CASE UNCHANGED <<valid, errors, priorityHasError>>
    BY <1>1, <2>1, <2>3, LoopCursor, <1>0 DEF FirstInv
  <2> QED
    BY <1>0, <2>2, <2>3, LoopVerdict
<1> QED
  BY <1>5, <1>6

LEMMA KeptStep ==
  ASSUME IInv, PrefixInv, KeptInv, FirstInv, [Next]_vars
  PROVE  KeptInv' /\ FirstInv'
<1> USE DEF walk, narrow, loop, scopes, report, result
<1>1. CASE RejectInput
  BY <1>1 DEF RejectInput, KeptInv, FirstInv, Walked, InLoop, Leaving, IInv, NarrowInv
<1>2. CASE BeginBlobLayer
  <2>1. /\ pc = "blob" /\ pc' = "loop" /\ nCUEErrors' = Len(errors)
        /\ UNCHANGED <<call, errors, found, lowest>> /\ Kept(Len(errors))
    BY <1>2 DEF BeginBlobLayer, KeptInv
  <2>2. Kept(nCUEErrors)'
    BY <2>1, SamePriorities DEF Kept
  <2> QED
    BY <2>1, <2>2 DEF KeptInv, FirstInv, Walked, InLoop, Leaving
<1>3. CASE RuleStep
  BY <1>3, KeptLoop
<1>4. CASE Late
  <2>1. UNCHANGED <<call, errors, valid, found, lowest, nCUEErrors, readIdx, writeIdx>>
    BY <1>4 DEF Late, LoopDone, EndBlobLayer, RunDeferred, ReportValidation, vars
  <2>2. /\ Walked' => Walked /\ nCUEErrors' = nCUEErrors
        /\ PreLoop' => pc' = pc
        /\ Leaving' => Leaving \/ pc = "blobEnd"
    BY <1>4 DEF Late, LoopDone, EndBlobLayer, RunDeferred, ReportValidation, vars,
                PreLoop, Walked, InLoop, Leaving
  <2>3. Kept(nCUEErrors)' <=> Kept(nCUEErrors)
    BY <2>1, SamePriorities DEF Kept
  <2>4. Kept(Len(errors))' <=> Kept(Len(errors))
    BY <2>1, SamePriorities DEF Kept
  <2>5. KeptInv'
    BY <2>1, <2>2, <2>3, <2>4, SamePriorities DEF KeptInv, PreLoop
  <2>6. FirstInv'
    <3> SUFFICES ASSUME call.mode = "fast" PROVE FirstInv'
      BY <2>1 DEF FirstInv
    <3>1. pc = "blobEnd" => valid
      BY DEF FirstInv, Walked, IInv, ErrorsIffInvalid
    <3>2. pc' = "blob" => pc = "blob"
      BY <2>2 DEF PreLoop
    <3> QED
      BY <2>1, <2>2, <3>1, <3>2 DEF FirstInv
  <2> QED
    BY <2>5, <2>6
<1> QED
  BY <1>1, <1>2, <1>3, <1>4, KeptWalk, KeptNarrow, StepCases DEF Early

AllInv == IInv /\ FlagInv /\ Bookkeeping /\ PrefixInv /\ KeptInv /\ FirstInv

LEMMA AllInvariant == Spec => []AllInv
<1>1. Init => PrefixInv /\ KeptInv /\ FirstInv
  BY DEF Init, PrefixInv, AllCUE, CUEPrefixStable, KeptInv, FirstInv, Walked, InLoop, Leaving
<1>2. IInv /\ PrefixInv /\ KeptInv /\ FirstInv /\ [Next]_vars => (PrefixInv /\ KeptInv /\ FirstInv)'
  BY PrefixStep, KeptStep
<1> QED
  BY <1>1, <1>2, BookkeepingInvariant, PTL DEF Spec, AllInv

\* process.go:46, ruleAbort: an invalid FailFast result has exactly one error,
\* the first the walk met when the CUE layer failed.
THEOREM FailFastIsFirst == Spec => []FailFastReportsFirst
<1>1. FirstInv => FailFastReportsFirst
  BY DEF FirstInv, FailFastReportsFirst, Leaving
<1> QED
  BY <1>1, AllInvariant, PTL DEF AllInv

----------------------------------------------------------------------------
(* Which rules run.                                                        *)

\* A rule past the head of the loop has no error found at its path: such an
\* error is among the CUE errors, or the rule lies past the lowest group.
LEMMA RuleIsClean ==
  ASSUME TypeOK, StageInv, AtStage, PrioritiesAgree, Kept(nCUEErrors),
         nCUEErrors <= Len(errors), rule \in DOMAIN Rules, NEW j \in DOMAIN found
  PROVE  /\ found[j].path # R.path
         /\ call.mode # "priority" => <<found[j].path, R.path>> \notin Below
<1>1. \A k \in 1 .. nCUEErrors : errors[k].path # R.path /\ <<errors[k].path, R.path>> \notin Below
  <2>1. Len(errors) \in Nat /\ nCUEErrors \in 0 .. Len(errors)
    BY ErrorsSeq DEF TypeOK
  <2>2. /\ DOMAIN SubSeq(errors, 1, nCUEErrors) = 1 .. nCUEErrors
        /\ \A k \in 1 .. nCUEErrors : SubSeq(errors, 1, nCUEErrors)[k] = errors[k]
    BY <2>1, SubSeqProperties, LenProperties DEF TypeOK
  <2> QED
    BY <2>2 DEF StageInv, Inherited, hasValidationErrorAtPath
<1>2. CASE \E k \in 1 .. nCUEErrors : errors[k] = found[j]
  BY <1>1, <1>2
<1>3. CASE call.mode = "priority" /\ lowest < FP(found[j].path)
  <2>1. FP(R.path) = M.priority
    BY DEF PrioritiesAgree, FP, R, M
  <2>2. FP(R.path) \in Int /\ FP(R.path) <= MaxInt /\ lowest \in Int /\ MaxInt \in Int
    BY FPType, PriorityAssumption DEF TypeOK
  <2> QED
    BY <1>3, <2>1, <2>2 DEF StageInv, PastLowest
<1> QED
  BY <1>2, <1>3 DEF Kept

LEMMA CleanStep ==
  ASSUME AllInv, NoRuleOnFailedField, [Next]_vars
  PROVE  NoRuleOnFailedField'
<1>0. TypeOK /\ IInv /\ FlagInv
  BY DEF AllInv, IInv
<1>1. CASE RejectInput \/ Early
  <2>1. UNCHANGED <<call, fate, rule>> /\ PreLoop
    BY <1>0, <1>1, EarlySteps, EarlyStages DEF Early, RejectInput, PreLoop
  <2>2. \A k \in DOMAIN Rules : fate[k] = "pending"
    BY <1>0, <2>1, ErrorsSeq DEF AllInv, Bookkeeping, CursorInv
  <2> QED
    BY <2>1, <2>2, SamePriorities DEF NoRuleOnFailedField, Evaluated
<1>2. CASE Late
  <2>1. UNCHANGED <<call, fate, found>>
    BY <1>2 DEF Late, LoopDone, EndBlobLayer, RunDeferred, ReportValidation, vars, loop, walk
  <2> QED
    BY <2>1, SamePriorities DEF NoRuleOnFailedField, PrioritiesAgree, Evaluated, FP
<1>3. CASE RuleStep
  <2>1. UNCHANGED <<call, found>> /\ Walked
    BY <1>0, <1>3, LoopFrame, LoopErrors DEF walk
  <2>2. Rules' = Rules /\ (PrioritiesAgree' => PrioritiesAgree)
    BY <2>1, SamePriorities DEF PrioritiesAgree, FP
  <2> SUFFICES ASSUME PrioritiesAgree, NEW k \in DOMAIN Rules, NEW j \in DOMAIN found, Evaluated(k)'
               PROVE  /\ found[j].path # Rules[k].path
                      /\ call.mode # "priority" => <<found[j].path, Rules[k].path>> \notin Below
    BY <2>1, <2>2 DEF NoRuleOnFailedField
  <2>3. CASE Evaluated(k)
    BY <2>3 DEF NoRuleOnFailedField
  <2>4. CASE ~Evaluated(k)
    <3>1. AtStage /\ k = rule
      BY <1>0, <1>3, <2>4, HeadStep, StageStep
    <3>2. StageInv /\ Kept(nCUEErrors) /\ nCUEErrors <= Len(errors)
      BY <2>1 DEF AllInv, Bookkeeping, KeptInv, PrefixInv
    <3> QED
      BY <1>0, <3>1, <3>2, RuleIsClean DEF R
  <2> QED
    BY <2>3, <2>4
<1> QED
  BY <1>1, <1>2, <1>3, StepCases

\* process.go:122: no rule runs on a field whose own constraint failed, dropped
\* by narrowing or not; outside FailPriority, none on a field with an error
\* below it either.
THEOREM FailedFieldRunsNoRule == Spec => []NoRuleOnFailedField
<1>1. Init => NoRuleOnFailedField
  BY DEF Init, NoRuleOnFailedField
<1> QED
  BY <1>1, CleanStep, AllInvariant, PTL DEF Spec

----------------------------------------------------------------------------
(* Which rules are left out.                                               *)

\* Every rule that failed lies in a group already entered.
EnteredInv ==
  call.mode = "priority" =>
    /\ AtStage => P(rule) <= currentPriority
    /\ \A j \in RuleErrors : \E i \in DOMAIN Rules :
         Rules[i].path = errors[j].path /\ P(i) <= currentPriority

LEMMA EnteredStep ==
  ASSUME AllInv, EnteredInv, [Next]_vars
  PROVE  EnteredInv'
<1>0. TypeOK /\ IInv /\ FlagInv
  BY DEF AllInv, IInv
<1>1. CASE RejectInput \/ Early
  BY <1>0, <1>1, EarlySteps DEF Early, EnteredInv, NoRuleError, RuleErrors
<1>2. CASE Late
  <2>1. UNCHANGED <<call, errors, rule, currentPriority>> /\ (AtStage' => AtStage)
    BY <1>2, LateSteps DEF Late
  <2> QED
    BY <2>1, SamePriorities DEF EnteredInv, RuleErrors, P
<1>3. CASE RuleStep
  <2>1. call' = call /\ Rules' = Rules
    BY <1>3, LoopFrame, SamePriorities
  <2>2. /\ rule \in DOMAIN Rules /\ currentPriority \in Int
        /\ \A k \in DOMAIN Rules : P(k) \in Int
    BY <1>0, <1>3, LoopCursor, RulePriorities
  <2> SUFFICES ASSUME call.mode = "priority"
               PROVE  /\ AtStage' => Rules[rule'].meta.priority <= currentPriority'
                      /\ \A j \in RuleErrors' : \E i \in DOMAIN Rules :
                           Rules[i].path = errors'[j].path /\ P(i) <= currentPriority'
    BY <2>1 DEF EnteredInv, P
  <2>3. CASE LoopHead
    <3>1. /\ errors' = errors /\ (AtStage' => rule' = rule /\ EnterRule)
          /\ \/ currentPriority' = currentPriority /\ ~EnterRule
             \/ TransitionGroup
      BY <1>0, <1>3, <2>3, HeadStep
    <3>2. /\ currentPriority' \in Int /\ currentPriority <= currentPriority'
          /\ TransitionGroup => P(rule) <= currentPriority'
      BY <2>2, <3>1 DEF TransitionGroup, EntersGroup, M, R, P
    <3>3. \A j \in RuleErrors' : \E i \in DOMAIN Rules :
            Rules[i].path = errors'[j].path /\ P(i) <= currentPriority'
      <4>1. RuleErrors' = RuleErrors
        BY <3>1 DEF RuleErrors
      <4> QED
        BY <2>2, <3>1, <3>2, <4>1 DEF EnteredInv
    <3> QED
      BY <3>1, <3>2, <3>3 DEF P
  <2>4. CASE ~LoopHead
    <3>1. AtStage /\ currentPriority' = currentPriority /\ (AtStage' => rule' = rule)
      BY <1>0, <1>3, <2>4, StageStep
    <3>2. P(rule) <= currentPriority
      BY <3>1 DEF EnteredInv
    <3>3. CASE errors' = errors
      BY <3>1, <3>2, <3>3 DEF EnteredInv, RuleErrors, P
    <3>4. CASE errors' # errors
      <4>1. /\ DOMAIN errors' = 1 .. Len(errors) + 1 /\ errors'[Len(errors) + 1].path = R.path
            /\ \A k \in 1 .. Len(errors) : errors'[k] = errors[k]
        BY <1>0, <1>3, <3>4, LoopErrors
      <4>2. DOMAIN errors = 1 .. Len(errors) /\ Len(errors) \in Nat
        BY <1>0, ErrorsSeq
      <4>3. \A j \in RuleErrors' : (j \in RuleErrors /\ errors'[j] = errors[j]) \/ errors'[j].path = R.path
        BY <4>1, <4>2 DEF RuleErrors
      <4> QED
        BY <2>2, <3>1, <3>2, <4>3 DEF EnteredInv, R, P
    <3> QED
      BY <3>3, <3>4
  <2> QED
    BY <2>3, <2>4
<1> QED
  BY <1>1, <1>2, <1>3, StepCases

\* What became of a rule the call is done with.
Accounted(k) ==
  \/ fate[k] # "pending"
  \/ call.mode = "fast" /\ ~valid
  \/ call.mode = "priority" /\ \E j \in DOMAIN errors : FP(errors[j].path) < P(k)

AccountInv ==
  (pc = "blobEnd" \/ Leaving) /\ ~Rejected /\ PrioritiesAgree => \A k \in DOMAIN Rules : Accounted(k)

\* The two breaks leave the loop only when some error is in a lower group than
\* the current rule, and so than every later one.
LEMMA BreakAccounts ==
  ASSUME AllInv, EnteredInv, RuleStep, LeaveFailedGroup \/ StopPastLowest, PrioritiesAgree,
         NEW k \in DOMAIN Rules
  PROVE  Accounted(k)
<1>0. TypeOK /\ Walked
  BY LoopErrors DEF AllInv, IInv
<1>1. /\ rule \in DOMAIN Rules /\ DOMAIN Rules = 1 .. Len(Rules)
      /\ \A i \in DOMAIN Rules : P(i) \in Int
      /\ \A i, l \in DOMAIN Rules : i <= l => P(i) <= P(l)
      /\ currentPriority \in Int
  BY <1>0, LoopCursor, RulePriorities
<1>2. CASE k < rule
  BY <1>0, <1>2 DEF AllInv, Bookkeeping, CursorInv, Accounted
<1>3. CASE rule <= k
  <2>1. P(rule) <= P(k) /\ M.priority = P(rule)
    BY <1>1, <1>3 DEF M, R, P
  <2>2. CASE LeaveFailedGroup
    <3>1. call.mode = "priority" /\ P(rule) > currentPriority /\ RuleErrors # {}
      BY <2>1, <2>2 DEF LeaveFailedGroup, GroupFailed, EntersGroup, AllInv, FlagInv
    <3>2. PICK j \in RuleErrors : \E i \in DOMAIN Rules :
            Rules[i].path = errors[j].path /\ P(i) <= currentPriority
      BY <3>1 DEF EnteredInv
    <3>3. FP(errors[j].path) \in Int /\ FP(errors[j].path) <= currentPriority
      BY <1>1, <3>2 DEF PrioritiesAgree, P, FP
    <3>4. FP(errors[j].path) < P(k) /\ j \in DOMAIN errors
      BY <1>1, <2>1, <3>1, <3>3 DEF RuleErrors
    <3> QED
      BY <3>1, <3>4 DEF Accounted
  <2>3. CASE StopPastLowest
    <3>1. call.mode = "priority" /\ lowest < MaxInt /\ lowest < P(rule)
      BY <2>1, <2>3 DEF StopPastLowest, PastLowest
    <3>2. nCUEErrors > 0 /\ nCUEErrors <= Len(errors) /\ FP(errors[1].path) = lowest
      BY <1>0, <3>1 DEF AllInv, KeptInv, Kept, PrefixInv
    <3>3. 1 \in DOMAIN errors /\ lowest \in Int
      BY <1>0, <3>2, ErrorsSeq, PriorityAssumption DEF TypeOK
    <3> QED
      BY <1>1, <2>1, <3>1, <3>2, <3>3 DEF Accounted
  <2> QED
    BY <2>2, <2>3
<1> QED
  BY <1>0, <1>1, <1>2, <1>3 DEF TypeOK

LEMMA AccountStep ==
  ASSUME AllInv, EnteredInv, AccountInv, [Next]_vars
  PROVE  AccountInv'
<1>0. TypeOK /\ IInv /\ FlagInv
  BY DEF AllInv, IInv
<1>1. CASE RejectInput
  <2>1. DOMAIN errors' = {1} /\ errors'[1].code = "E0C01"
    BY <1>1 DEF RejectInput
  <2> QED
    BY <2>1 DEF AccountInv, Rejected
<1>2. CASE Early
  <2>1. CASE FailFastReturn
    <3>1. call' = call /\ call.mode = "fast" /\ ~valid'
      BY <2>1 DEF FailFastReturn, EndWalk
    <3> QED
      BY <3>1 DEF AccountInv, Accounted
  <2>2. CASE ~FailFastReturn
    BY <1>0, <1>2, <2>2, EarlyStages DEF AccountInv, PreLoop, Leaving
  <2> QED
    BY <2>1, <2>2
<1>3. CASE RuleStep
  <2>0. call' = call /\ Rules' = Rules /\ (PrioritiesAgree' => PrioritiesAgree)
    BY <1>3, LoopFrame, SamePriorities DEF PrioritiesAgree, FP
  <2>1. CASE LeaveFailedGroup \/ StopPastLowest
    <3>1. UNCHANGED <<call, valid, errors, fate>>
      BY <2>1 DEF LeaveFailedGroup, StopPastLowest, result, loop
    <3>2. PrioritiesAgree => \A k \in DOMAIN Rules : Accounted(k)
      BY <1>3, <2>1, BreakAccounts
    <3>3. \A k : Accounted(k)' <=> Accounted(k)
      BY <3>1, SamePriorities DEF Accounted, P
    <3> QED
      BY <2>0, <3>2, <3>3 DEF AccountInv
  <2>2. CASE ~(LeaveFailedGroup \/ StopPastLowest)
    <3>1. pc' # "blobEnd" /\ (pc' = "defer" => call.mode = "fast" /\ ~valid')
      BY <1>3, <2>2 DEF RuleStep, InheritCUEFailure, SuppressByFailFast, EnterRule,
         SkipIfPasses, SkipIfFaults, SkipIfSkips, SkipEmptyValue, PresencePasses, SkipOptionalNil,
         RequiredIfFails, NothingToExec, ExecAccepts, ExecFails, ExecComputes,
         NextRule, recordRuleError, AbortOrNext
    <3>2. pc' \notin {"report", "done"}
      BY <1>0, <1>3, LoopCursor
    <3> QED
      BY <2>0, <3>1, <3>2 DEF AccountInv, Accounted, Leaving
  <2> QED
    BY <2>1, <2>2
<1>4. CASE LoopDone
  <2>1. Walked /\ rule > Len(Rules) /\ UNCHANGED <<call, fate>>
    BY <1>4 DEF LoopDone, Walked, InLoop, loop
  <2>2. \A k \in DOMAIN Rules : k < rule
    BY <1>0, <2>1, ErrorsSeq DEF TypeOK
  <2> QED
    BY <2>1, <2>2, SamePriorities DEF AllInv, Bookkeeping, CursorInv, AccountInv, Accounted
<1>5. CASE EndBlobLayer \/ RunDeferred \/ ReportValidation \/ UNCHANGED vars
  <2>1. UNCHANGED <<call, valid, errors, fate>> /\ (pc' = "blobEnd" \/ Leaving' => pc = "blobEnd" \/ Leaving)
    BY <1>5 DEF EndBlobLayer, RunDeferred, ReportValidation, vars, result, loop, Leaving
  <2>2. \A k : Accounted(k)' <=> Accounted(k)
    BY <2>1, SamePriorities DEF Accounted, P
  <2>3. (Rejected' <=> Rejected) /\ (PrioritiesAgree' <=> PrioritiesAgree)
    BY <2>1, SamePriorities DEF Rejected, PrioritiesAgree, FP
  <2> QED
    BY <2>1, <2>2, <2>3, SamePriorities DEF AccountInv
<1> QED
  BY <1>1, <1>2, <1>3, <1>4, <1>5, StepCases DEF Late

\* README.md:858: none of the ways out of the loop or of its body loses a rule;
\* one that has no fate lies past the first error of a FailFast call or in a
\* group above some error of a FailPriority call.
THEOREM NoRuleLost == Spec => []EveryRuleAccounted
<1>1. Init => EnteredInv /\ AccountInv
  <2> SUFFICES ASSUME Init PROVE EnteredInv /\ AccountInv
    OBVIOUS
  <2>1. RuleErrors = {} /\ ~AtStage /\ pc = "start"
    BY DEF Init, RuleErrors, AtStage
  <2> QED
    BY <2>1 DEF EnteredInv, AccountInv, Leaving
<1>2. AccountInv => EveryRuleAccounted
  BY DEF AccountInv, EveryRuleAccounted, Accounted, Leaving, FP, P
<1> QED
  BY <1>1, <1>2, EnteredStep, AccountStep, AllInvariant, PTL DEF Spec

----------------------------------------------------------------------------
(* The filter of keepLowestFailedPriority.                                 *)

\* The first n errors found, restricted to the lowest group.
KeptUpTo(n) == {k \in 1 .. n : FP(found[k].path) = lowest}

Compacted(n) == \A k \in KeptUpTo(n) : errors[Cardinality(KeptUpTo(k))] = found[k]

Narrowed(n) == n = Cardinality(KeptUpTo(Len(found))) /\ Compacted(Len(found))

\* In the middle of the filter what was read is compacted below the write
\* index, and what is still to be read lies where the walk put it.
FilterInv ==
  /\ pc = "filter" =>
       /\ Len(errors) = Len(found)
       /\ writeIdx = Cardinality(KeptUpTo(readIdx - 1))
       /\ Compacted(readIdx - 1)
       /\ \A k \in readIdx .. Len(found) : errors[k] = found[k]
  /\ call.mode = "priority" =>
       /\ pc = "blob" => Narrowed(Len(errors))
       /\ Walked => Narrowed(nCUEErrors)

\* Afterwards lowest is the minimum over the errors found.
LowestInv ==
  call.mode = "priority" /\ (pc = "blob" \/ Walked) =>
    /\ \A j \in DOMAIN found : lowest <= FP(found[j].path)
    /\ DOMAIN found # {} => \E j \in DOMAIN found : FP(found[j].path) = lowest

LEMMA KeptCount ==
  ASSUME NEW n \in Nat
  PROVE  /\ IsFiniteSet(KeptUpTo(n)) /\ Cardinality(KeptUpTo(n)) \in 0 .. n
         /\ \A k \in KeptUpTo(n) : Cardinality(KeptUpTo(k)) \in 1 .. Cardinality(KeptUpTo(n))
<1>1. ASSUME NEW m \in Nat
      PROVE  IsFiniteSet(KeptUpTo(m)) /\ Cardinality(KeptUpTo(m)) \in 0 .. m
  <2>1. IsFiniteSet(1 .. m) /\ Cardinality(1 .. m) = m
    BY FS_Interval
  <2>2. KeptUpTo(m) \in SUBSET (1 .. m)
    BY DEF KeptUpTo
  <2> QED
    BY <2>1, <2>2, FS_Subset, FS_CardinalityType
<1>2. ASSUME NEW k \in KeptUpTo(n)
      PROVE  Cardinality(KeptUpTo(k)) \in 1 .. Cardinality(KeptUpTo(n))
  <2>1. k \in 1 .. n /\ k \in Nat /\ k \in KeptUpTo(k) /\ KeptUpTo(k) \in SUBSET KeptUpTo(n)
    BY DEF KeptUpTo
  <2>2. IsFiniteSet(KeptUpTo(n)) /\ IsFiniteSet(KeptUpTo(k))
    BY <1>1, <2>1
  <2>3. Cardinality(KeptUpTo(k)) <= Cardinality(KeptUpTo(n))
    BY <2>1, <2>2, FS_Subset
  <2>4. Cardinality(KeptUpTo(k)) # 0
    BY <2>1, <2>2, FS_EmptySet
  <2> QED
    BY <1>1, <2>1, <2>3, <2>4
<1> QED
  BY <1>1, <1>2

LEMMA KeptNext ==
  ASSUME NEW n \in Nat \ {0}
  PROVE  /\ FP(found[n].path) = lowest =>
              /\ KeptUpTo(n) = KeptUpTo(n - 1) \cup {n}
              /\ Cardinality(KeptUpTo(n)) = Cardinality(KeptUpTo(n - 1)) + 1
         /\ FP(found[n].path) # lowest => KeptUpTo(n) = KeptUpTo(n - 1)
<1>1. n - 1 \in Nat /\ IsFiniteSet(KeptUpTo(n - 1))
  BY KeptCount
<1>4. n \notin KeptUpTo(n - 1)
  BY DEF KeptUpTo
<1>2. FP(found[n].path) = lowest => KeptUpTo(n) = KeptUpTo(n - 1) \cup {n}
  BY DEF KeptUpTo
<1>3. FP(found[n].path) # lowest => KeptUpTo(n) = KeptUpTo(n - 1)
  BY DEF KeptUpTo
<1> QED
  BY <1>1, <1>2, <1>3, <1>4, FS_AddElement

\* The group the filter keeps does not depend on what a later step changes.
LEMMA SameKept ==
  ASSUME UNCHANGED <<call, found, lowest>>
  PROVE  \A n : KeptUpTo(n)' = KeptUpTo(n)
BY SamePriorities DEF KeptUpTo

LEMMA FilterNarrow ==
  ASSUME IInv, KeptInv, FilterInv, LowestInv,
         ScanError \/ ScanDone \/ KeepError \/ DropError \/ FilterDone
  PROVE  FilterInv' /\ LowestInv'
<1>0. Len(errors) \in Nat /\ DOMAIN errors = 1 .. Len(errors) /\ errors \in Seq(ErrorRec)
      /\ DOMAIN found = 1 .. Len(found) /\ Len(found) \in Nat
  BY ErrorsSeq DEF IInv, TypeOK
<1>1. readIdx \in Nat \ {0} /\ writeIdx \in Nat
  BY DEF IInv, TypeOK
<1>2. call' = call /\ found' = found /\ call.mode = "priority" /\ \A p : FP(p)' = FP(p)
  <2>1. call' = call /\ found' = found /\ call.mode = "priority"
    BY DEF ScanError, ScanDone, KeepError, DropError, FilterDone, Narrowing, IInv, NarrowInv, walk
  <2> QED
    BY <2>1, SamePriorities
<1>3. CASE ScanError
  BY <1>3 DEF ScanError, FilterInv, LowestInv, Walked, InLoop
<1>4. CASE ScanDone
  <2>1. /\ pc = "lowest" /\ pc' = "filter" /\ readIdx' = 1 /\ writeIdx' = 0
        /\ UNCHANGED <<errors, lowest>> /\ errors = found
    BY <1>4 DEF ScanDone, KeptInv, IInv, NarrowInv
  <2>2. KeptUpTo(0)' = {}
    BY DEF KeptUpTo
  <2>3. Cardinality({}) = 0
    BY FS_EmptySet
  <2> QED
    BY <1>2, <2>1, <2>2, <2>3 DEF FilterInv, LowestInv, Compacted, Walked, InLoop
<1>5. CASE KeepError
  <2>1. /\ pc = "filter" /\ pc' = "filter" /\ readIdx <= Len(errors) /\ readIdx' = readIdx + 1
        /\ writeIdx' = writeIdx + 1 /\ writeIdx < readIdx /\ lowest' = lowest
        /\ errors' = [errors EXCEPT ![writeIdx + 1] = errors[readIdx]]
        /\ FP(errors[readIdx].path) = lowest
    BY <1>5 DEF KeepError, IInv, NarrowInv, InLowestGroup, FP, NextRead
  <2>2. /\ Len(errors') = Len(errors) /\ errors'[writeIdx + 1] = errors[readIdx]
        /\ \A k \in 1 .. Len(errors) : k # writeIdx + 1 => errors'[k] = errors[k]
    BY <1>0, <1>1, <2>1, ExceptSeq
  <2>3. /\ Len(errors) = Len(found) /\ errors[readIdx] = found[readIdx]
        /\ writeIdx = Cardinality(KeptUpTo(readIdx - 1)) /\ Compacted(readIdx - 1)
        /\ \A k \in readIdx .. Len(found) : errors[k] = found[k]
    BY <1>0, <1>1, <2>1 DEF FilterInv
  <2>4. KeptUpTo(readIdx) = KeptUpTo(readIdx - 1) \cup {readIdx}
        /\ Cardinality(KeptUpTo(readIdx)) = writeIdx + 1
    BY <1>1, <2>1, <2>3, KeptNext
  <2>5. \A n : KeptUpTo(n)' = KeptUpTo(n)
    BY <1>2, <2>1, SameKept
  <2>6. ASSUME NEW k \in KeptUpTo(readIdx)
        PROVE  errors'[Cardinality(KeptUpTo(k))] = found[k]
    <3>1. CASE k = readIdx
      BY <2>2, <2>3, <2>4, <3>1
    <3>2. CASE k # readIdx
      <4>1. k \in KeptUpTo(readIdx - 1) /\ Cardinality(KeptUpTo(k)) \in 1 .. writeIdx
        BY <1>1, <2>3, <2>4, <3>2, KeptCount
      <4> QED
        BY <1>0, <1>1, <2>1, <2>2, <2>3, <4>1 DEF Compacted
    <3> QED
      BY <3>1, <3>2
  <2>7. readIdx' - 1 = readIdx
    BY <1>1, <2>1
  <2>8. Compacted(readIdx - 1)'
    BY <1>2, <2>5, <2>6, <2>7 DEF Compacted
  <2>9. \A k \in readIdx' .. Len(found) : errors'[k] = found[k]
    BY <1>0, <1>1, <2>1, <2>2, <2>3
  <2> QED
    BY <1>0, <1>1, <1>2, <2>1, <2>2, <2>3, <2>4, <2>5, <2>7, <2>8, <2>9
    DEF FilterInv, LowestInv, Walked, InLoop
<1>6. CASE DropError
  <2>1. /\ pc = "filter" /\ pc' = "filter" /\ readIdx <= Len(errors) /\ readIdx' = readIdx + 1
        /\ UNCHANGED <<errors, lowest, writeIdx>> /\ FP(errors[readIdx].path) # lowest
    BY <1>6 DEF DropError, InLowestGroup, FP, NextRead
  <2>2. errors[readIdx] = found[readIdx] /\ Len(errors) = Len(found)
    BY <1>0, <1>1, <2>1 DEF FilterInv
  <2>3. KeptUpTo(readIdx) = KeptUpTo(readIdx - 1)
    BY <1>1, <2>1, <2>2, KeptNext
  <2>4. \A n : KeptUpTo(n)' = KeptUpTo(n)
    BY <1>2, <2>1, SameKept
  <2>5. readIdx' - 1 = readIdx
    BY <1>1, <2>1
  <2> QED
    BY <1>0, <1>1, <1>2, <2>1, <2>2, <2>3, <2>4, <2>5 DEF FilterInv, LowestInv, Compacted, Walked, InLoop
<1>7. CASE FilterDone
  <2>0. pc = "filter" /\ pc' = "blob" /\ errors' = SubSeq(errors, 1, writeIdx) /\ lowest' = lowest
        /\ readIdx > Len(errors)
    BY <1>7 DEF FilterDone, narrow
  <2>1. writeIdx \in 1 .. Len(errors) /\ readIdx = Len(found) + 1
    <3>1. readIdx <= Len(errors) + 1 /\ writeIdx < readIdx /\ Len(errors) = Len(found)
      BY <2>0 DEF IInv, NarrowInv, FilterInv
    <3>2. writeIdx > 0 \/ \E k \in readIdx .. Len(errors) : Prio(k) = lowest
      BY <2>0 DEF IInv, NarrowInv
    <3> QED
      BY <1>0, <1>1, <2>0, <3>1, <3>2
  <2>2. Len(errors') = writeIdx /\ \A k \in 1 .. writeIdx : errors'[k] = errors[k]
    BY <1>0, <2>0, <2>1, SubSeqProperties
  <2>3. \A n : KeptUpTo(n)' = KeptUpTo(n)
    BY <1>2, <2>0, SameKept
  <2>4. writeIdx = Cardinality(KeptUpTo(Len(found))) /\ Compacted(Len(found))
    BY <1>0, <2>0, <2>1 DEF FilterInv
  <2>5. \A k \in KeptUpTo(Len(found)) : Cardinality(KeptUpTo(k)) \in 1 .. writeIdx
    BY <1>0, <2>4, KeptCount
  <2>6. Narrowed(Len(errors))'
    BY <1>2, <2>2, <2>3, <2>4, <2>5 DEF Narrowed, Compacted
  <2>7. KeptUpTo(Len(found)) # {}
    <3>1. writeIdx # 0
      BY <1>0, <2>1
    <3>2. Cardinality({}) = 0
      BY FS_EmptySet
    <3> QED
      BY <2>4, <3>1, <3>2, Zenon
  <2>8. \E j \in DOMAIN found : FP(found[j].path) = lowest
    BY <1>0, <2>7 DEF KeptUpTo
  <2>9. LowestInv'
    BY <1>2, <2>0, <2>8 DEF LowestInv, KeptInv
  <2> QED
    BY <2>0, <2>6, <2>9 DEF FilterInv, Walked, InLoop
<1> QED
  BY <1>3, <1>4, <1>5, <1>6, <1>7

LEMMA FilterStep ==
  ASSUME AllInv, FilterInv, LowestInv, [Next]_vars
  PROVE  FilterInv' /\ LowestInv'
<1> USE DEF walk, narrow, loop, scopes, report, result
<1>0. IInv /\ TypeOK /\ PrefixInv /\ KeptInv
  BY DEF AllInv, IInv
<1>1. CASE RejectInput
  BY <1>1 DEF RejectInput, FilterInv, LowestInv, Walked, InLoop
<1>2. CASE BeginCall \/ VisitField \/ FailFastReturn \/ StartNarrowing
  <2>1. pc' \in {"walk", "defer", "lowest"}
    BY <1>0, <1>2, VisitRecords DEF BeginCall, FailFastReturn, StartNarrowing
  <2> QED
    BY <2>1 DEF FilterInv, LowestInv, Walked, InLoop
<1>3. CASE PassToBlob
  <2>1. /\ pc = "walk" /\ pc' = "blob" /\ UNCHANGED <<call, errors, found, lowest>>
        /\ (call.mode = "all" \/ valid) /\ errors = found
    BY <1>0, <1>3 DEF PassToBlob, EndWalk, KeptInv
  <2> SUFFICES ASSUME call.mode = "priority" PROVE FilterInv' /\ LowestInv'
    BY <2>1 DEF FilterInv, LowestInv
  <2>2. found = << >> /\ errors = << >> /\ Len(found) = 0 /\ DOMAIN found = {}
    BY <1>0, <2>1, EmptySeq DEF IInv, ErrorsIffInvalid
  <2>3. KeptUpTo(0)' = {} /\ Cardinality({}) = 0
    BY FS_EmptySet DEF KeptUpTo
  <2> QED
    BY <2>1, <2>2, <2>3 DEF FilterInv, LowestInv, Narrowed, Compacted, Walked, InLoop
<1>4. CASE ScanError \/ ScanDone \/ KeepError \/ DropError \/ FilterDone
  BY <1>0, <1>4, FilterNarrow
<1>5. CASE BeginBlobLayer
  <2>1. /\ pc = "blob" /\ pc' = "loop" /\ nCUEErrors' = Len(errors)
        /\ UNCHANGED <<call, errors, found, lowest>>
    BY <1>5 DEF BeginBlobLayer
  <2> QED
    BY <2>1, SameKept, SamePriorities DEF FilterInv, LowestInv, Narrowed, Compacted, Walked, InLoop
<1>6. CASE RuleStep
  <2>1. Walked /\ ~PreLoop' /\ nCUEErrors' = nCUEErrors /\ UNCHANGED <<call, found, lowest>>
    BY <1>0, <1>6, LoopErrors, LoopFrame
  <2>2. nCUEErrors <= Len(errors) /\ Len(errors) \in Nat /\ nCUEErrors \in Nat /\ Len(found) \in Nat
    BY <1>0, <2>1, ErrorsSeq DEF PrefixInv, TypeOK
  <2>3. \A k \in 1 .. nCUEErrors : errors'[k] = errors[k]
    BY <1>0, <1>6, <2>2, LoopErrors
  <2> SUFFICES ASSUME call.mode = "priority" PROVE FilterInv' /\ LowestInv'
    BY <2>1 DEF FilterInv, LowestInv, PreLoop
  <2>4. Narrowed(nCUEErrors)
    BY <2>1 DEF FilterInv
  <2>5. \A k \in KeptUpTo(Len(found)) : Cardinality(KeptUpTo(k)) \in 1 .. nCUEErrors
    BY <2>2, <2>4, KeptCount DEF Narrowed
  <2>6. Narrowed(nCUEErrors)'
    BY <2>1, <2>3, <2>4, <2>5, SameKept DEF Narrowed, Compacted
  <2> QED
    BY <2>1, <2>6, SamePriorities DEF FilterInv, LowestInv, PreLoop
<1>7. CASE Late
  <2>1. UNCHANGED <<call, errors, found, lowest, nCUEErrors, readIdx, writeIdx>>
    BY <1>7 DEF Late, LoopDone, EndBlobLayer, RunDeferred, ReportValidation, vars
  <2>2. (Walked' => Walked) /\ (PreLoop' => pc' = pc)
    BY <1>7 DEF Late, LoopDone, EndBlobLayer, RunDeferred, ReportValidation, vars,
                PreLoop, Walked, InLoop, Leaving
  <2>3. \A n : (Compacted(n)' <=> Compacted(n)) /\ (Narrowed(n)' <=> Narrowed(n))
    BY <2>1, SameKept DEF Compacted, Narrowed
  <2> QED
    BY <2>1, <2>2, <2>3, SameKept, SamePriorities DEF FilterInv, LowestInv, PreLoop
<1> QED
  BY <1>1, <1>2, <1>3, <1>4, <1>5, <1>6, <1>7, StepCases DEF Early

\* process.go:340: filtering result.Errors in place loses none of the lowest
\* failing group, keeps nothing of a later one, and keeps their order.
THEOREM FilterKeepsLowest == Spec => []NarrowedToLowestGroup
<1>1. Init => FilterInv /\ LowestInv
  BY DEF Init, FilterInv, LowestInv, Walked, InLoop
<1>2. ASSUME AllInv, FilterInv, LowestInv
      PROVE  NarrowedToLowestGroup
  <2> SUFFICES ASSUME Walked, call.mode = "priority"
               PROVE  /\ nCUEErrors = Cardinality(LowestGroup)
                      /\ \A k \in LowestGroup :
                           errors[Cardinality({j \in LowestGroup : j <= k})] = found[k]
    BY DEF NarrowedToLowestGroup, Walked
  <2>1. TypeOK /\ DOMAIN found = 1 .. Len(found) /\ Len(found) \in Nat
    BY <1>2, ErrorsSeq DEF AllInv, IInv
  <2>2. lowest \in Int /\ \A p : FP(p) \in Int
    BY <2>1, FPType, PriorityAssumption DEF TypeOK
  <2>3. LowestGroup = KeptUpTo(Len(found))
    BY <1>2, <2>1, <2>2 DEF LowestInv, LowestGroup, KeptUpTo, FP
  <2>4. \A k \in KeptUpTo(Len(found)) : {j \in LowestGroup : j <= k} = KeptUpTo(k)
    BY <2>1, <2>3 DEF KeptUpTo
  <2> QED
    BY <1>2, <2>3, <2>4 DEF FilterInv, Narrowed, Compacted
<1> QED
  BY <1>1, <1>2, FilterStep, AllInvariant, PTL DEF Spec

----------------------------------------------------------------------------
(* The observers.                                                          *)

\* The elements of a sequence, and that none comes twice.
Told(s) == {s[i] : i \in DOMAIN s}
Once(s) == \A i, j \in DOMAIN s : s[i] = s[j] => i = j

\* The walk has told the recorder, if there is one, about the fields before the
\* cursor, each at most once, and it ends only where WalkedTo says it may.
WalkInv ==
  /\ IF call.metered THEN Told(decisions) = Examined(at - 1) /\ Once(decisions)
     ELSE decisions = << >>
  /\ pc = "start" => decisions = << >>
  /\ pc = "walk" /\ call.mode = "fast" /\ found # << >> => WalkedTo(at - 1)
  /\ pc \notin {"start", "walk"} => WalkedTo(at - 1) \/ (pc = "done" /\ Rejected)

\* The wrapper tells the recorder about the final result, and only then; a
\* rejected input never comes by it.
WrapperInv ==
  /\ pc # "done" => validations = << >> /\ codes = << >> /\ ~Rejected
  /\ pc = "done" /\ call.metered /\ ~Rejected =>
       validations = <<valid>> /\ codes = [k \in DOMAIN errors |-> errors[k].code]
  /\ pc = "done" /\ ~(call.metered /\ ~Rejected) => NothingReported

LEMMA AppendTold ==
  ASSUME NEW S, NEW s \in Seq(S), NEW e \in S
  PROVE  /\ Told(Append(s, e)) = Told(s) \cup {e}
         /\ Once(s) /\ e \notin Told(s) => Once(Append(s, e))
<1>1. /\ DOMAIN s = 1 .. Len(s) /\ Len(s) \in Nat
      /\ DOMAIN Append(s, e) = 1 .. Len(s) + 1
      /\ \A i \in 1 .. Len(s) : Append(s, e)[i] = s[i]
      /\ Append(s, e)[Len(s) + 1] = e
  BY AppendProperties, LenProperties
<1>2. \A i \in DOMAIN Append(s, e) : i \in DOMAIN s \/ i = Len(s) + 1
  BY <1>1
<1>3. Told(Append(s, e)) = Told(s) \cup {e}
  BY <1>1, <1>2 DEF Told
<1>4. ASSUME Once(s), e \notin Told(s)
      PROVE  Once(Append(s, e))
  BY <1>1, <1>2, <1>4 DEF Once, Told
<1> QED
  BY <1>3, <1>4

\* What a compiled schema and a proper input say of a field with a value: its
\* parent was entered, and it has a Go descriptor only if it is no struct.
LEMMA ValuedField ==
  ASSUME call \in Calls, NEW k \in DOMAIN Fields
  PROVE  /\ ~IsNilValue(Fields[k].path) => Reached(Fields[k])
         /\ Fields[k].fast => Fields[k].kind # "struct"
<1>1. PICK s \in Schemas :
        call \in [schema: {s}, mode: FailMode, wantOutput: BOOLEAN, metered: BOOLEAN,
                  input: {i \in [Path -> ValueClass] : ProperInput(s, i)}]
  BY DEF Calls
<1>2. call.schema = s /\ ProperInput(s, call.input)
  BY <1>1
<1>3. Fields[k].parent # Root /\ call.input[Fields[k].parent] # "full" => call.input[Fields[k].path] = "absent"
  BY <1>2 DEF ProperInput, Fields
<1>4. Fields[k].fast => Fields[k].kind # "struct"
  BY CallFacts DEF CompiledSchema, Fields
<1> QED
  BY <1>3, <1>4 DEF IsNilValue, Reached

\* The fast path reports the field behind the first at - 1 if it has a
\* descriptor and a value, and it was not reported before.
LEMMA ExaminedNext ==
  ASSUME TypeOK, at \in DOMAIN Fields
  PROVE  /\ Examined(at) = IF Fields[at].fast /\ ~IsNilValue(Fields[at].path)
                           THEN Examined(at - 1) \cup {Fields[at].path} ELSE Examined(at - 1)
         /\ Fields[at].path \notin Examined(at - 1)
<1>1. DOMAIN Fields = 1 .. Len(Fields) /\ Len(Fields) \in Nat /\ CompiledSchema(call.schema)
  BY CallFacts, LenProperties DEF TypeOK
<1>2. \A i : i \in 1 .. at <=> i \in 1 .. at - 1 \/ i = at
  BY <1>1
<1>3. \A i \in 1 .. at - 1 : i \in DOMAIN Fields /\ i # at
  BY <1>1
<1>4. \A i \in 1 .. at - 1 : Fields[i].path # Fields[at].path
  BY <1>1, <1>3 DEF CompiledSchema, Fields
<1>5. Fields[at].path \notin Examined(at - 1)
  BY <1>4 DEF Examined
<1> QED
  BY <1>2, <1>5 DEF Examined

\* A visit reports the field at the cursor, if at all, and records errors of it.
LEMMA VisitDecides ==
  ASSUME TypeOK, VisitField
  PROVE  /\ at \in DOMAIN Fields /\ Fields[at].path \in Path /\ ~StopEarly
         /\ decisions' = IF call.metered /\ Fields[at].fast /\ ~IsNilValue(Fields[at].path)
                         THEN Append(decisions, Fields[at].path) ELSE decisions
         /\ \/ found' = found
            \/ \E paths \in Seq({Fields[at].path} \cup ElementsOf(Fields[at])) :
                 found' = found \o CUEErrors(paths)
<1>1. PICK k \in DOMAIN Fields :
        LET f == Fields[k] IN
        VisitUnreached(f) \/ VisitMissing(f) \/ VisitNil(f) \/ VisitStruct(f) \/ VisitValue(f)
  BY DEF VisitField
<1> DEFINE f == Fields[k]
<1>2. f = Fields[at] /\ ~StopEarly
  BY <1>1 DEF VisitUnreached, VisitMissing, VisitNil, VisitStruct, VisitValue, Visiting
<1>3. at \in DOMAIN Fields
  BY VisitRecords, CallFacts, LenProperties DEF TypeOK
<1>4. (~IsNilValue(f.path) => Reached(f)) /\ (f.fast => f.kind # "struct")
  BY ValuedField DEF TypeOK
<1>5. /\ f.path \in Path /\ << >> \in Seq({f.path} \cup ElementsOf(f))
      /\ <<f.path>> \in Seq({f.path} \cup ElementsOf(f))
      /\ UpTo(MaxFieldErrors, {f.path} \cup ElementsOf(f)) \subseteq Seq({f.path} \cup ElementsOf(f))
  <2>1. f.path \in Path
    BY FieldPaths DEF TypeOK
  <2>2. UpTo(MaxFieldErrors, {f.path} \cup ElementsOf(f)) \subseteq Seq({f.path} \cup ElementsOf(f))
    BY UpToType, BoundAssumption
  <2>3. \A S : << >> \in Seq(S) /\ \A e \in S : <<e>> \in Seq(S)
    BY EmptySeq
  <2> QED
    BY <2>1, <2>2, <2>3
<1>6. \/ found' = found
      \/ \E paths \in Seq({f.path} \cup ElementsOf(f)) : found' = found \o CUEErrors(paths)
  BY <1>1, <1>5 DEF VisitUnreached, VisitMissing, VisitNil, VisitStruct, VisitValue, RecordFieldErrors
<1>7. CASE VisitUnreached(f) \/ VisitMissing(f) \/ VisitNil(f) \/ VisitStruct(f)
  <2>1. decisions' = decisions /\ (~Reached(f) \/ IsNilValue(f.path) \/ f.kind = "struct")
    BY <1>7 DEF VisitUnreached, VisitMissing, VisitNil, VisitStruct, IsNilValue
  <2> QED
    BY <1>2, <1>3, <1>4, <1>5, <1>6, <2>1
<1>8. CASE VisitValue(f)
  <2>1. ~IsNilValue(f.path) /\ decisions' = IF f.fast /\ call.metered THEN Append(decisions, f.path) ELSE decisions
    BY <1>8 DEF VisitValue, Decide
  <2> QED
    BY <1>2, <1>3, <1>5, <1>6, <2>1
<1> QED
  BY <1>1, <1>7, <1>8

\* With FailFast the errors found are those of the field just visited.
LEMMA VisitEnds ==
  ASSUME IInv, KeptInv, VisitField, call.mode = "fast", found' # << >>
  PROVE  WalkedTo(at - 1)'
<1>1. /\ pc = "walk" /\ call' = call /\ at \in 1 .. Len(Fields) /\ ~StopEarly
      /\ at \in DOMAIN Fields /\ Fields[at].path \in Path
  BY VisitRecords, VisitDecides DEF IInv
<1>2. found = << >>
  BY <1>1 DEF KeptInv, IInv, ErrorsIffInvalid, StopEarly
<1>3. PICK paths \in Seq({Fields[at].path} \cup ElementsOf(Fields[at])) : found' = found \o CUEErrors(paths)
  BY <1>2, VisitDecides DEF IInv
<1>4. {Fields[at].path} \cup ElementsOf(Fields[at]) \subseteq ErrPath
  BY <1>1 DEF ElementsOf, ErrPath
<1>5. paths \in Seq(ErrPath)
  BY <1>3, <1>4, SeqMonotonic
<1>6. /\ CUEErrors(paths) \in Seq(ErrorRec) /\ Len(CUEErrors(paths)) = Len(paths)
      /\ \A k \in 1 .. Len(paths) : CUEErrors(paths)[k].path = paths[k]
  BY <1>5, CUEErrorsType
<1>7. found' = CUEErrors(paths)
  BY <1>2, <1>3, <1>6, ConcatEmptySeq
<1>8. DOMAIN found' = 1 .. Len(paths)
  BY <1>6, <1>7, LenProperties
<1>9. \A k \in DOMAIN found' : found'[k].path \in {Fields[at].path} \cup ElementsOf(Fields[at])
  BY <1>3, <1>6, <1>7, <1>8, ElementOfSeq
<1>10. at' - 1 = at /\ at > 0 /\ Fields' = Fields
  BY <1>1, SamePriorities, VisitRecords DEF IInv
<1> QED
  BY <1>1, <1>9, <1>10 DEF WalkedTo, ElementsOf

LEMMA SameWalk ==
  ASSUME call' = call
  PROVE  /\ \A n : Examined(n)' = Examined(n)
         /\ found' = found => \A n : WalkedTo(n)' <=> WalkedTo(n)
BY SamePriorities DEF Examined, WalkedTo, IsNilValue, ElementsOf

\* After the walk nothing it told or met changes.
LEMMA WalkFrame ==
  ASSUME IInv, [Next]_vars, ~VisitField, ~RejectInput
  PROVE  /\ UNCHANGED <<call, walk>>
         /\ pc' = "start" => pc = "start"
         /\ pc' = "walk" => pc = "walk" \/ BeginCall
         /\ pc' \notin {"start", "walk"} =>
              pc \notin {"start", "walk"} \/ FailFastReturn \/ StartNarrowing \/ PassToBlob
         /\ pc = "done" => UNCHANGED <<pc, errors>>
<1> USE DEF walk, narrow, loop, scopes, report, result
<1>1. CASE Early
  BY <1>1 DEF Early, BeginCall, FailFastReturn, StartNarrowing, PassToBlob, EndWalk, ScanError, ScanDone,
              KeepError, DropError, FilterDone, Narrowing, BeginBlobLayer
<1>2. CASE RuleStep
  <2>1. pc \notin {"start", "walk", "done"} /\ pc' \notin {"start", "walk"} /\ UNCHANGED <<call, walk>>
    BY <1>2, LoopErrors, LoopCursor, LoopFrame DEF IInv, Walked, InLoop
  <2> QED
    BY <2>1
<1>3. CASE Late
  BY <1>3 DEF Late, LoopDone, EndBlobLayer, RunDeferred, ReportValidation, vars
<1> QED
  BY <1>1, <1>2, <1>3, StepCases

LEMMA WalkStep ==
  ASSUME IInv, KeptInv, WalkInv, [Next]_vars
  PROVE  WalkInv'
<1>0. TypeOK /\ Len(Fields) \in Nat /\ DOMAIN Fields = 1 .. Len(Fields) /\ at \in 1 .. Len(Fields) + 1
  BY CallFacts, LenProperties DEF IInv, TypeOK
<1>1. CASE RejectInput
  <2>1. /\ pc = "start" /\ pc' = "done" /\ UNCHANGED <<call, at, found, decisions>>
        /\ DOMAIN errors' = {1} /\ errors'[1].code = "E0C01"
    BY <1>1 DEF RejectInput, walk
  <2>2. Rejected'
    BY <2>1 DEF Rejected
  <2> QED
    BY <2>1, <2>2, SameWalk DEF WalkInv, Told, Once
<1>2. CASE VisitField
  <2>1. pc = "walk" /\ pc' = "walk" /\ call' = call /\ at' = at + 1 /\ at' - 1 = at
    BY <1>0, <1>2, VisitRecords
  <2>2. decisions \in Seq(Path) /\ Fields[at].path \in Path /\ at \in DOMAIN Fields
    BY <1>0, <1>2, VisitDecides DEF TypeOK
  <2>3. ~call.metered => decisions' = << >>
    BY <1>0, <1>2, VisitDecides DEF WalkInv
  <2>4. ASSUME call.metered
        PROVE  Told(decisions') = Examined(at) /\ Once(decisions')
    <3>1. Told(decisions) = Examined(at - 1) /\ Once(decisions)
      BY <2>4 DEF WalkInv
    <3>2. CASE Fields[at].fast /\ ~IsNilValue(Fields[at].path)
      <4>1. decisions' = Append(decisions, Fields[at].path)
        BY <1>0, <1>2, <2>4, <3>2, VisitDecides
      <4>2. Examined(at) = Examined(at - 1) \cup {Fields[at].path} /\ Fields[at].path \notin Examined(at - 1)
        BY <1>0, <2>2, <3>2, ExaminedNext
      <4> QED
        BY <2>2, <3>1, <4>1, <4>2, AppendTold
    <3>3. CASE ~(Fields[at].fast /\ ~IsNilValue(Fields[at].path))
      BY <1>0, <1>2, <2>2, <3>1, <3>3, VisitDecides, ExaminedNext
    <3> QED
      BY <3>2, <3>3
  <2>5. call.mode = "fast" /\ found' # << >> => WalkedTo(at - 1)'
    BY <1>2, VisitEnds
  <2>6. Told(decisions)' = Told(decisions') /\ Once(decisions)' = Once(decisions')
    BY DEF Told, Once
  <2>7. Examined(at - 1)' = Examined(at)
    BY <2>1, SameWalk
  <2> QED
    BY <2>1, <2>3, <2>4, <2>5, <2>6, <2>7 DEF WalkInv
<1>3. CASE ~VisitField /\ ~RejectInput
  <2>1. /\ UNCHANGED <<call, at, found, decisions>>
        /\ pc' = "start" => pc = "start"
        /\ pc' = "walk" => pc = "walk" \/ BeginCall
        /\ pc' \notin {"start", "walk"} =>
             pc \notin {"start", "walk"} \/ FailFastReturn \/ StartNarrowing \/ PassToBlob
        /\ pc = "done" => UNCHANGED <<pc, errors>>
    BY <1>3, WalkFrame DEF walk
  <2>2. WalkedTo(at - 1)' <=> WalkedTo(at - 1)
    BY <2>1, SameWalk DEF WalkedTo, Fields, ElementsOf
  <2>3. IF call'.metered THEN Told(decisions)' = Examined(at - 1)' /\ Once(decisions)'
        ELSE decisions' = << >>
    <3>1. Examined(at - 1)' = Examined(at - 1)
      BY <2>1, SameWalk DEF Examined, Fields, IsNilValue
    <3>2. Told(decisions)' = Told(decisions) /\ Once(decisions)' = Once(decisions)
      BY <2>1 DEF Told, Once
    <3> QED
      BY <2>1, <3>1, <3>2 DEF WalkInv
  <2>4. BeginCall => found = << >>
    BY DEF BeginCall, IInv, NarrowInv
  <2>5. FailFastReturn \/ StartNarrowing \/ PassToBlob => WalkedTo(at - 1)
    <3> SUFFICES ASSUME FailFastReturn \/ StartNarrowing \/ PassToBlob PROVE WalkedTo(at - 1)
      OBVIOUS
    <3>1. pc = "walk" /\ (at > Len(Fields) \/ StopEarly)
      BY DEF FailFastReturn, StartNarrowing, PassToBlob, EndWalk
    <3>2. CASE call.mode = "fast" /\ found # << >>
      BY <3>1, <3>2 DEF WalkInv
    <3>3. CASE ~(call.mode = "fast" /\ found # << >>)
      <4>1. ~StopEarly
        BY <3>1, <3>3 DEF StopEarly, KeptInv, IInv, ErrorsIffInvalid
      <4>2. at - 1 = Len(Fields)
        BY <1>0, <3>1, <4>1
      <4> QED
        BY <3>3, <4>2 DEF WalkedTo
    <3> QED
      BY <3>2, <3>3
  <2>6. pc' = "start" => decisions' = << >>
    BY <2>1 DEF WalkInv
  <2>7. pc' = "walk" /\ call'.mode = "fast" /\ found' # << >> => WalkedTo(at - 1)'
    BY <2>1, <2>2, <2>4 DEF WalkInv
  <2>8. pc' \notin {"start", "walk"} => WalkedTo(at - 1)' \/ (pc' = "done" /\ Rejected')
    BY <2>1, <2>2, <2>5 DEF WalkInv, Rejected
  <2> QED
    BY <2>1, <2>3, <2>6, <2>7, <2>8 DEF WalkInv
<1> QED
  BY <1>1, <1>2, <1>3

LEMMA WrapperStep ==
  ASSUME AllInv, WalkInv, WrapperInv, [Next]_vars
  PROVE  WrapperInv'
<1> USE DEF walk, narrow, loop, scopes, report, result
<1>0. IInv /\ TypeOK /\ PrefixInv
  BY DEF AllInv, IInv
<1>1. CASE RejectInput
  <2>1. /\ pc = "start" /\ pc' = "done" /\ UNCHANGED <<decisions, validations, codes>>
        /\ DOMAIN errors' = {1} /\ errors'[1].code = "E0C01"
    BY <1>1 DEF RejectInput
  <2>2. Rejected'
    BY <2>1 DEF Rejected
  <2> QED
    BY <2>1, <2>2 DEF WalkInv, WrapperInv, NothingReported
<1>2. CASE Early
  <2>1. AllCUE'
    BY <1>0, <1>2, EarlyErrors, EarlyStages DEF PrefixInv
  <2>2. ~Rejected'
    BY <2>1 DEF AllCUE, Rejected
  <2>3. pc # "done" /\ pc' # "done"
    BY <1>0, <1>2, EarlyStages DEF PreLoop
  <2>4. UNCHANGED <<validations, codes>>
    <3>1. CASE VisitField
      BY <1>0, <3>1, VisitRecords
    <3>2. CASE ~VisitField
      BY <1>2, <3>2 DEF Early, BeginCall, FailFastReturn, StartNarrowing, PassToBlob, EndWalk, ScanError,
                        ScanDone, KeepError, DropError, FilterDone, Narrowing, BeginBlobLayer
    <3> QED
      BY <3>1, <3>2
  <2> QED
    BY <2>2, <2>3, <2>4 DEF WrapperInv
<1>3. CASE RuleStep
  <2>1. pc # "done" /\ pc' # "done" /\ UNCHANGED <<validations, codes>>
    BY <1>0, <1>3, LoopErrors, LoopCursor, LoopFrame DEF Walked, InLoop
  <2>2. DOMAIN errors = 1 .. Len(errors) /\ Len(errors) \in Nat
    BY <1>0, ErrorsSeq
  <2>3. ~Rejected'
    <3>1. CASE errors' = errors
      BY <2>1, <3>1 DEF WrapperInv, Rejected
    <3>2. CASE errors' # errors
      <4>1. /\ DOMAIN errors' = 1 .. Len(errors) + 1
            /\ \A k \in 1 .. Len(errors) : errors'[k] = errors[k]
            /\ errors'[Len(errors) + 1].code \in RuleCode
        BY <1>0, <1>3, <3>2, LoopErrors
      <4>2. \A k \in DOMAIN errors' : k \in DOMAIN errors \/ k = Len(errors) + 1
        BY <2>2, <4>1
      <4>3. errors'[Len(errors) + 1].code # "E0C01"
        BY <4>1 DEF RuleCode
      <4> QED
        BY <2>1, <2>2, <4>1, <4>2, <4>3 DEF WrapperInv, Rejected
    <3> QED
      BY <3>1, <3>2
  <2> QED
    BY <2>1, <2>3 DEF WrapperInv
<1>4. CASE LoopDone \/ EndBlobLayer \/ RunDeferred
  <2>1. pc # "done" /\ pc' # "done" /\ UNCHANGED <<errors, validations, codes>>
    BY <1>4 DEF LoopDone, EndBlobLayer, RunDeferred
  <2> QED
    BY <2>1 DEF WrapperInv, Rejected
<1>5. CASE ReportValidation
  <2>1. /\ pc = "report" /\ pc' = "done" /\ UNCHANGED <<call, valid, errors, decisions>>
        /\ validations' = IF call.metered THEN Append(validations, valid) ELSE validations
        /\ codes' = IF call.metered THEN codes \o Reported ELSE codes
    BY <1>5 DEF ReportValidation
  <2>2. validations = << >> /\ codes = << >> /\ ~Rejected /\ ~Rejected'
    BY <2>1 DEF WrapperInv, Rejected
  <2>3. Append(<< >>, valid) = <<valid>>
    OBVIOUS
  <2>4. << >> \o Reported = Reported
    BY <1>0, ErrorCodes, ConcatEmptySeq
  <2>5. CASE call.metered
    <3>1. validations' = <<valid'>>
      BY <2>1, <2>2, <2>3, <2>5
    <3>2. codes' = [k \in DOMAIN errors' |-> errors'[k].code]
      BY <2>1, <2>2, <2>4, <2>5 DEF Reported
    <3> QED
      BY <2>1, <2>2, <2>5, <3>1, <3>2 DEF WrapperInv
  <2>6. CASE ~call.metered
    BY <2>1, <2>2, <2>6 DEF WalkInv, WrapperInv, NothingReported
  <2> QED
    BY <2>5, <2>6
<1>6. CASE UNCHANGED vars
  BY <1>6 DEF vars, WrapperInv, Rejected, NothingReported
<1> QED
  BY <1>1, <1>2, <1>3, <1>4, <1>5, <1>6, StepCases DEF Late

\* observability.go:18-59: whatever a call does, its recorder is told exactly
\* once of its verdict, once of each error of the final result in its order,
\* and once of each field the walk got to that has a descriptor and a value;
\* nothing else, and of a rejected input nothing.
THEOREM ObserversSeeResult == Spec => []MetricsMatchResult
<1>1. Init => WalkInv /\ WrapperInv
  <2> SUFFICES ASSUME Init PROVE WalkInv /\ WrapperInv
    OBVIOUS
  <2>1. /\ pc = "start" /\ at = 1 /\ decisions = << >> /\ validations = << >> /\ codes = << >>
        /\ errors = << >>
    BY DEF Init
  <2>2. Examined(0) = {}
    BY DEF Examined
  <2>3. DOMAIN << >> = {}
    OBVIOUS
  <2>4. WalkInv
    BY <2>1, <2>2, <2>3 DEF WalkInv, Told, Once
  <2>5. WrapperInv
    BY <2>1, <2>3 DEF WrapperInv, Rejected
  <2> QED
    BY <2>4, <2>5
<1>2. ASSUME AllInv, WalkInv, WrapperInv
      PROVE  MetricsMatchResult
  <2> SUFFICES ASSUME pc = "done", call.metered, ~Rejected
               PROVE  /\ Once(decisions)
                      /\ \E n \in 0 .. Len(Fields) : WalkedTo(n) /\ Told(decisions) = Examined(n)
    BY <1>2 DEF MetricsMatchResult, WrapperInv, Once, Told
  <2>1. Len(Fields) \in Nat /\ at \in 1 .. Len(Fields) + 1
    BY <1>2, CallFacts, LenProperties DEF AllInv, IInv, TypeOK
  <2>2. at - 1 \in 0 .. Len(Fields)
    BY <2>1
  <2>3. WalkedTo(at - 1) /\ Told(decisions) = Examined(at - 1) /\ Once(decisions)
    BY <1>2 DEF WalkInv
  <2> QED
    BY <2>2, <2>3
<1>3. ASSUME AllInv, WalkInv, WrapperInv, [Next]_vars
      PROVE  (WalkInv /\ WrapperInv)'
  BY <1>3, WalkStep, WrapperStep DEF AllInv
<1> QED
  BY <1>1, <1>2, <1>3, AllInvariant, PTL DEF Spec
=============================================================================
