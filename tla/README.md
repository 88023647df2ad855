# A TLA+ model of schemix

schemix validates Go maps and structs in two layers: CUE constraints first, then
Bloblang expressions (`@blob`) with per-field directives (`@meta`), under one of
three fail modes. This directory holds a TLA+ model of it (the order of
its steps, its goroutines, how one field is judged and reported), the TLC runs
that check the model on small instances, and TLAPS proofs for every value of
the constants.

    tlc -config MCProcess_engine.cfg MCProcess      # one run
    tlapm ProcessProofs.tla                          # the proofs of a module

## 1. Inventory

| Component | State it keeps | Operations | What must be right |
|---|---|---|---|
| Validation engine (`process.go`) | `result`, `failedPaths`, `priorityHasError`, `currentPriority`, the CUE prefix `nCUEErrors`; all local to one call | `processInternal`, `keepLowestFailedPriority`, the three stages of a rule (`applySkipIf`, `applyPresenceRules`, `execBlobRule`), `recordRuleError` | Valid, Errors and Output agree on every return; no rule on a failed field; priority groups isolate; no rule lost to a `continue`, `break` or `return` |
| CUE layer (`cue_layer.go`) | errors of the walk, fast-path decisions | `validateCUEFields` and its `record*`, `validate*Field` helpers | every descriptor disposed of once; FailFast stops early |
| Entry points, metrics (`api.go`, `observability.go`, `failmode.go`) | open layer scopes, what the recorder was told | `Process*`, `Validate*`, `withValidationMetrics`, `beginLayer` / `end` | observers see the returned result, scopes are bracketed |
| Result paths (`path.go`) | the output map | get, set, delete, `isEmpty`, `deepCopy` | the caller's input is never written |
| Registry (`registry.go`) | map of validators under an RWMutex, a shared `cue.Context` | `Register`, `Put`, `Get`, `Has`, `Unregister`, `List`, `Len` | linearizable; no map access beside a write; a validator reports under its key; locks released |
| Environment ownership (`registry.go`) | process-wide `ownerMap` under `ownerMu`; the plugins of each environment | `Register{Methods,Functions,All}To`, `claimComponent` | one owner per environment, each component installed once, nothing overwritten |
| Registry plugins (`registry.go`) | validators captured when a mapping is parsed | `validate`, `process`, ... methods and functions | stale captures are deliberate |
| Schema compilation (`compile.go`, `validator.go`) | field descriptors, sorted rules | `compileCUEFields`, `extractRules`, `parsefieldMeta` | every attribute extracted or rejected; order of rules |
| Fast path (`fastpath.go`) | one Go descriptor per field, extracted in `New` | `extractFastConstraint`, `validateFast`, `validateFastList` | agrees with CUE on what it decides, and leaves it the rest |
| Localization (`localize.go`) | catalogs, each with a fallback | `Localize`, `LocalizedMessagesWith`, `Catalog.Validate` | the chain ends; the nearest catalog that can speak does; a validated catalog is never silent |
| Base environment, function maps (`builtin.go`, `funcmap.go`, `options.go`) | a lazily built shared environment, clones | `WithMethod`, `FuncMap` | sharing never leaks a registration |
| Error classification (`classify.go`, `errors.go`) | none | codes and structured fields of CUE's messages, collapse of a list's disjunction errors | every offending element reported, one error per enum element |
| Suggestions (`suggest.go`) | none | `levenshteinFold`, `suggestClosest` | the nearest candidate, or none |
| Conversion (`convert.go`) | none | `toMapAny` | fails or yields a map that says the same |
| Recorders, test helpers, benchmark gate | adapters | | |

A call of `Process` builds its result alone: the compiled schema is read-only,
the input is copied before it is written. What couples calls are the observers,
the `Registry` and the process-wide `ownerMap`. So the model has five
parts that share no state: one call of the engine, one registry under many
callers, the ownership of environments under many callers, the construction
of a Validator, whose result the engine runs, and the report of one field, which
opens what the engine takes as a choice: the verdict on a value and the errors
made of it. The hard behaviours are

* in the engine, a loop of some sixty lines that mixes `continue`, `break` and
  `return` with four pieces of bookkeeping that six error sites must update
  together, two breaks that rely on the sort order, an in-place filter, and
  observers that must see the final result;
* in the registry, compilation outside the lock, iteration of a map, locks
  released by hand, and an append to a slice owned by the caller;
* in the construction of a Validator, three recursions over one value that must
  agree, two more that look for attributes the first would miss, and schemas
  that are infinite;
* in the ownership of environments, a claim decided under a mutex and the
  registrations it licenses made after the mutex is released, any of which can
  fail;
* in the report of a field, two implementations of every constraint that must
  agree although one of them computes with float64, a fast path that must know
  what it cannot decide, a detour through JSON that changes the types of numbers,
  errors merged by the shape of their text, and a chain of catalogs followed with
  a depth bound in two recursions, through catalogs that may be missing or nil.

PROJECT.json lists each of these hazards at its line.

## 2. Modules

| Module | Models | |
|---|---|---|
| `SchemaTypes` | field descriptors and rules, and what the engine assumes of them | shared definitions |
| `Listing`, `ListingProofs` | the sequence a sort or an ordered iteration returns | functions and lemmas about them |
| `SchemaWalk` | `buildValidator`: `checkDefinitionAttrs`, `extractRules`, `sortBlobRules`, `compileCUEFields` | state machine |
| `WalkProofs`, `PlaceProofs` | theorems about `SchemaWalk`: its recursion and what it compiles; the places of a schema it reaches | proofs |
| `ProcessEngine` | one call of Process / Validate | state machine |
| `ProcessProperties` | what a call promises | properties over `ProcessEngine` |
| `PriorityGate` | what FailPriority promises of the rule layer | abstract specification |
| `ProcessProofs`, `AccountProofs` | theorems about `ProcessEngine`: its loop; what narrowing, the loop and the observers make of the errors found | proofs |
| `EnvOwnership` | `claimComponent` and `Register*To` | state machine |
| `ExclusiveRegistration` | one owner, each slot served once | abstract specification |
| `OwnershipProofs` | theorems about `EnvOwnership` | proofs |
| `SchemaRegistry` | `Registry` under concurrent callers | state machine |
| `AtomicRegistry` | the same methods, each in one step | abstract specification |
| `RegistryProofs` | theorems about `SchemaRegistry` | proofs |
| `FieldConstraint` | constraints and values, and CUE's answers about them | external definitions |
| `EditDistance` | `suggest.go` | functions and a reference |
| `FastPath` | `fastpath.go`: extraction and verdicts | functions |
| `InputConversion` | `convert.go` | functions |
| `MessageCatalog` | `localize.go` | functions |
| `FieldReport` | one field from its constraint to the sentences about it | state machine |
| `ReportProperties` | what a reader of the report may rely on | properties over `FieldReport` |
| `ReportProofs` | theorems about `EditDistance`, `MessageCatalog`, and the verdicts and reports of `FieldReport` | proofs |
| `MCSchema`, `MCProcess`, `MCOwnership`, `MCRegistry`, `MCReport` | instances for TLC | |

### ProcessEngine

`Init` chooses the compiled schema, the fail mode, whether an output is wanted,
whether an observer is installed, and the class of the value at each path
(absent, nil, empty, full, a Go value CUE encodes as a struct but the walk
cannot enter, a value of another kind). These never change. `pc` names the
stage:

    start -> walk -> (lowest -> filter) -> blob -> loop -> ... -> defer -> report -> done
                                                    |  ^
                                                    v  |
                                          skipIf -> presence -> exec

* `walk` is `validateCUEFields`, one action per kind of field the loop body
  tells apart (`VisitUnreached`, `VisitMissing`, `VisitNil`, `VisitStruct`,
  `VisitValue`). A value's constraint answers with any sequence of at most
  `MaxFieldErrors` errors at paths at or, for a list, below the field.
* `lowest` and `filter` are the two loops of `keepLowestFailedPriority`, an
  iteration per step, with the read and write index of the in-place filter.
* `loop` is the head of the rule loop: inherited CUE failures, leaving a failed
  group, the two breaks and `fail_fast`. `skipIf`, `presence` and `exec` are the
  three stages of a rule, each a method that may skip the rule, record an error
  and abort, or fall through.
* `defer` and `report` are the deferred closure that drops the output of an
  invalid result and the metrics wrapper around it.

What a `MetricsRecorder` is told is kept call by call, so that "once" can be said:
`decisions` is the sequence of paths given to `ObserveFastpathDecision` (whether the
path was hit is left open), `validations` of the verdicts given to
`ObserveValidation`, `codes` of the codes given to `ObserveErrorCode`. For
`ObserveLayerDuration` there are the scopes `begun` and `ended`.

`found` and `fate` are history variables: every CUE error the walk met, and what
became of each rule. Schemas are values satisfying `CompiledSchema`, the facts
the compiler guarantees (preorder, distinct paths, rules sorted by priority).
What an expression or constraint answers is a choice among the outcomes the code
tells apart; wording, codes of the CUE layer, span attributes and
`ObserveBlobExecution` are left out. Output is a map from path to where the
value came from.

### SchemaWalk

A schema is a graph: a function from nodes to CUE values, each with its kind,
its attributes, and edges to its fields or its elements, so that definitions
that refer to each other are cycles. A field's role says whether `Fields`
yields it by default (`field`, `optional`) or on request (`definition`); a list
holds elements, or an `ellipsis` that `AnyIndex` answers. The recursion of the
code is `stack`, one frame per call of the five functions in `Walks`, with the
position of its iterator:

    definitions -> rules -> fields -> done        (any step of the first two -> failed)

`Outcome` is what a call does before it iterates (the depth check, the kind
check, the attribute check of an element), `Iterated` what its iterator yields,
and one action per function is the body of its loop. `compileCUEFields` has no
depth check in the code and none here. `ExtractField` is a whole iteration of
`extractRules` up to its recursive call: arguments, expressions, rules. Arguments
keep what the two readings of `@meta` tell apart: the key, whether CUE splits it
from the value (`whole` is a quoted `"key=value"`), and whether the value
converts. Wording of errors and result kinds are left out.

The order of an iteration or a sort is a sequence of `Listing`: its n-th
element is the one with n - 1 elements before it, a form of `SelectSeq`, `SetToSortSeq` and
`SortSeq` that can be reasoned about. The properties speak of *places*, the
values that occur on some path from the root: `RootPlace`, and `Under` a place each
child of it, up to the depth a walk may look at (`Places`).

`CompilesToSchema` is the joint with the engine: the predicate `ProcessEngine`
assumes of its schemas is what this walk produces.

The analysis keeps its promise (`validator.go:144`) for the schemas that
`Analysable` describes. Outside them attributes are lost: below a nullable
struct or list (`schema_nulled`), in a list directly inside a list, in the fixed
elements of a list that also has an ellipsis, and in definitions nested in
element schemas; and a `@blob` with no expression swallows the rule that a
control such as `required_if` beside it would make. A priority given twice is
read last by the rule and first by the field; `PriorityReadAlike` is about
priorities given once.

### EnvOwnership

Each goroutine repeatedly calls one of the `Register*To` functions. A step
`ClaimFirst`, `ClaimOther`, `RefuseNilEnv`, `RefuseForeign` or `RefuseDuplicate`
is `claimComponent` under `ownerMu`; afterwards the goroutine registers its
plugins slot by slot (`Install`), and Bloblang may refuse one (`InstallFails`).
`RegisterAllTo` claims both components, then installs methods before functions.
The four slots of an environment are the two plugins,
`validate_schema` and `process_schema`, as methods and as functions. `releaseEnv`, which exists for tests, is left out.

### SchemaRegistry

Each goroutine repeatedly calls a method. `Register` builds its option slice
(`MakeOptions`), compiles (`Compile`, `CompileFails`) and only then locks;
`Put` checks for nil first. The RWMutex is modelled as it behaves: a writer
announces itself (`AnnounceWrite`), which turns new readers away, and enters
when the readers inside have left (`AcquireWrite`). `List` collects one name per
step. Option arrays are explicit, because `withRegistryName` exists to keep
Register out of its caller's array: all callers are given the same slice.

### FieldReport

`Init` picks a scene: a constraint, the value a caller passes for the field, the
way it is passed (`map`, `json`, `struct`, `bad`) and the catalogs in use. Then

    start -> compiled -> ready -> converted -> validated      (-> panicked)

* `Compile` extracts the field's descriptor as `New` does. `CheckCatalog` is the
  `Catalog.Validate` a program may run at startup; nothing calls it by itself, so
  `LeaveUnchecked` is the other choice.
* `Convert` and `RejectInput` are `toMapAny`. `CheckFast` and `CheckFastList` are
  the descriptor's verdict, the other three actions what happens when it has
  none (`ValidateScalarField`, `RejectNonList`, `ValidateListField`).
* `LocalizeNext` words one error through the catalog and its chain.

CUE is external, and the fast path is judged against it, so `FieldConstraint`
says what the code and its tests rely on: which kinds a constraint admits, what
`Expr` and `Eval` report of it (a disjunction of types collapses to its first
branch, a folded default reports no operator), what it accepts in exact
arithmetic, and which diagnostics it gives. Everything the fast path does with
those answers is translated.

Numbers are counted in halves, so that 1.5 is the integer 3. A float64 has
`MantissaBits` bits and an int64 ends at `Int64Limit`: `ToFloat` rounds to the
nearest number with that many bits, ties to even, as the hardware does. A string
is a sequence of letters, and only `EditDistance` looks inside it; a pattern or a
builtin is the set of strings it admits. A catalog is its templates, a template its wording
and the placeholders it names. A text remembers which template spoke, which path
it was about and which suffix followed.

A constraint is a tree: `Depth` counts the levels above its leaves, and
`ConstraintAssumption` says that operands are constraints of a lower depth, so that
what is computed along a constraint is a recursive function over `Constraint`. A
scene's catalogs end a chain in names that name none (`Named`), rename no label
twice (`LabelsFinal`) and have no empty label and no template that reads
like the generic text (`Telling`).

What CUE hands the code is assumed by name. `FormAssumption`: a comparison has one
number for its operand and `!=` one literal, `&` is distributed over `|` and has
no list among its operands, no branch of `|` is itself one, and a default marker is
folded only beside an alternative that is no literal and admits it. `BoundsAssumption`:
a conjunction has at most one bound per side (a second overwrites the
first in `setFastRangeBound`, CUE having simplified them to one).
`ValueAssumption`: a Go float is one a float64 holds. `SceneAssumption`: numbers
are texts in a JSON input and nowhere else (`Written`). CUE is taken to admit NaN and the infinities
wherever a float is welcome, the answer against which the fast path has to guard.
Left out: `float32`, a regular expression that does not compile, the set that
replaces a long enum, and lists within lists on their way through JSON.

## 3. Runs

| Run | Instance | Shows |
|---|---|---|
| `schema_walk` | all chains and forks of three values, argument lists of length two, recursive definitions; 186 thousand states, `FairSpec` | no attribute of an analysable schema is lost, nothing past the depth limit is accepted unexamined, the walks agree, refusals have a cause, `New` returns |
| `schema_nulled` | `{a: null \| {a: string @blob}}` | refutes "a schema never validates less than it appears to" |
| `process_engine` | five schemas, every mode, input class and outcome; 1.2 million states, no symmetry, `FairSpec` | the invariants and action properties of `ProcessProperties`, the refinement of `PriorityGate`, termination; exactly what a recorder is told, which is less than its documentation promises (below) |
| `process_scope` | `Nested` | refutes "`ObserveLayerDuration` is called once per layer": the FailFast returns leave the blob scope open |
| `process_negative` | `Negative` | refutes group isolation for negative priorities: `currentPriority` starts at -1 |
| `process_element` | `Listed` | refutes "first failing group": the error of a list element counts as group 0 |
| `process_nested` | `Nested` | refutes "a rule must never execute after its field's CUE constraint has failed" for a struct whose nested field failed in a later group |
| `ownership_claims` | 3 goroutines, 2 registries, 1 environment and nil; 680 thousand states | claims keep installations apart, nothing is overwritten, success means served; refinement of `ExclusiveRegistration` |
| `registry_atomic` | 3 interchangeable goroutines, 2 keys, every method; 1.1 million states up to symmetry | no map access beside a write, validators built under their own key, linearizability (`IsAtomic`) |
| `registry_live` | 3 goroutines, 1 key, `Register` and `List`, no symmetry | every call returns although readers and writers contend |
| `field_report` | 30 scalar and 16 list constraints, every kind of number and text, lists of up to three elements, three ways in, chains of up to four catalogs; 104 thousand states | the fast path agrees with CUE but for two exceptions, conversion changes no verdict, every offending element is reported, suggestions are nearest, texts are worded by the nearest catalog, a validated catalog is never silent |
| `report_oracle` | the same fields, read in English | refutes "for finite values, the fast path and CUE must agree": a `uint` on a `number` is a type error to the fast path (`fastpath.go:764`) and fits CUE |

**Bounds.** The engine's state is one call, so the instance that matters is the
schema. The five in `MCProcess` are the smallest in which each decision of the
loop goes both ways: a rule above a nested field of a later group (`Nested`), a
list (`Listed`), three groups with two `fail_fast` rules on one path (`Groups`),
every presence directive (`Flags`) and groups below zero (`Negative`). Two
errors per visit (`MaxFieldErrors = 2`) are needed for one field to report more
than FailFast may keep; a third is treated as the second. `MaxInt = 9` only has to
exceed the priorities. Three goroutines let two registrations of one registry
meet one of another, and let two overlapping readers try to starve a writer; with
two goroutines neither happens. The chains of
`MCSchema` contain every value kind, with and without null and attribute, in
every role at each of two levels below the root, so every pair of a parent and a
child that a walk may meet; `Annotated` pairs every two arguments and the forms
of `@blob`. `MaxDepth = 4` is deep enough for a list in a struct in a list, which
takes two levels per list, and small enough for the recursive definitions and
the towers to exceed it; the code's 32 only repeats the same calls.
In `MCReport` three bits make 9 the first integer no
float holds (2^53 + 1 in Go), and `Int64Limit = 16` leaves room above it for
integers that a struct or a JSON text carries as `int64` and a `number` field
compares as floats; 17 is the `uint` or the literal beyond int64. Every form of
constraint the extraction distinguishes occurs, those it must refuse included, and
every form of bound and bare type; two elements per list put a decided one
beside an undecided one in either order, three an error on each side of a good
element. Strings of up to four letters reach the suggestion limit of two edits from
either side. `MaxFallbackDepth = 3` with four catalogs lets a chain end, loop on
one or two catalogs, be cut off with a catalog left, and meet nil, a nil
`*Catalog`, and a foreign localizer that speaks or does not, on every level.
One environment is enough because `ownerMap` is keyed by
environment and no operation reads two entries. Symmetry is used only in
`registry_atomic`, which checks no liveness.

**Fairness.** A call of the engine has no one to wait for, so weak fairness of
its next step says only that Go runs it; the same holds of `buildValidator`. In the registry the steps inside a call
are weakly fair; announcing a write and entering as a reader are strongly fair,
as `sync.RWMutex` guarantees: its writer mutex hands itself to a starving waiter
and an unlocking writer admits all waiting readers. Entering as a writer needs only weak
fairness because readers that arrive later are held back; with a lock that let
them pass, `CallsReturn` would fail. Calling is never fair.

Every property of a passing run has a mutant in PROJECT.json: a `Slip` operator
beside a definition is a plausible mistake in it, and TLC finds the property
violated once it is put in.

**Exceptions.** `FastPathAgrees` leaves out what `report_oracle` refutes: numbers
that float64 rounds, and unsigned integers where integers and floats are both
welcome. `VerdictSurvivesConversion` leaves out the numbers JSON, int64 or float64
cannot carry; for all others the verdict on a struct or a JSON text is CUE's on what
was written, whoever decides. `EveryElementJudged` says how many errors an element
gets for a disjunction of literals and types (`IsChoice`): with a bound or a pattern
among its branches it gets one per diagnostic, since `mergeDisjunctionGroup`
leaves a group with any other wording alone. Of a conjunction it says that it is not
taken for an enum unless a literal is among its conjuncts (`IsOpenConjunction`).

**Findings shown by a passing run.** Three sentences of the documentation are
contradicted by a property that holds, because it says exactly what happens.

* `observability.go:133` says `ObserveFastpathDecision` "is called once per field that
  has a compiled Go-native fast constraint" (README.md:958 of the repository: "once
  per field holding a fast constraint"), and both say that counting the calls is safe
  under FailAll and FailPriority. The walk continues on a field that is absent
  (`cue_layer.go:87`) or nil (`cue_layer.go:93`) before it comes to the fast path, and
  never comes to the fields below a parent it did not enter. `MetricsMatchResult` says
  that the fields reported are those with a descriptor *and a value*, each once,
  up to the field where FailFast ended the walk: an input that omits an optional field
  reports fewer than the schema holds, under any mode.
* README.md:954 and `observability.go:128` say `ObserveValidation` is called once per
  `Process` / `Validate`. A call whose input cannot be converted returns from
  `api.go:80` without coming by the wrapper; `MetricsMatchResult` says that of such
  a call nothing is reported, its error code included.
* `localize.go:90` says of `Fallback` "Nil ends the chain"; a nil `*Catalog` there
  does not: `suggestionSuffix` (`localize.go:179`) follows it and panics, inside
  `Catalog.Validate` too. `LocalizedAsIntended` says that nothing else panics.

**Observed, with no run of their own.**

* Under FailPriority the CUE errors of a later group can be reported beside a
  rule error of an earlier one, since narrowing precedes the rules (README.md:851
  of the repository says "first failing group only").
* "already registered" (`registry.go:423`) may be answered before the registration
  it refers to, which may then fail.
* A nil `*Catalog` given to `LocalizedMessagesWith` yields the generic text, an
  untyped nil English.
* A catalog whose sentence comes from its fallback has its own
  `SuggestionSuffix` passed over, since the fallback renders it.
* A validated catalog can still word `E0C01` generically: that error has no path, and the probes
  all have one. Validate looks at the placeholders of the catalog's own templates only.
* The errors of a list's elements have field type `list` when the fast path makes
  them ("tags[0] must be of type list") and none when CUE does. Disjunctions are
  collapsed for lists only: a scalar enum CUE rejects leaves one error per branch.
* A struct's `float64(50)` arrives as an int64, which `float` rejects, and an integer
  beyond int64 as a float64. `1e400` arrives as +Inf, the error of `Float64` being
  dropped (`convert.go:112`); the fast path rejects it, a field left to CUE leaves
  it to CUE.

## 4. Proofs

Theorems hold for every value of the constants that satisfies the named
assumptions of the module, each of which TLC also evaluates on the instances.

**The engine** (`ProcessProofs`, `AccountProofs`), from `PathAssumption`,
`PriorityAssumption`, `SchemaAssumption`, `OutputAssumption` and
`BoundAssumption`, so for every set of compiled schemas and any number of errors
per field. Every invariant of `process_engine`, its action property and its refinement are theorems.

* `TypeCorrect`, `VerdictMatchesErrors`, `FailedGroupStops`. `ErrorsIffInvalid` is
  not inductive: narrowing rewrites the error slice, and
  that it never empties it needs the indices of the in-place filter to be
  related to the slice and `lowest` to be attained by some error still to come
  (`NarrowInv`). `OneFailedGroup` needs two facts about the loop: the flag is set exactly when
  a rule failed (`FlagInv`), and, with no negative priority, no rule ahead lies
  below the current group, no evaluated rule above it, and every failed rule in
  it (`GroupInv`), which rests on the rules being sorted.
* `InvalidDropsOutput`, `PrefixIsCUE`, `BookkeepingAgrees`, `FailFastStopsField`.
  `LoopStateInLockstep` needs the cursor: the rules before it have their fate and
  the others none (`CursorInv`), so a step of the loop cannot undo an inherited
  failure. A rule past the head of the loop still satisfies what was checked
  there (`StageInv`), because the stages append behind the prefix and mark only
  when they leave; `FieldFailFast` follows.
* `LoopImplementsGate` maps the gate's failed groups to the groups of the paths
  with a rule error; rules of one path carry one `@meta`, so by `GroupInv` that
  is at most the current group.
* `FailFastIsFirst`, `FailedFieldRunsNoRule`, `NoRuleLost`. The last two rest on what narrowing keeps:
  every error found is in the prefix or lies in a group above `lowest`, and the
  first error attains `lowest` (`Kept`). Inside the in-place filter this reads: an
  error of the lowest group has been written back or is still to be read
  (`KeptInv`). So the break past the lowest group skips only rules above some error, and no
  rule that runs has an error of its own.
* `FilterKeepsLowest` counts: the write index is the number of errors of the
  lowest group among those read, error `k` of them now lies at the
  place that number gives it, and what is unread lies where it was (`FilterInv`).
* `ObserversSeeResult` needs that the walk has reported, each once, exactly the fields
  before its cursor that have a descriptor and a value (`WalkInv`). For that a field with a
  value must be reached, a fast descriptor must belong to no struct, and no two fields may share a
  path: what the compiler guarantees of a schema and what an input is. With FailFast the errors found
  are those of the field just before the cursor. The wrapper is silent until the end, and
  only a rejected input carries `E0C01` (`WrapperInv`), which rests on the errors of the walk
  being CUE's and those of the loop the rules'.

**The construction of schemas** (`WalkProofs`, `PlaceProofs`), from
`PriorityAssumption`, `DepthAssumption` and `SourceAssumption`: every graph of CUE
values, cyclic or not, with any depth limit. All invariants of `schema_walk` are
theorems.

* `TypeCorrect` and `CompiledForTheEngine`. A path is always that of the frames
  below it (`StackInv`), and a walk *reaches* a path when some frame has it ahead of
  its iterator (`Reaches`). A path recorded is never reached again, which makes paths
  distinct; each has a trail of nodes from the root, which makes the two
  recursions agree (`RulesInv`, `FieldsInv`); and whatever was recorded by the first
  lies ahead of the second until it is recorded there too (`AheadInv`).
  `CompiledForTheEngine` proves of what `New` returns the `CompiledSchema` that
  `ProcessEngine` assumes of its schemas (`SchemaAssumption`).
* `InDeclarationOrder`: recorded paths lie before every path still reached
  (`OrderInv`), in an order that has to be shown asymmetric, and the sort is stable.
* `RefusalsHaveACause`, `PrioritiesAgree`: every frame stands at a place of the
  schema, on a line of places from the root (`PlacedInv`, `RefusedInv`, `ValueInv`).
* `NothingIsLost`, `NothingIsTruncated`: every place of an understood schema is
  still to come or has been examined (`CoverInv`); at the end nothing is to come.

**The ownership of environments** (`OwnershipProofs`: `OwnershipTypeCorrect`, `OneInstallerAtATime`,
`RegistrationNeverOverwrites`, `SuccessIsServed`, `OwnershipIsExclusive`), for any
number of registries, environments and goroutines. The invariant `OwnInv` adds to the properties that
a running registration stays covered by its registry's claim (`Covered`), that
nothing was registered outside a claim (`Unclaimed`), that what a registration
has passed is its registry's (`Behind`), and that no component is granted twice
(`GrantedOnce`): the facts that carry a decision made under `ownerMu` over to the
registrations made after it. `OwnershipIsExclusive` is the refinement of
`ExclusiveRegistration`.

**The registry** (`RegistryProofs`: `RegistryTypeCorrect`, `MapAccessIsExclusive`,
`RegisteredUnderOwnName`, `NoNilStored`, `RegistryIsAtomic`), for any number of goroutines, keys and
options. `TypeOK` carries the lock discipline; the strengthening
(`DrainedWriter`, `BuildOf`) says that an entered writer has no reader inside, and
what each call has established by its stage, down to the array of its option
slice. `RegistryIsAtomic` is linearizability: the refinement of `AtomicRegistry`, each
call taking effect where it writes or reads the map. `List` takes effect at its
last read: the names it has gathered are filed, each once (`CallOf`), none can be added or removed
meanwhile, and a sorted enumeration of a finite set is unique.

**The report of a field** (`ReportProofs`), for any alphabet, constraints of any form and
depth, values, lists of any length and catalogs that satisfy `ConstraintAssumption`, `FormAssumption`,
`BoundsAssumption`, `ValueAssumption`, `SceneAssumption`,
`CatalogAssumption`, `CodeAssumption` and
`DepthAssumption`. Every invariant of `field_report` is a theorem. First about the operators `FieldReport` is built from:

* `RollingRowIsDistance`: after each row the one rolling array of
  `levenshteinFold` holds a row of the textbook distance table.
  `NearestSuggested`: the scan of `suggestClosest` returns what `NearestTo`, which
  `SuggestionIsNearest` checks, asks for.
* `LocalizedRight`: what `Localize` says is what `LocalizedAsIntended` asks for, along
  any chain, looping or not, cut off at any `MaxFallbackDepth`, by induction from
  the end of the chain back (`Resolved`). It assumes that the names that end a
  chain name no catalog (`Named`) and that no catalog renames a label
  (`LabelsFinal`): with `"a" -> "b"` in one catalog and `"b" -> "c"` in its
  fallback the code shows either, depending on which of the two speaks.
* `ValidatedHasWords`: a catalog `Catalog.Validate` passed has words for every error with a known
  code and a path, whatever else it lacks: such an error and a probe that lacks
  everything are asked along the chain side by side (`Abreast`).

Then about the errors and texts of every state of a field: `ReportTyped`, `NearestIsSuggested`, `TextsAsIntended`
and `ValidatedNeverGeneric` state four of the properties of `field_report`. They
follow from one invariant, `ReportInv`:

* `Given`: the descriptor is one the fast path can decide by (`FastOK`, by cases over
  the forms `extractFastConstraint` recognises), and a catalog found in order is
  the one in use.
* `Judgement`: every error is `Sound` about the value it was found in. What makes it hard
  is that a suggestion has three authors: the enum check of the fast path, which compares
  with the literals of the descriptor; the same check on an element, whose
  error is moved to the element's path; and the merging of a failed disjunction's
  errors, which gathers the candidates of a whole group of diagnostics (`MergedIs`,
  `CollapsedSound`). CUE's own enum errors on a scalar get the
  descriptor's options but never a suggestion: sound only because the fast path decides
  every string of an enum itself (`FieldErrorIs`). A merged error compares with the element
  it is about; the list itself, no string, is never the subject of a merged one, by
  what CUE diagnoses at each index (`ListFound`, `IndexedIs`).
* `Verdicts` and `Reading`: a field is valid iff it has no error, and the texts so far are
  the intended ones. `WordsIntended` carries `ValidatedHasWords` from `Localize` to
  what the chain is meant to say, `ProbesEnd` that a chain that passed `Validate` has no nil
  `*Catalog` to panic on.

Last about the verdicts, `FastMeansCUE`, `CueMeansCUE`, `ConversionKeepsVerdict` and
`ElementsAllJudged`. Their invariant `VerdictInv` adds to `ReportInv` where a verdict comes from:
the descriptor is the one extracted from this constraint and the value judged what the
conversion made (`Sourced`), and the errors are those of the one branch of
`validateCUEFields` that decided (`Decided`).

* `ScalarAgrees` is the heart of it: whatever the descriptor extracted from a constraint
  handles, it answers as CUE does. Its cases are the kinds `extractFastConstraint` tells apart, and
  under each the forms: that the bounds found by the recursion are all the conjuncts say
  (`BoundsAssumption` makes the last the only one), that a float64 comparison of
  two numbers float64 holds is exact, that what `Eval` collapses is noticed
  (`hasHiddenDisjunctionBranches`), that a folded default is refused.
  `FastMeansCUE` lifts it to lists, which the fast path decides whole or not at all.
* `CueMeansCUE`: CUE has diagnostics for just what it rejects (`ReportedIs`, along the tree),
  and neither classification nor merging makes the last of them disappear (`CollapseIs`: what
  is left is one group per path, in the order of the first of each, never empty).
* `ConversionKeepsVerdict`: what comes out of the detour through JSON is, for numbers that
  can be carried, `Alike` what was written: of a kind, a number and a text CUE
  cannot tell apart, at every element, so that no constraint can (`AcceptsAlike`). Whoever
  decides the converted value decides as CUE does on the original. The exceptions need care:
  a struct's unsigned integers are signed when they arrive, so the
  exception of the fast path for them does not apply.
* `ElementsAllJudged`: for the fast path from `ScalarAgrees` at each element
  (`FastElementErrors`), for CUE from what a list diagnoses at each index
  and what merging leaves of it (`UniformErrors`). A choice leaves one error per element because
  its diagnostics are a summary and mismatches or conflicts, exactly what is
  mergeable (`ChoiceMerges`); a conjunction of open constraints has no summary (`ConjunctionStays`).

**What is only model-checked.** Liveness (`Termination` of the engine and of the construction,
`CallsReturn`): there is no rule for it here.

**Recursion and induction.** Recursion is a recursive function over an interval, a set of
values or the trees of constraints, and a theorem `LET f[n \in 0 .. N] == ... IN ...`
first proves that `f` has a value (`LevelsExist`, `ChainLeads`, `TreeRecursion`). The
library's induction rules take an operator as a parameter, which the provers here cannot
instantiate; the proofs use `SetInduction` of `ListingProofs` instead, which says of a
*set* of naturals that has 0 and successors that it is all of them, and `TreeInduction`,
which says the same of a set of constraints that contains each whose operands
it contains. The first is proved from the well-foundedness of the naturals,
the second from the first by `Depth`.

## 5. Not modelled, and why

PROJECT.json lists every component with its status. The text of CUE's messages
and of templates, and the built-in methods (`builtin_methods.go`), are data, not
control: the model keeps which format was recognised and which placeholder had a
value. CUE and Bloblang are external: the engine sees them as
choices of outcomes, `FieldReport` sees CUE as the definitions of `FieldConstraint`. The
`Registry`'s shared `cue.Context` is used without a lock by concurrent
compilations; whether that is safe is CUE's to say. The base environment is built
once under `sync.Once` and cloned afterwards by Bloblang. Recorders, test helpers and
the benchmark gate hold no protocol, except the registration of the Prometheus collectors.

## 6. Plan

Done: the engine, the construction of its schemas, the ownership of environments,
the registry, with their abstract specifications and proofs; the fast path,
conversion, suggestions, the collapse of disjunction errors and the catalogs. Next:

1. `RegistryPlugins`, composing `SchemaRegistry` and parsed mappings: which
   validator a mapping calls after `Put` and `Unregister`.
2. `NestedPath`: get, set and delete on nested maps, and `deepCopy`'s independence.
3. The registration of Prometheus collectors.
