--------------------------- MODULE RegistryProofs ---------------------------
(***************************************************************************)
(* Proofs about SchemaRegistry for any number of goroutines, keys, sources *)
(* and options.                                                            *)
(*                                                                         *)
(* TypeOK carries the lock discipline (HeldByItsHolders).  It does not say *)
(* that a writer is alone, nor where a stored validator comes from: that   *)
(* needs what a call has established by the stage it is in (DrainedWriter, *)
(* BuildOf), down to the option slice a Register compiles with.            *)
(***************************************************************************)
EXTENDS SchemaRegistry, ListingProofs, SequenceTheorems, FiniteSetTheorems, TLAPS

\* Past the drain no reader is inside, and none gets in.
DrainedWriter ==
  \A c \in Caller : pc[c] \in {"write", "unlock"} => readers = {}

\* What goroutine c has established at its stage.
BuildOf(c) ==
  /\ pc[c] \in {"options", "compile"} => req[c].op = "Register"
  /\ pc[c] = "check" => req[c].op = "Put"
  /\ pc[c] = "compile" => all[c] = c /\ arrays[c] = GivenOpts \o <<req[c].name>>
  /\ req[c].op = "Register" /\ pc[c] \in {"lock", "drain", "write"} => built[c].label = req[c].name
  /\ pc[c] \in {"lock", "drain", "write"} /\ req[c].op # "Unregister" => built[c] # Absent

LockInv == TypeOK /\ DrainedWriter

BuildInv == \A c \in Caller : BuildOf(c)

RegistryInv == LockInv /\ BuildInv

----------------------------------------------------------------------------
(* Requests and options.                                                   *)

\* Every request names a method the goroutines use; what it carries depends
\* on the method.
LEMMA RequestFacts ==
  ASSUME NEW r \in Request
  PROVE  /\ r.op \in {"Register", "Put", "Get", "Has", "Unregister", "List", "Len"}
         /\ r.op = "Register" => r.name \in Name /\ r.arg \in Schema \cup {Broken}
         /\ r.op = "Put" => r.name \in Name /\ r.arg \in Validator \cup {Absent}
         /\ r.op = "Unregister" => r.name \in Name
BY DEF Request

LEMMA FirstStageFacts ==
  ASSUME NEW r \in Request
  PROVE  /\ FirstStage(r.op) \in {"options", "check", "lock", "rlock"}
         /\ FirstStage(r.op) = "options" <=> r.op = "Register"
         /\ FirstStage(r.op) = "check" <=> r.op = "Put"
         /\ FirstStage(r.op) = "lock" <=> r.op = "Unregister"
BY RequestFacts DEF FirstStage

\* Appending a name to the caller's options yields a slice whose last WithName
\* is that name.
LEMMA LastNameWins ==
  ASSUME NEW n \in Name
  PROVE  /\ GivenOpts \o <<n>> \in Seq(Name)
         /\ LabelFrom(GivenOpts \o <<n>>) = n
<1> DEFINE last == <<n>>
           opts == GivenOpts \o last
<1>1. /\ GivenOpts \in Seq(Name) /\ Len(GivenOpts) \in Nat
      /\ last \in Seq(Name) /\ Len(last) = 1 /\ last[1] = n
  BY OptsAssumption
<1>2. /\ opts \in Seq(Name)
      /\ Len(opts) = Len(GivenOpts) + Len(last)
      /\ \A k \in 1 .. Len(GivenOpts) + Len(last) :
           opts[k] = IF k <= Len(GivenOpts) THEN GivenOpts[k] ELSE last[k - Len(GivenOpts)]
  <2> HIDE DEF last
  <2> QED  BY <1>1, ConcatProperties, Zenon
<1> HIDE DEF last, opts
<1>3. opts[Len(opts)] = n
  BY <1>1, <1>2
<1>4. opts \in Seq(Name) /\ LabelFrom(opts) = n
  BY <1>2, <1>3 DEF LabelFrom
<1> QED  BY <1>4 DEF opts, last

----------------------------------------------------------------------------
(* Types and the lock.                                                     *)

LEMMA InitLock ==
  Init => LockInv
<1> SUFFICES ASSUME Init PROVE LockInv
  OBVIOUS
<1>1. GivenOpts \in Seq(Name) /\ << >> \in Seq(Name)
  BY OptsAssumption
<1>2. HeldByItsHolders
  BY CallerAssumption DEF Init, HeldByItsHolders
<1>3. arrays \in [Caller \cup {Shared} -> Seq(Name)]
  BY <1>1 DEF Init
<1> QED  BY <1>1, <1>2, <1>3 DEF Init, LockInv, TypeOK, DrainedWriter, Stages

\* Steps that leave the lock alone and stay on the same side of it.
LEMMA LockUntouched ==
  ASSUME LockInv, NEW c \in Caller, NEW stage \in Stages, pc' = [pc EXCEPT ![c] = stage],
         UNCHANGED lock,
         pc[c] \in {"drain", "write", "unlock"} <=> stage \in {"drain", "write", "unlock"},
         pc[c] \in {"read", "runlock"} <=> stage \in {"read", "runlock"},
         stage \in {"write", "unlock"} => pc[c] \in {"write", "unlock"} \/ readers = {}
  PROVE  HeldByItsHolders' /\ DrainedWriter' /\ pc' \in [Caller -> Stages]
<1>1. /\ pc \in [Caller -> Stages] /\ HeldByItsHolders /\ DrainedWriter
      /\ writer' = writer /\ readers' = readers
  BY DEF LockInv, TypeOK, lock
<1>2. \A d \in Caller : pc'[d] = IF d = c THEN stage ELSE pc[d]
  BY <1>1
<1>3. pc' \in [Caller -> Stages]
  BY <1>1
<1>4. HeldByItsHolders'
  BY <1>1, <1>2 DEF HeldByItsHolders
<1>5. DrainedWriter'
  BY <1>1, <1>2 DEF DrainedWriter
<1> QED  BY <1>3, <1>4, <1>5

----------------------------------------------------------------------------
(* The invariant.                                                          *)

\* A step that leaves the other goroutines' locals alone is judged by its own.
LEMMA OthersUntouched ==
  ASSUME BuildInv, NEW c \in Caller, BuildOf(c)',
         \A d \in Caller \ {c} : /\ pc'[d] = pc[d] /\ req'[d] = req[d]
                                 /\ arrays'[d] = arrays[d] /\ all'[d] = all[d]
                                 /\ built'[d] = built[d]
  PROVE  BuildInv'
<1>1. \A d \in Caller \ {c} : BuildOf(d)'
  BY DEF BuildInv, BuildOf
<1>2. \A d \in Caller : BuildOf(d)'
  BY <1>1
<1> QED  BY <1>2 DEF BuildInv

LEMMA InitBuild ==
  Init => BuildInv
BY DEF Init, BuildInv, BuildOf

\* The map and the locals keep their types; the lock is in LockUntouched.
DataOK ==
  /\ validators \in [Name -> Validator \cup {Absent}]
  /\ writer \in Caller \cup {NoOne} /\ readers \subseteq Caller
  /\ req \in [Caller -> Request \cup {NoRequest}]
  /\ arrays \in [Caller \cup {Shared} -> Seq(Name)]
  /\ all \in [Caller -> Caller \cup {Shared}]
  /\ built \in [Caller -> Validator \cup {Absent}]
  /\ names \in [Caller -> Seq(Name)]

LEMMA TypeParts ==
  TypeOK <=> DataOK /\ pc \in [Caller -> Stages] /\ HeldByItsHolders
BY DEF TypeOK, DataOK

\* A step of goroutine c that does not touch the lock.
LEMMA StepBesideLock ==
  ASSUME RegistryInv, NEW c \in Caller, NEW stage \in Stages,
         pc' = [pc EXCEPT ![c] = stage], UNCHANGED lock,
         pc[c] \in {"drain", "write", "unlock"} <=> stage \in {"drain", "write", "unlock"},
         pc[c] \in {"read", "runlock"} <=> stage \in {"read", "runlock"},
         stage \in {"write", "unlock"} => pc[c] \in {"write", "unlock"} \/ readers = {},
         DataOK', BuildOf(c)',
         \A d \in Caller \ {c} : /\ req'[d] = req[d]
                                 /\ arrays'[d] = arrays[d] /\ all'[d] = all[d]
                                 /\ built'[d] = built[d]
  PROVE  RegistryInv'
<1>1. LockInv /\ BuildInv /\ pc \in [Caller -> Stages]
  BY DEF RegistryInv, LockInv, TypeOK
<1>2. HeldByItsHolders' /\ DrainedWriter' /\ pc' \in [Caller -> Stages]
  BY <1>1, LockUntouched
<1>3. BuildInv'
  BY <1>1, OthersUntouched
<1> QED  BY <1>2, <1>3 DEF RegistryInv, LockInv, TypeOK, DataOK

\* What the invariant gives a step of goroutine c.
LEMMA Before ==
  ASSUME RegistryInv, NEW c \in Caller
  PROVE  /\ DataOK /\ pc \in [Caller -> Stages] /\ HeldByItsHolders /\ DrainedWriter
         /\ BuildInv /\ BuildOf(c)
         /\ req[c] \in Request \cup {NoRequest}
BY DEF RegistryInv, LockInv, BuildInv, TypeOK, DataOK

LEMMA CallPreserves ==
  ASSUME RegistryInv, NEW c \in Caller, Call(c)
  PROVE  RegistryInv'
<1>1. PICK r \in Request : /\ req' = [req EXCEPT ![c] = r]
                           /\ pc' = [pc EXCEPT ![c] = FirstStage(r.op)]
  BY DEF Call, Goto
<1>2. /\ pc[c] = "idle" /\ UNCHANGED <<validators, lock, arrays, all, built, names>>
      /\ DataOK /\ pc \in [Caller -> Stages]
  BY Before DEF Call, locals
<1>3. /\ FirstStage(r.op) \in {"options", "check", "lock", "rlock"}
      /\ FirstStage(r.op) = "options" <=> r.op = "Register"
      /\ FirstStage(r.op) = "check" <=> r.op = "Put"
      /\ FirstStage(r.op) = "lock" <=> r.op = "Unregister"
  BY FirstStageFacts
<1>4. DataOK'
  BY <1>1, <1>2 DEF DataOK, lock
<1>5. BuildOf(c)'
  BY <1>1, <1>2, <1>3 DEF BuildOf, DataOK
<1>6. \A d \in Caller \ {c} : req'[d] = req[d]
  BY <1>1, <1>2 DEF DataOK
<1>7. FirstStage(r.op) \in Stages
  BY <1>3 DEF Stages
<1> QED  BY <1>1, <1>2, <1>3, <1>4, <1>5, <1>6, <1>7, StepBesideLock

----------------------------------------------------------------------------
(* Before the lock.                                                        *)

LEMMA MakeOptionsPreserves ==
  ASSUME RegistryInv, NEW c \in Caller, MakeOptions(c)
  PROVE  RegistryInv'
<1>1. /\ pc[c] = "options" /\ pc' = [pc EXCEPT ![c] = "compile"]
      /\ UNCHANGED <<validators, lock, req, built, names>>
      /\ arrays' = [arrays EXCEPT ![c] = GivenOpts \o <<req[c].name>>]
      /\ all' = [all EXCEPT ![c] = c]
  BY DEF MakeOptions, Goto, withRegistryName
<1>2. /\ DataOK /\ pc \in [Caller -> Stages] /\ BuildOf(c)
      /\ req[c] \in Request \cup {NoRequest}
  BY Before
<1>3. req[c].op = "Register" /\ req[c].name \in Name
  <2>1. req[c].op = "Register"
    BY <1>1, <1>2 DEF BuildOf
  <2> QED  BY <1>2, <2>1, RequestFacts DEF NoRequest
<1>4. GivenOpts \o <<req[c].name>> \in Seq(Name)
  BY <1>3, LastNameWins
<1>5. DataOK'
  BY <1>1, <1>2, <1>4 DEF DataOK, lock
<1>6. BuildOf(c)'
  BY <1>1, <1>2, <1>3 DEF BuildOf, DataOK
<1>7. \A d \in Caller \ {c} : arrays'[d] = arrays[d] /\ all'[d] = all[d]
  BY <1>1, <1>2 DEF DataOK
<1>8. "compile" \in Stages
  BY DEF Stages
<1> QED  BY <1>1, <1>5, <1>6, <1>7, <1>8, StepBesideLock

LEMMA CompilePreserves ==
  ASSUME RegistryInv, NEW c \in Caller, Compile(c)
  PROVE  RegistryInv'
<1> DEFINE v == [schema |-> req[c].arg, label |-> LabelFrom(arrays[all[c]])]
<1>1. /\ pc[c] = "compile" /\ req[c].arg # Broken
      /\ built' = [built EXCEPT ![c] = v]
      /\ pc' = [pc EXCEPT ![c] = "lock"]
      /\ UNCHANGED <<validators, lock, req, arrays, all, names>>
  BY DEF Compile, Goto
<1>2. /\ DataOK /\ pc \in [Caller -> Stages] /\ BuildOf(c)
      /\ req[c] \in Request \cup {NoRequest}
  BY Before
<1>3. req[c].op = "Register" /\ arrays[all[c]] = GivenOpts \o <<req[c].name>>
  BY <1>1, <1>2 DEF BuildOf
<1>4. req[c].name \in Name /\ req[c].arg \in Schema
  BY <1>1, <1>2, <1>3, RequestFacts DEF NoRequest
<1>5. v \in Validator /\ v # Absent /\ v.label = req[c].name
  <2>1. LabelFrom(arrays[all[c]]) = req[c].name
    BY <1>3, <1>4, LastNameWins
  <2> QED  BY <1>4, <2>1, AbsentAssumption DEF Validator
<1> HIDE DEF v
<1>6. DataOK'
  BY <1>1, <1>2, <1>5 DEF DataOK, lock
<1>7. BuildOf(c)'
  BY <1>1, <1>2, <1>3, <1>5 DEF BuildOf, DataOK
<1>8. \A d \in Caller \ {c} : built'[d] = built[d]
  BY <1>1, <1>2 DEF DataOK
<1>9. "lock" \in Stages
  BY DEF Stages
<1> QED  BY <1>1, <1>6, <1>7, <1>8, <1>9, StepBesideLock

LEMMA FailingPreserves ==
  ASSUME RegistryInv, NEW c \in Caller, CompileFails(c) \/ PutRejectsNil(c)
  PROVE  RegistryInv'
<1>1. /\ pc[c] \in {"compile", "check"} /\ pc' = [pc EXCEPT ![c] = "return"]
      /\ UNCHANGED <<validators, lock, req, arrays, all, built, names>>
  BY DEF CompileFails, PutRejectsNil, Goto, locals
<1>2. DataOK /\ pc \in [Caller -> Stages]
  BY Before
<1>3. DataOK'
  BY <1>1, <1>2 DEF DataOK, lock
<1>4. BuildOf(c)'
  BY <1>1, <1>2 DEF BuildOf
<1>5. "return" \in Stages
  BY DEF Stages
<1> QED  BY <1>1, <1>3, <1>4, <1>5, StepBesideLock

LEMMA PutAcceptsPreserves ==
  ASSUME RegistryInv, NEW c \in Caller, PutAccepts(c)
  PROVE  RegistryInv'
<1>1. /\ pc[c] = "check" /\ req[c].arg # Absent
      /\ built' = [built EXCEPT ![c] = req[c].arg]
      /\ pc' = [pc EXCEPT ![c] = "lock"]
      /\ UNCHANGED <<validators, lock, req, arrays, all, names>>
  BY DEF PutAccepts, Storable, Goto
<1>2. /\ DataOK /\ pc \in [Caller -> Stages] /\ BuildOf(c)
      /\ req[c] \in Request \cup {NoRequest}
  BY Before
<1>3. req[c].op = "Put"
  BY <1>1, <1>2 DEF BuildOf
<1>4. req[c].arg \in Validator
  BY <1>1, <1>2, <1>3, RequestFacts DEF NoRequest
<1>5. DataOK'
  BY <1>1, <1>2, <1>4 DEF DataOK, lock
<1>6. BuildOf(c)'
  BY <1>1, <1>2, <1>3 DEF BuildOf, DataOK
<1>7. \A d \in Caller \ {c} : built'[d] = built[d]
  BY <1>1, <1>2 DEF DataOK
<1>8. "lock" \in Stages
  BY DEF Stages
<1> QED  BY <1>1, <1>5, <1>6, <1>7, <1>8, StepBesideLock

----------------------------------------------------------------------------
(* The lock and the critical sections.                                     *)

LEMMA AnnounceWritePreserves ==
  ASSUME RegistryInv, NEW c \in Caller, AnnounceWrite(c)
  PROVE  RegistryInv'
<1>1. /\ pc[c] = "lock" /\ writer = NoOne /\ writer' = c
      /\ pc' = [pc EXCEPT ![c] = "drain"]
      /\ UNCHANGED <<validators, readers, req, arrays, all, built, names>>
  BY DEF AnnounceWrite, Goto, locals
<1>2. /\ DataOK /\ pc \in [Caller -> Stages] /\ HeldByItsHolders /\ DrainedWriter
      /\ BuildInv /\ BuildOf(c)
  BY Before
<1>3. DataOK' /\ pc' \in [Caller -> Stages]
  BY <1>1, <1>2 DEF DataOK, Stages
<1>4. \A d \in Caller : pc'[d] = IF d = c THEN "drain" ELSE pc[d]
  BY <1>1, <1>2
<1>5. HeldByItsHolders'
  BY <1>1, <1>2, <1>4, CallerAssumption DEF HeldByItsHolders
<1>6. DrainedWriter'
  BY <1>1, <1>2, <1>4 DEF DrainedWriter
<1>7. BuildOf(c)'
  BY <1>1, <1>2, <1>4 DEF BuildOf
<1>8. BuildInv'
  BY <1>1, <1>2, <1>4, <1>7, OthersUntouched
<1> QED  BY <1>3, <1>5, <1>6, <1>8 DEF RegistryInv, LockInv, TypeOK, DataOK

LEMMA AcquireWritePreserves ==
  ASSUME RegistryInv, NEW c \in Caller, AcquireWrite(c)
  PROVE  RegistryInv'
<1>1. /\ pc[c] = "drain" /\ readers = {} /\ pc' = [pc EXCEPT ![c] = "write"]
      /\ UNCHANGED <<validators, lock, req, arrays, all, built, names>>
  BY DEF AcquireWrite, Drained, Goto, locals
<1>2. DataOK /\ pc \in [Caller -> Stages] /\ BuildOf(c)
  BY Before
<1>3. DataOK'
  BY <1>1, <1>2 DEF DataOK, lock
<1>4. BuildOf(c)'
  BY <1>1, <1>2 DEF BuildOf
<1>5. "write" \in Stages
  BY DEF Stages
<1> QED  BY <1>1, <1>3, <1>4, <1>5, StepBesideLock

LEMMA AcquireReadPreserves ==
  ASSUME RegistryInv, NEW c \in Caller, AcquireRead(c)
  PROVE  RegistryInv'
<1>1. /\ pc[c] = "rlock" /\ writer = NoOne /\ readers' = readers \cup {c}
      /\ pc' = [pc EXCEPT ![c] = "read"]
      /\ UNCHANGED <<validators, writer, req, arrays, all, built, names>>
  BY DEF AcquireRead, Readable, Goto, locals
<1>2. /\ DataOK /\ pc \in [Caller -> Stages] /\ HeldByItsHolders
      /\ BuildInv /\ BuildOf(c)
  BY Before
<1>3. DataOK' /\ pc' \in [Caller -> Stages]
  BY <1>1, <1>2 DEF DataOK, Stages
<1>4. \A d \in Caller : pc'[d] = IF d = c THEN "read" ELSE pc[d]
  BY <1>1, <1>2
<1>5. HeldByItsHolders'
  BY <1>1, <1>2, <1>4 DEF HeldByItsHolders
<1>6. DrainedWriter'
  <2>1. \A d \in Caller : pc[d] \notin {"write", "unlock"}
    BY <1>1, <1>2, CallerAssumption DEF HeldByItsHolders
  <2> QED  BY <1>4, <2>1 DEF DrainedWriter
<1>7. BuildOf(c)'
  BY <1>1, <1>2, <1>4 DEF BuildOf
<1>8. BuildInv'
  BY <1>1, <1>2, <1>4, <1>7, OthersUntouched
<1> QED  BY <1>3, <1>5, <1>6, <1>8 DEF RegistryInv, LockInv, TypeOK, DataOK

LEMMA WritePreserves ==
  ASSUME RegistryInv, NEW c \in Caller, StoreValidator(c) \/ DeleteValidator(c)
  PROVE  RegistryInv'
<1>1. /\ pc[c] = "write" /\ pc' = [pc EXCEPT ![c] = "unlock"]
      /\ \/ validators' = [validators EXCEPT ![req[c].name] = built[c]]
         \/ validators' = [validators EXCEPT ![req[c].name] = Absent]
      /\ UNCHANGED <<lock, req, arrays, all, built, names>>
  BY DEF StoreValidator, DeleteValidator, Goto, locals
<1>2. DataOK /\ pc \in [Caller -> Stages] /\ BuildOf(c)
  BY Before
<1>3. DataOK'
  BY <1>1, <1>2 DEF DataOK, lock
<1>4. BuildOf(c)'
  BY <1>1, <1>2 DEF BuildOf
<1>5. "unlock" \in Stages
  BY DEF Stages
<1> QED  BY <1>1, <1>3, <1>4, <1>5, StepBesideLock

LEMMA ReadPreserves ==
  ASSUME RegistryInv, NEW c \in Caller, ReadOnce(c) \/ CollectedAll(c)
  PROVE  RegistryInv'
<1>1. /\ pc[c] = "read" /\ pc' = [pc EXCEPT ![c] = "runlock"]
      /\ UNCHANGED <<validators, lock, req, arrays, all, built, names>>
  BY Zenon DEF ReadOnce, CollectedAll, Goto, locals
<1>2. DataOK /\ pc \in [Caller -> Stages]
  BY Before
<1>3. DataOK'
  BY <1>1, <1>2 DEF DataOK, lock
<1>4. BuildOf(c)'
  BY <1>1, <1>2 DEF BuildOf
<1>5. "runlock" \in Stages
  BY DEF Stages
<1> QED  BY <1>1, <1>3, <1>4, <1>5, StepBesideLock

LEMMA CollectNamePreserves ==
  ASSUME RegistryInv, NEW c \in Caller, CollectName(c)
  PROVE  RegistryInv'
<1>1. /\ pc[c] = "read" /\ pc' = pc
      /\ \E n \in Name : names' = [names EXCEPT ![c] = Append(names[c], n)]
      /\ UNCHANGED <<validators, lock, req, arrays, all, built>>
  BY DEF CollectName, Filed
<1>2. DataOK /\ pc \in [Caller -> Stages]
  BY Before
<1>3. DataOK'
  <2>1. names' \in [Caller -> Seq(Name)]
    BY <1>1, <1>2 DEF DataOK
  <2> QED  BY <1>1, <1>2, <2>1 DEF DataOK, lock
<1>4. BuildOf(c)'
  BY <1>1, <1>2 DEF BuildOf
<1>5. "read" \in Stages /\ pc' = [pc EXCEPT ![c] = "read"]
  BY <1>1, <1>2 DEF Stages
<1> QED  BY <1>1, <1>3, <1>4, <1>5, StepBesideLock

LEMMA ReleaseWritePreserves ==
  ASSUME RegistryInv, NEW c \in Caller, ReleaseWrite(c)
  PROVE  RegistryInv'
<1>1. /\ pc[c] = "unlock" /\ writer' = NoOne
      /\ pc' = [pc EXCEPT ![c] = "return"]
      /\ UNCHANGED <<validators, readers, req, arrays, all, built, names>>
  BY DEF ReleaseWrite, Goto, locals
<1>2. /\ DataOK /\ pc \in [Caller -> Stages] /\ HeldByItsHolders /\ DrainedWriter
      /\ BuildInv /\ BuildOf(c)
  BY Before
<1>3. DataOK' /\ pc' \in [Caller -> Stages]
  BY <1>1, <1>2 DEF DataOK, Stages
<1>4. \A d \in Caller : pc'[d] = IF d = c THEN "return" ELSE pc[d]
  BY <1>1, <1>2
<1>5. HeldByItsHolders'
  <2>1. writer = c
    BY <1>1, <1>2 DEF HeldByItsHolders
  <2> QED  BY <1>1, <1>2, <1>4, <2>1, CallerAssumption DEF HeldByItsHolders
<1>6. DrainedWriter'
  BY <1>1, <1>2, <1>4 DEF DrainedWriter
<1>7. BuildOf(c)'
  BY <1>1, <1>2, <1>4 DEF BuildOf
<1>8. BuildInv'
  BY <1>1, <1>2, <1>4, <1>7, OthersUntouched
<1> QED  BY <1>3, <1>5, <1>6, <1>8 DEF RegistryInv, LockInv, TypeOK, DataOK

LEMMA ReleaseReadPreserves ==
  ASSUME RegistryInv, NEW c \in Caller, ReleaseRead(c)
  PROVE  RegistryInv'
<1>1. /\ pc[c] = "runlock" /\ readers' = readers \ {c}
      /\ pc' = [pc EXCEPT ![c] = "return"]
      /\ UNCHANGED <<validators, writer, req, arrays, all, built, names>>
  BY DEF ReleaseRead, Goto, locals
<1>2. /\ DataOK /\ pc \in [Caller -> Stages] /\ HeldByItsHolders /\ DrainedWriter
      /\ BuildInv /\ BuildOf(c)
  BY Before
<1>3. DataOK' /\ pc' \in [Caller -> Stages]
  BY <1>1, <1>2 DEF DataOK, Stages
<1>4. \A d \in Caller : pc'[d] = IF d = c THEN "return" ELSE pc[d]
  BY <1>1, <1>2
<1>5. HeldByItsHolders'
  BY <1>1, <1>2, <1>4 DEF HeldByItsHolders
<1>6. DrainedWriter'
  BY <1>1, <1>2, <1>4 DEF DrainedWriter
<1>7. BuildOf(c)'
  BY <1>1, <1>2, <1>4 DEF BuildOf
<1>8. BuildInv'
  BY <1>1, <1>2, <1>4, <1>7, OthersUntouched
<1> QED  BY <1>3, <1>5, <1>6, <1>8 DEF RegistryInv, LockInv, TypeOK, DataOK

LEMMA ReturnPreserves ==
  ASSUME RegistryInv, NEW c \in Caller, Return(c)
  PROVE  RegistryInv'
<1>1. /\ pc[c] = "return" /\ pc' = [pc EXCEPT ![c] = "idle"]
      /\ req' = [req EXCEPT ![c] = NoRequest]
      /\ built' = [built EXCEPT ![c] = Absent]
      /\ names' = [names EXCEPT ![c] = << >>]
      /\ arrays' = [arrays EXCEPT ![c] = << >>]
      /\ all' = [all EXCEPT ![c] = Shared]
      /\ UNCHANGED <<validators, lock>>
  BY DEF Return, Goto
<1>2. DataOK /\ pc \in [Caller -> Stages]
  BY Before
<1>3. DataOK'
  <2>1. << >> \in Seq(Name)
    OBVIOUS
  <2>2. names' \in [Caller -> Seq(Name)] /\ arrays' \in [Caller \cup {Shared} -> Seq(Name)]
    BY <1>1, <1>2, <2>1 DEF DataOK
  <2> QED  BY <1>1, <1>2, <2>2 DEF DataOK, lock
<1>4. BuildOf(c)'
  BY <1>1, <1>2 DEF BuildOf
<1>5. \A d \in Caller \ {c} : /\ req'[d] = req[d] /\ built'[d] = built[d]
                              /\ arrays'[d] = arrays[d] /\ all'[d] = all[d]
  BY <1>1, <1>2 DEF DataOK
<1>6. "idle" \in Stages
  BY DEF Stages
<1> QED  BY <1>1, <1>3, <1>4, <1>5, <1>6, StepBesideLock

----------------------------------------------------------------------------
(* Theorems.                                                               *)

LEMMA RegistryInvariant ==
  Spec => []RegistryInv
<1>1. Init => RegistryInv
  BY InitLock, InitBuild DEF RegistryInv
<1>2. RegistryInv /\ [Next]_vars => RegistryInv'
  <2> SUFFICES ASSUME RegistryInv, [Next]_vars PROVE RegistryInv'
    OBVIOUS
  <2>1. CASE UNCHANGED vars
    BY <2>1 DEF vars, lock, locals, RegistryInv, LockInv, TypeOK, HeldByItsHolders,
                DrainedWriter, BuildInv, BuildOf
  <2>2. CASE Next
    <3>1. PICK c \in Caller : Call(c) \/ AnnounceWrite(c) \/ AcquireRead(c) \/ InCall(c)
      BY <2>2 DEF Next
    <3>2. CASE Call(c)
      BY <3>2, CallPreserves
    <3>3. CASE AnnounceWrite(c)
      BY <3>3, AnnounceWritePreserves
    <3>4. CASE AcquireRead(c)
      BY <3>4, AcquireReadPreserves
    <3>5. CASE MakeOptions(c) \/ Compile(c) \/ PutAccepts(c)
      BY <3>5, MakeOptionsPreserves, CompilePreserves, PutAcceptsPreserves
    <3>6. CASE CompileFails(c) \/ PutRejectsNil(c)
      BY <3>6, FailingPreserves
    <3>7. CASE AcquireWrite(c) \/ StoreValidator(c) \/ DeleteValidator(c) \/ ReleaseWrite(c)
      BY <3>7, AcquireWritePreserves, WritePreserves, ReleaseWritePreserves
    <3>8. CASE ReadOnce(c) \/ CollectName(c) \/ CollectedAll(c) \/ ReleaseRead(c)
      BY <3>8, ReadPreserves, CollectNamePreserves, ReleaseReadPreserves
    <3>9. CASE Return(c)
      BY <3>9, ReturnPreserves
    <3> QED  BY <3>1, <3>2, <3>3, <3>4, <3>5, <3>6, <3>7, <3>8, <3>9 DEF InCall
  <2> QED  BY <2>1, <2>2
<1> QED  BY <1>1, <1>2, PTL DEF Spec

\* Every variable keeps its type, and the lock is held exactly by the
\* goroutines between acquiring and releasing it.
THEOREM RegistryTypeCorrect ==
  Spec => []TypeOK
<1>1. RegistryInv => TypeOK
  BY DEF RegistryInv, LockInv
<1> QED  BY <1>1, RegistryInvariant, PTL

\* No goroutine reads, iterates or writes the map while another writes it.
THEOREM MapAccessIsExclusive ==
  Spec => []NoConcurrentMapAccess
<1>1. RegistryInv => NoConcurrentMapAccess
  BY DEF RegistryInv, LockInv, TypeOK, HeldByItsHolders, DrainedWriter, NoConcurrentMapAccess
<1> QED  BY <1>1, RegistryInvariant, PTL

\* Register stores a validator that reports under the key it is filed under,
\* for any options and any number of calls sharing an option slice.
THEOREM RegisteredUnderOwnName ==
  Spec => []BuiltUnderOwnName
<1>1. RegistryInv => BuiltUnderOwnName
  BY DEF RegistryInv, BuildInv, BuildOf, BuiltUnderOwnName
<1> QED  BY <1>1, RegistryInvariant, PTL

\* Nothing but a validator is ever stored, so Get never answers (nil, true).
THEOREM NoNilStored ==
  Spec => []StoresOnlyValidators
<1>1. RegistryInv => StoresOnlyValidators
  BY DEF RegistryInv, BuildInv, BuildOf, StoresOnlyValidators
<1> QED  BY <1>1, RegistryInvariant, PTL

----------------------------------------------------------------------------
(* Every method takes effect at one instant.                               *)

\* What goroutine c owes its caller, and what its call has gathered so far: a
\* List under the read lock has only names that are filed, each once.
CallOf(c) ==
  /\ pc[c] = "idle" => req[c] = NoRequest
  /\ answer[c] = Pending <=> pc[c] \notin {"unlock", "runlock", "return"}
  /\ pc[c] \in {"lock", "drain", "write"} =>
       /\ req[c].op = "Register" =>
            req[c].arg # Broken /\ built[c] = [schema |-> req[c].arg, label |-> req[c].name]
       /\ req[c].op = "Put" => built[c] = req[c].arg
  /\ pc[c] \notin {"read", "runlock", "return"} => names[c] = << >>
  /\ pc[c] = "read" =>
       /\ Collected(c) \subseteq Filed
       /\ \A j, k \in DOMAIN names[c] : names[c][j] = names[c][k] => j = k

CallInv ==
  /\ answer = [c \in Caller |-> answer[c]]
  /\ \A c \in Caller : CallOf(c)

LEMMA InitCalls == Init => CallInv
<1> SUFFICES ASSUME Init PROVE CallInv
  OBVIOUS
<1>1. answer = [c \in Caller |-> Pending]
  BY DEF Init
<1>2. \A c \in Caller : pc[c] = "idle" /\ req[c] = NoRequest /\ answer[c] = Pending /\ names[c] = << >>
  BY DEF Init
<1>3. answer = [c \in Caller |-> answer[c]]
  BY <1>1
<1> QED
  BY <1>2, <1>3 DEF CallInv, CallOf

\* A step of one goroutine is judged by its own call, as long as nobody reads
\* a map it changes.
LEMMA OtherCalls ==
  ASSUME CallInv, NEW c \in Caller, CallOf(c)', answer' = [d \in Caller |-> answer'[d]],
         \A d \in Caller \ {c} : /\ pc'[d] = pc[d] /\ req'[d] = req[d] /\ answer'[d] = answer[d]
                                 /\ built'[d] = built[d] /\ names'[d] = names[d]
                                 /\ validators' = validators \/ pc[d] # "read"
  PROVE  CallInv'
<1>1. ASSUME NEW d \in Caller \ {c}
      PROVE  CallOf(d)'
  <2>1. CallOf(d)
    BY DEF CallInv
  <2>2. validators' = validators => Filed' = Filed
    BY DEF Filed
  <2>3. Collected(d)' = Collected(d)
    BY DEF Collected
  <2> QED
    BY <2>1, <2>2, <2>3 DEF CallOf
<1>2. \A d \in Caller : CallOf(d)'
  BY <1>1
<1> QED
  BY <1>2 DEF CallInv

\* Steps before and beside the critical sections.
LEMMA PlainCalls ==
  ASSUME RegistryInv, CallInv, NEW c \in Caller,
         Call(c) \/ AnnounceWrite(c) \/ AcquireRead(c) \/ MakeOptions(c) \/ Compile(c)
           \/ PutAccepts(c) \/ AcquireWrite(c) \/ ReleaseWrite(c) \/ ReleaseRead(c)
  PROVE  CallInv' /\ UNCHANGED <<validators, answer>>
<1>1. /\ DataOK /\ pc \in [Caller -> Stages] /\ BuildOf(c) /\ CallOf(c)
      /\ req[c] \in Request \cup {NoRequest}
  BY Before DEF CallInv
<1>2. UNCHANGED <<validators, answer, names>>
  BY DEF Call, AnnounceWrite, AcquireRead, MakeOptions, Compile, PutAccepts, AcquireWrite,
         ReleaseWrite, ReleaseRead, locals
<1>3. Filed' = Filed /\ Collected(c)' = Collected(c) /\ answer' = [d \in Caller |-> answer'[d]]
  BY <1>2 DEF Filed, Collected, CallInv
<1>4. CASE Call(c)
  <2>1. PICK r \in Request : /\ req' = [req EXCEPT ![c] = r]
                             /\ pc' = [pc EXCEPT ![c] = FirstStage(r.op)]
    BY <1>4 DEF Call, Goto
  <2>2. FirstStage(r.op) \in {"options", "check", "lock", "rlock"}
        /\ (FirstStage(r.op) = "lock" <=> r.op = "Unregister")
    BY FirstStageFacts
  <2>3. pc[c] = "idle" /\ built' = built
    BY <1>4 DEF Call, locals
  <2>4. /\ req'[c] = r /\ pc'[c] = FirstStage(r.op)
        /\ \A d \in Caller \ {c} : pc'[d] = pc[d] /\ req'[d] = req[d]
    BY <1>1, <2>1 DEF DataOK
  <2>5. CallOf(c)'
    BY <1>1, <1>2, <2>2, <2>3, <2>4 DEF CallOf
  <2> QED
    BY <1>2, <1>3, <2>3, <2>4, <2>5, OtherCalls
<1>5. CASE MakeOptions(c) \/ AnnounceWrite(c) \/ AcquireWrite(c) \/ ReleaseWrite(c) \/ ReleaseRead(c)
  <2>1. PICK stage : /\ pc' = [pc EXCEPT ![c] = stage]
                     /\ \/ pc[c] = "options" /\ stage = "compile"
                        \/ pc[c] = "lock" /\ stage = "drain"
                        \/ pc[c] = "drain" /\ stage = "write"
                        \/ pc[c] \in {"unlock", "runlock"} /\ stage = "return"
    BY <1>5 DEF MakeOptions, AnnounceWrite, AcquireWrite, ReleaseWrite, ReleaseRead, Goto
  <2>2. UNCHANGED <<req, built>>
    BY <1>5 DEF MakeOptions, AnnounceWrite, AcquireWrite, ReleaseWrite, ReleaseRead, locals
  <2>3. pc'[c] = stage /\ \A d \in Caller \ {c} : pc'[d] = pc[d]
    BY <1>1, <2>1
  <2>4. CallOf(c)'
    BY <1>1, <1>2, <2>1, <2>2, <2>3 DEF CallOf
  <2> QED
    BY <1>2, <1>3, <2>2, <2>3, <2>4, OtherCalls
<1>6. CASE AcquireRead(c)
  <2>1. pc[c] = "rlock" /\ pc' = [pc EXCEPT ![c] = "read"] /\ UNCHANGED <<req, built>>
    BY <1>6 DEF AcquireRead, Goto, locals
  <2>2. pc'[c] = "read" /\ \A d \in Caller \ {c} : pc'[d] = pc[d]
    BY <1>1, <2>1
  <2>3. names[c] = << >> /\ DOMAIN names[c] = {} /\ Collected(c) = {}
    BY <1>1, <2>1 DEF CallOf, Collected
  <2>4. CallOf(c)'
    BY <1>1, <1>2, <1>3, <2>1, <2>2, <2>3 DEF CallOf
  <2> QED
    BY <1>2, <1>3, <2>1, <2>2, <2>4, OtherCalls
<1>7. CASE Compile(c)
  <2>1. /\ pc[c] = "compile" /\ req[c].arg # Broken /\ pc' = [pc EXCEPT ![c] = "lock"] /\ req' = req
        /\ built' = [built EXCEPT ![c] = [schema |-> req[c].arg, label |-> LabelFrom(arrays[all[c]])]]
    BY <1>7 DEF Compile, Goto
  <2>2. req[c].op = "Register" /\ arrays[all[c]] = GivenOpts \o <<req[c].name>>
    BY <1>1, <2>1 DEF BuildOf
  <2>3. LabelFrom(arrays[all[c]]) = req[c].name
    BY <1>1, <2>2, RequestFacts, LastNameWins DEF NoRequest
  <2>4. /\ pc'[c] = "lock" /\ built'[c] = [schema |-> req[c].arg, label |-> req[c].name]
        /\ \A d \in Caller \ {c} : pc'[d] = pc[d] /\ built'[d] = built[d]
    BY <1>1, <2>1, <2>3 DEF DataOK
  <2>5. CallOf(c)'
    BY <1>1, <1>2, <2>1, <2>2, <2>4 DEF CallOf
  <2> QED
    BY <1>2, <1>3, <2>1, <2>4, <2>5, OtherCalls
<1>8. CASE PutAccepts(c)
  <2>1. /\ pc[c] = "check" /\ pc' = [pc EXCEPT ![c] = "lock"] /\ req' = req
        /\ built' = [built EXCEPT ![c] = req[c].arg]
    BY <1>8 DEF PutAccepts, Goto
  <2>2. req[c].op = "Put"
    BY <1>1, <2>1 DEF BuildOf
  <2>3. /\ pc'[c] = "lock" /\ built'[c] = req[c].arg
        /\ \A d \in Caller \ {c} : pc'[d] = pc[d] /\ built'[d] = built[d]
    BY <1>1, <2>1 DEF DataOK
  <2>4. CallOf(c)'
    BY <1>1, <1>2, <2>1, <2>2, <2>3 DEF CallOf
  <2> QED
    BY <1>2, <1>3, <2>1, <2>3, <2>4, OtherCalls
<1> QED
  BY <1>2, <1>4, <1>5, <1>6, <1>7, <1>8

\* A step that answers goroutine c's call.
LEMMA AnsweringCalls ==
  ASSUME RegistryInv, CallInv, NEW c \in Caller,
         CompileFails(c) \/ PutRejectsNil(c) \/ StoreValidator(c) \/ DeleteValidator(c)
           \/ ReadOnce(c) \/ CollectedAll(c)
  PROVE  CallInv' /\ answer[c] = Pending /\ req' = req
<1>1. /\ DataOK /\ pc \in [Caller -> Stages] /\ HeldByItsHolders /\ DrainedWriter /\ CallOf(c)
  BY Before DEF CallInv
<1>2. PICK a, stage : /\ answer' = [answer EXCEPT ![c] = a] /\ a # Pending
                      /\ pc' = [pc EXCEPT ![c] = stage]
                      /\ \/ pc[c] \in {"compile", "check"} /\ stage = "return"
                         \/ pc[c] = "write" /\ stage = "unlock"
                         \/ pc[c] = "read" /\ stage = "runlock"
  <2>1. CASE CompileFails(c) \/ PutRejectsNil(c)
    <3>1. <<"error", 0>> # Pending
      BY DEF Pending
    <3> QED
      BY <2>1, <3>1 DEF CompileFails, PutRejectsNil, Answer, Goto
  <2>2. CASE StoreValidator(c)
    <3>1. <<"ok", 0>> # Pending
      BY DEF Pending
    <3> QED
      BY <2>2, <3>1 DEF StoreValidator, Answer, Goto
  <2>3. CASE DeleteValidator(c)
    <3>1. \A x : <<"has", x>> # Pending
      BY DEF Pending
    <3>2. \E x : answer' = [answer EXCEPT ![c] = <<"has", x>>]
      BY <2>3, Zenon DEF DeleteValidator, Answer
    <3> QED
      BY <2>3, <3>1, <3>2 DEF DeleteValidator, Goto
  <2>4. CASE ReadOnce(c)
    <3>1. \A x : <<"found", x>> # Pending /\ <<"has", x>> # Pending /\ <<"len", x>> # Pending
      BY DEF Pending
    <3>2. \E x : \/ answer' = [answer EXCEPT ![c] = <<"found", x>>]
                 \/ answer' = [answer EXCEPT ![c] = <<"has", x>>]
                 \/ answer' = [answer EXCEPT ![c] = <<"len", x>>]
      BY <2>4, Zenon DEF ReadOnce, Answer
    <3>3. pc[c] = "read" /\ pc' = [pc EXCEPT ![c] = "runlock"]
      BY <2>4, Zenon DEF ReadOnce, Goto
    <3> QED
      BY <3>1, <3>2, <3>3
  <2>5. CASE CollectedAll(c)
    <3>1. \A x : <<"names", x>> # Pending
      BY DEF Pending
    <3> QED
      BY <2>5, <3>1 DEF CollectedAll, Answer, Goto
  <2> QED
    BY <2>1, <2>2, <2>3, <2>4, <2>5
<1>3. UNCHANGED <<req, built, names>>
  BY Zenon DEF CompileFails, PutRejectsNil, StoreValidator, DeleteValidator, ReadOnce, CollectedAll, locals
<1>4. validators' = validators \/ pc[c] = "write"
  BY Zenon DEF CompileFails, PutRejectsNil, StoreValidator, DeleteValidator, ReadOnce, CollectedAll
<1>5. /\ pc'[c] = stage /\ answer'[c] = a /\ answer' = [d \in Caller |-> answer'[d]]
      /\ \A d \in Caller \ {c} : pc'[d] = pc[d] /\ answer'[d] = answer[d]
  BY <1>1, <1>2 DEF CallInv
<1>6. \A d \in Caller \ {c} : validators' = validators \/ pc[d] # "read"
  BY <1>1, <1>4 DEF HeldByItsHolders, DrainedWriter
<1>7. CallOf(c)'
  BY <1>1, <1>2, <1>3, <1>5 DEF CallOf
<1>8. answer[c] = Pending
  BY <1>1, <1>2 DEF CallOf
<1> QED
  BY <1>3, <1>5, <1>6, <1>7, <1>8, OtherCalls

LEMMA CollectingCalls ==
  ASSUME RegistryInv, CallInv, NEW c \in Caller, CollectName(c)
  PROVE  CallInv' /\ UNCHANGED <<validators, req, answer>>
<1>1. DataOK /\ pc \in [Caller -> Stages] /\ CallOf(c)
  BY Before DEF CallInv
<1>2. PICK n \in Filed \ Collected(c) : names' = [names EXCEPT ![c] = Append(names[c], n)]
  BY DEF CollectName
<1>3. pc[c] = "read" /\ UNCHANGED <<validators, pc, req, built, answer>>
  BY DEF CollectName
<1>4. n \in Name /\ names[c] \in Seq(Name)
  BY <1>1 DEF DataOK, Filed
<1>5. PICK s \in Seq(Name) : s = names[c]
  BY <1>4
<1>6. /\ names'[c] = Append(s, n) /\ Len(Append(s, n)) = Len(s) + 1 /\ Len(s) \in Nat
      /\ DOMAIN names'[c] = 1 .. Len(s) + 1 /\ DOMAIN s = 1 .. Len(s)
      /\ \A k \in 1 .. Len(s) : names'[c][k] = s[k]
      /\ names'[c][Len(s) + 1] = n
  <2>1. names'[c] = Append(s, n)
    BY <1>1, <1>2, <1>5 DEF DataOK
  <2>2. /\ Append(s, n) \in Seq(Name) /\ Len(Append(s, n)) = Len(s) + 1
        /\ \A k \in 1 .. Len(s) : Append(s, n)[k] = s[k]
        /\ Append(s, n)[Len(s) + 1] = n
    BY <1>4, AppendProperties
  <2> QED
    BY <2>1, <2>2, LenProperties
<1>7. Filed' = Filed
  BY <1>3 DEF Filed
<1>8. /\ \A k \in DOMAIN s : s[k] \in Filed /\ s[k] # n
      /\ \A j, k \in DOMAIN s : s[j] = s[k] => j = k
  <2>1. \A k \in DOMAIN s : s[k] \in Collected(c)
    BY <1>5 DEF Collected
  <2>2. Collected(c) \subseteq Filed /\ \A j, k \in DOMAIN s : s[j] = s[k] => j = k
    BY <1>1, <1>3, <1>5 DEF CallOf
  <2> QED
    BY <2>1, <2>2
<1>9. Collected(c)' \subseteq Filed'
  <2>1. ASSUME NEW k \in DOMAIN names'[c]
        PROVE  names'[c][k] \in Filed
    <3>1. k \in 1 .. Len(s) \/ k = Len(s) + 1
      BY <1>6
    <3> QED
      BY <1>6, <1>8, <3>1
  <2> QED
    BY <1>7, <2>1 DEF Collected
<1>10. ASSUME NEW j \in DOMAIN names'[c], NEW k \in DOMAIN names'[c], names'[c][j] = names'[c][k]
       PROVE  j = k
  <2>1. /\ j \in 1 .. Len(s) \/ j = Len(s) + 1
        /\ k \in 1 .. Len(s) \/ k = Len(s) + 1
    BY <1>6
  <2> QED
    BY <1>6, <1>8, <1>10, <2>1
<1>11. CallOf(c)'
  BY <1>1, <1>3, <1>9, <1>10 DEF CallOf
<1>12. \A d \in Caller \ {c} : names'[d] = names[d]
  BY <1>1, <1>2 DEF DataOK
<1>13. answer' = [d \in Caller |-> answer'[d]]
  BY <1>3 DEF CallInv
<1> QED
  BY <1>3, <1>11, <1>12, <1>13, OtherCalls

LEMMA ReturningCalls ==
  ASSUME RegistryInv, CallInv, NEW c \in Caller, Return(c)
  PROVE  CallInv' /\ answer[c] # Pending
<1>1. DataOK /\ pc \in [Caller -> Stages] /\ CallOf(c)
  BY Before DEF CallInv
<1>2. /\ pc[c] = "return" /\ pc' = [pc EXCEPT ![c] = "idle"]
      /\ req' = [req EXCEPT ![c] = NoRequest]
      /\ answer' = [answer EXCEPT ![c] = Pending]
      /\ built' = [built EXCEPT ![c] = Absent]
      /\ names' = [names EXCEPT ![c] = << >>]
      /\ validators' = validators
  BY DEF Return, Goto
<1>3. /\ pc'[c] = "idle" /\ req'[c] = NoRequest /\ answer'[c] = Pending /\ names'[c] = << >>
      /\ answer' = [d \in Caller |-> answer'[d]]
      /\ \A d \in Caller \ {c} : /\ pc'[d] = pc[d] /\ req'[d] = req[d] /\ answer'[d] = answer[d]
                                 /\ built'[d] = built[d] /\ names'[d] = names[d]
  BY <1>1, <1>2 DEF CallInv, DataOK
<1>4. CallOf(c)'
  BY <1>3 DEF CallOf
<1>5. answer[c] # Pending
  BY <1>1, <1>2 DEF CallOf
<1> QED
  BY <1>2, <1>3, <1>4, <1>5, OtherCalls

\* What List answers is the list of the filed names in order.
LEMMA ListsInOrder ==
  ASSUME RegistryInv, CallInv, NEW c \in Caller, pc[c] = "read", Filed \subseteq Collected(c)
  PROVE  SortedNames(c) = Atomic!InOrder(Filed)
<1>1. PICK s \in Seq(Name) : s = names[c]
  BY Before DEF DataOK
<1>2. PICK n \in Nat : n = Len(s) /\ DOMAIN s = 1 .. n /\ \A k \in 1 .. n : s[k] \in Name
  BY LenProperties, ElementOfSeq
<1>3. /\ Filed = {s[k] : k \in 1 .. n}
      /\ \A j, k \in 1 .. n : s[j] = s[k] => j = k
  <2>1. CallOf(c)
    BY DEF CallInv
  <2> QED
    BY <1>1, <1>2, <2>1 DEF CallOf, Collected
<1>4. Name \subseteq Int /\ Filed \in SUBSET Int /\ s \in Seq(Int)
  <2>1. Name \subseteq Int
    BY NameAssumption
  <2>2. s \in Seq(Int)
    <3>1. \A k \in 1 .. n : s[k] \in Int
      BY <1>2, <2>1
    <3> QED
      BY <1>1, <1>2, <3>1, SeqDef
  <2> QED
    BY <2>1, <2>2 DEF Filed
<1>5. s \in Bijection(1 .. n, Filed)
  <2>1. s \in [1 .. n -> Filed]
    BY <1>1, <1>2, <1>3
  <2> QED
    BY <1>3, <2>1 DEF Bijection, Injection, IsInjective, Surjection
<1>6. IsFiniteSet(Filed) /\ Cardinality(Filed) = n
  <2>1. IsFiniteSet(1 .. n) /\ Cardinality(1 .. n) = IF 1 > n THEN 0 ELSE n - 1 + 1
    BY FS_Interval
  <2>2. ExistsBijection(1 .. n, Filed)
    BY <1>5 DEF ExistsBijection
  <2>3. Cardinality(1 .. n) = n
    BY <2>1
  <2> QED
    BY <2>1, <2>2, <2>3, FS_Bijection
<1>7. PICK order : order = StableOrder(s)
  OBVIOUS
<1>8. /\ \A k \in 1 .. n : order[k] \in 1 .. n
      /\ \A j, k \in 1 .. n : j < k =>
           s[order[j]] < s[order[k]] \/ (s[order[j]] = s[order[k]] /\ order[j] < order[k])
  <2> DEFINE Sorts(N, o) == /\ \A k \in 1 .. N : o[k] \in 1 .. N
                            /\ \A j, k \in 1 .. N : j < k =>
                                 s[o[j]] < s[o[k]] \/ (s[o[j]] = s[o[k]] /\ o[j] < o[k])
  <2>1. Sorts(Len(s), StableOrder(s))
    BY <1>4, StableOrderSorts
  <2>2. Len(s) = n
    BY <1>2
  <2>3. Sorts(n, order)
    <3> HIDE DEF Sorts
    <3> QED
      BY <1>7, <2>1, <2>2
  <2> QED
    BY <2>3
<1>9. PICK f : f = [k \in 1 .. n |-> s[order[k]]]
  OBVIOUS
<1>10. SortedNames(c) = f
  BY <1>1, <1>2, <1>7, <1>9 DEF SortedNames
<1>11. f \in [1 .. n -> Filed]
  BY <1>3, <1>8, <1>9
<1>12. ASSUME NEW j \in 1 .. n, NEW k \in 1 .. n, j < k
       PROVE  f[j] < f[k]
  <2>1. PICK a \in 1 .. n, b \in 1 .. n : a = order[j] /\ b = order[k]
    BY <1>8
  <2>2. s[a] < s[b] \/ (s[a] = s[b] /\ a < b)
    BY <1>8, <1>12, <2>1
  <2>3. s[a] = s[b] => a = b
    BY <1>3
  <2>4. s[a] < s[b]
    BY <2>2, <2>3
  <2> QED
    BY <1>9, <2>1, <2>4
<1>13. Enumerates(f, n, Filed)
  BY <1>11, <1>12 DEF Enumerates
<1>14. PICK P : P = {g \in [1 .. n -> Filed] : \A j, k \in DOMAIN g : j < k => g[j] < g[k]}
  OBVIOUS
<1>15. \A g : g \in P <=> Enumerates(g, n, Filed)
  BY <1>14 DEF Enumerates
<1>16. Atomic!InOrder(Filed) = CHOOSE g \in [1 .. n -> Filed] : \A j, k \in DOMAIN g : j < k => g[j] < g[k]
  <2>1. Atomic!InOrder(Filed)
          = CHOOSE g \in [1 .. Cardinality(Filed) -> Filed] : \A j, k \in DOMAIN g : j < k => g[j] < g[k]
    BY Zenon DEF Atomic!InOrder, Atomic!Cardinality, Cardinality
  <2> QED
    BY <1>6, <2>1, Zenon
<1>17. Atomic!InOrder(Filed) \in P
  <2>1. \E g \in [1 .. n -> Filed] : \A j, k \in DOMAIN g : j < k => g[j] < g[k]
    BY <1>13, <1>14, <1>15
  <2> QED
    BY <1>14, <1>16, <2>1
<1>18. Enumerates(Atomic!InOrder(Filed), n, Filed)
  BY <1>15, <1>17
<1> QED
  BY <1>4, <1>6, <1>10, <1>13, <1>18, OneEnumeration

\* The instant a method takes effect: the store, the read, the end of List's
\* iteration, or the failure before the lock.
LEMMA AnswersApply ==
  ASSUME RegistryInv, CallInv, NEW c \in Caller,
         CompileFails(c) \/ PutRejectsNil(c) \/ StoreValidator(c) \/ DeleteValidator(c)
           \/ ReadOnce(c) \/ CollectedAll(c)
  PROVE  Atomic!Apply(c)
<1>1. /\ DataOK /\ BuildOf(c) /\ CallOf(c) /\ req[c] \in Request \cup {NoRequest}
  BY Before DEF CallInv
<1>2. answer[c] = Pending /\ req' = req /\ Atomic!Pending = Pending
  BY AnsweringCalls DEF Pending, Atomic!Pending
<1>3. \A a : Answer(c, a) => Atomic!Answer(c, a)
  BY <1>2 DEF Answer, Atomic!Answer
<1>4. Atomic!Names(validators) = Filed
  BY DEF Atomic!Names, Filed
<1>5. CASE CompileFails(c)
  <2>1. req[c].op = "Register" /\ Atomic!Answer(c, <<"error", 0>>) /\ validators' = validators
    BY <1>1, <1>3, <1>5 DEF CompileFails, BuildOf
  <2> QED
    BY <1>2, <2>1 DEF Atomic!Apply
<1>6. CASE PutRejectsNil(c)
  <2>1. /\ req[c].op = "Put" /\ req[c].arg = Absent
        /\ Atomic!Answer(c, <<"error", 0>>) /\ validators' = validators
    BY <1>1, <1>3, <1>6 DEF PutRejectsNil, Storable, BuildOf
  <2> QED
    BY <1>2, <2>1 DEF Atomic!Apply
<1>7. CASE StoreValidator(c)
  <2>1. /\ pc[c] = "write" /\ req[c].op \in {"Register", "Put"}
        /\ validators' = [validators EXCEPT ![req[c].name] = built[c]]
        /\ Atomic!Answer(c, <<"ok", 0>>)
    BY <1>3, <1>7 DEF StoreValidator
  <2>2. Atomic!Store(req[c].name, built[c])
    BY <2>1 DEF Atomic!Store
  <2>3. CASE req[c].op = "Register"
    <3>1. req[c].arg # Broken /\ built[c] = [schema |-> req[c].arg, label |-> req[c].name]
      BY <1>1, <2>1, <2>3 DEF CallOf
    <3>2. /\ req[c].op = "Register" /\ req[c].arg # Broken
          /\ Atomic!Store(req[c].name, [schema |-> req[c].arg, label |-> req[c].name])
          /\ Atomic!Answer(c, <<"ok", 0>>)
      BY <2>1, <2>2, <2>3, <3>1, Zenon
    <3> QED
      BY <1>2, <3>2, Zenon DEF Atomic!Apply
  <2>4. CASE req[c].op = "Put"
    <3>1. built[c] = req[c].arg /\ built[c] # Absent
      BY <1>1, <2>1, <2>4 DEF CallOf, BuildOf
    <3> QED
      BY <1>2, <2>1, <2>2, <2>4, <3>1 DEF Atomic!Apply
  <2> QED
    BY <2>1, <2>3, <2>4
<1>8. CASE DeleteValidator(c)
  <2>1. req[c].op = "Unregister" /\ Answer(c, <<"has", validators[req[c].name] # Absent>>)
    BY <1>8, Zenon DEF DeleteValidator
  <2>2. validators' = [validators EXCEPT ![req[c].name] = Absent]
    BY <1>8, Zenon DEF DeleteValidator
  <2>3. Atomic!Answer(c, <<"has", validators[req[c].name] # Absent>>) /\ Atomic!Store(req[c].name, Absent)
    BY <1>3, <2>1, <2>2, Zenon DEF Atomic!Store
  <2> QED
    BY <1>2, <2>1, <2>3, Zenon DEF Atomic!Apply
<1>9. CASE ReadOnce(c)
  <2>1. validators' = validators
    BY <1>9, Zenon DEF ReadOnce
  <2>2. CASE req[c].op = "Get" /\ Answer(c, <<"found", validators[req[c].name]>>)
    BY <1>2, <1>3, <2>1, <2>2, Zenon DEF Atomic!Apply
  <2>3. CASE req[c].op = "Has" /\ Answer(c, <<"has", validators[req[c].name] # Absent>>)
    BY <1>2, <1>3, <2>1, <2>3, Zenon DEF Atomic!Apply
  <2>4. CASE req[c].op = "Len" /\ Answer(c, <<"len", Cardinality(Filed)>>)
    <3>1. Atomic!Cardinality(Filed) = Cardinality(Filed)
      BY Zenon DEF Atomic!Cardinality, Cardinality
    <3>2. Atomic!Answer(c, <<"len", Atomic!Cardinality(Atomic!Names(validators))>>)
      BY <1>3, <1>4, <2>4, <3>1, Zenon
    <3> QED
      BY <1>2, <2>1, <2>4, <3>2, Zenon DEF Atomic!Apply
  <2> QED
    BY <1>9, <2>2, <2>3, <2>4, Zenon DEF ReadOnce
<1>10. CASE CollectedAll(c)
  <2>1. /\ pc[c] = "read" /\ req[c].op = "List" /\ Filed \subseteq Collected(c)
        /\ Answer(c, <<"names", SortedNames(c)>>) /\ validators' = validators
    BY <1>10 DEF CollectedAll
  <2>2. Atomic!Answer(c, <<"names", Atomic!InOrder(Atomic!Names(validators))>>)
    BY <1>3, <1>4, <2>1, ListsInOrder, Zenon
  <2> QED
    BY <1>2, <2>1, <2>2, Zenon DEF Atomic!Apply
<1> QED
  BY <1>5, <1>6, <1>7, <1>8, <1>9, <1>10

LEMMA CallsKept ==
  ASSUME RegistryInv, CallInv, [Next]_vars
  PROVE  CallInv' /\ [Atomic!Next]_Atomic!atomicVars
<1>1. CASE UNCHANGED vars
  <2>1. UNCHANGED <<validators, pc, req, answer, built, names>>
    BY <1>1 DEF vars, locals
  <2>2. \A c \in Caller : CallOf(c)'
    BY <2>1 DEF CallInv, CallOf, Collected, Filed
  <2> QED
    BY <2>1, <2>2 DEF CallInv, Atomic!atomicVars
<1>2. CASE Next
  <2>1. PICK c \in Caller : Call(c) \/ AnnounceWrite(c) \/ AcquireRead(c) \/ InCall(c)
    BY <1>2 DEF Next
  <2>2. CASE Call(c)
    <3>1. CallInv' /\ UNCHANGED <<validators, answer>>
      BY <2>2, PlainCalls
    <3>2. pc[c] = "idle" /\ \E r \in Request : req' = [req EXCEPT ![c] = r]
      BY <2>2 DEF Call
    <3>3. req[c] = NoRequest /\ Atomic!NoRequest = NoRequest
      BY <3>2 DEF CallInv, CallOf, NoRequest, Atomic!NoRequest
    <3>4. Request \subseteq Atomic!Request
      BY DEF Request, Atomic!Request, Validator, Atomic!Validator
    <3>5. Atomic!Invoke(c)
      BY <3>1, <3>2, <3>3, <3>4 DEF Atomic!Invoke
    <3> QED
      BY <3>1, <3>5 DEF Atomic!Next
  <2>3. CASE AnnounceWrite(c) \/ AcquireRead(c) \/ MakeOptions(c) \/ Compile(c)
             \/ PutAccepts(c) \/ AcquireWrite(c) \/ ReleaseWrite(c) \/ ReleaseRead(c)
    <3>1. CallInv' /\ UNCHANGED <<validators, answer>>
      BY <2>3, PlainCalls
    <3>2. req' = req
      BY <2>3 DEF AnnounceWrite, AcquireRead, MakeOptions, Compile, PutAccepts, AcquireWrite,
                  ReleaseWrite, ReleaseRead
    <3> QED
      BY <3>1, <3>2 DEF Atomic!atomicVars
  <2>4. CASE CompileFails(c) \/ PutRejectsNil(c) \/ StoreValidator(c) \/ DeleteValidator(c)
             \/ ReadOnce(c) \/ CollectedAll(c)
    BY <2>4, AnsweringCalls, AnswersApply DEF Atomic!Next
  <2>5. CASE CollectName(c)
    BY <2>5, CollectingCalls DEF Atomic!atomicVars
  <2>6. CASE Return(c)
    <3>1. CallInv' /\ answer[c] # Pending
      BY <2>6, ReturningCalls
    <3>2. /\ req' = [req EXCEPT ![c] = NoRequest] /\ answer' = [answer EXCEPT ![c] = Pending]
          /\ validators' = validators
      BY <2>6 DEF Return
    <3>3. Atomic!Return(c)
      BY <3>1, <3>2 DEF Atomic!Return, Pending, Atomic!Pending, NoRequest, Atomic!NoRequest
    <3> QED
      BY <3>1, <3>3 DEF Atomic!Next
  <2> QED
    BY <2>1, <2>2, <2>3, <2>4, <2>5, <2>6 DEF InCall
<1> QED
  BY <1>1, <1>2

\* The registry is linearizable: to its callers every method takes effect at
\* one instant between call and return, for any number of goroutines, names
\* and option slices.
THEOREM RegistryIsAtomic ==
  Spec => IsAtomic
<1>1. Init => Atomic!Init
  BY DEF Init, Atomic!Init, NoRequest, Atomic!NoRequest, Pending, Atomic!Pending
<1>2. Spec => [](RegistryInv /\ CallInv)
  <2>1. RegistryInv /\ CallInv /\ [Next]_vars => CallInv'
    BY CallsKept
  <2> QED
    BY <2>1, RegistryInvariant, InitCalls, PTL DEF Spec
<1>3. RegistryInv /\ CallInv /\ [Next]_vars => [Atomic!Next]_Atomic!atomicVars
  BY CallsKept
<1> QED
  BY <1>1, <1>2, <1>3, PTL DEF Spec, IsAtomic, Atomic!Spec
=============================================================================
