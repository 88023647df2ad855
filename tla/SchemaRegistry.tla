--------------------------- MODULE SchemaRegistry ---------------------------
(***************************************************************************)
(* One Registry of registry.go under concurrent callers: the map guarded   *)
(* by a sync.RWMutex, Register's compilation outside the lock, and the     *)
(* option slices Register builds from its caller's.                        *)
(*                                                                         *)
(* Callers are goroutines that make one call after another.  All Register  *)
(* calls are given the same option slice, whose array has room behind it:  *)
(* what a caller writing reg.Register(n, src, myOpts...) in a loop passes. *)
(* Definitions marked "Slip" are mistakes a property has to notice.        *)
(***************************************************************************)
EXTENDS Naturals, Sequences, FiniteSets, TLC, Listing

CONSTANTS
  Name,      \* registry keys, ordered as numbers
  Schema,    \* sources that compile
  Broken,    \* a source that does not
  Caller,    \* goroutines
  Op,        \* the methods they call
  Absent,    \* no entry; a nil *Validator
  NoOne,     \* the writer while the lock is not write-locked
  Shared,    \* the array behind the callers' option slice
  GivenOpts  \* what that slice holds: the names of its WithName options

ASSUME NameAssumption == Name \subseteq Nat \ {0}
ASSUME OpAssumption ==
  Op \subseteq {"Register", "Put", "Get", "Has", "Unregister", "List", "Len"}
ASSUME CallerAssumption == NoOne \notin Caller /\ Shared \notin Caller
ASSUME OptsAssumption == GivenOpts \in Seq(Name)
ASSUME AbsentAssumption == Absent \notin [schema: Schema, label: Name]

Validator == [schema: Schema, label: Name]

Request ==
  {r \in [op: {"Register"}, name: Name, arg: Schema \cup {Broken}]
           \cup [op: {"Put"}, name: Name, arg: Validator \cup {Absent}]
           \cup [op: {"Get", "Has", "Unregister"}, name: Name, arg: {Absent}]
           \cup [op: {"List", "Len"}, name: {0}, arg: {Absent}] :
     r.op \in Op}

NoRequest == [op |-> "none", name |-> 0, arg |-> Absent]

Pending == <<"pending", 0>>

VARIABLES
  validators,       \* the map; Absent for a key it does not hold
  writer, readers,  \* holders of the RWMutex; a writer from its announcement on
  pc, req,          \* per goroutine: where it is, and the call it makes
  arrays, all,      \* option arrays by owner, and the one Register's slice is in
  built,            \* the *Validator a write is going to store
  names,            \* what List collected
  answer            \* the return value, or Pending

lock == <<writer, readers>>
locals == <<arrays, all, built, names>>
vars == <<validators, lock, pc, req, locals, answer>>

Init ==
  /\ validators = [n \in Name |-> Absent]
  /\ writer = NoOne /\ readers = {}
  /\ pc = [c \in Caller |-> "idle"]
  /\ req = [c \in Caller |-> NoRequest]
  /\ arrays = [a \in Caller \cup {Shared} |-> IF a = Shared THEN GivenOpts ELSE << >>]
  /\ all = [c \in Caller |-> Shared]
  /\ built = [c \in Caller |-> Absent]
  /\ names = [c \in Caller |-> << >>]
  /\ answer = [c \in Caller |-> Pending]

Goto(c, stage) == pc' = [pc EXCEPT ![c] = stage]

Answer(c, a) == answer' = [answer EXCEPT ![c] = a]

\* List ranging over the map without the read lock.
SlipFirstStage(op) ==
  IF op = "Register" THEN "options"
  ELSE IF op = "Put" THEN "check"
  ELSE IF op = "Unregister" THEN "lock" ELSE IF op = "List" THEN "read" ELSE "rlock"

\* What a method does first; the locked ones begin with their lock.
FirstStage(op) ==
  IF op = "Register" THEN "options"
  ELSE IF op = "Put" THEN "check"
  ELSE IF op = "Unregister" THEN "lock" ELSE "rlock"

Call(c) ==
  /\ pc[c] = "idle"
  /\ \E r \in Request :
       /\ req' = [req EXCEPT ![c] = r]
       /\ Goto(c, FirstStage(r.op))
  /\ UNCHANGED <<validators, lock, locals, answer>>

----------------------------------------------------------------------------
(* Before the lock.                                                        *)

\* append(opts, WithName(name)) in the room behind the caller's slice.
SlipWithRegistryName(c) ==
  /\ arrays' = [arrays EXCEPT ![Shared] = GivenOpts \o <<req[c].name>>]
  /\ all' = [all EXCEPT ![c] = Shared]

\* A slice of its own, WithName last.
withRegistryName(c) ==
  /\ arrays' = [arrays EXCEPT ![c] = GivenOpts \o <<req[c].name>>]
  /\ all' = [all EXCEPT ![c] = c]

MakeOptions(c) ==
  /\ pc[c] = "options"
  /\ withRegistryName(c)
  /\ Goto(c, "compile")
  /\ UNCHANGED <<validators, lock, req, built, names, answer>>

\* buildValidator applies the options in order: the last WithName wins.
LabelFrom(opts) == opts[Len(opts)]

\* NewWithContext, the options applied.
Compile(c) ==
  /\ pc[c] = "compile" /\ req[c].arg # Broken
  /\ built' = [built EXCEPT ![c] = [schema |-> req[c].arg, label |-> LabelFrom(arrays[all[c]])]]
  /\ Goto(c, "lock")
  /\ UNCHANGED <<validators, lock, req, arrays, all, names, answer>>

\* A source that does not compile, or options buildValidator rejects.
CompileFails(c) ==
  /\ pc[c] = "compile"
  /\ Answer(c, <<"error", 0>>)
  /\ Goto(c, "return")
  /\ UNCHANGED <<validators, lock, req, locals>>

SlipStorable(v) == TRUE

Storable(v) == v # Absent

PutRejectsNil(c) ==
  /\ pc[c] = "check" /\ ~Storable(req[c].arg)
  /\ Answer(c, <<"error", 0>>)
  /\ Goto(c, "return")
  /\ UNCHANGED <<validators, lock, req, locals>>

PutAccepts(c) ==
  /\ pc[c] = "check" /\ Storable(req[c].arg)
  /\ built' = [built EXCEPT ![c] = req[c].arg]
  /\ Goto(c, "lock")
  /\ UNCHANGED <<validators, lock, req, arrays, all, names, answer>>

----------------------------------------------------------------------------
(* The critical sections.                                                  *)

\* RWMutex.Lock first takes the mutex among writers, which also turns later
\* readers away, and then waits for the readers that are inside.
AnnounceWrite(c) ==
  /\ pc[c] = "lock"
  /\ writer = NoOne
  /\ writer' = c
  /\ Goto(c, "drain")
  /\ UNCHANGED <<validators, readers, req, locals, answer>>

Drained == readers = {}

AcquireWrite(c) ==
  /\ pc[c] = "drain"
  /\ Drained
  /\ Goto(c, "write")
  /\ UNCHANGED <<validators, lock, req, locals, answer>>

Readable == writer = NoOne

AcquireRead(c) ==
  /\ pc[c] = "rlock"
  /\ Readable
  /\ readers' = readers \cup {c}
  /\ Goto(c, "read")
  /\ UNCHANGED <<validators, writer, req, locals, answer>>

StoreValidator(c) ==
  /\ pc[c] = "write" /\ req[c].op \in {"Register", "Put"}
  /\ validators' = [validators EXCEPT ![req[c].name] = built[c]]
  /\ Answer(c, <<"ok", 0>>)
  /\ Goto(c, "unlock")
  /\ UNCHANGED <<lock, req, locals>>

DeleteValidator(c) ==
  /\ pc[c] = "write" /\ req[c].op = "Unregister"
  /\ Answer(c, <<"has", validators[req[c].name] # Absent>>)
  /\ validators' = [validators EXCEPT ![req[c].name] = Absent]
  /\ Goto(c, "unlock")
  /\ UNCHANGED <<lock, req, locals>>

Filed == {n \in Name : validators[n] # Absent}

\* Get, Has and Len read once.
ReadOnce(c) ==
  /\ pc[c] = "read"
  /\ \/ req[c].op = "Get" /\ Answer(c, <<"found", validators[req[c].name]>>)
     \/ req[c].op = "Has" /\ Answer(c, <<"has", validators[req[c].name] # Absent>>)
     \/ req[c].op = "Len" /\ Answer(c, <<"len", Cardinality(Filed)>>)
  /\ Goto(c, "runlock")
  /\ UNCHANGED <<validators, lock, req, locals>>

Collected(c) == {names[c][k] : k \in DOMAIN names[c]}

\* List ranges over the map, in any order.
CollectName(c) ==
  /\ pc[c] = "read" /\ req[c].op = "List"
  /\ \E n \in Filed \ Collected(c) : names' = [names EXCEPT ![c] = Append(@, n)]
  /\ UNCHANGED <<validators, lock, pc, req, arrays, all, built, answer>>

\* slices.Sort follows the unlock; only the caller's own slice is touched.
SortedNames(c) ==
  LET order == StableOrder(names[c])
  IN  [k \in DOMAIN names[c] |-> names[c][order[k]]]

CollectedAll(c) ==
  /\ pc[c] = "read" /\ req[c].op = "List"
  /\ Filed \subseteq Collected(c)
  /\ Answer(c, <<"names", SortedNames(c)>>)
  /\ Goto(c, "runlock")
  /\ UNCHANGED <<validators, lock, req, locals>>

ReleaseWrite(c) ==
  /\ pc[c] = "unlock"
  /\ writer' = NoOne
  /\ Goto(c, "return")
  /\ UNCHANGED <<validators, readers, req, locals, answer>>

\* A return without RUnlock.
SlipReleaseRead(c) ==
  /\ pc[c] = "runlock"
  /\ Goto(c, "return")
  /\ UNCHANGED <<validators, lock, req, locals, answer>>

ReleaseRead(c) ==
  /\ pc[c] = "runlock"
  /\ readers' = readers \ {c}
  /\ Goto(c, "return")
  /\ UNCHANGED <<validators, writer, req, locals, answer>>

\* The call's locals die with it.
Return(c) ==
  /\ pc[c] = "return"
  /\ Goto(c, "idle")
  /\ req' = [req EXCEPT ![c] = NoRequest]
  /\ answer' = [answer EXCEPT ![c] = Pending]
  /\ built' = [built EXCEPT ![c] = Absent]
  /\ names' = [names EXCEPT ![c] = << >>]
  /\ arrays' = [arrays EXCEPT ![c] = << >>]
  /\ all' = [all EXCEPT ![c] = Shared]
  /\ UNCHANGED <<validators, lock>>

InCall(c) ==
  \/ MakeOptions(c) \/ Compile(c) \/ CompileFails(c)
  \/ PutRejectsNil(c) \/ PutAccepts(c) \/ AcquireWrite(c)
  \/ StoreValidator(c) \/ DeleteValidator(c)
  \/ ReadOnce(c) \/ CollectName(c) \/ CollectedAll(c)
  \/ ReleaseWrite(c) \/ ReleaseRead(c) \/ Return(c)

Next == \E c \in Caller : Call(c) \/ AnnounceWrite(c) \/ AcquireRead(c) \/ InCall(c)

Spec == Init /\ [][Next]_vars

\* A goroutine in a call runs on.  The mutex among writers hands itself to a
\* starving waiter, and a writer's Unlock lets in every reader that waits.
FairSpec ==
  Spec /\ \A c \in Caller :
            /\ WF_vars(InCall(c))
            /\ SF_vars(AnnounceWrite(c)) /\ SF_vars(AcquireRead(c))

----------------------------------------------------------------------------
Stages == {"idle", "options", "compile", "check", "lock", "drain", "rlock", "write",
           "read", "unlock", "runlock", "return"}

\* Who holds the lock is who stands between acquiring and releasing it.
HeldByItsHolders ==
  \A c \in Caller :
    /\ writer = c <=> pc[c] \in {"drain", "write", "unlock"}
    /\ c \in readers <=> pc[c] \in {"read", "runlock"}

TypeOK ==
  /\ validators \in [Name -> Validator \cup {Absent}]
  /\ writer \in Caller \cup {NoOne} /\ readers \subseteq Caller
  /\ pc \in [Caller -> Stages]
  /\ req \in [Caller -> Request \cup {NoRequest}]
  /\ arrays \in [Caller \cup {Shared} -> Seq(Name)]
  /\ all \in [Caller -> Caller \cup {Shared}]
  /\ built \in [Caller -> Validator \cup {Absent}]
  /\ names \in [Caller -> Seq(Name)]
  /\ HeldByItsHolders

\* The runtime aborts a program whose map is iterated or read while another
\* goroutine writes it: whoever is about to write is alone with the map.
NoConcurrentMapAccess ==
  \A c, d \in Caller : c # d /\ pc[c] = "write" => pc[d] \notin {"write", "read"}

\* registry.go:39-41: a validator filed by Register reports under its key,
\* whatever WithName options it was given and whichever other Register calls,
\* given the same option slice, run between its append and its compilation.
BuiltUnderOwnName ==
  \A c \in Caller :
    req[c].op = "Register" /\ pc[c] \in {"lock", "drain", "write"} => built[c].label = req[c].name

\* registry.go:81-83: Get never answers (nil, true), the pair that would panic
\* inside a pipeline.
StoresOnlyValidators ==
  \A c \in Caller : pc[c] = "write" /\ req[c].op # "Unregister" => built[c] # Absent

\* Every method takes effect atomically between call and return: List is one
\* instant's set of names although it is collected entry by entry, a failed
\* Register or Put stores nothing, and Get sees the latest completed store.
Atomic == INSTANCE AtomicRegistry WITH map <- validators

IsAtomic == Atomic!Spec

\* Every call returns, readers and writers contending.
CallsReturn == \A c \in Caller : pc[c] # "idle" ~> pc[c] = "idle"
=============================================================================
