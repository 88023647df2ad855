---------------------------- MODULE EnvOwnership ----------------------------
(***************************************************************************)
(* Registry.RegisterMethodsTo / RegisterFunctionsTo / RegisterAllTo of     *)
(* registry.go, called by several goroutines: claimComponent decides under *)
(* ownerMu who may register what on an environment; the env.Register*      *)
(* calls that follow run outside the lock, one at a time, and may fail.    *)
(*                                                                         *)
(* releaseEnv, which drops a claim, is called by tests only and left out.  *)
(* Definitions marked "Slip" are mistakes a property has to notice.        *)
(***************************************************************************)
EXTENDS Naturals, Sequences, FiniteSets

CONSTANTS
  Registry,
  Env,
  NilEnv,    \* a nil *bloblang.Environment
  Caller,    \* goroutines
  Nobody     \* a plugin slot nothing was registered in; no owner

ASSUME EnvAssumption == NilEnv \notin Env
ASSUME NobodyAssumption == Nobody \notin Registry

Component == {"methods", "functions"}
Plugin == {"validate_schema", "process_schema"}
Slot == Component \X Plugin

\* registerMethodsTo, registerFunctionsTo, and RegisterAllTo's one after the other.
PluginsOf(comp) == << <<comp, "validate_schema">>, <<comp, "process_schema">> >>

SlipInstallOrder(want) ==
  IF "methods" \in want THEN PluginsOf("methods") ELSE PluginsOf("functions")

SlipInstallTwice(want) == PluginsOf("methods") \o PluginsOf("functions") \o PluginsOf("methods")

InstallOrder(want) ==
  IF want = Component THEN PluginsOf("methods") \o PluginsOf("functions")
  ELSE IF want = {"methods"} THEN PluginsOf("methods") ELSE PluginsOf("functions")

Want == {Component, {"methods"}, {"functions"}}

Job == [reg: Registry, env: Env \cup {NilEnv}, want: Want]

NoClaim == [registry |-> Nobody, comps |-> {}]
NoJob == [reg |-> Nobody, env |-> NilEnv, want |-> {}]

VARIABLES
  ownerMap,  \* per environment, the registrationOwner or NoClaim
  plugins,   \* per environment and slot, whose constructor Bloblang will call
  pc,        \* per goroutine
  job,       \* the call a goroutine is making
  step       \* index of its next env.Register* call

vars == <<ownerMap, plugins, pc, job, step>>

Init ==
  /\ ownerMap = [e \in Env |-> NoClaim]
  /\ plugins = [e \in Env |-> [s \in Slot |-> Nobody]]
  /\ pc = [c \in Caller |-> "idle"]
  /\ job = [c \in Caller |-> NoJob]
  /\ step = [c \in Caller |-> 1]

Goto(c, stage) == pc' = [pc EXCEPT ![c] = stage]

Call(c) ==
  /\ pc[c] = "idle"
  /\ \E j \in Job : job' = [job EXCEPT ![c] = j]
  /\ Goto(c, "claim")
  /\ UNCHANGED <<ownerMap, plugins, step>>

----------------------------------------------------------------------------
(* claimComponent: one critical section of ownerMu.                        *)

Claiming(c) == pc[c] = "claim" /\ UNCHANGED <<plugins, job>>

RefuseNilEnv(c) ==
  /\ Claiming(c)
  /\ job[c].env = NilEnv
  /\ Goto(c, "refused")
  /\ UNCHANGED <<ownerMap, step>>

Granted(c, comps) ==
  /\ ownerMap' = [ownerMap EXCEPT ![job[c].env] = [registry |-> job[c].reg, comps |-> comps]]
  /\ step' = [step EXCEPT ![c] = 1]
  /\ Goto(c, "install")

ClaimFirst(c) ==
  /\ Claiming(c)
  /\ job[c].env # NilEnv
  /\ ownerMap[job[c].env] = NoClaim
  /\ Granted(c, job[c].want)

SlipForeign(c) == FALSE

Foreign(c) == ownerMap[job[c].env].registry # job[c].reg

SlipOverlaps(c) == job[c].want \subseteq ownerMap[job[c].env].comps

Overlaps(c) == job[c].want \cap ownerMap[job[c].env].comps # {}

RefuseForeign(c) ==
  /\ Claiming(c)
  /\ job[c].env # NilEnv
  /\ ownerMap[job[c].env] # NoClaim /\ Foreign(c)
  /\ Goto(c, "refused")
  /\ UNCHANGED <<ownerMap, step>>

RefuseDuplicate(c) ==
  /\ Claiming(c)
  /\ job[c].env # NilEnv
  /\ ownerMap[job[c].env] # NoClaim /\ ~Foreign(c) /\ Overlaps(c)
  /\ Goto(c, "duplicate")
  /\ UNCHANGED <<ownerMap, step>>

ClaimOther(c) ==
  /\ Claiming(c)
  /\ job[c].env # NilEnv
  /\ ownerMap[job[c].env] # NoClaim /\ ~Foreign(c) /\ ~Overlaps(c)
  /\ Granted(c, ownerMap[job[c].env].comps \cup job[c].want)

----------------------------------------------------------------------------
(* The registration proper, outside ownerMu.                               *)

NextSlot(c) == InstallOrder(job[c].want)[step[c]]

\* env.Register*: a later registration under the same name would replace it.
Install(c) ==
  /\ pc[c] = "install"
  /\ step[c] <= Len(InstallOrder(job[c].want))
  /\ plugins' = [plugins EXCEPT ![job[c].env][NextSlot(c)] = job[c].reg]
  /\ step' = [step EXCEPT ![c] = step[c] + 1]
  /\ UNCHANGED <<ownerMap, pc, job>>

\* env.Register* returns an error; the claim is kept.
InstallFails(c) ==
  /\ pc[c] = "install"
  /\ step[c] <= Len(InstallOrder(job[c].want))
  /\ Goto(c, "failed")
  /\ UNCHANGED <<ownerMap, plugins, job, step>>

InstallDone(c) ==
  /\ pc[c] = "install"
  /\ step[c] > Len(InstallOrder(job[c].want))
  /\ Goto(c, "ok")
  /\ UNCHANGED <<ownerMap, plugins, job, step>>

Return(c) ==
  /\ pc[c] \in {"ok", "failed", "refused", "duplicate"}
  /\ Goto(c, "idle")
  /\ job' = [job EXCEPT ![c] = NoJob]
  /\ step' = [step EXCEPT ![c] = 1]
  /\ UNCHANGED <<ownerMap, plugins>>

Next ==
  \E c \in Caller :
    \/ Call(c)
    \/ RefuseNilEnv(c) \/ ClaimFirst(c) \/ RefuseForeign(c)
    \/ RefuseDuplicate(c) \/ ClaimOther(c)
    \/ Install(c) \/ InstallFails(c) \/ InstallDone(c)
    \/ Return(c)

Spec == Init /\ [][Next]_vars

----------------------------------------------------------------------------
Installing(c) == pc[c] = "install"

\* The slots a goroutine has yet to register.
Ahead(c) == {InstallOrder(job[c].want)[k] : k \in step[c] .. Len(InstallOrder(job[c].want))}

TypeOK ==
  /\ ownerMap \in [Env -> [registry: Registry \cup {Nobody}, comps: SUBSET Component]]
  /\ plugins \in [Env -> [Slot -> Registry \cup {Nobody}]]
  /\ pc \in [Caller -> {"idle", "claim", "install", "ok", "failed", "refused", "duplicate"}]
  /\ job \in [Caller -> Job \cup {NoJob}]
  /\ \A c \in Caller : pc[c] # "idle" => job[c] \in Job
  /\ \A c \in Caller : pc[c] \in {"install", "ok"} => job[c].env # NilEnv
  /\ step \in [Caller -> 1 .. 5]

\* No two goroutines are ever inside env.Register* of the same component of an
\* environment: the claim is what keeps Bloblang's unlocked tables from being
\* written by two callers.
OneInstaller ==
  \A c, d \in Caller :
    c # d /\ Installing(c) /\ Installing(d) /\ job[c].env = job[d].env =>
      job[c].want \cap job[d].want = {}

\* README.md:931: a second registration is an error rather than a silent
\* overwrite.  What any goroutine is still going to register is unregistered.
NeverOverwrites ==
  \A c \in Caller : Installing(c) => \A s \in Ahead(c) : plugins[job[c].env][s] = Nobody

\* A call that returned no error left every plugin it asked for bound to its
\* registry, whatever other callers did meanwhile.
SuccessMeansServed ==
  \A c \in Caller : pc[c] = "ok" =>
    \A s \in Slot : s[1] \in job[c].want => plugins[job[c].env][s] = job[c].reg

\* Whatever order the claims and registrations of several registries interleave
\* in, environments are owned and plugins served as ExclusiveRegistration says.
Exclusive == INSTANCE ExclusiveRegistration WITH
  owner <- [e \in Env |-> ownerMap[e].registry],
  served <- plugins

ImplementsExclusive == Exclusive!Spec
=============================================================================
