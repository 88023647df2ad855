--------------------------- MODULE OwnershipProofs ---------------------------
(***************************************************************************)
(* Proofs about EnvOwnership for any number of registries, environments    *)
(* and goroutines.                                                         *)
(*                                                                         *)
(* The invariants of EnvOwnership are not inductive by themselves: that no *)
(* slot is overwritten rests on the claim covering whatever is being       *)
(* registered (Covered), on a slot outside every claim being empty         *)
(* (Unclaimed), and on two registrations never sharing a component.        *)
(***************************************************************************)
EXTENDS EnvOwnership, SequenceTheorems, TLAPS

Active(c) == pc[c] \in {"install", "ok"}

\* A running or finished registration is covered by its registry's claim.
Covered ==
  \A c \in Caller : Active(c) =>
    /\ ownerMap[job[c].env].registry = job[c].reg
    /\ job[c].want \subseteq ownerMap[job[c].env].comps

\* A claim names at least one component and has an owner.
ClaimsOwned ==
  \A e \in Env : ownerMap[e].comps # {} => ownerMap[e].registry \in Registry

\* Nothing was registered outside a claim.
Unclaimed ==
  \A e \in Env, s \in Slot : s[1] \notin ownerMap[e].comps => plugins[e][s] = Nobody

\* What a registration has passed is bound to its registry.
Behind ==
  \A c \in Caller : Active(c) =>
    \A k \in 1 .. step[c] - 1 :
      k \in DOMAIN InstallOrder(job[c].want) =>
        plugins[job[c].env][InstallOrder(job[c].want)[k]] = job[c].reg

Finished ==
  \A c \in Caller : pc[c] = "ok" => step[c] > Len(InstallOrder(job[c].want))

\* OneInstaller for finished registrations too: a component is granted once.
GrantedOnce ==
  \A c, d \in Caller :
    c # d /\ Active(c) /\ Active(d) /\ job[c].env = job[d].env =>
      job[c].want \cap job[d].want = {}

OwnInv ==
  /\ TypeOK /\ Covered /\ ClaimsOwned /\ Unclaimed /\ Behind /\ Finished
  /\ GrantedOnce /\ NeverOverwrites

\* InstallOrder lists each slot of the wanted components exactly once.
LEMMA InstallOrderFacts ==
  ASSUME NEW want \in Want
  PROVE  /\ InstallOrder(want) \in Seq(Slot)
         /\ Len(InstallOrder(want)) \in {2, 4}
         /\ \A j, k \in DOMAIN InstallOrder(want) :
              InstallOrder(want)[j] = InstallOrder(want)[k] => j = k
         /\ \A k \in DOMAIN InstallOrder(want) : InstallOrder(want)[k][1] \in want
         /\ \A s \in Slot : s[1] \in want =>
              \E k \in DOMAIN InstallOrder(want) : InstallOrder(want)[k] = s
<1>1. CASE want = Component
  <2> DEFINE m == PluginsOf("methods")
             f == PluginsOf("functions")
  <2>1. m \in Seq(Slot) /\ f \in Seq(Slot) /\ Len(m) = 2 /\ Len(f) = 2
    BY DEF PluginsOf, Slot, Component, Plugin
  <2>2. /\ m \o f \in Seq(Slot) /\ Len(m \o f) = 4
        /\ \A k \in 1 .. 4 : (m \o f)[k] = IF k <= 2 THEN m[k] ELSE f[k - 2]
    <3> HIDE DEF m, f
    <3>1. /\ m \o f \in Seq(Slot) /\ Len(m \o f) = Len(m) + Len(f)
          /\ \A k \in 1 .. Len(m) + Len(f) :
               (m \o f)[k] = IF k <= Len(m) THEN m[k] ELSE f[k - Len(m)]
      BY <2>1, ConcatProperties, Zenon
    <3> QED  BY <3>1, <2>1
  <2>3. InstallOrder(want) = m \o f
    BY <1>1 DEF InstallOrder
  <2>4. /\ (m \o f)[1] = <<"methods", "validate_schema">>
        /\ (m \o f)[2] = <<"methods", "process_schema">>
        /\ (m \o f)[3] = <<"functions", "validate_schema">>
        /\ (m \o f)[4] = <<"functions", "process_schema">>
    BY <2>2 DEF PluginsOf
  <2>5. DOMAIN (m \o f) = 1 .. 4
    BY <2>2, LenProperties
  <2> HIDE DEF m, f
  <2>. DEFINE order == m \o f
  <2>6. /\ order[1] = <<"methods", "validate_schema">>
         /\ order[2] = <<"methods", "process_schema">>
         /\ order[3] = <<"functions", "validate_schema">>
         /\ order[4] = <<"functions", "process_schema">>
    BY <2>4
  <2>. HIDE DEF order
  <2>7. /\ order[1] # order[2] /\ order[1] # order[3] /\ order[1] # order[4]
        /\ order[2] # order[3] /\ order[2] # order[4] /\ order[3] # order[4]
        /\ \A k \in {1, 2, 3, 4} : order[k][1] \in want
    BY <2>6, <1>1 DEF Component
  <2>8. \A s \in Slot : \E k \in {1, 2, 3, 4} : order[k] = s
    <3>1. \A s \in Slot : s \in {order[1], order[2], order[3], order[4]}
      BY <2>6 DEF Slot, Component, Plugin
    <3> QED  BY <3>1
  <2>9. 1 .. 4 = {1, 2, 3, 4}
    OBVIOUS
  <2>10. \A j, k \in 1 .. 4 : order[j] = order[k] => j = k
    BY <2>7, <2>9
  <2> QED  BY <2>2, <2>3, <2>5, <2>7, <2>8, <2>9, <2>10 DEF order
<1>2. CASE want = {"methods"}
  <2>1. InstallOrder(want) = PluginsOf("methods")
    BY <1>2 DEF InstallOrder, Component
  <2>. QED  BY <2>1, <1>2 DEF Slot, Component, Plugin, PluginsOf
<1>3. CASE want = {"functions"}
  <2>1. InstallOrder(want) = PluginsOf("functions")
    BY <1>3 DEF InstallOrder, Component
  <2>. QED  BY <2>1, <1>3 DEF Slot, Component, Plugin, PluginsOf
<1>. QED  BY <1>1, <1>2, <1>3 DEF Want

\* What is ahead lies in the wanted components, and before it is not ahead.
LEMMA AheadFacts ==
  ASSUME TypeOK, NEW c \in Caller, job[c] \in Job
  PROVE  /\ Ahead(c) \subseteq {s \in Slot : s[1] \in job[c].want}
         /\ step[c] \in DOMAIN InstallOrder(job[c].want) =>
              /\ NextSlot(c) \in Slot /\ NextSlot(c)[1] \in job[c].want
              /\ NextSlot(c) \in Ahead(c)
<1>. DEFINE order == InstallOrder(job[c].want)
<1>1. job[c].want \in Want /\ step[c] \in 1 .. 5
  BY DEF Job, TypeOK
<1>2. /\ order \in Seq(Slot) /\ Len(order) \in {2, 4} /\ DOMAIN order = 1 .. Len(order)
      /\ \A k \in DOMAIN order : order[k] \in Slot /\ order[k][1] \in job[c].want
  BY <1>1, InstallOrderFacts, LenProperties, ElementOfSeq
<1>3. \A k \in step[c] .. Len(order) : k \in DOMAIN order
  BY <1>1, <1>2
<1>4. Ahead(c) = {order[k] : k \in step[c] .. Len(order)} /\ NextSlot(c) = order[step[c]]
  BY DEF Ahead, NextSlot
<1>. HIDE DEF order
<1>5. Ahead(c) \subseteq {s \in Slot : s[1] \in job[c].want}
  BY <1>2, <1>3, <1>4
<1>6. step[c] \in DOMAIN order => step[c] \in step[c] .. Len(order)
  BY <1>1, <1>2
<1>. QED  BY <1>2, <1>4, <1>5, <1>6 DEF order

----------------------------------------------------------------------------
(* Preservation.                                                           *)

\* A step that touches neither table and makes no goroutine active.
LEMMA QuietStep ==
  ASSUME OwnInv, TypeOK', UNCHANGED <<ownerMap, plugins>>,
         \A d \in Caller : Active(d)' =>
           /\ Active(d) /\ job'[d] = job[d] /\ step'[d] = step[d]
           /\ pc'[d] = "install" => pc[d] = "install"
           /\ pc'[d] = "ok" => step[d] > Len(InstallOrder(job[d].want))
  PROVE  OwnInv'
<1>1. Covered'
  BY DEF OwnInv, Covered
<1>2. ClaimsOwned' /\ Unclaimed'
  BY DEF OwnInv, ClaimsOwned, Unclaimed
<1>3. Behind'
  BY DEF OwnInv, Behind
<1>4. Finished'
  BY DEF Finished, Active
<1>5. GrantedOnce'
  BY DEF OwnInv, GrantedOnce
<1>6. NeverOverwrites'
  BY DEF OwnInv, NeverOverwrites, Installing, Active, Ahead
<1>. QED  BY <1>1, <1>2, <1>3, <1>4, <1>5, <1>6 DEF OwnInv

\* Types are preserved by every action.
LEMMA TypeStep ==
  ASSUME OwnInv, NEW c \in Caller,
         \/ Call(c) \/ RefuseNilEnv(c) \/ ClaimFirst(c) \/ RefuseForeign(c)
         \/ RefuseDuplicate(c) \/ ClaimOther(c)
         \/ Install(c) \/ InstallFails(c) \/ InstallDone(c) \/ Return(c)
  PROVE  TypeOK'
<1>. USE DEF OwnInv
<1>1. CASE Call(c)
  BY <1>1 DEF TypeOK, Call, Goto
<1>2. CASE RefuseNilEnv(c) \/ RefuseForeign(c) \/ RefuseDuplicate(c)
  BY <1>2 DEF TypeOK, RefuseNilEnv, RefuseForeign, RefuseDuplicate, Claiming, Goto
<1>3. CASE ClaimFirst(c) \/ ClaimOther(c)
  <2>1. job[c] \in Job /\ job[c].env # NilEnv /\ UNCHANGED <<plugins, job>>
    BY <1>3 DEF TypeOK, ClaimFirst, ClaimOther, Claiming
  <2>2. job[c].reg \in Registry /\ job[c].env \in Env /\ job[c].want \subseteq Component
    BY <2>1 DEF Job, Want, Component
  <2>3. PICK comps \in SUBSET Component : Granted(c, comps)
    BY <1>3, <2>2 DEF TypeOK, ClaimFirst, ClaimOther
  <2>. QED  BY <2>1, <2>2, <2>3 DEF TypeOK, Granted, Goto
<1>4. CASE Install(c)
  <2>1. job[c] \in Job /\ job[c].env # NilEnv
    BY <1>4 DEF TypeOK, Install
  <2>2. job[c].reg \in Registry /\ job[c].env \in Env /\ job[c].want \in Want
    BY <2>1 DEF Job
  <2>3. Len(InstallOrder(job[c].want)) \in {2, 4}
    BY <2>2, InstallOrderFacts
  <2>4. NextSlot(c) \in Slot
    BY <1>4, <2>1, <2>2, <2>3, AheadFacts, InstallOrderFacts, LenProperties DEF TypeOK, Install
  <2>5. plugins' \in [Env -> [Slot -> Registry \cup {Nobody}]]
    <3>1. plugins \in [Env -> [Slot -> Registry \cup {Nobody}]]
          /\ plugins' = [plugins EXCEPT ![job[c].env][NextSlot(c)] = job[c].reg]
      BY <1>4 DEF TypeOK, Install
    <3>2. [plugins[job[c].env] EXCEPT ![NextSlot(c)] = job[c].reg] \in [Slot -> Registry \cup {Nobody}]
      BY <3>1, <2>2, <2>4
    <3>. QED  BY <3>1, <3>2, <2>2
  <2>6. step' \in [Caller -> 1 .. 5]
    <3>1. step[c] \in 1 .. 5 /\ step[c] <= Len(InstallOrder(job[c].want))
      BY <1>4 DEF TypeOK, Install
    <3>2. step[c] + 1 \in 1 .. 5
      <4>1. ASSUME NEW k \in 1 .. 5, NEW n \in {2, 4}, k <= n
            PROVE  k + 1 \in 1 .. 5
        BY <4>1
      <4>. QED  BY <4>1, <3>1, <2>3
    <3>. QED  BY <1>4, <3>2 DEF TypeOK, Install
  <2>. QED  BY <1>4, <2>5, <2>6 DEF TypeOK, Install
<1>5. CASE InstallFails(c) \/ InstallDone(c)
  BY <1>5 DEF TypeOK, InstallFails, InstallDone, Goto
<1>6. CASE Return(c)
  BY <1>6 DEF TypeOK, Return, Goto
<1>. QED  BY <1>1, <1>2, <1>3, <1>4, <1>5, <1>6

\* A claim is granted: of an unowned environment, or of a component the same
\* registry has not claimed yet.
LEMMA GrantStep ==
  ASSUME OwnInv, NEW c \in Caller, ClaimFirst(c) \/ ClaimOther(c)
  PROVE  OwnInv'
<1>. DEFINE e == job[c].env
            old == ownerMap[e].comps
<1>1. TypeOK'
  BY TypeStep
<1>2. /\ pc[c] = "claim" /\ UNCHANGED <<plugins, job>>
      /\ e \in Env /\ job[c].reg \in Registry /\ job[c].want \in Want /\ job[c] \in Job
  BY DEF OwnInv, TypeOK, ClaimFirst, ClaimOther, Claiming, Job
<1>3. /\ Granted(c, old \cup job[c].want)
      /\ job[c].want \cap old = {}
      /\ old # {} => ownerMap[e].registry = job[c].reg
  <2>1. CASE ClaimFirst(c)
    BY <2>1, <1>2 DEF ClaimFirst, NoClaim
  <2>2. CASE ClaimOther(c)
    BY <2>2, <1>2 DEF ClaimOther, Foreign, Overlaps
  <2>. QED  BY <2>1, <2>2
<1>4. /\ ownerMap' = [ownerMap EXCEPT ![e] = [registry |-> job[c].reg, comps |-> old \cup job[c].want]]
      /\ step' = [step EXCEPT ![c] = 1] /\ pc' = [pc EXCEPT ![c] = "install"]
  BY <1>3 DEF Granted, Goto
<1>5. \A d \in Caller : d # c =>
        pc'[d] = pc[d] /\ step'[d] = step[d] /\ job'[d] = job[d]
  BY <1>2, <1>4 DEF OwnInv, TypeOK
<1>6. pc'[c] = "install" /\ step'[c] = 1 /\ job'[c] = job[c]
  BY <1>2, <1>4 DEF OwnInv, TypeOK
<1>7. \A x \in Env : ownerMap'[x] = IF x = e
        THEN [registry |-> job[c].reg, comps |-> old \cup job[c].want] ELSE ownerMap[x]
  BY <1>2, <1>4 DEF OwnInv, TypeOK
\* A registration already running on e belongs to the same registry.
<1>8. \A d \in Caller : d # c /\ Active(d) =>
        /\ job[d] \in Job /\ job[d].env \in Env /\ job[d].want # {}
        /\ job[d].env = e => job[d].want \subseteq old /\ job[d].reg = job[c].reg
  <2>. SUFFICES ASSUME NEW d \in Caller, d # c, Active(d)
       PROVE  /\ job[d] \in Job /\ job[d].env \in Env /\ job[d].want # {}
              /\ job[d].env = e => job[d].want \subseteq old /\ job[d].reg = job[c].reg
    OBVIOUS
  <2>1. job[d] \in Job /\ job[d].env # NilEnv
    BY DEF OwnInv, TypeOK, Active
  <2>2. job[d].env \in Env /\ job[d].want # {}
    BY <2>1 DEF Job, Want, Component
  <2>3. ownerMap[job[d].env].registry = job[d].reg /\ job[d].want \subseteq ownerMap[job[d].env].comps
    BY DEF OwnInv, Covered
  <2>. QED  BY <1>3, <2>1, <2>2, <2>3
<1>9. Covered'
  <2>. SUFFICES ASSUME NEW d \in Caller, Active(d)'
       PROVE  /\ ownerMap'[job'[d].env].registry = job'[d].reg
              /\ job'[d].want \subseteq ownerMap'[job'[d].env].comps
    BY DEF Covered
  <2>1. CASE d = c
    BY <2>1, <1>2, <1>6, <1>7
  <2>2. CASE d # c
    <3>1. Active(d)
      BY <2>2, <1>5 DEF Active
    <3>. QED  BY <2>2, <3>1, <1>5, <1>7, <1>8 DEF OwnInv, Covered
  <2>. QED  BY <2>1, <2>2
<1>10. ClaimsOwned'
  BY <1>2, <1>7 DEF OwnInv, ClaimsOwned
<1>11. Unclaimed'
  BY <1>2, <1>7 DEF OwnInv, Unclaimed
<1>12. Behind' /\ Finished'
  BY <1>2, <1>5, <1>6 DEF OwnInv, Behind, Finished, Active
<1>13. GrantedOnce'
  BY <1>3, <1>5, <1>6, <1>8 DEF OwnInv, GrantedOnce, Active
<1>14. NeverOverwrites'
  <2>. SUFFICES ASSUME NEW d \in Caller, Installing(d)', NEW s \in Ahead(d)'
       PROVE  plugins'[job'[d].env][s] = Nobody
    BY DEF NeverOverwrites
  <2>1. CASE d = c
    <3>1. s \in Slot /\ s[1] \in job[c].want
      <4>1. TypeOK' /\ job'[c] \in Job
        BY <1>1, <1>2, <1>6
      <4>2. Ahead(c)' \subseteq {t \in Slot : t[1] \in job'[c].want}
        <5>1. DOMAIN InstallOrder(job[c].want) = 1 .. Len(InstallOrder(job[c].want))
          BY <1>2, InstallOrderFacts, LenProperties
        <5>2. \A k \in 1 .. Len(InstallOrder(job[c].want)) :
                /\ InstallOrder(job[c].want)[k] \in Slot
                /\ InstallOrder(job[c].want)[k][1] \in job[c].want
          BY <1>2, <5>1, InstallOrderFacts, ElementOfSeq
        <5>. QED  BY <5>1, <5>2, <1>6 DEF Ahead
      <4>. QED  BY <2>1, <4>2, <1>6
    <3>. QED  BY <2>1, <3>1, <1>2, <1>3, <1>6 DEF OwnInv, Unclaimed
  <2>2. CASE d # c
    BY <2>2, <1>2, <1>5 DEF OwnInv, NeverOverwrites, Installing, Ahead
  <2>. QED  BY <2>1, <2>2
<1>. QED  BY <1>1, <1>9, <1>10, <1>11, <1>12, <1>13, <1>14 DEF OwnInv

\* One env.Register* call: the slot was empty, and no other registration has
\* it ahead or behind.
LEMMA InstallStep ==
  ASSUME OwnInv, NEW c \in Caller, Install(c)
  PROVE  OwnInv'
<1>. DEFINE e == job[c].env
            slot == NextSlot(c)
            order == InstallOrder(job[c].want)
<1>1. TypeOK'
  BY TypeStep
<1>2. /\ job[c] \in Job /\ e \in Env /\ job[c].reg \in Registry /\ job[c].want \in Want
      /\ Active(c) /\ pc[c] = "install"
  BY DEF OwnInv, TypeOK, Install, Job, Active
<1>3. /\ order \in Seq(Slot) /\ Len(order) \in Nat /\ DOMAIN order = 1 .. Len(order)
      /\ \A j, k \in DOMAIN order : order[j] = order[k] => j = k
  BY <1>2, InstallOrderFacts, LenProperties
<1>4. step[c] \in DOMAIN order /\ slot = order[step[c]] /\ step[c] \in Nat
  BY <1>3 DEF OwnInv, TypeOK, Install, NextSlot
<1>5. slot \in Slot /\ slot[1] \in job[c].want /\ slot \in Ahead(c)
  BY <1>2, <1>4, AheadFacts DEF OwnInv
<1>6. \A x \in Env, t \in Slot :
        plugins'[x][t] = IF x = e /\ t = slot THEN job[c].reg ELSE plugins[x][t]
  BY <1>2, <1>5 DEF OwnInv, TypeOK, Install
<1>7. /\ UNCHANGED <<ownerMap, pc, job>>
      /\ step'[c] = step[c] + 1 /\ \A d \in Caller : d # c => step'[d] = step[d]
  BY DEF OwnInv, TypeOK, Install
\* Whoever else is registering on e was granted other components.
<1>8. \A d \in Caller : d # c /\ Active(d) /\ job[d].env = e => slot[1] \notin job[d].want
  BY <1>2, <1>5 DEF OwnInv, GrantedOnce
<1>9. \A d \in Caller : Active(d) =>
        /\ job[d] \in Job /\ job[d].env \in Env /\ job[d].want \in Want
        /\ InstallOrder(job[d].want) \in Seq(Slot)
        /\ \A k \in DOMAIN InstallOrder(job[d].want) :
             /\ InstallOrder(job[d].want)[k] \in Slot
             /\ InstallOrder(job[d].want)[k][1] \in job[d].want
  <2>. SUFFICES ASSUME NEW d \in Caller, Active(d)
       PROVE  /\ job[d] \in Job /\ job[d].env \in Env /\ job[d].want \in Want
              /\ InstallOrder(job[d].want) \in Seq(Slot)
              /\ \A k \in DOMAIN InstallOrder(job[d].want) :
                   /\ InstallOrder(job[d].want)[k] \in Slot
                   /\ InstallOrder(job[d].want)[k][1] \in job[d].want
    OBVIOUS
  <2>1. job[d] \in Job /\ job[d].env \in Env /\ job[d].want \in Want
    BY DEF OwnInv, TypeOK, Active, Job
  <2>. QED  BY <2>1, InstallOrderFacts, LenProperties, ElementOfSeq
<1>10. Covered' /\ ClaimsOwned' /\ GrantedOnce'
  BY <1>7 DEF OwnInv, Covered, ClaimsOwned, GrantedOnce, Active
<1>11. Unclaimed'
  <2>1. slot[1] \in ownerMap[e].comps
    BY <1>2, <1>5 DEF OwnInv, Covered
  <2>. QED  BY <2>1, <1>6, <1>7 DEF OwnInv, Unclaimed
<1>12. Behind'
  <2>. SUFFICES ASSUME NEW d \in Caller, Active(d), NEW k \in 1 .. step'[d] - 1,
                       k \in DOMAIN InstallOrder(job[d].want)
       PROVE  plugins'[job[d].env][InstallOrder(job[d].want)[k]] = job[d].reg
    BY <1>7 DEF Behind, Active
  <2>1. InstallOrder(job[d].want)[k] \in Slot /\ InstallOrder(job[d].want)[k][1] \in job[d].want
    BY <1>9
  <2>2. CASE d # c
    <3>1. plugins[job[d].env][InstallOrder(job[d].want)[k]] = job[d].reg
      BY <2>2, <1>7 DEF OwnInv, Behind
    <3>. QED  BY <3>1, <2>1, <2>2, <1>6, <1>8, <1>9
  <2>3. CASE d = c
    <3>1. CASE k = step[c]
      BY <3>1, <2>1, <2>3, <1>2, <1>4, <1>6
    <3>2. CASE k # step[c]
      <4>1. k \in 1 .. step[c] - 1
        BY <3>2, <2>3, <1>4, <1>7
      <4>2. plugins[e][order[k]] = job[c].reg
        BY <4>1, <2>3, <1>2 DEF OwnInv, Behind
      <4>. QED  BY <4>2, <2>1, <2>3, <1>2, <1>6
    <3>. QED  BY <3>1, <3>2
  <2>. QED  BY <2>2, <2>3
<1>13. Finished'
  BY <1>2, <1>7 DEF OwnInv, Finished
<1>14. NeverOverwrites'
  <2>. SUFFICES ASSUME NEW d \in Caller, Installing(d),
                       NEW k \in step'[d] .. Len(InstallOrder(job[d].want))
       PROVE  plugins'[job[d].env][InstallOrder(job[d].want)[k]] = Nobody
    BY <1>7 DEF NeverOverwrites, Installing, Ahead
  <2>1. Active(d) /\ step[d] \in 1 .. 5
    BY DEF Installing, Active, OwnInv, TypeOK
  <2>2. Len(InstallOrder(job[d].want)) \in Nat
        /\ DOMAIN InstallOrder(job[d].want) = 1 .. Len(InstallOrder(job[d].want))
    BY <2>1, <1>9, LenProperties
  <2>3. k \in step[d] .. Len(InstallOrder(job[d].want)) /\ k \in DOMAIN InstallOrder(job[d].want)
        /\ (d = c => k # step[c])
    BY <2>1, <2>2, <1>4, <1>7
  <2>4. plugins[job[d].env][InstallOrder(job[d].want)[k]] = Nobody
    BY <2>3 DEF OwnInv, NeverOverwrites, Ahead
  <2>5. job[d].env = e => InstallOrder(job[d].want)[k] # slot
    BY <2>1, <2>3, <1>3, <1>4, <1>8, <1>9
  <2>. QED  BY <2>1, <2>3, <2>4, <2>5, <1>6, <1>9
<1>. QED  BY <1>1, <1>10, <1>11, <1>12, <1>13, <1>14 DEF OwnInv

----------------------------------------------------------------------------
(* The theorems.                                                           *)

LEMMA InitOwnInv == Init => OwnInv
<1>. SUFFICES ASSUME Init PROVE OwnInv
  OBVIOUS
<1>1. TypeOK
  BY DEF Init, TypeOK, NoClaim
<1>2. \A c \in Caller : pc[c] = "idle"
  BY DEF Init
<1>3. Covered /\ Behind /\ Finished /\ GrantedOnce /\ NeverOverwrites
  BY <1>2 DEF Covered, Behind, Finished, GrantedOnce, NeverOverwrites, Active, Installing
<1>4. ClaimsOwned /\ Unclaimed
  BY DEF Init, ClaimsOwned, Unclaimed, NoClaim
<1>. QED  BY <1>1, <1>3, <1>4 DEF OwnInv

LEMMA NextOwnInv == OwnInv /\ [Next]_vars => OwnInv'
<1>. SUFFICES ASSUME OwnInv, [Next]_vars PROVE OwnInv'
  OBVIOUS
<1>1. ASSUME NEW c \in Caller,
             Call(c) \/ RefuseNilEnv(c) \/ RefuseForeign(c) \/ RefuseDuplicate(c)
      PROVE  OwnInv'
  <2>1. TypeOK'
    BY <1>1, TypeStep
  <2>2. UNCHANGED <<ownerMap, plugins, step>> /\ ~Active(c)'
        /\ \A d \in Caller : d # c => pc'[d] = pc[d] /\ job'[d] = job[d]
    BY <1>1 DEF OwnInv, TypeOK, Call, RefuseNilEnv, RefuseForeign, RefuseDuplicate,
                Claiming, Goto, Active
  <2>3. \A d \in Caller : Active(d)' =>
          /\ Active(d) /\ job'[d] = job[d] /\ step'[d] = step[d]
          /\ pc'[d] = "install" => pc[d] = "install"
          /\ pc'[d] = "ok" => step[d] > Len(InstallOrder(job[d].want))
    BY <2>2 DEF Active, OwnInv, Finished
  <2>. QED  BY <2>1, <2>2, <2>3, QuietStep
<1>2. ASSUME NEW c \in Caller, InstallFails(c) \/ InstallDone(c) \/ Return(c)
      PROVE  OwnInv'
  <2>1. TypeOK'
    BY <1>2, TypeStep
  <2>2. UNCHANGED <<ownerMap, plugins>>
        /\ \A d \in Caller : d # c => pc'[d] = pc[d] /\ job'[d] = job[d] /\ step'[d] = step[d]
    BY <1>2 DEF OwnInv, TypeOK, InstallFails, InstallDone, Return, Goto
  <2>3. Active(c)' => /\ Active(c) /\ job'[c] = job[c] /\ step'[c] = step[c]
                      /\ pc'[c] = "ok" /\ step[c] > Len(InstallOrder(job[c].want))
    BY <1>2 DEF OwnInv, TypeOK, InstallFails, InstallDone, Return, Goto, Active
  <2>4. \A d \in Caller : Active(d)' =>
          /\ Active(d) /\ job'[d] = job[d] /\ step'[d] = step[d]
          /\ pc'[d] = "install" => pc[d] = "install"
          /\ pc'[d] = "ok" => step[d] > Len(InstallOrder(job[d].want))
    BY <2>2, <2>3 DEF Active, OwnInv, Finished
  <2>. QED  BY <2>1, <2>2, <2>4, QuietStep
<1>3. CASE UNCHANGED vars
  BY <1>3 DEF vars, OwnInv, TypeOK, Covered, ClaimsOwned, Unclaimed, Behind, Finished,
              GrantedOnce, NeverOverwrites, Active, Installing, Ahead
<1>. QED  BY <1>1, <1>2, <1>3, GrantStep, InstallStep DEF Next

LEMMA OwnInvHolds == Spec => []OwnInv
<1>. QED  BY InitOwnInv, NextOwnInv, PTL DEF Spec

\* Environments, claims, jobs and slots keep their types.
THEOREM OwnershipTypeCorrect == Spec => []TypeOK
<1>1. OwnInv => TypeOK
  BY DEF OwnInv
<1>. QED  BY <1>1, OwnInvHolds, PTL

\* However many registries and goroutines register, no two are ever inside
\* env.Register* of the same component of an environment.
THEOREM OneInstallerAtATime == Spec => []OneInstaller
<1>1. OwnInv => OneInstaller
  BY DEF OwnInv, GrantedOnce, OneInstaller, Installing, Active
<1>. QED  BY <1>1, OwnInvHolds, PTL

\* No registration ever finds the slot it is going to fill taken.
THEOREM RegistrationNeverOverwrites == Spec => []NeverOverwrites
<1>1. OwnInv => NeverOverwrites
  BY DEF OwnInv
<1>. QED  BY <1>1, OwnInvHolds, PTL

\* A call that returned nil is served by its own registry in every slot it asked for.
THEOREM SuccessIsServed == Spec => []SuccessMeansServed
<1>1. OwnInv => SuccessMeansServed
  <2>. SUFFICES ASSUME OwnInv, NEW c \in Caller, pc[c] = "ok",
                       NEW s \in Slot, s[1] \in job[c].want
       PROVE  plugins[job[c].env][s] = job[c].reg
    BY DEF SuccessMeansServed
  <2>1. job[c].want \in Want /\ step[c] \in 1 .. 5 /\ Active(c)
    BY DEF OwnInv, TypeOK, Job, Active
  <2>2. PICK k \in DOMAIN InstallOrder(job[c].want) : InstallOrder(job[c].want)[k] = s
    BY <2>1, InstallOrderFacts
  <2>3. DOMAIN InstallOrder(job[c].want) = 1 .. Len(InstallOrder(job[c].want))
        /\ Len(InstallOrder(job[c].want)) \in Nat
    BY <2>1, InstallOrderFacts, LenProperties
  <2>4. step[c] > Len(InstallOrder(job[c].want))
    BY DEF OwnInv, Finished
  <2>5. k \in 1 .. step[c] - 1
    BY <2>1, <2>3, <2>4
  <2>. QED  BY <2>1, <2>2, <2>5 DEF OwnInv, Behind
<1>. QED  BY <1>1, OwnInvHolds, PTL

\* EnvOwnership implements ExclusiveRegistration: each environment is owned once
\* for good, and each slot served once, by the owner.
THEOREM OwnershipIsExclusive == Spec => ImplementsExclusive
<1>1. Init => Exclusive!Init
  BY DEF Init, Exclusive!Init, NoClaim
<1>2. OwnInv /\ [Next]_vars => [Exclusive!Next]_Exclusive!exclusiveVars
  <2>. SUFFICES ASSUME OwnInv, [Next]_vars
       PROVE  Exclusive!Next \/ UNCHANGED Exclusive!exclusiveVars
    OBVIOUS
  <2>1. ASSUME UNCHANGED <<ownerMap, plugins>>
        PROVE  UNCHANGED Exclusive!exclusiveVars
    BY <2>1 DEF Exclusive!exclusiveVars
  <2>2. ASSUME NEW c \in Caller, ClaimFirst(c)
        PROVE  Exclusive!Next
    <3>1. job[c].env \in Env /\ job[c].reg \in Registry
      BY <2>2 DEF OwnInv, TypeOK, ClaimFirst, Claiming, Job
    <3> DEFINE owner == [e \in Env |-> ownerMap[e].registry]
    <3>2. ownerMap[job[c].env].registry = Nobody /\ UNCHANGED plugins
      BY <2>2 DEF ClaimFirst, Claiming, NoClaim
    <3>3. \A e \in Env : ownerMap'[e].registry =
                           IF e = job[c].env THEN job[c].reg ELSE ownerMap[e].registry
      BY <2>2, <3>1 DEF OwnInv, TypeOK, ClaimFirst, Granted
    <3>4. owner' = [owner EXCEPT ![job[c].env] = job[c].reg]
      BY <3>1, <3>3
    <3>5. owner[job[c].env] = Nobody
      BY <3>1, <3>2
    <3>6. Exclusive!Acquire(job[c].env, job[c].reg)
      BY <3>2, <3>4, <3>5 DEF Exclusive!Acquire
    <3>. QED  BY <3>1, <3>6 DEF Exclusive!Next, Exclusive!Acquire
  <2>3. ASSUME NEW c \in Caller, ClaimOther(c)
        PROVE  UNCHANGED Exclusive!exclusiveVars
    <3>1. job[c].env \in Env /\ ownerMap[job[c].env].registry = job[c].reg
      BY <2>3 DEF OwnInv, TypeOK, ClaimOther, Claiming, Foreign, Job
    <3>2. \A e \in Env : ownerMap'[e].registry = ownerMap[e].registry
      BY <2>3, <3>1 DEF OwnInv, TypeOK, ClaimOther, Granted
    <3>3. UNCHANGED plugins
      BY <2>3 DEF ClaimOther, Claiming
    <3>. QED  BY <3>2, <3>3 DEF Exclusive!exclusiveVars
  <2>4. ASSUME NEW c \in Caller, Install(c)
        PROVE  Exclusive!Next
    <3>1. job[c] \in Job /\ job[c].env \in Env /\ job[c].reg \in Registry /\ Installing(c) /\ Active(c)
      BY <2>4 DEF OwnInv, TypeOK, Install, Job, Installing, Active
    <3>2. job[c].want \in Want
      BY <3>1 DEF Job
    <3>3. step[c] \in DOMAIN InstallOrder(job[c].want)
      BY <2>4, <3>2, InstallOrderFacts, LenProperties DEF OwnInv, TypeOK, Install
    <3>4. NextSlot(c) \in Slot /\ NextSlot(c) \in Ahead(c)
      BY <3>1, <3>3, AheadFacts DEF OwnInv
    <3>5. plugins[job[c].env][NextSlot(c)] = Nobody
      BY <3>1, <3>4 DEF OwnInv, NeverOverwrites
    <3>6. ownerMap[job[c].env].registry = job[c].reg
      BY <3>1 DEF OwnInv, Covered
    <3>7. Exclusive!Serve(job[c].env, NextSlot(c))
      BY <2>4, <3>1, <3>5, <3>6, NobodyAssumption DEF Install, Exclusive!Serve
    <3>. QED  BY <3>1, <3>4, <3>7 DEF Exclusive!Next
  <2>5. ASSUME NEW c \in Caller,
               \/ Call(c) \/ RefuseNilEnv(c) \/ RefuseForeign(c) \/ RefuseDuplicate(c)
               \/ InstallFails(c) \/ InstallDone(c) \/ Return(c)
        PROVE  UNCHANGED <<ownerMap, plugins>>
    BY <2>5 DEF Call, RefuseNilEnv, RefuseForeign, RefuseDuplicate, Claiming,
                InstallFails, InstallDone, Return
  <2>6. CASE UNCHANGED vars
    BY <2>6, <2>1 DEF vars
  <2>. QED  BY <2>1, <2>2, <2>3, <2>4, <2>5, <2>6 DEF Next
<1>. QED  BY <1>1, <1>2, OwnInvHolds, PTL DEF Spec, ImplementsExclusive, Exclusive!Spec
=============================================================================
