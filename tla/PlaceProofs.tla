----------------------------- MODULE PlaceProofs -----------------------------
(***************************************************************************)
(* More theorems about SchemaWalk: the order of the rules, the reason for  *)
(* a refusal, and what the walks leave unexamined.                         *)
(***************************************************************************)
EXTENDS WalkProofs

----------------------------------------------------------------------------
(* Declaration order.                                                      *)

\* The fields of x as the recording walks iterate them.
FieldsAt(x) == KidsWith(Val(x), {"field", "optional"})

Precedes(x, a, b) ==
  \E i, j \in 1 .. Len(FieldsAt(x)) : i < j /\ FieldsAt(x)[i].name = a /\ FieldsAt(x)[j].name = b

\* The field of path p is declared before that of path q, which may be inside it.
Before(p, q) ==
  \E c \in 0 .. Len(p) :
    /\ c < Len(q) /\ \A j \in 1 .. c : p[j] = q[j]
    /\ c = Len(p) \/ \E n : Trail(p, n) /\ Precedes(n[c], p[c + 1], q[c + 1])

\* Two trails have the nodes of the names they share.
LEMMA SameTrail ==
  ASSUME source \in Sources, NEW p, NEW n, Trail(p, n), NEW q, NEW m, Trail(q, m),
         NEW c \in Nat, c <= Len(p), c <= Len(q), \A j \in 1 .. c : p[j] = q[j]
  PROVE  n[c] = m[c]
<1> DEFINE S == {j \in Nat : j <= c => n[j] = m[j]}
<1>1. 0 \in S
  BY DEF Trail
<1>2. Len(p) \in Nat /\ Len(q) \in Nat
  BY PathLen DEF Trail
<1>3. ASSUME NEW j \in S
      PROVE  j + 1 \in S
  <2> SUFFICES ASSUME j + 1 <= c PROVE n[j + 1] = m[j + 1]
    OBVIOUS
  <2>1. n[j] = m[j] /\ j \in Nat /\ j < Len(p) /\ j < Len(q) /\ j + 1 \in 1 .. c
    BY <1>2
  <2>2. Linked(n[j], p[j + 1], n[j + 1]) /\ Linked(m[j], q[j + 1], m[j + 1]) /\ n[j] \in Nodes
    BY <2>1, TrailStep
  <2>3. \A k, l \in DOMAIN Val(n[j]).kids :
          Val(n[j]).kids[k].name = Val(n[j]).kids[l].name => k = l
    BY <2>2, NodeFacts
  <2>4. p[j + 1] = q[j + 1]
    BY <2>1
  <2> HIDE DEF S
  <2> QED
    BY <2>1, <2>2, <2>3, <2>4 DEF Linked
<1>4. S \subseteq Nat
  OBVIOUS
<1> HIDE DEF S
<1>5. c \in S
  BY <1>1, <1>3, <1>4, SetInduction
<1> QED
  BY <1>5 DEF S

LEMMA PrecedesOnce ==
  ASSUME source \in Sources, NEW x \in Nodes, NEW a, NEW b
  PROVE  ~ (Precedes(x, a, b) /\ Precedes(x, b, a)) /\ ~ Precedes(x, a, a)
<1> DEFINE it == FieldsAt(x)
<1>1. /\ Len(it) \in Nat
      /\ \A i, j \in 1 .. Len(it) : it[i].name = it[j].name => i = j
  BY KidsFacts DEF FieldsAt
<1> HIDE DEF it
<1> QED
  BY <1>1 DEF Precedes, it

LEMMA BeforeAsym ==
  ASSUME source \in Sources, NEW p, NEW q, \E n : Trail(p, n), \E n : Trail(q, n),
         Before(p, q), Before(q, p)
  PROVE  FALSE
<1>1. PICK c \in 0 .. Len(p) :
        /\ c < Len(q) /\ \A j \in 1 .. c : p[j] = q[j]
        /\ c = Len(p) \/ \E n : Trail(p, n) /\ Precedes(n[c], p[c + 1], q[c + 1])
  BY DEF Before
<1>2. PICK d \in 0 .. Len(q) :
        /\ d < Len(p) /\ \A j \in 1 .. d : q[j] = p[j]
        /\ d = Len(q) \/ \E m : Trail(q, m) /\ Precedes(m[d], q[d + 1], p[d + 1])
  BY DEF Before
<1>3. Len(p) \in Nat /\ Len(q) \in Nat /\ c \in Nat /\ d \in Nat
  BY PathLen DEF Trail
<1>4. CASE c < d
  <2>1. c # Len(p) /\ p[c + 1] = q[c + 1] /\ c < Len(p)
    BY <1>1, <1>2, <1>3, <1>4
  <2>2. PICK n : Trail(p, n) /\ Precedes(n[c], p[c + 1], q[c + 1])
    BY <1>1, <2>1
  <2>3. n[c] \in Nodes
    BY <1>3, <2>1, <2>2, TrailStep
  <2> QED
    BY <2>1, <2>2, <2>3, PrecedesOnce
<1>5. CASE d < c
  <2>1. d # Len(q) /\ p[d + 1] = q[d + 1] /\ d < Len(q)
    BY <1>1, <1>2, <1>3, <1>5
  <2>2. PICK m : Trail(q, m) /\ Precedes(m[d], q[d + 1], p[d + 1])
    BY <1>2, <2>1
  <2>3. m[d] \in Nodes
    BY <1>3, <2>1, <2>2, TrailStep
  <2> QED
    BY <2>1, <2>2, <2>3, PrecedesOnce
<1>6. CASE c = d
  <2>1. c < Len(p) /\ c < Len(q) /\ c <= Len(p) /\ c <= Len(q)
    BY <1>1, <1>2, <1>3, <1>6
  <2>2. PICK n : Trail(p, n) /\ Precedes(n[c], p[c + 1], q[c + 1])
    BY <1>1, <2>1
  <2>3. PICK m : Trail(q, m) /\ Precedes(m[c], q[c + 1], p[c + 1])
    BY <1>2, <1>6, <2>1
  <2>4. n[c] = m[c]
    BY <1>1, <1>3, <2>1, <2>2, <2>3, SameTrail
  <2>5. n[c] \in Nodes
    BY <1>3, <2>1, <2>2, TrailStep
  <2> QED
    BY <2>2, <2>3, <2>4, <2>5, PrecedesOnce
<1> QED
  BY <1>3, <1>4, <1>5, <1>6

LEMMA BeforeKept ==
  ASSUME source' = source, NEW p, NEW q
  PROVE  Before(p, q)' <=> Before(p, q)
<1>1. \A n : Trail(p, n)' <=> Trail(p, n)
  BY TrailKept
<1>2. \A x, a, b : Precedes(x, a, b)' <=> Precedes(x, a, b)
  BY DEF Precedes, FieldsAt, Val
<1> QED
  BY <1>1, <1>2 DEF Before

\* What a recording walk has yet to reach is declared after the child it passes.
LEMMA KidBefore ==
  ASSUME WalkInv, source' = source, Extracts \/ Compiles,
         NEW q, q = KidPath, NEW r \in FieldPath, Reaches(r)'
  PROVE  Before(q, r)
<1> USE DEF WalkInv
<1>1. Iterating /\ stack # << >> /\ Passed /\ source \in Sources
  BY DEF Extracts, Compiles, Iterating, InWalk, Stepped, Pushed, StackInv
<1>2. PICK t \in Nat \ {0} : t = Len(stack) /\ t \in Frames /\ Top = stack[t] /\ Frames = 1 .. t
                            /\ Iteration = It(t)
  BY <1>1, TopFacts DEF Frames
<1>3. /\ Len(q) = t /\ q[t] = Kid.name /\ Kid = It(t)[Top.next] /\ Top.next \in 1 .. Len(It(t))
      /\ \A j \in 1 .. t - 1 : q[j] = Top.path[j]
      /\ q \in FieldPath
  BY <1>1, <1>2, KidInCall DEF Kid
<1>4. PICK n : Trail(q, n) /\ \A l \in Frames : n[l - 1] = stack[l].node
  BY KidHasTrail
<1>5. Len(r) \in Nat
  BY PathLen
<1>6. PICK l \in Frames' : \E i \in Pending(l)' : Passes(r, l, i)'
  BY DEF Reaches
<1>7. PICK i \in Pending(l)' : Passes(r, l, i)'
  BY <1>6
<1>8. CASE l \in Frames
  <2>0. Top.next <= Len(Iteration)
    BY <1>2, <1>3
  <2>1. /\ Passes(r, l, i)
        /\ Pending(l)' = IF l = t THEN Pending(l) \ {Top.next} ELSE Pending(l)
    BY <1>1, <1>2, <1>7, <1>8, <2>0, PendingShrinks
  <2>2. /\ l <= Len(r) /\ r[l] = It(l)[i].name /\ i \in 1 .. Len(It(l)) /\ stack[l].next <= i
        /\ \A j \in 1 .. l - 1 : r[j] = stack[l].path[j]
        /\ l = t => i # Top.next
    BY <2>1, <1>7 DEF Passes, Pending
  <2>3. stack[l] \in Call /\ stack[l].node \in Nodes /\ stack[l].next \in Nat /\ l \in 1 .. t
    BY <1>1, <1>2, <1>8, TopFacts DEF Call
  <2>4. It(l) = FieldsAt(stack[l].node) /\ Len(It(l)) \in Nat
    <3>1. stack[l].fn \in Recording
      BY <1>8, KidHasTrail
    <3> QED
      BY <1>1, <2>3, <3>1, IterationFacts DEF It, Iterated, Recording, FieldsAt
  <2>5. \A j \in 1 .. l - 1 : q[j] = r[j]
    <3> TAKE j \in 1 .. l - 1
    <3>1. j \in Frames /\ j < l /\ j < t /\ j \in 1 .. t - 1
      BY <1>2, <2>3
    <3>2. Above(j, l) /\ Above(j, t)
      BY <1>2, <1>8, <3>1 DEF StackInv
    <3> QED
      BY <1>2, <1>3, <2>2, <3>1, <3>2 DEF Above
  <2>6. Precedes(n[l - 1], q[l], r[l])
    <3> DEFINE k == IF l = t THEN Top.next ELSE stack[l].next - 1
    <3>1. k \in 1 .. Len(It(l)) /\ k < i /\ It(l)[k].name = q[l]
      <4>1. CASE l = t
        BY <4>1, <1>2, <1>3, <2>2, <2>3
      <4>2. CASE l # t
        <5>1. l \in 1 .. t - 1 /\ l < t
          BY <4>2, <2>3
        <5>2. Above(l, t) /\ FrameOK(l)
          BY <5>1, <1>2, <1>8 DEF StackInv
        <5>3. stack[l].next >= 2 /\ q[l] = It(l)[stack[l].next - 1].name
          BY <5>1, <5>2, <1>2, <1>3 DEF Above
        <5> QED
          BY <4>2, <5>3, <2>2, <2>3, <2>4
      <4> QED
        BY <4>1, <4>2
    <3>2. n[l - 1] = stack[l].node
      BY <1>4, <1>8
    <3> HIDE DEF k
    <3> QED
      BY <2>2, <2>4, <3>1, <3>2 DEF Precedes
  <2>7. PICK c \in Nat : c = l - 1 /\ c + 1 = l /\ c \in 0 .. Len(q) /\ c < Len(r)
    BY <1>3, <1>5, <2>2, <2>3
  <2> QED
    BY <1>4, <2>5, <2>6, <2>7 DEF Before
<1>9. CASE l \notin Frames
  <2>1. PICK fn \in Walks : Pushed(fn)
    BY <1>9 DEF Extracts, Compiles, Stepped, Walks, Frames
  <2>2. l = t + 1 /\ stack'[t + 1].path = q
    BY <1>1, <1>2, <1>6, <1>9, <2>1, FramesPushed
  <2>3. t + 1 <= Len(r) /\ \A j \in 1 .. t + 1 - 1 : r[j] = q[j]
    BY <1>7, <2>2 DEF Passes
  <2>4. t \in 0 .. Len(q) /\ t < Len(r) /\ t = Len(q) /\ \A j \in 1 .. t : q[j] = r[j]
    BY <1>2, <1>3, <1>5, <2>3
  <2> QED
    BY <2>4 DEF Before
<1> QED
  BY <1>8, <1>9

\* Rules are extracted, and descriptors compiled, in the order of declaration.
OrderInv ==
  /\ pc = "rules" =>
       /\ \A j, k \in DOMAIN rules : j < k =>
            rules[j].path = rules[k].path \/ Before(rules[j].path, rules[k].path)
       /\ \A q \in RulePaths : \A r \in FieldPath : Reaches(r) => Before(q, r)
  /\ pc \in {"fields", "done"} =>
       \A j, k \in DOMAIN rules : j < k /\ rules[j].meta.priority = rules[k].meta.priority =>
         rules[j].path = rules[k].path \/ Before(rules[j].path, rules[k].path)
  /\ \A j, k \in DOMAIN fields : j < k => Before(fields[j].path, fields[k].path)
  /\ pc = "fields" => \A q \in FieldPaths : \A r \in FieldPath : Reaches(r) => Before(q, r)

LEMMA InitOrder == Init => OrderInv
BY DEF Init, OrderInv

LEMMA OrderKept ==
  ASSUME IInv, OrderInv, [Next]_vars
  PROVE  OrderInv'
<1>0. WalkInv /\ rules \in Seq(Rule) /\ fields \in Seq(Field)
  BY DEF IInv, RulesInv, FieldsInv
<1>1. /\ source' = source
      /\ \/ Rests \/ Finish \/ Returns \/ Opens \/ Examines
         \/ Extracts \/ Compiles \/ BeginsRules \/ BeginsFields
  BY <1>0, StepForms
<1>2. \A p, q : Before(p, q)' <=> Before(p, q)
  BY <1>1, BeforeKept
<1>3. \A r \in FieldPath : Len(r) \in Nat
  BY PathLen
<1>4. CASE Rests \/ Finish \/ Returns \/ Opens \/ Examines
  <2>1. /\ rules' = rules /\ fields' = fields /\ RulePaths' = RulePaths /\ FieldPaths' = FieldPaths
        /\ pc' \in {pc, "failed"} \/ (pc = "fields" /\ pc' = "done")
    BY <1>4 DEF Rests, Finish, Returns, Opens, Examines, RulePaths, FieldPaths
  <2>2. \A r \in FieldPath : Reaches(r)' => Reaches(r)
    BY <1>0, <1>1, <1>3, <1>4, ReachesLess
  <2> QED
    BY <1>2, <2>1, <2>2 DEF OrderInv
<1>5. CASE Extracts
  <2>1. PICK q \in FieldPath : q = KidPath
    BY <1>0, <1>5, KidInCall DEF Extracts, Iterating, InWalk, WalkInv
  <2>2. pc = "rules" /\ pc' = "rules" /\ fields' = fields
    BY <1>0, <1>5, TopFacts DEF Extracts, Iterating, InWalk, PhaseInv, WalkInv
  <2>3. Reaches(q) /\ \A r \in FieldPath : Reaches(r)' => Before(q, r) /\ Reaches(r)
    BY <1>0, <1>1, <1>3, <1>5, <2>1, KidPassed, KidBefore, ReachesLess
  <2>4. /\ \A k \in DOMAIN rules : rules'[k] = rules[k]
        /\ \A k \in DOMAIN rules' \ DOMAIN rules : rules'[k].path = q
        /\ \A j, k \in DOMAIN rules' : j < k /\ k \in DOMAIN rules => j \in DOMAIN rules
    BY <1>0, <1>5, <2>1, RulesAppended
  <2>5. RulePaths' \subseteq RulePaths \cup {q}
    BY <2>4 DEF RulePaths
  <2>6. \A k \in DOMAIN rules : Before(rules[k].path, q)
    BY <2>2, <2>3 DEF OrderInv, RulePaths
  <2>7. ASSUME NEW j \in DOMAIN rules', NEW k \in DOMAIN rules', j < k
        PROVE  rules'[j].path = rules'[k].path \/ Before(rules'[j].path, rules'[k].path)
    <3>1. CASE k \in DOMAIN rules
      BY <2>2, <2>4, <2>7, <3>1 DEF OrderInv
    <3>2. CASE k \notin DOMAIN rules
      BY <2>4, <2>6, <3>2
    <3> QED
      BY <3>1, <3>2
  <2>8. \A p \in RulePaths' : \A r \in FieldPath : Reaches(r)' => Before(p, r)
    BY <2>2, <2>3, <2>5 DEF OrderInv
  <2> QED
    BY <1>2, <2>2, <2>7, <2>8 DEF OrderInv
<1>6. CASE Compiles
  <2>1. PICK q \in FieldPath : q = KidPath
    BY <1>0, <1>6, KidInCall DEF Compiles, Iterating, InWalk, WalkInv
  <2>2. pc = "fields" /\ pc' = "fields" /\ rules' = rules
    BY <1>0, <1>6, TopFacts DEF Compiles, Iterating, InWalk, PhaseInv, WalkInv, Searching
  <2>3. Reaches(q) /\ \A r \in FieldPath : Reaches(r)' => Before(q, r) /\ Reaches(r)
    BY <1>0, <1>1, <1>3, <1>6, <2>1, KidPassed, KidBefore, ReachesLess
  <2>4. PICK c \in Nat : c = Len(fields)
    BY <1>0, LenProperties
  <2>5. /\ DOMAIN fields = 1 .. c /\ DOMAIN fields' = 1 .. c + 1
        /\ \A k \in 1 .. c : fields'[k] = fields[k]
        /\ fields'[c + 1].path = q
    BY <1>0, <1>6, <2>1, <2>4, FieldAppended
  <2>6. FieldPaths' \subseteq FieldPaths \cup {q}
    <3>1. \A k \in DOMAIN fields' : k \in DOMAIN fields \/ k = c + 1
      BY <2>5
    <3> QED
      BY <2>5, <3>1 DEF FieldPaths
  <2>7. \A k \in DOMAIN fields : Before(fields[k].path, q)
    BY <2>2, <2>3 DEF OrderInv, FieldPaths
  <2>8. ASSUME NEW j \in DOMAIN fields', NEW k \in DOMAIN fields', j < k
        PROVE  Before(fields'[j].path, fields'[k].path)
    <3>1. CASE k \in DOMAIN fields
      <4>1. j \in DOMAIN fields
        BY <2>5, <2>8, <3>1
      <4> QED
        BY <2>5, <2>8, <3>1, <4>1 DEF OrderInv
    <3>2. CASE k \notin DOMAIN fields
      <4>1. k = c + 1 /\ j \in DOMAIN fields
        BY <2>5, <2>8, <3>2
      <4> QED
        BY <2>5, <2>7, <4>1
    <3> QED
      BY <3>1, <3>2
  <2>9. \A p \in FieldPaths' : \A r \in FieldPath : Reaches(r)' => Before(p, r)
    BY <2>2, <2>3, <2>6 DEF OrderInv
  <2> QED
    BY <1>2, <2>2, <2>8, <2>9 DEF OrderInv
<1>7. CASE BeginsRules
  <2>1. rules' = << >> /\ fields' = << >> /\ pc' = "rules"
    BY <1>0, <1>7 DEF BeginsRules, WalkInv, PhaseInv
  <2> QED
    BY <2>1 DEF OrderInv, RulePaths
<1>8. CASE BeginsFields
  <2>1. fields' = << >> /\ pc' = "fields" /\ pc = "rules" /\ rules' = sortBlobRules
    BY <1>0, <1>8 DEF BeginsFields, WalkInv, PhaseInv
  <2>2. \A j, k \in DOMAIN rules' : j < k /\ rules'[j].meta.priority = rules'[k].meta.priority =>
          \E i, l \in DOMAIN rules : i < l /\ rules'[j] = rules[i] /\ rules'[k] = rules[l]
    BY <1>0, <2>1, RulesSorted
  <2>3. \A j, k \in DOMAIN rules' : j < k /\ rules'[j].meta.priority = rules'[k].meta.priority =>
          rules'[j].path = rules'[k].path \/ Before(rules'[j].path, rules'[k].path)
    BY <2>1, <2>2 DEF OrderInv
  <2> QED
    BY <1>2, <2>1, <2>3 DEF OrderInv, FieldPaths
<1> QED
  BY <1>1, <1>4, <1>5, <1>6, <1>7, <1>8

\* Where two rules have one priority, the stable sort keeps them in the order in
\* which extractRules came to their fields, and that is the order of the
\* descriptors compileCUEFields makes: a user sees errors in the order of the
\* schema, at every depth of nesting.
THEOREM InDeclarationOrder == Spec => []DeclarationOrderKept
<1>1. IInv /\ OrderInv => DeclarationOrderKept
  <2> SUFFICES ASSUME IInv, OrderInv, pc = "done",
                      NEW j \in DOMAIN rules, NEW k \in DOMAIN rules,
                      j < k, rules[j].meta.priority = rules[k].meta.priority,
                      NEW i \in DOMAIN fields, NEW l \in DOMAIN fields,
                      fields[i].path = rules[j].path, fields[l].path = rules[k].path,
                      ~ (i <= l)
               PROVE  FALSE
    BY DEF DeclarationOrderKept
  <2>1. i \in Int /\ l \in Int /\ source \in Sources
    BY LenProperties DEF IInv, FieldsInv, WalkInv, StackInv
  <2>2. l < i
    BY <2>1
  <2>3. Before(rules[k].path, rules[j].path)
    BY <2>2 DEF OrderInv
  <2>4. rules[j].path # rules[k].path
    BY <2>2, <2>1 DEF IInv, FieldsInv
  <2>5. Before(rules[j].path, rules[k].path)
    BY <2>4 DEF OrderInv
  <2>6. (\E n : Trail(rules[j].path, n)) /\ (\E n : Trail(rules[k].path, n))
    BY DEF IInv, RulesInv, RulePaths
  <2> QED
    BY <2>1, <2>3, <2>5, <2>6, BeforeAsym
<1>2. Spec => [](IInv /\ OrderInv)
  BY InitIInv, InitOrder, NextIInv, OrderKept, PTL DEF Spec
<1> QED
  BY <1>1, <1>2, PTL

----------------------------------------------------------------------------
(* Places.                                                                 *)

\* A line of places from the root down, each under the one before.
Line(c, d) ==
  /\ c[0] = RootPlace
  /\ \A j \in 1 .. d : \E k \in DOMAIN Val(c[j - 1].node).kids :
       c[j] = Under(c[j - 1], Val(c[j - 1].node).kids[k])

\* The recursive definition inside Places has a value.
LEMMA LevelsExist ==
  ASSUME NEW M \in Nat
  PROVE  \E f : f = [d \in 0 .. M |-> IF d = 0 THEN {RootPlace} ELSE PlacesBelow(f[d - 1])]
<1> DEFINE Is(f, n) == f = [d \in 0 .. n |-> IF d = 0 THEN {RootPlace} ELSE PlacesBelow(f[d - 1])]
           S == {n \in Nat : \E f : Is(f, n)}
<1>1. 0 \in S
  <2> DEFINE f == [d \in 0 .. 0 |-> {RootPlace}]
  <2>1. Is(f, 0)
    OBVIOUS
  <2> QED
    BY <2>1
<1>2. ASSUME NEW n \in S
      PROVE  n + 1 \in S
  <2>1. PICK f : Is(f, n)
    OBVIOUS
  <2> DEFINE g == [d \in 0 .. n + 1 |-> IF d = n + 1 THEN PlacesBelow(f[n]) ELSE f[d]]
  <2>2. n \in Nat /\ DOMAIN g = 0 .. n + 1
    OBVIOUS
  <2>3. ASSUME NEW d \in 0 .. n + 1
        PROVE  g[d] = IF d = 0 THEN {RootPlace} ELSE PlacesBelow(g[d - 1])
    <3>1. CASE d = n + 1
      <4>1. d # 0 /\ d - 1 \in 0 .. n /\ d - 1 = n /\ g[d - 1] = f[n]
        BY <3>1, <2>2
      <4> QED
        BY <3>1, <4>1
    <3>2. CASE d # n + 1
      <4>1. d \in 0 .. n /\ g[d] = f[d]
        BY <3>2, <2>2
      <4>2. f[d] = IF d = 0 THEN {RootPlace} ELSE PlacesBelow(f[d - 1])
        BY <4>1, <2>1
      <4>3. d # 0 => g[d - 1] = f[d - 1]
        BY <4>1, <2>2
      <4> HIDE DEF g
      <4> QED
        BY <4>1, <4>2, <4>3
    <3> QED
      BY <3>1, <3>2
  <2>4. Is(g, n + 1)
    <3>1. g = [d \in 0 .. n + 1 |-> g[d]]
      OBVIOUS
    <3> HIDE DEF g
    <3> QED
      BY <2>2, <2>3, <3>1
  <2>5. n + 1 \in Nat
    BY <2>2
  <2> HIDE DEF g, Is
  <2>6. \E h : Is(h, n + 1)
    BY <2>4
  <2> QED
    BY <2>5, <2>6
<1>3. S \subseteq Nat
  OBVIOUS
<1> HIDE DEF S
<1>4. M \in S
  BY <1>1, <1>2, <1>3, SetInduction
<1> QED
  BY <1>4 DEF S

LEMMA PlacesLevels ==
  \E L : /\ L[0] = {RootPlace}
         /\ \A d \in 1 .. MaxDepth + 1 : L[d] = PlacesBelow(L[d - 1])
         /\ Places = UNION {L[d] : d \in 0 .. MaxDepth + 1}
<1> DEFINE L == CHOOSE f : f = [d \in 0 .. MaxDepth + 1 |->
                                  IF d = 0 THEN {RootPlace} ELSE PlacesBelow(f[d - 1])]
<1>1. MaxDepth + 1 \in Nat
  BY DepthAssumption
<1>2. L = [d \in 0 .. MaxDepth + 1 |-> IF d = 0 THEN {RootPlace} ELSE PlacesBelow(L[d - 1])]
  BY <1>1, LevelsExist
<1>3. Places = UNION {L[d] : d \in 0 .. MaxDepth + 1}
  BY DEF Places
<1> HIDE DEF L
<1>4. \A d \in 0 .. MaxDepth + 1 : L[d] = IF d = 0 THEN {RootPlace} ELSE PlacesBelow(L[d - 1])
  BY <1>2, Zenon
<1>5. 0 \in 0 .. MaxDepth + 1 /\ \A d \in 1 .. MaxDepth + 1 : d \in 0 .. MaxDepth + 1 /\ d # 0
  BY <1>1
<1> QED
  BY <1>3, <1>4, <1>5

LEMMA LineExtended ==
  ASSUME NEW d \in Nat, NEW c, Line(c, d), NEW k \in DOMAIN Val(c[d].node).kids
  PROVE  \E e : /\ Line(e, d + 1) /\ e[d + 1] = Under(c[d], Val(c[d].node).kids[k])
                /\ \A j \in 0 .. d : e[j] = c[j]
<1> DEFINE p == Under(c[d], Val(c[d].node).kids[k])
           e == [j \in 0 .. d + 1 |-> IF j = d + 1 THEN p ELSE c[j]]
<1>1. /\ \A j \in 0 .. d : e[j] = c[j]
      /\ e[d + 1] = p /\ 0 \in 0 .. d
  OBVIOUS
<1> HIDE DEF e, p
<1>2. ASSUME NEW j \in 1 .. d + 1
      PROVE  \E l \in DOMAIN Val(e[j - 1].node).kids :
               e[j] = Under(e[j - 1], Val(e[j - 1].node).kids[l])
  <2>1. j - 1 \in 0 .. d /\ e[j - 1] = c[j - 1]
    BY <1>1
  <2>2. CASE j = d + 1
    <3>1. j - 1 = d
      BY <2>2
    <3> QED
      BY <1>1, <2>1, <2>2, <3>1 DEF p
  <2>3. CASE j # d + 1
    <3>1. j \in 1 .. d /\ e[j] = c[j]
      BY <1>1, <2>3
    <3> QED
      BY <2>1, <3>1 DEF Line
  <2> QED
    BY <2>2, <2>3
<1> QED
  BY <1>1, <1>2 DEF Line, p

LEMMA LineFacts ==
  ASSUME source \in Sources, NEW d \in Nat, NEW c, Line(c, d)
  PROVE  /\ c[d].node \in Nodes /\ c[d].depth = d
         /\ c[d].path \in Seq(STRING) /\ Len(c[d].path) = d
<1> DEFINE Fine(j) == /\ c[j].node \in Nodes /\ c[j].depth = j
                      /\ c[j].path \in Seq(STRING) /\ Len(c[j].path) = j
           S == {j \in Nat : j <= d => Fine(j)}
<1>1. 0 \in S
  <2>1. /\ c[0].node = source.root /\ c[0].depth = 0 /\ c[0].path = << >>
    BY DEF Line, RootPlace
  <2>2. << >> \in Seq(STRING) /\ Len(<< >>) = 0
    OBVIOUS
  <2> QED
    BY <2>1, <2>2, NodeFacts
<1>2. ASSUME NEW j \in S
      PROVE  j + 1 \in S
  <2> SUFFICES ASSUME j + 1 <= d PROVE Fine(j + 1)
    OBVIOUS
  <2>1. j \in Nat /\ j + 1 \in 1 .. d /\ j + 1 - 1 = j
    OBVIOUS
  <2>2. Fine(j)
    BY <2>1
  <2>3. PICK k \in DOMAIN Val(c[j].node).kids : c[j + 1] = Under(c[j], Val(c[j].node).kids[k])
    BY <2>1 DEF Line
  <2>4. PICK kid \in Child : kid = Val(c[j].node).kids[k]
    <3>1. Val(c[j].node).kids \in Seq(Child)
      BY <2>2, NodeFacts
    <3> QED
      BY <3>1, ElementOfSeq, LenProperties
  <2>5. /\ c[j + 1].node = kid.to /\ c[j + 1].depth = c[j].depth + 1
        /\ c[j + 1].path = Append(c[j].path, kid.name)
        /\ kid.to \in Nodes /\ kid.name \in STRING
    BY <2>3, <2>4 DEF Under, Child
  <2> HIDE DEF S
  <2> QED
    BY <2>1, <2>2, <2>5, AppendProperties
<1>3. S \subseteq Nat
  OBVIOUS
<1> HIDE DEF S, Fine
<1>4. d \in S
  BY <1>1, <1>2, <1>3, SetInduction
<1> QED
  BY <1>4 DEF S, Fine

LEMMA LinePrefix ==
  ASSUME NEW d \in Nat, NEW c, Line(c, d), NEW j \in 0 .. d
  PROVE  Line(c, j)
BY DEF Line

\* The places are the ends of the lines up to one level past the limit.
LEMMA PlaceHasLine ==
  ASSUME NEW p \in Places
  PROVE  \E d \in 0 .. MaxDepth + 1 : \E c : Line(c, d) /\ c[d] = p
<1>1. PICK L : /\ L[0] = {RootPlace}
               /\ \A d \in 1 .. MaxDepth + 1 : L[d] = PlacesBelow(L[d - 1])
               /\ Places = UNION {L[d] : d \in 0 .. MaxDepth + 1}
  BY PlacesLevels
<1> DEFINE S == {d \in Nat : d <= MaxDepth + 1 => \A q \in L[d] : \E c : Line(c, d) /\ c[d] = q}
<1>2. 0 \in S
  <2> DEFINE c == [j \in {0} |-> RootPlace]
  <2>1. Line(c, 0) /\ c[0] = RootPlace
    BY DEF Line
  <2> HIDE DEF c
  <2> QED
    BY <1>1, <2>1
<1>3. ASSUME NEW d \in S
      PROVE  d + 1 \in S
  <2> SUFFICES ASSUME d + 1 <= MaxDepth + 1, NEW q \in L[d + 1]
               PROVE  \E c : Line(c, d + 1) /\ c[d + 1] = q
    OBVIOUS
  <2>1. d \in Nat /\ d <= MaxDepth + 1 /\ d + 1 \in 1 .. MaxDepth + 1 /\ d + 1 - 1 = d
    BY DepthAssumption
  <2>2. q \in PlacesBelow(L[d])
    BY <1>1, <2>1
  <2>3. PICK r \in L[d] : \E k \in DOMAIN Val(r.node).kids : q = Under(r, Val(r.node).kids[k])
    BY <2>2 DEF PlacesBelow, ToSet
  <2>4. PICK c : Line(c, d) /\ c[d] = r
    BY <2>1
  <2> HIDE DEF S
  <2> QED
    BY <2>1, <2>3, <2>4, LineExtended
<1>4. S \subseteq Nat
  OBVIOUS
<1> HIDE DEF S
<1>5. \A d \in Nat : d \in S
  BY <1>2, <1>3, <1>4, SetInduction
<1>6. PICK d \in 0 .. MaxDepth + 1 : p \in L[d]
  BY <1>1
<1>7. d \in Nat /\ d <= MaxDepth + 1
  BY DepthAssumption
<1> QED
  BY <1>5, <1>6, <1>7 DEF S

LEMMA LineEndsInPlace ==
  ASSUME NEW d \in 0 .. MaxDepth + 1, NEW c, Line(c, d)
  PROVE  c[d] \in Places
<1>1. PICK L : /\ L[0] = {RootPlace}
               /\ \A j \in 1 .. MaxDepth + 1 : L[j] = PlacesBelow(L[j - 1])
               /\ Places = UNION {L[j] : j \in 0 .. MaxDepth + 1}
  BY PlacesLevels
<1> DEFINE S == {j \in Nat : j <= d => c[j] \in L[j]}
<1>2. 0 \in S
  BY <1>1 DEF Line
<1>3. ASSUME NEW j \in S
      PROVE  j + 1 \in S
  <2> SUFFICES ASSUME j + 1 <= d PROVE c[j + 1] \in L[j + 1]
    OBVIOUS
  <2>1. j \in Nat /\ j <= d /\ j + 1 \in 1 .. d /\ j + 1 \in 1 .. MaxDepth + 1 /\ j + 1 - 1 = j
    BY DepthAssumption
  <2>2. c[j] \in L[j] /\ L[j + 1] = PlacesBelow(L[j])
    BY <1>1, <2>1
  <2>3. PICK k \in DOMAIN Val(c[j].node).kids : c[j + 1] = Under(c[j], Val(c[j].node).kids[k])
    BY <2>1 DEF Line
  <2> HIDE DEF S
  <2> QED
    BY <2>2, <2>3 DEF PlacesBelow, ToSet
<1>4. S \subseteq Nat /\ d \in Nat /\ d <= d
  OBVIOUS
<1> HIDE DEF S
<1>5. d \in S
  BY <1>2, <1>3, <1>4, SetInduction
<1> QED
  BY <1>1, <1>4, <1>5 DEF S

----------------------------------------------------------------------------
(* The reason for a refusal.                                               *)

Caused(p) ==
  \/ MetaFails(Val(p.node)) \/ BlobFails(Val(p.node))
  \/ hasSchemixAttr(Val(p.node)) /\ (p.role = "definition" \/ p.inElement)
  \/ p.depth > MaxDepth

\* A call looks at a place, and goes on to its children within the limit.
PlacedInv ==
  pc \in {"definitions", "rules"} =>
    \A l \in Frames :
      /\ stack[l].next >= 1 => l <= MaxDepth + 1
      /\ \E c : /\ Line(c, l - 1)
                /\ c[l - 1].node = stack[l].node /\ c[l - 1].path = stack[l].path
                /\ stack[l].fn = "findAttrInElementSchema" => c[l - 1].inElement
                /\ stack[l].fn = "extractRules" => ~ c[l - 1].inElement

RefusedInv ==
  pc = "failed" => \E d \in 0 .. MaxDepth + 1 : \E c : Line(c, d) /\ Caused(c[d])

LEMMA UnderShape ==
  ASSUME NEW p, NEW k
  PROVE  /\ Under(p, k).node = k.to /\ Under(p, k).role = k.role
         /\ Under(p, k).path = Append(p.path, k.name) /\ Under(p, k).depth = p.depth + 1
  BY DEF Under

LEMMA UnderMarks ==
  ASSUME NEW p, NEW k
  PROVE  /\ p.inElement \/ k.role \in {"element", "ellipsis"} => Under(p, k).inElement
         /\ Under(p, k).inElement => p.inElement \/ k.role \in {"element", "ellipsis"}
         /\ p.inDefinition \/ k.role = "definition" => Under(p, k).inDefinition
         /\ Under(p, k).inDefinition => p.inDefinition \/ k.role = "definition"
<1>1. /\ p.inElement \/ k.role \in {"element", "ellipsis"} => Under(p, k).inElement
      /\ Under(p, k).inElement => p.inElement \/ k.role \in {"element", "ellipsis"}
  BY Zenon DEF Under
<1>2. /\ p.inDefinition \/ k.role = "definition" => Under(p, k).inDefinition
      /\ Under(p, k).inDefinition => p.inDefinition \/ k.role = "definition"
  BY Zenon DEF Under
<1> QED
  BY <1>1, <1>2

LEMMA LineKept ==
  ASSUME source' = source, NEW c, NEW d
  PROVE  Line(c, d)' <=> Line(c, d)
BY DEF Line, RootPlace, Under, Val

\* The child an extracting or searching call has come to.
LEMMA KidPlaced ==
  ASSUME WalkInv, PlacedInv, pc \in {"definitions", "rules"}, Iterating
  PROVE  /\ Len(stack) <= MaxDepth + 1
         /\ \E c : /\ Line(c, Len(stack)) /\ c[Len(stack)].node = Kid.to
                   /\ c[Len(stack)].role = Kid.role /\ c[Len(stack)].path = KidPath
                   /\ c[Len(stack)] = Under(c[Len(stack) - 1], Kid)
                   /\ c[Len(stack) - 1].node = Top.node /\ c[Len(stack) - 1].path = Top.path
                   /\ Top.fn \in Searching => c[Len(stack)].inElement
                   /\ Top.fn = "extractRules" => ~ c[Len(stack)].inElement
<1>1. stack # << >> /\ source \in Sources /\ StackInv
  BY DEF Iterating, InWalk, WalkInv, StackInv
<1>2. PICK t \in Nat \ {0} : /\ t = Len(stack) /\ t \in Frames /\ Top = stack[t] /\ Top \in Call
                             /\ Iteration = It(t)
  BY <1>1, TopFacts
<1>3. Top.next \in 1 .. Len(Iteration) /\ Top.next >= 1 /\ Top.node \in Nodes
  BY <1>1, <1>2, KidInCall DEF Call
<1>4. PICK c : /\ Line(c, t - 1) /\ c[t - 1].node = Top.node /\ c[t - 1].path = Top.path
               /\ Top.fn = "findAttrInElementSchema" => c[t - 1].inElement
               /\ Top.fn = "extractRules" => ~ c[t - 1].inElement
  BY <1>2 DEF PlacedInv
<1>5. PICK k \in DOMAIN Val(Top.node).kids : Kid = Val(Top.node).kids[k]
  BY <1>1, <1>3, IterationFacts DEF Kid, Iteration, Here
<1>6. PICK e : Line(e, t) /\ e[t] = Under(c[t - 1], Kid) /\ e[t - 1] = c[t - 1]
  <2>1. PICK s \in Nat : s = t - 1 /\ s \in 0 .. s
    BY <1>2
  <2>3. Line(c, s) /\ k \in DOMAIN Val(c[s].node).kids /\ Kid = Val(c[s].node).kids[k]
    BY <1>4, <1>5, <2>1
  <2>4. \E e : /\ Line(e, s + 1) /\ e[s + 1] = Under(c[s], Val(c[s].node).kids[k])
               /\ e[s] = c[s]
    <3>1. PICK i \in DOMAIN Val(c[s].node).kids : i = k
      BY <2>3
    <3>2. \E e : /\ Line(e, s + 1) /\ e[s + 1] = Under(c[s], Val(c[s].node).kids[i])
                 /\ \A j \in 0 .. s : e[j] = c[j]
      BY <2>3, LineExtended
    <3> QED
      BY <2>1, <3>1, <3>2
  <2>5. PICK e : Line(e, s + 1) /\ e[s + 1] = Under(c[s], Kid) /\ e[s] = c[s]
    BY <2>3, <2>4
  <2>6. s + 1 = t /\ s = t - 1
    BY <2>1
  <2>7. Line(e, t) /\ e[t] = Under(c[t - 1], Kid) /\ e[t - 1] = c[t - 1]
    <3>1. Line(e, t) /\ e[t] = Under(c[s], Kid)
      BY <2>5, <2>6, Zenon
    <3> QED
      BY <2>5, <2>6, <3>1, Zenon
  <2> QED
    BY <2>7
<1>8. Top.fn = "findAttrInListElements" => Kid.role \in {"element", "ellipsis"}
  <2> SUFFICES ASSUME Top.fn = "findAttrInListElements" PROVE Kid.role \in {"element", "ellipsis"}
    OBVIOUS
  <2>1. \/ Iteration = KidsWith(Val(Top.node), {"ellipsis"})
        \/ Iteration = KidsWith(Val(Top.node), {"element"})
    BY DEF Iteration, Iterated, Here
  <2> QED
    BY <1>1, <1>3, <2>1, KidsFacts DEF Kid
<1>9. Top.fn \in Searching => e[t].inElement
  BY <1>4, <1>6, <1>8, UnderMarks DEF Searching
<1>10. e[t].node = Kid.to /\ e[t].role = Kid.role /\ e[t].path = KidPath
  BY <1>4, <1>6, UnderShape DEF KidPath
<1>11. t <= MaxDepth + 1
  BY <1>2, <1>3 DEF PlacedInv
<1>12. Top.fn = "extractRules" => ~ e[t].inElement
  <2> SUFFICES ASSUME Top.fn = "extractRules" PROVE ~ e[t].inElement
    OBVIOUS
  <2>1. Kid.role \in {"field", "optional"}
    BY <1>1, <1>3, IterationFacts DEF Kid, Iteration, Here, Recording
  <2>2. ~ c[t - 1].inElement /\ ~ (Kid.role \in {"element", "ellipsis"})
    BY <1>4, <2>1
  <2>3. Under(c[t - 1], Kid).inElement => c[t - 1].inElement \/ Kid.role \in {"element", "ellipsis"}
    BY UnderMarks
  <2>4. ~ Under(c[t - 1], Kid).inElement
    BY <2>2, <2>3, Zenon
  <2> QED
    BY <1>6, <2>4
<1> QED
  BY <1>2, <1>4, <1>6, <1>9, <1>10, <1>11, <1>12

LEMMA InitPlaced == Init => PlacedInv /\ RefusedInv
<1> SUFFICES ASSUME Init PROVE PlacedInv /\ RefusedInv
  OBVIOUS
<1>1. Frames = {1} /\ stack[1].node = source.root /\ stack[1].next = 0 /\ stack[1].path = << >>
      /\ stack[1].fn = "checkDefinitionAttrs" /\ pc = "definitions"
  BY DEF Init, Frames, Frame
<1> DEFINE c == [j \in {0} |-> RootPlace]
<1>2. Line(c, 1 - 1) /\ c[1 - 1].node = source.root /\ c[1 - 1].path = << >>
  BY DEF Line, RootPlace
<1> HIDE DEF c
<1> QED
  BY <1>1, <1>2 DEF PlacedInv, RefusedInv

LEMMA PlacedKept ==
  ASSUME WalkInv, PlacedInv, [Next]_vars
  PROVE  PlacedInv'
<1>1. /\ source' = source /\ StackInv
      /\ \/ Rests \/ Finish \/ Returns \/ Opens \/ Examines
         \/ Extracts \/ Compiles \/ BeginsRules \/ BeginsFields
  BY StepForms DEF WalkInv
<1>2. \A c, d : Line(c, d)' <=> Line(c, d)
  BY <1>1, LineKept
<1> DEFINE Placed(l) ==
             /\ stack[l].next >= 1 => l <= MaxDepth + 1
             /\ \E c : /\ Line(c, l - 1)
                       /\ c[l - 1].node = stack[l].node /\ c[l - 1].path = stack[l].path
                       /\ stack[l].fn = "findAttrInElementSchema" => c[l - 1].inElement
                       /\ stack[l].fn = "extractRules" => ~ c[l - 1].inElement
<1> SUFFICES ASSUME pc' \in {"definitions", "rules"}, NEW l \in Frames'
             PROVE  Placed(l)'
  BY DEF PlacedInv
<1>3. CASE Rests \/ Finish
  <2>1. stack' = stack /\ pc \in {"definitions", "rules"} /\ l \in Frames
    BY <1>3 DEF Rests, Finish, Frames
  <2> QED
    BY <1>2, <2>1 DEF PlacedInv
<1>4. CASE Returns
  <2>1. pc \in {"definitions", "rules"} /\ l \in Frames /\ stack'[l] = stack[l]
    BY <1>1, <1>4, FramesPopped DEF Returns, InWalk
  <2> QED
    BY <1>2, <2>1 DEF PlacedInv
<1>5. ASSUME stack # << >>, Passed, Top.next <= Len(Iteration), l \in Frames,
             l = Len(stack) => l <= MaxDepth + 1, pc' = pc
      PROVE  Placed(l)'
  <2>1. /\ Placed(l) /\ stack'[l].node = stack[l].node /\ stack'[l].fn = stack[l].fn
        /\ stack'[l].path = stack[l].path
    BY <1>1, <1>5, OldFrames DEF PlacedInv
  <2>2. l # Len(stack) => stack'[l] = stack[l]
    BY <1>1, <1>5, FramesPassed
  <2> QED
    BY <1>2, <1>5, <2>1, <2>2
<1>6. CASE Opens
  <2>1. stack # << >> /\ Passed /\ Frames' = Frames /\ Top.next = 0 /\ pc' = pc
    BY <1>6 DEF Opens, Calling, InWalk, Stepped, Frames
  <2>2. Len(Iteration) \in Nat
    BY <1>1, <2>1, TopFacts, IterationFacts DEF StackInv, Iteration, Here, Call
  <2>3. PICK t \in Nat : t = Len(stack) /\ t \in Frames /\ Top = stack[t]
    BY <1>1, <2>1, TopFacts
  <2>4. Top.depth = t - 1
    BY <1>1, <2>3 DEF StackInv, FrameOK
  <2>5. Top.fn # "compileCUEFields"
    BY <2>1, <2>3 DEF WalkInv, PhaseInv, Searching
  <2>6. t <= MaxDepth + 1
    BY <1>6, <2>3, <2>4, <2>5, DepthAssumption DEF Opens
  <2> QED
    BY <1>5, <2>1, <2>2, <2>3, <2>6
<1>7. CASE Examines \/ Extracts \/ Compiles
  <2> DEFINE Calls(fn) == /\ fn = "findAttrInElementSchema" => Top.fn \in Searching
                          /\ fn = "extractRules" => Top.fn = "extractRules"
  <2>1. /\ stack # << >> /\ Passed /\ Top.next <= Len(Iteration) /\ pc' = pc /\ Iterating
        /\ Stepped \/ \E fn \in Walks : Pushed(fn) /\ Calls(fn)
    <3>1. Iterating /\ stack # << >> /\ pc' = pc
      BY <1>7 DEF Examines, Extracts, Compiles, Iterating, InWalk
    <3>2. Stepped \/ \E fn \in Walks : Pushed(fn) /\ Calls(fn)
      BY <1>7 DEF Examines, Extracts, Compiles, Searching, Walks
    <3> QED
      BY <1>1, <3>1, <3>2, KidInCall DEF Stepped, Pushed
  <2>2. PICK t \in Nat : t = Len(stack)
    BY <1>1, <2>1, TopFacts
  <2>3. PICK c : /\ t <= MaxDepth + 1
                 /\ Line(c, t) /\ c[t].node = Kid.to /\ c[t].path = KidPath
                 /\ Top.fn \in Searching => c[t].inElement
                 /\ Top.fn = "extractRules" => ~ c[t].inElement
    BY <2>1, <2>2, KidPlaced
  <2>4. CASE l \in Frames
    BY <1>5, <2>1, <2>2, <2>3, <2>4
  <2>5. CASE l \notin Frames
    <3>1. PICK fn \in Walks : Pushed(fn) /\ Calls(fn)
      BY <2>1, <2>5 DEF Stepped, Frames
    <3>2. /\ l = t + 1 /\ stack'[t + 1].fn = fn /\ stack'[t + 1].next = 0
          /\ stack'[t + 1].node = Kid.to /\ stack'[t + 1].path = KidPath
      BY <1>1, <2>1, <2>2, <2>5, <3>1, FramesPushed
    <3>3. t + 1 - 1 = t
      BY <2>2
    <3> QED
      BY <1>2, <2>3, <3>1, <3>2, <3>3
  <2> QED
    BY <2>4, <2>5
<1>8. CASE BeginsRules
  <2>1. /\ l = 1 /\ stack'[1].fn = "extractRules" /\ stack'[1].next = 0
        /\ stack'[1].node = source.root /\ stack'[1].path = << >>
    BY <1>8, OpenedFrame DEF BeginsRules
  <2> DEFINE c == [j \in {0} |-> RootPlace]
  <2>2. /\ Line(c, 1 - 1) /\ c[1 - 1].node = source.root /\ c[1 - 1].path = << >>
        /\ ~ c[1 - 1].inElement
    BY DEF Line, RootPlace
  <2> HIDE DEF c
  <2> QED
    BY <1>2, <2>1, <2>2
<1>9. CASE BeginsFields
  BY <1>9 DEF BeginsFields
<1> QED
  BY <1>1, <1>3, <1>4, <1>6, <1>7, <1>8, <1>9

LEMMA RefusedKept ==
  ASSUME WalkInv, PlacedInv, RefusedInv, [Next]_vars
  PROVE  RefusedInv'
<1>1. source' = source
  BY StepForms
<1>2. /\ \A c, d : Line(c, d)' <=> Line(c, d)
      /\ \A c, d : Caused(c[d])' <=> Caused(c[d])
  <2>1. \A v : hasSchemixAttr(v)' <=> hasSchemixAttr(v)
    BY DEF hasSchemixAttr
  <2>2. \A x : Val(x)' = Val(x)
    BY <1>1 DEF Val
  <2> QED
    BY <1>1, <2>1, <2>2, LineKept DEF Caused
<1> SUFFICES ASSUME pc' = "failed", pc # "failed"
             PROVE  \E d \in 0 .. MaxDepth + 1 : \E c : Line(c, d) /\ Caused(c[d])
  BY <1>1, <1>2 DEF RefusedInv
<1>3. \/ RejectCall \/ RejectField
      \/ CheckDefinition /\ Kid.role = "definition" /\ hasSchemixAttr(KidValue)
      \/ SearchElementField /\ hasSchemixAttr(KidValue)
  BY DEF Next, Step, RejectCall, ReturnAtOnce, OpenFields, ReturnAtEnd, CheckDefinition, RejectField,
         ExtractField, SearchElement, SearchElementField, CompileField, ExtractRules, SortAndCompile,
         Finish, Ended, vars, StartWalk, Return
<1>4. InWalk /\ stack # << >> /\ StackInv
  BY <1>3 DEF RejectCall, RejectField, CheckDefinition, SearchElementField, Calling, Iterating,
              InWalk, WalkInv
<1>5. PICK t \in Nat \ {0} : t = Len(stack) /\ t \in Frames /\ Top = stack[t] /\ Frames = 1 .. t
                            /\ \A l \in 1 .. t : stack[l] \in Call
  BY <1>4, TopFacts DEF Frames
<1>6. pc \in {"definitions", "rules"}
  <2>1. Top.fn # "compileCUEFields"
    BY <1>3 DEF RejectCall, Outcome, RejectField, CheckDefinition, SearchElementField
  <2> QED
    BY <1>4, <1>5, <2>1 DEF InWalk, WalkInv, PhaseInv
<1>7. CASE RejectCall
  <2>1. PICK d \in Nat : d = t - 1 /\ Top.depth = d /\ d \in 0 .. MaxDepth + 1
    <3>1. Top.depth = t - 1 /\ t - 1 \in Nat
      BY <1>4, <1>5 DEF StackInv, FrameOK
    <3>2. t - 1 <= MaxDepth + 1
      <4>1. CASE t = 1
        BY <4>1, DepthAssumption
      <4>2. CASE t # 1
        <5>1. t - 1 \in Frames /\ t - 1 < t /\ t - 1 \in 1 .. t
          BY <1>5, <4>2
        <5>2. Above(t - 1, t)
          BY <1>4, <1>5, <5>1 DEF StackInv
        <5>3. stack[t - 1].next >= 2 /\ stack[t - 1].next \in Nat
          BY <1>5, <5>1, <5>2 DEF Above, Call
        <5>4. stack[t - 1].next >= 1
          BY <5>3
        <5> QED
          BY <1>6, <5>1, <5>4 DEF PlacedInv
      <4> QED
        BY <4>1, <4>2
    <3> QED
      BY <3>1, <3>2, DepthAssumption
  <2>2. PICK c : /\ Line(c, d) /\ c[d].node = Top.node
                 /\ Top.fn = "findAttrInElementSchema" => c[d].inElement
    BY <1>5, <1>6, <2>1 DEF PlacedInv
  <2>3. c[d].depth = d
    BY <1>4, <2>1, <2>2, LineFacts DEF StackInv
  <2>4. Top.depth > MaxDepth \/ (Top.fn = "findAttrInElementSchema" /\ hasSchemixAttr(Here))
    BY <1>7 DEF RejectCall, Outcome
  <2> QED
    BY <2>1, <2>2, <2>3, <2>4 DEF Caused, Here
<1>8. CASE ~ RejectCall
  <2>1. Iterating
    BY <1>3, <1>8 DEF RejectField, CheckDefinition, SearchElementField
  <2>2. PICK c : /\ t <= MaxDepth + 1
                 /\ Line(c, t) /\ c[t].node = Kid.to /\ c[t].role = Kid.role
                 /\ Top.fn \in Searching => c[t].inElement
    BY <1>5, <1>6, <2>1, KidPlaced
  <2>3. t \in 0 .. MaxDepth + 1
    BY <1>5, <2>2, DepthAssumption
  <2>4. \/ MetaFails(KidValue) \/ BlobFails(KidValue)
        \/ hasSchemixAttr(KidValue) /\ (Kid.role = "definition" \/ Top.fn \in Searching)
    BY <1>3, <1>8 DEF RejectField, SearchElementField, Searching
  <2>5. Val(c[t].node) = KidValue
    BY <2>2 DEF KidValue
  <2>6. Caused(c[t])
    BY <2>2, <2>4, <2>5 DEF Caused
  <2> QED
    BY <2>2, <2>3, <2>6
<1> QED
  BY <1>7, <1>8

\* New gives up only where the schema has something to answer for at a place one
\* can point to: an argument or expression that does not parse, an attribute
\* where none is extracted, or a nesting past the limit.  The element schemas
\* that findAttrInElementSchema searches are never taken for plain fields.
THEOREM RefusalsHaveACause == Spec => []RefusedForCause
<1>1. RefusedInv => RefusedForCause
  <2> SUFFICES ASSUME pc = "failed", RefusedInv PROVE \E p \in Places : Caused(p)
    BY DEF RefusedForCause, Caused
  <2>1. PICK d \in 0 .. MaxDepth + 1 : \E c : Line(c, d) /\ Caused(c[d])
    BY DEF RefusedInv
  <2>2. PICK c : Line(c, d) /\ Caused(c[d])
    BY <2>1
  <2> QED
    BY <2>2, LineEndsInPlace
<1>2. IInv => WalkInv
  BY DEF IInv
<1>3. Spec => [](IInv /\ PlacedInv /\ RefusedInv)
  BY <1>2, InitIInv, InitPlaced, NextIInv, PlacedKept, RefusedKept, PTL DEF Spec
<1> QED
  BY <1>1, <1>3, PTL

----------------------------------------------------------------------------
(* The two readings of a priority.                                         *)

\* The path of a place begins with the paths of the places above it.
LEMMA LinePath ==
  ASSUME source \in Sources, NEW d \in Nat, NEW c, Line(c, d)
  PROVE  \A j \in 0 .. d : \A i \in 1 .. j : c[d].path[i] = c[j].path[i]
<1> DEFINE S == {j \in Nat : j <= d => \A h \in 0 .. j : \A i \in 1 .. h : c[j].path[i] = c[h].path[i]}
<1>1. 0 \in S
  OBVIOUS
<1>2. ASSUME NEW j \in S
      PROVE  j + 1 \in S
  <2> SUFFICES ASSUME j + 1 <= d, NEW h \in 0 .. j + 1, NEW i \in 1 .. h
               PROVE  c[j + 1].path[i] = c[h].path[i]
    OBVIOUS
  <2>1. j \in Nat /\ j <= d /\ j + 1 \in 1 .. d /\ j + 1 - 1 = j /\ j \in 0 .. d
    OBVIOUS
  <2>2. Line(c, j) /\ c[j].path \in Seq(STRING) /\ Len(c[j].path) = j
    BY <2>1, LinePrefix, LineFacts
  <2>3. Line(c, j + 1) /\ c[j + 1].path \in Seq(STRING) /\ Len(c[j + 1].path) = j + 1
    <3>1. PICK m \in 0 .. d : m = j + 1 /\ m \in Nat
      BY <2>1
    <3>2. Line(c, m)
      BY <3>1, LinePrefix
    <3> QED
      BY <3>1, <3>2, LineFacts
  <2>4. PICK k \in DOMAIN Val(c[j].node).kids : c[j + 1] = Under(c[j], Val(c[j].node).kids[k])
    BY <2>1 DEF Line
  <2>5. PICK name : c[j + 1].path = Append(c[j].path, name)
    <3>1. PICK kid : c[j + 1] = Under(c[j], kid)
      BY <2>4
    <3>2. Under(c[j], kid).path = Append(c[j].path, kid.name)
      BY DEF Under
    <3>3. c[j + 1].path = Append(c[j].path, kid.name)
      BY <3>1, <3>2
    <3> HIDE DEF S
    <3> QED
      BY <3>3, Zenon
  <2>6. CASE h = j + 1
    BY <2>6
  <2>7. CASE h # j + 1
    <3>1. h \in 0 .. j /\ i \in 1 .. j
      BY <2>1, <2>7
    <3>2. c[j].path[i] = c[h].path[i]
      BY <2>1, <3>1
    <3>3. c[j + 1].path[i] = c[j].path[i]
      BY <2>2, <2>5, <3>1
    <3> QED
      BY <3>2, <3>3
  <2> QED
    BY <2>6, <2>7
<1>3. S \subseteq Nat /\ d <= d
  OBVIOUS
<1> HIDE DEF S
<1>4. d \in S
  BY <1>1, <1>2, <1>3, SetInduction
<1> QED
  BY <1>3, <1>4 DEF S

\* A place with the path of a trail has the node the trail leads to.
LEMMA LineOnTrail ==
  ASSUME source \in Sources, NEW d \in Nat, NEW c, Line(c, d), NEW n, Trail(c[d].path, n)
  PROVE  c[d].node = n[Len(c[d].path)]
<1>0. PICK q : q = c[d].path
  OBVIOUS
<1> DEFINE S == {j \in Nat : j <= d => c[j].node = n[j]}
<1>1. 0 \in S
  BY <1>0 DEF Line, RootPlace, Trail
<1>2. ASSUME NEW j \in S
      PROVE  j + 1 \in S
  <2> SUFFICES ASSUME j + 1 <= d PROVE c[j + 1].node = n[j + 1]
    OBVIOUS
  <2>1. j \in Nat /\ j <= d /\ j + 1 \in 1 .. d /\ j + 1 - 1 = j /\ j < d /\ j + 1 \in 0 .. d
    OBVIOUS
  <2>2. Len(q) = d /\ Trail(q, n)
    BY <1>0, LineFacts
  <2>3. Line(c, j) /\ c[j].path \in Seq(STRING) /\ Len(c[j].path) = j
    BY <2>1, LinePrefix, LineFacts
  <2>4. Linked(n[j], q[j + 1], n[j + 1]) /\ n[j] \in Nodes /\ c[j].node = n[j]
    BY <2>1, <2>2, TrailStep
  <2>5. PICK k \in DOMAIN Val(n[j]).kids : c[j + 1] = Under(c[j], Val(n[j]).kids[k])
    BY <2>1, <2>4 DEF Line
  <2>6. PICK kid \in Child : kid = Val(n[j]).kids[k]
    <3>1. Val(n[j]).kids \in Seq(Child)
      BY <2>4, NodeFacts
    <3> QED
      BY <3>1, ElementOfSeq, LenProperties
  <2>7. c[j + 1].node = kid.to /\ c[j + 1].path = Append(c[j].path, kid.name)
    <3>1. /\ Under(c[j], kid).node = kid.to
          /\ Under(c[j], kid).path = Append(c[j].path, kid.name)
      BY UnderShape, Zenon
    <3> QED
      BY <2>5, <2>6, <3>1
  <2>8. c[j + 1].path[j + 1] = kid.name
    <3>1. kid.name \in STRING
      BY DEF Child
    <3> QED
      BY <2>3, <2>7, <3>1, AppendProperties
  <2>9. q[j + 1] = kid.name
    <3>1. j + 1 \in 1 .. j + 1
      BY <2>1
    <3> QED
      BY <1>0, <2>1, <2>8, <3>1, LinePath
  <2>10. \A l, m \in DOMAIN Val(n[j]).kids :
           Val(n[j]).kids[l].name = Val(n[j]).kids[m].name => l = m
    BY <2>4, NodeFacts
  <2> HIDE DEF S
  <2> QED
    BY <2>4, <2>6, <2>7, <2>9, <2>10 DEF Linked
<1>3. S \subseteq Nat /\ d <= d
  OBVIOUS
<1> HIDE DEF S
<1>4. d \in S
  BY <1>1, <1>2, <1>3, SetInduction
<1>5. c[d].node = n[d]
  BY <1>3, <1>4 DEF S
<1> QED
  BY <1>5, LineFacts

LEMMA OnePriority ==
  ASSUME source \in Sources, NEW x \in Nodes, ~ MetaFails(Val(x)),
         Cardinality(Priorities(Val(x))) <= 1
  PROVE  LastPriority(Val(x)) = extractFieldPriority(Val(x))
<1> DEFINE a == Args(Val(x))
           K == Priorities(Val(x))
           G == {i \in K : a[i].value = "good"}
<1>1. /\ a \in Seq(Arg) /\ Len(a) \in Nat /\ DOMAIN a = 1 .. Len(a)
      /\ \A i \in 1 .. Len(a) : a[i] \in Arg
  BY ArgsTyped, LenProperties, ElementOfSeq
<1>2. K \in SUBSET DOMAIN a
  BY DEF Priorities, Given
<1>3. IsFiniteSet(DOMAIN a) /\ DOMAIN a \subseteq Int
  BY <1>1, FS_Interval
<1>4. IsFiniteSet(K) /\ K \in SUBSET Int
  BY <1>2, <1>3, FS_Subset
<1>5. ASSUME NEW i \in K
      PROVE  a[i].value = "good"
  <2>1. a[i].key = "priority" /\ ~ a[i].whole /\ a[i].value # "empty" /\ i \in DOMAIN a
    BY Zenon DEF Priorities, Given
  <2>2. a[i].value \in {"empty", "good", "bad"}
    BY <1>1, <2>1 DEF Arg
  <2>3. ~ (a[i].key = "priority" /\ ~ a[i].whole /\ a[i].value = "bad")
    BY <2>1, Zenon DEF MetaFails
  <2> QED
    BY <2>1, <2>2, <2>3, Zenon
<1>6. G = K
  BY <1>5
<1>7. LastPriority(Val(x)) = IF K = {} THEN 0 ELSE a[Max(K)].n
  BY DEF LastPriority
<1>8. extractFieldPriority(Val(x)) = IF G = {} THEN 0 ELSE a[Min(G)].n
  BY DEF extractFieldPriority
<1> HIDE DEF a, K, G
<1>9. CASE K = {}
  BY <1>6, <1>7, <1>8, <1>9
<1>10. CASE K # {}
  <2>1. Max(K) \in K /\ Min(K) \in K
    BY <1>4, <1>10, ExtremesIn
  <2>2. Cardinality(K) = 1
    <3>1. Cardinality(K) <= 1
      BY DEF K
    <3>2. Cardinality(K) \in Nat /\ Cardinality(K) # 0
      BY <1>4, <1>10, FS_CardinalityType, FS_EmptySet
    <3> QED
      BY <3>1, <3>2
  <2>3. PICK i : K = {i}
    BY <1>4, <2>2, FS_Singleton
  <2>4. Max(K) = Min(K)
    BY <2>1, <2>3
  <2> QED
    BY <1>6, <1>7, <1>8, <1>10, <2>4
<1> QED
  BY <1>9, <1>10

\* Rules and descriptors carry the priorities of the value their path leads to.
ValueInv ==
  /\ \A k \in DOMAIN rules : \E n :
       /\ Trail(rules[k].path, n)
       /\ ~ MetaFails(Val(n[Len(rules[k].path)]))
       /\ rules[k].meta.priority = LastPriority(Val(n[Len(rules[k].path)]))
  /\ \A k \in DOMAIN fields : \E n :
       /\ Trail(fields[k].path, n)
       /\ fields[k].priority = extractFieldPriority(Val(n[Len(fields[k].path)]))

LEMMA ValueKept ==
  ASSUME IInv, ValueInv, [Next]_vars
  PROVE  ValueInv'
<1>0. WalkInv /\ rules \in Seq(Rule) /\ fields \in Seq(Field)
  BY DEF IInv, RulesInv, FieldsInv
<1>1. /\ source' = source
      /\ \/ Rests \/ Finish \/ Returns \/ Opens \/ Examines
         \/ Extracts \/ Compiles \/ BeginsRules \/ BeginsFields
  BY <1>0, StepForms
<1> DEFINE ReadAs(r) == \E n : /\ Trail(r.path, n) /\ ~ MetaFails(Val(n[Len(r.path)]))
                               /\ r.meta.priority = LastPriority(Val(n[Len(r.path)]))
           CompiledAs(f) == \E n : /\ Trail(f.path, n)
                                   /\ f.priority = extractFieldPriority(Val(n[Len(f.path)]))
<1>2. \A p, n : Trail(p, n)' <=> Trail(p, n)
  BY <1>1, TrailKept
<1>3. \A x : Val(x)' = Val(x)
  BY <1>1 DEF Val
<1>4. SUFFICES (\A k \in DOMAIN rules' : ReadAs(rules'[k])) /\ (\A k \in DOMAIN fields' : CompiledAs(fields'[k]))
  BY <1>2, <1>3 DEF ValueInv
<1>5. (\A k \in DOMAIN rules : ReadAs(rules[k])) /\ (\A k \in DOMAIN fields : CompiledAs(fields[k]))
  BY DEF ValueInv
<1> HIDE DEF ReadAs, CompiledAs
<1>6. CASE Rests \/ Finish \/ Returns \/ Opens \/ Examines \/ BeginsRules
  BY <1>5, <1>6 DEF Rests, Finish, Returns, Opens, Examines, BeginsRules
<1>7. ASSUME Extracts \/ Compiles
      PROVE  \E q : \E n : /\ q = KidPath /\ Trail(q, n) /\ Val(n[Len(q)]) = KidValue
  <2>1. PICK n : Trail(KidPath, n) /\ n[Len(stack)] = Kid.to
    BY <1>0, <1>7, KidHasTrail
  <2>2. Len(KidPath) = Len(stack)
    BY <1>0, <1>7, KidInCall DEF Extracts, Compiles, Iterating, InWalk, WalkInv
  <2> QED
    BY <2>1, <2>2 DEF KidValue
<1>8. CASE Extracts
  <2>1. PICK q : \E n : q = KidPath /\ Trail(q, n) /\ Val(n[Len(q)]) = KidValue
    BY <1>7, <1>8
  <2>2. PICK n : q = KidPath /\ Trail(q, n) /\ Val(n[Len(q)]) = KidValue
    BY <2>1
  <2>3. PICK m : /\ m.priority = LastPriority(KidValue)
                 /\ \A k \in DOMAIN rules' \ DOMAIN rules : rules'[k].path = q /\ rules'[k].meta = m
    BY <1>0, <1>8, <2>2, RulesAppended
  <2>4. fields' = fields /\ ~ MetaFails(KidValue) /\ \A k \in DOMAIN rules : rules'[k] = rules[k]
    BY <1>0, <1>8, RulesAppended DEF Extracts
  <2>5. ASSUME NEW k \in DOMAIN rules'
        PROVE  ReadAs(rules'[k])
    <3>1. CASE k \in DOMAIN rules
      BY <1>5, <2>4, <3>1
    <3>2. CASE k \notin DOMAIN rules
      BY <2>2, <2>3, <2>4, <3>2 DEF ReadAs
    <3> QED
      BY <3>1, <3>2
  <2> QED
    BY <1>5, <2>4, <2>5
<1>9. CASE Compiles
  <2>1. PICK q : \E n : q = KidPath /\ Trail(q, n) /\ Val(n[Len(q)]) = KidValue
    BY <1>7, <1>9
  <2>2. PICK n : q = KidPath /\ Trail(q, n) /\ Val(n[Len(q)]) = KidValue
    BY <2>1
  <2>3. PICK c \in Nat : c = Len(fields)
    BY <1>0, LenProperties
  <2>4. /\ rules' = rules /\ DOMAIN fields = 1 .. c /\ DOMAIN fields' = 1 .. c + 1
        /\ \A k \in 1 .. c : fields'[k] = fields[k]
        /\ fields'[c + 1].path = q /\ fields'[c + 1].priority = extractFieldPriority(KidValue)
    BY <1>0, <1>9, <2>2, <2>3, FieldAppended DEF Compiles
  <2>5. CompiledAs(fields'[c + 1])
    BY <2>2, <2>4 DEF CompiledAs
  <2>6. \A k \in DOMAIN fields' : k \in 1 .. c \/ k = c + 1
    BY <2>4
  <2> QED
    BY <1>5, <2>4, <2>5, <2>6
<1>10. CASE BeginsFields
  <2>1. fields' = fields /\ \A k \in DOMAIN rules' : \E j \in DOMAIN rules : rules'[k] = rules[j]
    BY <1>0, <1>10, RulesSorted DEF BeginsFields
  <2> QED
    BY <1>5, <2>1
<1> QED
  BY <1>1, <1>6, <1>8, <1>9, <1>10

\* parsefieldMeta takes the last argument that converts and extractFieldPriority
\* the first; where @meta gives a priority once, however it is written, the rules
\* of a field and its descriptor agree on it, so narrowing compares like with like.
THEOREM PrioritiesAgree == Spec => []PriorityReadAlike
<1>1. IInv /\ ValueInv => PriorityReadAlike
  <2> SUFFICES ASSUME IInv, ValueInv, pc = "done", NEW p \in Places,
                      Cardinality(Priorities(Val(p.node))) <= 1,
                      NEW j \in DOMAIN rules, NEW k \in DOMAIN fields,
                      rules[j].path = p.path, fields[k].path = p.path
               PROVE  rules[j].meta.priority = fields[k].priority
    BY DEF PriorityReadAlike
  <2>1. source \in Sources
    BY DEF IInv, WalkInv, StackInv
  <2>2. PICK d \in 0 .. MaxDepth + 1 : \E c : Line(c, d) /\ c[d] = p
    BY PlaceHasLine
  <2>3. PICK c : Line(c, d) /\ c[d] = p
    BY <2>2
  <2>4. d \in Nat /\ p.node \in Nodes
    BY <2>1, <2>3, LineFacts
  <2>5. PICK n : /\ Trail(p.path, n) /\ ~ MetaFails(Val(n[Len(p.path)]))
                 /\ rules[j].meta.priority = LastPriority(Val(n[Len(p.path)]))
    BY DEF ValueInv
  <2>6. PICK m : /\ Trail(p.path, m)
                 /\ fields[k].priority = extractFieldPriority(Val(m[Len(p.path)]))
    BY DEF ValueInv
  <2>7. p.node = n[Len(p.path)] /\ p.node = m[Len(p.path)]
    BY <2>1, <2>3, <2>4, <2>5, <2>6, LineOnTrail
  <2> QED
    BY <2>1, <2>4, <2>5, <2>6, <2>7, OnePriority
<1>2. Init => ValueInv
  BY DEF Init, ValueInv
<1>3. Spec => [](IInv /\ ValueInv)
  BY <1>2, InitIInv, NextIInv, ValueKept, PTL DEF Spec
<1> QED
  BY <1>1, <1>3, PTL

----------------------------------------------------------------------------
(* What the walks leave out.                                               *)

\* Analysable, of the places there are lines to.
Clear ==
  /\ IsStruct(Val(source.root))
  /\ \A d \in 0 .. MaxDepth + 1 : \A c : Line(c, d) => Understood(c[d])

LEMMA ClearKept ==
  ASSUME source' = source
  PROVE  Clear' <=> Clear
<1>1. \A c, d : Line(c, d)' <=> Line(c, d)
  BY LineKept
<1>2. \A x : Val(x)' = Val(x)
  BY DEF Val
<1>3. \A p : Understood(p)' <=> Understood(p)
  BY <1>2 DEF Understood
<1> QED
  BY <1>1, <1>2, <1>3 DEF Clear

LEMMA AnalysableIsClear ==
  ASSUME Analysable
  PROVE  Clear
BY LineEndsInPlace DEF Analysable, Clear

\* A child of that name leads from one place of a line to the next.
Continues(c, j, name) ==
  \E k \in DOMAIN Val(c[j].node).kids :
    LET kid == Val(c[j].node).kids[k]
    IN  /\ kid \in Child /\ c[j + 1] = Under(c[j], kid)
        /\ kid.role \in RoleIn(Val(c[j].node).kind)
        /\ name = kid.name

LEMMA LineStep ==
  ASSUME source \in Sources, NEW d \in Nat, NEW c, Line(c, d), NEW j \in Nat, j < d
  PROVE  c[j].node \in Nodes /\ Continues(c, j, c[d].path[j + 1])
<1>1. j \in 0 .. d /\ j + 1 \in 1 .. d /\ j + 1 \in 0 .. d /\ j + 1 - 1 = j /\ j + 1 \in Nat
  OBVIOUS
<1>2. Line(c, j) /\ c[j].node \in Nodes /\ c[j].path \in Seq(STRING) /\ Len(c[j].path) = j
  BY <1>1, LinePrefix, LineFacts
<1>3. PICK k \in DOMAIN Val(c[j].node).kids : c[j + 1] = Under(c[j], Val(c[j].node).kids[k])
  <2>1. \E k \in DOMAIN Val(c[j + 1 - 1].node).kids :
          c[j + 1] = Under(c[j + 1 - 1], Val(c[j + 1 - 1].node).kids[k])
    BY <1>1 DEF Line
  <2> QED
    BY <1>1, <2>1
<1>4. PICK kid \in Child : kid = Val(c[j].node).kids[k]
  <2>1. Val(c[j].node).kids \in Seq(Child)
    BY <1>2, NodeFacts
  <2> QED
    BY <2>1, ElementOfSeq, LenProperties
<1>5. kid.role \in RoleIn(Val(c[j].node).kind)
  BY <1>2, <1>4, SourceAssumption DEF Val, Nodes
<1>6. c[j + 1].path = Append(c[j].path, kid.name) /\ kid.name \in STRING
  <2>1. Under(c[j], kid).path = Append(c[j].path, kid.name)
    BY UnderShape, Zenon
  <2> QED
    BY <1>3, <1>4, <2>1 DEF Child
<1>7. c[j + 1].path[j + 1] = kid.name
  BY <1>2, <1>6, AppendProperties
<1>8. c[d].path[j + 1] = c[j + 1].path[j + 1]
  <2>1. j + 1 \in 1 .. j + 1
    BY <1>1
  <2> QED
    BY <1>1, <2>1, LinePath
<1> QED
  BY <1>2, <1>3, <1>4, <1>5, <1>7, <1>8 DEF Continues

\* A path leads to one place.
LEMMA LineUnique ==
  ASSUME source \in Sources, NEW d \in Nat, NEW c, NEW e, Line(c, d), Line(e, d),
         c[d].path = e[d].path
  PROVE  \A j \in 0 .. d : c[j] = e[j]
<1> DEFINE S == {j \in Nat : j <= d => c[j] = e[j]}
<1>1. 0 \in S
  BY DEF Line
<1>2. ASSUME NEW j \in S
      PROVE  j + 1 \in S
  <2> SUFFICES ASSUME j + 1 <= d PROVE c[j + 1] = e[j + 1]
    OBVIOUS
  <2>1. j \in Nat /\ j < d /\ c[j] = e[j]
    OBVIOUS
  <2> HIDE DEF S
  <2>2. c[j].node \in Nodes
    BY <2>1, LineStep DEF Continues
  <2>3. PICK k \in DOMAIN Val(c[j].node).kids :
          /\ c[j + 1] = Under(c[j], Val(c[j].node).kids[k])
          /\ c[d].path[j + 1] = Val(c[j].node).kids[k].name
    BY <2>1, LineStep DEF Continues
  <2>4. PICK l \in DOMAIN Val(e[j].node).kids :
          /\ e[j + 1] = Under(e[j], Val(e[j].node).kids[l])
          /\ e[d].path[j + 1] = Val(e[j].node).kids[l].name
    BY <2>1, LineStep DEF Continues
  <2>5. k = l
    BY <2>1, <2>2, <2>3, <2>4, NodeFacts
  <2> QED
    BY <2>1, <2>3, <2>4, <2>5
<1>3. S \subseteq Nat
  OBVIOUS
<1> HIDE DEF S
<1>4. \A j \in 0 .. d : j \in S /\ j <= d
  BY <1>1, <1>2, <1>3, SetInduction
<1> QED
  BY <1>4 DEF S

\* A place inside a definition or an element schema has all below it inside too.
LEMMA LineMarks ==
  ASSUME source \in Sources, NEW d \in Nat, NEW c, Line(c, d), NEW i \in 0 .. d
  PROVE  /\ c[i].inElement => c[d].inElement
         /\ c[i].inDefinition => c[d].inDefinition
         /\ i >= 1 /\ c[i].role = "definition" => c[d].inDefinition
         /\ i >= 1 /\ c[i].role \in {"element", "ellipsis"} => c[d].inElement
<1> DEFINE Kept(j) == /\ c[i].inElement => c[j].inElement
                      /\ c[i].inDefinition => c[j].inDefinition
           S == {j \in Nat : i <= j /\ j <= d => Kept(j)}
<1>1. 0 \in S
  <2>1. i <= 0 => i = 0
    OBVIOUS
  <2> QED
    BY <2>1
<1>2. ASSUME NEW j \in S
      PROVE  j + 1 \in S
  <2> SUFFICES ASSUME i <= j + 1, j + 1 <= d PROVE Kept(j + 1)
    OBVIOUS
  <2>1. CASE i = j + 1
    BY <2>1
  <2>2. CASE i # j + 1
    <3>1. j \in Nat /\ j < d /\ i <= j /\ j <= d
      BY <2>2
    <3>2. Kept(j)
      BY <3>1
    <3> HIDE DEF S
    <3>3. PICK kid : c[j + 1] = Under(c[j], kid)
      BY <3>1, LineStep DEF Continues
    <3>4. (c[j].inElement => c[j + 1].inElement) /\ (c[j].inDefinition => c[j + 1].inDefinition)
      <4>1. /\ c[j].inElement => Under(c[j], kid).inElement
            /\ c[j].inDefinition => Under(c[j], kid).inDefinition
        BY UnderMarks, Zenon
      <4> QED
        BY <3>3, <4>1
    <3> QED
      BY <3>2, <3>4
  <2> QED
    BY <2>1, <2>2
<1>3. S \subseteq Nat /\ i <= d /\ d <= d /\ i \in Nat
  OBVIOUS
<1> HIDE DEF S
<1>4. d \in S
  BY <1>1, <1>2, <1>3, SetInduction
<1>5. Kept(d)
  BY <1>3, <1>4 DEF S
<1>6. i >= 1 => /\ c[i].role = "definition" => c[i].inDefinition
                /\ c[i].role \in {"element", "ellipsis"} => c[i].inElement
  <2> SUFFICES ASSUME i >= 1
               PROVE  /\ c[i].role = "definition" => c[i].inDefinition
                      /\ c[i].role \in {"element", "ellipsis"} => c[i].inElement
    OBVIOUS
  <2>1. PICK j \in Nat : j + 1 = i /\ j < d
    <3>1. i - 1 \in Nat /\ i - 1 + 1 = i /\ i - 1 < d
      OBVIOUS
    <3> QED
      BY <3>1
  <2>2. PICK kid : c[j + 1] = Under(c[j], kid)
    BY <2>1, LineStep DEF Continues
  <2>3. /\ Under(c[j], kid).role = kid.role
        /\ kid.role = "definition" => Under(c[j], kid).inDefinition
        /\ kid.role \in {"element", "ellipsis"} => Under(c[j], kid).inElement
    BY UnderShape, UnderMarks, Zenon
  <2> QED
    BY <2>1, <2>2, <2>3
<1> QED
  BY <1>5, <1>6

\* Which children the calls of each function iterate.
LEMMA IteratedRoles ==
  ASSUME source \in Sources, NEW fn \in Walks, NEW x \in Nodes
  PROVE  LET it == Iterated(fn, Val(x))
             kids == Val(x).kids
         IN  /\ fn # "findAttrInListElements" => \A i \in 1 .. Len(it) :
                  it[i].role \in {"field", "optional", "definition"}
             /\ \A k \in DOMAIN kids :
                  \/ kids[k].role \in {"field", "optional"} /\ fn # "findAttrInListElements"
                  \/ kids[k].role = "definition" /\ fn = "checkDefinitionAttrs"
                  \/ /\ kids[k].role \in {"element", "ellipsis"} /\ fn = "findAttrInListElements"
                     /\ ~ \E j, l \in DOMAIN kids : kids[j].role = "element" /\ kids[l].role = "ellipsis"
                  => \E i \in 1 .. Len(it) : it[i] = kids[k]
<1> DEFINE it == Iterated(fn, Val(x))
           kids == Val(x).kids
<1>1. CASE fn = "checkDefinitionAttrs"
  <2>1. it = KidsWith(Val(x), {"field", "optional", "definition"})
    BY <1>1 DEF Iterated
  <2> QED
    BY <1>1, <2>1, KidsFacts
<1>2. CASE fn \notin {"checkDefinitionAttrs", "findAttrInListElements"}
  <2>1. it = KidsWith(Val(x), {"field", "optional"})
    BY <1>2 DEF Iterated
  <2> QED
    BY <1>2, <2>1, KidsFacts
<1>3. CASE fn = "findAttrInListElements"
  <2>1. it = IF KidsWith(Val(x), {"ellipsis"}) # << >> THEN KidsWith(Val(x), {"ellipsis"})
             ELSE KidsWith(Val(x), {"element"})
    BY <1>3 DEF Iterated
  <2>2. ASSUME NEW k \in DOMAIN kids, kids[k].role \in {"element", "ellipsis"},
               ~ \E j, l \in DOMAIN kids : kids[j].role = "element" /\ kids[l].role = "ellipsis"
        PROVE  \E i \in 1 .. Len(it) : it[i] = kids[k]
    <3>1. CASE kids[k].role = "ellipsis"
      <4>0. PICK e : e = KidsWith(Val(x), {"ellipsis"})
        OBVIOUS
      <4>1. e \in Seq(Child) /\ Len(e) \in Nat /\ \E i \in 1 .. Len(e) : e[i] = kids[k]
        BY <3>1, <4>0, KidsFacts
      <4>2. e # << >>
        BY <4>1
      <4> QED
        BY <2>1, <4>0, <4>1, <4>2
    <3>2. CASE kids[k].role = "element"
      <4>0. PICK e : e = KidsWith(Val(x), {"ellipsis"})
        OBVIOUS
      <4>1. /\ e \in Seq(Child) /\ Len(e) \in Nat
            /\ \A i \in 1 .. Len(e) : e[i].role = "ellipsis" /\ \E l \in DOMAIN kids : e[i] = kids[l]
        BY <4>0, KidsFacts
      <4>2. \A i \in 1 .. Len(e) : FALSE
        BY <2>2, <3>2, <4>1
      <4>3. Len(e) = 0
        BY <4>1, <4>2
      <4>4. e = << >>
        BY <4>1, <4>3, EmptySeq
      <4>5. it = KidsWith(Val(x), {"element"})
        BY <2>1, <4>0, <4>4
      <4> QED
        BY <3>2, <4>5, KidsFacts
    <3> QED
      BY <2>2, <3>1, <3>2
  <2> QED
    BY <1>3, <2>2
<1> QED
  BY <1>1, <1>2, <1>3

\* A call that is to come to the place c[d] or to one above it.
Coming(c, d) ==
  \E l \in Frames :
    /\ l <= d /\ stack[l].node = c[l - 1].node /\ stack[l].path = c[l - 1].path
    /\ \E i \in Pending(l) : c[l] = Under(c[l - 1], It(l)[i])

\* The child just passed is entered for whatever the phase looks at below it.
LEMMA KidEntered ==
  ASSUME WalkInv, pc \in {"definitions", "rules"}, Examines \/ Extracts,
         KidValue.nullable => KidValue.kind = "scalar",
         Kid.role \in {"element", "ellipsis"} => KidValue.kind # "list",
         ~ \E j, l \in DOMAIN KidValue.kids :
             KidValue.kids[j].role = "element" /\ KidValue.kids[l].role = "ellipsis",
         NEW k \in DOMAIN KidValue.kids, NEW role, role = KidValue.kids[k].role,
         role \in RoleIn(KidValue.kind),
         pc = "definitions" => role \notin {"element", "ellipsis"},
         pc = "rules" => role # "definition"
  PROVE  \E fn \in Walks : /\ Pushed(fn)
                           /\ \E i \in 1 .. Len(Iterated(fn, KidValue)) :
                                Iterated(fn, KidValue)[i] = KidValue.kids[k]
<1>1. Iterating /\ stack # << >> /\ source \in Sources /\ StackInv
  BY DEF Examines, Extracts, Iterating, InWalk, WalkInv, StackInv
<1>2. Kid.to \in Nodes /\ KidValue = Val(Kid.to) /\ Top \in Call
  BY <1>1, KidInCall, TopFacts DEF Child, KidValue
<1>3. KidValue.kind \in {"struct", "list"} /\ ~ KidValue.nullable
  <2>1. KidValue.kind \in {"struct", "list"}
    BY DEF RoleIn
  <2> QED
    BY <2>1
<1>4. \A fn \in Walks : /\ Iterated(fn, KidValue) = Iterated(fn, Val(Kid.to))
                        /\ KidValue.kids = Val(Kid.to).kids
  BY <1>2
<1>5. CASE pc = "definitions"
  <2>1. Top.fn = "checkDefinitionAttrs"
    BY <1>1, <1>5, TopFacts DEF WalkInv, PhaseInv
  <2>2. role \in {"field", "optional", "definition"} /\ KidValue.kind = "struct"
    BY <1>5 DEF RoleIn
  <2>3. IsStruct(KidValue)
    BY <1>3, <2>2 DEF IsStruct
  <2>4. Pushed("checkDefinitionAttrs") /\ "checkDefinitionAttrs" \in Walks
    BY <2>1, <2>3 DEF Examines, Extracts, Walks
  <2> QED
    BY <1>1, <1>2, <2>2, <2>4, IteratedRoles
<1>6. CASE pc = "rules" /\ KidValue.kind = "struct"
  <2>1. role \in {"field", "optional"}
    BY <1>6 DEF RoleIn
  <2>2. IsStruct(KidValue)
    BY <1>3, <1>6 DEF IsStruct
  <2>3. Top.fn # "checkDefinitionAttrs"
    BY <1>1, <1>6, TopFacts DEF WalkInv, PhaseInv, Searching
  <2>4. \E fn \in Walks : Pushed(fn) /\ fn # "findAttrInListElements"
    BY <2>2, <2>3 DEF Examines, Extracts, Walks, Searches
  <2> QED
    BY <1>1, <1>2, <2>1, <2>4, IteratedRoles
<1>7. CASE pc = "rules" /\ KidValue.kind = "list"
  <2>1. role \in {"element", "ellipsis"}
    BY <1>7 DEF RoleIn
  <2>2. ~ IsStruct(KidValue) /\ IsList(KidValue)
    BY <1>3, <1>7 DEF IsStruct, IsList
  <2>3. Top.fn # "checkDefinitionAttrs"
    BY <1>1, <1>7, TopFacts DEF WalkInv, PhaseInv, Searching
  <2>4. Top.fn # "findAttrInListElements"
    <3> SUFFICES ASSUME Top.fn = "findAttrInListElements" PROVE FALSE
      OBVIOUS
    <3>1. \/ Iteration = KidsWith(Val(Top.node), {"ellipsis"})
          \/ Iteration = KidsWith(Val(Top.node), {"element"})
      BY DEF Iteration, Iterated, Here
    <3>2. Top.node \in Nodes /\ Top.next \in 1 .. Len(Iteration)
      BY <1>1, <1>2, KidInCall DEF Call
    <3>3. Kid.role \in {"element", "ellipsis"}
      BY <1>1, <3>1, <3>2, KidsFacts DEF Kid
    <3> QED
      BY <1>7, <3>3
  <2>5. Pushed("findAttrInListElements") /\ "findAttrInListElements" \in Walks
    BY <2>2, <2>3, <2>4 DEF Examines, Extracts, Walks, Searches
  <2> QED
    BY <1>1, <1>2, <2>1, <2>5, IteratedRoles
<1> QED
  BY <1>3, <1>5, <1>6, <1>7

\* What the current phase looks at: definitions first, then all outside them.
Followed(c, d) ==
  /\ pc = "definitions" => ~ c[d].inElement
  /\ pc = "rules" => ~ c[d].inDefinition

\* The frame whose child has come up is that of the place above.
AtKid(c, d) ==
  /\ Iterating /\ Len(stack) = d
  /\ Top.node = c[d - 1].node /\ Top.path = c[d - 1].path /\ c[d] = Under(c[d - 1], Kid)

\* Passing the child that leads to a place comes to the place or enters the child.
LEMMA LineLeads ==
  ASSUME WalkInv, source' = source, pc \in {"definitions", "rules"}, Examines \/ Extracts,
         Clear, NEW d \in 1 .. MaxDepth + 1, NEW c, Line(c, d), Followed(c, d),
         NEW t \in Nat \ {0}, t = Len(stack), t < d,
         Top.node = c[t - 1].node, Top.path = c[t - 1].path, c[t] = Under(c[t - 1], Kid)
  PROVE  Coming(c, d)'
<1>1. Iterating /\ stack # << >> /\ source \in Sources /\ StackInv
  BY DEF Examines, Extracts, Iterating, InWalk, WalkInv, StackInv
<1>2. d \in Nat /\ t \in 0 .. MaxDepth + 1 /\ t \in 0 .. d /\ t + 1 \in 0 .. d /\ t + 1 >= 1
  BY DepthAssumption
<1>3. c[t].node = Kid.to /\ c[t].role = Kid.role /\ c[t].path = KidPath /\ KidValue = Val(c[t].node)
  <2>1. c[t].node = Kid.to /\ c[t].role = Kid.role /\ c[t].path = Append(Top.path, Kid.name)
    BY DEF Under
  <2> QED
    BY <2>1 DEF KidPath, KidValue
<1>4. Understood(c[t])
  BY <1>2, LinePrefix DEF Clear
<1>5. PICK k \in DOMAIN KidValue.kids :
        /\ c[t + 1] = Under(c[t], KidValue.kids[k])
        /\ KidValue.kids[k].role \in RoleIn(KidValue.kind)
  BY <1>1, <1>2, <1>3, LineStep DEF Continues
<1>6. PICK role : role = KidValue.kids[k].role /\ c[t + 1].role = role
  BY <1>5, UnderShape
<1>7. /\ pc = "definitions" => role \notin {"element", "ellipsis"}
      /\ pc = "rules" => role # "definition"
  BY <1>1, <1>2, <1>6, LineMarks DEF Followed
<1>8. /\ KidValue.nullable => KidValue.kind = "scalar"
      /\ Kid.role \in {"element", "ellipsis"} => KidValue.kind # "list"
      /\ ~ \E j, l \in DOMAIN KidValue.kids :
             KidValue.kids[j].role = "element" /\ KidValue.kids[l].role = "ellipsis"
  BY <1>3, <1>4 DEF Understood
<1>9. PICK fn \in Walks : /\ Pushed(fn)
                          /\ \E i \in 1 .. Len(Iterated(fn, KidValue)) :
                               Iterated(fn, KidValue)[i] = KidValue.kids[k]
  BY <1>5, <1>6, <1>7, <1>8, KidEntered
<1>10. /\ t + 1 \in Frames' /\ stack'[t + 1].fn = fn /\ stack'[t + 1].next = 0
       /\ stack'[t + 1].node = c[t].node /\ stack'[t + 1].path = c[t].path
  BY <1>1, <1>3, <1>9, FramesPushed
<1>11. It(t + 1)' = Iterated(fn, KidValue)
  BY <1>3, <1>10 DEF It, Val
<1>12. PICK i \in 1 .. Len(It(t + 1)') : It(t + 1)'[i] = KidValue.kids[k]
  BY <1>9, <1>11
<1>13. i \in Pending(t + 1)'
  BY <1>10, <1>12 DEF Pending
<1>14. t + 1 - 1 = t /\ t + 1 <= d
  BY <1>2
<1> QED
  BY <1>5, <1>10, <1>12, <1>13, <1>14 DEF Coming

\* The walk goes on towards a place until it is the place's turn.
LEMMA ComingMoves ==
  ASSUME WalkInv, source' = source, pc \in {"definitions", "rules"},
         Returns \/ Opens \/ Examines \/ Extracts,
         Clear, NEW d \in 1 .. MaxDepth + 1, NEW c, Line(c, d), Followed(c, d), Coming(c, d)
  PROVE  Coming(c, d)' \/ (AtKid(c, d) /\ (Examines \/ Extracts))
<1>1. stack # << >> /\ source \in Sources /\ StackInv /\ d \in Nat
  BY DepthAssumption
     DEF Returns, Opens, Examines, Extracts, Calling, Iterating, InWalk, WalkInv, StackInv
<1>2. PICK t \in Nat \ {0} : /\ t = Len(stack) /\ Top = stack[t] /\ Iteration = It(t)
                             /\ Frames = 1 .. t /\ Top \in Call
  BY <1>1, TopFacts DEF Frames
<1>3. PICK l \in Frames :
        /\ l <= d /\ stack[l].node = c[l - 1].node /\ stack[l].path = c[l - 1].path
        /\ \E i \in Pending(l) : c[l] = Under(c[l - 1], It(l)[i])
  BY DEF Coming
<1>4. PICK i \in Pending(l) : c[l] = Under(c[l - 1], It(l)[i])
  BY <1>3
<1>5. l \in Nat \ {0} /\ l - 1 \in 0 .. d /\ l - 1 \in 0 .. MaxDepth + 1 /\ l - 1 < d /\ l - 1 \in Nat
  BY <1>1, <1>2, <1>3, DepthAssumption
<1>6. CASE Returns
  <2>1. l # t
    <3> SUFFICES ASSUME l = t PROVE FALSE
      OBVIOUS
    <3>1. i \in 1 .. Len(It(t)) /\ Top.next <= i
      BY <1>2, <1>4 DEF Pending
    <3>2. Top.next # Len(Iteration) + 1
      <4>1. Top.next \in Nat /\ Len(It(t)) \in Nat
        BY <1>1, <1>2, IterationFacts DEF Call, It
      <4> QED
        BY <1>2, <3>1, <4>1
    <3>3. Outcome(Top, Here) = "return"
      BY <1>6, <3>2 DEF Returns
    <3>4. Top.fn # "findAttrInListElements" /\ ~ IsStruct(Val(Top.node))
      BY <3>3 DEF Outcome, Here
    <3>5. Top.node \in Nodes /\ Top.fn \in Walks
      BY <1>2 DEF Call
    <3>6. It(t)[i].role \in {"field", "optional", "definition"}
      BY <1>1, <1>2, <3>1, <3>4, <3>5, IteratedRoles DEF It
    <3>7. \E k \in DOMAIN Val(Top.node).kids : It(t)[i] = Val(Top.node).kids[k]
      BY <1>1, <1>2, <3>1, <3>5, IterationFacts DEF It
    <3>8. It(t)[i].role \in RoleIn(Val(Top.node).kind)
      BY <1>1, <3>5, <3>7, SourceAssumption DEF Val, Nodes
    <3>9. Val(Top.node).kind = "struct"
      BY <3>6, <3>8 DEF RoleIn
    <3>10. Understood(c[l - 1])
      BY <1>1, <1>5, LinePrefix DEF Clear
    <3>11. ~ Val(Top.node).nullable
      BY <1>2, <1>3, <3>9, <3>10 DEF Understood
    <3> QED
      BY <3>4, <3>9, <3>11 DEF IsStruct
  <2>2. l \in Frames' /\ stack'[l] = stack[l]
    BY <1>1, <1>2, <1>6, <2>1, FramesPopped DEF Returns
  <2>3. It(l)' = It(l)
    BY <2>2, SameIteration
  <2>4. Pending(l)' = Pending(l)
    BY <2>2, <2>3, PendingSame
  <2> QED
    BY <1>3, <1>4, <2>2, <2>3, <2>4 DEF Coming
<1>7. ASSUME Passed, Top.next <= Len(Iteration), Frames \subseteq Frames',
             l = t => i # Top.next
      PROVE  Coming(c, d)'
  <2>1. /\ stack'[l].node = stack[l].node /\ It(l)' = It(l)
        /\ Pending(l)' = IF l = t THEN Pending(l) \ {Top.next} ELSE Pending(l)
    BY <1>1, <1>2, <1>7, PendingShrinks
  <2>2. stack'[l].path = stack[l].path
    BY <1>1, <1>7, OldFrames
  <2>3. i \in Pending(l)' /\ l \in Frames'
    BY <1>4, <1>7, <2>1
  <2> QED
    BY <1>3, <1>4, <2>1, <2>2, <2>3 DEF Coming
<1>8. CASE Opens
  <2>1. Passed /\ Frames' = Frames /\ Top.next = 0
    BY <1>8 DEF Opens, Calling, Stepped, Frames
  <2>2. Len(Iteration) \in Nat
    BY <1>1, <1>2, IterationFacts DEF It, Call
  <2>3. i # 0
    BY <1>4 DEF Pending
  <2> QED
    BY <1>7, <2>1, <2>2, <2>3
<1>9. CASE Examines \/ Extracts
  <2>1. Iterating /\ Passed /\ Top.next \in 1 .. Len(Iteration) /\ Frames \subseteq Frames'
    <3>1. Iterating /\ Passed
      BY <1>9 DEF Examines, Extracts, Stepped, Pushed
    <3>2. Len(stack') = t \/ Len(stack') = t + 1
      BY <1>2, <1>9 DEF Examines, Extracts, Stepped, Pushed
    <3> QED
      BY <1>1, <1>2, <3>1, <3>2, KidInCall DEF Frames
  <2>2. CASE ~ (l = t /\ i = Top.next)
    <3>1. Top.next <= Len(Iteration)
      BY <2>1
    <3> QED
      BY <1>7, <2>1, <2>2, <3>1
  <2>3. CASE l = t /\ i = Top.next
    <3>1. /\ Top.node = c[t - 1].node /\ Top.path = c[t - 1].path
          /\ c[t] = Under(c[t - 1], Kid) /\ t <= d
      BY <1>2, <1>3, <1>4, <2>3 DEF Kid
    <3>2. CASE t = d
      BY <1>2, <1>9, <2>1, <3>1, <3>2 DEF AtKid
    <3>3. CASE t # d
      BY <1>1, <1>2, <1>9, <3>1, <3>3, LineLeads
    <3> QED
      BY <3>2, <3>3
  <2> QED
    BY <2>2, <2>3
<1> QED
  BY <1>6, <1>8, <1>9

RulesAt(p) == {k \in DOMAIN rules : rules[k].path = p.path}

\* extractRules makes as many rules as the attributes of a value ask for.
LEMMA OwedExtracted ==
  ASSUME source \in Sources, NEW x \in Nodes, NEW path, NEW b \in BOOLEAN,
         Val(x).blob # NoAttr => \E k \in DOMAIN Val(x).blob : Val(x).blob[k] # "blank"
  PROVE  Len(RulesOf(Val(x), path, b)) = Owed(Val(x)) /\ Owed(Val(x)) \in Nat
<1> DEFINE v == Val(x)
<1>1. CASE v.blob # NoAttr
  <2>1. v.blob \in Seq({"blank", "good", "bad"})
    BY <1>1, NodeFacts DEF CUEValue
  <2>2. Expressions(v) \in SUBSET (1 .. Len(v.blob)) /\ Len(v.blob) \in Nat
    BY <2>1, LenProperties DEF Expressions
  <2>3. IsFiniteSet(1 .. Len(v.blob))
    BY <2>2, FS_Interval
  <2>4. IsFiniteSet(Expressions(v))
    BY <2>2, <2>3, FS_Subset
  <2>5. PICK c \in Nat : c = Cardinality(Expressions(v))
    BY <2>4, FS_CardinalityType
  <2>6. Expressions(v) # {}
    BY <1>1 DEF Expressions
  <2>7. Owed(v) = c
    BY <1>1, <2>5, <2>6 DEF Owed
  <2>8. PICK r : RulesOf(v, path, b) = [k \in 1 .. c |-> r]
    BY <1>1, <2>5 DEF RulesOf
  <2>9. Len([k \in 1 .. c |-> r]) = c
    BY IsASeq, LenProperties
  <2> QED
    BY <2>7, <2>8, <2>9
<1>2. CASE v.blob = NoAttr
  <2> DEFINE controlled == \/ HasExpression(v, "required_if") \/ HasExpression(v, "skip_if")
                           \/ \E key \in {"skip_empty", "omit_empty", "omit_if_skip"} : Given(v, key) # {}
             meta == parsefieldMeta(v, b)
             controls == \/ meta.requiredIf \/ meta.skipIf \/ meta.skipEmpty
                         \/ meta.omitEmpty \/ meta.omitIfSkip
  <2>1. Owed(v) = IF controlled THEN 1 ELSE 0
    BY <1>2 DEF Owed
  <2>2. controls <=> controlled
    <3>1. /\ meta.requiredIf <=> HasExpression(v, "required_if")
          /\ meta.skipIf <=> HasExpression(v, "skip_if")
          /\ meta.skipEmpty <=> Given(v, "skip_empty") # {}
          /\ meta.omitEmpty <=> Given(v, "omit_empty") # {}
          /\ meta.omitIfSkip <=> Given(v, "omit_if_skip") # {}
      BY Zenon DEF parsefieldMeta
    <3> HIDE DEF meta
    <3> QED
      BY <3>1, Zenon
  <2>3. \E r : RulesOf(v, path, b) = IF controls THEN <<r>> ELSE << >>
    BY <1>2 DEF RulesOf
  <2>4. PICK r : RulesOf(v, path, b) = IF controls THEN <<r>> ELSE << >>
    BY <2>3
  <2>5. Len(<<r>>) = 1 /\ Len(<< >>) = 0
    OBVIOUS
  <2> HIDE DEF controls, controlled, v
  <2> QED
    BY <2>1, <2>2, <2>4, <2>5 DEF v
<1> QED
  BY <1>1, <1>2

LEMMA CountExtracted ==
  ASSUME WalkInv, RulesInv, source' = source, Extracts, NEW p
  PROVE  /\ p.path # KidPath => RulesAt(p)' = RulesAt(p)
         /\ p.path = KidPath =>
              Cardinality(RulesAt(p)') = Len(RulesOf(KidValue, KidPath, Kid.role = "optional"))
<1>1. Iterating /\ stack # << >> /\ source \in Sources /\ StackInv /\ rules \in Seq(Rule)
  BY DEF Extracts, Iterating, InWalk, WalkInv, StackInv, RulesInv
<1>2. PICK q \in FieldPath : q = KidPath /\ Kid.to \in Nodes
  BY <1>1, KidInCall DEF Child
<1>3. PICK b \in BOOLEAN : b = (Kid.role = "optional")
  OBVIOUS
<1>4. PICK new \in Seq(Rule) : /\ new = RulesOf(KidValue, q, b)
                               /\ \A k \in DOMAIN new : new[k].path = q
  BY <1>1, <1>2, RulesOfField DEF KidValue
<1>5. rules' = rules \o new
  BY <1>2, <1>3, <1>4 DEF Extracts
<1>6. PICK m \in Nat, n \in Nat : m = Len(rules) /\ n = Len(new)
  BY <1>1, <1>4, LenProperties
<1>7. /\ DOMAIN rules = 1 .. m /\ DOMAIN new = 1 .. n /\ DOMAIN rules' = 1 .. m + n
      /\ \A k \in 1 .. m + n : rules'[k] = IF k <= m THEN rules[k] ELSE new[k - m]
  BY <1>1, <1>4, <1>5, <1>6, ConcatProperties, LenProperties
<1>8. \A k \in 1 .. m : k \in 1 .. m + n /\ rules'[k] = rules[k]
  BY <1>7
<1>9. \A k \in m + 1 .. m + n : k \in 1 .. m + n /\ rules'[k].path = q
  <2> TAKE k \in m + 1 .. m + n
  <2>1. k - m \in 1 .. n /\ ~ (k <= m) /\ k \in 1 .. m + n
    OBVIOUS
  <2> QED
    BY <1>4, <1>7, <2>1
<1>10. \A k \in 1 .. m + n : k \in 1 .. m \/ k \in m + 1 .. m + n
  OBVIOUS
<1>11. pc = "rules"
  BY <1>1, TopFacts DEF Extracts, Iterating, InWalk, PhaseInv, WalkInv
<1>12. q \notin RulePaths
  BY <1>2, <1>11, KidPassed DEF RulesInv
<1>13. \A k \in 1 .. m : rules[k].path # q
  BY <1>7, <1>12 DEF RulePaths
<1>14. ASSUME p.path # q
       PROVE  RulesAt(p)' = RulesAt(p)
  BY <1>7, <1>8, <1>9, <1>10, <1>14 DEF RulesAt
<1>15. ASSUME p.path = q
       PROVE  Cardinality(RulesAt(p)') = n
  <2>1. RulesAt(p)' = m + 1 .. m + n
    BY <1>7, <1>8, <1>9, <1>10, <1>13, <1>15 DEF RulesAt
  <2>2. Cardinality(m + 1 .. m + n) = IF m + 1 > m + n THEN 0 ELSE m + n - (m + 1) + 1
    BY FS_Interval
  <2> QED
    BY <2>1, <2>2
<1> QED
  BY <1>2, <1>3, <1>4, <1>6, <1>14, <1>15

\* Sorting neither loses nor repeats a rule.
LEMMA CountSorted ==
  ASSUME rules \in Seq(Rule), rules' = sortBlobRules, NEW p
  PROVE  Cardinality(RulesAt(p)') = Cardinality(RulesAt(p))
<1> DEFINE key == [k \in DOMAIN rules |-> rules[k].meta.priority]
           order == StableOrder(key)
<1>1. /\ Len(rules) \in Nat /\ DOMAIN rules = 1 .. Len(rules)
      /\ \A k \in DOMAIN rules : rules[k] \in Rule
  BY LenProperties, ElementOfSeq
<1>2. \A k \in DOMAIN rules : rules[k].meta.priority \in Int
  BY <1>1, PriorityAssumption DEF Rule, Meta
<1>3. key \in Seq(Int) /\ Len(key) = Len(rules)
  BY <1>1, <1>2, IsASeq, LenProperties
<1>4. \A k \in DOMAIN rules : key[k] = rules[k].meta.priority
  OBVIOUS
<1> HIDE DEF key
<1>5. /\ \A n \in 1 .. Len(rules) : order[n] \in 1 .. Len(rules)
      /\ \A k \in 1 .. Len(rules) : \E n \in 1 .. Len(rules) : order[n] = k
      /\ \A m, n \in 1 .. Len(rules) : m < n =>
           key[order[m]] < key[order[n]] \/ (key[order[m]] = key[order[n]] /\ order[m] < order[n])
  BY <1>3, StableOrderSorts, SMTT(30)
<1>6. rules' = [k \in DOMAIN rules |-> rules[order[k]]]
  BY DEF sortBlobRules, key
<1> HIDE DEF order
<1>7. ASSUME NEW m \in 1 .. Len(rules), NEW n \in 1 .. Len(rules), order[m] = order[n]
      PROVE  m = n
  <2>1. PICK k \in 1 .. Len(rules) : k = order[m] /\ k = order[n]
    BY <1>5, <1>7
  <2>2. key[k] \in Int /\ k \in Int
    BY <1>1, <1>2, <1>4
  <2>3. ASSUME m < n \/ n < m
        PROVE  FALSE
    <3>1. \/ key[order[m]] < key[order[n]] \/ (key[order[m]] = key[order[n]] /\ order[m] < order[n])
          \/ key[order[n]] < key[order[m]] \/ (key[order[n]] = key[order[m]] /\ order[n] < order[m])
      BY <1>5, <2>3
    <3>2. key[k] < key[k] \/ k < k
      BY <2>1, <3>1
    <3> QED
      BY <2>2, <3>2
  <2> QED
    BY <1>1, <2>3
<1>8. DOMAIN rules' = 1 .. Len(rules) /\ \A k \in 1 .. Len(rules) : rules'[k] = rules[order[k]]
  BY <1>1, <1>6
<1> DEFINE S == RulesAt(p)'
           T == RulesAt(p)
           f == [k \in S |-> order[k]]
<1>9. /\ \A k : k \in S <=> k \in 1 .. Len(rules) /\ rules[order[k]].path = p.path
      /\ \A k : k \in T <=> k \in 1 .. Len(rules) /\ rules[k].path = p.path
  BY <1>1, <1>8 DEF RulesAt
<1> HIDE DEF S, T
<1>10. f \in [S -> T] /\ \A k \in S : f[k] = order[k]
  BY <1>5, <1>9
<1> HIDE DEF f
<1>11. f \in Injection(S, T)
  BY <1>7, <1>9, <1>10 DEF Injection, IsInjective
<1>12. f \in Surjection(S, T)
  BY <1>5, <1>9, <1>10 DEF Surjection
<1>13. ExistsBijection(S, T)
  BY <1>11, <1>12 DEF ExistsBijection, Bijection
<1>14. IsFiniteSet(1 .. Len(rules)) /\ S \in SUBSET (1 .. Len(rules))
  BY <1>1, <1>9, FS_Interval
<1>15. IsFiniteSet(S)
  BY <1>14, FS_Subset
<1>16. Cardinality(T) = Cardinality(S)
  BY <1>13, <1>15, FS_Bijection
<1> QED
  BY <1>16 DEF S, T

\* The rules of a field are complete.
Counted(p) == ~ p.inElement => Cardinality(RulesAt(p)) = Owed(Val(p.node))

\* A place that only a call can refuse: an element schema with an attribute, or
\* what a walk would still have to enter past the limit.
Suspect(p) ==
  \/ p.inElement /\ hasSchemixAttr(Val(p.node))
  \/ p.depth > MaxDepth /\ ~ (Val(p.node).kind = "scalar" /\ p.role \in {"field", "optional"})

\* That call has just been made.
Called(p) ==
  /\ Len(stack) = p.depth + 1 /\ Top.node = p.node /\ Top.next = 0
  /\ Top.fn # "compileCUEFields"
  /\ p.inElement /\ hasSchemixAttr(Val(p.node)) => Top.fn = "findAttrInElementSchema"

Examined(p) == Counted(p) /\ (Suspect(p) => Called(p))

\* Every place is still to come or has been looked at.
CoverInv ==
  Clear => \A d \in 1 .. MaxDepth + 1 : \A c : Line(c, d) =>
    /\ c[d].role = "definition" /\ hasSchemixAttr(Val(c[d].node)) =>
         pc \in {"definitions", "failed"} /\ (pc = "definitions" => Coming(c, d))
    /\ ~ c[d].inDefinition =>
         /\ pc = "rules" => Coming(c, d) \/ Examined(c[d])
         /\ pc \in {"fields", "done"} => Counted(c[d]) /\ ~ Suspect(c[d])

\* Beginning at the root, a walk has everything it follows before it.
LEMMA AllComing ==
  ASSUME source \in Sources, source' = source, NEW fn \in {"checkDefinitionAttrs", "extractRules"},
         Opened(fn), Clear, NEW d \in 1 .. MaxDepth + 1, NEW c, Line(c, d),
         fn = "extractRules" => ~ c[d].inDefinition
  PROVE  Coming(c, d)'
<1>1. d \in Nat /\ 0 \in Nat /\ 0 < d /\ 0 + 1 = 1 /\ 1 - 1 = 0 /\ 1 \in 0 .. d /\ fn \in Walks
  BY DepthAssumption DEF Walks
<1>2. c[0].node = source.root /\ c[0].path = << >>
  BY DEF Line, RootPlace
<1>3. PICK k \in DOMAIN Val(source.root).kids :
        /\ c[1] = Under(c[0], Val(source.root).kids[k])
        /\ Val(source.root).kids[k].role \in RoleIn(Val(source.root).kind)
  BY <1>1, <1>2, LineStep DEF Continues
<1>4. Val(source.root).kind = "struct" /\ source.root \in Nodes
  BY NodeFacts DEF Clear, IsStruct
<1>5. PICK role : role = Val(source.root).kids[k].role /\ c[1].role = role
  BY <1>3, UnderShape
<1>6. role \in {"field", "optional", "definition"}
  BY <1>3, <1>4, <1>5 DEF RoleIn
<1>7. fn = "extractRules" => role # "definition"
  BY <1>1, <1>5, LineMarks
<1>8. \E i \in 1 .. Len(Iterated(fn, Val(source.root))) :
        Iterated(fn, Val(source.root))[i] = Val(source.root).kids[k]
  BY <1>1, <1>4, <1>5, <1>6, <1>7, IteratedRoles
<1>9. /\ Frames' = {1} /\ stack'[1].fn = fn /\ stack'[1].next = 0
      /\ stack'[1].node = source.root /\ stack'[1].path = << >>
  BY OpenedFrame
<1>10. It(1)' = Iterated(fn, Val(source.root))
  BY <1>9 DEF It, Val
<1>11. PICK i \in 1 .. Len(It(1)') : It(1)'[i] = Val(source.root).kids[k]
  BY <1>8, <1>10
<1>12. i \in Pending(1)'
  BY <1>9, <1>11 DEF Pending
<1>13. 1 <= d
  BY <1>1
<1> QED
  BY <1>1, <1>2, <1>3, <1>9, <1>11, <1>12, <1>13 DEF Coming

LEMMA InitCover == Init => CoverInv
<1> SUFFICES ASSUME Init, Clear, NEW d \in 1 .. MaxDepth + 1, NEW c, Line(c, d)
             PROVE  Coming(c, d) /\ pc = "definitions"
  BY DEF CoverInv
<1>1. d \in Nat /\ 0 \in Nat /\ 0 < d /\ 0 + 1 = 1 /\ 1 - 1 = 0 /\ source \in Sources /\ 1 <= d
  BY DepthAssumption DEF Init
<1>2. c[0].node = source.root /\ c[0].path = << >>
  BY DEF Line, RootPlace
<1>3. PICK k \in DOMAIN Val(source.root).kids :
        /\ c[1] = Under(c[0], Val(source.root).kids[k])
        /\ Val(source.root).kids[k].role \in RoleIn(Val(source.root).kind)
  BY <1>1, <1>2, LineStep DEF Continues
<1>4. Val(source.root).kind = "struct" /\ source.root \in Nodes
  BY <1>1, NodeFacts DEF Clear, IsStruct
<1>5. Val(source.root).kids[k].role \in {"field", "optional", "definition"}
  BY <1>3, <1>4 DEF RoleIn
<1>6. /\ Frames = {1} /\ stack[1].fn = "checkDefinitionAttrs" /\ stack[1].next = 0
      /\ stack[1].node = source.root /\ stack[1].path = << >> /\ pc = "definitions"
  BY DEF Init, Frames, Frame
<1>7. It(1) = Iterated("checkDefinitionAttrs", Val(source.root)) /\ "checkDefinitionAttrs" \in Walks
  BY <1>6 DEF It, Walks
<1>8. PICK i \in 1 .. Len(It(1)) : It(1)[i] = Val(source.root).kids[k]
  BY <1>1, <1>4, <1>5, <1>7, IteratedRoles
<1>9. i \in Pending(1)
  BY <1>6, <1>8 DEF Pending
<1> QED
  BY <1>1, <1>2, <1>3, <1>6, <1>8, <1>9 DEF Coming

LEMMA SameSuspicion ==
  ASSUME source' = source, NEW p
  PROVE  /\ Suspect(p)' <=> Suspect(p)
         /\ Owed(Val(p.node))' = Owed(Val(p.node))
         /\ hasSchemixAttr(Val(p.node))' <=> hasSchemixAttr(Val(p.node))
<1>1. Val(p.node)' = Val(p.node)
  BY DEF Val
<1>2. \A v : /\ hasSchemixAttr(v)' <=> hasSchemixAttr(v)
             /\ Owed(v)' = Owed(v)
  BY DEF hasSchemixAttr, Owed, HasExpression, Given, Args, Expressions
<1> QED
  BY <1>1, <1>2 DEF Suspect

\* What has just been passed has its rules, and is entered if it must be.
LEMMA KidExamined ==
  ASSUME WalkInv, RulesInv, PlacedInv, source' = source, pc = "rules", Examines \/ Extracts,
         Clear, NEW d \in 1 .. MaxDepth + 1, NEW c, Line(c, d), ~ c[d].inDefinition, AtKid(c, d)
  PROVE  Examined(c[d])'
<1>1. Iterating /\ stack # << >> /\ source \in Sources /\ StackInv
  BY DEF Examines, Extracts, Iterating, InWalk, WalkInv, StackInv
<1>2. d \in Nat \ {0} /\ d \in 0 .. MaxDepth + 1 /\ d \in 0 .. d /\ d = Len(stack)
  BY DepthAssumption DEF AtKid
<1>3. PICK p : p = c[d]
  OBVIOUS
<1>4. /\ p.node = Kid.to /\ p.role = Kid.role /\ p.path = KidPath /\ p.depth = d
      /\ Kid.to \in Nodes /\ KidValue = Val(p.node)
  <2>1. p = Under(c[d - 1], Kid) /\ c[d - 1].path = Top.path
    BY <1>3 DEF AtKid
  <2>2. p.node = Kid.to /\ p.role = Kid.role /\ p.path = Append(Top.path, Kid.name)
    <3>1. /\ Under(c[d - 1], Kid).node = Kid.to /\ Under(c[d - 1], Kid).role = Kid.role
          /\ Under(c[d - 1], Kid).path = Append(c[d - 1].path, Kid.name)
      BY UnderShape, Zenon
    <3> QED
      BY <2>1, <3>1
  <2>3. p.depth = d
    BY <1>1, <1>2, <1>3, LineFacts
  <2>4. Kid.to \in Nodes
    BY <1>1, KidInCall DEF Child
  <2> QED
    BY <2>2, <2>3, <2>4 DEF KidPath, KidValue
<1>5. PICK e : /\ Line(e, d) /\ e[d].path = KidPath
               /\ Top.fn \in Searching => e[d].inElement
               /\ Top.fn = "extractRules" => ~ e[d].inElement
  BY <1>1, <1>2, KidPlaced
<1>6. /\ Top.fn \in Searching => p.inElement
      /\ Top.fn = "extractRules" => ~ p.inElement
  <2>1. c[d] = e[d]
    BY <1>1, <1>2, <1>3, <1>4, <1>5, LineUnique
  <2> QED
    BY <1>3, <1>5, <2>1
<1>7. Top.fn \in {"extractRules"} \cup Searching /\ Top \in Call /\ Top.fn \in Walks
  BY <1>1, TopFacts DEF WalkInv, PhaseInv, Call
<1>8. Understood(p)
  BY <1>2, <1>3 DEF Clear
<1>9. Counted(p)'
  <2> SUFFICES ASSUME ~ p.inElement
               PROVE  Cardinality(RulesAt(p)') = Owed(Val(p.node))
    BY SameSuspicion DEF Counted
  <2>1. Top.fn = "extractRules" /\ Extracts
    BY <1>6, <1>7 DEF Examines, Recording
  <2>2. PICK b \in BOOLEAN : b = (Kid.role = "optional")
    OBVIOUS
  <2>3. Cardinality(RulesAt(p)') = Len(RulesOf(KidValue, KidPath, b))
    BY <1>4, <2>1, <2>2, CountExtracted
  <2>4. KidValue.blob # NoAttr => \E k \in DOMAIN KidValue.blob : KidValue.blob[k] # "blank"
    BY <1>4, <1>8 DEF Understood
  <2>5. Len(RulesOf(KidValue, KidPath, b)) = Owed(KidValue)
    BY <1>1, <1>4, <2>4, OwedExtracted
  <2> QED
    BY <1>4, <2>3, <2>5
<1>10. ASSUME NEW fn \in Walks, Pushed(fn), fn # "compileCUEFields",
              p.inElement /\ hasSchemixAttr(Val(p.node)) => fn = "findAttrInElementSchema"
       PROVE  Called(p)'
  <2>1. /\ stack'[Len(stack) + 1].fn = fn /\ stack'[Len(stack) + 1].next = 0
        /\ stack'[Len(stack) + 1].node = Kid.to
    BY <1>1, <1>10, FramesPushed
  <2>2. Len(stack') = Len(stack) + 1
    BY <1>10 DEF Pushed
  <2>3. Top' = stack'[Len(stack) + 1]
    BY <2>2 DEF Top
  <2> QED
    BY <1>2, <1>4, <1>10, <2>1, <2>2, <2>3, SameSuspicion DEF Called
<1>11. ASSUME Suspect(p)
       PROVE  Called(p)'
  <2>1. CASE Top.fn = "findAttrInListElements"
    <3>1. Pushed("findAttrInElementSchema") /\ "findAttrInElementSchema" \in Walks
      BY <2>1 DEF Examines, Extracts, Walks
    <3> QED
      BY <1>10, <3>1
  <2>2. CASE Top.fn # "findAttrInListElements"
    <3>1. ~ (p.inElement /\ hasSchemixAttr(Val(p.node)))
      BY <1>4, <1>6, <1>7, <2>2 DEF Examines, Extracts, Searching, Recording
    <3>2. ~ (Val(p.node).kind = "scalar" /\ p.role \in {"field", "optional"})
      BY <1>11, <3>1 DEF Suspect
    <3>3. p.role \in {"field", "optional"}
      <4>1. Top.next \in 1 .. Len(Iteration) /\ Top.node \in Nodes
        BY <1>1, <1>7, KidInCall DEF Call
      <4>2. Kid.role \in {"field", "optional", "definition"}
        BY <1>1, <1>7, <2>2, <4>1, IteratedRoles DEF Kid, Iteration, Here
      <4>3. p.role # "definition"
        BY <1>1, <1>2, <1>3, LineMarks
      <4> QED
        BY <1>4, <4>2, <4>3
    <3>4. KidValue.kind \in {"struct", "list"} /\ ~ KidValue.nullable
      <4>1. KidValue.kind \in {"struct", "list", "scalar"}
        BY <1>1, <1>4, NodeFacts DEF CUEValue
      <4> QED
        BY <1>4, <1>8, <3>2, <3>3, <4>1 DEF Understood
    <3>5. IsStruct(KidValue) \/ IsList(KidValue)
      BY <3>4 DEF IsStruct, IsList
    <3>6. \E fn \in Walks : Pushed(fn) /\ fn # "compileCUEFields"
      BY <1>7, <2>2, <3>5 DEF Examines, Extracts, Walks, Searching, Searches
    <3> QED
      BY <1>10, <3>1, <3>6
  <2> QED
    BY <2>1, <2>2
<1> QED
  BY <1>3, <1>9, <1>11, SameSuspicion DEF Examined

\* What has been looked at stays so: a call that is to refuse it refuses it.
LEMMA StillExamined ==
  ASSUME WalkInv, RulesInv, PlacedInv, source' = source, pc = "rules",
         Rests \/ Returns \/ Opens \/ Examines \/ Extracts,
         NEW d \in 1 .. MaxDepth + 1, NEW c, Line(c, d), ~ Coming(c, d), Examined(c[d])
  PROVE  Examined(c[d])'
<1>1. d \in Nat \ {0} /\ d \in 0 .. d /\ d - 1 \in 0 .. d /\ source \in Sources /\ StackInv
  BY DepthAssumption DEF WalkInv, StackInv
<1>2. PICK p : p = c[d] /\ p.depth = d
  BY <1>1, LineFacts
<1>3. ASSUME Suspect(p), ~ Rests
      PROVE  FALSE
  <2>1. Called(p)
    BY <1>2, <1>3 DEF Examined
  <2>2. stack # << >>
    BY <1>3 DEF Returns, Opens, Examines, Extracts, Calling, Iterating, InWalk
  <2>3. PICK t \in Nat \ {0} : t = Len(stack) /\ Top = stack[t] /\ t \in Frames /\ Top.next \in Nat
    BY <1>1, <2>2, TopFacts DEF Call
  <2>4. Top.depth = d
    BY <1>1, <1>2, <2>1, <2>3 DEF StackInv, FrameOK, Called
  <2>5. Outcome(Top, Here) = "reject"
    BY <1>2, <1>3, <2>1, <2>4 DEF Suspect, Called, Outcome, Here
  <2>6. Top.next = 0
    BY <2>1 DEF Called
  <2>7. Len(Iteration) \in Nat
    BY <1>1, <2>2, TopFacts, IterationFacts DEF Iteration, Here, Call
  <2> QED
    BY <1>3, <2>5, <2>6, <2>7 DEF Returns, Opens, Examines, Extracts, Iterating
<1>4. ASSUME Extracts
      PROVE  p.path # KidPath
  <2> SUFFICES ASSUME p.path = KidPath PROVE FALSE
    OBVIOUS
  <2>1. Iterating /\ stack # << >>
    BY <1>4 DEF Extracts, Iterating, InWalk
  <2>2. PICK t \in Nat \ {0} : t = Len(stack) /\ Top = stack[t] /\ t \in Frames
    BY <1>1, <2>1, TopFacts
  <2>3. t = d
    BY <1>1, <1>2, <2>1, <2>2, KidInCall, LineFacts
  <2>4. PICK e : /\ Line(e, d) /\ e[d].path = KidPath /\ e[d] = Under(e[d - 1], Kid)
                 /\ e[d - 1].node = Top.node /\ e[d - 1].path = Top.path
    BY <2>1, <2>2, <2>3, KidPlaced
  <2>5. c[d] = e[d] /\ c[d - 1] = e[d - 1]
    BY <1>1, <1>2, <2>4, LineUnique
  <2>6. Top.next \in Pending(d) /\ Kid = It(d)[Top.next]
    BY <1>1, <2>1, <2>2, <2>3, KidIsPending
  <2>7. d <= d
    BY <1>1
  <2> QED
    BY <2>2, <2>3, <2>4, <2>5, <2>6, <2>7 DEF Coming
<1>5. RulesAt(p)' = RulesAt(p)
  <2>1. CASE Extracts
    BY <1>4, <2>1, CountExtracted
  <2>2. CASE ~ Extracts
    <3>1. rules' = rules
      BY <2>2 DEF Rests, Returns, Opens, Examines
    <3> QED
      BY <3>1 DEF RulesAt
  <2> QED
    BY <2>1, <2>2
<1>6. Counted(p)'
  BY <1>2, <1>5, SameSuspicion DEF Examined, Counted
<1>7. ASSUME Suspect(p)
      PROVE  Called(p)'
  <2>1. Rests /\ Called(p)
    BY <1>2, <1>3, <1>7 DEF Examined
  <2>2. stack' = stack /\ Top' = Top
    BY <2>1 DEF Rests, Top
  <2> QED
    BY <2>1, <2>2, SameSuspicion DEF Called
<1> QED
  BY <1>2, <1>6, <1>7, SameSuspicion DEF Examined

\* With no call left there is nothing to come.
LEMMA NothingComing ==
  ASSUME stack = << >>, NEW c, NEW d
  PROVE  ~ Coming(c, d)
<1>1. Frames = {}
  BY DEF Frames
<1> QED
  BY <1>1 DEF Coming

LEMMA CoverKept ==
  ASSUME WalkInv, RulesInv, PlacedInv, CoverInv, [Next]_vars
  PROVE  CoverInv'
<1>1. /\ source' = source
      /\ \/ Rests \/ Finish \/ Returns \/ Opens \/ Examines
         \/ Extracts \/ Compiles \/ BeginsRules \/ BeginsFields
  BY StepForms
<1>2. source \in Sources /\ StackInv /\ PhaseInv
  BY DEF WalkInv, StackInv
<1>3. SUFFICES ASSUME Clear, NEW d \in 1 .. MaxDepth + 1, NEW c, Line(c, d)
               PROVE  /\ c[d].role = "definition" /\ hasSchemixAttr(Val(c[d].node)) =>
                           pc' \in {"definitions", "failed"} /\ (pc' = "definitions" => Coming(c, d)')
                      /\ ~ c[d].inDefinition =>
                           /\ pc' = "rules" => Coming(c, d)' \/ Examined(c[d])'
                           /\ pc' \in {"fields", "done"} => Counted(c[d])' /\ ~ Suspect(c[d])
  <2>1. \A c, d : Line(c, d)' <=> Line(c, d)
    BY <1>1, LineKept
  <2>2. \A p : /\ Suspect(p)' <=> Suspect(p)
               /\ hasSchemixAttr(Val(p.node))' <=> hasSchemixAttr(Val(p.node))
    BY <1>1, SameSuspicion
  <2>3. Clear' <=> Clear
    BY <1>1, ClearKept
  <2> QED
    BY <2>1, <2>2, <2>3 DEF CoverInv
<1>4. /\ c[d].role = "definition" /\ hasSchemixAttr(Val(c[d].node)) =>
           pc \in {"definitions", "failed"} /\ (pc = "definitions" => Coming(c, d))
      /\ ~ c[d].inDefinition =>
           /\ pc = "rules" => Coming(c, d) \/ Examined(c[d])
           /\ pc \in {"fields", "done"} => Counted(c[d]) /\ ~ Suspect(c[d])
  BY <1>3 DEF CoverInv
<1>5. d \in Nat /\ d \in 0 .. MaxDepth + 1 /\ d \in 0 .. d /\ Understood(c[d])
  BY <1>3, DepthAssumption DEF Clear
<1>6. ASSUME c[d].role = "definition", hasSchemixAttr(Val(c[d].node))
      PROVE  pc' \in {"definitions", "failed"} /\ (pc' = "definitions" => Coming(c, d)')
  <2>1. pc = "failed" \/ (pc = "definitions" /\ Coming(c, d))
    BY <1>4, <1>6
  <2>2. CASE pc = "failed"
    <3>1. Rests
      BY <1>1, <2>2 DEF Finish, Returns, Opens, Examines, Extracts, Compiles, BeginsRules,
                        BeginsFields, Calling, Iterating, InWalk
    <3> QED
      BY <2>2, <3>1 DEF Rests
  <2>3. CASE pc = "definitions" /\ Coming(c, d)
    <3>1. ~ c[d].inElement
      BY <1>5, <1>6 DEF Understood
    <3>2. CASE Rests
      <4>1. Coming(c, d)'
        <5>1. stack' = stack /\ Val(source.root)' = Val(source.root)
          BY <1>1, <3>2 DEF Rests, Val
        <5> QED
          BY <1>1, <2>3, <5>1 DEF Coming, Frames, Pending, It, Val
      <4> QED
        BY <2>3, <3>2, <4>1 DEF Rests
    <3>3. CASE Returns \/ Opens \/ Examines \/ Extracts
      <4>1. Followed(c, d)
        BY <2>3, <3>1 DEF Followed
      <4>2. Coming(c, d)' \/ (AtKid(c, d) /\ (Examines \/ Extracts))
        BY <1>1, <1>3, <2>3, <3>3, <4>1, ComingMoves
      <4>3. ASSUME AtKid(c, d), Examines \/ Extracts
            PROVE  FALSE
        <5>1. Top.fn = "checkDefinitionAttrs"
          <6>1. stack # << >>
            BY <4>3 DEF AtKid, Iterating, InWalk
          <6> QED
            BY <1>2, <2>3, <6>1, TopFacts DEF PhaseInv
        <5>2. Kid.role = "definition" => ~ hasSchemixAttr(KidValue)
          BY <4>3, <5>1 DEF Examines, Extracts
        <5>3. /\ Under(c[d - 1], Kid).node = Kid.to
              /\ Under(c[d - 1], Kid).role = Kid.role
          BY UnderShape, Zenon
        <5> QED
          BY <1>6, <4>3, <5>2, <5>3 DEF AtKid, KidValue
      <4> QED
        BY <2>3, <3>3, <4>2, <4>3 DEF Returns, Opens, Examines, Extracts
    <3>4. CASE BeginsRules
      BY <2>3, <3>4, NothingComing DEF BeginsRules
    <3> QED
      <4>1. ~ (Finish \/ Compiles \/ BeginsFields)
        <5>1. ~ Compiles
          <6>1. stack # << >> => Top.fn = "checkDefinitionAttrs"
            BY <1>2, <2>3, TopFacts DEF PhaseInv
          <6> QED
            BY <6>1 DEF Compiles, Iterating, InWalk
        <5> QED
          BY <2>3, <5>1 DEF Finish, BeginsFields
      <4> QED
        BY <1>1, <3>2, <3>3, <3>4, <4>1
  <2> QED
    BY <2>1, <2>2, <2>3
<1>7. ASSUME ~ c[d].inDefinition, pc' = "rules"
      PROVE  Coming(c, d)' \/ Examined(c[d])'
  <2>1. CASE BeginsRules
    <3>1. Opened("extractRules") /\ "extractRules" \in {"checkDefinitionAttrs", "extractRules"}
      BY <2>1 DEF BeginsRules
    <3> QED
      BY <1>1, <1>2, <1>3, <1>7, <3>1, AllComing
  <2>2. CASE ~ BeginsRules
    <3>1. pc = "rules" /\ (Rests \/ Returns \/ Opens \/ Examines \/ Extracts)
      <4>1. pc = "rules"
        BY <1>1, <1>7, <2>2 DEF Rests, Finish, Returns, Opens, Examines, Extracts, Compiles,
                                BeginsRules, BeginsFields
      <4>2. ~ Compiles
        <5>1. stack # << >> => Top.fn \in {"extractRules"} \cup Searching
          BY <1>2, <4>1, TopFacts DEF PhaseInv
        <5> QED
          BY <5>1 DEF Compiles, Iterating, InWalk, Searching
      <4> QED
        BY <1>1, <1>7, <2>2, <4>1, <4>2 DEF Finish, BeginsFields
    <3>2. CASE ~ Coming(c, d)
      <4>1. Examined(c[d])
        BY <1>4, <1>7, <3>1, <3>2
      <4> QED
        BY <1>1, <1>3, <3>1, <3>2, <4>1, StillExamined
    <3>3. CASE Coming(c, d) /\ Rests
      <4>1. stack' = stack
        BY <3>3 DEF Rests
      <4> QED
        BY <1>1, <3>3, <4>1 DEF Coming, Frames, Pending, It, Val
    <3>4. CASE Coming(c, d) /\ (Returns \/ Opens \/ Examines \/ Extracts)
      <4>1. Followed(c, d)
        BY <1>7, <3>1 DEF Followed
      <4>2. Coming(c, d)' \/ (AtKid(c, d) /\ (Examines \/ Extracts))
        BY <1>1, <1>3, <3>1, <3>4, <4>1, ComingMoves
      <4> QED
        BY <1>1, <1>3, <1>7, <3>1, <4>2, KidExamined
    <3> QED
      BY <3>1, <3>2, <3>3, <3>4
  <2> QED
    BY <2>1, <2>2
<1>8. ASSUME ~ c[d].inDefinition, pc' \in {"fields", "done"}
      PROVE  Counted(c[d])' /\ ~ Suspect(c[d])
  <2>1. CASE BeginsFields
    <3>1. pc = "rules" /\ stack = << >> /\ rules' = sortBlobRules
      BY <2>1 DEF BeginsFields
    <3>2. Examined(c[d])
      BY <1>4, <1>8, <3>1, NothingComing
    <3>3. c[d].depth = d
      BY <1>2, <1>3, <1>5, LineFacts
    <3>4. ~ Called(c[d])
      <4>1. Len(stack) = 0 /\ d + 1 # 0
        BY <1>5, <3>1
      <4> QED
        BY <3>3, <4>1 DEF Called
    <3>5. Cardinality(RulesAt(c[d])') = Cardinality(RulesAt(c[d]))
      BY <3>1, CountSorted DEF RulesInv
    <3> QED
      BY <1>1, <3>2, <3>4, <3>5, SameSuspicion DEF Examined, Counted
  <2>2. CASE ~ BeginsFields
    <3>1. pc \in {"fields", "done"}
      BY <1>1, <1>8, <2>2 DEF Rests, Finish, Returns, Opens, Examines, Extracts, Compiles,
                              BeginsRules, BeginsFields
    <3>2. rules' = rules
      <4>1. ~ Extracts
        <5>1. stack # << >> => Top.fn = "compileCUEFields"
          BY <1>2, <3>1, TopFacts DEF PhaseInv
        <5> QED
          BY <5>1 DEF Extracts, Iterating, InWalk
      <4> QED
        BY <1>1, <3>1, <4>1, <2>2 DEF Rests, Finish, Returns, Opens, Examines, Compiles, BeginsRules
    <3>3. Counted(c[d]) /\ ~ Suspect(c[d])
      BY <1>4, <1>8, <3>1
    <3>4. RulesAt(c[d])' = RulesAt(c[d])
      BY <3>2 DEF RulesAt
    <3> QED
      BY <1>1, <3>3, <3>4, SameSuspicion DEF Counted
  <2> QED
    BY <2>1, <2>2
<1> QED
  BY <1>6, <1>7, <1>8

\* A place inside neither an element schema nor a definition is a field's.
LEMMA TrailOfLine ==
  ASSUME source \in Sources, Clear, NEW d \in 1 .. MaxDepth + 1, NEW c, Line(c, d),
         ~ c[d].inElement, ~ c[d].inDefinition
  PROVE  \E n : Trail(c[d].path, n)
<1>1. d \in Nat \ {0} /\ d \in 0 .. d
  BY DepthAssumption
<1>2. c[d].path \in Seq(STRING) /\ Len(c[d].path) = d /\ c[d].path \in FieldPath
  <2>1. c[d].path \in Seq(STRING) /\ Len(c[d].path) = d
    BY <1>1, LineFacts
  <2>2. c[d].path # << >>
    BY <1>1, <2>1
  <2> QED
    BY <2>1, <2>2 DEF FieldPath
<1>3. PICK n : n = [j \in 0 .. d |-> c[j].node]
  OBVIOUS
<1>4. \A j \in 0 .. d : n[j] = c[j].node /\ c[j].node \in Nodes
  <2>1. \A j \in 0 .. d : Line(c, j) /\ j \in Nat
    BY <1>1, LinePrefix
  <2> QED
    BY <1>3, <2>1, LineFacts
<1>5. n \in [0 .. d -> Nodes] /\ n[0] = source.root
  BY <1>1, <1>3, <1>4 DEF Line, RootPlace
<1>6. ASSUME NEW j \in Nat, j < d
      PROVE  IsStruct(Val(n[j])) /\ Linked(n[j], c[d].path[j + 1], n[j + 1])
  <2>1. j \in 0 .. d /\ j + 1 \in 0 .. d /\ j + 1 >= 1 /\ j \in 0 .. MaxDepth + 1
    BY <1>1, <1>6, DepthAssumption
  <2>2. PICK k \in DOMAIN Val(c[j].node).kids :
          /\ c[j + 1] = Under(c[j], Val(c[j].node).kids[k])
          /\ Val(c[j].node).kids[k].role \in RoleIn(Val(c[j].node).kind)
          /\ c[d].path[j + 1] = Val(c[j].node).kids[k].name
    <3>1. d \in Nat /\ j < d
      BY <1>1, <1>6
    <3>2. Continues(c, j, c[d].path[j + 1])
      BY <3>1, LineStep
    <3> QED
      BY <3>2 DEF Continues
  <2>3. /\ c[j + 1].node = Val(c[j].node).kids[k].to
        /\ c[j + 1].role = Val(c[j].node).kids[k].role
    BY <2>2, UnderShape
  <2>4. c[j + 1].role \notin {"definition", "element", "ellipsis"}
    BY <1>1, <2>1, LineMarks
  <2>5. Val(c[j].node).kids[k].role \in {"field", "optional"} /\ Val(c[j].node).kind = "struct"
    BY <2>2, <2>3, <2>4 DEF RoleIn
  <2>6. Understood(c[j])
    BY <1>1, <2>1, LinePrefix DEF Clear
  <2>7. IsStruct(Val(c[j].node))
    BY <2>5, <2>6 DEF Understood, IsStruct
  <2>8. Linked(c[j].node, c[d].path[j + 1], c[j + 1].node)
    BY <2>2, <2>3, <2>5 DEF Linked
  <2> QED
    BY <1>4, <2>1, <2>7, <2>8
<1>7. ASSUME NEW j \in 1 .. d
      PROVE  IsStruct(Val(n[j - 1])) /\ Linked(n[j - 1], c[d].path[j], n[j])
  <2>1. PICK i \in Nat : i = j - 1 /\ i + 1 = j /\ i < d
    <3>1. j - 1 \in Nat /\ j - 1 + 1 = j /\ j - 1 < d
      BY <1>1
    <3> QED
      BY <3>1
  <2>2. IsStruct(Val(n[i])) /\ Linked(n[i], c[d].path[i + 1], n[i + 1])
    BY <1>6, <2>1
  <2> QED
    BY <2>1, <2>2, Zenon
<1> QED
  BY <1>2, <1>5, <1>7 DEF Trail

LEMMA Covered == Spec => [](IInv /\ CoverInv)
<1>1. IInv => WalkInv /\ RulesInv
  BY DEF IInv
<1> QED
  BY <1>1, InitIInv, InitPlaced, InitCover, NextIInv, PlacedKept, CoverKept, PTL DEF Spec

\* Of a schema whose shapes the walks understand, New accepts no attribute that
\* validation would not honour: the recursive functions of compile.go leave out
\* no place between them, and the sort of the rules drops and repeats none.
THEOREM NothingIsLost == Spec => []AnalysableLosesNothing
<1>1. IInv /\ CoverInv => AnalysableLosesNothing
  <2> SUFFICES ASSUME IInv, CoverInv, pc = "done", Analysable,
                      NEW p \in Places, p.depth > 0, hasSchemixAttr(Val(p.node))
               PROVE  /\ p.role # "definition"
                      /\ ~ p.inDefinition =>
                           /\ \E k \in DOMAIN fields : fields[k].path = p.path
                           /\ Cardinality({k \in DOMAIN rules : rules[k].path = p.path})
                                = Owed(Val(p.node))
    BY DEF AnalysableLosesNothing, LosesNothing
  <2>1. source \in Sources /\ Clear
    BY AnalysableIsClear DEF IInv, WalkInv, StackInv
  <2>2. PICK d \in 0 .. MaxDepth + 1 : \E c : Line(c, d) /\ c[d] = p
    BY PlaceHasLine
  <2>3. PICK c : Line(c, d) /\ c[d] = p
    BY <2>2
  <2>4. d \in Nat /\ p.depth = d
    BY <2>1, <2>3, LineFacts
  <2>5. d \in 1 .. MaxDepth + 1
    BY <2>4, DepthAssumption
  <2>6. p.role # "definition"
    BY <2>1, <2>3, <2>5 DEF CoverInv
  <2>7. ASSUME ~ p.inDefinition
        PROVE  /\ \E k \in DOMAIN fields : fields[k].path = p.path
               /\ Cardinality({k \in DOMAIN rules : rules[k].path = p.path}) = Owed(Val(p.node))
    <3>1. Counted(p) /\ ~ Suspect(p)
      BY <2>1, <2>3, <2>5, <2>7 DEF CoverInv
    <3>2. ~ p.inElement
      BY <3>1 DEF Suspect
    <3>3. \E n : Trail(p.path, n)
      BY <2>1, <2>3, <2>5, <2>7, <3>2, TrailOfLine
    <3>4. p.path \in FieldPaths
      BY <3>3 DEF IInv, AheadInv
    <3> QED
      BY <3>1, <3>2, <3>4 DEF Counted, RulesAt, FieldPaths
  <2> QED
    BY <2>6, <2>7
<1> QED
  BY <1>1, Covered, PTL

\* New accepts no schema with something left to enter past the depth limit: the
\* recursive functions return an error there instead of turning back.
THEOREM NothingIsTruncated == Spec => []NothingUnexamined
<1>1. IInv /\ CoverInv => NothingUnexamined
  <2> SUFFICES ASSUME IInv, CoverInv, pc = "done", Analysable,
                      NEW p \in Places, p.depth > MaxDepth, ~ p.inDefinition
               PROVE  Val(p.node).kind = "scalar" /\ p.role \in {"field", "optional"}
    BY DEF NothingUnexamined
  <2>1. source \in Sources /\ Clear
    BY AnalysableIsClear DEF IInv, WalkInv, StackInv
  <2>2. PICK d \in 0 .. MaxDepth + 1 : \E c : Line(c, d) /\ c[d] = p
    BY PlaceHasLine
  <2>3. PICK c : Line(c, d) /\ c[d] = p
    BY <2>2
  <2>4. d \in Nat /\ p.depth = d
    BY <2>1, <2>3, LineFacts
  <2>5. d \in 1 .. MaxDepth + 1
    BY <2>4, DepthAssumption
  <2>6. ~ Suspect(p)
    BY <2>1, <2>3, <2>5 DEF CoverInv
  <2> QED
    BY <2>6 DEF Suspect
<1> QED
  BY <1>1, Covered, PTL
=============================================================================
