----------------------------- MODULE WalkProofs -----------------------------
(***************************************************************************)
(* Theorems about SchemaWalk: two recursions over one graph of CUE values, *)
(* cyclic ones included, agree on the fields of the schema they compile.   *)
(***************************************************************************)
EXTENDS SchemaWalk, ListingProofs

Nodes == DOMAIN source.value
Child == [name: STRING, to: Nodes, role: Role]

LEMMA NodeFacts ==
  ASSUME source \in Sources
  PROVE  /\ source.root \in Nodes
         /\ \A x \in Nodes :
              /\ Val(x) \in CUEValue(Nodes) /\ Val(x).kids \in Seq(Child)
              /\ \A j, k \in DOMAIN Val(x).kids :
                   Val(x).kids[j].name = Val(x).kids[k].name => j = k
BY SourceAssumption DEF CUEValue, Val, Nodes, Child

\* KidsWith lists the children of the given roles, each once.
LEMMA KidsFacts ==
  ASSUME source \in Sources, NEW x \in Nodes, NEW roles
  PROVE  LET kids == Val(x).kids
             it == KidsWith(Val(x), roles)
         IN  /\ it \in Seq(Child) /\ Len(it) \in Nat /\ DOMAIN it = 1 .. Len(it)
             /\ \A i \in 1 .. Len(it) : it[i].role \in roles /\ it[i] \in Child
                                        /\ \E k \in DOMAIN kids : it[i] = kids[k]
             /\ \A i, j \in 1 .. Len(it) : it[i].name = it[j].name => i = j
             /\ \A k \in DOMAIN kids : kids[k].role \in roles =>
                  \E i \in 1 .. Len(it) : it[i] = kids[k]
<1> DEFINE kids == Val(x).kids
           K == {i \in DOMAIN kids : kids[i].role \in roles}
           order == Ascending(K)
           it == [n \in DOMAIN order |-> kids[order[n]]]
<1>1. kids \in Seq(Child) /\ Len(kids) \in Nat /\ DOMAIN kids = 1 .. Len(kids)
      /\ \A i \in DOMAIN kids : kids[i] \in Child
  BY NodeFacts, LenProperties, ElementOfSeq
<1>2. \A j, k \in DOMAIN kids : kids[j].name = kids[k].name => j = k
  BY NodeFacts
<1>3. KidsWith(Val(x), roles) = it
  BY DEF KidsWith
<1>4. K \in SUBSET (1 .. Len(kids)) /\ K \in SUBSET Int
  BY <1>1
<1>5. IsFiniteSet(1 .. Len(kids))
  BY <1>1, FS_Interval
<1>6. IsFiniteSet(K)
  BY <1>4, <1>5, FS_Subset
<1> HIDE DEF K, kids
<1>7. /\ Cardinality(K) \in Nat /\ DOMAIN order = 1 .. Cardinality(K)
      /\ \A n \in 1 .. Cardinality(K) : order[n] \in K
      /\ \A k \in K : \E n \in 1 .. Cardinality(K) : order[n] = k
      /\ \A m, n \in 1 .. Cardinality(K) : m < n => order[m] < order[n]
  BY <1>4, <1>6, AscendingOrder
<1> HIDE DEF order
<1>8. /\ it \in [1 .. Cardinality(K) -> Child]
      /\ \A n \in 1 .. Cardinality(K) : it[n] = kids[order[n]]
  BY <1>1, <1>4, <1>7
<1> HIDE DEF it
<1>9. it \in Seq(Child) /\ Len(it) = Cardinality(K) /\ DOMAIN it = 1 .. Cardinality(K)
  BY <1>7, <1>8, IsASeq, LenProperties
<1>10. \A k : k \in K <=> k \in DOMAIN kids /\ kids[k].role \in roles
  BY DEF K
<1>11. \A i, j \in 1 .. Cardinality(K) : order[i] = order[j] => i = j
  <2> SUFFICES ASSUME NEW i \in 1 .. Cardinality(K), NEW j \in 1 .. Cardinality(K),
                      order[i] = order[j], i # j PROVE FALSE
    OBVIOUS
  <2>1. order[i] \in Int /\ order[j] \in Int
    BY <1>4, <1>7
  <2> QED
    BY <1>7, <2>1
<1>12. \A i, j \in 1 .. Cardinality(K) : it[i].name = it[j].name => i = j
  BY <1>2, <1>7, <1>8, <1>10, <1>11
<1>13. \A k \in DOMAIN kids : kids[k].role \in roles => \E i \in 1 .. Cardinality(K) : it[i] = kids[k]
  BY <1>7, <1>8, <1>10
<1>14. \A i \in 1 .. Cardinality(K) :
         it[i].role \in roles /\ it[i] \in Child /\ \E k \in DOMAIN kids : it[i] = kids[k]
  BY <1>7, <1>8, <1>10
<1> QED
  BY <1>3, <1>7, <1>9, <1>12, <1>13, <1>14 DEF kids

Recording == {"extractRules", "compileCUEFields"}

\* What the two recording walks iterate: the fields, each name once.
LEMMA IterationFacts ==
  ASSUME source \in Sources, NEW fn, NEW x \in Nodes
  PROVE  LET it == Iterated(fn, Val(x))
             kids == Val(x).kids
         IN  /\ it \in Seq(Child) /\ Len(it) \in Nat /\ DOMAIN it = 1 .. Len(it)
             /\ \A i \in 1 .. Len(it) : it[i] \in Child /\ \E k \in DOMAIN kids : it[i] = kids[k]
             /\ \A i, j \in 1 .. Len(it) : it[i].name = it[j].name => i = j
             /\ fn \in Recording =>
                  /\ \A i \in 1 .. Len(it) : it[i].role \in {"field", "optional"}
                  /\ \A k \in DOMAIN kids : kids[k].role \in {"field", "optional"} =>
                       \E i \in 1 .. Len(it) : it[i] = kids[k]
<1>1. \E roles : /\ Iterated(fn, Val(x)) = KidsWith(Val(x), roles)
                 /\ fn \in Recording => roles = {"field", "optional"}
  BY DEF Iterated, Recording
<1>2. PICK roles : /\ Iterated(fn, Val(x)) = KidsWith(Val(x), roles)
                   /\ fn \in Recording => roles = {"field", "optional"}
  BY <1>1
<1> QED
  BY <1>2, KidsFacts

----------------------------------------------------------------------------
(* The stack of calls.                                                     *)

Call == [fn: Walks, node: Nodes, path: Seq(STRING), depth: Nat, next: Nat]

It(l) == Iterated(stack[l].fn, Val(stack[l].node))

Frames == 1 .. Len(stack)

\* Frame l is the call for a path of l - 1 names, and the frames above it are
\* those of the child it has just passed.
FrameOK(l) ==
  /\ stack[l].next <= Len(It(l)) + 1
  /\ Len(stack[l].path) = l - 1 /\ stack[l].depth = l - 1
  /\ l = 1 => stack[l].node = source.root

Above(l, m) ==
  /\ stack[l].next >= 2
  /\ stack[m].path[l] = It(l)[stack[l].next - 1].name
  /\ m = l + 1 => stack[m].node = It(l)[stack[l].next - 1].to

StackInv ==
  /\ source \in Sources
  /\ stack \in Seq(Call)
  /\ \A l \in Frames : FrameOK(l)
  /\ \A l, m \in Frames : l < m => Above(l, m)

\* Pointwise, what a step may do to the stack.
Opened(fn) ==
  /\ stack' \in Seq(Call) /\ Len(stack') = 1
  /\ stack'[1] = Frame(fn, source.root, << >>, 0)

Popped ==
  /\ stack' \in Seq(Call) /\ Len(stack') = Len(stack) - 1
  /\ \A l \in 1 .. Len(stack) - 1 : stack'[l] = stack[l]

Passed ==
  /\ \A l \in 1 .. Len(stack) - 1 : stack'[l] = stack[l]
  /\ stack'[Len(stack)].next = Top.next + 1
  /\ stack'[Len(stack)].fn = Top.fn /\ stack'[Len(stack)].node = Top.node
  /\ stack'[Len(stack)].path = Top.path /\ stack'[Len(stack)].depth = Top.depth

Stepped == stack' \in Seq(Call) /\ Len(stack') = Len(stack) /\ Passed

Pushed(fn) ==
  /\ stack' \in Seq(Call) /\ Len(stack') = Len(stack) + 1 /\ Passed
  /\ stack'[Len(stack) + 1] = Frame(fn, Kid.to, KidPath, Top.depth + 1)

LEMMA TopFacts ==
  ASSUME StackInv, stack # << >>
  PROVE  /\ Len(stack) \in Nat \ {0} /\ Len(stack) \in Frames /\ Top = stack[Len(stack)]
         /\ Top \in Call /\ \A l \in Frames : stack[l] \in Call
         /\ Iteration = It(Len(stack))
<1>1. stack \in Seq(Call)
  BY DEF StackInv
<1>2. Len(stack) \in Nat /\ Len(stack) # 0
  BY <1>1, EmptySeq, LenProperties
<1> QED
  BY <1>1, <1>2, ElementOfSeq DEF Frames, Top, Iteration, It, Here

LEMMA KidInCall ==
  ASSUME StackInv, stack # << >>, Iterating
  PROVE  /\ Kid \in Child /\ KidPath \in Seq(STRING) /\ Len(KidPath) = Len(stack)
         /\ KidPath[Len(stack)] = Kid.name
         /\ \A j \in 1 .. Len(stack) - 1 : KidPath[j] = Top.path[j]
         /\ KidPath \in FieldPath /\ Top.next \in 1 .. Len(Iteration)
<1>1. /\ Len(stack) \in Nat \ {0} /\ Top \in Call /\ Iteration = It(Len(stack))
      /\ Top = stack[Len(stack)] /\ Len(stack) \in Frames
  BY TopFacts
<1>2. Top.node \in Nodes /\ Top.path \in Seq(STRING) /\ Len(Top.path) = Len(stack) - 1
  BY <1>1 DEF StackInv, FrameOK, Call
<1>3. \A i \in 1 .. Len(Iteration) : Iteration[i] \in Child
  BY <1>2, IterationFacts DEF Iteration, Here, StackInv
<1>4. Top.next \in 1 .. Len(Iteration) /\ Kid \in Child
  BY <1>3 DEF Iterating, Kid
<1>5. Kid.name \in STRING
  BY <1>4 DEF Child
<1>6. /\ KidPath \in Seq(STRING) /\ Len(KidPath) = Len(stack)
      /\ KidPath[Len(stack)] = Kid.name
      /\ \A j \in 1 .. Len(stack) - 1 : KidPath[j] = Top.path[j]
  BY <1>1, <1>2, <1>5, AppendProperties DEF KidPath
<1>7. KidPath # << >>
  BY <1>1, <1>6
<1> QED
  BY <1>4, <1>6, <1>7 DEF FieldPath

LEMMA FrameIsCall ==
  ASSUME NEW fn \in Walks, NEW x \in Nodes, NEW p \in Seq(STRING), NEW d \in Nat
  PROVE  /\ Frame(fn, x, p, d) \in Call
         /\ Frame(fn, x, p, d).fn = fn /\ Frame(fn, x, p, d).node = x
         /\ Frame(fn, x, p, d).path = p /\ Frame(fn, x, p, d).depth = d
         /\ Frame(fn, x, p, d).next = 0
BY DEF Frame, Call

LEMMA NextCall ==
  ASSUME NEW t \in Call
  PROVE  \E u \in Call : /\ u = [t EXCEPT !.next = t.next + 1]
                         /\ u.next = t.next + 1 /\ u.fn = t.fn /\ u.node = t.node
                         /\ u.path = t.path /\ u.depth = t.depth
<1> DEFINE u == [t EXCEPT !.next = t.next + 1]
<1>1. t.next + 1 \in Nat
  BY DEF Call
<1>2. u \in Call
  BY <1>1, Zenon DEF Call
<1>3. /\ u.next = t.next + 1 /\ u.fn = t.fn /\ u.node = t.node
      /\ u.path = t.path /\ u.depth = t.depth
  BY Zenon DEF Call
<1> QED
  BY <1>2, <1>3, Zenon

LEMMA AdvancedIs ==
  ASSUME StackInv, stack # << >>
  PROVE  /\ Advanced \in Seq(Call) /\ Len(Advanced) = Len(stack)
         /\ \A l \in 1 .. Len(stack) - 1 : Advanced[l] = stack[l]
         /\ Advanced[Len(stack)].next = Top.next + 1
         /\ Advanced[Len(stack)].fn = Top.fn /\ Advanced[Len(stack)].node = Top.node
         /\ Advanced[Len(stack)].path = Top.path /\ Advanced[Len(stack)].depth = Top.depth
<1>1. /\ Len(stack) \in Nat \ {0} /\ Top \in Call /\ Top = stack[Len(stack)]
      /\ Len(stack) \in Frames /\ stack \in Seq(Call) /\ DOMAIN stack = Frames
  BY TopFacts, LenProperties DEF StackInv, Frames
<1>2. PICK top \in Call : /\ top = [Top EXCEPT !.next = Top.next + 1]
                          /\ top.next = Top.next + 1 /\ top.fn = Top.fn /\ top.node = Top.node
                          /\ top.path = Top.path /\ top.depth = Top.depth
  BY <1>1, NextCall, Zenon
<1>3. Advanced = [stack EXCEPT ![Len(stack)] = top]
  BY <1>1, <1>2, Zenon DEF Advanced
<1>4. Advanced \in Seq(Call) /\ Len(Advanced) = Len(stack)
  BY <1>1, <1>2, <1>3, ExceptSeq DEF Frames
<1>5. Advanced[Len(stack)] = top /\ \A l \in 1 .. Len(stack) - 1 : Advanced[l] = stack[l]
  BY <1>1, <1>3 DEF Frames
<1> QED
  BY <1>2, <1>4, <1>5

LEMMA StepOverSteps ==
  ASSUME StackInv, stack # << >>, StepOver
  PROVE  Stepped
BY AdvancedIs DEF StepOver, Stepped, Passed

LEMMA DescendPushes ==
  ASSUME StackInv, stack # << >>, Iterating, NEW fn \in Walks, Descend(fn), source' = source
  PROVE  Pushed(fn)
<1> DEFINE f == Frame(fn, Kid.to, KidPath, Top.depth + 1)
<1>1. Kid.to \in Nodes /\ KidPath \in Seq(STRING) /\ Top.depth + 1 \in Nat
  BY KidInCall, TopFacts DEF Child, Call
<1>2. f \in Call
  BY <1>1, FrameIsCall
<1>3. /\ Advanced \in Seq(Call) /\ Len(Advanced) = Len(stack) /\ Len(stack) \in Nat \ {0}
      /\ \A l \in 1 .. Len(stack) - 1 : Advanced[l] = stack[l]
      /\ Advanced[Len(stack)].next = Top.next + 1
      /\ Advanced[Len(stack)].fn = Top.fn /\ Advanced[Len(stack)].node = Top.node
      /\ Advanced[Len(stack)].path = Top.path /\ Advanced[Len(stack)].depth = Top.depth
  BY AdvancedIs, TopFacts
<1>4. stack' = Append(Advanced, f)
  BY DEF Descend
<1> HIDE DEF f
<1>5. /\ stack' \in Seq(Call) /\ Len(stack') = Len(stack) + 1 /\ stack'[Len(stack) + 1] = f
      /\ \A l \in 1 .. Len(stack) : stack'[l] = Advanced[l]
  BY <1>2, <1>3, <1>4, AppendProperties
<1> QED
  BY <1>3, <1>5 DEF Pushed, Passed, f

LEMMA ReturnPops ==
  ASSUME StackInv, stack # << >>, Return
  PROVE  Popped
<1>1. stack \in Seq(Call) /\ Len(stack) \in Nat \ {0}
  BY TopFacts DEF StackInv
<1>2. stack' = SubSeq(stack, 1, Len(stack) - 1)
  BY DEF Return, Front
<1>3. /\ SubSeq(stack, 1, Len(stack) - 1) \in Seq(Call)
      /\ Len(SubSeq(stack, 1, Len(stack) - 1)) = Len(stack) - 1
      /\ \A i \in 1 .. Len(stack) - 1 : SubSeq(stack, 1, Len(stack) - 1)[i] = stack[i]
  BY <1>1, SubSeqProperties
<1> QED
  BY <1>2, <1>3 DEF Popped

\* A frame whose function and value stay iterates the same children.
LEMMA SameIteration ==
  ASSUME NEW l, source' = source, stack'[l].fn = stack[l].fn, stack'[l].node = stack[l].node
  PROVE  It(l)' = It(l)
BY DEF It, Val

LEMMA NodesKept ==
  ASSUME source' = source
  PROVE  Nodes' = Nodes /\ Call' = Call /\ Child' = Child
BY DEF Nodes, Call, Child

LEMMA StackOpened ==
  ASSUME source \in Sources, source' = source, NEW fn \in Walks, Opened(fn)
  PROVE  StackInv'
<1>1. /\ stack'[1].node = source.root /\ stack'[1].path = << >> /\ stack'[1].depth = 0
      /\ stack'[1].next = 0 /\ stack'[1].fn = fn
  BY DEF Opened, Frame
<1>2. stack' \in Seq(Call)' /\ Len(stack') = 1 /\ Frames' = {1}
  BY NodesKept DEF Opened, Frames
<1>3. Len(It(1)') \in Nat
  BY <1>1, NodeFacts, IterationFacts, NodesKept DEF It, Nodes, Val
<1>4. Len(<< >>) = 0
  OBVIOUS
<1>5. FrameOK(1)'
  BY <1>1, <1>3, <1>4 DEF FrameOK
<1> QED
  BY <1>2, <1>5 DEF StackInv

LEMMA StackPopped ==
  ASSUME StackInv, stack # << >>, source' = source, Popped
  PROVE  StackInv'
<1>1. Len(stack) \in Nat \ {0}
  BY TopFacts
<1>2. /\ stack' \in Seq(Call)' /\ Frames' = 1 .. Len(stack) - 1 /\ Frames' \subseteq Frames
      /\ \A l \in Frames' : stack'[l] = stack[l]
  BY <1>1, NodesKept DEF Popped, Frames
<1>3. \A l \in Frames' : It(l)' = It(l)
  BY <1>2, SameIteration
<1>4. \A l \in Frames' : FrameOK(l)'
  BY <1>2, <1>3 DEF StackInv, FrameOK
<1>5. ASSUME NEW l \in Frames', NEW m \in Frames', l < m
      PROVE  Above(l, m)'
  <2>1. Above(l, m) /\ stack'[l] = stack[l] /\ stack'[m] = stack[m] /\ It(l)' = It(l)
    BY <1>2, <1>3, <1>5 DEF StackInv
  <2> QED
    BY <2>1 DEF Above
<1> QED
  BY <1>2, <1>4, <1>5 DEF StackInv

\* What Stepped and Pushed have in common, of the frames there were.
LEMMA OldFrames ==
  ASSUME StackInv, stack # << >>, source' = source, Passed, Top.next <= Len(Iteration)
  PROVE  /\ \A l \in Frames : /\ stack'[l].fn = stack[l].fn /\ stack'[l].node = stack[l].node
                              /\ stack'[l].path = stack[l].path /\ stack'[l].depth = stack[l].depth
                              /\ It(l)' = It(l) /\ FrameOK(l)'
         /\ \A l, m \in Frames : l < m => stack'[l] = stack[l] /\ Above(l, m)'
<1> DEFINE t == Len(stack)
<1>1. t \in Nat \ {0} /\ t \in Frames /\ Top = stack[t] /\ Iteration = It(t)
      /\ Top \in Call /\ Top.next \in Nat /\ Top.node \in Nodes
  BY TopFacts DEF Call
<1>2. /\ Frames = 1 .. t
      /\ \A l \in 1 .. t - 1 : stack'[l] = stack[l]
      /\ stack'[t].next = Top.next + 1
      /\ stack'[t].fn = Top.fn /\ stack'[t].node = Top.node
      /\ stack'[t].path = Top.path /\ stack'[t].depth = Top.depth
  BY <1>1 DEF Passed, Frames
<1>3. Len(It(t)) \in Nat
  BY <1>1, IterationFacts DEF StackInv, It
<1> HIDE DEF t
<1>4. ASSUME NEW l \in Frames
      PROVE  /\ stack'[l].fn = stack[l].fn /\ stack'[l].node = stack[l].node
             /\ stack'[l].path = stack[l].path /\ stack'[l].depth = stack[l].depth
             /\ It(l)' = It(l) /\ FrameOK(l)'
  <2>1. /\ stack'[l].fn = stack[l].fn /\ stack'[l].node = stack[l].node
        /\ stack'[l].path = stack[l].path /\ stack'[l].depth = stack[l].depth
    <3>1. CASE l = t
      BY <3>1, <1>1, <1>2
    <3>2. CASE l # t
      BY <3>2, <1>1, <1>2
    <3> QED
      BY <3>1, <3>2
  <2>2. It(l)' = It(l)
    BY <2>1, SameIteration
  <2>3. FrameOK(l)
    BY DEF StackInv
  <2>4. stack'[l].next <= Len(It(l)) + 1
    <3>1. CASE l = t
      BY <3>1, <1>1, <1>2, <1>3
    <3>2. CASE l # t
      <4>1. stack'[l] = stack[l]
        BY <3>2, <1>1, <1>2
      <4> QED
        BY <2>3, <4>1 DEF FrameOK
    <3> QED
      BY <3>1, <3>2
  <2> QED
    BY <2>1, <2>2, <2>3, <2>4 DEF FrameOK
<1>5. ASSUME NEW l \in Frames, NEW m \in Frames, l < m
      PROVE  stack'[l] = stack[l] /\ Above(l, m)'
  <2>1. stack'[l] = stack[l]
    BY <1>1, <1>2, <1>5
  <2>2. Above(l, m) /\ It(l)' = It(l) /\ stack'[m].path = stack[m].path /\ stack'[m].node = stack[m].node
    BY <1>4, <1>5 DEF StackInv
  <2> QED
    BY <2>1, <2>2 DEF Above
<1> QED
  BY <1>4, <1>5

LEMMA StackStepped ==
  ASSUME StackInv, stack # << >>, source' = source, Stepped, Top.next <= Len(Iteration)
  PROVE  StackInv'
<1>1. stack' \in Seq(Call)' /\ Frames' = Frames /\ Passed
  BY NodesKept DEF Stepped, Frames
<1> QED
  BY <1>1, OldFrames DEF StackInv

LEMMA StackPushed ==
  ASSUME StackInv, stack # << >>, source' = source, NEW fn \in Walks, Iterating, Pushed(fn)
  PROVE  /\ StackInv'
         /\ Frames' = Frames \cup {Len(stack) + 1}
         /\ stack'[Len(stack) + 1].fn = fn /\ stack'[Len(stack) + 1].next = 0
         /\ stack'[Len(stack) + 1].node = Kid.to /\ stack'[Len(stack) + 1].path = KidPath
<1>0. PICK t \in Nat : t = Len(stack)
  BY TopFacts
<1>1. t \in Nat \ {0} /\ t \in Frames /\ Top = stack[t] /\ Iteration = It(t)
      /\ Top \in Call /\ Top.next \in Nat /\ Top.depth \in Nat
  BY <1>0, TopFacts DEF Call
<1>2. /\ stack' \in Seq(Call)' /\ Frames' = 1 .. t + 1 /\ Frames = 1 .. t /\ Passed
      /\ stack'[t + 1] = Frame(fn, Kid.to, KidPath, Top.depth + 1)
  BY <1>0, <1>1, NodesKept DEF Pushed, Frames
<1>3. /\ Kid \in Child /\ Kid.to \in Nodes /\ Len(KidPath) = t /\ KidPath[t] = Kid.name
      /\ \A j \in 1 .. t - 1 : KidPath[j] = Top.path[j]
      /\ Top.next \in 1 .. Len(Iteration) /\ KidPath \in Seq(STRING)
  BY <1>0, KidInCall DEF Child
<1>4. Len(It(t)) \in Nat /\ Kid = It(t)[Top.next] /\ Top.next <= Len(Iteration) /\ Top.depth = t - 1
  BY <1>1, <1>3, IterationFacts DEF StackInv, FrameOK, It, Call, Kid
<1>5. /\ \A l \in Frames : /\ stack'[l].path = stack[l].path /\ It(l)' = It(l) /\ FrameOK(l)'
      /\ \A l, m \in Frames : l < m => stack'[l] = stack[l] /\ Above(l, m)'
      /\ stack'[t].next = Top.next + 1
  BY <1>0, <1>2, <1>4, OldFrames DEF Passed
<1>6. /\ stack'[t + 1].node = Kid.to /\ stack'[t + 1].path = KidPath
      /\ stack'[t + 1].depth = t /\ stack'[t + 1].next = 0 /\ stack'[t + 1].fn = fn
  BY <1>1, <1>2, <1>4 DEF Frame
<1>7. Frames' = Frames \cup {t + 1}
  BY <1>1, <1>2
<1>8. FrameOK(t + 1)'
  <2>1. Len(It(t + 1)') \in Nat
    BY <1>3, <1>6, IterationFacts DEF StackInv, It, Val
  <2> QED
    BY <2>1, <1>1, <1>3, <1>6 DEF FrameOK
<1>9. \A l \in Frames : Above(l, t + 1)'
  <2> TAKE l \in Frames
  <2>1. CASE l = t
    <3>1. It(l)' = It(t) /\ stack'[l].next - 1 = Top.next /\ stack'[l].next >= 2
      BY <2>1, <1>1, <1>3, <1>5
    <3> QED
      BY <2>1, <3>1, <1>3, <1>4, <1>6 DEF Above
  <2>2. CASE l # t
    <3>1. l < t /\ l \in 1 .. t - 1 /\ t + 1 # l + 1
      BY <2>2, <1>1, <1>2
    <3>2. stack'[l] = stack[l] /\ It(l)' = It(l) /\ Above(l, t)
      BY <3>1, <1>1, <1>5 DEF StackInv
    <3>3. stack'[t + 1].path[l] = stack[t].path[l]
      BY <3>1, <1>1, <1>3, <1>6
    <3> QED
      BY <3>1, <3>2, <3>3 DEF Above
  <2> QED
    BY <2>1, <2>2
<1>10. \A l, m \in Frames' : l < m => Above(l, m)'
  <2> TAKE l, m \in Frames'
  <2> HAVE l < m
  <2>1. l \in Frames
    BY <1>1, <1>2
  <2> QED
    BY <2>1, <1>5, <1>7, <1>9
<1> QED
  BY <1>0, <1>2, <1>5, <1>6, <1>7, <1>8, <1>10 DEF StackInv

----------------------------------------------------------------------------
(* Which walk is under way, and what it may call.                          *)

Searching == {"findAttrInListElements", "findAttrInElementSchema"}

\* The rules are extracted before the first descriptor is compiled.
PhaseInv ==
  /\ pc \in {"definitions", "rules", "fields", "done", "failed"}
  /\ pc \in {"definitions", "rules"} => fields = << >>
  /\ pc = "definitions" => rules = << >> /\ \A l \in Frames : stack[l].fn = "checkDefinitionAttrs"
  /\ pc = "rules" =>
       /\ \A l \in Frames : stack[l].fn \in {"extractRules"} \cup Searching
       /\ \A l, m \in Frames : l < m /\ stack[m].fn = "extractRules" => stack[l].fn = "extractRules"
  /\ pc = "fields" => \A l \in Frames : stack[l].fn = "compileCUEFields"
  /\ pc = "done" => stack = << >>

\* Only a struct is iterated for its fields.
StructInv ==
  \A l \in Frames : stack[l].fn \in Recording /\ stack[l].next >= 1 => IsStruct(Val(stack[l].node))

WalkInv == StackInv /\ PhaseInv /\ StructInv

LEMMA WalkInit == Init => WalkInv
<1> SUFFICES ASSUME Init PROVE WalkInv
  OBVIOUS
<1>1. source \in Sources /\ source.root \in Nodes
  BY NodeFacts DEF Init
<1>2. /\ Frame("checkDefinitionAttrs", source.root, << >>, 0) \in Call
      /\ stack = <<Frame("checkDefinitionAttrs", source.root, << >>, 0)>>
  <2>1. << >> \in Seq(STRING) /\ 0 \in Nat /\ "checkDefinitionAttrs" \in Walks
    BY DEF Walks
  <2> QED
    BY <1>1, <2>1, FrameIsCall DEF Init
<1>3. /\ stack \in Seq(Call) /\ Len(stack) = 1 /\ Frames = {1}
      /\ stack[1] = Frame("checkDefinitionAttrs", source.root, << >>, 0)
  BY <1>2 DEF Frames
<1>4. /\ stack[1].fn = "checkDefinitionAttrs" /\ stack[1].node = source.root
      /\ stack[1].path = << >> /\ stack[1].depth = 0 /\ stack[1].next = 0
  BY <1>3 DEF Frame
<1>5. Len(It(1)) \in Nat
  BY <1>1, <1>4, IterationFacts DEF It
<1>6. FrameOK(1)
  BY <1>4, <1>5 DEF FrameOK
<1>7. StackInv
  BY <1>1, <1>3, <1>6 DEF StackInv
<1>8. PhaseInv /\ StructInv
  BY <1>3, <1>4 DEF Init, PhaseInv, StructInv, Recording
<1> QED
  BY <1>7, <1>8 DEF WalkInv

----------------------------------------------------------------------------
(* The forms of a step.                                                    *)

\* Refused, over, or stuttering.
Rests == UNCHANGED <<stack, rules, fields>> /\ pc' \in {pc, "failed"}

Returns ==
  /\ InWalk /\ Popped /\ UNCHANGED <<pc, rules, fields>>
  /\ \/ /\ Top.next = 0 /\ Outcome(Top, Here) = "return"
        /\ Top.fn \in Recording => ~IsStruct(Here)
     \/ Top.next = Len(Iteration) + 1

Opens ==
  /\ Calling /\ Outcome(Top, Here) = "open" /\ Stepped /\ UNCHANGED <<pc, rules, fields>>
  /\ Top.fn \in Recording => IsStruct(Here)
  /\ Top.fn # "compileCUEFields" => Top.depth <= MaxDepth

\* Past a child that yields neither rule nor descriptor.
Examines ==
  /\ Iterating /\ Top.fn \notin Recording /\ UNCHANGED <<pc, rules, fields>>
  /\ \/ /\ Top.fn = "checkDefinitionAttrs"
        /\ Kid.role = "definition" => ~hasSchemixAttr(KidValue)
        /\ \/ IsStruct(KidValue) /\ Pushed("checkDefinitionAttrs")
           \/ ~IsStruct(KidValue) /\ Stepped
     \/ Top.fn = "findAttrInListElements" /\ Pushed("findAttrInElementSchema")
     \/ /\ Top.fn = "findAttrInElementSchema" /\ ~hasSchemixAttr(KidValue)
        /\ \/ \E fn \in Searching : fn = Searches(KidValue) /\ Pushed(fn)
           \/ Searches(KidValue) = "none" /\ Stepped

Extracts ==
  /\ Iterating /\ Top.fn = "extractRules" /\ ~ MetaFails(KidValue) /\ UNCHANGED <<pc, fields>>
  /\ rules' = rules \o RulesOf(KidValue, KidPath, Kid.role = "optional")
  /\ \/ IsStruct(KidValue) /\ Pushed("extractRules")
     \/ ~IsStruct(KidValue) /\ IsList(KidValue) /\ Pushed("findAttrInListElements")
     \/ ~IsStruct(KidValue) /\ ~IsList(KidValue) /\ Stepped

Compiles ==
  /\ Iterating /\ Top.fn = "compileCUEFields" /\ UNCHANGED <<pc, rules>>
  /\ fields' = Append(fields, FieldOf(KidValue, KidPath, Kid.role = "optional"))
  /\ \/ Pushed("compileCUEFields") /\ IsStruct(KidValue)
     \/ ~IsStruct(KidValue) /\ Stepped

BeginsRules ==
  /\ stack = << >> /\ pc = "definitions" /\ pc' = "rules" /\ Opened("extractRules")
  /\ UNCHANGED <<rules, fields>>

BeginsFields ==
  /\ stack = << >> /\ pc = "rules" /\ pc' = "fields" /\ Opened("compileCUEFields")
  /\ rules' = sortBlobRules /\ UNCHANGED fields

LEMMA OpenedIs ==
  ASSUME source \in Sources, NEW fn \in Walks, stack' = <<Frame(fn, source.root, << >>, 0)>>
  PROVE  Opened(fn)
<1>1. source.root \in Nodes /\ << >> \in Seq(STRING) /\ 0 \in Nat
  BY NodeFacts
<1>2. Frame(fn, source.root, << >>, 0) \in Call
  BY <1>1, FrameIsCall
<1> QED
  BY <1>2 DEF Opened

LEMMA StepForms ==
  ASSUME WalkInv, [Next]_vars
  PROVE  /\ source' = source
         /\ \/ Rests \/ Finish \/ Returns \/ Opens \/ Examines
            \/ Extracts \/ Compiles \/ BeginsRules \/ BeginsFields
<1> USE DEF WalkInv
<1>0. \A fn \in Recording \cup Searching : fn \in Walks
  BY DEF Recording, Searching, Walks
<1>1. CASE RejectCall
  BY <1>1 DEF RejectCall, Reject, Rests
<1>2. CASE ReturnAtOnce
  <2>1. Top.fn \in Recording => ~IsStruct(Here)
    BY <1>2 DEF ReturnAtOnce, Outcome, Recording
  <2> QED
    BY <1>2, <2>1, ReturnPops DEF ReturnAtOnce, Calling, InWalk, Return, Returns
<1>3. CASE OpenFields
  <2>1. Top.fn \in Recording => IsStruct(Here)
    BY <1>3 DEF OpenFields, Outcome, Recording
  <2>2. Top.fn # "compileCUEFields" => Top.depth <= MaxDepth
    <3>1. Top.fn # "compileCUEFields" => ~ (Top.depth > MaxDepth)
      BY <1>3 DEF OpenFields, Outcome
    <3>2. Top.depth \in Nat /\ MaxDepth \in Nat
      BY <1>3, TopFacts, DepthAssumption DEF OpenFields, Calling, InWalk, Call
    <3> QED
      BY <3>1, <3>2
  <2> QED
    BY <1>3, <2>1, <2>2, StepOverSteps DEF OpenFields, Calling, InWalk, Opens
<1>4. CASE ReturnAtEnd
  BY <1>4, ReturnPops DEF ReturnAtEnd, InWalk, Return, Returns
<1>5. CASE CheckDefinition
  <2>1. CASE Reject
    BY <2>1 DEF Reject, Rests
  <2>2. CASE /\ ~ (Kid.role = "definition" /\ hasSchemixAttr(KidValue))
             /\ IF IsStruct(KidValue) THEN Descend("checkDefinitionAttrs") ELSE StepOver
             /\ UNCHANGED <<source, pc, rules, fields>>
    <3>1. /\ stack # << >>
          /\ \/ IsStruct(KidValue) /\ Pushed("checkDefinitionAttrs")
             \/ ~IsStruct(KidValue) /\ Stepped
      BY <1>5, <2>2, StepOverSteps, DescendPushes DEF CheckDefinition, Iterating, InWalk, Walks
    <3> QED
      BY <1>5, <2>2, <3>1 DEF CheckDefinition, Examines, Recording
  <2> QED
    BY <1>5, <2>1, <2>2 DEF CheckDefinition
<1>6. CASE RejectField
  BY <1>6 DEF RejectField, Reject, Rests
<1>7. CASE ExtractField
  <2>1. CASE IsStruct(KidValue) /\ Descend("extractRules")
    BY <1>7, <2>1, DescendPushes DEF ExtractField, Iterating, InWalk, Extracts, Walks
  <2>2. CASE ~IsStruct(KidValue) /\ IsList(KidValue) /\ Descend("findAttrInListElements")
    BY <1>7, <2>2, DescendPushes DEF ExtractField, Iterating, InWalk, Extracts, Walks
  <2>3. CASE ~IsStruct(KidValue) /\ ~IsList(KidValue) /\ StepOver
    BY <1>7, <2>3, StepOverSteps DEF ExtractField, Iterating, InWalk, Extracts
  <2> QED
    BY <1>7, <2>1, <2>2, <2>3 DEF ExtractField
<1>8. CASE SearchElement
  BY <1>8, DescendPushes
     DEF SearchElement, Iterating, InWalk, Examines, Recording, Searching, Walks
<1>9. CASE SearchElementField
  <2>1. CASE Reject
    BY <2>1 DEF Reject, Rests
  <2>2. CASE /\ ~hasSchemixAttr(KidValue) /\ UNCHANGED <<source, pc, rules, fields>>
             /\ \/ \E fn \in Searching : fn = Searches(KidValue) /\ Descend(fn)
                \/ Searches(KidValue) = "none" /\ StepOver
    <3>1. Iterating /\ stack # << >> /\ Top.fn = "findAttrInElementSchema"
      BY <1>9 DEF SearchElementField, Iterating, InWalk
    <3>2. \/ \E fn \in Searching : fn = Searches(KidValue) /\ Pushed(fn)
          \/ Searches(KidValue) = "none" /\ Stepped
      BY <2>2, <3>1, <1>0, StepOverSteps, DescendPushes
    <3> QED
      BY <2>2, <3>1, <3>2 DEF Examines, Recording
  <2> QED
    BY <1>9, <2>1, <2>2 DEF SearchElementField, Searches, Searching
<1>10. CASE CompileField
  <2>1. CASE IsStruct(KidValue) /\ Descend("compileCUEFields")
    BY <1>10, <2>1, DescendPushes DEF CompileField, Iterating, InWalk, Compiles, Walks
  <2>2. CASE ~IsStruct(KidValue) /\ StepOver
    BY <1>10, <2>2, StepOverSteps DEF CompileField, Iterating, InWalk, Compiles
  <2> QED
    BY <1>10, <2>1, <2>2 DEF CompileField
<1>11. CASE ExtractRules
  BY <1>0, <1>11, OpenedIs DEF ExtractRules, StartWalk, BeginsRules, StackInv, Recording
<1>12. CASE SortAndCompile
  BY <1>0, <1>12, OpenedIs DEF SortAndCompile, StartWalk, BeginsFields, StackInv, Recording
<1>13. CASE Finish
  BY <1>13 DEF Finish
<1>14. CASE UNCHANGED vars
  BY <1>14 DEF vars, Rests
<1> QED
  BY <1>1, <1>2, <1>3, <1>4, <1>5, <1>6, <1>7, <1>8, <1>9, <1>10, <1>11, <1>12, <1>13, <1>14
     DEF Next, Step, Ended

LEMMA FramesPopped ==
  ASSUME StackInv, stack # << >>, Popped
  PROVE  /\ Frames' = Frames \ {Len(stack)} /\ Frames' \subseteq Frames
         /\ \A l \in Frames' : stack'[l] = stack[l] /\ l < Len(stack)
BY TopFacts DEF Popped, Frames

LEMMA FramesPassed ==
  ASSUME StackInv, stack # << >>, Passed
  PROVE  /\ \A l \in Frames : l = Len(stack) \/ (l < Len(stack) /\ stack'[l] = stack[l])
         /\ stack'[Len(stack)].next = Top.next + 1
         /\ stack'[Len(stack)].fn = Top.fn /\ stack'[Len(stack)].node = Top.node
BY TopFacts DEF Passed, Frames

LEMMA FramesStepped ==
  ASSUME StackInv, stack # << >>, source' = source, Stepped, Top.next <= Len(Iteration)
  PROVE  /\ StackInv' /\ Frames' = Frames
         /\ \A l \in Frames : /\ stack'[l].fn = stack[l].fn /\ stack'[l].node = stack[l].node
                              /\ stack'[l].path = stack[l].path /\ It(l)' = It(l)
BY StackStepped, OldFrames DEF Stepped, Frames

LEMMA FramesPushed ==
  ASSUME StackInv, stack # << >>, source' = source, NEW fn \in Walks, Iterating, Pushed(fn)
  PROVE  /\ StackInv' /\ Frames' = Frames \cup {Len(stack) + 1}
         /\ stack'[Len(stack) + 1].fn = fn /\ stack'[Len(stack) + 1].next = 0
         /\ stack'[Len(stack) + 1].node = Kid.to /\ stack'[Len(stack) + 1].path = KidPath
         /\ \A l \in Frames : /\ stack'[l].fn = stack[l].fn /\ stack'[l].node = stack[l].node
                              /\ stack'[l].path = stack[l].path /\ It(l)' = It(l)
<1>1. Top.next <= Len(Iteration)
  BY KidInCall, IterationFacts, TopFacts DEF StackInv, Iteration, Here, Call
<1> QED
  BY <1>1, StackPushed, OldFrames DEF Pushed

LEMMA OpenedFrame ==
  ASSUME NEW fn, Opened(fn)
  PROVE  /\ Frames' = {1} /\ stack'[1].fn = fn /\ stack'[1].next = 0
         /\ stack'[1].node = source.root /\ stack'[1].path = << >>
BY DEF Opened, Frames, Frame

\* Any step that calls or passes a child keeps the stack in order.
LEMMA StackKept ==
  ASSUME StackInv, PhaseInv, source' = source,
         Rests \/ Finish \/ Returns \/ Opens \/ Examines \/ Extracts \/ Compiles
               \/ BeginsRules \/ BeginsFields
  PROVE  StackInv'
<1>1. CASE Rests \/ Finish
  <2>1. stack' = stack
    BY <1>1 DEF Rests, Finish
  <2>2. Frames' = Frames /\ \A l \in Frames : It(l)' = It(l)
    BY <2>1, SameIteration DEF Frames
  <2>3. \A l \in Frames : FrameOK(l)'
    BY <2>1, <2>2 DEF StackInv, FrameOK
  <2>4. ASSUME NEW l \in Frames, NEW m \in Frames, l < m
        PROVE  Above(l, m)'
    <3>1. Above(l, m) /\ It(l)' = It(l)
      BY <2>2, <2>4 DEF StackInv
    <3> QED
      BY <2>1, <3>1 DEF Above
  <2>5. stack' \in Seq(Call)' /\ source' \in Sources
    BY <2>1, NodesKept DEF StackInv
  <2> QED
    BY <2>2, <2>3, <2>4, <2>5 DEF StackInv
<1>2. CASE Returns
  BY <1>2, StackPopped DEF Returns, InWalk
<1>3. CASE Opens
  <2>1. Len(Iteration) \in Nat
    BY <1>3, TopFacts, IterationFacts DEF StackInv, Iteration, Here, Call, Opens, Calling, InWalk
  <2> QED
    BY <1>3, <2>1, StackStepped DEF Opens, Calling, InWalk
<1>4. CASE Iterating /\ Stepped
  <2>1. Len(Iteration) \in Nat
    BY <1>4, TopFacts, IterationFacts DEF StackInv, Iteration, Here, Call, Iterating, InWalk
  <2> QED
    BY <1>4, <2>1, StackStepped DEF Iterating, InWalk
<1>5. CASE Iterating /\ \E fn \in Walks : Pushed(fn)
  BY <1>5, StackPushed DEF Iterating, InWalk
<1>6. CASE BeginsRules \/ BeginsFields
  BY <1>6, StackOpened DEF BeginsRules, BeginsFields, StackInv, Walks
<1> QED
  BY <1>1, <1>2, <1>3, <1>4, <1>5, <1>6 DEF Examines, Extracts, Compiles, Searching, Walks

LEMMA StructKept ==
  ASSUME WalkInv, source' = source, StackInv',
         Rests \/ Finish \/ Returns \/ Opens \/ Examines \/ Extracts \/ Compiles
               \/ BeginsRules \/ BeginsFields
  PROVE  StructInv'
<1> USE DEF WalkInv
<1>1. CASE Rests \/ Finish
  BY <1>1 DEF Rests, Finish, StructInv, Frames, Val
<1>2. CASE Returns
  <2>1. stack # << >>
    BY <1>2 DEF Returns, InWalk
  <2> QED
    BY <1>2, <2>1, FramesPopped DEF Returns, StructInv, Val
<1>3. CASE Opens
  <2>1. stack # << >> /\ Passed /\ Frames' = Frames /\ Len(stack) \in Frames
    BY <1>3, TopFacts DEF Opens, Calling, InWalk, Stepped, Frames
  <2>2. \A l \in Frames : \/ l = Len(stack) /\ stack'[l].fn = Top.fn /\ stack'[l].node = Top.node
                          \/ stack'[l] = stack[l]
    BY <2>1, FramesPassed
  <2>3. Top.fn \in Recording => IsStruct(Val(Top.node))
    BY <1>3 DEF Opens, Here
  <2> QED
    BY <2>1, <2>2, <2>3 DEF StructInv, Val
<1>4. ASSUME Iterating, stack # << >>, Passed
      PROVE  \A l \in Frames : stack'[l].fn \in Recording /\ stack'[l].next >= 1 => IsStruct(Val(stack'[l].node))
  <2>1. /\ Len(stack) \in Frames /\ Top = stack[Len(stack)] /\ Top.next >= 1
    BY <1>4, TopFacts, KidInCall
  <2>2. \A l \in Frames : \/ l = Len(stack) /\ stack'[l].fn = Top.fn /\ stack'[l].node = Top.node
                          \/ stack'[l] = stack[l]
    BY <1>4, FramesPassed
  <2> QED
    BY <2>1, <2>2 DEF StructInv
<1>5. CASE Iterating /\ Stepped
  <2>1. stack # << >> /\ Passed /\ Frames' = Frames
    BY <1>5 DEF Iterating, InWalk, Stepped, Frames
  <2> QED
    BY <1>4, <1>5, <2>1 DEF StructInv, Val
<1>6. CASE Iterating /\ \E fn \in Walks : Pushed(fn)
  <2>1. PICK fn \in Walks : Pushed(fn)
    BY <1>6
  <2>2. stack # << >> /\ Passed
    BY <1>6, <2>1 DEF Iterating, InWalk, Pushed
  <2>3. Frames' = Frames \cup {Len(stack) + 1} /\ stack'[Len(stack) + 1].next = 0
    BY <1>6, <2>1, <2>2, FramesPushed
  <2> QED
    BY <1>4, <1>6, <2>2, <2>3 DEF StructInv, Val
<1>7. CASE BeginsRules \/ BeginsFields
  <2>1. Frames' = {1} /\ stack'[1].next = 0
    BY <1>7, OpenedFrame DEF BeginsRules, BeginsFields
  <2> QED
    BY <2>1 DEF StructInv
<1> QED
  BY <1>1, <1>2, <1>3, <1>5, <1>6, <1>7 DEF Examines, Extracts, Compiles, Searching, Walks

LEMMA PhaseKept ==
  ASSUME WalkInv, source' = source,
         Rests \/ Finish \/ Returns \/ Opens \/ Examines \/ Extracts \/ Compiles
               \/ BeginsRules \/ BeginsFields
  PROVE  PhaseInv'
<1> USE DEF WalkInv
<1>1. CASE Rests \/ Finish
  BY <1>1 DEF Rests, Finish, PhaseInv, Frames
<1>2. CASE Returns
  <2>1. stack # << >> /\ UNCHANGED <<pc, rules, fields>> /\ pc \in {"definitions", "rules", "fields"}
    BY <1>2 DEF Returns, InWalk
  <2>2. Frames' \subseteq Frames /\ \A l \in Frames' : stack'[l] = stack[l]
    BY <1>2, <2>1, FramesPopped DEF Returns
  <2> QED
    BY <2>1, <2>2 DEF PhaseInv
<1>3. ASSUME Opens \/ Iterating, Stepped, UNCHANGED pc,
             fields' = fields \/ pc = "fields", rules' = rules \/ pc = "rules"
      PROVE  PhaseInv'
  <2>1. stack # << >> /\ pc \in {"definitions", "rules", "fields"} /\ Passed
    BY <1>3 DEF Opens, Calling, Iterating, InWalk, Stepped
  <2>2. Frames' = Frames /\ \A l \in Frames : stack'[l].fn = stack[l].fn
    BY <1>3, <2>1, FramesPassed, TopFacts DEF Stepped, Frames
  <2> QED
    BY <1>3, <2>1, <2>2 DEF PhaseInv
<1>4. ASSUME Iterating, NEW fn \in Walks, Pushed(fn), UNCHANGED pc,
             fields' = fields \/ pc = "fields", rules' = rules \/ pc = "rules",
             \/ fn = Top.fn
             \/ fn \in Searching /\ Top.fn \in {"extractRules"} \cup Searching
      PROVE  PhaseInv'
  <2>1. stack # << >> /\ pc \in {"definitions", "rules", "fields"} /\ Passed
    BY <1>4 DEF Iterating, InWalk, Pushed
  <2>2. /\ Frames' = Frames \cup {Len(stack) + 1} /\ stack'[Len(stack) + 1].fn = fn
        /\ \A l \in Frames : stack'[l].fn = stack[l].fn
    BY <1>4, <2>1, FramesPushed
  <2>3. Len(stack) \in Frames /\ Top = stack[Len(stack)] /\ Frames = 1 .. Len(stack) /\ Len(stack) \in Nat
    BY <2>1, TopFacts DEF Frames
  <2>4. CASE pc = "definitions"
    BY <1>4, <2>2, <2>3, <2>4 DEF PhaseInv, Searching
  <2>5. CASE pc = "fields"
    BY <1>4, <2>2, <2>3, <2>5 DEF PhaseInv, Searching
  <2>6. CASE pc = "rules"
    <3>1. \A l \in Frames : stack[l].fn \in {"extractRules"} \cup Searching
      BY <2>6 DEF PhaseInv
    <3>2. fn \in {"extractRules"} \cup Searching
      BY <3>1, <1>4, <2>3
    <3>3. \A l, m \in Frames : l < m /\ stack[m].fn = "extractRules" => stack[l].fn = "extractRules"
      BY <2>6 DEF PhaseInv
    <3>4. fn = "extractRules" => \A l \in Frames : stack[l].fn = "extractRules"
      <4>1. fn = "extractRules" => Top.fn = "extractRules"
        BY <1>4 DEF Searching
      <4>2. \A l \in Frames : l = Len(stack) \/ l < Len(stack)
        BY <2>3
      <4> QED
        BY <4>1, <4>2, <3>3, <2>3
    <3>5. \A l, m \in Frames' : l < m /\ stack'[m].fn = "extractRules" => stack'[l].fn = "extractRules"
      <4> TAKE l, m \in Frames'
      <4> HAVE l < m /\ stack'[m].fn = "extractRules"
      <4>1. l \in Frames
        BY <2>2, <2>3
      <4> QED
        BY <4>1, <2>2, <3>3, <3>4
    <3>6. fields' = << >> /\ pc' = "rules"
      BY <1>4, <2>6 DEF PhaseInv
    <3> QED
      BY <3>1, <3>2, <3>5, <3>6, <2>2 DEF PhaseInv
  <2> QED
    BY <2>1, <2>4, <2>5, <2>6
<1>5. CASE Opens
  BY <1>3, <1>5 DEF Opens
<1>6. CASE Examines
  BY <1>3, <1>4, <1>6 DEF Examines, Searching, Walks
<1>7. CASE Extracts
  <2>1. pc = "rules"
    BY <1>7, TopFacts DEF Extracts, Iterating, InWalk, PhaseInv
  <2> QED
    BY <1>3, <1>4, <1>7, <2>1 DEF Extracts, Searching, Walks
<1>8. CASE Compiles
  <2>1. pc = "fields"
    BY <1>8, TopFacts DEF Compiles, Iterating, InWalk, PhaseInv, Searching
  <2> QED
    BY <1>3, <1>4, <1>8, <2>1 DEF Compiles, Searching, Walks
<1>9. CASE BeginsRules \/ BeginsFields
  <2>1. Frames' = {1} /\ stack'[1].fn = (IF BeginsRules THEN "extractRules" ELSE "compileCUEFields")
    BY <1>9, OpenedFrame DEF BeginsRules, BeginsFields
  <2> QED
    BY <1>9, <2>1 DEF PhaseInv, BeginsRules, BeginsFields
<1> QED
  BY <1>1, <1>2, <1>5, <1>6, <1>7, <1>8, <1>9

LEMMA WalkKept ==
  ASSUME WalkInv, [Next]_vars
  PROVE  WalkInv'
<1>1. /\ source' = source
      /\ \/ Rests \/ Finish \/ Returns \/ Opens \/ Examines
         \/ Extracts \/ Compiles \/ BeginsRules \/ BeginsFields
  BY StepForms
<1> QED
  BY <1>1, StackKept, StructKept, PhaseKept DEF WalkInv

----------------------------------------------------------------------------
(* What an attribute yields.                                               *)

LEMMA ExtremesIn ==
  ASSUME NEW K \in SUBSET Int, IsFiniteSet(K), K # {}
  PROVE  Max(K) \in K /\ Min(K) \in K
<1> DEFINE c == Cardinality(K)
           order == Ascending(K)
<1>1. /\ c \in Nat /\ \A n \in 1 .. c : order[n] \in K
      /\ \A x \in K : \E n \in 1 .. c : order[n] = x
      /\ \A m, n \in 1 .. c : m < n => order[m] < order[n]
  BY AscendingOrder
<1> HIDE DEF c, order
<1>2. 1 \in 1 .. c /\ c \in 1 .. c
  <2>1. PICK x \in K : TRUE
    OBVIOUS
  <2>2. \E n \in 1 .. c : order[n] = x
    BY <1>1
  <2> QED
    BY <1>1, <2>2
<1>3. \A n \in 1 .. c : order[n] \in Int
  BY <1>1
<1>4. \A n \in 1 .. c : order[n] <= order[c] /\ order[n] >= order[1]
  <2> TAKE n \in 1 .. c
  <2>1. n < c \/ n = c
    BY <1>1
  <2>2. n > 1 \/ n = 1
    BY <1>1
  <2> QED
    BY <2>1, <2>2, <1>1, <1>2, <1>3
<1>5. \A y \in K : order[c] >= y /\ order[1] <= y
  BY <1>1, <1>2, <1>3, <1>4
<1>6. \E x \in K : \A y \in K : x >= y
  BY <1>1, <1>2, <1>5
<1>7. \E x \in K : \A y \in K : x <= y
  BY <1>1, <1>2, <1>5
<1> QED
  BY <1>6, <1>7 DEF Max, Min

LEMMA ArgsTyped ==
  ASSUME source \in Sources, NEW x \in Nodes
  PROVE  Args(Val(x)) \in Seq(Arg)
<1>1. Val(x) \in CUEValue(Nodes)
  BY NodeFacts
<1> QED
  BY <1>1 DEF CUEValue, Args

LEMMA PrioritiesTyped ==
  ASSUME source \in Sources, NEW x \in Nodes
  PROVE  LastPriority(Val(x)) \in Priority /\ extractFieldPriority(Val(x)) \in Priority
<1> DEFINE a == Args(Val(x))
           K == Priorities(Val(x))
           G == {i \in K : a[i].value = "good"}
<1>1. a \in Seq(Arg)
  BY ArgsTyped
<1>2. /\ Len(a) \in Nat /\ DOMAIN a = 1 .. Len(a)
      /\ \A i \in 1 .. Len(a) : a[i] \in Arg
  BY <1>1, LenProperties, ElementOfSeq
<1>3. K \in SUBSET DOMAIN a
  BY DEF Priorities, Given
<1>4. IsFiniteSet(DOMAIN a) /\ DOMAIN a \subseteq Int
  BY <1>2, FS_Interval
<1>5. IsFiniteSet(K) /\ K \in SUBSET Int /\ IsFiniteSet(G) /\ G \in SUBSET Int /\ G \subseteq K
  BY <1>3, <1>4, FS_Subset
<1>6. K # {} => Max(K) \in K
  BY <1>5, ExtremesIn
<1>7. G # {} => Min(G) \in G
  BY <1>5, ExtremesIn
<1>8. \A i \in K : a[i].n \in Priority
  BY <1>2, <1>3 DEF Arg
<1>9. LastPriority(Val(x)) = IF K = {} THEN 0 ELSE a[Max(K)].n
  BY DEF LastPriority
<1>10. extractFieldPriority(Val(x)) = IF G = {} THEN 0 ELSE a[Min(G)].n
  BY DEF extractFieldPriority
<1> HIDE DEF a, K, G
<1> QED
  BY <1>5, <1>6, <1>7, <1>8, <1>9, <1>10, PriorityAssumption

LEMMA MetaTyped ==
  ASSUME source \in Sources, NEW x \in Nodes, NEW b \in BOOLEAN
  PROVE  parsefieldMeta(Val(x), b) \in Meta
BY PrioritiesTyped DEF parsefieldMeta, Meta, HasExpression

\* Every rule of a field has its path and its one @meta.
LEMMA RulesOfField ==
  ASSUME source \in Sources, NEW x \in Nodes, NEW p \in FieldPath, NEW b \in BOOLEAN
  PROVE  /\ RulesOf(Val(x), p, b) \in Seq(Rule)
         /\ \A k \in DOMAIN RulesOf(Val(x), p, b) :
              /\ RulesOf(Val(x), p, b)[k].path = p
              /\ RulesOf(Val(x), p, b)[k].meta = parsefieldMeta(Val(x), b)
<1> DEFINE v == Val(x)
<1>0. PICK m \in Meta : m = parsefieldMeta(v, b)
  BY MetaTyped
<1>1. PICK with \in Rule : with = [path |-> p, exec |-> TRUE, meta |-> m]
  BY <1>0 DEF Rule
<1>2. PICK without \in Rule : without = [path |-> p, exec |-> FALSE, meta |-> m]
  BY <1>0 DEF Rule
<1>3. v \in CUEValue(Nodes)
  BY NodeFacts
<1>4. CASE v.blob # NoAttr
  <2>1. v.blob \in Seq({"blank", "good", "bad"})
    BY <1>3, <1>4 DEF CUEValue
  <2>2. Expressions(v) \in SUBSET (1 .. Len(v.blob)) /\ Len(v.blob) \in Nat
    BY <2>1, LenProperties DEF Expressions
  <2>3. IsFiniteSet(1 .. Len(v.blob))
    BY <2>2, FS_Interval
  <2>4. IsFiniteSet(Expressions(v))
    BY <2>2, <2>3, FS_Subset
  <2>5. PICK c \in Nat : c = Cardinality(Expressions(v))
    BY <2>4, FS_CardinalityType
  <2> DEFINE s == [k \in 1 .. c |-> with]
  <2>6. RulesOf(v, p, b) = s
    BY <1>0, <1>1, <1>4, <2>5 DEF RulesOf
  <2>7. s \in Seq(Rule) /\ DOMAIN s = 1 .. c /\ \A k \in 1 .. c : s[k] = with
    BY IsASeq
  <2>8. with.path = p /\ with.meta = m
    BY <1>1
  <2> HIDE DEF s
  <2>9. RulesOf(v, p, b) = s /\ s \in Seq(Rule) /\ \A k \in DOMAIN s : s[k] = with
    BY <2>6, <2>7
  <2>10. \A k \in DOMAIN s : s[k].path = p /\ s[k].meta = parsefieldMeta(Val(x), b)
    BY <1>0, <2>8, <2>9
  <2> QED
    BY <2>9, <2>10, Zenon
<1>5. CASE v.blob = NoAttr
  <2>1. RulesOf(v, p, b) = <<without>> \/ RulesOf(v, p, b) = << >>
    BY <1>0, <1>2, <1>5 DEF RulesOf
  <2>2. without.path = p /\ without.meta = parsefieldMeta(v, b)
    BY <1>0, <1>2
  <2>3. PICK s \in Seq(Rule) : s = RulesOf(v, p, b) /\ \A k \in DOMAIN s : s[k] = without
    <3>1. << >> \in Seq(Rule) /\ \A k \in DOMAIN << >> : << >>[k] = without
      OBVIOUS
    <3>2. <<without>> \in Seq(Rule) /\ \A k \in DOMAIN <<without>> : <<without>>[k] = without
      OBVIOUS
    <3> QED
      BY <2>1, <3>1, <3>2
  <2> HIDE DEF v
  <2> QED
    BY <2>2, <2>3 DEF v
<1> QED
  BY <1>4, <1>5

LEMMA FrontAppend ==
  ASSUME NEW S, NEW s \in Seq(S), NEW e \in S
  PROVE  Front(Append(s, e)) = s
<1>1. Len(s) \in Nat /\ Append(s, e) \in Seq(S) /\ Len(Append(s, e)) = Len(s) + 1
  BY AppendProperties, LenProperties
<1>2. Front(Append(s, e)) = SubSeq(Append(s, e), 1, Len(s))
  BY <1>1 DEF Front
<1>3. /\ SubSeq(Append(s, e), 1, Len(s)) \in Seq(S)
      /\ Len(SubSeq(Append(s, e), 1, Len(s))) = Len(s)
      /\ \A i \in 1 .. Len(s) : SubSeq(Append(s, e), 1, Len(s))[i] = Append(s, e)[i]
  BY <1>1, SubSeqProperties, ElementOfSeq
<1>4. \A i \in 1 .. Len(s) : Append(s, e)[i] = s[i]
  BY AppendProperties
<1> QED
  BY <1>2, <1>3, <1>4, SeqEqual

LEMMA FieldTyped ==
  ASSUME source \in Sources, NEW x \in Nodes, NEW q \in Seq(STRING), NEW name \in STRING,
         NEW b \in BOOLEAN
  PROVE  LET f == FieldOf(Val(x), Append(q, name), b)
         IN  /\ f \in Field /\ f.path = Append(q, name) /\ f.parent = q
             /\ (f.kind = "struct") <=> IsStruct(Val(x))
             /\ f.fast => f.kind # "struct"
             /\ f.priority = extractFieldPriority(Val(x))
<1> DEFINE v == Val(x)
           p == Append(q, name)
<1>1. Front(p) = q
  BY FrontAppend, Zenon
<1>2. p \in FieldPath /\ q \in FieldPath \cup {<< >>}
  <2>1. p \in Seq(STRING) /\ Len(p) = Len(q) + 1 /\ Len(q) \in Nat
    BY AppendProperties, LenProperties
  <2>2. p # << >>
    <3> SUFFICES ASSUME p = << >> PROVE FALSE
      OBVIOUS
    <3>1. Len(p) = 0
      OBVIOUS
    <3> QED
      BY <2>1, <3>1
  <2>3. q \in FieldPath \/ q = << >>
    BY DEF FieldPath
  <2> HIDE DEF p
  <2> QED
    BY <2>1, <2>2, <2>3 DEF FieldPath
<1>3. v.nullable \in BOOLEAN /\ v.checkable \in BOOLEAN
  BY NodeFacts DEF CUEValue
<1>4. extractFieldPriority(v) \in Priority
  BY PrioritiesTyped
<1> HIDE DEF p, v
<1> QED
  BY <1>1, <1>2, <1>3, <1>4 DEF FieldOf, Field, p, v

----------------------------------------------------------------------------
(* What the walk has yet to reach.                                         *)

\* The children frame l has yet to pass.
Pending(l) == {i \in 1 .. Len(It(l)) : stack[l].next <= i}

\* The path p leads through child i of frame l.
Passes(p, l, i) ==
  /\ l <= Len(p) /\ p[l] = It(l)[i].name
  /\ \A j \in 1 .. l - 1 : p[j] = stack[l].path[j]

\* A recording walk will come to p.
Reaches(p) ==
  \E l \in Frames : stack[l].fn \in Recording /\ \E i \in Pending(l) : Passes(p, l, i)

LEMMA PendingSame ==
  ASSUME NEW l, stack'[l].path = stack[l].path, It(l)' = It(l)
  PROVE  /\ \A p, i : Passes(p, l, i)' <=> Passes(p, l, i)
         /\ stack'[l].next = stack[l].next => Pending(l)' = Pending(l)
BY DEF Passes, Pending

\* Going on at frame l passes what stood at next, if anything did.
LEMMA PendingPassed ==
  ASSUME NEW l, It(l)' = It(l), stack'[l].next = stack[l].next + 1, stack[l].next \in Nat,
         Len(It(l)) \in Nat
  PROVE  Pending(l)' = Pending(l) \ {stack[l].next}
BY DEF Pending

LEMMA KidIsPending ==
  ASSUME StackInv, Iterating
  PROVE  /\ Top.next \in Pending(Len(stack)) /\ Passes(KidPath, Len(stack), Top.next)
         /\ Kid = It(Len(stack))[Top.next]
<1>1. stack # << >>
  BY DEF Iterating, InWalk
<1>2. /\ Len(stack) \in Nat \ {0} /\ Top = stack[Len(stack)] /\ Iteration = It(Len(stack))
      /\ Top.next \in 1 .. Len(Iteration) /\ Len(KidPath) = Len(stack)
      /\ KidPath[Len(stack)] = Kid.name
      /\ \A j \in 1 .. Len(stack) - 1 : KidPath[j] = Top.path[j]
  BY <1>1, TopFacts, KidInCall
<1> QED
  BY <1>2 DEF Pending, Passes, Kid

\* A path through a child of a frame just pushed leads through that frame.
LEMMA PassesBelow ==
  ASSUME StackInv, source' = source, NEW fn \in Walks, Iterating, Pushed(fn),
         NEW t \in Nat, t = Len(stack),
         NEW p, Len(p) \in Nat, NEW i, Passes(p, t + 1, i)'
  PROVE  Passes(p, t, Top.next) /\ t + 1 <= Len(p)
<1>0. stack # << >>
  BY DEF Iterating, InWalk
<1>1. t # 0
  BY <1>0, TopFacts
<1>2. stack'[t + 1].path = KidPath
  BY <1>0, <1>1, FramesPushed
<1>3. t + 1 <= Len(p) /\ \A j \in 1 .. t : p[j] = KidPath[j]
  <2>1. t + 1 <= Len(p) /\ \A j \in 1 .. t + 1 - 1 : p[j] = stack'[t + 1].path[j]
    BY DEF Passes
  <2> QED
    BY <1>2, <2>1
<1>4. Passes(KidPath, t, Top.next) /\ Len(KidPath) = t
  BY <1>0, <1>1, KidIsPending, KidInCall
<1>5. t <= Len(p) /\ p[t] = KidPath[t] /\ \A j \in 1 .. t - 1 : p[j] = KidPath[j]
  BY <1>1, <1>3
<1> QED
  BY <1>1, <1>3, <1>4, <1>5 DEF Passes

\* The old frames have no more to pass after a step than before it.
LEMMA PendingShrinks ==
  ASSUME StackInv, stack # << >>, source' = source, Passed, Top.next <= Len(Iteration)
  PROVE  \A l \in Frames : /\ stack'[l].fn = stack[l].fn /\ stack'[l].node = stack[l].node
                           /\ It(l)' = It(l)
                           /\ \A p, i : Passes(p, l, i)' <=> Passes(p, l, i)
                           /\ Pending(l)' = IF l = Len(stack) THEN Pending(l) \ {Top.next} ELSE Pending(l)
<1> TAKE l \in Frames
<1>1. /\ stack'[l].fn = stack[l].fn /\ stack'[l].node = stack[l].node
      /\ stack'[l].path = stack[l].path /\ It(l)' = It(l)
  BY OldFrames
<1>2. \A p, i : Passes(p, l, i)' <=> Passes(p, l, i)
  BY <1>1, PendingSame
<1>3. CASE l = Len(stack)
  <2>1. /\ stack[l] = Top /\ Top.next \in Nat /\ Top.node \in Nodes
        /\ stack'[l].next = stack[l].next + 1
    BY <1>3, TopFacts DEF Passed, Call
  <2>2. Len(It(l)) \in Nat
    BY <2>1, IterationFacts DEF StackInv, It
  <2>3. Pending(l)' = Pending(l) \ {stack[l].next}
    BY <1>1, <2>1, <2>2, PendingPassed
  <2> QED
    BY <1>1, <1>2, <1>3, <2>1, <2>3
<1>4. CASE l # Len(stack)
  <2>1. stack'[l] = stack[l]
    BY <1>4, FramesPassed
  <2> QED
    BY <1>1, <1>2, <1>4, <2>1, PendingSame
<1> QED
  BY <1>3, <1>4

\* A walk does not return to what it has passed.
LEMMA ReachesLess ==
  ASSUME WalkInv, source' = source,
         Rests \/ Finish \/ Returns \/ Opens \/ Examines \/ Extracts \/ Compiles,
         NEW p, Len(p) \in Nat, Reaches(p)'
  PROVE  Reaches(p)
<1> USE DEF WalkInv
<1>1. CASE Rests \/ Finish
  <2>1. stack' = stack
    BY <1>1 DEF Rests, Finish
  <2>2. \A l : It(l)' = It(l)
    BY <2>1 DEF It, Val
  <2> QED
    BY <2>1, <2>2 DEF Reaches, Frames, Pending, Passes
<1>2. CASE Returns
  <2>1. stack # << >>
    BY <1>2 DEF Returns, InWalk
  <2>2. Frames' \subseteq Frames /\ \A l \in Frames' : stack'[l] = stack[l]
    BY <1>2, <2>1, FramesPopped DEF Returns
  <2>3. PICK l \in Frames' : stack'[l].fn \in Recording /\ \E i \in Pending(l)' : Passes(p, l, i)'
    BY DEF Reaches
  <2>4. stack'[l] = stack[l] /\ It(l)' = It(l)
    BY <2>2, SameIteration
  <2>5. Pending(l)' = Pending(l) /\ \A i : Passes(p, l, i)' <=> Passes(p, l, i)
    BY <2>4, PendingSame
  <2> QED
    BY <2>2, <2>3, <2>4, <2>5 DEF Reaches
<1>3. ASSUME stack # << >>, Passed, Top.next <= Len(Iteration), NEW l \in Frames,
             stack'[l].fn \in Recording, NEW i \in Pending(l)', Passes(p, l, i)'
      PROVE  Reaches(p)
  <2>1. stack[l].fn \in Recording /\ Passes(p, l, i) /\ i \in Pending(l)
    BY <1>3, PendingShrinks
  <2> QED
    BY <2>1 DEF Reaches
<1>4. CASE (Opens \/ Iterating) /\ Stepped
  <2>1. stack # << >> /\ Passed /\ Frames' = Frames
    BY <1>4 DEF Opens, Calling, Iterating, InWalk, Stepped, Frames
  <2>2. Len(Iteration) \in Nat
    BY <2>1, TopFacts, IterationFacts DEF StackInv, Iteration, Here, Call
  <2>3. Top.next <= Len(Iteration)
    BY <1>4, <2>1, <2>2 DEF Opens, Calling, Iterating
  <2> QED
    BY <1>3, <2>1, <2>3 DEF Reaches
<1>5. ASSUME Iterating, NEW fn \in Walks, Pushed(fn), fn \in Recording => Top.fn \in Recording
      PROVE  Reaches(p)
  <2>1. stack # << >> /\ Passed /\ Top.next \in 1 .. Len(Iteration)
    BY <1>5, KidInCall DEF Iterating, InWalk, Pushed
  <2>2. PICK t \in Nat : t = Len(stack)
    BY <2>1, TopFacts
  <2>3. Frames' = Frames \cup {t + 1} /\ stack'[t + 1].fn = fn
    BY <1>5, <2>1, <2>2, FramesPushed
  <2>4. PICK l \in Frames' : stack'[l].fn \in Recording /\ \E i \in Pending(l)' : Passes(p, l, i)'
    BY DEF Reaches
  <2>5. CASE l \in Frames
    <3>1. Top.next <= Len(Iteration)
      BY <2>1
    <3> QED
      BY <1>3, <2>1, <2>4, <2>5, <3>1
  <2>6. CASE l = t + 1
    <3>1. PICK i : Passes(p, t + 1, i)'
      BY <2>4, <2>6
    <3>2. Passes(p, t, Top.next)
      BY <3>1, <1>5, <2>2, PassesBelow
    <3>3. Top.next \in Pending(t) /\ t \in Frames /\ stack[t] = Top
      BY <1>5, <2>1, <2>2, KidIsPending, TopFacts
    <3>4. Top.fn \in Recording
      BY <1>5, <2>3, <2>4, <2>6
    <3> QED
      BY <3>2, <3>3, <3>4 DEF Reaches
  <2> QED
    BY <2>3, <2>5, <2>6
<1> QED
  BY <1>1, <1>2, <1>4, <1>5 DEF Opens, Examines, Extracts, Compiles, Searching, Walks, Recording

\* Having passed a child, it does not return to that child's path.
LEMMA KidPassed ==
  ASSUME WalkInv, source' = source, Extracts \/ Compiles,
         NEW q, q = KidPath
  PROVE  ~ Reaches(q)' /\ Reaches(q)
<1> USE DEF WalkInv
<1>1. Iterating /\ stack # << >> /\ Top.fn \in Recording /\ Passed
  BY DEF Extracts, Compiles, Iterating, InWalk, Recording, Stepped, Pushed
<1>2. PICK t \in Nat : t = Len(stack) /\ t \in Frames /\ Top = stack[t]
  BY <1>1, TopFacts
<1>3. /\ Top.next \in Pending(t) /\ Passes(q, t, Top.next) /\ Kid = It(t)[Top.next]
      /\ Top.next \in 1 .. Len(Iteration) /\ Len(q) = t /\ q[t] = Kid.name
      /\ \A j \in 1 .. t - 1 : q[j] = Top.path[j]
  BY <1>1, <1>2, KidIsPending, KidInCall
<1>4. Reaches(q)
  BY <1>1, <1>2, <1>3 DEF Reaches
<1>5. ASSUME NEW l \in Frames, NEW i \in Pending(l)', Passes(q, l, i)'
      PROVE  FALSE
  <2>0. Top.next <= Len(Iteration) /\ Frames = 1 .. t
    BY <1>2, <1>3 DEF Frames
  <2>1. /\ Passes(q, l, i)
        /\ Pending(l)' = IF l = t THEN Pending(l) \ {Top.next} ELSE Pending(l)
    BY <1>1, <1>2, <1>5, <2>0, PendingShrinks
  <2>2. /\ q[l] = It(l)[i].name /\ i \in 1 .. Len(It(l)) /\ stack[l].next <= i
        /\ l = t => i # Top.next
    BY <2>1, <1>5 DEF Passes, Pending
  <2>3. stack[l] \in Call /\ stack[l].node \in Nodes /\ stack[l].next \in Nat
    BY <1>1, TopFacts DEF Call
  <2>4. /\ Len(It(l)) \in Nat
        /\ \A j, k \in 1 .. Len(It(l)) : It(l)[j].name = It(l)[k].name => j = k
    BY <2>3, IterationFacts DEF StackInv, It
  <2>5. CASE l = t
    <3>1. Iteration = It(t)
      BY <1>1, <1>2, TopFacts
    <3> QED
      BY <2>2, <2>4, <2>5, <3>1, <1>3
  <2>6. CASE l # t
    <3>1. l \in 1 .. t - 1 /\ l < t
      BY <2>0, <2>6
    <3>2. Above(l, t) /\ FrameOK(l)
      BY <3>1, <1>2 DEF StackInv
    <3>3. q[l] = It(l)[stack[l].next - 1].name /\ stack[l].next - 1 \in 1 .. Len(It(l))
      BY <3>1, <3>2, <1>2, <1>3, <2>3, <2>4 DEF Above, FrameOK
    <3>4. i = stack[l].next - 1
      BY <3>3, <2>2, <2>4
    <3> QED
      BY <3>4, <2>2, <2>3
  <2> QED
    BY <2>5, <2>6
<1>6. \A i : ~ Passes(q, t + 1, i)'
  BY <1>2, <1>3 DEF Passes
<1>7. Frames' \subseteq Frames \cup {t + 1}
  BY <1>2 DEF Extracts, Compiles, Stepped, Pushed, Frames
<1>8. ~ Reaches(q)'
  <2> SUFFICES ASSUME Reaches(q)' PROVE FALSE
    OBVIOUS
  <2>1. PICK l \in Frames' : \E i \in Pending(l)' : Passes(q, l, i)'
    BY DEF Reaches
  <2>2. CASE l \in Frames
    BY <1>5, <2>1, <2>2
  <2>3. CASE l = t + 1
    BY <1>6, <2>1, <2>3
  <2> QED
    BY <1>7, <2>2, <2>3
<1> QED
  BY <1>4, <1>8

----------------------------------------------------------------------------
(* The rules.                                                              *)

RulePaths == {rules[k].path : k \in DOMAIN rules}
FieldPaths == {fields[k].path : k \in DOMAIN fields}

\* Node y is a field of x.
Linked(x, name, y) ==
  \E k \in DOMAIN Val(x).kids : /\ Val(x).kids[k].name = name /\ Val(x).kids[k].to = y
                                /\ Val(x).kids[k].role \in {"field", "optional"}

\* The path p leads from the root through the structs n[0], n[1], ...
Trail(p, n) ==
  /\ p \in FieldPath /\ n \in [0 .. Len(p) -> Nodes] /\ n[0] = source.root
  /\ \A j \in 1 .. Len(p) : IsStruct(Val(n[j - 1])) /\ Linked(n[j - 1], p[j], n[j])

RulesInv ==
  /\ rules \in Seq(Rule)
  /\ \A j, k \in DOMAIN rules : rules[j].path = rules[k].path => rules[j].meta = rules[k].meta
  /\ \A q \in RulePaths : \E n : Trail(q, n)
  /\ pc = "rules" => \A q \in RulePaths : ~ Reaches(q)
  /\ pc \in {"fields", "done"} => SortedByPriority(rules)

LEMMA RulesAppended ==
  ASSUME WalkInv, Extracts, rules \in Seq(Rule)
  PROVE  /\ rules' \in Seq(Rule)
         /\ \A k \in DOMAIN rules : k \in DOMAIN rules' /\ rules'[k] = rules[k]
         /\ \E m \in Meta :
              /\ m.priority = LastPriority(KidValue)
              /\ \A k \in DOMAIN rules' \ DOMAIN rules :
                   rules'[k].path = KidPath /\ rules'[k].meta = m
         /\ DOMAIN rules \subseteq Nat /\ DOMAIN rules' \subseteq Nat
         /\ \A j, k \in DOMAIN rules' : j < k /\ k \in DOMAIN rules => j \in DOMAIN rules
<1>1. Iterating /\ stack # << >> /\ source \in Sources /\ StackInv
  BY DEF Extracts, Iterating, InWalk, WalkInv, StackInv
<1>2. KidPath \in FieldPath /\ Kid.to \in Nodes
  BY <1>1, KidInCall DEF Child
<1>3. PICK b \in BOOLEAN : b = (Kid.role = "optional")
  OBVIOUS
<1>4. PICK new \in Seq(Rule) : /\ new = RulesOf(KidValue, KidPath, b)
                               /\ \A k \in DOMAIN new : /\ new[k].path = KidPath
                                                        /\ new[k].meta = parsefieldMeta(KidValue, b)
  BY <1>1, <1>2, RulesOfField DEF KidValue
<1>5. rules' = rules \o new
  BY <1>3, <1>4 DEF Extracts
<1>6. /\ rules' \in Seq(Rule) /\ Len(rules') = Len(rules) + Len(new)
      /\ Len(rules) \in Nat /\ Len(new) \in Nat /\ DOMAIN rules = 1 .. Len(rules)
      /\ DOMAIN new = 1 .. Len(new) /\ DOMAIN rules' = 1 .. Len(rules')
      /\ \A k \in 1 .. Len(rules) + Len(new) :
           rules'[k] = IF k <= Len(rules) THEN rules[k] ELSE new[k - Len(rules)]
  BY <1>5, ConcatProperties, LenProperties
<1>7. PICK m \in Meta : m = parsefieldMeta(KidValue, b) /\ m.priority = LastPriority(KidValue)
  <2>1. parsefieldMeta(KidValue, b).priority = LastPriority(KidValue)
    BY DEF parsefieldMeta
  <2> QED
    BY <2>1, <1>1, <1>2, MetaTyped DEF KidValue
<1>8. ASSUME NEW k \in DOMAIN rules' \ DOMAIN rules
      PROVE  rules'[k].path = KidPath /\ rules'[k].meta = m
  <2>1. ~ (k <= Len(rules))
    BY <1>6
  <2>2. k - Len(rules) \in DOMAIN new /\ rules'[k] = new[k - Len(rules)]
    BY <2>1, <1>6
  <2> QED
    BY <2>2, <1>4, <1>7
<1>9. \A k \in DOMAIN rules : k \in DOMAIN rules' /\ rules'[k] = rules[k]
  BY <1>6
<1>10. /\ DOMAIN rules \subseteq Nat /\ DOMAIN rules' \subseteq Nat
       /\ \A j, k \in DOMAIN rules' : j < k /\ k \in DOMAIN rules => j \in DOMAIN rules
  BY <1>6
<1> QED
  BY <1>6, <1>7, <1>8, <1>9, <1>10

LEMMA RulesSorted ==
  ASSUME rules \in Seq(Rule), rules' = sortBlobRules
  PROVE  /\ rules' \in Seq(Rule) /\ SortedByPriority(rules')
         /\ \A k \in DOMAIN rules' : \E j \in DOMAIN rules : rules'[k] = rules[j]
         /\ \A m, n \in DOMAIN rules' : m < n /\ rules'[m].meta.priority = rules'[n].meta.priority =>
              \E j, k \in DOMAIN rules : j < k /\ rules'[m] = rules[j] /\ rules'[n] = rules[k]
<1> DEFINE key == [k \in DOMAIN rules |-> rules[k].meta.priority]
           order == StableOrder(key)
<1>1. /\ Len(rules) \in Nat /\ DOMAIN rules = 1 .. Len(rules)
      /\ \A k \in DOMAIN rules : rules[k] \in Rule
  BY LenProperties, ElementOfSeq
<1>2. \A k \in DOMAIN rules : rules[k].meta.priority \in Int
  BY <1>1, PriorityAssumption DEF Rule, Meta
<1>3. key \in Seq(Int) /\ Len(key) = Len(rules)
  BY <1>1, <1>2, IsASeq, LenProperties
<1>4. \A k \in DOMAIN rules : key[k] = rules[k].meta.priority
  OBVIOUS
<1> HIDE DEF key
<1>5. /\ \A n \in 1 .. Len(rules) : order[n] \in 1 .. Len(rules)
      /\ \A m, n \in 1 .. Len(rules) : m < n =>
           \/ key[order[m]] < key[order[n]]
           \/ key[order[m]] = key[order[n]] /\ order[m] < order[n]
  BY <1>3, StableOrderSorts
<1>6. rules' = [k \in DOMAIN rules |-> rules[order[k]]]
  BY DEF sortBlobRules, key
<1> HIDE DEF order
<1>7. rules' \in Seq(Rule) /\ DOMAIN rules' = 1 .. Len(rules)
      /\ \A k \in 1 .. Len(rules) : rules'[k] = rules[order[k]]
  BY <1>1, <1>5, <1>6, IsASeq
<1>8. \A m, n \in 1 .. Len(rules) : m < n => rules'[m].meta.priority <= rules'[n].meta.priority
  <2> TAKE m, n \in 1 .. Len(rules)
  <2> HAVE m < n
  <2>1. order[m] \in DOMAIN rules /\ order[n] \in DOMAIN rules
    BY <1>1, <1>5
  <2>2. key[order[m]] <= key[order[n]]
    BY <2>1, <1>2, <1>4, <1>5
  <2> QED
    BY <2>1, <2>2, <1>4, <1>7
<1>9. ASSUME NEW m \in 1 .. Len(rules), NEW n \in 1 .. Len(rules), m < n,
             rules'[m].meta.priority = rules'[n].meta.priority
      PROVE  \E j, k \in DOMAIN rules : j < k /\ rules'[m] = rules[j] /\ rules'[n] = rules[k]
  <2>1. order[m] \in DOMAIN rules /\ order[n] \in DOMAIN rules
    BY <1>1, <1>5
  <2>2. key[order[m]] = key[order[n]] /\ key[order[m]] \in Int
    BY <2>1, <1>2, <1>4, <1>7, <1>9
  <2>3. order[m] < order[n]
    BY <2>2, <1>5, <1>9
  <2> QED
    BY <2>1, <2>3, <1>7
<1> QED
  BY <1>1, <1>5, <1>7, <1>8, <1>9 DEF SortedByPriority

\* The frames of a recording walk are a trail to the field it has come to.
LEMMA KidHasTrail ==
  ASSUME WalkInv, Extracts \/ Compiles
  PROVE  /\ \E n : /\ Trail(KidPath, n) /\ n[Len(stack)] = Kid.to
                   /\ \A l \in Frames : n[l - 1] = stack[l].node
         /\ \A l \in Frames : stack[l].fn \in Recording
<1> USE DEF WalkInv
<1>1. Iterating /\ stack # << >> /\ source \in Sources /\ StackInv
  BY DEF Extracts, Compiles, Iterating, InWalk, StackInv
<1>2. PICK t \in Nat \ {0} : t = Len(stack) /\ Frames = 1 .. t /\ Top = stack[t] /\ Iteration = It(t)
                            /\ \A l \in 1 .. t : stack[l] \in Call
  BY <1>1, TopFacts DEF Frames
<1>3. /\ KidPath \in FieldPath /\ Len(KidPath) = t /\ KidPath[t] = Kid.name /\ Kid \in Child
      /\ \A j \in 1 .. t - 1 : KidPath[j] = stack[t].path[j]
      /\ Kid = It(t)[Top.next] /\ Top.next \in 1 .. Len(It(t)) /\ Kid.to \in Nodes
  BY <1>1, <1>2, KidInCall DEF Child, Kid
<1>4. \A l \in 1 .. t : stack[l].fn \in Recording
  <2>1. CASE Extracts
    <3>1. pc = "rules" /\ Top.fn = "extractRules"
      BY <2>1, <1>1, <1>2 DEF PhaseInv, Iterating, InWalk, Extracts
    <3> QED
      BY <3>1, <1>1, <1>2 DEF PhaseInv, Recording
  <2>2. CASE Compiles
    <3>1. pc = "fields"
      BY <2>2, <1>1, <1>2 DEF PhaseInv, Iterating, InWalk, Compiles, Searching
    <3> QED
      BY <3>1, <1>2 DEF PhaseInv, Recording
  <2> QED
    BY <2>1, <2>2
<1>5. \A l \in 1 .. t : stack[l].node \in Nodes /\ stack[l].next \in Nat
  BY <1>2 DEF Call
<1>6. \A l \in 1 .. t : \A i \in 1 .. Len(It(l)) :
        Len(It(l)) \in Nat /\ Linked(stack[l].node, It(l)[i].name, It(l)[i].to)
  <2> TAKE l \in 1 .. t
  <2> TAKE i \in 1 .. Len(It(l))
  <2>1. /\ Len(It(l)) \in Nat /\ It(l)[i].role \in {"field", "optional"}
        /\ \E k \in DOMAIN Val(stack[l].node).kids : It(l)[i] = Val(stack[l].node).kids[k]
    BY <1>1, <1>4, <1>5, IterationFacts DEF It, Recording
  <2> QED
    BY <2>1 DEF Linked
<1>7. \A l \in 1 .. t : IsStruct(Val(stack[l].node))
  <2> TAKE l \in 1 .. t
  <2>1. stack[l].next >= 1
    <3>1. CASE l = t
      BY <3>1, <1>2, <1>3, <1>5
    <3>2. CASE l # t
      <4>1. Above(l, t)
        BY <3>2, <1>1, <1>2 DEF StackInv
      <4> QED
        BY <4>1, <1>5 DEF Above
    <3> QED
      BY <3>1, <3>2
  <2> QED
    BY <2>1, <1>2, <1>4 DEF StructInv, Recording
<1> DEFINE n == [j \in 0 .. t |-> IF j < t THEN stack[j + 1].node ELSE Kid.to]
<1>8. n \in [0 .. Len(KidPath) -> Nodes]
  BY <1>2, <1>3, <1>5
<1>9. n[0] = source.root
  <2>1. stack[1].node = source.root
    BY <1>1, <1>2 DEF StackInv, FrameOK
  <2> QED
    BY <2>1
<1>10. ASSUME NEW j \in 1 .. t
       PROVE  IsStruct(Val(n[j - 1])) /\ Linked(n[j - 1], KidPath[j], n[j])
  <2>1. n[j - 1] = stack[j].node
    OBVIOUS
  <2>2. CASE j = t
    <3>1. n[j] = Kid.to
      BY <2>2
    <3> QED
      BY <3>1, <2>1, <2>2, <1>2, <1>3, <1>6, <1>7
  <2>3. CASE j # t
    <3>1. n[j] = stack[j + 1].node /\ j \in Frames /\ j + 1 \in Frames /\ t \in Frames /\ j < t
      BY <2>3, <1>2
    <3>2. Above(j, j + 1) /\ Above(j, t) /\ FrameOK(j)
      BY <3>1, <1>1 DEF StackInv
    <3> DEFINE i == stack[j].next - 1
    <3>3. i \in Int /\ i >= 1
      BY <3>2, <1>5 DEF Above
    <3>4. stack[j].next <= Len(It(j)) + 1 /\ Len(It(j)) \in Nat
      BY <3>2, <1>1, <1>5, IterationFacts DEF FrameOK, It
    <3>5. i \in 1 .. Len(It(j))
      BY <3>3, <3>4, <1>5
    <3>6. n[j] = It(j)[i].to
      BY <3>1, <3>2 DEF Above
    <3>7. KidPath[j] = It(j)[i].name
      BY <3>1, <3>2, <1>3 DEF Above
    <3> HIDE DEF i, n
    <3> QED
      BY <3>5, <3>6, <3>7, <2>1, <1>6, <1>7
  <2> QED
    BY <2>2, <2>3
<1>11. n[t] = Kid.to /\ \A l \in 1 .. t : n[l - 1] = stack[l].node
  OBVIOUS
<1> HIDE DEF n
<1>12. Trail(KidPath, n)
  BY <1>3, <1>8, <1>9, <1>10 DEF Trail
<1> QED
  BY <1>2, <1>4, <1>11, <1>12

LEMMA TrailKept ==
  ASSUME source' = source, NEW p, NEW n
  PROVE  Trail(p, n)' <=> Trail(p, n)
BY DEF Trail, Linked, Val, Nodes

LEMMA PathLen ==
  ASSUME NEW p \in FieldPath
  PROVE  Len(p) \in Nat \ {0}
BY EmptySeq DEF FieldPath

LEMMA RulePathsTyped ==
  ASSUME rules \in Seq(Rule)
  PROVE  RulePaths \subseteq FieldPath
<1>1. \A k \in DOMAIN rules : rules[k] \in Rule
  BY ElementOfSeq, LenProperties
<1>2. \A k \in DOMAIN rules : rules[k].path \in FieldPath
  BY <1>1 DEF Rule
<1> QED
  BY <1>2 DEF RulePaths

LEMMA RulesKept ==
  ASSUME WalkInv, WalkInv', RulesInv, [Next]_vars
  PROVE  RulesInv'
<1>1. /\ source' = source
      /\ \/ Rests \/ Finish \/ Returns \/ Opens \/ Examines
         \/ Extracts \/ Compiles \/ BeginsRules \/ BeginsFields
  BY StepForms
<1>2. \A p, n : Trail(p, n)' <=> Trail(p, n)
  BY <1>1, TrailKept
<1>3. \A q \in RulePaths : Len(q) \in Nat
  BY RulePathsTyped, PathLen DEF RulesInv
<1>4. CASE Rests \/ Finish \/ Returns \/ Opens \/ Examines \/ Compiles
  <2>1. rules' = rules /\ RulePaths' = RulePaths
    BY <1>4 DEF Rests, Finish, Returns, Opens, Examines, Compiles, RulePaths
  <2>2. pc' = "rules" => pc = "rules"
    BY <1>4 DEF Rests, Finish, Returns, Opens, Examines, Compiles
  <2>3. \A q \in RulePaths : Reaches(q)' => Reaches(q)
    BY <1>1, <1>3, <1>4, ReachesLess
  <2>4. pc' \in {"fields", "done"} => pc \in {"fields", "done"}
    BY <1>4 DEF Rests, Finish, Returns, Opens, Examines, Compiles
  <2>5. pc' = "rules" => \A q \in RulePaths' : ~ Reaches(q)'
    BY <2>1, <2>2, <2>3 DEF RulesInv
  <2>6. pc' \in {"fields", "done"} => SortedByPriority(rules')
    BY <2>1, <2>4 DEF RulesInv
  <2>7. \A q \in RulePaths' : \E n : Trail(q, n)'
    BY <2>1, <1>2 DEF RulesInv
  <2> QED
    BY <2>1, <2>5, <2>6, <2>7 DEF RulesInv
<1>5. CASE Extracts
  <2>0. rules \in Seq(Rule)
    BY DEF RulesInv
  <2>1. PICK m \in Meta : \A k \in DOMAIN rules' :
              \/ k \in DOMAIN rules /\ rules'[k] = rules[k]
              \/ rules'[k].path = KidPath /\ rules'[k].meta = m
    <3>1. /\ \A k \in DOMAIN rules : rules'[k] = rules[k]
          /\ \E m \in Meta : \A k \in DOMAIN rules' \ DOMAIN rules :
               rules'[k].path = KidPath /\ rules'[k].meta = m
      BY <1>5, <2>0, RulesAppended
    <3> QED
      BY <3>1
  <2>2. PICK q : q = KidPath
    OBVIOUS
  <2>3. ~ Reaches(q)' /\ Reaches(q) /\ \E n : Trail(q, n)
    BY <1>1, <1>5, <2>2, KidPassed, KidHasTrail
  <2>4. RulePaths' \subseteq RulePaths \cup {q}
    BY <2>1, <2>2 DEF RulePaths
  <2>5. pc = "rules" /\ pc' = "rules"
    BY <1>5, TopFacts DEF Extracts, Iterating, InWalk, PhaseInv, WalkInv
  <2>6. q \notin RulePaths
    BY <2>3, <2>5 DEF RulesInv
  <2>7. \A k \in DOMAIN rules : rules[k].path # q
    BY <2>6 DEF RulePaths
  <2>8. \A j, k \in DOMAIN rules' : rules'[j].path = rules'[k].path => rules'[j].meta = rules'[k].meta
    BY <2>1, <2>2, <2>7 DEF RulesInv
  <2>9. \A r \in RulePaths : ~ Reaches(r)'
    BY <1>1, <1>3, <1>5, <2>5, ReachesLess DEF RulesInv
  <2>10. \A r \in RulePaths' : ~ Reaches(r)'
    BY <2>3, <2>4, <2>9
  <2>11. \A r \in RulePaths' : \E n : Trail(r, n)'
    BY <1>2, <2>3, <2>4 DEF RulesInv
  <2>12. rules' \in Seq(Rule)
    BY <1>5, <2>0, RulesAppended
  <2> QED
    BY <2>5, <2>8, <2>10, <2>11, <2>12 DEF RulesInv
<1>6. CASE BeginsRules
  <2>1. rules' = << >> /\ pc' = "rules"
    BY <1>6 DEF BeginsRules, WalkInv, PhaseInv
  <2>2. RulePaths' = {}
    BY <2>1 DEF RulePaths
  <2> QED
    BY <2>1, <2>2 DEF RulesInv
<1>7. CASE BeginsFields
  <2>0. rules \in Seq(Rule) /\ rules' = sortBlobRules /\ pc' = "fields"
    BY <1>7 DEF RulesInv, BeginsFields
  <2>1. /\ rules' \in Seq(Rule) /\ SortedByPriority(rules')
        /\ \A k \in DOMAIN rules' : \E j \in DOMAIN rules : rules'[k] = rules[j]
    BY <2>0, RulesSorted
  <2>2. RulePaths' \subseteq RulePaths
    BY <2>1 DEF RulePaths
  <2>3. \A q \in RulePaths' : \E n : Trail(q, n)'
    BY <1>2, <2>2 DEF RulesInv
  <2>4. \A j, k \in DOMAIN rules' : rules'[j].path = rules'[k].path => rules'[j].meta = rules'[k].meta
    BY <2>1 DEF RulesInv
  <2> QED
    BY <2>0, <2>1, <2>3, <2>4 DEF RulesInv
<1> QED
  BY <1>1, <1>4, <1>5, <1>6, <1>7

----------------------------------------------------------------------------
(* The field descriptors.                                                  *)

FieldsInv ==
  /\ fields \in Seq(Field)
  /\ \A j, k \in DOMAIN fields : fields[j].path = fields[k].path => j = k
  /\ \A k \in DOMAIN fields : fields[k].parent # << >> =>
       \E j \in 1 .. k - 1 : fields[j].path = fields[k].parent /\ fields[j].kind = "struct"
  /\ \A k \in DOMAIN fields : fields[k].fast => fields[k].kind # "struct"
  /\ pc = "fields" =>
       /\ \A q \in FieldPaths : ~ Reaches(q)
       /\ \A l \in Frames : l >= 2 =>
            \E j \in DOMAIN fields : fields[j].path = stack[l].path /\ fields[j].kind = "struct"

LEMMA FieldAppended ==
  ASSUME WalkInv, Compiles, fields \in Seq(Field)
  PROVE  /\ fields' \in Seq(Field) /\ Len(fields) \in Nat /\ DOMAIN fields = 1 .. Len(fields)
         /\ DOMAIN fields' = 1 .. Len(fields) + 1
         /\ \A k \in 1 .. Len(fields) : fields'[k] = fields[k]
         /\ fields'[Len(fields) + 1].path = KidPath /\ fields'[Len(fields) + 1].parent = Top.path
         /\ fields'[Len(fields) + 1].priority = extractFieldPriority(KidValue)
         /\ (fields'[Len(fields) + 1].kind = "struct") <=> IsStruct(KidValue)
         /\ fields'[Len(fields) + 1].fast => fields'[Len(fields) + 1].kind # "struct"
<1>1. Iterating /\ stack # << >> /\ source \in Sources /\ StackInv
  BY DEF Compiles, Iterating, InWalk, WalkInv, StackInv
<1>2. Kid.to \in Nodes /\ Kid.name \in STRING /\ Top.path \in Seq(STRING)
  BY <1>1, KidInCall, TopFacts DEF Child, Call
<1> DEFINE b == Kid.role = "optional"
<1>3. b \in BOOLEAN
  OBVIOUS
<1> HIDE DEF b
<1> DEFINE f == FieldOf(KidValue, KidPath, b)
<1>4. /\ f \in Field /\ f.path = KidPath /\ f.parent = Top.path
      /\ (f.kind = "struct") <=> IsStruct(KidValue)
      /\ f.fast => f.kind # "struct"
      /\ f.priority = extractFieldPriority(KidValue)
  <2>1. PICK x \in Nodes : x = Kid.to
    BY <1>2
  <2>2. PICK q \in Seq(STRING) : q = Top.path
    BY <1>2
  <2>3. PICK name \in STRING : name = Kid.name
    BY <1>2
  <2> DEFINE g == FieldOf(Val(x), Append(q, name), b)
  <2>4. /\ g \in Field /\ g.path = Append(q, name) /\ g.parent = q
        /\ (g.kind = "struct") <=> IsStruct(Val(x))
        /\ g.fast => g.kind # "struct"
        /\ g.priority = extractFieldPriority(Val(x))
    BY <1>1, <1>3, FieldTyped
  <2>5. KidPath = Append(q, name) /\ KidValue = Val(x)
    BY <2>1, <2>2, <2>3 DEF KidValue, KidPath
  <2>6. f = g
    BY <2>5, Zenon
  <2> HIDE DEF f, g
  <2> QED
    BY <2>2, <2>4, <2>5, <2>6, Zenon
<1>5. fields' = Append(fields, f)
  BY Zenon DEF Compiles, b
<1> HIDE DEF f
<1>6. /\ fields' \in Seq(Field) /\ Len(fields) \in Nat /\ DOMAIN fields = 1 .. Len(fields)
      /\ DOMAIN fields' = 1 .. Len(fields')  /\ Len(fields') = Len(fields) + 1
      /\ \A k \in 1 .. Len(fields) : fields'[k] = fields[k]
      /\ fields'[Len(fields) + 1] = f
  BY <1>4, <1>5, AppendProperties, LenProperties
<1>7. /\ fields'[Len(fields) + 1].priority = extractFieldPriority(KidValue)
      /\ fields'[Len(fields) + 1].path = KidPath /\ fields'[Len(fields) + 1].parent = Top.path
      /\ (fields'[Len(fields) + 1].kind = "struct") <=> IsStruct(KidValue)
      /\ fields'[Len(fields) + 1].fast => fields'[Len(fields) + 1].kind # "struct"
  BY <1>4, <1>6, Zenon
<1> QED
  BY <1>6, <1>7

LEMMA FieldPathsTyped ==
  ASSUME fields \in Seq(Field)
  PROVE  FieldPaths \subseteq FieldPath
<1>1. \A k \in DOMAIN fields : fields[k] \in Field
  BY ElementOfSeq, LenProperties
<1>2. \A k \in DOMAIN fields : fields[k].path \in FieldPath
  BY <1>1 DEF Field
<1> QED
  BY <1>2 DEF FieldPaths

LEMMA FieldsKept ==
  ASSUME WalkInv, WalkInv', FieldsInv, [Next]_vars
  PROVE  FieldsInv'
<1>1. /\ source' = source
      /\ \/ Rests \/ Finish \/ Returns \/ Opens \/ Examines
         \/ Extracts \/ Compiles \/ BeginsRules \/ BeginsFields
  BY StepForms
<1>2. \A q \in FieldPaths : Len(q) \in Nat
  BY FieldPathsTyped, PathLen DEF FieldsInv
<1>3. CASE Rests \/ Finish \/ Returns \/ Opens \/ Examines \/ Extracts
  <2>1. fields' = fields /\ FieldPaths' = FieldPaths
    BY <1>3 DEF Rests, Finish, Returns, Opens, Examines, Extracts, FieldPaths
  <2>2. pc' = "fields" => pc = "fields"
    BY <1>3 DEF Rests, Finish, Returns, Opens, Examines, Extracts
  <2>3. \A q \in FieldPaths : Reaches(q)' => Reaches(q)
    BY <1>1, <1>2, <1>3, ReachesLess
  <2>4. pc' = "fields" => \A q \in FieldPaths' : ~ Reaches(q)'
    BY <2>1, <2>2, <2>3 DEF FieldsInv
  <2>5. pc' = "fields" => Frames' \subseteq Frames /\ \A l \in Frames' : stack'[l].path = stack[l].path
    <3> SUFFICES ASSUME pc' = "fields"
                 PROVE  Frames' \subseteq Frames /\ \A l \in Frames' : stack'[l].path = stack[l].path
      OBVIOUS
    <3>1. CASE Rests \/ Finish
      BY <3>1 DEF Rests, Finish, Frames
    <3>2. CASE Returns
      BY <3>2, FramesPopped DEF Returns, InWalk, WalkInv
    <3>3. CASE Opens
      <4>1. stack # << >> /\ Passed /\ Frames' = Frames
        BY <3>3 DEF Opens, Calling, InWalk, Stepped, Frames
      <4> QED
        BY <4>1, FramesPassed, TopFacts DEF Passed, WalkInv
    <3>4. CASE Examines \/ Extracts
      <4>1. stack # << >> /\ Top.fn # "compileCUEFields"
        BY <3>4 DEF Examines, Extracts, Iterating, InWalk, Recording
      <4>2. stack[Len(stack)].fn = "compileCUEFields"
        BY <2>2, <4>1, TopFacts DEF PhaseInv, WalkInv
      <4> QED
        BY <4>1, <4>2, TopFacts DEF WalkInv
    <3> QED
      BY <1>3, <3>1, <3>2, <3>3, <3>4
  <2>6. pc' = "fields" => \A l \in Frames' : l >= 2 =>
            \E j \in DOMAIN fields' : fields'[j].path = stack'[l].path /\ fields'[j].kind = "struct"
    BY <2>1, <2>2, <2>5 DEF FieldsInv
  <2> QED
    BY <2>1, <2>4, <2>6 DEF FieldsInv
<1>4. CASE Compiles
  <2>0. fields \in Seq(Field)
    BY DEF FieldsInv
  <2>1. PICK c \in Nat : c = Len(fields)
    BY <2>0, LenProperties
  <2>2. PICK q : q = KidPath
    OBVIOUS
  <2>3. /\ fields' \in Seq(Field) /\ DOMAIN fields = 1 .. c /\ DOMAIN fields' = 1 .. c + 1
        /\ \A k \in 1 .. c : fields'[k] = fields[k]
        /\ fields'[c + 1].path = q /\ fields'[c + 1].parent = Top.path
        /\ (fields'[c + 1].kind = "struct") <=> IsStruct(KidValue)
        /\ fields'[c + 1].fast => fields'[c + 1].kind # "struct"
    BY <1>4, <2>0, <2>1, <2>2, FieldAppended
  <2>4. /\ Iterating /\ stack # << >> /\ pc = "fields" /\ pc' = "fields" /\ Passed
        /\ Top.next <= Len(Iteration)
    <3>1. Iterating /\ stack # << >> /\ pc' = pc /\ Top.fn = "compileCUEFields" /\ Passed
      BY <1>4 DEF Compiles, Iterating, InWalk, Stepped, Pushed
    <3>2. pc = "fields"
      BY <3>1, TopFacts DEF Iterating, InWalk, PhaseInv, WalkInv, Searching
    <3> QED
      BY <3>1, <3>2, KidInCall DEF WalkInv
  <2>5. PICK t \in Nat \ {0} : /\ t = Len(stack) /\ t \in Frames /\ Top = stack[t] /\ Frames = 1 .. t
    BY <2>4, TopFacts DEF WalkInv, Frames
  <2>6. ~ Reaches(q)' /\ Reaches(q)
    BY <1>1, <1>4, <2>2, KidPassed
  <2>7. \A k \in DOMAIN fields : fields[k].path # q
    BY <2>4, <2>6 DEF FieldsInv, FieldPaths
  <2>8. \A j, k \in DOMAIN fields' : fields'[j].path = fields'[k].path => j = k
    <3> TAKE j, k \in DOMAIN fields'
    <3>1. j \in DOMAIN fields \/ j = c + 1
      BY <2>3
    <3>2. k \in DOMAIN fields \/ k = c + 1
      BY <2>3
    <3> QED
      BY <3>1, <3>2, <2>3, <2>7 DEF FieldsInv
  <2>9. Top.path # << >> => \E j \in 1 .. c : fields[j].path = Top.path /\ fields[j].kind = "struct"
    <3>1. Len(Top.path) = t - 1 /\ Top.path \in Seq(STRING)
      BY <2>4, <2>5, TopFacts DEF WalkInv, StackInv, FrameOK, Call
    <3>2. Top.path # << >> => t >= 2
      BY <3>1, EmptySeq
    <3> QED
      BY <3>2, <2>3, <2>4, <2>5 DEF FieldsInv
  <2>10. \A k \in DOMAIN fields' : fields'[k].parent # << >> =>
           \E j \in 1 .. k - 1 : fields'[j].path = fields'[k].parent /\ fields'[j].kind = "struct"
    <3> TAKE k \in DOMAIN fields'
    <3>1. CASE k \in DOMAIN fields
      <4>1. fields'[k] = fields[k] /\ k <= c /\ k \in Nat
        BY <2>3, <3>1
      <4>2. \A j \in 1 .. k - 1 : fields'[j] = fields[j]
        BY <4>1, <2>3
      <4> QED
        BY <3>1, <4>1, <4>2 DEF FieldsInv
    <3>2. CASE k = c + 1
      <4>1. fields'[k].parent = Top.path /\ k - 1 = c
        BY <3>2, <2>3
      <4> QED
        BY <4>1, <2>3, <2>9
    <3> QED
      BY <3>1, <3>2, <2>3
  <2>11. \A k \in DOMAIN fields' : fields'[k].fast => fields'[k].kind # "struct"
    <3> TAKE k \in DOMAIN fields'
    <3>1. CASE k \in DOMAIN fields
      BY <3>1, <2>3 DEF FieldsInv
    <3>2. CASE k = c + 1
      BY <3>2, <2>3
    <3> QED
      BY <3>1, <3>2, <2>3
  <2>12. FieldPaths' = FieldPaths \cup {q}
    <3>1. \A k \in DOMAIN fields' : fields'[k].path \in FieldPaths \cup {q}
      <4> TAKE k \in DOMAIN fields'
      <4>1. k \in DOMAIN fields \/ k = c + 1
        BY <2>3
      <4> QED
        BY <4>1, <2>3 DEF FieldPaths
    <3>2. \A k \in DOMAIN fields : fields[k].path \in FieldPaths'
      BY <2>3 DEF FieldPaths
    <3>3. q \in FieldPaths'
      BY <2>3 DEF FieldPaths
    <3> QED
      BY <3>1, <3>2, <3>3 DEF FieldPaths
  <2>13. \A r \in FieldPaths' : ~ Reaches(r)'
    <3>1. \A r \in FieldPaths : ~ Reaches(r)'
      BY <1>1, <1>2, <1>4, <2>4, ReachesLess DEF FieldsInv
    <3> QED
      BY <3>1, <2>6, <2>12
  <2>14. \A l \in Frames : l >= 2 =>
            \E j \in DOMAIN fields' : fields'[j].path = stack'[l].path /\ fields'[j].kind = "struct"
    <3> TAKE l \in Frames
    <3> HAVE l >= 2
    <3>1. stack'[l].path = stack[l].path
      BY <1>1, <2>4, OldFrames DEF WalkInv
    <3>2. PICK j \in DOMAIN fields : fields[j].path = stack[l].path /\ fields[j].kind = "struct"
      BY <2>4 DEF FieldsInv
    <3>3. j \in DOMAIN fields' /\ fields'[j] = fields[j]
      BY <2>3
    <3> QED
      BY <3>1, <3>2, <3>3
  <2>15. \A l \in Frames' : l \notin Frames =>
            \E j \in DOMAIN fields' : fields'[j].path = stack'[l].path /\ fields'[j].kind = "struct"
    <3> TAKE l \in Frames'
    <3> HAVE l \notin Frames
    <3>1. Pushed("compileCUEFields") /\ IsStruct(KidValue)
      BY <1>4 DEF Compiles, Stepped, Frames
    <3>2. "compileCUEFields" \in Walks
      BY DEF Walks
    <3>3. Frames' = Frames \cup {t + 1} /\ stack'[t + 1].path = q
      BY <1>1, <2>2, <2>4, <2>5, <3>1, <3>2, FramesPushed DEF WalkInv
    <3>4. l = t + 1 /\ c + 1 \in DOMAIN fields' /\ fields'[c + 1].kind = "struct"
      BY <2>3, <3>1, <3>3
    <3> QED
      BY <2>3, <3>3, <3>4
  <2> QED
    BY <2>3, <2>8, <2>10, <2>11, <2>13, <2>14, <2>15 DEF FieldsInv
<1>5. CASE BeginsRules \/ BeginsFields
  <2>1. fields' = << >> /\ Frames' = {1}
    BY <1>5, OpenedFrame DEF BeginsRules, BeginsFields, WalkInv, PhaseInv
  <2>2. FieldPaths' = {}
    BY <2>1 DEF FieldPaths
  <2> QED
    BY <2>1, <2>2 DEF FieldsInv
<1> QED
  BY <1>1, <1>3, <1>4, <1>5

----------------------------------------------------------------------------
(* Every trail is compiled.                                                *)

\* The walk will come to p along the nodes n.
AheadOf(p, n) ==
  \E l \in Frames : \E i \in Pending(l) : Passes(p, l, i) /\ n[l - 1] = stack[l].node

AheadInv ==
  /\ pc = "fields" => \A p, n : Trail(p, n) => p \in FieldPaths \/ AheadOf(p, n)
  /\ pc = "done" => \A p, n : Trail(p, n) => p \in FieldPaths

\* A recording walk iterates each field of a node once.
LEMMA LinkedListed ==
  ASSUME source \in Sources, NEW fn \in Recording, NEW x \in Nodes, NEW name, NEW y,
         Linked(x, name, y)
  PROVE  LET it == Iterated(fn, Val(x))
         IN  \E i \in 1 .. Len(it) : /\ it[i].name = name /\ it[i].to = y
                                     /\ \A j \in 1 .. Len(it) : it[j].name = name => j = i
<1> DEFINE it == Iterated(fn, Val(x))
           kids == Val(x).kids
<1>1. PICK k \in DOMAIN kids : kids[k].name = name /\ kids[k].to = y /\ kids[k].role \in {"field", "optional"}
  BY DEF Linked
<1>2. /\ \A i, j \in 1 .. Len(it) : it[i].name = it[j].name => i = j
      /\ \E i \in 1 .. Len(it) : it[i] = kids[k]
  BY <1>1, IterationFacts
<1> HIDE DEF it, kids
<1> QED
  BY <1>1, <1>2 DEF it

LEMMA TrailStep ==
  ASSUME NEW p, NEW n, Trail(p, n), NEW j \in Nat, j < Len(p)
  PROVE  /\ IsStruct(Val(n[j])) /\ Linked(n[j], p[j + 1], n[j + 1]) /\ n[j] \in Nodes
         /\ n[j + 1] \in Nodes
<1>1. Len(p) \in Nat /\ j + 1 \in 1 .. Len(p) /\ j \in 0 .. Len(p) /\ j + 1 \in 0 .. Len(p)
  BY PathLen DEF Trail
<1>2. j + 1 - 1 = j
  OBVIOUS
<1> QED
  BY <1>1, <1>2 DEF Trail

\* Passing the child that leads to p either records p or enters the child.
LEMMA KidLeads ==
  ASSUME WalkInv, source' = source, Compiles, NEW p, NEW n, Trail(p, n),
         Passes(p, Len(stack), Top.next), n[Len(stack) - 1] = Top.node
  PROVE  p = KidPath \/ AheadOf(p, n)'
<1> USE DEF WalkInv
<1>1. Iterating /\ stack # << >> /\ source \in Sources /\ Top.fn \in Recording /\ Passed
  BY DEF Compiles, Iterating, InWalk, StackInv, Recording, Stepped, Pushed
<1>2. PICK t \in Nat \ {0} : t = Len(stack) /\ Top = stack[t] /\ Top.node \in Nodes /\ Iteration = It(t)
  BY <1>1, TopFacts DEF Call
<1>3. /\ Len(KidPath) = t /\ KidPath[t] = Kid.name /\ KidPath \in Seq(STRING) /\ Kid.to \in Nodes
      /\ \A j \in 1 .. t - 1 : KidPath[j] = Top.path[j]
      /\ Kid = It(t)[Top.next] /\ Top.next \in 1 .. Len(It(t))
  BY <1>1, <1>2, KidInCall DEF Child, Kid
<1>4. /\ t <= Len(p) /\ Len(p) \in Nat /\ p \in Seq(STRING)
      /\ \A j \in 1 .. t : p[j] = KidPath[j]
  <2>1. /\ t <= Len(p) /\ p[t] = Kid.name
        /\ \A j \in 1 .. t - 1 : p[j] = Top.path[j]
    BY <1>2, <1>3 DEF Passes
  <2>2. p \in Seq(STRING) /\ Len(p) \in Nat
    BY LenProperties DEF Trail, FieldPath
  <2> QED
    BY <2>1, <2>2, <1>2, <1>3
<1>5. CASE Len(p) = t
  BY <1>3, <1>4, <1>5, SeqEqual
<1>6. CASE Len(p) # t
  <2>1. t < Len(p) /\ t - 1 < Len(p) /\ t - 1 \in Nat /\ t - 1 + 1 = t
    BY <1>2, <1>4, <1>6
  <2>2. Linked(Top.node, Kid.name, n[t])
    <3>1. Linked(n[t - 1], p[t - 1 + 1], n[t - 1 + 1])
      BY <2>1, TrailStep
    <3>2. p[t] = Kid.name
      BY <1>3, <1>4, <2>1
    <3> QED
      BY <3>1, <3>2, <2>1, <1>2
  <2>3. n[t] = Kid.to
    <3> DEFINE it == Iterated(Top.fn, Val(Top.node))
    <3>1. PICK i \in 1 .. Len(it) :
            it[i].to = n[t] /\ \A j \in 1 .. Len(it) : it[j].name = Kid.name => j = i
      BY <1>1, <1>2, <2>2, LinkedListed
    <3>2. It(t) = it
      BY <1>2 DEF It
    <3> HIDE DEF it
    <3> QED
      BY <1>3, <3>1, <3>2
  <2>4. IsStruct(Val(n[t])) /\ Linked(n[t], p[t + 1], n[t + 1])
    BY <1>2, <2>1, TrailStep
  <2>5. Pushed("compileCUEFields") /\ "compileCUEFields" \in Walks /\ "compileCUEFields" \in Recording
    BY <2>3, <2>4 DEF Compiles, KidValue, Walks, Recording
  <2>6. /\ t + 1 \in Frames' /\ stack'[t + 1].fn = "compileCUEFields" /\ stack'[t + 1].next = 0
        /\ stack'[t + 1].node = n[t] /\ stack'[t + 1].path = KidPath
    BY <1>1, <1>2, <2>3, <2>5, FramesPushed
  <2>7. It(t + 1)' = Iterated("compileCUEFields", Val(n[t]))
    BY <2>6 DEF It, Val
  <2>8. PICK i \in 1 .. Len(It(t + 1)') : It(t + 1)'[i].name = p[t + 1]
    BY <1>1, <1>3, <2>3, <2>4, <2>5, <2>7, LinkedListed
  <2>9. i \in Pending(t + 1)'
    BY <2>6, <2>8 DEF Pending
  <2>10. Passes(p, t + 1, i)'
    BY <1>4, <2>1, <2>6, <2>8 DEF Passes
  <2>11. t + 1 - 1 = t
    BY <1>2
  <2> QED
    BY <2>6, <2>9, <2>10, <2>11 DEF AheadOf
<1> QED
  BY <1>5, <1>6

LEMMA FieldRecorded ==
  ASSUME WalkInv, FieldsInv, Compiles, NEW q, q = KidPath
  PROVE  FieldPaths \subseteq FieldPaths' /\ q \in FieldPaths'
<1>1. fields \in Seq(Field)
  BY DEF FieldsInv
<1>2. PICK c \in Nat : c = Len(fields)
  BY <1>1, LenProperties
<1>3. /\ DOMAIN fields = 1 .. c /\ DOMAIN fields' = 1 .. c + 1
      /\ \A k \in 1 .. c : fields'[k] = fields[k]
      /\ fields'[c + 1].path = q
  BY <1>1, <1>2, FieldAppended
<1>4. \A k \in DOMAIN fields : k \in DOMAIN fields' /\ fields'[k].path = fields[k].path
  BY <1>3
<1> QED
  BY <1>3, <1>4 DEF FieldPaths

LEMMA AheadKept ==
  ASSUME WalkInv, WalkInv', FieldsInv, AheadInv, [Next]_vars
  PROVE  AheadInv'
<1>1. /\ source' = source
      /\ \/ Rests \/ Finish \/ Returns \/ Opens \/ Examines
         \/ Extracts \/ Compiles \/ BeginsRules \/ BeginsFields
  BY StepForms
<1>2. \A p, n : Trail(p, n)' <=> Trail(p, n)
  BY <1>1, TrailKept
<1>4. ASSUME pc' = "fields", NEW p, NEW n, Trail(p, n)
      PROVE  p \in FieldPaths' \/ AheadOf(p, n)'
  <2>0. p \in FieldPath /\ Len(p) \in Nat \ {0}
    BY <1>4, PathLen DEF Trail
  <2>1. CASE BeginsFields
    <3>1. /\ Frames' = {1} /\ stack'[1].fn = "compileCUEFields" /\ stack'[1].next = 0
          /\ stack'[1].node = source.root
      BY <2>1, OpenedFrame DEF BeginsFields
    <3>2. n[0] = source.root /\ 0 + 1 = 1
      BY <1>4 DEF Trail
    <3>3. Linked(source.root, p[1], n[1])
      <4>1. Linked(n[0], p[0 + 1], n[0 + 1])
        BY <1>4, <2>0, TrailStep
      <4> QED
        BY <4>1, <3>2
    <3>4. It(1)' = Iterated("compileCUEFields", Val(source.root))
      BY <1>1, <3>1 DEF It, Val
    <3>5. source \in Sources /\ source.root \in Nodes /\ "compileCUEFields" \in Recording
      BY NodeFacts DEF WalkInv, StackInv, Recording
    <3>6. PICK i \in 1 .. Len(It(1)') : It(1)'[i].name = p[1]
      BY <3>3, <3>4, <3>5, LinkedListed
    <3>7. i \in Pending(1)' /\ Passes(p, 1, i)'
      BY <2>0, <3>1, <3>6 DEF Pending, Passes
    <3>8. n[1 - 1] = stack'[1].node
      BY <3>1, <3>2
    <3> QED
      BY <3>1, <3>7, <3>8 DEF AheadOf
  <2>2. CASE ~ BeginsFields
    <3>1. pc = "fields" /\ (Rests \/ Returns \/ Opens \/ Compiles)
      <4>1. pc = "fields"
        BY <1>1, <1>4, <2>2
           DEF Rests, Finish, Returns, Opens, Examines, Extracts, Compiles, BeginsRules, BeginsFields
      <4>2. ~ Examines /\ ~ Extracts
        <5>1. stack # << >> => Top.fn = "compileCUEFields"
          BY <4>1, TopFacts DEF WalkInv, PhaseInv
        <5> QED
          BY <5>1 DEF Examines, Extracts, Iterating, InWalk, Recording
      <4> QED
        BY <1>1, <1>4, <2>2, <4>1, <4>2 DEF Finish, BeginsRules
    <3>2. CASE p \in FieldPaths
      <4>1. CASE Compiles
        BY <3>2, <4>1, FieldRecorded
      <4>2. CASE ~ Compiles
        BY <3>1, <3>2, <4>2 DEF Rests, Returns, Opens, FieldPaths
      <4> QED
        BY <4>1, <4>2
    <3>3. CASE AheadOf(p, n)
      <4>1. PICK l \in Frames : \E i \in Pending(l) : Passes(p, l, i) /\ n[l - 1] = stack[l].node
        BY <3>3 DEF AheadOf
      <4>2. PICK i \in Pending(l) : Passes(p, l, i) /\ n[l - 1] = stack[l].node
        BY <4>1
      <4>3. CASE Rests
        BY <1>1, <3>3, <4>3 DEF Rests, AheadOf, Frames, Pending, Passes, It, Val
      <4>4. CASE Returns
        <5>0. stack # << >>
          BY <4>4 DEF Returns, InWalk
        <5>1. PICK t \in Nat \ {0} : /\ t = Len(stack) /\ Top = stack[t] /\ Iteration = It(t)
                                     /\ Frames = 1 .. t
          BY <5>0, TopFacts DEF WalkInv, Frames
        <5>2. l # t
          <6> SUFFICES ASSUME l = t PROVE FALSE
            OBVIOUS
          <6>1. Top.next # Len(Iteration) + 1
            <7>1. i \in 1 .. Len(It(t)) /\ Top.next <= i
              BY <4>2, <5>1 DEF Pending
            <7> QED
              BY <7>1, <5>1
          <6>2. ~ IsStruct(Val(Top.node))
            <7>1. Top.fn = "compileCUEFields"
              BY <3>1, <5>1 DEF WalkInv, PhaseInv
            <7> QED
              BY <6>1, <7>1, <4>4 DEF Returns, Recording, Here
          <6>3. t - 1 \in Nat /\ t - 1 < Len(p)
            BY <4>2, <5>1, <2>0 DEF Passes
          <6>4. IsStruct(Val(n[t - 1]))
            BY <6>3, <1>4, TrailStep
          <6> QED
            BY <6>2, <6>4, <4>2, <5>1
        <5>3. l \in Frames' /\ stack'[l] = stack[l]
          BY <4>4, <5>0, <5>1, <5>2, FramesPopped DEF Returns, WalkInv
        <5>4. It(l)' = It(l)
          BY <1>1, <5>3, SameIteration
        <5>5. Pending(l)' = Pending(l) /\ Passes(p, l, i)'
          BY <4>2, <5>3, <5>4, PendingSame
        <5> QED
          BY <4>2, <5>3, <5>5 DEF AheadOf
      <4>5. ASSUME stack # << >>, Passed, Top.next <= Len(Iteration), Frames \subseteq Frames',
                   l = Len(stack) => i # Top.next
            PROVE  AheadOf(p, n)'
        <5>1. /\ stack'[l].node = stack[l].node /\ Passes(p, l, i)'
              /\ Pending(l)' = IF l = Len(stack) THEN Pending(l) \ {Top.next} ELSE Pending(l)
          BY <1>1, <4>2, <4>5, PendingShrinks DEF WalkInv
        <5>2. i \in Pending(l)' /\ l \in Frames'
          BY <4>2, <4>5, <5>1
        <5> QED
          BY <4>2, <5>1, <5>2 DEF AheadOf
      <4>6. CASE Opens
        <5>1. stack # << >> /\ Passed /\ Frames' = Frames /\ Top.next = 0
          BY <4>6 DEF Opens, Calling, InWalk, Stepped, Frames
        <5>2. Len(Iteration) \in Nat
          BY <5>1, TopFacts, IterationFacts DEF WalkInv, StackInv, Iteration, Here, Call
        <5>3. i # 0
          BY <4>2 DEF Pending
        <5> QED
          BY <4>5, <5>1, <5>2, <5>3
      <4>7. CASE Compiles
        <5>1. stack # << >> /\ Passed /\ Top.next \in 1 .. Len(Iteration) /\ Frames \subseteq Frames'
          <6>1. Iterating /\ stack # << >> /\ Passed
            BY <4>7 DEF Compiles, Iterating, InWalk, Stepped, Pushed
          <6>2. Len(stack) \in Nat
            BY <6>1, TopFacts DEF WalkInv
          <6> QED
            BY <4>7, <6>1, <6>2 DEF Compiles, Iterating, Stepped, Pushed, Frames
        <5>2. CASE l = Len(stack) /\ i = Top.next
          <6>1. Top = stack[Len(stack)]
            BY DEF Top
          <6>2. p = KidPath \/ AheadOf(p, n)'
            BY <1>1, <1>4, <4>2, <4>7, <5>2, <6>1, KidLeads
          <6> QED
            BY <4>7, <6>2, FieldRecorded
        <5>3. CASE ~ (l = Len(stack) /\ i = Top.next)
          <6>1. Top.next <= Len(Iteration)
            BY <5>1
          <6> QED
            BY <4>5, <5>1, <5>3, <6>1
        <5> QED
          BY <5>2, <5>3
      <4> QED
        BY <3>1, <4>3, <4>4, <4>6, <4>7
    <3> QED
      BY <1>4, <3>1, <3>2, <3>3 DEF AheadInv
  <2> QED
    BY <2>1, <2>2
<1>5. ASSUME pc' = "done", NEW p, NEW n, Trail(p, n)
      PROVE  p \in FieldPaths'
  <2>1. CASE Finish
    <3>1. pc = "fields" /\ Frames = {} /\ FieldPaths' = FieldPaths
      BY <2>1 DEF Finish, Frames, FieldPaths
    <3> QED
      BY <3>1, <1>5 DEF AheadInv, AheadOf
  <2>2. CASE ~ Finish
    <3>1. pc = "done" /\ Rests
      BY <1>1, <1>5, <2>2
         DEF Rests, Returns, Opens, Examines, Extracts, Compiles, BeginsRules, BeginsFields,
             Calling, Iterating, InWalk
    <3> QED
      BY <3>1, <1>5 DEF AheadInv, Rests, FieldPaths
  <2> QED
    BY <2>1, <2>2
<1> QED
  BY <1>2, <1>4, <1>5 DEF AheadInv

----------------------------------------------------------------------------
(* The invariant and what follows from it.                                 *)

IInv == WalkInv /\ RulesInv /\ FieldsInv /\ AheadInv

LEMMA InitIInv == Init => IInv
<1> SUFFICES ASSUME Init PROVE IInv
  OBVIOUS
<1>1. rules = << >> /\ fields = << >> /\ pc = "definitions"
  BY DEF Init
<1>2. RulePaths = {} /\ FieldPaths = {}
  BY <1>1 DEF RulePaths, FieldPaths
<1>3. RulesInv /\ FieldsInv /\ AheadInv
  BY <1>1, <1>2 DEF RulesInv, FieldsInv, AheadInv
<1> QED
  BY <1>3, WalkInit DEF IInv

LEMMA NextIInv == IInv /\ [Next]_vars => IInv'
BY WalkKept, RulesKept, FieldsKept, AheadKept DEF IInv

LEMMA IInvHolds == Spec => []IInv
BY InitIInv, NextIInv, PTL DEF Spec

\* Every frame of the recursion is a call of one of the five functions for a
\* value of the schema, stopped before, at or after one of its children, and
\* rules and descriptors have the form the engine takes, whatever the schema,
\* whatever the depth limit, and also where New gives up half way.
THEOREM TypeCorrect == Spec => []TypeOK
<1>1. IInv => TypeOK
  <2> SUFFICES ASSUME IInv PROVE TypeOK
    OBVIOUS
  <2>1. /\ stack \in Seq(Call) /\ \A l \in Frames : FrameOK(l)
        /\ source \in Sources
    BY DEF IInv, WalkInv, StackInv
  <2>2. DOMAIN stack = Frames /\ \A k \in Frames : stack[k] \in Call
    BY <2>1, LenProperties, ElementOfSeq DEF Frames
  <2>3. ASSUME NEW k \in DOMAIN stack
        PROVE  /\ stack[k].fn \in Walks /\ stack[k].node \in DOMAIN source.value
               /\ stack[k].next \in 0 .. Len(Iterated(stack[k].fn, Val(stack[k].node))) + 1
    <3>1. stack[k].fn \in Walks /\ stack[k].node \in Nodes /\ stack[k].next \in Nat
      BY <2>2 DEF Call
    <3>2. Len(It(k)) \in Nat
      BY <2>1, <3>1, IterationFacts DEF It
    <3>3. stack[k].next \in 0 .. Len(It(k)) + 1
      BY <2>1, <2>2, <3>1, <3>2 DEF FrameOK
    <3> QED
      BY <3>1, <3>3 DEF It, Nodes
  <2>4. /\ pc \in {"definitions", "rules", "fields", "done", "failed"}
        /\ rules \in Seq(Rule) /\ fields \in Seq(Field)
    BY DEF IInv, WalkInv, PhaseInv, RulesInv, FieldsInv
  <2> QED
    BY <2>3, <2>4 DEF TypeOK
<1> QED
  BY <1>1, IInvHolds, PTL

\* What New returns satisfies everything ProcessEngine assumes of a schema
\* (SchemaAssumption): extractRules and compileCUEFields recurse separately,
\* and still each rule has the one descriptor of its path, parents come first
\* and are structs, and the rules are in order of priority.
THEOREM CompiledForTheEngine == Spec => []CompilesToSchema
<1>1. IInv => CompilesToSchema
  <2> SUFFICES ASSUME IInv, pc = "done" PROVE CompiledSchema([fields |-> fields, rules |-> rules])
    BY DEF CompilesToSchema
  <2>1. ASSUME NEW k \in DOMAIN rules
        PROVE  \E j \in DOMAIN fields : fields[j].path = rules[k].path
    <3>1. PICK q \in RulePaths : q = rules[k].path
      BY DEF RulePaths
    <3>2. q \in FieldPaths
      BY DEF IInv, RulesInv, AheadInv
    <3> QED
      BY <3>1, <3>2 DEF FieldPaths
  <2>2. SortedByPriority(rules)
    BY DEF IInv, RulesInv
  <2>3. /\ fields \in Seq(Field) /\ rules \in Seq(Rule)
        /\ \A j, k \in DOMAIN fields : fields[j].path = fields[k].path => j = k
        /\ \A k \in DOMAIN fields : fields[k].parent # << >> =>
             \E j \in 1 .. k - 1 : fields[j].path = fields[k].parent /\ fields[j].kind = "struct"
        /\ \A k \in DOMAIN fields : fields[k].fast => fields[k].kind # "struct"
        /\ \A j, k \in DOMAIN rules : rules[j].path = rules[k].path => rules[j].meta = rules[k].meta
    BY DEF IInv, FieldsInv, RulesInv
  <2> QED
    BY <2>1, <2>2, <2>3 DEF CompiledSchema
<1> QED
  BY <1>1, IInvHolds, PTL
=============================================================================
