---------------------------- MODULE ReportProofs ----------------------------
(***************************************************************************)
(* Proofs about what becomes of a field: the rolling row computes the edit *)
(* distance, the suggestion is the candidate it promises, a chain of       *)
(* catalogs says what it is meant to say, and the errors and the texts of  *)
(* every report are therefore as ReportProperties states.                  *)
(*                                                                         *)
(* Its second half is about verdicts: what a descriptor says of a value is *)
(* what CUE says of it, a case of the extraction at a time (ScalarAgrees); *)
(* CUE reports just what it rejects (ReportedIs), and what is left of the  *)
(* reports of a list is one group after the other (CollapseIs).            *)
(*                                                                         *)
(* What is computed along a constraint is a function recursive in its      *)
(* operands: TreeRecursion shows that such a function exists, so that the  *)
(* one CHOOSEn satisfies its equation (KindsIs, DiagnosticsIs), and        *)
(* TreeInduction what all its values are.                                  *)
(***************************************************************************)
EXTENDS ReportProperties, ListingProofs

----------------------------------------------------------------------------
(* Recursion along 0 .. n.                                                 *)

\* f begins with base and goes on by step.
Iterates(f, V, base, n, step) ==
  /\ f \in [0 .. n -> V] /\ f[0] = base
  /\ \A k \in 1 .. n : f[k] = step[k][f[k - 1]]

\* A step function can be iterated.
LEMMA Recursion ==
  ASSUME NEW V, NEW base \in V, NEW n \in Nat, NEW step \in [1 .. n -> [V -> V]]
  PROVE  \E f : Iterates(f, V, base, n, step)
<1> DEFINE Good(f, m) == f[0] = base /\ \A k \in 1 .. m : f[k] = step[k][f[k - 1]]
           Reaches(m) == \E f \in [0 .. m -> V] : Good(f, m)
           S == {m \in Nat : m <= n => Reaches(m)}
<1>1. 0 \in S
  <2>1. PICK f : f = [k \in 0 .. 0 |-> base]
    OBVIOUS
  <2>2. f \in [0 .. 0 -> V] /\ f[0] = base
    BY <2>1
  <2> QED
    BY <2>2
<1>2. ASSUME NEW m \in S
      PROVE  m + 1 \in S
  <2> HIDE DEF Reaches
  <2> SUFFICES ASSUME m + 1 <= n PROVE Reaches(m + 1)
    OBVIOUS
  <2>1. m \in Nat /\ m + 1 \in 1 .. n
    OBVIOUS
  <2>2. PICK f \in [0 .. m -> V] : Good(f, m)
    BY <2>1 DEF Reaches
  <2>3. f[m] \in V
    BY <2>1
  <2>4. PICK v \in V : v = step[m + 1][f[m]]
    BY <2>1, <2>3
  <2>5. PICK g : g = [k \in 0 .. m + 1 |-> IF k = m + 1 THEN v ELSE f[k]]
    OBVIOUS
  <2>6. g \in [0 .. m + 1 -> V]
    BY <2>1, <2>5
  <2>7. g[0] = base /\ g[m] = f[m] /\ g[m + 1] = v
    BY <2>1, <2>2, <2>5
  <2>8. ASSUME NEW k \in 1 .. m + 1
        PROVE  g[k] = step[k][g[k - 1]]
    <3>1. CASE k = m + 1
      BY <2>1, <2>4, <2>7, <3>1
    <3>2. CASE k # m + 1
      <4>1. k \in 1 .. m /\ k - 1 \in 0 .. m /\ k - 1 # m + 1 /\ k \in 0 .. m + 1 /\ k - 1 \in 0 .. m + 1
        BY <2>1, <3>2
      <4>2. g[k] = f[k] /\ g[k - 1] = f[k - 1]
        BY <2>5, <3>2, <4>1
      <4> QED
        BY <2>2, <4>1, <4>2
    <3> QED
      BY <3>1, <3>2
  <2> QED
    BY <2>6, <2>7, <2>8 DEF Reaches
<1> HIDE DEF S
<1>3. S = Nat
  <2>1. S \in SUBSET Nat
    BY DEF S
  <2> QED
    BY <1>1, <1>2, <2>1, SetInduction
<1>4. Reaches(n)
  BY <1>3 DEF S
<1> QED
  BY <1>4 DEF Iterates

----------------------------------------------------------------------------
(* One pass over a row.                                                    *)

LEMMA LeastIs ==
  ASSUME NEW x \in Nat, NEW y \in Nat
  PROVE  Least(x, y) \in Nat /\ Least(x, y) <= x /\ Least(x, y) <= y
BY DEF Least

LEMMA CostIs ==
  ASSUME NEW x, NEW y
  PROVE  Cost(x, y) \in {0, 1}
BY DEF Cost

\* One column of a pass.
Column(done, j, letter, b) ==
  LET cur == Least(done.row[j] + 1,
                   Least(done.row[j - 1] + 1, done.diag + Cost(letter, b[j])))
  IN  [row |-> [done.row EXCEPT ![j] = cur], diag |-> done.row[j]]

PassState(n) == [row : [0 .. n -> Nat], diag : Nat]

\* The state after a column: one entry replaced, and the old one remembered.
Advances(next, done, n, j, letter, b) ==
  /\ next \in PassState(n) /\ next.diag = done.row[j]
  /\ next.row[j] = Least(done.row[j] + 1,
                         Least(done.row[j - 1] + 1, done.diag + Cost(letter, b[j])))
  /\ \A k \in 0 .. n : k # j => next.row[k] = done.row[k]

LEMMA ColumnIs ==
  ASSUME NEW n \in Nat, NEW done \in PassState(n), NEW j \in 1 .. n, NEW letter, NEW b
  PROVE  Advances(Column(done, j, letter, b), done, n, j, letter, b)
<1>1. PICK row \in [0 .. n -> Nat], diag \in Nat : row = done.row /\ diag = done.diag
  BY DEF PassState
<1>2. PICK c \in {0, 1} : c = Cost(letter, b[j])
  BY CostIs
<1>3. PICK x \in Nat, y \in Nat : x = row[j] + 1 /\ y = row[j - 1] + 1
  <2>1. j \in 0 .. n /\ j - 1 \in 0 .. n
    OBVIOUS
  <2>2. row[j] \in Nat /\ row[j - 1] \in Nat
    BY <2>1
  <2> QED
    BY <2>2
<1>4. PICK cur \in Nat : cur = Least(x, Least(y, diag + c))
  <2>1. PICK z \in Nat : z = diag + c
    OBVIOUS
  <2>2. PICK w \in Nat : w = Least(y, z)
    BY LeastIs
  <2>3. Least(x, w) \in Nat
    BY LeastIs
  <2> QED
    BY <2>1, <2>2, <2>3
<1>5. PICK r : r = [row EXCEPT ![j] = cur]
  OBVIOUS
<1>6. r \in [0 .. n -> Nat] /\ r[j] = cur /\ \A k \in 0 .. n : k # j => r[k] = row[k]
  BY <1>5
<1>7. Column(done, j, letter, b) = [row |-> r, diag |-> row[j]]
  BY <1>1, <1>2, <1>3, <1>4, <1>5 DEF Column
<1>8. row[j] \in Nat
  <2>1. j \in 0 .. n
    OBVIOUS
  <2> QED
    BY <2>1
<1>9. PICK next : next = Column(done, j, letter, b) /\ next.row = r /\ next.diag = row[j]
  BY <1>7
<1>10. next \in PassState(n)
  BY <1>6, <1>7, <1>8, <1>9 DEF PassState
<1>11. next.row[j] = Least(done.row[j] + 1,
                           Least(done.row[j - 1] + 1, done.diag + Cost(letter, b[j])))
  BY <1>1, <1>2, <1>3, <1>4, <1>6, <1>9
<1>12. \A k \in 0 .. n : k # j => next.row[k] = done.row[k]
  BY <1>1, <1>6, <1>9
<1> QED
  BY <1>1, <1>9, <1>10, <1>11, <1>12 DEF Advances

\* The states of a pass.
Passing(p, row, i, letter, b, n) ==
  /\ p \in [0 .. n -> PassState(n)]
  /\ p[0] = [row |-> [row EXCEPT ![0] = i], diag |-> row[0]]
  /\ \A j \in 1 .. n : p[j] = Column(p[j - 1], j, letter, b)

LEMMA PassesSteps ==
  ASSUME NEW b, NEW n \in Nat, n = Len(b), NEW row \in [0 .. n -> Nat], NEW i \in Nat, NEW letter
  PROVE  Passing(Passes(row, i, letter, b), row, i, letter, b, n)
<1> DEFINE V == PassState(n)
           base == [row |-> [row EXCEPT ![0] = i], diag |-> row[0]]
           step == [j \in 1 .. n |-> [v \in V |-> Column(v, j, letter, b)]]
           body(f) == [j \in 0 .. n |-> IF j = 0 THEN base ELSE Column(f[j - 1], j, letter, b)]
<1>1. base \in V
  BY DEF PassState
<1>2. step \in [1 .. n -> [V -> V]]
  BY ColumnIs DEF Advances
<1>3. Passes(row, i, letter, b) = CHOOSE f : f = body(f)
  BY DEF Passes, Column
<1> HIDE DEF V, base
<1>4. PICK f \in [0 .. n -> V] : f[0] = base /\ \A k \in 1 .. n : f[k] = step[k][f[k - 1]]
  <2> HIDE DEF step
  <2>1. \E f : Iterates(f, V, base, n, step)
    BY <1>1, <1>2, Recursion
  <2> QED
    BY <2>1 DEF Iterates
<1>5. \A j \in 1 .. n : f[j] = Column(f[j - 1], j, letter, b)
  <2> TAKE j \in 1 .. n
  <2>1. PICK v \in V : v = f[j - 1]
    OBVIOUS
  <2>2. step[j][v] = Column(v, j, letter, b)
    OBVIOUS
  <2> HIDE DEF step
  <2> QED
    BY <1>4, <2>1, <2>2
<1>6. f = body(f)
  <2>1. \A j \in 0 .. n : f[j] = IF j = 0 THEN base ELSE Column(f[j - 1], j, letter, b)
    BY <1>4, <1>5
  <2> QED
    BY <1>4, <2>1
<1>7. PICK p : p = Passes(row, i, letter, b) /\ p = body(p)
  BY <1>3, <1>6
<1>8. p[0] = base /\ \A j \in 1 .. n : p[j] = Column(p[j - 1], j, letter, b)
  BY <1>7
<1>9. p \in [0 .. n -> V]
  <2> DEFINE S == {j \in Nat : j <= n => p[j] \in V}
  <2>1. 0 \in S
    BY <1>1, <1>8
  <2>2. ASSUME NEW j \in S
        PROVE  j + 1 \in S
    <3> SUFFICES ASSUME j + 1 <= n PROVE p[j + 1] \in V
      OBVIOUS
    <3>1. j + 1 \in 1 .. n /\ j + 1 - 1 = j /\ p[j] \in V
      OBVIOUS
    <3>2. Column(p[j], j + 1, letter, b) \in V
      BY <3>1, ColumnIs DEF V, Advances
    <3> QED
      BY <1>8, <3>1, <3>2
  <2> HIDE DEF S
  <2>3. S = Nat
    <3>1. S \in SUBSET Nat
      BY DEF S
    <3> QED
      BY <2>1, <2>2, <3>1, SetInduction
  <2>4. \A j \in 0 .. n : p[j] \in V
    BY <2>3 DEF S
  <2> QED
    BY <1>7, <2>4
<1> QED
  BY <1>7, <1>8, <1>9 DEF V, base, Passing

\* What an entry of a row is, from the row above and the row itself.
Cell(above, row, j, letter, b) ==
  Least(above[j] + 1, Least(row[j - 1] + 1, above[j - 1] + Cost(letter, b[j])))

\* The row a pass leaves, though it overwrites the row it reads.
Below(r, row, i, letter, b, n) ==
  /\ r \in [0 .. n -> Nat] /\ r[0] = i
  /\ \A j \in 1 .. n : r[j] = Cell(row, r, j, letter, b)

LEMMA NextRowIs ==
  ASSUME NEW b, NEW n \in Nat, n = Len(b), NEW row \in [0 .. n -> Nat], NEW i \in Nat, NEW letter
  PROVE  Below(NextRow(row, i, letter, b), row, i, letter, b, n)
<1>0. PICK p : p = Passes(row, i, letter, b) /\ Passing(p, row, i, letter, b, n)
  BY PassesSteps
<1>1. /\ p \in [0 .. n -> PassState(n)]
      /\ p[0] = [row |-> [row EXCEPT ![0] = i], diag |-> row[0]]
      /\ \A j \in 1 .. n : p[j] = Column(p[j - 1], j, letter, b)
  BY <1>0 DEF Passing
<1> DEFINE Inv(j) == /\ p[j].diag = row[j] /\ p[j].row[0] = i
                     /\ \A k \in j + 1 .. n : p[j].row[k] = row[k]
                     /\ \A k \in 1 .. j : p[j].row[k] = Cell(row, p[j].row, k, letter, b)
           S == {j \in Nat : j <= n => Inv(j)}
<1>2. 0 \in S
  <2>1. p[0].diag = row[0] /\ p[0].row = [row EXCEPT ![0] = i]
    BY <1>1
  <2>2. PICK r : r = [row EXCEPT ![0] = i]
    OBVIOUS
  <2>3. r[0] = i /\ \A k \in 1 .. n : r[k] = row[k]
    BY <2>2
  <2>4. Inv(0)
    BY <2>1, <2>2, <2>3
  <2> HIDE DEF Inv
  <2> QED
    BY <2>4
<1>3. ASSUME NEW j \in S
      PROVE  j + 1 \in S
  <2> HIDE DEF Inv
  <2> SUFFICES ASSUME j + 1 <= n PROVE Inv(j + 1)
    OBVIOUS
  <2>1. PICK l \in 1 .. n : l = j + 1 /\ j = l - 1 /\ j \in 0 .. n
    OBVIOUS
  <2>2. Inv(j)
    BY <2>1
  <2>3. PICK q \in PassState(n) : q = p[j]
    BY <1>1, <2>1
  <2>4. PICK next : next = p[l] /\ next = Column(q, l, letter, b)
    BY <1>1, <2>1, <2>3
  <2>5. next \in PassState(n)
    BY <2>4, ColumnIs DEF Advances
  <2>6. PICK old \in [0 .. n -> Nat], new \in [0 .. n -> Nat] : old = q.row /\ new = next.row
    BY <2>3, <2>5 DEF PassState
  <2>7. /\ next.diag = old[l]
        /\ new[l] = Least(old[l] + 1, Least(old[l - 1] + 1, q.diag + Cost(letter, b[l])))
        /\ \A k \in 0 .. n : k # l => new[k] = old[k]
    <3>1. Advances(next, q, n, l, letter, b)
      BY <2>4, ColumnIs
    <3> QED
      BY <2>6, <3>1 DEF Advances
  <2>8. /\ q.diag = row[l - 1] /\ old[0] = i
        /\ \A k \in l .. n : old[k] = row[k]
        /\ \A k \in 1 .. l - 1 : old[k] = Cell(row, old, k, letter, b)
    BY <2>1, <2>2, <2>3, <2>6 DEF Inv
  <2>9. next.diag = row[l] /\ new[0] = i /\ \A k \in l + 1 .. n : new[k] = row[k]
    BY <2>7, <2>8
  <2>10. \A k \in 1 .. l : new[k] = Cell(row, new, k, letter, b)
    <3>1. new[l] = Cell(row, new, l, letter, b)
      <4>1. old[l] = row[l] /\ new[l - 1] = old[l - 1]
        BY <2>7, <2>8
      <4> QED
        BY <2>7, <2>8, <4>1 DEF Cell
    <3>2. ASSUME NEW k \in 1 .. l - 1
          PROVE  new[k] = Cell(row, new, k, letter, b)
      <4>1. new[k] = old[k] /\ new[k - 1] = old[k - 1]
        BY <2>7
      <4> QED
        BY <2>8, <4>1 DEF Cell
    <3>3. \A k \in 1 .. l : k = l \/ k \in 1 .. l - 1
      OBVIOUS
    <3> QED
      BY <3>1, <3>2, <3>3
  <2>11. Inv(l)
    BY <2>4, <2>6, <2>9, <2>10 DEF Inv
  <2> QED
    BY <2>1, <2>11
<1> HIDE DEF S
<1>4. S = Nat
  <2>1. S \in SUBSET Nat
    BY DEF S
  <2> QED
    BY <1>2, <1>3, <2>1, SetInduction
<1>5. Inv(n)
  BY <1>4 DEF S
<1>6. PICK r : r = NextRow(row, i, letter, b) /\ r = p[n].row
  BY <1>0 DEF NextRow
<1>7. r \in [0 .. n -> Nat]
  BY <1>1, <1>6 DEF PassState
<1> QED
  BY <1>5, <1>6, <1>7 DEF Below

----------------------------------------------------------------------------
(* All the rows.                                                           *)

\* Each of the rows is what a pass makes of the one before.
Stacked(r, a, b, m, n) ==
  /\ r \in [0 .. m -> [0 .. n -> Nat]]
  /\ r[0] = [j \in 0 .. n |-> j]
  /\ \A i \in 1 .. m : r[i] = NextRow(r[i - 1], i, a[i], b)

LEMMA RowsSteps ==
  ASSUME NEW a, NEW b, NEW m \in Nat, m = Len(a), NEW n \in Nat, n = Len(b)
  PROVE  Stacked(Rows(a, b), a, b, m, n)
<1> DEFINE V == [0 .. n -> Nat]
           base == [j \in 0 .. n |-> j]
           step == [i \in 1 .. m |-> [v \in V |-> NextRow(v, i, a[i], b)]]
           body(f) == [i \in 0 .. m |-> IF i = 0 THEN base ELSE NextRow(f[i - 1], i, a[i], b)]
<1>1. base \in V
  OBVIOUS
<1>2. \A i \in 1 .. m : \A v \in V : NextRow(v, i, a[i], b) \in V
  BY NextRowIs DEF Below
<1>3. Rows(a, b) = CHOOSE f : f = body(f)
  BY DEF Rows
<1> HIDE DEF V, base
<1>4. PICK f \in [0 .. m -> V] : f[0] = base /\ \A k \in 1 .. m : f[k] = step[k][f[k - 1]]
  <2> HIDE DEF step
  <2>1. step \in [1 .. m -> [V -> V]]
    BY <1>2 DEF step
  <2>2. \E f : Iterates(f, V, base, m, step)
    BY <1>1, <2>1, Recursion
  <2> QED
    BY <2>2 DEF Iterates
<1>5. \A i \in 1 .. m : f[i] = NextRow(f[i - 1], i, a[i], b)
  <2> TAKE i \in 1 .. m
  <2>1. PICK v \in V : v = f[i - 1]
    OBVIOUS
  <2>2. step[i][v] = NextRow(v, i, a[i], b)
    OBVIOUS
  <2> HIDE DEF step
  <2> QED
    BY <1>4, <2>1, <2>2
<1>6. f = body(f)
  <2>1. \A i \in 0 .. m : f[i] = IF i = 0 THEN base ELSE NextRow(f[i - 1], i, a[i], b)
    BY <1>4, <1>5
  <2> QED
    BY <1>4, <2>1
<1>7. PICK r : r = Rows(a, b) /\ r = body(r)
  BY <1>3, <1>6
<1>8. r[0] = base /\ \A i \in 1 .. m : r[i] = NextRow(r[i - 1], i, a[i], b)
  <2>1. \A i \in 0 .. m : r[i] = IF i = 0 THEN base ELSE NextRow(r[i - 1], i, a[i], b)
    BY <1>7
  <2>2. 0 \in 0 .. m /\ \A i \in 1 .. m : i \in 0 .. m /\ i # 0
    OBVIOUS
  <2> HIDE DEF body
  <2> QED
    BY <2>1, <2>2
<1>9. r \in [0 .. m -> V]
  <2> DEFINE S == {i \in Nat : i <= m => r[i] \in V}
  <2>1. 0 \in S
    BY <1>1, <1>8
  <2>2. ASSUME NEW i \in S
        PROVE  i + 1 \in S
    <3> SUFFICES ASSUME i + 1 <= m PROVE r[i + 1] \in V
      OBVIOUS
    <3>1. PICK k \in 1 .. m : k = i + 1 /\ k - 1 = i
      OBVIOUS
    <3>2. PICK v \in V : v = r[i]
      OBVIOUS
    <3>3. NextRow(v, k, a[k], b) \in V
      BY <1>2
    <3> QED
      BY <1>8, <3>1, <3>2, <3>3
  <2> HIDE DEF S
  <2>3. S = Nat
    <3>1. S \in SUBSET Nat
      BY DEF S
    <3> QED
      BY <2>1, <2>2, <3>1, SetInduction
  <2>4. \A i \in 0 .. m : r[i] \in V
    BY <2>3 DEF S
  <2> QED
    BY <1>7, <2>4
<1>10. Stacked(r, a, b, m, n)
  BY <1>8, <1>9 DEF V, base, Stacked
<1> QED
  BY <1>7, <1>10

\* The entries of the rows are the textbook's distances.
Table(r, a, b, m, n) ==
  /\ r \in [0 .. m -> [0 .. n -> Nat]]
  /\ \A i \in 0 .. m : r[i][0] = i
  /\ \A j \in 0 .. n : r[0][j] = j
  /\ \A i \in 1 .. m, j \in 1 .. n :
       r[i][j] = Least(r[i - 1][j - 1] + Cost(a[i], b[j]),
                       Least(r[i - 1][j] + 1, r[i][j - 1] + 1))

LEMMA RowsAre ==
  ASSUME NEW a, NEW b, NEW m \in Nat, m = Len(a), NEW n \in Nat, n = Len(b)
  PROVE  Table(Rows(a, b), a, b, m, n)
<1>0. Stacked(Rows(a, b), a, b, m, n)
  BY RowsSteps
<1>1. PICK r \in [0 .. m -> [0 .. n -> Nat]] :
        /\ r = Rows(a, b) /\ r[0] = [j \in 0 .. n |-> j]
        /\ \A i \in 1 .. m : r[i] = NextRow(r[i - 1], i, a[i], b)
  BY <1>0 DEF Stacked
<1>2. \A j \in 0 .. n : r[0][j] = j
  BY <1>1
<1>3. ASSUME NEW i \in 1 .. m
      PROVE  /\ r[i][0] = i
             /\ \A j \in 1 .. n : r[i][j] = Cell(r[i - 1], r[i], j, a[i], b)
  <2>1. PICK above \in [0 .. n -> Nat] : above = r[i - 1]
    <3>1. i - 1 \in 0 .. m
      OBVIOUS
    <3>2. r[i - 1] \in [0 .. n -> Nat]
      BY <3>1
    <3> QED
      BY <3>2
  <2>2. PICK row : row = r[i] /\ row = NextRow(above, i, a[i], b)
    BY <1>1, <2>1
  <2>3. row[0] = i /\ \A j \in 1 .. n : row[j] = Cell(above, row, j, a[i], b)
    <3>1. i \in Nat
      OBVIOUS
    <3>2. Below(row, above, i, a[i], b, n)
      BY <2>2, <3>1, NextRowIs
    <3> QED
      BY <3>2 DEF Below
  <2> QED
    BY <2>1, <2>2, <2>3
<1>4. \A i \in 0 .. m : r[i][0] = i
  <2> TAKE i \in 0 .. m
  <2>1. CASE i = 0
    BY <1>2, <2>1
  <2>2. CASE i # 0
    BY <1>3, <2>2
  <2> QED
    BY <2>1, <2>2
<1>5. ASSUME NEW i \in 1 .. m, NEW j \in 1 .. n
      PROVE  r[i][j] = Least(r[i - 1][j - 1] + Cost(a[i], b[j]),
                             Least(r[i - 1][j] + 1, r[i][j - 1] + 1))
  <2>1. PICK above \in [0 .. n -> Nat], row \in [0 .. n -> Nat] : above = r[i - 1] /\ row = r[i]
    <3>1. i \in 0 .. m /\ i - 1 \in 0 .. m
      OBVIOUS
    <3>2. r[i - 1] \in [0 .. n -> Nat] /\ r[i] \in [0 .. n -> Nat]
      BY <3>1
    <3> QED
      BY <3>2
  <2>2. row[j] = Cell(above, row, j, a[i], b)
    BY <1>3, <2>1
  <2>3. PICK x \in Nat, y \in Nat, z \in Nat : x = above[j] + 1 /\ y = row[j - 1] + 1 /\ z = above[j - 1] + Cost(a[i], b[j])
    <3>1. j \in 0 .. n /\ j - 1 \in 0 .. n
      OBVIOUS
    <3>2. PICK c \in {0, 1} : c = Cost(a[i], b[j])
      BY CostIs
    <3>3. above[j] \in Nat /\ row[j - 1] \in Nat /\ above[j - 1] \in Nat
      BY <3>1
    <3> QED
      BY <3>2, <3>3
  <2>4. Least(x, Least(y, z)) = Least(z, Least(x, y))
    BY DEF Least
  <2> QED
    BY <2>1, <2>2, <2>3, <2>4 DEF Cell
<1>6. Table(r, a, b, m, n)
  BY <1>2, <1>4, <1>5 DEF Table
<1> QED
  BY <1>1, <1>6

\* D satisfies the textbook's recursion.
Recursive(D, a, b, m, n) ==
  /\ \A i \in 0 .. m : D[<<i, 0>>] = i
  /\ \A j \in 0 .. n : D[<<0, j>>] = j
  /\ \A i \in 1 .. m, j \in 1 .. n :
       D[<<i, j>>] = Least(D[<<i - 1, j - 1>>] + Cost(a[i], b[j]),
                           Least(D[<<i - 1, j>>] + 1, D[<<i, j - 1>>] + 1))

LEMMA DistancesSteps ==
  ASSUME NEW a, NEW b, NEW m \in Nat, m = Len(a), NEW n \in Nat, n = Len(b)
  PROVE  Recursive(Distances(a, b), a, b, m, n)
<1> DEFINE P == (0 .. m) \X (0 .. n)
           entry(f, i, j) ==
             IF i = 0 THEN j ELSE IF j = 0 THEN i
             ELSE Least(f[<<i - 1, j - 1>>] + Cost(a[i], b[j]),
                        Least(f[<<i - 1, j>>] + 1, f[<<i, j - 1>>] + 1))
           body(f) == [p \in P |-> entry(f, p[1], p[2])]
<1>1. Distances(a, b) = CHOOSE f : f = body(f)
  BY DEF Distances
<1>2. PICK r : Table(r, a, b, m, n)
  BY RowsAre
<1>3. PICK f : f = [p \in P |-> r[p[1]][p[2]]]
  OBVIOUS
<1>4. \A i \in 0 .. m, j \in 0 .. n : f[<<i, j>>] = r[i][j]
  BY <1>3
<1>5. ASSUME NEW i \in 0 .. m, NEW j \in 0 .. n
      PROVE  f[<<i, j>>] = entry(f, i, j)
  <2>0. r[i][0] = i /\ r[0][j] = j /\ f[<<i, j>>] = r[i][j]
    BY <1>2, <1>4 DEF Table
  <2>1. CASE i = 0 \/ j = 0
    BY <2>0, <2>1
  <2>2. CASE i # 0 /\ j # 0
    <3>1. i \in 1 .. m /\ j \in 1 .. n /\ i - 1 \in 0 .. m /\ j - 1 \in 0 .. n
      BY <2>2
    <3>2. /\ f[<<i - 1, j - 1>>] = r[i - 1][j - 1] /\ f[<<i - 1, j>>] = r[i - 1][j]
          /\ f[<<i, j - 1>>] = r[i][j - 1] /\ f[<<i, j>>] = r[i][j]
      BY <1>4, <3>1
    <3> QED
      BY <1>2, <2>2, <3>1, <3>2 DEF Table
  <2> QED
    BY <2>1, <2>2
<1>6. f = body(f)
  <2>1. \A p \in P : f[p] = entry(f, p[1], p[2])
    <3> TAKE p \in P
    <3>1. PICK i \in 0 .. m, j \in 0 .. n : p = <<i, j>>
      OBVIOUS
    <3> HIDE DEF entry
    <3> QED
      BY <1>5, <3>1
  <2> HIDE DEF entry
  <2> QED
    BY <1>3, <2>1
<1>7. PICK D : D = Distances(a, b) /\ D = body(D)
  <2> HIDE DEF body
  <2> QED
    BY <1>1, <1>6
<1>8. \A i \in 0 .. m, j \in 0 .. n : D[<<i, j>>] = entry(D, i, j)
  <2> TAKE i \in 0 .. m, j \in 0 .. n
  <2>1. PICK p \in P : p = <<i, j>> /\ p[1] = i /\ p[2] = j
    <3>1. <<i, j>> \in P /\ <<i, j>>[1] = i /\ <<i, j>>[2] = j
      OBVIOUS
    <3> QED
      BY <3>1, Zenon
  <2> HIDE DEF entry
  <2>2. D[p] = entry(D, p[1], p[2])
    BY <1>7
  <2> QED
    BY <2>1, <2>2
<1>9. /\ \A i \in 0 .. m : D[<<i, 0>>] = i
      /\ \A j \in 0 .. n : D[<<0, j>>] = j
  <2>1. /\ \A i \in 0 .. m : D[<<i, 0>>] = entry(D, i, 0)
        /\ \A j \in 0 .. n : D[<<0, j>>] = entry(D, 0, j)
    <3>1. 0 \in 0 .. m /\ 0 \in 0 .. n
      OBVIOUS
    <3> HIDE DEF entry
    <3> QED
      BY <1>8, <3>1
  <2>2. /\ \A i \in 0 .. m : entry(D, i, 0) = i
        /\ \A j \in 0 .. n : entry(D, 0, j) = j
    OBVIOUS
  <2> HIDE DEF entry
  <2> QED
    BY <2>1, <2>2
<1>10. ASSUME NEW i \in 1 .. m, NEW j \in 1 .. n
       PROVE  D[<<i, j>>] = Least(D[<<i - 1, j - 1>>] + Cost(a[i], b[j]),
                                  Least(D[<<i - 1, j>>] + 1, D[<<i, j - 1>>] + 1))
  <2>1. i \in 0 .. m /\ j \in 0 .. n /\ i # 0 /\ j # 0
    OBVIOUS
  <2>2. D[<<i, j>>] = entry(D, i, j)
    <3> HIDE DEF entry
    <3> QED
      BY <1>8, <2>1
  <2> QED
    BY <2>1, <2>2
<1> QED
  BY <1>7, <1>9, <1>10 DEF Recursive

\* Two solutions of the recursion are one.
LEMMA RollingRow ==
  ASSUME NEW a, NEW b, NEW m \in Nat, m = Len(a), NEW n \in Nat, n = Len(b)
  PROVE  Distance(a, b) = Rows(a, b)[m][n]
<1>1. PICK r : r = Rows(a, b) /\ Table(r, a, b, m, n)
  BY RowsAre
<1>2. PICK D : D = Distances(a, b) /\ Recursive(D, a, b, m, n)
  BY DistancesSteps
<1> DEFINE Agree(i, j) == D[<<i, j>>] = r[i][j]
           S == {s \in Nat : \A i \in 0 .. m, j \in 0 .. n : i + j <= s => Agree(i, j)}
<1>3. \A i \in 0 .. m, j \in 0 .. n : i = 0 \/ j = 0 => Agree(i, j)
  <2>1. \A j \in 0 .. n : D[<<0, j>>] = r[0][j]
    BY <1>1, <1>2 DEF Table, Recursive
  <2>2. \A i \in 0 .. m : D[<<i, 0>>] = r[i][0]
    BY <1>1, <1>2 DEF Table, Recursive
  <2> QED
    BY <2>1, <2>2
<1>4. ASSUME NEW i \in 1 .. m, NEW j \in 1 .. n,
             Agree(i - 1, j - 1), Agree(i - 1, j), Agree(i, j - 1)
      PROVE  Agree(i, j)
  <2>1. D[<<i, j>>] = Least(D[<<i - 1, j - 1>>] + Cost(a[i], b[j]),
                           Least(D[<<i - 1, j>>] + 1, D[<<i, j - 1>>] + 1))
    BY <1>2 DEF Recursive
  <2>2. r[i][j] = Least(r[i - 1][j - 1] + Cost(a[i], b[j]),
                        Least(r[i - 1][j] + 1, r[i][j - 1] + 1))
    BY <1>1 DEF Table
  <2> QED
    BY <1>4, <2>1, <2>2
<1> HIDE DEF Agree
<1>5. 0 \in S
  BY <1>3
<1>6. ASSUME NEW s \in S
      PROVE  s + 1 \in S
  <2> SUFFICES ASSUME NEW i \in 0 .. m, NEW j \in 0 .. n, i + j <= s + 1 PROVE Agree(i, j)
    OBVIOUS
  <2>1. CASE i = 0 \/ j = 0
    BY <1>3, <2>1
  <2>2. CASE i # 0 /\ j # 0
    <3>1. PICK h \in 0 .. m, k \in 0 .. n : h = i - 1 /\ k = j - 1
      BY <2>2
    <3>2. h + k <= s /\ h + j <= s /\ i + k <= s
      BY <3>1
    <3>3. Agree(h, k) /\ Agree(h, j) /\ Agree(i, k)
      BY <3>2
    <3>4. i \in 1 .. m /\ j \in 1 .. n
      BY <2>2
    <3> QED
      BY <1>4, <3>1, <3>3, <3>4
  <2> QED
    BY <2>1, <2>2
<1>7. S = Nat
  <2> HIDE DEF S
  <2>1. S \in SUBSET Nat
    BY DEF S
  <2> QED
    BY <1>5, <1>6, <2>1, SetInduction
<1>8. Agree(m, n)
  <2>1. m + n \in S
    <3> HIDE DEF S
    <3> QED
      BY <1>7
  <2> QED
    BY <2>1
<1> QED
  BY <1>1, <1>2, <1>8 DEF Distance, Agree

\* The rolling row computes the edit distance, for strings of any length.
THEOREM RollingRowIsDistance ==
  ASSUME NEW a \in Seq(Letter), NEW b \in Seq(Letter)
  PROVE  levenshteinFold(a, b) = Distance(a, b) /\ Distance(a, b) \in Nat
<1>1. PICK m \in Nat, n \in Nat : m = Len(a) /\ n = Len(b)
  BY LenProperties
<1>2. PICK r : r = Rows(a, b) /\ Table(r, a, b, m, n)
  BY <1>1, RowsAre
<1>3. Distance(a, b) = r[m][n]
  BY <1>1, <1>2, RollingRow
<1>4. CASE a = << >>
  <2>1. m = 0
    BY <1>1, <1>4
  <2> QED
    BY <1>1, <1>2, <1>3, <1>4, <2>1 DEF levenshteinFold, Table
<1>5. CASE a # << >> /\ b = << >>
  <2>1. n = 0
    BY <1>1, <1>5
  <2> QED
    BY <1>1, <1>2, <1>3, <1>5, <2>1 DEF levenshteinFold, Table
<1>6. CASE a # << >> /\ b # << >>
  <2>1. r[m][n] \in Nat
    BY <1>2 DEF Table
  <2> QED
    BY <1>1, <1>2, <1>3, <1>6, <2>1 DEF levenshteinFold
<1> QED
  BY <1>4, <1>5, <1>6

----------------------------------------------------------------------------
(* The choice of a candidate.                                              *)

\* The candidate looked at last, against the best before it.
Better(before, candidate, d) ==
  IF d < before.dist THEN [best |-> candidate, dist |-> d] ELSE before

\* What is kept after each candidate.
Keeping(f, candidates, d, n) ==
  /\ f[0] = [best |-> << >>, dist |-> MaxSuggestionDistance + 1]
  /\ \A k \in 1 .. n : f[k] = Better(f[k - 1], candidates[k], d[k])

LEMMA NearestSteps ==
  ASSUME NEW value \in Seq(Letter), NEW candidates \in Seq(Seq(Letter)),
         NEW n \in Nat, n = Len(candidates), NEW d \in [1 .. n -> Nat],
         \A k \in 1 .. n : levenshteinFold(value, candidates[k]) = d[k]
  PROVE  Keeping(Nearest(value, candidates), candidates, d, n)
<1> DEFINE V == [best : Seq(Letter), dist : Nat]
           base == [best |-> << >>, dist |-> MaxSuggestionDistance + 1]
           step == [k \in 1 .. n |-> [v \in V |-> Better(v, candidates[k], d[k])]]
           fold(f, k) == Better(f[k - 1], candidates[k], levenshteinFold(value, candidates[k]))
           body(f) == [k \in 0 .. n |-> IF k = 0 THEN base ELSE fold(f, k)]
<1>1. base \in V
  BY DEF MaxSuggestionDistance
<1>2. step \in [1 .. n -> [V -> V]]
  <2>1. \A k \in 1 .. n : candidates[k] \in Seq(Letter)
    BY ElementOfSeq
  <2>2. \A k \in 1 .. n : \A v \in V : Better(v, candidates[k], d[k]) \in V
    BY <2>1 DEF Better
  <2> QED
    BY <2>2
<1>3. Nearest(value, candidates) = CHOOSE f : f = body(f)
  BY DEF Nearest, Better
<1> HIDE DEF V, base
<1>4. PICK f \in [0 .. n -> V] : f[0] = base /\ \A k \in 1 .. n : f[k] = step[k][f[k - 1]]
  <2> HIDE DEF step
  <2>1. \E f : Iterates(f, V, base, n, step)
    BY <1>1, <1>2, Recursion
  <2> QED
    BY <2>1 DEF Iterates
<1>5. \A k \in 1 .. n : f[k] = Better(f[k - 1], candidates[k], d[k])
  <2> TAKE k \in 1 .. n
  <2>0. k - 1 \in 0 .. n
    OBVIOUS
  <2>1. f[k - 1] \in V
    BY <2>0
  <2>2. PICK v \in V : v = f[k - 1]
    BY <2>1
  <2>3. step[k][v] = Better(v, candidates[k], d[k])
    OBVIOUS
  <2> HIDE DEF step
  <2> QED
    BY <1>4, <2>2, <2>3
<1>6. f = body(f)
  <2>1. \A k \in 0 .. n : f[k] = IF k = 0 THEN base ELSE fold(f, k)
    BY <1>4, <1>5
  <2> HIDE DEF fold
  <2> QED
    BY <1>4, <2>1
<1>7. PICK r : r = Nearest(value, candidates) /\ r = body(r)
  BY <1>3, <1>6
<1>8. r[0] = base
  BY <1>7
<1>9. \A k \in 1 .. n : r[k] = Better(r[k - 1], candidates[k], d[k])
  <2> TAKE k \in 1 .. n
  <2>1. k \in 0 .. n /\ k # 0
    OBVIOUS
  <2>2. r[k] = fold(r, k)
    BY <1>7, <2>1
  <2>3. levenshteinFold(value, candidates[k]) = d[k]
    OBVIOUS
  <2> QED
    BY <2>2, <2>3
<1> QED
  BY <1>7, <1>8, <1>9 DEF base, Keeping

\* The first of the nearest among the first k candidates, if one is nearer
\* than the limit.
FirstNearest(state, candidates, d, k) ==
  /\ state.dist \in 0 .. MaxSuggestionDistance + 1
  /\ \A i \in 1 .. k : state.dist <= d[i]
  /\ state.dist <= MaxSuggestionDistance =>
       \E i \in 1 .. k : /\ state.best = candidates[i] /\ state.dist = d[i]
                         /\ \A j \in 1 .. i - 1 : d[i] < d[j]

LEMMA NearestKept ==
  ASSUME NEW candidates, NEW n \in Nat, NEW d \in [1 .. n -> Nat], NEW f, Keeping(f, candidates, d, n)
  PROVE  FirstNearest(f[n], candidates, d, n)
<1> DEFINE S == {k \in Nat : k <= n => FirstNearest(f[k], candidates, d, k)}
<1>1. 0 \in S
  BY DEF Keeping, FirstNearest, MaxSuggestionDistance
<1>2. ASSUME NEW k \in S
      PROVE  k + 1 \in S
  <2> SUFFICES ASSUME k + 1 <= n PROVE FirstNearest(f[k + 1], candidates, d, k + 1)
    OBVIOUS
  <2>1. PICK l \in 1 .. n : l = k + 1 /\ k = l - 1
    OBVIOUS
  <2>2. PICK before, after : before = f[k] /\ after = f[l]
    OBVIOUS
  <2>3. FirstNearest(before, candidates, d, k)
    BY <2>1, <2>2
  <2> HIDE DEF S
  <2>4. after = Better(before, candidates[l], d[l])
    BY <2>1, <2>2 DEF Keeping
  <2>5. CASE d[l] < before.dist
    <3>1. after.best = candidates[l] /\ after.dist = d[l]
      BY <2>4, <2>5 DEF Better
    <3>2. d[l] \in Nat /\ d[l] \in 0 .. MaxSuggestionDistance + 1
      BY <2>3, <2>5 DEF FirstNearest, MaxSuggestionDistance
    <3>3. \A i \in 1 .. l - 1 : d[l] < d[i]
      BY <2>1, <2>3, <2>5, <3>2 DEF FirstNearest, MaxSuggestionDistance
    <3>4. \A i \in 1 .. l : d[l] <= d[i]
      BY <3>2, <3>3
    <3>5. FirstNearest(after, candidates, d, l)
      BY <3>1, <3>2, <3>3, <3>4 DEF FirstNearest
    <3> QED
      BY <2>1, <2>2, <3>5
  <2>6. CASE ~ (d[l] < before.dist)
    <3>1. after = before
      BY <2>4, <2>6 DEF Better
    <3>2. before.dist <= d[l]
      BY <2>3, <2>6 DEF FirstNearest, MaxSuggestionDistance
    <3>3. \A i \in 1 .. l : before.dist <= d[i]
      BY <2>1, <2>3, <3>2 DEF FirstNearest
    <3>4. 1 .. k \subseteq 1 .. l
      BY <2>1
    <3>5. FirstNearest(before, candidates, d, l)
      BY <2>3, <3>3, <3>4 DEF FirstNearest
    <3> QED
      BY <2>1, <2>2, <3>1, <3>5
  <2> QED
    BY <2>5, <2>6
<1> HIDE DEF S
<1>3. S = Nat
  <2>1. S \in SUBSET Nat
    BY DEF S
  <2> QED
    BY <1>1, <1>2, <2>1, SetInduction
<1> QED
  BY <1>3 DEF S

\* suggestClosest: of the candidates within the distance it allows, it suggests
\* the first of those nearest to the rejected string by the textbook edit
\* distance, and it suggests none when no candidate is that near.
THEOREM NearestSuggested ==
  ASSUME NEW value \in Seq(Letter), NEW candidates \in Seq(Seq(Letter))
  PROVE  suggestClosest(value, candidates) = NearestTo(value, candidates)
<1> DEFINE n == Len(candidates)
           d == [i \in 1 .. n |-> Distance(value, candidates[i])]
           last == Nearest(value, candidates)[n]
           near == {i \in DOMAIN candidates : IsNear(value, candidates[i])}
           ahead(i, j) == \/ Distance(value, candidates[i]) < Distance(value, candidates[j])
                          \/ Distance(value, candidates[i]) = Distance(value, candidates[j]) /\ i <= j
           first(i) == \A j \in near : ahead(i, j)
<1>1. n \in Nat /\ DOMAIN candidates = 1 .. n /\ Len(value) \in Nat
  BY LenProperties
<1>2. \A i \in 1 .. n : candidates[i] \in Seq(Letter)
  BY <1>1, ElementOfSeq
<1>3. \A i \in 1 .. n : /\ levenshteinFold(value, candidates[i]) = d[i]
                         /\ d[i] \in Nat
  BY <1>2, RollingRowIsDistance
<1>4. d \in [1 .. n -> Nat]
  BY <1>3
<1>5. FirstNearest(last, candidates, d, n)
  <2>1. Keeping(Nearest(value, candidates), candidates, d, n)
    <3> HIDE DEF d
    <3> QED
      BY <1>1, <1>3, <1>4, NearestSteps
  <2> HIDE DEF d
  <2> QED
    BY <1>1, <1>4, <2>1, NearestKept
<1>6. near = {i \in 1 .. n : d[i] <= MaxSuggestionDistance /\ d[i] < Len(value)}
  BY <1>1 DEF IsNear
<1>7. NearestTo(value, candidates) =
        IF near = {} THEN << >> ELSE candidates[CHOOSE i \in near : first(i)]
  BY DEF NearestTo
<1>8. value = << >> <=> Len(value) = 0
  BY EmptySeq
<1>9. \A i, j \in 1 .. n : ahead(i, j) <=> (d[i] < d[j] \/ (d[i] = d[j] /\ i <= j))
  BY <1>1
<1> HIDE DEF d, last, near, n, ahead
<1>10. CASE near = {}
  <2>1. SUFFICES ASSUME last.dist <= MaxSuggestionDistance, last.dist < Len(value)
                 PROVE  FALSE
    <3>1. last.dist \in Nat
      BY <1>5 DEF FirstNearest, MaxSuggestionDistance
    <3>2. last.dist > MaxSuggestionDistance \/ last.dist >= Len(value)
      BY <1>1, <3>1, <2>1 DEF MaxSuggestionDistance
    <3> QED
      BY <1>7, <1>10, <3>2 DEF suggestClosest, last, n
  <2>2. PICK i \in 1 .. n : last.dist = d[i]
    BY <1>5, <2>1 DEF FirstNearest
  <2>3. i \in near
    BY <1>6, <2>1, <2>2
  <2> QED
    BY <1>10, <2>3
<1>11. CASE near # {}
  <2>1. PICK k \in near : TRUE
    BY <1>11
  <2>2. k \in 1 .. n /\ d[k] <= MaxSuggestionDistance /\ d[k] < Len(value) /\ d[k] \in Nat
    BY <1>4, <1>6
  <2>3. last.dist \in Nat /\ last.dist <= d[k]
    BY <1>5, <2>2 DEF FirstNearest, MaxSuggestionDistance
  <2>4. last.dist <= MaxSuggestionDistance /\ last.dist < Len(value)
    BY <1>1, <2>2, <2>3 DEF MaxSuggestionDistance
  <2>5. PICK i \in 1 .. n : /\ last.best = candidates[i] /\ last.dist = d[i]
                            /\ \A j \in 1 .. i - 1 : d[i] < d[j]
    BY <1>5, <2>4 DEF FirstNearest
  <2>6. i \in near
    BY <1>6, <2>4, <2>5
  <2>7. first(i)
    <3> TAKE j \in near
    <3>1. j \in 1 .. n /\ d[j] \in Nat /\ d[i] \in Nat
      BY <1>4, <1>6
    <3>2. d[i] <= d[j]
      BY <1>5, <2>5, <3>1 DEF FirstNearest
    <3>3. j < i => d[i] < d[j]
      BY <1>1, <2>5, <3>1
    <3>4. i \in 1 .. n /\ (d[i] < d[j] \/ (d[i] = d[j] /\ i <= j))
      BY <1>1, <3>1, <3>2, <3>3
    <3> QED
      BY <1>9, <3>1, <3>4
  <2>8. ASSUME NEW j \in near, first(j)
        PROVE  j = i
    <3>1. j \in 1 .. n /\ d[j] \in Nat /\ d[i] \in Nat
      BY <1>4, <1>6
    <3>2. (d[i] < d[j] \/ (d[i] = d[j] /\ i <= j)) /\ (d[j] < d[i] \/ (d[j] = d[i] /\ j <= i))
      BY <1>9, <2>6, <2>7, <2>8, <3>1
    <3> QED
      BY <1>1, <3>1, <3>2
  <2> HIDE DEF first
  <2>9. (CHOOSE j \in near : first(j)) = i
    BY <2>6, <2>7, <2>8
  <2>10. value # << >> /\ ~ (last.dist > MaxSuggestionDistance) /\ ~ (last.dist >= Len(value))
    BY <1>1, <1>8, <2>3, <2>4 DEF MaxSuggestionDistance
  <2>11. suggestClosest(value, candidates) = last.best
    BY <2>10 DEF suggestClosest, last, n
  <2> QED
    BY <1>7, <1>11, <2>5, <2>9, <2>11
<1> QED
  BY <1>10, <1>11
----------------------------------------------------------------------------
(* The chain of catalogs.                                                  *)

\* An error, whatever its parts.
ErrorIn(Code, Path, Type, Bound, Options, Suggestion) ==
  [code : Code, path : Path, fieldType : Type, bound : Bound, options : Options, suggestion : Suggestion]

Renamed(e, p) == [e EXCEPT !.path = p]

LEMMA RenamedError ==
  ASSUME NEW C, NEW P, NEW T, NEW B, NEW O, NEW S, NEW e \in ErrorIn(C, P, T, B, O, S), NEW p, NEW q
  PROVE  /\ Renamed(e, p).path = p /\ Renamed(e, p).code = e.code
         /\ Renamed(e, p).suggestion = e.suggestion
         /\ Renamed(Renamed(e, p), q) = Renamed(e, q)
         /\ Renamed(e, e.path) = e
<1>1. e \in [code : C, path : P, fieldType : T, bound : B, options : O, suggestion : S]
  BY DEF ErrorIn
<1>2. Renamed(e, p).path = p
  BY <1>1 DEF Renamed
<1>3. Renamed(e, p).code = e.code
  BY <1>1 DEF Renamed
<1>4. Renamed(e, p).suggestion = e.suggestion
  BY <1>1 DEF Renamed
<1>5. Renamed(Renamed(e, p), q) = Renamed(e, q)
  BY <1>1 DEF Renamed
<1>6. Renamed(e, e.path) = e
  BY <1>1 DEF Renamed
<1> QED
  BY <1>2, <1>3, <1>4, <1>5, <1>6

LEMMA RenamedRest ==
  ASSUME NEW C, NEW P, NEW T, NEW B, NEW O, NEW S, NEW e \in ErrorIn(C, P, T, B, O, S), NEW p
  PROVE  /\ Renamed(e, p).fieldType = e.fieldType
         /\ Renamed(e, p).bound = e.bound /\ Renamed(e, p).options = e.options
<1>1. e \in [code : C, path : P, fieldType : T, bound : B, options : O, suggestion : S]
  BY DEF ErrorIn
<1>2. Renamed(e, p).fieldType = e.fieldType
  BY <1>1 DEF Renamed
<1>3. Renamed(e, p).bound = e.bound
  BY <1>1 DEF Renamed
<1>4. Renamed(e, p).options = e.options
  BY <1>1 DEF Renamed
<1> QED
  BY <1>2, <1>3, <1>4

LEMMA RelabelledIs ==
  ASSUME NEW cat, NEW e
  PROVE  /\ HasLabel(cat, e.path) => Relabelled(cat, e) = Renamed(e, lookupLabel(cat, e.path))
         /\ ~HasLabel(cat, e.path) => Relabelled(cat, e) = e
BY DEF Relabelled, Renamed

\* What a function of the depth does that the chain goes on.
Leads(at, cats, root) ==
  /\ at[0] = root
  /\ \A k \in 1 .. MaxFallbackDepth :
       at[k] = IF at[k - 1] \in DOMAIN cats THEN cats[at[k - 1]].next ELSE "nil"

LEMMA ChainLeads ==
  ASSUME NEW cats, NEW root
  PROVE  Leads(ChainFrom(cats, root), cats, root)
<1> DEFINE n == MaxFallbackDepth
           V == {root, "nil"} \cup {cats[c].next : c \in DOMAIN cats}
           next(v) == IF v \in DOMAIN cats THEN cats[v].next ELSE "nil"
           step == [k \in 1 .. n |-> [v \in V |-> next(v)]]
           body(f) == [k \in 0 .. n |-> IF k = 0 THEN root ELSE next(f[k - 1])]
<1>1. root \in V /\ n \in Nat
  BY DepthAssumption
<1>2. step \in [1 .. n -> [V -> V]]
  OBVIOUS
<1>3. ChainFrom(cats, root) = CHOOSE f : f = body(f)
  BY DEF ChainFrom
<1> HIDE DEF V, n, next
<1>4. PICK f \in [0 .. n -> V] : f[0] = root /\ \A k \in 1 .. n : f[k] = step[k][f[k - 1]]
  <2> HIDE DEF step
  <2>1. \E f : Iterates(f, V, root, n, step)
    BY <1>1, <1>2, Recursion
  <2> QED
    BY <2>1 DEF Iterates
<1>5. \A k \in 1 .. n : f[k] = next(f[k - 1])
  <2> TAKE k \in 1 .. n
  <2>1. k - 1 \in 0 .. n
    BY <1>1
  <2>2. f[k - 1] \in V
    BY <2>1
  <2>3. PICK v \in V : v = f[k - 1]
    BY <2>2
  <2>4. step[k][v] = next(v)
    OBVIOUS
  <2> HIDE DEF step
  <2> QED
    BY <1>4, <2>3, <2>4
<1>6. f = body(f)
  <2>1. \A k \in 0 .. n : f[k] = IF k = 0 THEN root ELSE next(f[k - 1])
    BY <1>1, <1>4, <1>5
  <2> QED
    BY <1>4, <2>1
<1>7. PICK r : r = ChainFrom(cats, root) /\ r = body(r)
  <2> HIDE DEF body
  <2> QED
    BY <1>3, <1>6
<1>8. r[0] = root
  BY <1>1, <1>7
<1>9. \A k \in 1 .. n : r[k] = next(r[k - 1])
  <2> TAKE k \in 1 .. n
  <2>1. k \in 0 .. n /\ k # 0
    BY <1>1
  <2> QED
    BY <1>7, <2>1
<1> QED
  BY <1>7, <1>8, <1>9 DEF Leads, n, next

\* A chain that has left the catalogs stays out.
LEMMA ChainEnds ==
  ASSUME NEW cats, NEW root, Named(cats, root), NEW at, Leads(at, cats, root),
         NEW k \in 0 .. MaxFallbackDepth, at[k] \notin DOMAIN cats,
         NEW j \in k + 1 .. MaxFallbackDepth
  PROVE  at[j] = "nil" /\ at[j] \notin DOMAIN cats
<1> DEFINE n == MaxFallbackDepth
           S == {i \in Nat : k + 1 + i <= n => at[k + 1 + i] = "nil"}
<1>1. n \in Nat /\ "nil" \notin DOMAIN cats
  BY DepthAssumption DEF Named
<1>2. 0 \in S
  <2>1. SUFFICES ASSUME k + 1 <= n PROVE at[k + 1] = "nil"
    BY <1>1
  <2>2. PICK l \in 1 .. n : l = k + 1 /\ l - 1 = k
    BY <1>1, <2>1
  <2> QED
    BY <2>2 DEF Leads
<1>3. ASSUME NEW i \in S
      PROVE  i + 1 \in S
  <2>1. SUFFICES ASSUME k + 1 + (i + 1) <= n PROVE at[k + 1 + (i + 1)] = "nil"
    BY <1>1
  <2>2. PICK l \in 1 .. n : l = k + 1 + (i + 1) /\ l - 1 = k + 1 + i
    BY <1>1, <2>1
  <2>3. at[l - 1] = "nil"
    BY <1>1, <2>1, <2>2
  <2> QED
    BY <1>1, <2>2, <2>3 DEF Leads
<1> HIDE DEF S
<1>4. S = Nat
  <2>1. S \in SUBSET Nat
    BY DEF S
  <2> QED
    BY <1>2, <1>3, <2>1, SetInduction
<1>5. PICK i \in Nat : j = k + 1 + i
  <2>1. j - (k + 1) \in Nat /\ j = k + 1 + (j - (k + 1))
    BY <1>1
  <2> QED
    BY <2>1
<1> QED
  BY <1>1, <1>4, <1>5 DEF S

\* The first of a set of levels.
LEMMA ForemostIs ==
  ASSUME NEW S \in SUBSET Nat, NEW k \in S, \A j \in S : k <= j
  PROVE  Foremost(S) = k
<1>1. \A i \in S : (\A j \in S : i <= j) => i = k
  OBVIOUS
<1> QED
  BY <1>1 DEF Foremost

LEMMA ForemostExists ==
  ASSUME NEW S \in SUBSET Nat, S # {}
  PROVE  \E k \in S : Foremost(S) = k /\ \A j \in S : k <= j
<1> DEFINE T == {n \in Nat : \A j \in S : n <= j}
<1>1. 0 \in T
  OBVIOUS
<1>2. PICK k \in T : k \in S
  <2>1. SUFFICES ASSUME \A k \in T : k \notin S PROVE FALSE
    OBVIOUS
  <2>2. \A k \in T : k + 1 \in T
    <3>1. SUFFICES ASSUME NEW k \in T, NEW j \in S PROVE k + 1 <= j
      OBVIOUS
    <3>2. k \in Nat /\ j \in Nat /\ k <= j /\ k # j
      BY <2>1
    <3> QED
      BY <3>2
  <2>3. T = Nat
    <3>1. T \in SUBSET Nat
      OBVIOUS
    <3> HIDE DEF T
    <3> QED
      BY <1>1, <2>2, <3>1, SetInduction
  <2> HIDE DEF T
  <2> QED
    BY <2>1, <2>3
<1>3. \A j \in S : k <= j
  OBVIOUS
<1> HIDE DEF T
<1> QED
  BY <1>2, <1>3, ForemostIs
\* What a function of the depth does that the calls of resolve go through.
Relays(call, cats, name, e) ==
  /\ call[0] = [receiver |-> name, error |-> e, answer |-> Silent]
  /\ \A k \in 1 .. MaxFallbackDepth :
       call[k] = IF call[k - 1].answer = Silent /\ call[k - 1].receiver \in DOMAIN cats
                 THEN Ask(cats, call[k - 1], k - 1)
                 ELSE call[k - 1]

LEMMA AskIs ==
  ASSUME NEW cats, NEW call, NEW depth
  PROVE  LET shown == Relabelled(cats[call.receiver], call.error)
             own == render(cats, call.receiver, shown, depth)
         IN  /\ Ask(cats, call, depth).receiver = cats[call.receiver].next
             /\ Ask(cats, call, depth).error = shown
             /\ Ask(cats, call, depth).answer =
                  IF own = Silent /\ cats[call.receiver].next = "foreign" THEN Foreign(shown) ELSE own
BY DEF Ask

LEMMA CallsRelay ==
  ASSUME NEW cats, NEW name, NEW C, NEW P, NEW T, NEW B, NEW O, NEW S, NEW e \in ErrorIn(C, P, T, B, O, S)
  PROVE  Relays(Calls(cats, name, e), cats, name, e)
<1> DEFINE n == MaxFallbackDepth
           Labels == UNION {{cats[c].labels[p] : p \in DOMAIN cats[c].labels} : c \in DOMAIN cats}
           Errors == {e} \cup {Renamed(e, p) : p \in Labels}
           Names == {name} \cup {cats[c].next : c \in DOMAIN cats}
           own(c, x, k) == Ask(cats, [receiver |-> c, error |-> x, answer |-> Silent], k - 1).answer
           Answers == {Silent} \cup UNION {{own(z[1], z[2], k) : z \in (DOMAIN cats) \X Errors} : k \in 1 .. n}
           V == [receiver : Names, error : Errors, answer : Answers]
           base == [receiver |-> name, error |-> e, answer |-> Silent]
           next(v, k) == IF v.answer = Silent /\ v.receiver \in DOMAIN cats THEN Ask(cats, v, k - 1) ELSE v
           step == [k \in 1 .. n |-> [v \in V |-> next(v, k)]]
           body(f) == [k \in 0 .. n |-> IF k = 0 THEN base ELSE next(f[k - 1], k)]
<1>1. base \in V /\ n \in Nat
  BY DepthAssumption
<1>2. \A x \in Errors, c \in DOMAIN cats : Relabelled(cats[c], x) \in Errors
  <2>1. SUFFICES ASSUME NEW x \in Errors, NEW c \in DOMAIN cats, HasLabel(cats[c], x.path)
                 PROVE  Relabelled(cats[c], x) \in Errors
    BY RelabelledIs
  <2>2. PICK p : p = lookupLabel(cats[c], x.path)
    OBVIOUS
  <2>3. p \in Labels
    BY <2>1, <2>2 DEF HasLabel, lookupLabel
  <2>4. Relabelled(cats[c], x) = Renamed(x, p)
    BY <2>1, <2>2, RelabelledIs
  <2>5. Renamed(x, p) = Renamed(e, p)
    <3> HIDE DEF Labels
    <3>1. CASE x = e
      BY <3>1
    <3>2. CASE x # e
      <4>1. PICK q : x = Renamed(e, q)
        BY <3>2
      <4> QED
        BY <4>1, RenamedError
    <3> QED
      BY <3>1, <3>2
  <2> HIDE DEF Labels
  <2> QED
    BY <2>3, <2>4, <2>5
<1> HIDE DEF Errors
<1>3. \A k \in 1 .. n : \A v \in V : next(v, k) \in V
  <2>1. SUFFICES ASSUME NEW k \in 1 .. n, NEW v \in V, v.answer = Silent, v.receiver \in DOMAIN cats
                 PROVE  Ask(cats, v, k - 1) \in V
    OBVIOUS
  <2>2. PICK c \in DOMAIN cats, x \in Errors : v = [receiver |-> c, error |-> x, answer |-> Silent]
    BY <2>1
  <2>3. PICK w : w = Ask(cats, v, k - 1)
    OBVIOUS
  <2>4. w = [receiver |-> cats[c].next, error |-> Relabelled(cats[c], x), answer |-> w.answer]
    BY <2>2, <2>3 DEF Ask
  <2>5. w.answer \in Answers
    <3>1. w.answer = own(c, x, k)
      BY <2>2, <2>3
    <3>2. <<c, x>> \in (DOMAIN cats) \X Errors
      OBVIOUS
    <3>3. PICK z \in (DOMAIN cats) \X Errors : z[1] = c /\ z[2] = x
      BY <3>2
    <3> HIDE DEF own
    <3>4. w.answer = own(z[1], z[2], k)
      BY <3>1, <3>3
    <3> QED
      BY <3>4
  <2> HIDE DEF Answers
  <2> QED
    BY <1>2, <2>3, <2>4, <2>5
<1>4. step \in [1 .. n -> [V -> V]]
  <2> HIDE DEF V, next
  <2> QED
    BY <1>3
<1>5. Calls(cats, name, e) = CHOOSE f : f = body(f)
  BY DEF Calls
<1> HIDE DEF V, n, next, base
<1>6. PICK f \in [0 .. n -> V] : f[0] = base /\ \A k \in 1 .. n : f[k] = step[k][f[k - 1]]
  <2> HIDE DEF step
  <2>1. \E f : Iterates(f, V, base, n, step)
    BY <1>1, <1>4, Recursion
  <2> QED
    BY <2>1 DEF Iterates
<1>7. \A k \in 1 .. n : f[k] = next(f[k - 1], k)
  <2> TAKE k \in 1 .. n
  <2>1. k - 1 \in 0 .. n
    BY <1>1
  <2>2. f[k - 1] \in V
    BY <2>1
  <2>3. PICK v \in V : v = f[k - 1]
    BY <2>2
  <2>4. step[k][v] = next(v, k)
    OBVIOUS
  <2> HIDE DEF step
  <2> QED
    BY <1>6, <2>3, <2>4
<1>8. f = body(f)
  <2>1. \A k \in 0 .. n : f[k] = IF k = 0 THEN base ELSE next(f[k - 1], k)
    BY <1>1, <1>6, <1>7
  <2> QED
    BY <1>6, <2>1
<1>9. PICK r : r = Calls(cats, name, e) /\ r = body(r)
  <2> HIDE DEF body
  <2> QED
    BY <1>5, <1>8
<1>10. r[0] = base
  BY <1>1, <1>9
<1>11. \A k \in 1 .. n : r[k] = next(r[k - 1], k)
  <2> TAKE k \in 1 .. n
  <2>1. k \in 0 .. n /\ k # 0
    BY <1>1
  <2> QED
    BY <1>9, <2>1
<1> QED
  BY <1>9, <1>10, <1>11 DEF Relays, base, n, next

----------------------------------------------------------------------------
(* Labels.                                                                 *)

\* Relabelling at every level shows the label of the first that has one.
LEMMA ShownStep ==
  ASSUME NEW cats, LabelsFinal(cats), NEW at,
         NEW C, NEW P, NEW T, NEW B, NEW O, NEW S, NEW e \in ErrorIn(C, P, T, B, O, S),
         NEW k \in Nat, at[k] \in DOMAIN cats
  PROVE  Relabelled(cats[at[k]], ShownAt(cats, at, e, k - 1)) = ShownAt(cats, at, e, k)
<1> DEFINE has(j) == at[j] \in DOMAIN cats /\ HasLabel(cats[at[j]], e.path)
           before == {j \in 0 .. k - 1 : has(j)}
           upto == {j \in 0 .. k : has(j)}
           label(j) == lookupLabel(cats[at[j]], e.path)
<1>1. before = Labellers(cats, at, e.path, k - 1) /\ upto = Labellers(cats, at, e.path, k)
  BY DEF Labellers
<1>2. /\ ShownAt(cats, at, e, k - 1) = IF before = {} THEN e ELSE Renamed(e, label(Foremost(before)))
      /\ ShownAt(cats, at, e, k) = IF upto = {} THEN e ELSE Renamed(e, label(Foremost(upto)))
  BY <1>1 DEF ShownAt, Renamed
<1>3. before \in SUBSET Nat /\ upto \in SUBSET Nat /\ before \subseteq upto
  OBVIOUS
<1>4. CASE before = {} /\ ~has(k)
  <2> HIDE DEF has
  <2>1. upto = {}
    BY <1>4
  <2>2. Relabelled(cats[at[k]], e) = e
    BY <1>4, RelabelledIs DEF has
  <2> QED
    BY <1>2, <1>4, <2>1, <2>2
<1>5. CASE before = {} /\ has(k)
  <2> HIDE DEF has
  <2>1. upto = {k}
    BY <1>5
  <2> HIDE DEF upto, before
  <2>2. Foremost(upto) = k
    BY <2>1, ForemostIs
  <2>3. Relabelled(cats[at[k]], e) = Renamed(e, label(k))
    BY <1>5, RelabelledIs DEF has
  <2> HIDE DEF label
  <2> QED
    BY <1>2, <1>5, <2>1, <2>2, <2>3
<1>6. CASE before # {}
  <2>1. PICK m \in before : Foremost(before) = m /\ \A j \in before : m <= j
    <3> HIDE DEF before
    <3> QED
      BY <1>3, <1>6, ForemostExists
  <2>2. Foremost(upto) = m
    <3> HIDE DEF has
    <3>1. m \in upto /\ \A j \in upto : m <= j
      BY <2>1
    <3> HIDE DEF upto, before
    <3> QED
      BY <1>3, <3>1, ForemostIs
  <2>3. PICK l : l = label(m)
    OBVIOUS
  <2>4. ShownAt(cats, at, e, k) = Renamed(e, l) /\ ShownAt(cats, at, e, k - 1) = Renamed(e, l)
    <3> HIDE DEF label, has
    <3> QED
      BY <1>2, <1>3, <1>6, <2>1, <2>2, <2>3
  <2>5. HasLabel(cats[at[k]], l) => lookupLabel(cats[at[k]], l) = l
    <3>1. has(m)
      BY <2>1
    <3>2. PICK p \in DOMAIN cats[at[m]].labels : l = cats[at[m]].labels[p]
      BY <2>3, <3>1 DEF HasLabel, lookupLabel
    <3> QED
      BY <3>1, <3>2 DEF LabelsFinal
  <2>6. Renamed(e, l).path = l /\ Renamed(Renamed(e, l), l) = Renamed(e, l)
    BY RenamedError
  <2>7. Relabelled(cats[at[k]], Renamed(e, l)) = Renamed(e, l)
    BY <2>5, <2>6, RelabelledIs
  <2> QED
    BY <2>4, <2>7
<1> QED
  BY <1>4, <1>5, <1>6

\* Relabelling leaves everything but the path.
LEMMA ShownIs ==
  ASSUME NEW cats, NEW at, NEW k,
         NEW C, NEW P, NEW T, NEW B, NEW O, NEW S, NEW e \in ErrorIn(C, P, T, B, O, S)
  PROVE  /\ ShownAt(cats, at, e, k).code = e.code
         /\ ShownAt(cats, at, e, k).suggestion = e.suggestion
<1>1. \/ ShownAt(cats, at, e, k) = e
      \/ \E p : ShownAt(cats, at, e, k) = Renamed(e, p)
  BY DEF ShownAt, Renamed
<1> QED
  BY <1>1, RenamedError

\* Above the first level nothing is renamed.
LEMMA ShownFirst ==
  ASSUME NEW cats, NEW at, NEW e
  PROVE  ShownAt(cats, at, e, 0 - 1) = e
<1>1. 0 .. (0 - 1) = {}
  OBVIOUS
<1>2. Labellers(cats, at, e.path, 0 - 1) = {}
  BY <1>1 DEF Labellers
<1> QED
  BY <1>2 DEF ShownAt
----------------------------------------------------------------------------
(* Suffixes.                                                               *)

GoesOn(cats, c) ==
  /\ c \in DOMAIN cats /\ cats[c].suffix.wording = ""
  /\ cats[c].next \in DOMAIN cats \cup {"typedNil"}

\* What a function of the depth does that suggestionSuffix goes through.
Searches(receiver, cats, name, n) ==
  /\ receiver[0] = name
  /\ \A k \in 1 .. n :
       receiver[k] = IF GoesOn(cats, receiver[k - 1]) THEN cats[receiver[k - 1]].next ELSE receiver[k - 1]

\* The search ends with some catalog, or runs into a nil one.
EndsAt(found, cats, last) ==
  found = IF last = "typedNil" THEN [template |-> EmptyTemplate, panics |-> TRUE]
          ELSE [template |-> cats[last].suffix, panics |-> FALSE]

LEMMA SuffixSearches ==
  ASSUME NEW cats, NEW name, NEW depth \in 0 .. MaxFallbackDepth,
         NEW n \in Nat, n = MaxFallbackDepth - depth
  PROVE  \E receiver : /\ Searches(receiver, cats, name, n)
                       /\ EndsAt(suggestionSuffix(cats, name, depth), cats, receiver[n])
<1> DEFINE V == {name} \cup {cats[c].next : c \in DOMAIN cats}
           next(v) == IF GoesOn(cats, v) THEN cats[v].next ELSE v
           step == [k \in 1 .. n |-> [v \in V |-> next(v)]]
           body(f) == [k \in 0 .. n |-> IF k = 0 THEN name ELSE next(f[k - 1])]
<1>1. name \in V
  OBVIOUS
<1>2. step \in [1 .. n -> [V -> V]]
  BY DEF GoesOn
<1>3. EndsAt(suggestionSuffix(cats, name, depth), cats, (CHOOSE f : f = body(f))[n])
  BY DEF suggestionSuffix, EndsAt, GoesOn
<1> HIDE DEF V, next
<1>4. PICK f \in [0 .. n -> V] : f[0] = name /\ \A k \in 1 .. n : f[k] = step[k][f[k - 1]]
  <2> HIDE DEF step
  <2>1. \E f : Iterates(f, V, name, n, step)
    BY <1>1, <1>2, Recursion
  <2> QED
    BY <2>1 DEF Iterates
<1>5. \A k \in 1 .. n : f[k] = next(f[k - 1])
  <2> TAKE k \in 1 .. n
  <2>1. k - 1 \in 0 .. n
    OBVIOUS
  <2>2. f[k - 1] \in V
    BY <2>1
  <2>3. PICK v \in V : v = f[k - 1]
    BY <2>2
  <2>4. step[k][v] = next(v)
    OBVIOUS
  <2> HIDE DEF step
  <2> QED
    BY <1>4, <2>3, <2>4
<1>6. f = body(f)
  <2>1. \A k \in 0 .. n : f[k] = IF k = 0 THEN name ELSE next(f[k - 1])
    BY <1>4, <1>5
  <2> QED
    BY <1>4, <2>1
<1>7. PICK r : r = (CHOOSE g : g = body(g)) /\ r = body(r)
  <2> HIDE DEF body
  <2> QED
    BY <1>6
<1>8. r[0] = name
  <2>1. 0 \in 0 .. n
    OBVIOUS
  <2> QED
    BY <1>7, <2>1
<1>9. \A k \in 1 .. n : r[k] = next(r[k - 1])
  <2> TAKE k \in 1 .. n
  <2>1. k \in 0 .. n /\ k # 0
    OBVIOUS
  <2> QED
    BY <1>7, <2>1
<1>10. Searches(r, cats, name, n)
  BY <1>8, <1>9 DEF Searches, next
<1>11. EndsAt(suggestionSuffix(cats, name, depth), cats, r[n])
  <2> HIDE DEF body
  <2> QED
    BY <1>3, <1>7
<1> QED
  BY <1>10, <1>11

\* How far the search has come: to the level of the last call, unless it ended
\* above.
Searched(cats, at, k, j, l, c) ==
  /\ j \in k .. l /\ c = at[j]
  /\ \A i \in k .. j - 1 : GoesOn(cats, at[i])
  /\ j < l => ~GoesOn(cats, at[j])

LEMMA SearchFollowsChain ==
  ASSUME NEW cats, NEW root, NEW at, Leads(at, cats, root),
         NEW k \in 0 .. MaxFallbackDepth, NEW n \in Nat, n = MaxFallbackDepth - k,
         NEW receiver, Searches(receiver, cats, at[k], n)
  PROVE  \E j \in k .. MaxFallbackDepth : Searched(cats, at, k, j, MaxFallbackDepth, receiver[n])
<1> DEFINE S == {i \in Nat : i <= n => \E j \in k .. k + i : Searched(cats, at, k, j, k + i, receiver[i])}
<1>1. 0 \in S
  <2>1. Searched(cats, at, k, k, k + 0, receiver[0])
    BY DEF Searched, Searches
  <2> QED
    BY <2>1
<1>2. ASSUME NEW i \in S
      PROVE  i + 1 \in S
  <2>1. SUFFICES ASSUME i + 1 <= n
                 PROVE  \E j \in k .. k + (i + 1) :
                          Searched(cats, at, k, j, k + (i + 1), receiver[i + 1])
    OBVIOUS
  <2>2. PICK j \in k .. k + i : Searched(cats, at, k, j, k + i, receiver[i])
    BY <2>1
  <2>3. PICK m \in 1 .. n : m = i + 1 /\ m - 1 = i
    BY <2>1
  <2> HIDE DEF S
  <2>4. receiver[m] = IF GoesOn(cats, receiver[i]) THEN cats[receiver[i]].next ELSE receiver[i]
    BY <2>3 DEF Searches
  <2>5. CASE GoesOn(cats, at[j])
    <3>1. j = k + i
      <4>1. ~(j < k + i)
        BY <2>2, <2>5 DEF Searched
      <4>2. k \in Nat /\ i \in Nat /\ j \in k .. k + i
        BY <2>3, DepthAssumption
      <4> QED
        BY <4>1, <4>2
    <3>2. PICK l \in 1 .. MaxFallbackDepth : l = k + m /\ l - 1 = j
      BY <2>3, <3>1, DepthAssumption
    <3>3. at[l] = cats[at[j]].next
      BY <2>5, <3>2 DEF Leads, GoesOn
    <3>4. receiver[m] = at[l]
      BY <2>2, <2>4, <2>5, <3>3 DEF Searched
    <3>5. \A h \in k .. l - 1 : GoesOn(cats, at[h])
      BY <2>2, <2>5, <3>2 DEF Searched
    <3>6. Searched(cats, at, k, l, l, receiver[m])
      BY <2>3, <3>2, <3>4, <3>5, DepthAssumption DEF Searched
    <3> QED
      BY <2>3, <3>2, <3>6
  <2>6. CASE ~GoesOn(cats, at[j])
    <3>1. receiver[m] = at[j]
      BY <2>2, <2>4, <2>6 DEF Searched
    <3>2. Searched(cats, at, k, j, k + m, receiver[m])
      BY <2>2, <2>3, <2>6, <3>1 DEF Searched
    <3> QED
      BY <2>3, <3>2
  <2> QED
    BY <2>5, <2>6
<1> HIDE DEF S
<1>3. S = Nat
  <2>1. S \in SUBSET Nat
    BY DEF S
  <2> QED
    BY <1>1, <1>2, <2>1, SetInduction
<1>4. k + n = MaxFallbackDepth
  BY DepthAssumption
<1> QED
  BY <1>3, <1>4 DEF S

\* What the search finds: a nil *Catalog, which the chain has then, no suffix,
\* or the first of those levels.
SuffixFound(found, cats, at, levels) ==
  \/ found.panics /\ \E j \in 1 .. MaxFallbackDepth : at[j] = "typedNil"
  \/ ~found.panics /\ levels = {} /\ found.template.wording = ""
  \/ ~found.panics /\ levels # {} /\ found.template = cats[at[Foremost(levels)]].suffix

\* suggestionSuffix finds the first suffix of the chain from a level on, none
\* when there is none, and a nil *Catalog only where the chain has one.
LEMMA SuffixIs ==
  ASSUME NEW cats, NEW root, Named(cats, root), NEW at, Leads(at, cats, root),
         NEW k \in 0 .. MaxFallbackDepth, at[k] \in DOMAIN cats,
         NEW found, found = suggestionSuffix(cats, at[k], k),
         NEW levels, levels = SuffixLevels(cats, at, k)
  PROVE  SuffixFound(found, cats, at, levels)
<1>0. PICK n \in Nat : n = MaxFallbackDepth - k
  BY DepthAssumption
<1>1. PICK receiver : Searches(receiver, cats, at[k], n) /\ EndsAt(found, cats, receiver[n])
  BY <1>0, SuffixSearches
<1>2. PICK j \in k .. MaxFallbackDepth : Searched(cats, at, k, j, MaxFallbackDepth, receiver[n])
  BY <1>0, <1>1, SearchFollowsChain
<1>3. k \in Nat /\ j \in Nat /\ j \in 0 .. MaxFallbackDepth /\ MaxFallbackDepth \in Nat /\ k <= j
  BY DepthAssumption
<1>8. \A i \in k .. j - 1 : cats[at[i]].suffix.wording = ""
  BY <1>2 DEF Searched, GoesOn
<1>4. at[j] \in DOMAIN cats \/ at[j] = "typedNil"
  <2>1. CASE j = k
    BY <2>1
  <2>2. CASE j # k
    <3>1. j - 1 \in k .. j - 1 /\ j \in 1 .. MaxFallbackDepth
      BY <1>3, <2>2
    <3>2. GoesOn(cats, at[j - 1])
      BY <1>2, <3>1 DEF Searched
    <3>3. at[j] = cats[at[j - 1]].next
      BY <3>1, <3>2 DEF Leads, GoesOn
    <3> QED
      BY <3>2, <3>3 DEF GoesOn
  <2> QED
    BY <2>1, <2>2
<1>5. levels \in SUBSET Nat
  <2>1. \A i \in k .. MaxFallbackDepth : i \in Nat
    BY <1>3
  <2> QED
    BY <2>1 DEF SuffixLevels
<1>6. CASE at[j] = "typedNil"
  <2>1. j \in 1 .. MaxFallbackDepth
    <3>1. j # k
      BY <1>6 DEF Named
    <3> QED
      BY <1>3, <3>1
  <2>2. found.panics
    BY <1>1, <1>2, <1>6 DEF EndsAt, Searched
  <2> QED
    BY <2>1, <2>2, <1>6 DEF SuffixFound
<1>7. CASE at[j] \in DOMAIN cats
  <2>1. ~found.panics /\ found.template = cats[at[j]].suffix
    BY <1>1, <1>2, <1>7 DEF EndsAt, Searched, Named
  <2>2. CASE cats[at[j]].suffix.wording # ""
    <3>1. j \in levels
      BY <1>7, <2>2 DEF SuffixLevels
    <3>2. \A i \in levels : j <= i
      <4>1. SUFFICES ASSUME NEW i \in levels, ~(j <= i) PROVE FALSE
        OBVIOUS
      <4>2. i \in k .. MaxFallbackDepth /\ cats[at[i]].suffix.wording # ""
        BY DEF SuffixLevels
      <4>3. i \in Nat
        BY <1>5
      <4>4. i \in k .. j - 1
        <5>1. i \in k .. MaxFallbackDepth
          BY <4>2
        <5> QED
          BY <1>3, <4>1, <4>3, <5>1
      <4> QED
        BY <1>8, <4>2, <4>4
    <3>3. Foremost(levels) = j
      BY <1>5, <3>1, <3>2, ForemostIs
    <3> QED
      BY <2>1, <3>1, <3>3 DEF SuffixFound
  <2>3. CASE cats[at[j]].suffix.wording = ""
    <3>1. ASSUME NEW i \in j + 1 .. MaxFallbackDepth
          PROVE  at[i] \notin DOMAIN cats
      <4>1. j < MaxFallbackDepth /\ j + 1 \in 0 .. MaxFallbackDepth /\ j + 1 \in 1 .. MaxFallbackDepth
        BY <1>3
      <4>2. ~GoesOn(cats, at[j])
        BY <1>2, <4>1 DEF Searched
      <4>3. cats[at[j]].next \notin DOMAIN cats
        BY <1>7, <2>3, <4>2 DEF GoesOn
      <4>4. at[j + 1] = cats[at[j]].next
        BY <1>3, <1>7, <4>1 DEF Leads
      <4>5. CASE i = j + 1
        BY <4>3, <4>4, <4>5
      <4>6. CASE i # j + 1
        <5>1. i \in (j + 1) + 1 .. MaxFallbackDepth
          BY <1>3, <4>6
        <5> QED
          BY <4>1, <4>3, <4>4, <5>1, ChainEnds
      <4> QED
        BY <4>5, <4>6
    <3>2. levels = {}
      <4>1. SUFFICES ASSUME NEW i \in levels PROVE FALSE
        OBVIOUS
      <4>2. i \in k .. MaxFallbackDepth /\ at[i] \in DOMAIN cats /\ cats[at[i]].suffix.wording # ""
        BY DEF SuffixLevels
      <4>3. i \in k .. j - 1 \/ i = j \/ i \in j + 1 .. MaxFallbackDepth
        <5>1. i \in Nat
          BY <1>5
        <5>2. i \in k .. MaxFallbackDepth
          BY <4>2
        <5> QED
          BY <1>3, <5>1, <5>2
      <4> QED
        BY <1>8, <2>3, <3>1, <4>2, <4>3
    <3> QED
      BY <2>1, <2>3, <3>2 DEF SuffixFound
  <2> QED
    BY <2>2, <2>3
<1> QED
  BY <1>4, <1>6, <1>7
----------------------------------------------------------------------------
(* What a catalog of the chain says.                                       *)

\* The text of a level that has a sentence.
SaidAt(cats, at, e, k) ==
  [wording |-> SentenceAt(cats, at, e, k), field |-> ShownAt(cats, at, e, k).path,
   suffix |-> SuffixAt(cats, at, e, k)]

LEMMA Spoken ==
  ASSUME NEW text, text.wording # ""
  PROVE  Says(text) # Silent /\ Panic # Silent
<1>1. Says(text).text = text /\ Silent.text = NoText /\ NoText.wording = ""
  BY DEF Says, Silent, NoText
<1>2. Panic.panics = TRUE
  BY DEF Panic
<1>3. Silent.panics = FALSE
  BY DEF Silent, Says
<1>4. Says(text) # Silent
  BY <1>1
<1>5. Panic # Silent
  BY <1>2, <1>3
<1> QED
  BY <1>4, <1>5

LEMMA BodyIs ==
  ASSUME NEW cats, NEW at, NEW k,
         NEW C, NEW P, NEW T, NEW B, NEW O, NEW S, NEW e \in ErrorIn(C, P, T, B, O, S)
  PROVE  LET body == Body(cats[at[k]], ShownAt(cats, at, e, k))
         IN  /\ SentencesAt(cats, at, e, k) = {} => body = ""
             /\ SentencesAt(cats, at, e, k) # {} => body = SentenceAt(cats, at, e, k) /\ body # ""
<1>1. PICK x : x = ShownAt(cats, at, e, k)
  OBVIOUS
<1>2. PICK msg : msg = MessageOf(cats[at[k]], e.code)
  OBVIOUS
<1>3. MessageOf(cats[at[k]], x.code) = msg
  BY <1>1, <1>2, ShownIs
<1>4. PICK L : L = {i \in 1 .. 2 : Fulfilled(<<msg.template, msg.fallback>>[i], x)}
  OBVIOUS
<1>5. /\ SentencesAt(cats, at, e, k) = L
      /\ SentenceAt(cats, at, e, k) = <<msg.template, msg.fallback>>[Foremost(L)].wording
  <2>1. SentencesAt(cats, at, e, k) = L
    BY <1>1, <1>2, <1>4 DEF SentencesAt
  <2>2. SentenceAt(cats, at, e, k) =
          <<msg.template, msg.fallback>>[Foremost(SentencesAt(cats, at, e, k))].wording
    BY <1>2 DEF SentenceAt
  <2> QED
    BY <2>1, <2>2
<1>6. /\ 1 \in L <=> Fulfilled(msg.template, x)
      /\ 2 \in L <=> Fulfilled(msg.fallback, x)
      /\ L \subseteq {1, 2}
  BY <1>4
<1>7. /\ Expands(msg.template, x) <=> Fulfilled(msg.template, x)
      /\ Expands(msg.fallback, x) <=> Fulfilled(msg.fallback, x)
      /\ Fulfilled(msg.template, x) => msg.template.wording # ""
      /\ Fulfilled(msg.fallback, x) => msg.fallback.wording # ""
  BY DEF Expands, Fulfilled
<1>8. CASE Fulfilled(msg.template, x)
  <2>1. 1 \in L /\ \A i \in L : 1 <= i
    BY <1>6, <1>8
  <2>2. Foremost(L) = 1
    BY <1>6, <2>1, ForemostIs
  <2>3. Body(cats[at[k]], x) = msg.template.wording
    BY <1>3, <1>7, <1>8 DEF Body
  <2>4. <<msg.template, msg.fallback>>[1].wording = msg.template.wording
    OBVIOUS
  <2>5. SentenceAt(cats, at, e, k) = msg.template.wording
    BY <1>5, <2>2, <2>4
  <2>6. SentencesAt(cats, at, e, k) # {} /\ msg.template.wording # ""
    BY <1>5, <1>7, <1>8, <2>1
  <2> QED
    BY <1>1, <2>3, <2>5, <2>6
<1>9. CASE ~Fulfilled(msg.template, x) /\ Fulfilled(msg.fallback, x)
  <2>1. L = {2}
    BY <1>6, <1>9
  <2>2. Foremost(L) = 2
    BY <2>1, ForemostIs
  <2>3. Body(cats[at[k]], x) = msg.fallback.wording
    BY <1>3, <1>7, <1>9 DEF Body
  <2>4. <<msg.template, msg.fallback>>[2].wording = msg.fallback.wording
    OBVIOUS
  <2>5. SentenceAt(cats, at, e, k) = msg.fallback.wording
    BY <1>5, <2>2, <2>4
  <2>6. SentencesAt(cats, at, e, k) # {} /\ msg.fallback.wording # ""
    BY <1>5, <1>7, <1>9, <2>1
  <2> QED
    BY <1>1, <2>3, <2>5, <2>6
<1>10. CASE ~Fulfilled(msg.template, x) /\ ~Fulfilled(msg.fallback, x)
  <2>1. L = {}
    BY <1>6, <1>10
  <2>2. Body(cats[at[k]], x) = ""
    BY <1>3, <1>7, <1>10 DEF Body
  <2> QED
    BY <1>1, <1>5, <2>1, <2>2
<1> QED
  BY <1>8, <1>9, <1>10

\* render: the sentence of the level with the suffix of the chain, or a panic
\* where the chain has a nil catalog.
LEMMA RenderIs ==
  ASSUME NEW cats, NEW root, Named(cats, root), NEW at, Leads(at, cats, root),
         NEW C, NEW P, NEW T, NEW B, NEW O, NEW S, NEW e \in ErrorIn(C, P, T, B, O, S),
         NEW k \in 0 .. MaxFallbackDepth, at[k] \in DOMAIN cats,
         NEW own, own = render(cats, at[k], ShownAt(cats, at, e, k), k)
  PROVE  /\ SentencesAt(cats, at, e, k) = {} => own = Silent
         /\ SentencesAt(cats, at, e, k) # {} =>
              /\ own # Silent
              /\ \/ own = Says(SaidAt(cats, at, e, k))
                 \/ own = Panic /\ \E j \in 1 .. MaxFallbackDepth : at[j] = "typedNil"
<1>1. PICK x : x = ShownAt(cats, at, e, k)
  OBVIOUS
<1>2. x.suggestion = e.suggestion
  BY <1>1, ShownIs
<1>3. PICK body : body = Body(cats[at[k]], x)
  OBVIOUS
<1>4. PICK found : found = suggestionSuffix(cats, at[k], k)
  OBVIOUS
<1>5. PICK suffix : suffix = IF Expands(found.template, x) THEN found.template.wording ELSE ""
  OBVIOUS
<1>6. own = IF body = "" THEN Silent
            ELSE IF e.suggestion = << >> THEN Says([wording |-> body, field |-> x.path, suffix |-> ""])
            ELSE IF found.panics THEN Panic
            ELSE Says([wording |-> body, field |-> x.path, suffix |-> suffix])
  BY <1>1, <1>2, <1>3, <1>4, <1>5, Zenon DEF render
<1>7. CASE SentencesAt(cats, at, e, k) = {}
  BY <1>1, <1>3, <1>6, <1>7, BodyIs
<1>8. CASE SentencesAt(cats, at, e, k) # {}
  <2>1. body = SentenceAt(cats, at, e, k) /\ body # ""
    BY <1>1, <1>3, <1>8, BodyIs
  <2>2. PICK s : s = SuffixAt(cats, at, e, k)
    OBVIOUS
  <2>3. SaidAt(cats, at, e, k) = [wording |-> body, field |-> x.path, suffix |-> s]
    BY <1>1, <2>1, <2>2 DEF SaidAt
  <2>4. PICK levels : levels = SuffixLevels(cats, at, k)
    OBVIOUS
  <2>5. s = IF e.suggestion # << >> /\ levels # {} /\ Fulfilled(cats[at[Foremost(levels)]].suffix, x)
            THEN cats[at[Foremost(levels)]].suffix.wording ELSE ""
    BY <1>1, <2>2, <2>4 DEF SuffixAt
  <2>6. \/ found.panics /\ \E j \in 1 .. MaxFallbackDepth : at[j] = "typedNil"
        \/ ~found.panics /\ levels = {} /\ found.template.wording = ""
        \/ ~found.panics /\ levels # {} /\ found.template = cats[at[Foremost(levels)]].suffix
    <3>1. SuffixFound(found, cats, at, levels)
      BY <1>4, <2>4, SuffixIs
    <3> QED
      BY <3>1 DEF SuffixFound
  <2>7. ASSUME NEW t, t.wording = body
        PROVE  Says(t) # Silent /\ Panic # Silent
    BY <2>1, <2>7, Spoken
  <2>8. CASE e.suggestion = << >>
    <3>1. own = Says([wording |-> body, field |-> x.path, suffix |-> ""])
      BY <1>6, <2>1, <2>8
    <3>2. s = ""
      BY <2>5, <2>8
    <3> QED
      BY <1>8, <2>3, <2>7, <3>1, <3>2
  <2>9. CASE e.suggestion # << >> /\ found.panics
    <3>1. own = Panic
      BY <1>6, <2>1, <2>9
    <3>2. own # Silent
      BY <3>1 DEF Panic, Silent, Says
    <3> QED
      BY <1>8, <2>6, <2>9, <3>1, <3>2
  <2>10. CASE e.suggestion # << >> /\ ~found.panics
    <3>1. own = Says([wording |-> body, field |-> x.path, suffix |-> suffix])
      BY <1>6, <2>1, <2>10
    <3>2. s = suffix
      <4>1. CASE levels = {}
        <5>1. ~Expands(found.template, x)
          BY <2>6, <2>10, <4>1 DEF Expands
        <5> QED
          BY <1>5, <2>5, <4>1, <5>1
      <4>2. CASE levels # {}
        <5>1. PICK t : t = found.template /\ t = cats[at[Foremost(levels)]].suffix
          BY <2>6, <2>10, <4>2
        <5>2. Expands(t, x) <=> Fulfilled(t, x)
          BY DEF Expands, Fulfilled
        <5> QED
          BY <1>5, <2>5, <2>10, <4>2, <5>1, <5>2
      <4> QED
        BY <4>1, <4>2
    <3> QED
      BY <1>8, <2>3, <2>7, <3>1, <3>2
  <2> QED
    BY <2>8, <2>9, <2>10
<1> QED
  BY <1>7, <1>8
----------------------------------------------------------------------------
(* What resolve answers.                                                   *)

\* Nobody down to a level had anything to say.
Unheard(cats, at, e, k) ==
  /\ \A j \in 0 .. k - 1 : j \notin Speakers(cats, at, e)
  /\ \A j \in 1 .. k : at[j] # "foreign"

\* The call of a level has that level's catalog and the error as shown above it.
Placed(call, cats, at, e, k) ==
  IF at[k] \in DOMAIN cats THEN call.receiver = at[k] /\ call.error = ShownAt(cats, at, e, k - 1)
  ELSE call.receiver \notin DOMAIN cats

\* The first catalog with a sentence has been heard.
Heard(answer, cats, at, e, k) ==
  \E j \in 0 .. k - 1 :
    /\ j \in Speakers(cats, at, e) /\ \A i \in Speakers(cats, at, e) : j <= i
    /\ \/ answer = Says(SaidAt(cats, at, e, j))
       \/ answer = Panic /\ \E i \in 1 .. MaxFallbackDepth : at[i] = "typedNil"

\* Or the Localizer from elsewhere at the end of a chain that has none.
HeardForeign(answer, cats, at, e, k) ==
  \E j \in 1 .. k : /\ at[j] = "foreign" /\ Speakers(cats, at, e) = {}
                    /\ answer = Foreign(ShownAt(cats, at, e, j - 1))

Resolved(call, cats, at, e, k) ==
  IF call.answer = Silent THEN Unheard(cats, at, e, k) /\ Placed(call, cats, at, e, k)
  ELSE Heard(call.answer, cats, at, e, k) \/ HeardForeign(call.answer, cats, at, e, k)

LEMMA SpeakersIs ==
  ASSUME NEW cats, NEW at, NEW e, NEW j
  PROVE  j \in Speakers(cats, at, e) <=>
           /\ j \in 0 .. MaxFallbackDepth - 1
           /\ at[j] \in DOMAIN cats /\ SentencesAt(cats, at, e, j) # {}
BY DEF Speakers

LEMMA ForeignSpoken ==
  ASSUME NEW e
  PROVE  Foreign(e) # Silent /\ Foreign(e) = Says(Foreign(e).text)
<1>1. PICK t : t = [wording |-> "foreign", field |-> e.path, suffix |-> ""]
  OBVIOUS
<1>2. Foreign(e) = Says(t)
  BY <1>1 DEF Foreign
<1>3. t.wording # ""
  BY <1>1
<1>4. Says(t).text = t
  BY DEF Says
<1> QED
  BY <1>2, <1>3, <1>4, Spoken

LEMMA ResolvedStep ==
  ASSUME NEW cats, NEW root, Named(cats, root), LabelsFinal(cats), NEW at, Leads(at, cats, root),
         NEW C, NEW P, NEW T, NEW B, NEW O, NEW S, NEW e \in ErrorIn(C, P, T, B, O, S),
         NEW k \in 1 .. MaxFallbackDepth, NEW m \in 0 .. MaxFallbackDepth - 1, m = k - 1,
         NEW before, Resolved(before, cats, at, e, m),
         NEW after, after = IF before.answer = Silent /\ before.receiver \in DOMAIN cats
                            THEN Ask(cats, before, m) ELSE before
  PROVE  Resolved(after, cats, at, e, k)
<1>1. /\ MaxFallbackDepth \in Nat /\ k \in Nat /\ m \in Nat /\ m \in 0 .. MaxFallbackDepth
      /\ 0 .. m - 1 \subseteq 0 .. k - 1 /\ 1 .. m \subseteq 1 .. k
      /\ \A j \in 0 .. k - 1 : j \in 0 .. m - 1 \/ j = m
      /\ \A j \in 1 .. k : j \in 1 .. m \/ j = k
      /\ m \in 0 .. k - 1
  BY DepthAssumption
<1>2. at[k] = IF at[m] \in DOMAIN cats THEN cats[at[m]].next ELSE "nil"
  BY DEF Leads
<1>3. CASE before.answer # Silent
  <2>1. after = before
    BY <1>3
  <2>2. Heard(before.answer, cats, at, e, m) \/ HeardForeign(before.answer, cats, at, e, m)
    BY <1>3 DEF Resolved
  <2>3. Heard(before.answer, cats, at, e, m) => Heard(before.answer, cats, at, e, k)
    BY <1>1, Zenon DEF Heard
  <2>4. HeardForeign(before.answer, cats, at, e, m) => HeardForeign(before.answer, cats, at, e, k)
    BY <1>1, Zenon DEF HeardForeign
  <2> QED
    BY <1>3, <2>1, <2>2, <2>3, <2>4 DEF Resolved
<1>4. CASE before.answer = Silent /\ before.receiver \notin DOMAIN cats
  <2>1. after = before
    BY <1>4
  <2>2. Unheard(cats, at, e, m) /\ Placed(before, cats, at, e, m)
    BY <1>4 DEF Resolved
  <2>3. at[m] \notin DOMAIN cats
    BY <1>4, <2>2 DEF Placed
  <2>4. m \notin Speakers(cats, at, e)
    BY <2>3, SpeakersIs
  <2>5. at[k] = "nil" /\ at[k] \notin DOMAIN cats
    BY <1>2, <2>3 DEF Named
  <2>6. Unheard(cats, at, e, k)
    BY <1>1, <2>2, <2>4, <2>5 DEF Unheard
  <2>7. Placed(after, cats, at, e, k)
    BY <1>4, <2>1, <2>5 DEF Placed
  <2> QED
    BY <1>4, <2>1, <2>6, <2>7 DEF Resolved
<1>5. CASE before.answer = Silent /\ before.receiver \in DOMAIN cats
  <2>1. Unheard(cats, at, e, m) /\ Placed(before, cats, at, e, m)
    BY <1>5 DEF Resolved
  <2>2. at[m] \in DOMAIN cats /\ before.receiver = at[m] /\ before.error = ShownAt(cats, at, e, m - 1)
    BY <1>5, <2>1 DEF Placed
  <2>3. PICK x : x = ShownAt(cats, at, e, m)
    OBVIOUS
  <2>4. Relabelled(cats[at[m]], before.error) = x
    <3>1. Relabelled(cats[at[m]], ShownAt(cats, at, e, m - 1)) = ShownAt(cats, at, e, m)
      BY <1>1, <2>2, ShownStep
    <3> QED
      BY <2>2, <2>3, <3>1
  <2>5. PICK own : own = render(cats, at[m], ShownAt(cats, at, e, m), m)
    OBVIOUS
  <2>6. /\ after.receiver = at[k] /\ after.error = x
        /\ after.answer = IF own = Silent /\ at[k] = "foreign" THEN Foreign(x) ELSE own
    <3>1. after = Ask(cats, before, m)
      BY <1>5
    <3>2. at[k] = cats[at[m]].next
      BY <1>2, <2>2
    <3> QED
      BY <2>2, <2>3, <2>4, <2>5, <3>1, <3>2, AskIs
  <2>7. /\ SentencesAt(cats, at, e, m) = {} => own = Silent
        /\ SentencesAt(cats, at, e, m) # {} =>
             /\ own # Silent
             /\ \/ own = Says(SaidAt(cats, at, e, m))
                \/ own = Panic /\ \E j \in 1 .. MaxFallbackDepth : at[j] = "typedNil"
    BY <1>1, <2>2, <2>5, RenderIs
  <2>8. \A j \in 0 .. m - 1 : j \notin Speakers(cats, at, e)
    BY <2>1 DEF Unheard
  <2>9. CASE SentencesAt(cats, at, e, m) # {}
    <3>1. m \in Speakers(cats, at, e)
      BY <2>2, <2>9, SpeakersIs
    <3>2. \A i \in Speakers(cats, at, e) : m <= i
      <4>1. SUFFICES ASSUME NEW i \in Speakers(cats, at, e), ~(m <= i) PROVE FALSE
        OBVIOUS
      <4>2. i \in 0 .. MaxFallbackDepth - 1
        BY SpeakersIs
      <4>3. i \in 0 .. m - 1
        BY <1>1, <4>1, <4>2
      <4> QED
        BY <2>8, <4>3
    <3>3. after.answer = own /\ own # Silent
      BY <2>6, <2>7, <2>9
    <3>4. Heard(own, cats, at, e, k)
      BY <1>1, <2>7, <2>9, <3>1, <3>2, Zenon DEF Heard
    <3> QED
      BY <3>3, <3>4 DEF Resolved
  <2>10. CASE SentencesAt(cats, at, e, m) = {}
    <3>1. own = Silent
      BY <2>7, <2>10
    <3>2. m \notin Speakers(cats, at, e)
      BY <2>10, SpeakersIs
    <3>3. CASE at[k] = "foreign"
      <4>1. after.answer = Foreign(x)
        BY <2>6, <3>1, <3>3
      <4>2. at[k] \notin DOMAIN cats
        BY <3>3 DEF Named
      <4>3. Speakers(cats, at, e) = {}
        <5>1. SUFFICES ASSUME NEW i \in Speakers(cats, at, e) PROVE FALSE
          OBVIOUS
        <5>2. i \in 0 .. MaxFallbackDepth - 1
          BY SpeakersIs
        <5>3. at[i] \in DOMAIN cats
          BY SpeakersIs
        <5>4. i \in 0 .. m - 1 \/ i = m \/ i = k \/ i \in k + 1 .. MaxFallbackDepth
          BY <1>1, <5>2
        <5>5. i \notin k + 1 .. MaxFallbackDepth
          <6>1. k \in 0 .. MaxFallbackDepth
            BY <1>1
          <6> QED
            BY <4>2, <5>3, <6>1, ChainEnds
        <5> QED
          BY <2>8, <3>2, <4>2, <5>3, <5>4, <5>5
      <4>4. HeardForeign(Foreign(x), cats, at, e, k)
        <5>1. k \in 1 .. k
          BY <1>1
        <5> QED
          BY <2>3, <3>3, <4>3, <5>1 DEF HeardForeign
      <4>5. Foreign(x) # Silent
        BY ForeignSpoken
      <4> QED
        BY <4>1, <4>4, <4>5 DEF Resolved
    <3>4. CASE at[k] # "foreign"
      <4>1. after.answer = Silent
        BY <2>6, <3>1, <3>4
      <4>2. Unheard(cats, at, e, k)
        BY <1>1, <2>1, <3>2, <3>4 DEF Unheard
      <4>3. Placed(after, cats, at, e, k)
        BY <2>3, <2>6 DEF Placed
      <4> QED
        BY <4>1, <4>2, <4>3 DEF Resolved
    <3> QED
      BY <3>3, <3>4
  <2> QED
    BY <2>9, <2>10
<1> QED
  BY <1>3, <1>4, <1>5

LEMMA ResolveIs ==
  ASSUME NEW cats, NEW root, Named(cats, root), LabelsFinal(cats),
         NEW C, NEW P, NEW T, NEW B, NEW O, NEW S, NEW e \in ErrorIn(C, P, T, B, O, S),
         NEW at, Leads(at, cats, root)
  PROVE  Resolved(Calls(cats, root, e)[MaxFallbackDepth], cats, at, e, MaxFallbackDepth)
<1>1. PICK call : call = Calls(cats, root, e)
  OBVIOUS
<1>2. Relays(call, cats, root, e)
  BY <1>1, CallsRelay
<1>3. PICK n \in Nat : n = MaxFallbackDepth
  BY DepthAssumption
<1> DEFINE R == {k \in Nat : k <= n => Resolved(call[k], cats, at, e, k)}
<1>4. 0 \in R
  <2>1. call[0].receiver = at[0] /\ call[0].error = e /\ call[0].answer = Silent
    BY <1>2 DEF Relays, Leads
  <2>2. Unheard(cats, at, e, 0)
    BY DEF Unheard
  <2>3. Placed(call[0], cats, at, e, 0)
    BY <2>1, ShownFirst DEF Placed
  <2>4. Resolved(call[0], cats, at, e, 0)
    BY <2>1, <2>2, <2>3 DEF Resolved
  <2> QED
    BY <2>4
<1>5. ASSUME NEW m \in R
      PROVE  m + 1 \in R
  <2>1. SUFFICES ASSUME m + 1 <= n PROVE Resolved(call[m + 1], cats, at, e, m + 1)
    OBVIOUS
  <2>2. m \in Nat /\ Resolved(call[m], cats, at, e, m)
    BY <2>1
  <2>3. PICK k \in 1 .. n : k = m + 1 /\ m = k - 1 /\ m \in 0 .. n - 1
    BY <2>1, <2>2
  <2> HIDE DEF R
  <2>4. call[k] = IF call[m].answer = Silent /\ call[m].receiver \in DOMAIN cats
                  THEN Ask(cats, call[m], m) ELSE call[m]
    BY <1>2, <1>3, <2>3 DEF Relays
  <2>5. Resolved(call[k], cats, at, e, k)
    BY <1>3, <2>2, <2>3, <2>4, ResolvedStep
  <2> QED
    BY <2>3, <2>5
<1> HIDE DEF R
<1>6. R = Nat
  <2>1. R \in SUBSET Nat
    BY DEF R
  <2> QED
    BY <1>4, <1>5, <2>1, SetInduction
<1> QED
  BY <1>1, <1>3, <1>6 DEF R

\* Whatever the chain of fallbacks, its length, its loops and what it lacks, an
\* error is worded by the first catalog that has a sentence for it, about the
\* path as the first catalog that has a label shows it, with the first suffix
\* from there on, or generically, unless a nil *Catalog in the chain ends the
\* program (localize.go:108).
THEOREM LocalizedRight ==
  ASSUME NEW cats, NEW root, Named(cats, root), LabelsFinal(cats),
         NEW C, NEW P, NEW T, NEW B, NEW O, NEW S, NEW e \in ErrorIn(C, P, T, B, O, S)
  PROVE  \/ Localize(cats, root, e) = Says(Intended(cats, root, e))
         \/ /\ Localize(cats, root, e) = Panic
            /\ \E k \in 1 .. MaxFallbackDepth : ChainFrom(cats, root)[k] = "typedNil"
<1>1. PICK at : at = ChainFrom(cats, root) /\ Leads(at, cats, root)
  BY ChainLeads
<1>2. PICK call : call = Calls(cats, root, e)[MaxFallbackDepth]
  OBVIOUS
<1>3. Resolved(call, cats, at, e, MaxFallbackDepth)
  BY <1>1, <1>2, ResolveIs
<1>4. Localize(cats, root, e) = IF call.answer = Silent THEN Says(Generic) ELSE call.answer
  BY <1>2 DEF Localize, resolve
<1>5. PICK foreign : foreign = {j \in 1 .. MaxFallbackDepth : at[j] = "foreign"}
  OBVIOUS
<1>6. Intended(cats, root, e) =
        IF Speakers(cats, at, e) # {} THEN SaidAt(cats, at, e, Foremost(Speakers(cats, at, e)))
        ELSE IF foreign # {} THEN Foreign(ShownAt(cats, at, e, Foremost(foreign) - 1)).text
        ELSE Generic
  BY <1>1, <1>5 DEF Intended, SaidAt
<1>7. MaxFallbackDepth \in Nat
  BY DepthAssumption
<1>8. CASE call.answer = Silent
  <2>1. Unheard(cats, at, e, MaxFallbackDepth)
    BY <1>3, <1>8 DEF Resolved
  <2>2. Speakers(cats, at, e) = {}
    BY <2>1, SpeakersIs DEF Unheard
  <2>3. foreign = {}
    BY <1>5, <2>1 DEF Unheard
  <2> QED
    BY <1>4, <1>6, <1>8, <2>2, <2>3
<1>9. CASE call.answer # Silent /\ Heard(call.answer, cats, at, e, MaxFallbackDepth)
  <2>1. PICK j \in Speakers(cats, at, e) :
          /\ \A i \in Speakers(cats, at, e) : j <= i
          /\ \/ call.answer = Says(SaidAt(cats, at, e, j))
             \/ call.answer = Panic /\ \E i \in 1 .. MaxFallbackDepth : at[i] = "typedNil"
    BY <1>9 DEF Heard
  <2>2. Speakers(cats, at, e) \in SUBSET Nat
    <3>1. 0 .. MaxFallbackDepth - 1 \subseteq Nat
      BY <1>7
    <3> QED
      BY <3>1, SpeakersIs
  <2>3. Foremost(Speakers(cats, at, e)) = j
    BY <2>1, <2>2, ForemostIs
  <2> QED
    BY <1>1, <1>4, <1>6, <1>9, <2>1, <2>3
<1>10. CASE call.answer # Silent /\ HeardForeign(call.answer, cats, at, e, MaxFallbackDepth)
  <2>1. PICK j \in 1 .. MaxFallbackDepth : /\ at[j] = "foreign" /\ Speakers(cats, at, e) = {}
                                           /\ call.answer = Foreign(ShownAt(cats, at, e, j - 1))
    BY <1>10 DEF HeardForeign
  <2>2. at[j] \notin DOMAIN cats
    BY <2>1 DEF Named
  <2>3. j \in foreign /\ foreign \in SUBSET Nat
    <3>1. 1 .. MaxFallbackDepth \subseteq Nat
      BY <1>7
    <3> QED
      BY <1>5, <2>1, <3>1
  <2>4. \A i \in foreign : j <= i
    <3>1. SUFFICES ASSUME NEW i \in foreign, ~(j <= i) PROVE FALSE
      OBVIOUS
    <3>2. i \in 1 .. MaxFallbackDepth
      BY <1>5
    <3>3. at[i] = "foreign"
      BY <1>5
    <3>4. at[i] \notin DOMAIN cats
      BY <3>3 DEF Named
    <3>5. i \in 0 .. MaxFallbackDepth /\ j \in i + 1 .. MaxFallbackDepth
      BY <1>7, <3>1, <3>2
    <3>6. at[j] = "nil"
      BY <1>1, <3>4, <3>5, ChainEnds
    <3> QED
      BY <2>1, <3>6
  <2>5. Foremost(foreign) = j
    BY <2>3, <2>4, ForemostIs
  <2>6. Intended(cats, root, e) = Foreign(ShownAt(cats, at, e, j - 1)).text
    BY <1>6, <2>1, <2>3, <2>5
  <2> QED
    BY <1>4, <1>10, <2>1, <2>6, ForeignSpoken
<1> QED
  BY <1>3, <1>8, <1>9, <1>10 DEF Resolved
----------------------------------------------------------------------------
(* Catalogs that Validate has passed.                                      *)

\* The error, or the error under a label.
Version(x, e) == x = e \/ \E p : x = Renamed(e, p)

\* All but the path.
SameRest(x, e) ==
  /\ x.code = e.code /\ x.fieldType = e.fieldType /\ x.bound = e.bound
  /\ x.options = e.options /\ x.suggestion = e.suggestion

LEMMA VersionRest ==
  ASSUME NEW C, NEW P, NEW T, NEW B, NEW O, NEW S, NEW e \in ErrorIn(C, P, T, B, O, S),
         NEW x, Version(x, e)
  PROVE  SameRest(x, e)
<1>1. \A p : Renamed(e, p).code = e.code /\ Renamed(e, p).suggestion = e.suggestion
  BY RenamedError
<1>2. \A p : /\ Renamed(e, p).fieldType = e.fieldType
             /\ Renamed(e, p).bound = e.bound /\ Renamed(e, p).options = e.options
  BY RenamedRest
<1> QED
  BY <1>1, <1>2 DEF Version, SameRest

LEMMA VersionStays ==
  ASSUME NEW C, NEW P, NEW T, NEW B, NEW O, NEW S, NEW e \in ErrorIn(C, P, T, B, O, S),
         NEW x, Version(x, e), NEW cat
  PROVE  /\ Version(Relabelled(cat, x), e)
         /\ (x.path # NoPath /\ \A p \in DOMAIN cat.labels : cat.labels[p] # NoPath) =>
              Relabelled(cat, x).path # NoPath
<1>1. \A p, q : Renamed(e, p).path = p /\ Renamed(Renamed(e, p), q) = Renamed(e, q)
  BY RenamedError
<1>2. CASE ~HasLabel(cat, x.path)
  BY <1>2, RelabelledIs
<1>3. CASE HasLabel(cat, x.path)
  <2>1. PICK q : q = lookupLabel(cat, x.path)
    OBVIOUS
  <2>2. Relabelled(cat, x) = Renamed(x, q)
    BY <1>3, <2>1, RelabelledIs
  <2>3. Renamed(x, q) = Renamed(e, q)
    BY <1>1 DEF Version
  <2>4. \E p \in DOMAIN cat.labels : q = cat.labels[p]
    BY <1>3, <2>1 DEF HasLabel, lookupLabel
  <2> QED
    BY <1>1, <2>2, <2>3, <2>4 DEF Version
<1> QED
  BY <1>2, <1>3

\* What Ask makes of a call to c that shows the error as x.
AskReads(ask, cats, c, x, m) ==
  /\ ask.receiver = cats[c].next /\ ask.error = x
  /\ ask.answer = IF render(cats, c, x, m) = Silent /\ cats[c].next = "foreign"
                  THEN Foreign(x) ELSE render(cats, c, x, m)

LEMMA AskReadsAs ==
  ASSUME NEW cats, NEW call, NEW m, NEW c, c = call.receiver,
         NEW x, x = Relabelled(cats[c], call.error), NEW ask, ask = Ask(cats, call, m)
  PROVE  AskReads(ask, cats, c, x, m)
<1>1. PICK own : own = render(cats, c, x, m)
  OBVIOUS
<1>2. PICK answer : answer = IF own = Silent /\ cats[c].next = "foreign" THEN Foreign(x) ELSE own
  OBVIOUS
<1>3. ask = [receiver |-> cats[c].next, error |-> x, answer |-> answer]
  BY <1>1, <1>2, Zenon DEF Ask
<1>4. ask.receiver = cats[c].next /\ ask.error = x /\ ask.answer = answer
  BY <1>3
<1> QED
  BY <1>1, <1>2, <1>4, Zenon DEF AskReads

LEMMA RenderSilent ==
  ASSUME NEW cats, NEW name, NEW e, NEW depth
  PROVE  render(cats, name, e, depth) = Silent <=> Body(cats[name], e) = ""
<1>1. PICK body : body = Body(cats[name], e)
  OBVIOUS
<1>2. PICK found : found = suggestionSuffix(cats, name, depth)
  OBVIOUS
<1>3. PICK suffix : suffix = IF Expands(found.template, e) THEN found.template.wording ELSE ""
  OBVIOUS
<1>4. render(cats, name, e, depth) =
        IF body = "" THEN Silent
        ELSE IF e.suggestion = << >> THEN Says([wording |-> body, field |-> e.path, suffix |-> ""])
        ELSE IF found.panics THEN Panic
        ELSE Says([wording |-> body, field |-> e.path, suffix |-> suffix])
  BY <1>1, <1>2, <1>3, Zenon DEF render
<1>5. CASE body = ""
  BY <1>1, <1>4, <1>5
<1>6. CASE body # ""
  <2>1. \A s : Says([wording |-> body, field |-> e.path, suffix |-> s]) # Silent /\ Panic # Silent
    <3>1. TAKE s
    <3>2. PICK text : text = [wording |-> body, field |-> e.path, suffix |-> s]
      OBVIOUS
    <3>3. text.wording # ""
      BY <1>6, <3>2
    <3>4. Says(text) # Silent /\ Panic # Silent
      BY <3>3, Spoken
    <3> QED
      BY <3>2, <3>4
  <2> QED
    BY <1>1, <1>4, <1>6, <2>1
<1> QED
  BY <1>5, <1>6

\* What can be said of an error that has nothing but its path can be said of
\* every error with the same code and some path.
LEMMA BarelySaid ==
  ASSUME NEW cat, NEW b, NEW e, b.code = e.code, e.path # NoPath,
         b.fieldType = "", b.bound = << >>, b.options = << >>, b.suggestion = << >>,
         Body(cat, b) # ""
  PROVE  Body(cat, e) # ""
<1>1. Furnished(b) \subseteq {"field"}
  BY DEF Furnished, KnownPlaceholders
<1>2. "field" \in Furnished(e)
  BY DEF Furnished, KnownPlaceholders
<1>3. \A t : Expands(t, b) => Expands(t, e) /\ t.wording # ""
  BY <1>1, <1>2 DEF Expands
<1>4. PICK msg : msg = MessageOf(cat, b.code) /\ msg = MessageOf(cat, e.code)
  OBVIOUS
<1>5. Expands(msg.template, b) \/ Expands(msg.fallback, b)
  BY <1>4 DEF Body
<1>6. Body(cat, e) = IF Expands(msg.template, e) THEN msg.template.wording
                     ELSE IF Expands(msg.fallback, e) THEN msg.fallback.wording ELSE ""
  BY <1>4 DEF Body
<1>7. Expands(msg.template, e) => msg.template.wording # ""
  BY DEF Expands
<1> QED
  BY <1>3, <1>5, <1>6, <1>7

\* As long as nobody has had a sentence for e, nobody has had one for b, and
\* the two have come to the same catalog.
Abreast(ce, cb, e, b) ==
  ce.answer = Silent =>
    /\ cb.answer = Silent /\ cb.receiver = ce.receiver
    /\ Version(ce.error, e) /\ ce.error.path # NoPath /\ Version(cb.error, b)

LEMMA StaysAbreast ==
  ASSUME NEW cats, \A c \in DOMAIN cats : \A p \in DOMAIN cats[c].labels : cats[c].labels[p] # NoPath,
         NEW C, NEW P, NEW T, NEW B, NEW O, NEW S,
         NEW e \in ErrorIn(C, P, T, B, O, S), NEW b \in ErrorIn(C, P, T, B, O, S),
         b.code = e.code, b.fieldType = "", b.bound = << >>, b.options = << >>, b.suggestion = << >>,
         NEW m, NEW ce, NEW cb, Abreast(ce, cb, e, b),
         NEW ne, ne = IF ce.answer = Silent /\ ce.receiver \in DOMAIN cats THEN Ask(cats, ce, m) ELSE ce,
         NEW nb, nb = IF cb.answer = Silent /\ cb.receiver \in DOMAIN cats THEN Ask(cats, cb, m) ELSE cb
  PROVE  Abreast(ne, nb, e, b)
<1>1. CASE ~(ce.answer = Silent /\ ce.receiver \in DOMAIN cats)
  BY <1>1 DEF Abreast
<1>2. CASE ce.answer = Silent /\ ce.receiver \in DOMAIN cats
  <2>1. PICK c \in DOMAIN cats : ce.receiver = c /\ cb.receiver = c /\ cb.answer = Silent
    BY <1>2 DEF Abreast
  <2>2. Version(ce.error, e) /\ ce.error.path # NoPath /\ Version(cb.error, b)
    BY <1>2 DEF Abreast
  <2>3. PICK x : x = Relabelled(cats[c], ce.error)
    OBVIOUS
  <2>4. PICK y : y = Relabelled(cats[c], cb.error)
    OBVIOUS
  <2>5. Version(x, e) /\ x.path # NoPath
    BY <2>2, <2>3, VersionStays
  <2>6. Version(y, b)
    BY <2>2, <2>4, VersionStays
  <2>7. SameRest(x, e) /\ SameRest(y, b)
    BY <2>5, <2>6, VersionRest
  <2>8. /\ x.code = y.code /\ y.fieldType = "" /\ y.bound = << >>
        /\ y.options = << >> /\ y.suggestion = << >>
    BY <2>7 DEF SameRest
  <2>9. Body(cats[c], y) # "" => Body(cats[c], x) # ""
    BY <2>5, <2>8, BarelySaid
  <2>10. render(cats, c, x, m) = Silent => render(cats, c, y, m) = Silent
    <3>1. render(cats, c, x, m) = Silent <=> Body(cats[c], x) = ""
      BY RenderSilent
    <3>2. render(cats, c, y, m) = Silent <=> Body(cats[c], y) = ""
      BY RenderSilent
    <3> QED
      BY <2>9, <3>1, <3>2
  <2>11. ne = Ask(cats, ce, m) /\ nb = Ask(cats, cb, m)
    BY <1>2, <2>1
  <2>12. AskReads(ne, cats, c, x, m)
    BY <2>1, <2>3, <2>11, AskReadsAs
  <2>13. AskReads(nb, cats, c, y, m)
    BY <2>1, <2>4, <2>11, AskReadsAs
  <2>14. ne.answer = Silent => render(cats, c, x, m) = Silent /\ cats[c].next # "foreign"
    <3>1. Foreign(x) # Silent
      BY ForeignSpoken
    <3> QED
      BY <2>12, <3>1 DEF AskReads
  <2> QED
    BY <2>5, <2>6, <2>10, <2>12, <2>13, <2>14, Zenon DEF Abreast, AskReads
<1> QED
  BY <1>1, <1>2

\* A catalog that Validate has passed has words of its chain for every error
\* with a known code and a path, whatever else the error lacks: nothing
\* degrades to the generic text later (localize.go:560).
THEOREM ValidatedHasWords ==
  ASSUME NEW cats, NEW name, ValidateCatalog(cats, name) = "ok",
         \A c \in DOMAIN cats : \A p \in DOMAIN cats[c].labels : cats[c].labels[p] # NoPath,
         NEW C, NEW P, NEW T, NEW B, NEW O, NEW S, NEW e \in ErrorIn(C, P, T, B, O, S),
         e.code \in BuiltinCode, e.path # NoPath
  PROVE  resolve(cats, name, e) # Silent
<1>1. PICK b : b = BareError(e.code)
  OBVIOUS
<1>2. resolve(cats, name, b) # Silent
  <2>1. b \in Probes
    BY <1>1 DEF Probes
  <2> QED
    BY <2>1 DEF ValidateCatalog
<1>3. /\ b.code = e.code /\ b.fieldType = "" /\ b.bound = << >> /\ b.options = << >>
      /\ b.suggestion = << >>
  BY <1>1 DEF BareError
<1>4. PICK C2, P2, T2, B2, O2, S2 :
        e \in ErrorIn(C2, P2, T2, B2, O2, S2) /\ b \in ErrorIn(C2, P2, T2, B2, O2, S2)
  <2> DEFINE C1 == C \cup {b.code}
             P1 == P \cup {b.path}
             T1 == T \cup {b.fieldType}
             B1 == B \cup {b.bound}
             O1 == O \cup {b.options}
             S1 == S \cup {b.suggestion}
  <2>1. e \in ErrorIn(C1, P1, T1, B1, O1, S1)
    BY DEF ErrorIn
  <2>2. b = [code |-> b.code, path |-> b.path, fieldType |-> b.fieldType, bound |-> b.bound,
             options |-> b.options, suggestion |-> b.suggestion]
    BY <1>1 DEF BareError
  <2>3. b \in ErrorIn(C1, P1, T1, B1, O1, S1)
    BY <2>2 DEF ErrorIn
  <2> HIDE DEF C1, P1, T1, B1, O1, S1
  <2> QED
    BY <2>1, <2>3
<1>5. PICK ce : ce = Calls(cats, name, e) /\ Relays(ce, cats, name, e)
  BY CallsRelay
<1>6. PICK cb : cb = Calls(cats, name, b) /\ Relays(cb, cats, name, b)
  BY <1>4, CallsRelay
<1>7. PICK n \in Nat : n = MaxFallbackDepth
  BY DepthAssumption
<1> DEFINE R == {k \in Nat : k <= n => Abreast(ce[k], cb[k], e, b)}
<1>8. 0 \in R
  <2>1. Abreast(ce[0], cb[0], e, b)
    BY <1>5, <1>6 DEF Abreast, Relays, Version
  <2> QED
    BY <2>1
<1>9. ASSUME NEW m \in R
      PROVE  m + 1 \in R
  <2>1. SUFFICES ASSUME m + 1 <= n PROVE Abreast(ce[m + 1], cb[m + 1], e, b)
    OBVIOUS
  <2>2. m \in Nat /\ Abreast(ce[m], cb[m], e, b)
    BY <2>1
  <2>3. PICK k \in 1 .. n : k = m + 1 /\ m = k - 1
    BY <2>1, <2>2
  <2> HIDE DEF R
  <2>4. ce[k] = IF ce[m].answer = Silent /\ ce[m].receiver \in DOMAIN cats THEN Ask(cats, ce[m], m) ELSE ce[m]
    BY <1>5, <1>7, <2>3 DEF Relays
  <2>5. cb[k] = IF cb[m].answer = Silent /\ cb[m].receiver \in DOMAIN cats THEN Ask(cats, cb[m], m) ELSE cb[m]
    BY <1>6, <1>7, <2>3 DEF Relays
  <2>6. Abreast(ce[k], cb[k], e, b)
    BY <1>3, <1>4, <2>2, <2>4, <2>5, StaysAbreast
  <2> QED
    BY <2>3, <2>6
<1> HIDE DEF R
<1>10. R = Nat
  <2>1. R \in SUBSET Nat
    BY DEF R
  <2> QED
    BY <1>8, <1>9, <2>1, SetInduction
<1>11. Abreast(ce[n], cb[n], e, b)
  BY <1>10 DEF R
<1> QED
  BY <1>2, <1>5, <1>6, <1>7, <1>11 DEF Abreast, resolve
----------------------------------------------------------------------------
(* Recursion down a constraint.                                            *)

LEMMA ConstraintIs ==
  ASSUME NEW c \in Constraint
  PROVE  /\ c \in [form : Form, kind : Kind, num : Int, str : Seq(Letter), pat : SUBSET Seq(Letter),
                   args : Seq(Constraint)]
         /\ Depth[c] \in Nat
         /\ Len(c.args) \in Nat /\ DOMAIN c.args = 1 .. Len(c.args)
         /\ \A i \in DOMAIN c.args : c.args[i] \in Constraint /\ Depth[c.args[i]] < Depth[c]
<1>1. c.args \in Seq(Constraint)
  BY ConstraintAssumption
<1> QED
  BY <1>1, ConstraintAssumption

\* What holds of a constraint as soon as it holds of its operands holds of all.
LEMMA TreeInduction ==
  ASSUME NEW P \in SUBSET Constraint,
         \A c \in Constraint : (\A i \in DOMAIN c.args : c.args[i] \in P) => c \in P
  PROVE  P = Constraint
<1> DEFINE S == {n \in Nat : \A c \in Constraint : Depth[c] < n => c \in P}
<1>1. 0 \in S
  <2>1. \A c \in Constraint : ~(Depth[c] < 0)
    BY ConstraintIs
  <2> QED
    BY <2>1
<1>2. ASSUME NEW n \in S
      PROVE  n + 1 \in S
  <2>1. n \in Nat
    OBVIOUS
  <2>2. ASSUME NEW c \in Constraint, Depth[c] < n + 1
        PROVE  c \in P
    <3>1. \A i \in DOMAIN c.args : c.args[i] \in P
      <4>1. TAKE i \in DOMAIN c.args
      <4>2. c.args[i] \in Constraint /\ Depth[c.args[i]] \in Nat /\ Depth[c] \in Nat /\ Depth[c.args[i]] < Depth[c]
        BY ConstraintIs
      <4>3. Depth[c.args[i]] < n
        BY <2>1, <2>2, <4>2
      <4> QED
        BY <4>2, <4>3
    <3> QED
      BY <3>1
  <2> QED
    BY <2>1, <2>2
<1> HIDE DEF S
<1>3. S = Nat
  <2>1. S \in SUBSET Nat
    BY DEF S
  <2> QED
    BY <1>1, <1>2, <2>1, SetInduction
<1>4. ASSUME NEW c \in Constraint PROVE c \in P
  <2>1. Depth[c] \in Nat
    BY ConstraintIs
  <2>2. PICK n \in Nat : n = Depth[c] + 1 /\ Depth[c] < n
    <3>1. PICK d \in Nat : d = Depth[c]
      BY <2>1
    <3>2. d + 1 \in Nat /\ d < d + 1
      OBVIOUS
    <3> QED
      BY <3>1, <3>2
  <2>3. n \in S
    BY <1>3, <2>2
  <2> QED
    BY <2>2, <2>3 DEF S
<1> QED
  BY <1>4

OfArgs(F, c) == [i \in DOMAIN c.args |-> F[c.args[i]]]

\* F goes down the constraints by step.
Descends(F, V, step) ==
  F \in [Constraint -> V] /\ \A c \in Constraint : F[c] = step[c][OfArgs(F, c)]

LEMMA OfArgsIs ==
  ASSUME NEW V, NEW F, NEW c \in Constraint, \A i \in DOMAIN c.args : F[c.args[i]] \in V
  PROVE  OfArgs(F, c) \in Seq(V)
<1>1. PICK n \in Nat : n = Len(c.args) /\ DOMAIN c.args = 1 .. n
  BY ConstraintIs
<1>2. OfArgs(F, c) \in [1 .. n -> V]
  BY <1>1 DEF OfArgs
<1> QED
  BY <1>2

LEMMA SameOfArgs ==
  ASSUME NEW F, NEW G, NEW c, \A i \in DOMAIN c.args : F[c.args[i]] = G[c.args[i]]
  PROVE  OfArgs(F, c) = OfArgs(G, c)
BY DEF OfArgs

\* A step function can be followed down.
LEMMA TreeRecursion ==
  ASSUME NEW V, NEW v \in V, NEW step \in [Constraint -> [Seq(V) -> V]]
  PROVE  \E F : Descends(F, V, step)
<1> DEFINE W == [Constraint -> V]
           Good(F, n) == \A c \in Constraint : Depth[c] < n => F[c] = step[c][OfArgs(F, c)]
           S == {n \in Nat : \E F \in W : Good(F, n)}
<1>a. ASSUME NEW F \in W, NEW c \in Constraint
      PROVE  step[c][OfArgs(F, c)] \in V
  <2>1. OfArgs(F, c) \in Seq(V)
    <3>1. \A i \in DOMAIN c.args : F[c.args[i]] \in V
      BY ConstraintIs
    <3> QED
      BY <3>1, OfArgsIs
  <2> QED
    BY <2>1
<1>1. 0 \in S
  <2>1. PICK F \in W : F = [c \in Constraint |-> v]
    OBVIOUS
  <2>2. Good(F, 0)
    BY ConstraintIs
  <2> QED
    BY <2>2
<1>2. ASSUME NEW n \in S
      PROVE  n + 1 \in S
  <2>1. n \in Nat
    OBVIOUS
  <2>2. PICK F \in W : Good(F, n)
    OBVIOUS
  <2>3. PICK G : G = [c \in Constraint |-> step[c][OfArgs(F, c)]]
    OBVIOUS
  <2>4. G \in W
    BY <1>a, <2>3
  <2>5. ASSUME NEW c \in Constraint, Depth[c] < n + 1
        PROVE  G[c] = step[c][OfArgs(G, c)]
    <3>1. \A i \in DOMAIN c.args : F[c.args[i]] = G[c.args[i]]
      <4>1. TAKE i \in DOMAIN c.args
      <4>2. PICK d \in Constraint : d = c.args[i] /\ Depth[d] \in Nat /\ Depth[c] \in Nat /\ Depth[d] < Depth[c]
        BY ConstraintIs
      <4>3. Depth[d] < n
        BY <2>1, <2>5, <4>2
      <4> QED
        BY <2>2, <2>3, <4>2, <4>3
    <3>2. OfArgs(F, c) = OfArgs(G, c)
      BY <3>1, SameOfArgs
    <3>3. G[c] = step[c][OfArgs(F, c)]
      BY <2>3
    <3> QED
      BY <3>2, <3>3
  <2> QED
    BY <2>1, <2>4, <2>5
<1>3. S = Nat
  <2>1. S \in SUBSET Nat
    OBVIOUS
  <2> HIDE DEF S
  <2> QED
    BY <1>1, <1>2, <2>1, SetInduction
<1>4. ASSUME NEW n \in Nat, NEW F \in W, Good(F, n), NEW G \in W, Good(G, n)
      PROVE  \A c \in Constraint : Depth[c] < n => F[c] = G[c]
  <2> DEFINE P == {c \in Constraint : Depth[c] < n => F[c] = G[c]}
  <2>1. ASSUME NEW c \in Constraint, \A i \in DOMAIN c.args : c.args[i] \in P
        PROVE  c \in P
    <3>1. SUFFICES ASSUME Depth[c] < n PROVE F[c] = G[c]
      OBVIOUS
    <3>2. \A i \in DOMAIN c.args : F[c.args[i]] = G[c.args[i]]
      <4>1. TAKE i \in DOMAIN c.args
      <4>2. PICK d \in Constraint : d = c.args[i] /\ Depth[d] \in Nat /\ Depth[c] \in Nat /\ Depth[d] < Depth[c]
        BY ConstraintIs
      <4>3. Depth[d] < n
        BY <3>1, <4>2
      <4> QED
        BY <2>1, <4>2, <4>3
    <3>3. OfArgs(F, c) = OfArgs(G, c)
      BY <3>2, SameOfArgs
    <3> QED
      BY <1>4, <3>1, <3>3
  <2> HIDE DEF Good
  <2>2. P = Constraint
    <3>1. P \in SUBSET Constraint
      OBVIOUS
    <3> HIDE DEF P
    <3> QED
      BY <2>1, <3>1, TreeInduction
  <2> QED
    BY <2>2
<1>5. ASSUME NEW n \in Nat PROVE \E F \in W : Good(F, n)
  BY <1>3
<1> DEFINE at(n) == CHOOSE F \in W : Good(F, n)
<1>6. ASSUME NEW n \in Nat PROVE at(n) \in W /\ Good(at(n), n)
  <2> HIDE DEF W, Good
  <2> QED
    BY <1>5
<1>7. ASSUME NEW m \in Nat, NEW n \in Nat, m <= n
      PROVE  Good(at(n), m)
  <2> HIDE DEF W, at
  <2>1. Good(at(n), n)
    BY <1>6
  <2> QED
    BY <1>7, <2>1, ConstraintIs
<1>8. PICK F : F = [c \in Constraint |-> at(Depth[c] + 1)[c]]
  OBVIOUS
<1> HIDE DEF at
<1>9. ASSUME NEW c \in Constraint
      PROVE  F[c] \in V /\ F[c] = step[c][OfArgs(F, c)]
  <2>1. PICK n \in Nat : n = Depth[c] + 1 /\ Depth[c] < n
    <3>1. PICK d \in Nat : d = Depth[c]
      BY ConstraintIs
    <3>2. d + 1 \in Nat /\ d < d + 1
      OBVIOUS
    <3> QED
      BY <3>1, <3>2
  <2>2. F[c] = at(n)[c] /\ at(n) \in W /\ Good(at(n), n)
    BY <1>6, <1>8, <2>1
  <2>3. \A i \in DOMAIN c.args : at(n)[c.args[i]] = F[c.args[i]]
    <3>1. TAKE i \in DOMAIN c.args
    <3>2. PICK d \in Constraint : d = c.args[i] /\ Depth[d] \in Nat /\ Depth[c] \in Nat /\ Depth[d] < Depth[c]
      BY ConstraintIs
    <3>3. PICK m \in Nat : m = Depth[d] + 1 /\ m <= n /\ Depth[d] < m
      BY <2>1, <3>2
    <3>4. at(m) \in W /\ Good(at(m), m) /\ Good(at(n), m)
      BY <1>6, <1>7, <3>3
    <3> HIDE DEF Good
    <3>5. at(m)[d] = at(n)[d]
      BY <1>4, <2>2, <3>3, <3>4
    <3>6. F[d] = at(m)[d]
      BY <1>8, <3>3
    <3> QED
      BY <3>2, <3>5, <3>6
  <2>4. OfArgs(at(n), c) = OfArgs(F, c)
    BY <2>3, SameOfArgs
  <2> QED
    BY <2>1, <2>2, <2>4
<1>10. F \in [Constraint -> V]
  BY <1>8, <1>9
<1> QED
  BY <1>9, <1>10 DEF Descends

\* FlattenSeq appends one sequence after the other.
Flattens(r, seqs, V) ==
  /\ r \in [1 .. Len(seqs) -> Seq(V)] /\ r[1] = seqs[1]
  /\ \A i \in 2 .. Len(seqs) : r[i] = r[i - 1] \o seqs[i]

LEMMA FlattenSteps ==
  ASSUME NEW V, NEW seqs \in Seq(Seq(V)), Len(seqs) # 0
  PROVE  \E r : Flattens(r, seqs, V) /\ FlattenSeq(seqs) = r[Len(seqs)]
<1> DEFINE n == Len(seqs)
           W == Seq(V)
           m == n - 1
           step == [k \in 1 .. m |-> [s \in W |-> s \o seqs[k + 1]]]
           body(f) == [i \in 1 .. n |-> IF i = 1 THEN seqs[i] ELSE f[i - 1] \o seqs[i]]
<1>1. n \in Nat /\ m \in Nat /\ n = m + 1 /\ \A i \in 1 .. n : seqs[i] \in W
  OBVIOUS
<1>2. FlattenSeq(seqs) = (CHOOSE f : f = body(f))[n]
  BY DEF FlattenSeq
<1>3. step \in [1 .. m -> [W -> W]]
  <2>1. ASSUME NEW k \in 1 .. m, NEW s \in W
        PROVE  s \o seqs[k + 1] \in W
    <3>1. k + 1 \in 1 .. n
      BY <1>1
    <3>2. PICK t \in W : t = seqs[k + 1]
      BY <1>1, <3>1
    <3>3. s \o t \in Seq(V)
      OBVIOUS
    <3> QED
      BY <3>2, <3>3
  <2> QED
    BY <2>1
<1> HIDE DEF n, m
<1>4. PICK g \in [0 .. m -> W] : g[0] = seqs[1] /\ \A k \in 1 .. m : g[k] = step[k][g[k - 1]]
  <2>1. seqs[1] \in W
    BY <1>1
  <2> HIDE DEF step, W
  <2>2. \E f : Iterates(f, W, seqs[1], m, step)
    BY <1>1, <1>3, <2>1, Recursion
  <2> QED
    BY <2>2 DEF Iterates
<1>5. ASSUME NEW k \in 1 .. m
      PROVE  g[k] = g[k - 1] \o seqs[k + 1]
  <2>1. k - 1 \in 0 .. m
    BY <1>1
  <2>2. PICK s \in W : s = g[k - 1]
    BY <2>1
  <2>3. step[k][s] = s \o seqs[k + 1]
    OBVIOUS
  <2> HIDE DEF step
  <2> QED
    BY <1>4, <2>2, <2>3
<1>6. PICK f : f = [i \in 1 .. n |-> g[i - 1]]
  OBVIOUS
<1>7. f = body(f)
  <2>1. ASSUME NEW i \in 1 .. n
        PROVE  f[i] = IF i = 1 THEN seqs[i] ELSE f[i - 1] \o seqs[i]
    <3>1. CASE i = 1
      <4>1. i - 1 = 0
        BY <3>1
      <4> QED
        BY <1>4, <1>6, <3>1, <4>1
    <3>2. CASE i # 1
      <4>1. PICK k \in 1 .. m : k = i - 1 /\ i = k + 1
        BY <1>1, <3>2
      <4>2. k \in 1 .. n
        BY <1>1
      <4>3. f[k] = g[k - 1] /\ f[i] = g[k]
        BY <1>6, <4>1, <4>2
      <4> QED
        BY <1>5, <3>2, <4>1, <4>3
    <3> QED
      BY <3>1, <3>2
  <2> QED
    BY <1>6, <2>1
<1>8. PICK r : r = (CHOOSE h : h = body(h)) /\ r = body(r)
  <2> HIDE DEF body
  <2> QED
    BY <1>7
<1> DEFINE S == {k \in Nat : k <= m => r[k + 1] \in W}
<1>9. 0 \in S
  <2>1. 1 \in 1 .. n /\ seqs[1] \in W
    BY <1>1
  <2>2. r[1] = seqs[1]
    BY <1>8, <2>1
  <2> QED
    BY <2>1, <2>2
<1>10. ASSUME NEW k \in S
       PROVE  k + 1 \in S
  <2>1. SUFFICES ASSUME k + 1 <= m PROVE r[(k + 1) + 1] \in W
    OBVIOUS
  <2>2. PICK i \in 1 .. n : i = (k + 1) + 1 /\ i # 1 /\ i - 1 = k + 1
    BY <1>1, <2>1
  <2>3. PICK s \in W : s = r[k + 1]
    BY <1>1, <2>1
  <2>4. PICK t \in W : t = seqs[i]
    BY <1>1
  <2>5. r[i] = s \o t
    BY <1>8, <2>2, <2>3, <2>4
  <2>6. s \o t \in Seq(V)
    OBVIOUS
  <2> QED
    BY <2>2, <2>5, <2>6
<1>11. S = Nat
  <2>1. S \in SUBSET Nat
    OBVIOUS
  <2> HIDE DEF S
  <2> QED
    BY <1>9, <1>10, <2>1, SetInduction
<1>12. /\ \A i \in 1 .. n : r[i] = IF i = 1 THEN seqs[i] ELSE r[i - 1] \o seqs[i]
       /\ r = [i \in 1 .. n |-> r[i]]
  <2>1. PICK q : q = [i \in 1 .. n |-> IF i = 1 THEN seqs[i] ELSE r[i - 1] \o seqs[i]]
    OBVIOUS
  <2>2. r = q
    BY <1>8, <2>1
  <2> HIDE DEF body
  <2> QED
    BY <2>1, <2>2
<1>13. r \in [1 .. n -> W]
  <2>1. ASSUME NEW i \in 1 .. n PROVE r[i] \in W
    <3>1. PICK k \in Nat : k = i - 1 /\ k <= m /\ k + 1 = i
      BY <1>1
    <3>2. k \in S
      BY <1>11, <3>1
    <3> QED
      BY <3>1, <3>2
  <2> HIDE DEF W, body
  <2> QED
    BY <1>12, <2>1
<1>14. r[1] = seqs[1] /\ \A i \in 2 .. n : r[i] = r[i - 1] \o seqs[i]
  <2> HIDE DEF body
  <2>1. 1 \in 1 .. n /\ \A i \in 2 .. n : i \in 1 .. n /\ i # 1
    BY <1>1
  <2> QED
    BY <1>12, <2>1
<1>15. Flattens(r, seqs, V)
  BY <1>13, <1>14 DEF Flattens, n, W
<1> QED
  BY <1>2, <1>8, <1>15 DEF n

\* What FlattenSeq makes of sequences is a sequence of their elements, of each
\* of them.
LEMMA FlattenIs ==
  ASSUME NEW V, NEW seqs \in Seq(Seq(V))
  PROVE  FlattenSeq(seqs) \in Seq(V)
<1>1. CASE Len(seqs) = 0
  <2>1. seqs = << >>
    BY <1>1
  <2> QED
    BY <2>1 DEF FlattenSeq
<1>2. CASE Len(seqs) # 0
  <2>1. PICK r : Flattens(r, seqs, V) /\ FlattenSeq(seqs) = r[Len(seqs)]
    BY <1>2, FlattenSteps
  <2>2. Len(seqs) \in 1 .. Len(seqs)
    BY <1>2
  <2> QED
    BY <2>1, <2>2 DEF Flattens
<1> QED
  BY <1>1, <1>2

LEMMA OfArgsAt ==
  ASSUME NEW F, NEW c
  PROVE  DOMAIN OfArgs(F, c) = DOMAIN c.args /\ \A i \in DOMAIN c.args : OfArgs(F, c)[i] = F[c.args[i]]
BY DEF OfArgs

\* An operator has a first operand.
LEMMA FirstArg ==
  ASSUME NEW c \in Constraint, c.form \notin {"type", "lit", "=~", "call", "tuple"}
  PROVE  1 \in DOMAIN c.args /\ c.args[1] \in Constraint
<1>1. c.args # << >>
  BY ConstraintAssumption
<1>2. PICK n \in Nat : n = Len(c.args) /\ DOMAIN c.args = 1 .. n /\ c.args \in Seq(Constraint)
  BY ConstraintIs
<1> QED
  BY <1>1, <1>2

LEMMA ComparableIs ==
  ASSUME NEW c \in Constraint
  PROVE  ComparableKinds(c) # {} /\ ComparableKinds(c) \subseteq Kind
<1>1. c.kind \in Kind
  BY ConstraintIs
<1> QED
  BY <1>1 DEF ComparableKinds, BasicKinds, Kind

\* The kinds of a constraint are those KindsOver makes of its operands' kinds.
LEMMA KindsIs ==
  ASSUME NEW c \in Constraint
  PROVE  Kinds(c) = KindsOver(c, [i \in DOMAIN c.args |-> Kinds(c.args[i])])
<1> DEFINE X == Kind \cup {"list"}
           V == SUBSET X
           step == [d \in Constraint |-> [s \in Seq(V) |-> KindsOver(d, s) \cap X]]
           body(f) == [d \in Constraint |-> KindsOver(d, [i \in DOMAIN d.args |-> f[d.args[i]]])]
<1>1. ASSUME NEW d PROVE Kinds(d) = (CHOOSE f : f = body(f))[d]
  BY DEF Kinds
<1>2. step \in [Constraint -> [Seq(V) -> V]]
  OBVIOUS
<1>3. PICK F : Descends(F, V, step)
  <2> HIDE DEF step, V
  <2>1. {} \in V
    BY DEF V
  <2> QED
    BY <1>2, <2>1, TreeRecursion
<1>4. ASSUME NEW d \in Constraint
      PROVE  F[d] = KindsOver(d, OfArgs(F, d))
  <2>1. PICK g \in Seq(V) : g = OfArgs(F, d) /\ DOMAIN g = DOMAIN d.args
    <3>1. \A i \in DOMAIN d.args : F[d.args[i]] \in V
      BY <1>3, ConstraintIs DEF Descends
    <3> HIDE DEF V
    <3>2. OfArgs(F, d) \in Seq(V)
      BY <3>1, OfArgsIs
    <3> QED
      BY <3>2, OfArgsAt
  <2>2. F[d] = KindsOver(d, g) \cap X
    BY <1>3, <2>1 DEF Descends
  <2>3. KindsOver(d, g) \subseteq X
    <3>1. \A i \in DOMAIN g : g[i] \subseteq X
      BY <2>1
    <3>2. CASE d.form \in {"type", "lit"}
      BY <3>2, ConstraintIs DEF KindsOver, BasicKinds, Kind, Comparisons
    <3>3. CASE d.form = "and"
      <4>1. 1 \in DOMAIN g
        BY <2>1, <3>3, FirstArg
      <4> QED
        BY <3>1, <3>3, <4>1 DEF KindsOver, Comparisons
    <3>4. CASE d.form \in {"or", "default"}
      BY <3>1, <3>4 DEF KindsOver, Comparisons
    <3>5. CASE d.form \in Comparisons \cup {"!="}
      <4>1. KindsOver(d, g) = ComparableKinds(d.args[1])
        BY <3>5 DEF KindsOver, Comparisons
      <4> QED
        BY <3>5, <4>1, FirstArg, ComparableIs DEF Comparisons, Kind
    <3>6. CASE d.form \notin {"type", "lit", "and", "or", "default"} \cup Comparisons \cup {"!="}
      BY <3>6 DEF KindsOver, Comparisons, Kind
    <3> QED
      BY <3>2, <3>3, <3>4, <3>5, <3>6
  <2> QED
    BY <2>1, <2>2, <2>3
<1>5. F = body(F)
  <2>1. \A d \in Constraint : F[d] = body(F)[d]
    BY <1>4 DEF OfArgs
  <2>2. F \in [Constraint -> V]
    BY <1>3 DEF Descends
  <2> QED
    BY <2>1, <2>2
<1>6. PICK r : r = (CHOOSE f : f = body(f)) /\ r = body(r)
  <2> HIDE DEF body
  <2> QED
    BY <1>5
<1>7. r[c] = KindsOver(c, [i \in DOMAIN c.args |-> r[c.args[i]]])
  BY <1>6
<1>8. [i \in DOMAIN c.args |-> r[c.args[i]]] = [i \in DOMAIN c.args |-> Kinds(c.args[i])]
  <2> HIDE DEF body
  <2>1. ASSUME NEW d PROVE Kinds(d) = r[d]
    BY <1>1, <1>6
  <2> QED
    BY <2>1
<1>9. Kinds(c) = r[c]
  <2> HIDE DEF body
  <2> QED
    BY <1>1, <1>6
<1> QED
  BY <1>7, <1>8, <1>9

\* What CUE says of a constraint and a value.
Format == {"mismatch", "conflict", "summary", "bound", "pattern", "other"}
BoundNamed == {<< >>} \cup {<<c.form, c.args[1].num>> : c \in Constraint}
DiagnosticIn == [format : Format, bound : BoundNamed, cand : Seq(Constraint)]

LEMMA DiagnosedIn ==
  ASSUME NEW c \in Constraint, NEW v, NEW branches \in Seq(DiagnosticIn)
  PROVE  Diagnosed(c, v, branches) \in Seq(DiagnosticIn)
<1>1. ASSUME NEW d \in DiagnosticIn
      PROVE  <<d>> \in Seq(DiagnosticIn) /\ <<d>> \o branches \in Seq(DiagnosticIn)
  <2>1. <<d>> \in Seq(DiagnosticIn)
    OBVIOUS
  <2> QED
    BY <2>1
<1>2. << >> \in Seq(DiagnosticIn)
  OBVIOUS
<1>3. ASSUME NEW f \in Format, NEW b \in BoundNamed, NEW d \in Seq(Constraint)
      PROVE  Diagnostic(f, b, d) \in DiagnosticIn
  BY DEF Diagnostic, DiagnosticIn
<1>4. << >> \in BoundNamed /\ << >> \in Seq(Constraint) /\ <<c>> \in Seq(Constraint)
  BY DEF BoundNamed
<1>5. <<c.form, c.args[1].num>> \in BoundNamed
  BY DEF BoundNamed
<1>6. \A f \in Format : Diagnostic(f, << >>, << >>) \in DiagnosticIn /\ Diagnostic(f, << >>, <<c>>) \in DiagnosticIn
  BY <1>3, <1>4
<1>7. Diagnostic("bound", <<c.form, c.args[1].num>>, << >>) \in DiagnosticIn
  BY <1>3, <1>4, <1>5 DEF Format
<1> HIDE DEF DiagnosticIn
<1> QED
  BY <1>1, <1>2, <1>6, <1>7 DEF Diagnosed, Mismatch, Format

\* The diagnostics are those Diagnosed makes of the branches' diagnostics.
LEMMA DiagnosticsIs ==
  ASSUME NEW c \in Constraint, NEW v
  PROVE  /\ Diagnostics(c, v) =
              Diagnosed(c, v, FlattenSeq([i \in DOMAIN c.args |-> Diagnostics(c.args[i], v)]))
         /\ Diagnostics(c, v) \in Seq(DiagnosticIn)
<1> DEFINE V == Seq(DiagnosticIn)
           step == [d \in Constraint |-> [s \in Seq(V) |-> Diagnosed(d, v, FlattenSeq(s))]]
           body(f) == [d \in Constraint |-> Diagnosed(d, v, FlattenSeq([i \in DOMAIN d.args |-> f[d.args[i]]]))]
<1>1. ASSUME NEW d PROVE Diagnostics(d, v) = (CHOOSE f : f = body(f))[d]
  BY DEF Diagnostics
<1>2. step \in [Constraint -> [Seq(V) -> V]]
  <2>1. ASSUME NEW d \in Constraint, NEW s \in Seq(V)
        PROVE  Diagnosed(d, v, FlattenSeq(s)) \in V
    BY FlattenIs, DiagnosedIn
  <2> HIDE DEF V
  <2> QED
    BY <2>1
<1>3. PICK F : Descends(F, V, step)
  <2>1. << >> \in V
    OBVIOUS
  <2> HIDE DEF step, V
  <2> QED
    BY <1>2, <2>1, TreeRecursion
<1> HIDE DEF V
<1>4. ASSUME NEW f \in [Constraint -> V], NEW d \in Constraint
      PROVE  OfArgs(f, d) \in Seq(V)
  <2>1. \A i \in DOMAIN d.args : f[d.args[i]] \in V
    BY ConstraintIs
  <2> QED
    BY <2>1, OfArgsIs
<1>5. F = body(F)
  <2>1. F \in [Constraint -> V]
    BY <1>3 DEF Descends
  <2>2. ASSUME NEW d \in Constraint
        PROVE  F[d] = body(F)[d]
    <3>1. PICK g \in Seq(V) : g = OfArgs(F, d)
      BY <1>4, <2>1
    <3>2. F[d] = Diagnosed(d, v, FlattenSeq(g))
      BY <1>3, <3>1 DEF Descends
    <3> QED
      BY <3>1, <3>2 DEF OfArgs
  <2> HIDE DEF body
  <2>3. body(F) = [d \in Constraint |-> body(F)[d]]
    BY DEF body
  <2>4. F = [d \in Constraint |-> F[d]]
    BY <2>1
  <2> QED
    BY <2>2, <2>3, <2>4
<1>6. PICK r : r = (CHOOSE f : f = body(f)) /\ r = body(r)
  <2> HIDE DEF body
  <2> QED
    BY <1>5
<1>7. ASSUME NEW d \in Constraint
      PROVE  r[d] = Diagnosed(d, v, FlattenSeq(OfArgs(r, d)))
  BY <1>6 DEF OfArgs
<1>8. [i \in DOMAIN c.args |-> r[c.args[i]]] = [i \in DOMAIN c.args |-> Diagnostics(c.args[i], v)]
  <2> HIDE DEF body
  <2>1. ASSUME NEW d PROVE Diagnostics(d, v) = r[d]
    BY <1>1, <1>6
  <2> QED
    BY <2>1
<1>9. Diagnostics(c, v) = r[c]
  <2> HIDE DEF body
  <2> QED
    BY <1>1, <1>6
<1>10. r[c] \in V
  <2> DEFINE P == {d \in Constraint : r[d] \in V}
  <2>1. ASSUME NEW d \in Constraint, \A i \in DOMAIN d.args : d.args[i] \in P
        PROVE  d \in P
    <3>1. \A i \in DOMAIN d.args : r[d.args[i]] \in V
      BY <2>1
    <3>2. OfArgs(r, d) \in Seq(V)
      BY <3>1, OfArgsIs
    <3>3. r[d] \in V
      BY <1>7, <3>2, FlattenIs, DiagnosedIn DEF V
    <3> QED
      BY <3>3
  <2>2. P \in SUBSET Constraint
    OBVIOUS
  <2> HIDE DEF P
  <2>3. P = Constraint
    BY <2>1, <2>2, TreeInduction
  <2> QED
    BY <2>3 DEF P
<1> QED
  BY <1>7, <1>8, <1>9, <1>10 DEF OfArgs, V
----------------------------------------------------------------------------
(* Descriptors.                                                            *)

\* An enum has literals, and those of a numeric one have no letters.
EnumFast(d) ==
  /\ d.expect \in {"string", "int", "float"}
  /\ d.enums # << >> /\ EnumStrings(d) \in Seq(Seq(Letter))
  /\ d.expect # "string" => \A i \in DOMAIN d.enums : d.enums[i].str = << >>

ScalarFast(d) ==
  /\ d.kind \in {"none", "type", "regex", "range", "enum"}
  /\ IF d.kind = "enum" THEN EnumFast(d) ELSE d.enums = << >>

FastOK(d) ==
  IF d.kind = "list" THEN d.enums = << >> /\ ScalarFast(d.elem[1]) /\ d.elem[1].kind # "none"
  ELSE ScalarFast(d)

LEMMA NoDescriptorIs ==
  ScalarFast(NoDescriptor) /\ NoDescriptor.kind = "none" /\ NoDescriptor.enums = << >>
BY DEF ScalarFast, NoDescriptor

LEMMA EnumOfIs ==
  ASSUME NEW t, NEW lits
  PROVE  EnumOf(t, lits).kind = "enum" /\ EnumOf(t, lits).expect = t /\ EnumOf(t, lits).enums = lits
BY DEF EnumOf, NoDescriptor

LEMMA TypeOnlyIs ==
  ASSUME NEW t
  PROVE  ScalarFast(TypeOnly(t))
<1>1. TypeOnly(t).kind = "type" /\ TypeOnly(t).enums = << >>
  BY DEF TypeOnly, NoDescriptor
<1> QED
  BY <1>1 DEF ScalarFast

LEMMA EvalIs ==
  ASSUME NEW c \in Constraint
  PROVE  Eval(c) \in Constraint
BY FirstArg DEF Eval

\* The literals of an enum.
LEMMA EnumsAre ==
  ASSUME NEW c \in Constraint, NEW kinds, extractEnums(c, kinds) # << >>
  PROVE  /\ extractEnums(c, kinds) \in Seq(Constraint)
         /\ \A i \in DOMAIN extractEnums(c, kinds) : extractEnums(c, kinds)[i].kind \in kinds
BY ConstraintIs DEF extractEnums

LEMMA LettersOf ==
  ASSUME NEW enums \in Seq(Constraint)
  PROVE  [i \in DOMAIN enums |-> enums[i].str] \in Seq(Seq(Letter))
<1>1. PICK n \in Nat : n = Len(enums) /\ DOMAIN enums = 1 .. n
  OBVIOUS
<1>2. \A i \in 1 .. n : enums[i].str \in Seq(Letter)
  BY <1>1, ConstraintIs
<1> QED
  BY <1>1, <1>2

Renumbered(e, n) == [e EXCEPT !.num = n]

LEMMA RenumberedIs ==
  ASSUME NEW e \in Constraint, NEW n
  PROVE  Renumbered(e, n).str = e.str
BY ConstraintIs DEF Renumbered

LEMMA RangeIs ==
  ASSUME NEW c, NEW expect
  PROVE  ScalarFast(RangeOrType(c, expect))
<1>1. extractNumericRange(c, expect) # NoDescriptor =>
        extractNumericRange(c, expect).kind = "range" /\ extractNumericRange(c, expect).enums = << >>
  BY Zenon DEF extractNumericRange, NoDescriptor
<1> QED
  BY <1>1, TypeOnlyIs, NoDescriptorIs DEF RangeOrType, ScalarFast

LEMMA ScalarConstraintIs ==
  ASSUME NEW raw \in Constraint
  PROVE  ScalarFast(extractScalarConstraint(raw))
<1>1. PICK c \in Constraint : c = Eval(raw)
  BY EvalIs
<1>2. ASSUME NEW enums, enums = extractEnums(c, {"string"}), enums # << >>
      PROVE  ScalarFast(EnumOf("string", enums))
  <2>1. enums \in Seq(Constraint)
    BY <1>2, EnumsAre
  <2>2. EnumStrings(EnumOf("string", enums)) \in Seq(Seq(Letter))
    BY <2>1, EnumOfIs, LettersOf DEF EnumStrings
  <2> QED
    BY <1>2, <2>2, EnumOfIs DEF ScalarFast, EnumFast
<1>3. ASSUME NEW enums, enums = extractEnums(c, {"int"}), enums # << >>
      PROVE  ScalarFast(EnumOf("int", enums))
  <2>1. enums \in Seq(Constraint) /\ \A i \in DOMAIN enums : enums[i].kind \in {"int"}
    BY <1>3, EnumsAre
  <2>2. EnumStrings(EnumOf("int", enums)) \in Seq(Seq(Letter))
    BY <2>1, EnumOfIs, LettersOf DEF EnumStrings
  <2>3. \A i \in DOMAIN enums : enums[i] \in Constraint
    BY <2>1
  <2>4. \A i \in DOMAIN enums : enums[i].str = << >>
    BY <2>1, <2>3, ConstraintAssumption
  <2> QED
    BY <1>3, <2>2, <2>4, EnumOfIs DEF ScalarFast, EnumFast
<1>4. ASSUME NEW enums, enums = extractEnums(c, {"int", "float"}), enums # << >>,
             NEW held, held = [i \in DOMAIN enums |-> [enums[i] EXCEPT !.num = numVal(enums[i])]]
      PROVE  ScalarFast(EnumOf("float", held))
  <2>1. enums \in Seq(Constraint) /\ \A i \in DOMAIN enums : enums[i].kind \in {"int", "float"}
    BY <1>4, EnumsAre
  <2>2. \A i \in DOMAIN enums : enums[i] \in Constraint
    BY <2>1
  <2>3. \A i \in DOMAIN enums : enums[i].str = << >>
    BY <2>1, <2>2, ConstraintAssumption
  <2>4. \A i \in DOMAIN enums : held[i].str = << >>
    <3>1. \A i \in DOMAIN enums : held[i] = Renumbered(enums[i], numVal(enums[i]))
      BY <1>4 DEF Renumbered
    <3> QED
      BY <2>2, <2>3, <3>1, RenumberedIs
  <2>5. PICK n \in Nat : n = Len(enums) /\ DOMAIN enums = 1 .. n /\ n # 0
    BY <1>4, <2>1
  <2>6. DOMAIN held = 1 .. n /\ held # << >>
    BY <1>4, <2>5
  <2>7. EnumStrings(EnumOf("float", held)) = [i \in 1 .. n |-> << >>]
    BY <2>4, <2>5, <2>6, EnumOfIs DEF EnumStrings
  <2>8. EnumStrings(EnumOf("float", held)) \in Seq(Seq(Letter))
    <3>0. << >> \in Seq(Letter)
      OBVIOUS
    <3>1. PICK none \in Seq(Letter) : none = << >>
      BY <3>0
    <3>2. PICK S : S = Seq(Letter)
      OBVIOUS
    <3>3. [i \in 1 .. n |-> none] \in Seq(S)
      BY <3>2
    <3> QED
      BY <2>7, <3>1, <3>2, <3>3
  <2> QED
    BY <2>4, <2>5, <2>6, <2>8, EnumOfIs DEF ScalarFast, EnumFast
<1>5. ScalarFast(extractStringConstraint(c))
  <2>1. ASSUME NEW r PROVE ScalarFast([NoDescriptor EXCEPT !.kind = "regex", !.expect = "string", !.regex = r])
    <3>1. /\ [NoDescriptor EXCEPT !.kind = "regex", !.expect = "string", !.regex = r].kind = "regex"
          /\ [NoDescriptor EXCEPT !.kind = "regex", !.expect = "string", !.regex = r].enums = << >>
      BY Zenon DEF NoDescriptor
    <3> QED
      BY <3>1 DEF ScalarFast
  <2> QED
    BY <1>2, <2>1, NoDescriptorIs, TypeOnlyIs DEF extractStringConstraint
<1>6. ScalarFast(extractIntConstraint(c))
  BY <1>3, RangeIs DEF extractIntConstraint
<1>7. ScalarFast(extractFloatConstraint(c))
  BY <1>4, RangeIs DEF extractFloatConstraint
<1>8. ScalarFast(extractNumberConstraint(c))
  BY RangeIs DEF extractNumberConstraint
<1> QED
  BY <1>1, <1>5, <1>6, <1>7, <1>8, NoDescriptorIs, TypeOnlyIs DEF extractScalarConstraint

\* What New compiles is a descriptor.
LEMMA FastConstraintIs ==
  ASSUME NEW raw \in Constraint
  PROVE  FastOK(extractFastConstraint(raw))
<1>1. PICK c \in Constraint : c = Eval(raw)
  BY EvalIs
<1>2. ASSUME NEW d, ScalarFast(d) PROVE FastOK(d)
  BY <1>2 DEF FastOK, ScalarFast
<1>3. ASSUME c.form = "list"
      PROVE  FastOK(extractListConstraint(c, raw, extractScalarConstraint(c.args[1])))
  <2>1. PICK elem : elem = extractScalarConstraint(c.args[1]) /\ ScalarFast(elem)
    BY <1>3, FirstArg, ScalarConstraintIs
  <2>2. PICK d : d = [NoDescriptor EXCEPT !.kind = "list", !.elem = <<elem>>]
    OBVIOUS
  <2>3. d.kind = "list" /\ d.elem = <<elem>> /\ d.enums = << >>
    BY <2>2, Zenon DEF NoDescriptor
  <2>4. elem.kind # "none" => FastOK(d)
    BY <2>1, <2>3 DEF FastOK
  <2>5. FastOK(NoDescriptor)
    BY <1>2, NoDescriptorIs
  <2> QED
    BY <2>1, <2>2, <2>4, <2>5 DEF extractListConstraint
<1> QED
  BY <1>1, <1>2, <1>3, ScalarConstraintIs DEF extractFastConstraint
----------------------------------------------------------------------------
(* Verdicts and errors.                                                    *)

\* What a verdict against a value says, and when there is none on a string.
Condemns(w, d, v) ==
  /\ w.handled /\ ~w.valid =>
       /\ w.code \in {"E1T01", "E1F01", "E1R01", "E1E01"}
       /\ w.code # "E1E01" => w.suggestion = << >>
       /\ w.code = "E1E01" =>
            /\ d.kind = "enum"
            /\ w.suggestion = IF IsString(v) THEN suggestClosest(v.s, EnumStrings(d)) ELSE << >>
  /\ ~w.handled /\ d.kind = "enum" /\ IsString(v) => d.expect = "int"

LEMMA VerdictParts ==
  /\ ~fallbackToCUE.handled
  /\ pass.handled /\ pass.valid
  /\ \A code : fail(code).handled /\ ~fail(code).valid /\ fail(code).code = code /\ fail(code).suggestion = << >>
  /\ \A op, n : /\ outOfBound(op, n).handled /\ ~outOfBound(op, n).valid
                /\ outOfBound(op, n).code = "E1R01" /\ outOfBound(op, n).suggestion = << >>
  /\ \A s : failEnum(s).handled /\ ~failEnum(s).valid /\ failEnum(s).code = "E1E01" /\ failEnum(s).suggestion = s
BY DEF fallbackToCUE, pass, fail, outOfBound, failEnum, Verdict

\* Not an enum's verdict.
Plainly(w) == w.handled /\ ~w.valid => w.code \in {"E1T01", "E1F01", "E1R01"} /\ w.suggestion = << >>

LEMMA VerdictIs ==
  ASSUME NEW d, ScalarFast(d), d.kind # "none", NEW v
  PROVE  Condemns(validateFast(d, v), d, v)
<1>1. Plainly(fallbackToCUE) /\ Plainly(pass)
  BY VerdictParts DEF Plainly
<1>2. \A code \in {"E1T01", "E1F01", "E1R01"} : Plainly(fail(code))
  BY VerdictParts DEF Plainly
<1>3. \A op, n : Plainly(outOfBound(op, n))
  BY VerdictParts DEF Plainly
<1>4. Plainly(validateFiniteFloat(v))
  BY <1>1, <1>2 DEF validateFiniteFloat
<1>5. Plainly(validateFastIntType(v))
  BY <1>1, <1>2 DEF validateFastIntType
<1>6. \A n : Plainly(WithinRange(d, n))
  BY <1>1, <1>3 DEF WithinRange
<1>7. CASE d.kind = "type"
  <2>1. Plainly(validateFastType(d, v))
    BY <1>1, <1>2, <1>4, <1>5 DEF validateFastType, validateFastFloatType, validateFastNumberType
  <2>2. validateFast(d, v) = validateFastType(d, v)
    BY <1>7 DEF validateFast
  <2> QED
    BY <1>7, <2>1, <2>2 DEF Plainly, Condemns
<1>8. CASE d.kind = "regex"
  <2>1. Plainly(validateFastRegex(d, v))
    BY <1>1, <1>2 DEF validateFastRegex
  <2>2. validateFast(d, v) = validateFastRegex(d, v)
    BY <1>8 DEF validateFast
  <2> QED
    BY <1>8, <2>1, <2>2 DEF Plainly, Condemns
<1>9. CASE d.kind = "range"
  <2>1. Plainly(validateFloatRange(d, v))
    BY <1>1, <1>2, <1>4, <1>6 DEF validateFloatRange
  <2>2. Plainly(validateFastRange(d, v))
    BY <1>5, <1>6, <2>1 DEF validateFastRange
  <2>3. validateFast(d, v) = validateFastRange(d, v)
    BY <1>9 DEF validateFast
  <2> QED
    BY <1>9, <2>2, <2>3 DEF Plainly, Condemns
<1>10. CASE d.kind = "enum"
  <2>1. PICK w : w = validateFastEnum(d, v)
    OBVIOUS
  <2>2. validateFast(d, v) = w
    BY <1>10, <2>1 DEF validateFast
  <2>3. d.expect \in {"string", "int", "float"}
    BY <1>10 DEF ScalarFast, EnumFast
  <2>4. CASE d.expect = "string"
    <3>1. w = IF ~IsString(v) THEN fail("E1T01")
              ELSE IF InEnum(d, v, v.n) THEN pass
              ELSE failEnum(suggestClosest(v.s, EnumStrings(d)))
      BY <2>1, <2>4 DEF validateFastEnum
    <3> QED
      BY <1>10, <2>2, <2>4, <3>1, VerdictParts DEF Condemns
  <2>5. CASE d.expect = "int"
    <3>1. w = IF ~IsSigned(v) THEN validateFastIntType(v)
              ELSE IF InEnum(d, v, v.n) THEN pass ELSE failEnum(<< >>)
      BY <2>1, <2>5 DEF validateFastEnum
    <3>2. IsSigned(v) => ~IsString(v)
      BY DEF IsSigned, IsString
    <3> QED
      BY <1>5, <1>10, <2>2, <2>5, <3>1, <3>2, VerdictParts DEF Condemns, Plainly
  <2>6. CASE d.expect = "float"
    <3>1. w = IF v.go # "float" THEN fail("E1T01")
              ELSE IF InEnum(d, v, ToFloat(v.n)) THEN pass ELSE failEnum(<< >>)
      BY <2>1, <2>6 DEF validateFastEnum
    <3>2. v.go = "float" => ~IsString(v)
      BY DEF IsString
    <3> QED
      BY <1>10, <2>2, <2>6, <3>1, <3>2, VerdictParts DEF Condemns
  <2> QED
    BY <2>3, <2>4, <2>5, <2>6
<1> QED
  BY <1>7, <1>8, <1>9, <1>10 DEF ScalarFast

\* The value an error about a value v is about.
OffenderOf(v, e) == IF e.path.index = 0 THEN v ELSE v.items[e.path.index]

\* An error about the value v.
Sound(e, v) ==
  /\ e = [code |-> e.code, path |-> e.path, fieldType |-> e.fieldType,
          bound |-> e.bound, options |-> e.options, suggestion |-> e.suggestion]
  /\ e.code \in ErrorCode
  /\ e.path = NoPath <=> e.code = "E0C01"
  /\ e.suggestion # << >> => e.code = "E1E01" /\ e.options # << >>
  /\ e.code = "E1E01" /\ e.options # << >> /\ IsString(OffenderOf(v, e)) =>
       e.suggestion = NearestTo(OffenderOf(v, e).s, [i \in DOMAIN e.options |-> e.options[i].str])

\* A sequence, whatever its elements.
IsSeq(s) == Len(s) \in Nat /\ s = [k \in 1 .. Len(s) |-> s[k]]

AllSound(es, v) == IsSeq(es) /\ \A k \in DOMAIN es : Sound(es[k], v)

\* An error with its structured fields.
Structured(code, path, fieldType, bound, options, suggestion) ==
  [code |-> code, path |-> path, fieldType |-> fieldType,
   bound |-> bound, options |-> options, suggestion |-> suggestion]

LEMMA AttachedIs ==
  ASSUME NEW code, NEW path, NEW fieldType, NEW bound, NEW suggestion, NEW d,
         NEW e, e = Structured(code, path, fieldType, << >>, << >>, suggestion)
  PROVE  attachStructuredFields(e, d, bound) =
           Structured(code, path, fieldType, IF code = "E1R01" THEN bound ELSE << >>,
                      IF code = "E1E01" THEN d.enums ELSE << >>, suggestion)
<1>1. [e EXCEPT !.options = d.enums] = Structured(code, path, fieldType, << >>, d.enums, suggestion)
  BY DEF Structured
<1>2. [e EXCEPT !.bound = bound] = Structured(code, path, fieldType, bound, << >>, suggestion)
  BY DEF Structured
<1>3. e.code = code /\ e.options = << >>
  BY DEF Structured
<1>4. CASE code = "E1E01"
  BY <1>1, <1>3, <1>4 DEF attachStructuredFields, enumOptionsOf
<1>5. CASE code = "E1R01"
  <2>1. code # "E1E01" /\ e.code = "E1R01"
    BY <1>3, <1>5
  <2>2. attachStructuredFields(e, d, bound) = [e EXCEPT !.bound = bound]
    BY <2>1 DEF attachStructuredFields
  <2> QED
    BY <1>2, <1>5, <2>1, <2>2
<1>6. CASE code \notin {"E1E01", "E1R01"}
  BY <1>3, <1>6 DEF attachStructuredFields
<1> QED
  BY <1>4, <1>5, <1>6

LEMMA ErrorAtIs ==
  ASSUME NEW code, NEW path, NEW fieldType, NEW s
  PROVE  /\ ErrorAt(code, path, fieldType) = Structured(code, path, fieldType, << >>, << >>, << >>)
         /\ [ErrorAt(code, path, fieldType) EXCEPT !.suggestion = s] =
              Structured(code, path, fieldType, << >>, << >>, s)
BY DEF ErrorAt, Structured

LEMMA StructuredIs ==
  ASSUME NEW code, NEW path, NEW fieldType, NEW bound, NEW options, NEW suggestion, NEW e,
         e = Structured(code, path, fieldType, bound, options, suggestion)
  PROVE  /\ e.code = code /\ e.path = path /\ e.options = options /\ e.suggestion = suggestion
         /\ e = [code |-> e.code, path |-> e.path, fieldType |-> e.fieldType,
                 bound |-> e.bound, options |-> e.options, suggestion |-> e.suggestion]
BY DEF Structured

\* The path of a field, or of one of its elements.
LEMMA PathIs ==
  ASSUME NEW i
  PROVE  /\ FieldPath # NoPath /\ FieldPath.index = 0
         /\ indexedPath(FieldPath, i) # NoPath /\ indexedPath(FieldPath, i).index = i
<1>1. indexedPath(FieldPath, i) = [name |-> "f", index |-> i]
  BY DEF indexedPath, FieldPath
<1>2. indexedPath(FieldPath, i).name = "f" /\ indexedPath(FieldPath, i).index = i
  BY <1>1
<1>3. FieldPath.name = "f" /\ FieldPath.index = 0 /\ NoPath.name = ""
  BY DEF FieldPath, NoPath
<1> QED
  BY <1>2, <1>3

\* An error made of a fast verdict.
LEMMA FastErrorIs ==
  ASSUME NEW d, ScalarFast(d), NEW x \in Value, NEW v, NEW path, path # NoPath,
         NEW w, w = validateFast(d, x), w.handled, ~w.valid, d.kind # "none",
         IF path.index = 0 THEN v = x ELSE v.items[path.index] = x
  PROVE  Sound(FastError(w, path, d), v)
<1>1. Condemns(w, d, x)
  BY VerdictIs
<1>2. PICK e : e = FastError(w, path, d)
  OBVIOUS
<1>3. e = Structured(w.code, path, FieldType, IF w.code = "E1R01" THEN w.bound ELSE << >>,
                     IF w.code = "E1E01" THEN d.enums ELSE << >>, w.suggestion)
  <2>1. PICK plain : plain = Structured(w.code, path, FieldType, << >>, << >>, w.suggestion)
    OBVIOUS
  <2>2. e = attachStructuredFields(plain, d, w.bound)
    BY <1>2, <2>1, ErrorAtIs DEF FastError
  <2> QED
    BY <2>1, <2>2, AttachedIs
<1>4. /\ e.code = w.code /\ e.path = path /\ e.suggestion = w.suggestion
      /\ e.options = IF w.code = "E1E01" THEN d.enums ELSE << >>
      /\ e = [code |-> e.code, path |-> e.path, fieldType |-> e.fieldType,
              bound |-> e.bound, options |-> e.options, suggestion |-> e.suggestion]
  BY <1>3, StructuredIs
<1>5. e.code \in ErrorCode /\ e.code # "E0C01"
  BY <1>1, <1>4 DEF Condemns, ErrorCode
<1>6. OffenderOf(v, e) = x
  BY <1>4 DEF OffenderOf
<1>7. ASSUME e.code = "E1E01"
      PROVE  /\ e.options # << >>
             /\ IsString(x) => e.suggestion = NearestTo(x.s, [i \in DOMAIN e.options |-> e.options[i].str])
  <2>1. d.kind = "enum" /\ EnumFast(d) /\ e.options = d.enums
    BY <1>1, <1>4, <1>7 DEF Condemns, ScalarFast
  <2>2. d.enums # << >> /\ EnumStrings(d) \in Seq(Seq(Letter))
    BY <2>1 DEF EnumFast
  <2>3. x.s \in Seq(Letter)
    BY ValueAssumption
  <2>4. IsString(x) => e.suggestion = suggestClosest(x.s, EnumStrings(d))
    BY <1>1, <1>4, <1>7 DEF Condemns
  <2>5. suggestClosest(x.s, EnumStrings(d)) = NearestTo(x.s, EnumStrings(d))
    BY <2>2, <2>3, NearestSuggested
  <2>6. EnumStrings(d) = [i \in DOMAIN e.options |-> e.options[i].str]
    BY <2>1 DEF EnumStrings
  <2> QED
    BY <2>1, <2>2, <2>4, <2>5, <2>6
<1>8. e.code # "E1E01" => e.suggestion = << >>
  BY <1>1, <1>4 DEF Condemns
<1>9. Sound(e, v)
  BY <1>4, <1>5, <1>6, <1>7, <1>8 DEF Sound
<1> QED
  BY <1>2, <1>9
----------------------------------------------------------------------------
(* The errors CUE's diagnostics become.                                    *)

LEMMA NothingNear ==
  ASSUME NEW s \in Seq(Letter), NEW candidates, \A i \in DOMAIN candidates : candidates[i] = << >>
  PROVE  NearestTo(s, candidates) = << >>
<1>1. << >> \in Seq(Letter) /\ Len(s) \in Nat
  OBVIOUS
<1>2. Distance(s, << >>) = levenshteinFold(s, << >>)
  BY <1>1, RollingRowIsDistance
<1>3. levenshteinFold(s, << >>) = Len(s)
  BY DEF levenshteinFold
<1>4. ~IsNear(s, << >>)
  BY <1>1, <1>2, <1>3 DEF IsNear
<1>5. {i \in DOMAIN candidates : IsNear(s, candidates[i])} = {}
  BY <1>4
<1> QED
  BY <1>5 DEF NearestTo

LEMMA ClassifiedIs ==
  ASSUME NEW diag
  PROVE  classifyByFormat(diag) \in {"E1T01", "E1E01", "E1R01", "E1F01", "E1X01"}
BY DEF classifyByFormat

\* An error of a scalar field CUE has decided.
LEMMA FieldErrorIs ==
  ASSUME FastOK(fast), NEW v \in Value, NEW diag,
         fast.kind \notin {"none", "list"} => ~validateFast(fast, v).handled
  PROVE  Sound(recordFieldError(diag), v)
<1>1. PICK e : e = recordFieldError(diag)
  OBVIOUS
<1>2. PICK code \in {"E1T01", "E1E01", "E1R01", "E1F01", "E1X01"} : code = classifyByFormat(diag)
  BY ClassifiedIs
<1>3. e = Structured(code, FieldPath, FieldType, IF code = "E1R01" THEN diag.bound ELSE << >>,
                     IF code = "E1E01" THEN fast.enums ELSE << >>, << >>)
  <2>1. PICK plain : plain = Structured(code, FieldPath, FieldType, << >>, << >>, << >>)
    OBVIOUS
  <2>2. e = attachStructuredFields(plain, fast, diag.bound)
    BY <1>1, <1>2, <2>1, ErrorAtIs DEF recordFieldError
  <2> QED
    BY <2>1, <2>2, AttachedIs
<1>4. /\ e.code = code /\ e.path = FieldPath /\ e.suggestion = << >>
      /\ e.options = IF code = "E1E01" THEN fast.enums ELSE << >>
      /\ e = [code |-> e.code, path |-> e.path, fieldType |-> e.fieldType,
              bound |-> e.bound, options |-> e.options, suggestion |-> e.suggestion]
  BY <1>3, StructuredIs
<1>5. e.code \in ErrorCode /\ e.code # "E0C01"
  BY <1>2, <1>4 DEF ErrorCode
<1>6. e.path # NoPath /\ OffenderOf(v, e) = v
  BY <1>4, PathIs DEF OffenderOf
<1>7. ASSUME e.options # << >>, IsString(v)
      PROVE  << >> = NearestTo(v.s, [i \in DOMAIN e.options |-> e.options[i].str])
  <2>1. fast.enums # << >> /\ e.options = fast.enums
    BY <1>4, <1>7
  <2>2. fast.kind = "enum" /\ ScalarFast(fast) /\ EnumFast(fast)
    BY <2>1 DEF FastOK, ScalarFast
  <2>3. ~validateFast(fast, v).handled
    BY <2>2
  <2>4. fast.expect = "int"
    BY <1>7, <2>2, <2>3, VerdictIs DEF Condemns
  <2>5. \A i \in DOMAIN fast.enums : fast.enums[i].str = << >>
    BY <2>2, <2>4 DEF EnumFast
  <2>6. v.s \in Seq(Letter)
    BY ValueAssumption
  <2>7. PICK strs : strs = [i \in DOMAIN e.options |-> e.options[i].str]
    OBVIOUS
  <2>8. \A i \in DOMAIN strs : strs[i] = << >>
    BY <2>1, <2>5, <2>7
  <2> QED
    BY <2>6, <2>7, <2>8, NothingNear
<1>8. Sound(e, v)
  BY <1>4, <1>5, <1>6, <1>7 DEF Sound
<1> QED
  BY <1>1, <1>8

NoType == ""

\* A diagnostic beside the error made of it.
CollectedOK(x, v) ==
  \E index \in 0 .. Len(v.items), code \in ErrorCode \ {"E0C01"} :
    /\ x.error = Structured(code, indexedPath(FieldPath, index), NoType, << >>, << >>, << >>)
    /\ x.diag \in DiagnosticIn
    /\ index = 0 => x.diag.format \in {"summary", "other"}

LEMMA FinishIs ==
  ASSUME NEW x, NEW v, CollectedOK(x, v)
  PROVE  Sound(Finish(x), v)
<1>1. PICK index \in 0 .. Len(v.items), code \in ErrorCode \ {"E0C01"} :
        x.error = Structured(code, indexedPath(FieldPath, index), NoType, << >>, << >>, << >>)
  BY DEF CollectedOK
<1>2. PICK e : e = Finish(x)
  OBVIOUS
<1>3. PICK path : path = indexedPath(FieldPath, index) /\ path # NoPath
  BY PathIs
<1>4. e = Structured(code, path, NoType, IF code = "E1R01" THEN x.diag.bound ELSE << >>,
                     IF code = "E1E01" THEN NoDescriptor.enums ELSE << >>, << >>)
  BY <1>1, <1>2, <1>3, AttachedIs DEF Finish
<1>5. e = Structured(code, path, NoType, IF code = "E1R01" THEN x.diag.bound ELSE << >>, << >>, << >>)
  BY <1>4, NoDescriptorIs
<1>6. /\ e.code = code /\ e.path = path /\ e.suggestion = << >> /\ e.options = << >>
      /\ e = [code |-> e.code, path |-> e.path, fieldType |-> e.fieldType,
              bound |-> e.bound, options |-> e.options, suggestion |-> e.suggestion]
  BY <1>5, StructuredIs
<1>7. Sound(e, v)
  BY <1>3, <1>6 DEF Sound
<1> QED
  BY <1>2, <1>7

Revised(e, options, suggestion) ==
  [e EXCEPT !.code = "E1E01", !.options = options, !.suggestion = suggestion]

LEMMA WithCode ==
  ASSUME NEW code, NEW path, NEW fieldType, NEW bound, NEW options, NEW suggestion, NEW z
  PROVE  [Structured(code, path, fieldType, bound, options, suggestion) EXCEPT !.code = z]
           = Structured(z, path, fieldType, bound, options, suggestion)
BY DEF Structured

LEMMA WithOptions ==
  ASSUME NEW code, NEW path, NEW fieldType, NEW bound, NEW options, NEW suggestion, NEW z
  PROVE  [Structured(code, path, fieldType, bound, options, suggestion) EXCEPT !.options = z]
           = Structured(code, path, fieldType, bound, z, suggestion)
BY DEF Structured

LEMMA WithSuggestion ==
  ASSUME NEW code, NEW path, NEW fieldType, NEW bound, NEW options, NEW suggestion, NEW z
  PROVE  [Structured(code, path, fieldType, bound, options, suggestion) EXCEPT !.suggestion = z]
           = Structured(code, path, fieldType, bound, options, z)
BY DEF Structured

LEMMA RevisedIs ==
  ASSUME NEW code, NEW path, NEW fieldType, NEW bound, NEW options, NEW suggestion, NEW e,
         e = Structured(code, path, fieldType, bound, << >>, << >>)
  PROVE  Revised(e, options, suggestion) = Structured("E1E01", path, fieldType, bound, options, suggestion)
<1>1. PICK a : a = [e EXCEPT !.code = "E1E01"]
  OBVIOUS
<1>2. PICK b : b = [a EXCEPT !.options = options]
  OBVIOUS
<1>3. PICK c : c = [b EXCEPT !.suggestion = suggestion]
  OBVIOUS
<1>4. Revised(e, options, suggestion) = [[[e EXCEPT !.code = "E1E01"] EXCEPT !.options = options] EXCEPT !.suggestion = suggestion]
  BY Zenon DEF Revised
<1>5. Revised(e, options, suggestion) = c
  BY <1>1, <1>2, <1>3, <1>4
<1>6. PICK k : k = "E1E01"
  OBVIOUS
<1>7. a = Structured(k, path, fieldType, bound, << >>, << >>)
  BY <1>1, <1>6, WithCode
<1>8. b = Structured(k, path, fieldType, bound, options, << >>)
  BY <1>2, <1>7, WithOptions
<1>9. c = Structured(k, path, fieldType, bound, options, suggestion)
  BY <1>3, <1>8, WithSuggestion
<1> QED
  BY <1>5, <1>6, <1>9

\* The one error of a failed disjunction.
LEMMA MergedIs ==
  ASSUME NEW v \in Value, NEW group, NEW m \in Nat, DOMAIN group = 1 .. m, m # 0,
         Mergeable(group), NEW path,
         \A k \in 1 .. m : CollectedOK(group[k], v) /\ group[k].error.path = path
  PROVE  Sound(mergeDisjunctionGroup(group, v.items[path.index]), v)
<1>1. PICK index \in 0 .. Len(v.items), code \in ErrorCode :
        group[1].error = Structured(code, indexedPath(FieldPath, index), NoType, << >>, << >>, << >>)
  BY DEF CollectedOK
<1>2. path = indexedPath(FieldPath, index) /\ path # NoPath /\ path.index = index
  <2>1. group[1].error.path = indexedPath(FieldPath, index)
    BY <1>1, StructuredIs
  <2> QED
    BY <2>1, PathIs
<1>3. index # 0
  <2>1. PICK k \in 1 .. m : group[k].diag.format \in {"mismatch", "conflict"}
    BY DEF Mergeable
  <2>2. PICK i \in 0 .. Len(v.items), c \in ErrorCode :
          /\ group[k].error = Structured(c, indexedPath(FieldPath, i), NoType, << >>, << >>, << >>)
          /\ i = 0 => group[k].diag.format \in {"summary", "other"}
    BY <2>1 DEF CollectedOK
  <2>3. i # 0
    BY <2>1, <2>2
  <2>4. group[k].error.path = indexedPath(FieldPath, i)
    BY <2>2, StructuredIs
  <2> QED
    BY <1>2, <2>3, <2>4, PathIs
<1>4. PICK input \in Value : input = v.items[path.index]
  <2>1. v.items \in Seq(Value)
    BY ValueAssumption
  <2>2. index \in 1 .. Len(v.items)
    BY <1>1, <1>3, <2>1
  <2> QED
    BY <1>2, <2>1, <2>2
<1>5. PICK candidates \in Seq(Constraint) : candidates = FlattenSeq([i \in DOMAIN group |-> group[i].diag.cand])
  <2>1. \A k \in 1 .. m : group[k].diag \in DiagnosticIn
    BY DEF CollectedOK
  <2>2. \A k \in 1 .. m : group[k].diag.cand \in Seq(Constraint)
    BY <2>1 DEF DiagnosticIn
  <2>3. PICK S : S = Seq(Constraint)
    OBVIOUS
  <2>4. [i \in 1 .. m |-> group[i].diag.cand] \in Seq(S)
    BY <2>2, <2>3
  <2>5. FlattenSeq([i \in 1 .. m |-> group[i].diag.cand]) \in Seq(Constraint)
    BY <2>3, <2>4, FlattenIs
  <2> QED
    BY <2>5
<1>6. PICK suggestion : suggestion = suggestBranch(input, candidates)
  OBVIOUS
<1>7. PICK e : e = mergeDisjunctionGroup(group, input)
  OBVIOUS
<1>8. e = Structured("E1E01", path, NoType, << >>, candidates, suggestion)
  <2>1. group[1].error = Structured(code, path, NoType, << >>, << >>, << >>)
    BY <1>1, <1>2
  <2>2. mergeDisjunctionGroup(group, input) =
          Revised(group[1].error, FlattenSeq([i \in DOMAIN group |-> group[i].diag.cand]),
                  suggestBranch(input, FlattenSeq([i \in DOMAIN group |-> group[i].diag.cand])))
    BY Zenon DEF mergeDisjunctionGroup, Revised
  <2>3. mergeDisjunctionGroup(group, input) =
          Structured("E1E01", path, NoType, << >>, FlattenSeq([i \in DOMAIN group |-> group[i].diag.cand]),
                     suggestBranch(input, FlattenSeq([i \in DOMAIN group |-> group[i].diag.cand])))
    BY <2>1, <2>2, RevisedIs
  <2> QED
    BY <1>5, <1>6, <1>7, <2>3
<1>9. /\ e.code = "E1E01" /\ e.path = path /\ e.suggestion = suggestion /\ e.options = candidates
      /\ e = [code |-> e.code, path |-> e.path, fieldType |-> e.fieldType,
              bound |-> e.bound, options |-> e.options, suggestion |-> e.suggestion]
  BY <1>8, StructuredIs
<1>10. OffenderOf(v, e) = input
  BY <1>2, <1>3, <1>4, <1>9 DEF OffenderOf
<1>11. PICK strs : strs = [i \in DOMAIN candidates |-> candidates[i].str] /\ strs \in Seq(Seq(Letter))
  BY LettersOf
<1>12. suggestClosest(input.s, strs) = NearestTo(input.s, strs)
  BY <1>11, NearestSuggested, ValueAssumption
<1>13. suggestion = IF IsString(input) THEN NearestTo(input.s, strs) ELSE << >>
  BY <1>6, <1>11, <1>12 DEF suggestBranch
<1>14. suggestion # << >> => candidates # << >>
  <2>1. SUFFICES ASSUME candidates = << >> PROVE NearestTo(input.s, strs) = << >>
    BY <1>13
  <2>2. DOMAIN strs = {}
    BY <1>11, <2>1
  <2> QED
    BY <2>2, NothingNear, ValueAssumption
<1>15. Sound(e, v)
  BY <1>2, <1>9, <1>10, <1>11, <1>13, <1>14 DEF Sound, ErrorCode
<1> QED
  BY <1>4, <1>7, <1>15
----------------------------------------------------------------------------
(* The diagnostics of a list.                                              *)

\* A finding about an element, or about the list as a whole.
FoundIn(v) ==
  {x \in [index : 0 .. Len(v.items), diag : DiagnosticIn] :
     x.index = 0 => x.diag.format \in {"summary", "other"}}

ListForm == {"and", "or", "default", "list", "atLeast", "tuple"}

\* What can be nothing but a list has the form of one.
LEMMA ListFormIs ==
  ASSUME NEW c \in Constraint, Kinds(c) \subseteq {"list"}
  PROVE  /\ c.form \in ListForm
         /\ c.form = "or" => \A i \in DOMAIN c.args : Kinds(c.args[i]) \subseteq {"list"}
<1>1. PICK operands : operands = [i \in DOMAIN c.args |-> Kinds(c.args[i])]
  OBVIOUS
<1>2. Kinds(c) = KindsOver(c, operands)
  BY <1>1, KindsIs
<1>3. c.form \in Form /\ c.kind \in Kind
  BY ConstraintIs
<1>4. c.form \notin {"type", "lit"}
  <2>1. SUFFICES ASSUME c.form \in {"type", "lit"} PROVE FALSE
    OBVIOUS
  <2>2. Kinds(c) = BasicKinds(c)
    BY <1>2, <2>1 DEF KindsOver, Comparisons
  <2>3. "int" \in BasicKinds(c) \/ c.kind \in BasicKinds(c)
    BY DEF BasicKinds
  <2> QED
    BY <1>3, <2>2, <2>3 DEF Kind
<1>5. c.form \notin Comparisons \cup {"!="}
  <2>1. SUFFICES ASSUME c.form \in Comparisons \cup {"!="} PROVE FALSE
    OBVIOUS
  <2>2. Kinds(c) = ComparableKinds(c.args[1])
    BY <1>2, <2>1 DEF KindsOver, Comparisons
  <2>3. ComparableKinds(c.args[1]) # {} /\ ComparableKinds(c.args[1]) \subseteq Kind
    BY <2>1, FirstArg, ComparableIs DEF Comparisons
  <2> QED
    BY <2>2, <2>3 DEF Kind
<1>6. c.form \notin {"=~", "call"}
  <2>1. SUFFICES ASSUME c.form \in {"=~", "call"} PROVE FALSE
    OBVIOUS
  <2>2. Kinds(c) = {"string"}
    BY <1>2, <2>1 DEF KindsOver, Comparisons
  <2> QED
    BY <2>2
<1>7. ASSUME c.form = "or", NEW i \in DOMAIN c.args
      PROVE  Kinds(c.args[i]) \subseteq {"list"}
  <2>1. Kinds(c) = UNION {operands[j] : j \in DOMAIN operands}
    BY <1>2, <1>7 DEF KindsOver, Comparisons
  <2>2. i \in DOMAIN operands /\ operands[i] = Kinds(c.args[i])
    BY <1>1
  <2>3. operands[i] \subseteq Kinds(c)
    BY <2>1, <2>2
  <2> QED
    BY <2>2, <2>3
<1> QED
  BY <1>3, <1>4, <1>5, <1>6, <1>7 DEF Form, ListForm

LEMMA ItemsAre ==
  ASSUME NEW v \in Value
  PROVE  /\ v.items \in Seq(Value) /\ Len(v.items) \in Nat /\ DOMAIN v.items = 1 .. Len(v.items)
         /\ \A i \in DOMAIN v.items : v.items[i] \in Value
<1>1. v.items \in Seq(Value)
  BY ValueAssumption
<1> QED
  BY <1>1

\* The element of a list has a constraint.
LEMMA ElementIs ==
  ASSUME NEW c \in Constraint, c.form \in ListForm, NEW v \in Value, NEW i \in DOMAIN v.items,
         c.form = "tuple" => Len(v.items) = Len(c.args)
  PROVE  ElementConstraint(c, i) \in Constraint
<1>1. CASE c.form = "tuple"
  <2>1. i \in DOMAIN c.args
    BY <1>1, ItemsAre, ConstraintIs
  <2> QED
    BY <1>1, <2>1, ConstraintIs DEF ElementConstraint
<1>2. CASE c.form # "tuple"
  <2>1. c.form \notin {"type", "lit", "=~", "call", "tuple"}
    BY <1>2 DEF ListForm
  <2> QED
    BY <1>2, <2>1, FirstArg DEF ElementConstraint
<1> QED
  BY <1>1, <1>2

LEMMA IndexedIs ==
  ASSUME NEW v \in Value, NEW i \in 0 .. Len(v.items), NEW ds \in Seq(DiagnosticIn),
         i = 0 => \A k \in DOMAIN ds : ds[k].format \in {"summary", "other"}
  PROVE  Indexed(i, ds) \in Seq(FoundIn(v))
<1>1. PICK n \in Nat : n = Len(ds) /\ DOMAIN ds = 1 .. n
  OBVIOUS
<1>2. ASSUME NEW k \in 1 .. n
      PROVE  [index |-> i, diag |-> ds[k]] \in FoundIn(v)
  <2>1. PICK d \in DiagnosticIn : d = ds[k]
    BY <1>1
  <2>2. [index |-> i, diag |-> d] \in [index : 0 .. Len(v.items), diag : DiagnosticIn]
    OBVIOUS
  <2>3. i = 0 => d.format \in {"summary", "other"}
    BY <1>1, <2>1
  <2> QED
    BY <2>1, <2>2, <2>3 DEF FoundIn
<1>3. PICK S : S = FoundIn(v)
  OBVIOUS
<1>4. Indexed(i, ds) \in [1 .. n -> S]
  BY <1>1, <1>2, <1>3 DEF Indexed
<1>5. Indexed(i, ds) \in Seq(S)
  BY <1>4
<1> QED
  BY <1>3, <1>5

LEMMA OfListIs ==
  ASSUME NEW v \in Value, NEW format \in {"summary", "other"}
  PROVE  OfList(format) \in Seq(FoundIn(v))
<1>1. PICK d : d = Diagnostic(format, << >>, << >>)
  OBVIOUS
<1>2. d.format = format
  BY <1>1 DEF Diagnostic
<1>3. d \in DiagnosticIn
  <2>1. format \in Format /\ << >> \in BoundNamed /\ << >> \in Seq(Constraint)
    BY DEF Format, BoundNamed
  <2> QED
    BY <1>1, <2>1 DEF Diagnostic, DiagnosticIn
<1>4. PICK ds \in Seq(DiagnosticIn) : ds = <<d>> /\ \A k \in DOMAIN ds : ds[k].format \in {"summary", "other"}
  <2> HIDE DEF DiagnosticIn
  <2>1. <<d>> \in Seq(DiagnosticIn)
    BY <1>3
  <2>2. \A k \in DOMAIN <<d>> : <<d>>[k] = d
    OBVIOUS
  <2> QED
    BY <1>2, <2>1, <2>2
<1>5. 0 \in 0 .. Len(v.items)
  BY ItemsAre
<1>6. Indexed(0, ds) \in Seq(FoundIn(v))
  BY <1>4, <1>5, IndexedIs
<1> QED
  BY <1>1, <1>4, <1>6 DEF OfList

LEMMA BranchFound ==
  ASSUME NEW c \in Constraint, c.form \in ListForm, NEW v \in Value
  PROVE  BranchDiagnostics(c, v) \in Seq(FoundIn(v))
<1>1. PICK S : S = FoundIn(v)
  OBVIOUS
<1>2. PICK each : each = [i \in DOMAIN v.items |-> Indexed(i, Diagnostics(ElementConstraint(c, i), v.items[i]))]
  OBVIOUS
<1>3. PICK other : other = OfList("other") /\ other \in Seq(S)
  BY <1>1, OfListIs
<1>4. BranchDiagnostics(c, v) =
        IF c.form = "tuple" /\ Len(v.items) # Len(c.args) THEN other
        ELSE IF c.form = "atLeast" /\ Halves(Len(v.items)) < c.num THEN FlattenSeq(each) \o other
        ELSE FlattenSeq(each)
  BY <1>2, <1>3 DEF BranchDiagnostics
<1>5. ASSUME ~(c.form = "tuple" /\ Len(v.items) # Len(c.args))
      PROVE  FlattenSeq(each) \in Seq(S)
  <2>1. PICK n \in Nat : n = Len(v.items) /\ DOMAIN v.items = 1 .. n
    BY ItemsAre
  <2>2. ASSUME NEW i \in 1 .. n
        PROVE  each[i] \in Seq(S)
    <3>1. PICK d \in Constraint : d = ElementConstraint(c, i)
      BY <1>5, <2>1, ElementIs
    <3>2. PICK x : x = v.items[i]
      OBVIOUS
    <3>3. PICK ds \in Seq(DiagnosticIn) : ds = Diagnostics(d, x)
      BY DiagnosticsIs
    <3>4. i \in 0 .. Len(v.items) /\ i # 0
      BY <2>1
    <3>5. Indexed(i, ds) \in Seq(S)
      BY <1>1, <3>4, IndexedIs
    <3> QED
      BY <1>2, <2>1, <3>1, <3>2, <3>3, <3>5
  <2>3. PICK T : T = Seq(S)
    OBVIOUS
  <2>4. each \in [1 .. n -> T]
    BY <1>2, <2>1, <2>2, <2>3
  <2>5. each \in Seq(T)
    BY <2>4
  <2> QED
    BY <2>3, <2>5, FlattenIs
<1>6. CASE c.form = "tuple" /\ Len(v.items) # Len(c.args)
  BY <1>1, <1>3, <1>4, <1>6
<1>7. CASE ~(c.form = "tuple" /\ Len(v.items) # Len(c.args))
  <2>1. PICK elements \in Seq(S) : elements = FlattenSeq(each)
    BY <1>5, <1>7
  <2>2. elements \o other \in Seq(S)
    BY <1>3
  <2> QED
    BY <1>1, <1>4, <1>7, <2>1, <2>2
<1> QED
  BY <1>6, <1>7

LEMMA ListFound ==
  ASSUME NEW c \in Constraint, Kinds(c) \subseteq {"list"}, NEW v \in Value
  PROVE  ListDiagnostics(c, v) \in Seq(FoundIn(v))
<1>1. PICK S : S = FoundIn(v)
  OBVIOUS
<1>2. CASE c.form # "or"
  BY <1>2, ListFormIs, BranchFound DEF ListDiagnostics
<1>3. CASE c.form = "or"
  <2>1. PICK branches : branches = [i \in DOMAIN c.args |-> BranchDiagnostics(c.args[i], v)]
    OBVIOUS
  <2>2. PICK n \in Nat : n = Len(c.args) /\ DOMAIN c.args = 1 .. n
    BY ConstraintIs
  <2>3. ASSUME NEW i \in 1 .. n
        PROVE  branches[i] \in Seq(S)
    <3>1. PICK d \in Constraint : d = c.args[i] /\ Kinds(d) \subseteq {"list"}
      BY <1>3, <2>2, ListFormIs, ConstraintIs
    <3>2. BranchDiagnostics(d, v) \in Seq(S)
      BY <1>1, <3>1, ListFormIs, BranchFound
    <3> QED
      BY <2>1, <2>2, <3>1, <3>2
  <2>4. PICK T : T = Seq(S)
    OBVIOUS
  <2>5. branches \in [1 .. n -> T]
    BY <2>1, <2>2, <2>3, <2>4
  <2>6. branches \in Seq(T)
    BY <2>5
  <2>7. PICK flat \in Seq(S) : flat = FlattenSeq(branches)
    BY <2>4, <2>6, FlattenIs
  <2>8. PICK summary \in Seq(S) : summary = OfList("summary")
    BY <1>1, OfListIs
  <2>9. summary \o flat \in Seq(S)
    OBVIOUS
  <2> QED
    BY <1>1, <1>3, <2>1, <2>7, <2>8, <2>9 DEF ListDiagnostics
<1> QED
  BY <1>2, <1>3

\* A finding and its error.
LEMMA CollectedIs ==
  ASSUME NEW v, NEW x \in FoundIn(v)
  PROVE  CollectedOK(Collected(x), v)
<1>1. x \in [index : 0 .. Len(v.items), diag : DiagnosticIn] /\ (x.index = 0 => x.diag.format \in {"summary", "other"})
  BY DEF FoundIn
<1>2. PICK index \in 0 .. Len(v.items) : index = x.index
  BY <1>1
<1>3. PICK diag \in DiagnosticIn : diag = x.diag
  BY <1>1
<1>4. PICK code : code = classifyByFormat(diag)
  OBVIOUS
<1>5. PICK kept \in ErrorCode \ {"E0C01"} : kept = IF code = "E1X01" THEN "E1A01" ELSE code
  BY <1>4, ClassifiedIs DEF ErrorCode
<1>6. PICK y : y = Collected(x)
  OBVIOUS
<1>7. y.diag = diag /\ y.error = ErrorAt(kept, indexedPath(FieldPath, index), NoType)
  BY <1>2, <1>3, <1>4, <1>5, <1>6 DEF Collected, NoType
<1>8. y.error = Structured(kept, indexedPath(FieldPath, index), NoType, << >>, << >>, << >>)
  BY <1>7, ErrorAtIs
<1>9. CollectedOK(y, v)
  BY <1>1, <1>2, <1>3, <1>7, <1>8 DEF CollectedOK
<1> QED
  BY <1>6, <1>9
----------------------------------------------------------------------------
(* The errors of a list.                                                   *)

LEMMA OneSound ==
  ASSUME NEW e, NEW v, Sound(e, v)
  PROVE  AllSound(<<e>>, v)
BY DEF AllSound, IsSeq

LEMMA PositionsAre ==
  ASSUME NEW n \in Nat, NEW K, K \subseteq 1 .. n
  PROVE  K \in SUBSET Int /\ IsFiniteSet(K)
<1>1. IsFiniteSet(1 .. n)
  BY FS_Interval
<1>2. IsFiniteSet(K)
  BY <1>1, FS_Subset
<1> QED
  BY <1>2

\* Findings that are all about one path.
IsGroup(group, path, v) ==
  \E m \in Nat \ {0} :
    /\ DOMAIN group = 1 .. m
    /\ \A k \in 1 .. m : CollectedOK(group[k], v) /\ group[k].error.path = path

LEMMA GroupIs ==
  ASSUME NEW v \in Value, NEW collected, NEW n \in Nat,
         \A j \in 1 .. n : CollectedOK(collected[j], v),
         NEW K, K \subseteq 1 .. n, K # {}, NEW path, \A j \in K : collected[j].error.path = path
  PROVE  IsGroup(Selection(collected, K), path, v)
<1>1. K \in SUBSET Int /\ IsFiniteSet(K)
  BY PositionsAre
<1>2. PICK a : a = Ascending(K)
  OBVIOUS
<1>3. PICK m \in Nat : m = Cardinality(K)
  BY <1>1, AscendingOrder
<1>4. /\ DOMAIN a = 1 .. m /\ \A k \in 1 .. m : a[k] \in K
      /\ \A x \in K : \E k \in 1 .. m : a[k] = x
  BY <1>1, <1>2, <1>3, AscendingOrder
<1>5. m # 0
  <2>1. PICK x : x \in K
    OBVIOUS
  <2>2. PICK k \in 1 .. m : a[k] = x
    BY <1>4, <2>1
  <2> QED
    BY <2>2
<1>6. PICK group : group = Selection(collected, K)
  OBVIOUS
<1>7. DOMAIN group = 1 .. m /\ \A k \in 1 .. m : group[k] = collected[a[k]]
  BY <1>2, <1>4, <1>6 DEF Selection
<1>8. ASSUME NEW k \in 1 .. m
      PROVE  CollectedOK(group[k], v) /\ group[k].error.path = path
  <2>1. PICK j \in K : j = a[k] /\ j \in 1 .. n
    BY <1>4
  <2>2. group[k] = collected[j]
    BY <1>7, <2>1
  <2> QED
    BY <2>1, <2>2
<1> QED
  BY <1>5, <1>6, <1>7, <1>8 DEF IsGroup

LEMMA GroupSound ==
  ASSUME NEW v \in Value, NEW group, NEW path, IsGroup(group, path, v)
  PROVE  AllSound(IF Mergeable(group) THEN <<mergeDisjunctionGroup(group, v.items[path.index])>>
                  ELSE [k \in DOMAIN group |-> Finish(group[k])], v)
<1>0. PICK m \in Nat \ {0} : /\ DOMAIN group = 1 .. m
                             /\ \A k \in 1 .. m : CollectedOK(group[k], v) /\ group[k].error.path = path
  BY DEF IsGroup
<1>1. CASE Mergeable(group)
  <2>1. Sound(mergeDisjunctionGroup(group, v.items[path.index]), v)
    BY <1>0, <1>1, MergedIs
  <2> QED
    BY <1>1, <2>1, OneSound
<1>2. CASE ~Mergeable(group)
  <2>1. PICK es : es = [k \in DOMAIN group |-> Finish(group[k])]
    OBVIOUS
  <2>2. \A k \in 1 .. m : es[k] = Finish(group[k]) /\ Sound(es[k], v)
    BY <1>0, <2>1, FinishIs
  <2>3. IsSeq(es) /\ DOMAIN es = 1 .. m
    <3>1. es = [k \in 1 .. m |-> es[k]]
      BY <1>0, <2>1
    <3>2. Len(es) = m
      BY <3>1
    <3> QED
      BY <3>1, <3>2 DEF IsSeq
  <2> QED
    BY <1>2, <2>1, <2>2, <2>3 DEF AllSound
<1> QED
  BY <1>1, <1>2

\* Sequences of errors one after the other.
LEMMA FlattenSound ==
  ASSUME NEW v, NEW m \in Nat, NEW groups, groups = [k \in 1 .. m |-> groups[k]],
         \A k \in 1 .. m : AllSound(groups[k], v)
  PROVE  AllSound(FlattenSeq(groups), v)
<1>1. PICK E : E = UNION {{groups[k][j] : j \in DOMAIN groups[k]} : k \in 1 .. m}
  OBVIOUS
<1>2. \A e \in E : Sound(e, v)
  BY <1>1 DEF AllSound
<1>3. ASSUME NEW k \in 1 .. m
      PROVE  groups[k] \in Seq(E)
  <2>1. PICK g : g = groups[k]
    OBVIOUS
  <2>2. PICK l \in Nat : l = Len(g) /\ g = [j \in 1 .. l |-> g[j]]
    BY <2>1 DEF AllSound, IsSeq
  <2>3. DOMAIN g = 1 .. l
    BY <2>2
  <2>4. \A j \in 1 .. l : g[j] \in E
    BY <1>1, <2>1, <2>3
  <2>5. g \in [1 .. l -> E]
    BY <2>2, <2>4
  <2>6. g \in Seq(E)
    BY <2>5
  <2> QED
    BY <2>1, <2>6
<1>4. PICK S : S = Seq(E)
  OBVIOUS
<1>5. groups \in [1 .. m -> S]
  BY <1>3, <1>4
<1>6. groups \in Seq(S)
  BY <1>5
<1>7. PICK flat \in Seq(E) : flat = FlattenSeq(groups)
  BY <1>4, <1>6, FlattenIs
<1>8. IsSeq(flat) /\ \A k \in DOMAIN flat : flat[k] \in E
  <2>1. Len(flat) \in Nat /\ flat = [k \in 1 .. Len(flat) |-> flat[k]] /\ \A k \in DOMAIN flat : flat[k] \in E
    OBVIOUS
  <2> QED
    BY <2>1 DEF IsSeq
<1> QED
  BY <1>2, <1>7, <1>8 DEF AllSound

LEMMA CollapsedSound ==
  ASSUME NEW v \in Value, NEW collected, NEW n \in Nat, DOMAIN collected = 1 .. n,
         \A j \in 1 .. n : CollectedOK(collected[j], v)
  PROVE  AllSound(collapseDisjunctionErrors(collected, v), v)
<1> DEFINE same(i) == {j \in DOMAIN collected : collected[j].error.path = collected[i].error.path}
           group(i) == Selection(collected, same(i))
           collapsed(i) ==
             IF Mergeable(group(i)) THEN <<mergeDisjunctionGroup(group(i), v.items[collected[i].error.path.index])>>
             ELSE [k \in DOMAIN group(i) |-> Finish(group(i)[k])]
<1>1. PICK firsts : firsts = {i \in DOMAIN collected : \A j \in same(i) : i <= j}
  OBVIOUS
<1>2. PICK a : a = Ascending(firsts)
  OBVIOUS
<1>3. ASSUME NEW i \in 1 .. n
      PROVE  AllSound(collapsed(i), v)
  <2>1. PICK g : g = group(i)
    OBVIOUS
  <2>2. PICK path : path = collected[i].error.path
    OBVIOUS
  <2>3. IsGroup(g, path, v)
    <3>1. PICK K : K = {j \in 1 .. n : collected[j].error.path = path}
      OBVIOUS
    <3>2. K \subseteq 1 .. n /\ K # {} /\ \A j \in K : collected[j].error.path = path
      BY <2>2, <3>1
    <3>3. g = Selection(collected, K)
      BY <2>1, <2>2, <3>1
    <3>4. IsGroup(Selection(collected, K), path, v)
      <4> HIDE DEF same, group, collapsed
      <4> QED
        BY <3>2, GroupIs
    <3> QED
      BY <3>3, <3>4
  <2>4. AllSound(IF Mergeable(g) THEN <<mergeDisjunctionGroup(g, v.items[path.index])>>
                 ELSE [k \in DOMAIN g |-> Finish(g[k])], v)
    BY <2>3, GroupSound
  <2> HIDE DEF group
  <2> QED
    BY <2>1, <2>2, <2>4
<1>4. PICK m \in Nat : DOMAIN a = 1 .. m /\ \A k \in 1 .. m : a[k] \in 1 .. n
  <2>1. firsts \subseteq 1 .. n
    BY <1>1
  <2>2. firsts \in SUBSET Int /\ IsFiniteSet(firsts)
    BY <2>1, PositionsAre
  <2>3. PICK m \in Nat : m = Cardinality(firsts) /\ DOMAIN a = 1 .. m /\ \A k \in 1 .. m : a[k] \in firsts
    BY <1>2, <2>2, AscendingOrder
  <2> QED
    BY <2>1, <2>3
<1>5. collapseDisjunctionErrors(collected, v) = FlattenSeq([k \in DOMAIN a |-> collapsed(a[k])])
  BY <1>1, <1>2 DEF collapseDisjunctionErrors
<1> HIDE DEF collapsed
<1>6. PICK groups : groups = [k \in 1 .. m |-> collapsed(a[k])]
  OBVIOUS
<1>7. \A k \in 1 .. m : groups[k] = collapsed(a[k]) /\ AllSound(groups[k], v)
  BY <1>3, <1>4, <1>6
<1>8. groups = [k \in 1 .. m |-> groups[k]]
  BY <1>6
<1>9. AllSound(FlattenSeq(groups), v)
  BY <1>7, <1>8, FlattenSound
<1> QED
  BY <1>4, <1>5, <1>6, <1>9

LEMMA ListErrorsSound ==
  ASSUME NEW c \in Constraint, Kinds(c) \subseteq {"list"}, NEW v \in Value
  PROVE  AllSound(listErrors(c, v), v)
<1>1. PICK found \in Seq(FoundIn(v)) : found = ListDiagnostics(c, v)
  BY ListFound
<1>2. PICK n \in Nat : DOMAIN found = 1 .. n /\ \A i \in 1 .. n : found[i] \in FoundIn(v)
  BY <1>1
<1>3. PICK collected : collected = [i \in DOMAIN found |-> Collected(found[i])]
  OBVIOUS
<1>4. DOMAIN collected = 1 .. n /\ \A i \in 1 .. n : CollectedOK(collected[i], v)
  BY <1>2, <1>3, CollectedIs
<1>5. AllSound(collapseDisjunctionErrors(collected, v), v)
  BY <1>4, CollapsedSound
<1> QED
  BY <1>1, <1>3, <1>5 DEF listErrors
----------------------------------------------------------------------------
(* The texts of a validated catalog.                                       *)

LEMMA MessageTemplates ==
  ASSUME NEW cat, NEW code
  PROVE  MessageOf(cat, code).template \in TemplatesOf(cat) /\ MessageOf(cat, code).fallback \in TemplatesOf(cat)
<1>1. PICK msg : msg = MessageOf(cat, code)
  OBVIOUS
<1>2. PICK msgs : msgs = {cat.messages[c] : c \in DOMAIN cat.messages} \cup {cat.default}
  OBVIOUS
<1>3. msg \in msgs
  BY <1>1, <1>2 DEF MessageOf
<1>4. TemplatesOf(cat) = {m.template : m \in msgs} \cup {m.fallback : m \in msgs} \cup {cat.suffix}
  BY <1>2 DEF TemplatesOf
<1> QED
  BY <1>1, <1>3, <1>4

\* A sentence of a chain is one of its catalogs' templates.
LEMMA SentenceIs ==
  ASSUME NEW cats, NEW at, NEW e, NEW k, SentencesAt(cats, at, e, k) # {}
  PROVE  \E t \in TemplatesOf(cats[at[k]]) : SentenceAt(cats, at, e, k) = t.wording
<1>1. PICK msg : msg = MessageOf(cats[at[k]], e.code)
  OBVIOUS
<1>2. PICK S : S = SentencesAt(cats, at, e, k)
  OBVIOUS
<1>3. S \subseteq 1 .. 2
  BY <1>2 DEF SentencesAt
<1>4. PICK i \in S : Foremost(S) = i
  <2>1. S \in SUBSET Nat
    BY <1>3
  <2> QED
    BY <1>2, <2>1, ForemostExists
<1>5. SentenceAt(cats, at, e, k) = <<msg.template, msg.fallback>>[i].wording
  BY <1>1, <1>2, <1>4 DEF SentenceAt
<1>6. msg.template \in TemplatesOf(cats[at[k]]) /\ msg.fallback \in TemplatesOf(cats[at[k]])
  BY <1>1, MessageTemplates
<1>7. i = 1 \/ i = 2
  BY <1>3, <1>4
<1>8. CASE i = 1
  BY <1>5, <1>6, <1>8
<1>9. CASE i = 2
  BY <1>5, <1>6, <1>9
<1> QED
  BY <1>7, <1>8, <1>9

\* What Validate has passed never reads like the generic text.
LEMMA WordsIntended ==
  ASSUME NEW cats, NEW root, Named(cats, root), LabelsFinal(cats), Telling(cats),
         ValidateCatalog(cats, root) = "ok",
         NEW C, NEW P, NEW T, NEW B, NEW O, NEW S, NEW e \in ErrorIn(C, P, T, B, O, S),
         e.code \in BuiltinCode, e.path # NoPath
  PROVE  Intended(cats, root, e).wording # Generic.wording
<1>1. PICK at : at = ChainFrom(cats, root) /\ Leads(at, cats, root)
  BY ChainLeads
<1>2. PICK call : call = Calls(cats, root, e)[MaxFallbackDepth]
  OBVIOUS
<1>3. Resolved(call, cats, at, e, MaxFallbackDepth)
  BY <1>1, <1>2, ResolveIs
<1>4. call.answer # Silent
  <2>1. \A c \in DOMAIN cats : \A p \in DOMAIN cats[c].labels : cats[c].labels[p] # NoPath
    BY DEF Telling
  <2>2. resolve(cats, root, e) # Silent
    BY <2>1, ValidatedHasWords
  <2> QED
    BY <1>2, <2>2 DEF resolve
<1>5. PICK foreign : foreign = {j \in 1 .. MaxFallbackDepth : at[j] = "foreign"}
  OBVIOUS
<1>6. Intended(cats, root, e) =
        IF Speakers(cats, at, e) # {} THEN SaidAt(cats, at, e, Foremost(Speakers(cats, at, e)))
        ELSE IF foreign # {} THEN Foreign(ShownAt(cats, at, e, Foremost(foreign) - 1)).text
        ELSE Generic
  BY <1>1, <1>5 DEF Intended, SaidAt
<1>7. CASE Speakers(cats, at, e) # {}
  <2>1. Speakers(cats, at, e) \in SUBSET Nat
    <3>1. 0 .. MaxFallbackDepth - 1 \subseteq Nat
      BY DepthAssumption
    <3> QED
      BY <3>1, SpeakersIs
  <2>2. PICK k \in Speakers(cats, at, e) : Foremost(Speakers(cats, at, e)) = k
    BY <1>7, <2>1, ForemostExists
  <2>3. at[k] \in DOMAIN cats /\ SentencesAt(cats, at, e, k) # {}
    BY <2>2, SpeakersIs
  <2>4. PICK t \in TemplatesOf(cats[at[k]]) : SentenceAt(cats, at, e, k) = t.wording
    BY <2>3, SentenceIs
  <2>5. t.wording # Generic.wording
    BY <2>3, <2>4 DEF Telling
  <2>6. SaidAt(cats, at, e, k).wording = SentenceAt(cats, at, e, k)
    BY DEF SaidAt
  <2> QED
    BY <1>6, <1>7, <2>2, <2>4, <2>5, <2>6
<1>8. CASE Speakers(cats, at, e) = {}
  <2>1. HeardForeign(call.answer, cats, at, e, MaxFallbackDepth)
    BY <1>3, <1>4, <1>8 DEF Resolved, Heard
  <2>2. foreign # {}
    BY <1>5, <2>1 DEF HeardForeign
  <2>3. \A x : Foreign(x).text.wording = "foreign"
    BY DEF Foreign, Says
  <2>4. Generic.wording = "validation failed"
    BY DEF Generic, NoText
  <2>5. Intended(cats, root, e).wording = "foreign"
    BY <1>6, <1>8, <2>2, <2>3
  <2> QED
    BY <2>4, <2>5
<1> QED
  BY <1>7, <1>8

LEMMA AppendIs ==
  ASSUME NEW s, IsSeq(s), NEW x
  PROVE  /\ IsSeq(Append(s, x)) /\ Len(Append(s, x)) = Len(s) + 1
         /\ \A i \in 1 .. Len(s) : Append(s, x)[i] = s[i]
         /\ Append(s, x)[Len(s) + 1] = x
<1>1. PICK n \in Nat : n = Len(s) /\ s = [k \in 1 .. n |-> s[k]]
  BY DEF IsSeq
<1>2. PICK X : X = {s[k] : k \in 1 .. n} \cup {x}
  OBVIOUS
<1>3. s \in [1 .. n -> X] /\ x \in X
  BY <1>1, <1>2
<1>4. s \in Seq(X)
  BY <1>3
<1>5. PICK r \in Seq(X) : r = Append(s, x) /\ Len(r) = n + 1
  <2>1. Append(s, x) \in Seq(X)
    BY <1>3, <1>4
  <2>2. Len(Append(s, x)) = Len(s) + 1
    BY <1>3, <1>4
  <2> QED
    BY <1>1, <2>1, <2>2
<1>6. IsSeq(r)
  <2>1. Len(r) \in Nat /\ r = [k \in 1 .. Len(r) |-> r[k]]
    OBVIOUS
  <2> QED
    BY <2>1 DEF IsSeq
<1>7. (\A i \in 1 .. n : Append(s, x)[i] = s[i]) /\ Append(s, x)[n + 1] = x
  BY <1>1, <1>3, <1>4
<1> QED
  BY <1>1, <1>5, <1>6, <1>7

\* An answer is a text or the end of the program.
LEMMA SaysIs ==
  /\ \A t : Says(t).text = t /\ ~Says(t).panics /\ Says(t) # Panic
  /\ Panic.panics
BY DEF Says, Panic

\* An error about a value is an error.
LEMMA SoundIsError ==
  ASSUME NEW e, NEW v, Sound(e, v)
  PROVE  e \in ErrorIn({e.code}, {e.path}, {e.fieldType}, {e.bound}, {e.options}, {e.suggestion})
<1>1. e = [code |-> e.code, path |-> e.path, fieldType |-> e.fieldType,
           bound |-> e.bound, options |-> e.options, suggestion |-> e.suggestion]
  BY DEF Sound
<1>2. PICK c, p, t, b, o, s : c = e.code /\ p = e.path /\ t = e.fieldType /\ b = e.bound /\ o = e.options /\ s = e.suggestion
  OBVIOUS
<1>3. e = [code |-> c, path |-> p, fieldType |-> t, bound |-> b, options |-> o, suggestion |-> s]
  BY <1>1, <1>2
<1>4. e \in ErrorIn({c}, {p}, {t}, {b}, {o}, {s})
  BY <1>3 DEF ErrorIn
<1> QED
  BY <1>2, <1>4

\* An error with everything a placeholder can name.
WithAll(e, t, b, o, s) == [e EXCEPT !.fieldType = t, !.bound = b, !.options = o, !.suggestion = s]

LEMMA WithAllIs ==
  ASSUME NEW c, NEW p, NEW x, NEW y, NEW e \in ErrorIn({c}, {p}, {x}, {y}, {y}, {y}), NEW t, NEW b, NEW o, NEW s
  PROVE  WithAll(e, t, b, o, s) \in ErrorIn({c}, {p}, {t}, {b}, {o}, {s})
BY DEF ErrorIn, WithAll

\* Validate ends the program only at a nil *Catalog.
LEMMA ProbesEnd ==
  ASSUME NEW cats, NEW root, Named(cats, root), LabelsFinal(cats), ValidateCatalog(cats, root) = "panics"
  PROVE  \E k \in 1 .. MaxFallbackDepth : ChainFrom(cats, root)[k] = "typedNil"
<1>1. PICK e \in Probes : resolve(cats, root, e) = Panic
  BY DEF ValidateCatalog
<1>2. PICK c \in BuiltinCode : e = FurnishedError(c) \/ e = BareError(c)
  BY DEF Probes
<1>3. PICK C, P, T, B, O, S : e \in ErrorIn(C, P, T, B, O, S)
  <2>1. PICK bare : bare = BareError(c)
    OBVIOUS
  <2>2. PICK p, x, y : bare = Structured(c, p, x, y, y, y)
    BY <2>1 DEF BareError, Structured
  <2>3. bare \in ErrorIn({c}, {p}, {x}, {y}, {y}, {y})
    BY <2>2 DEF ErrorIn, Structured
  <2>4. PICK t, b, o, s : FurnishedError(c) = WithAll(bare, t, b, o, s)
    BY <2>1 DEF FurnishedError, WithAll
  <2>5. FurnishedError(c) \in ErrorIn({c}, {p}, {t}, {b}, {o}, {s})
    <3>1. WithAll(bare, t, b, o, s) \in ErrorIn({c}, {p}, {t}, {b}, {o}, {s})
      BY <2>3, WithAllIs
    <3> QED
      BY <2>4, <3>1
  <2> QED
    BY <1>2, <2>1, <2>3, <2>5
<1>4. Localize(cats, root, e) = Panic
  <2>1. Panic # Silent
    BY SaysIs DEF Silent
  <2> QED
    BY <1>1, <2>1 DEF Localize
<1> QED
  BY <1>3, <1>4, LocalizedRight, SaysIs
----------------------------------------------------------------------------
(* What every state of a field satisfies.                                  *)

\* What the stages before the verdict have left as it was.
Unjudged == stage \in {"start", "compiled", "ready", "converted"}

Given ==
  /\ scene \in Scenes /\ data \in Value /\ FastOK(fast)
  /\ checked \in {"no", "ok", "faulty", "panics"}
  /\ checked = "ok" => scene.root # "nil" /\ ValidateCatalog(scene.cats, scene.root) = "ok"

Judgement ==
  /\ Unjudged \/ stage \in {"validated", "panicked"}
  /\ served \in {"", "convert", "fast", "cue"}
  /\ Unjudged => served = "" /\ texts = << >>
  /\ served = "" => errors = << >>
  /\ AllSound(errors, data)

Verdicts == valid = (errors = << >>)

Reading ==
  /\ IsSeq(texts) /\ Len(texts) <= Len(errors)
  /\ \A i \in 1 .. Len(texts) : texts[i] = Intended(scene.cats, Reader(scene), errors[i])
  /\ stage = "panicked" => \E k \in 1 .. MaxFallbackDepth : ChainFrom(scene.cats, Reader(scene))[k] = "typedNil"

ReportInv == Given /\ Judgement /\ Verdicts /\ Reading

----------------------------------------------------------------------------

LEMMA NoErrors ==
  ASSUME NEW v
  PROVE  AllSound(<< >>, v) /\ IsSeq(<< >>) /\ Len(<< >>) = 0
<1>1. IsSeq(<< >>) /\ Len(<< >>) = 0
  BY DEF IsSeq
<1> QED
  BY <1>1 DEF AllSound

LEMMA PlainSound ==
  ASSUME NEW code \in ErrorCode \ {"E1E01"}, NEW path, path = NoPath <=> code = "E0C01",
         NEW fieldType, NEW v
  PROVE  AllSound(<<ErrorAt(code, path, fieldType)>>, v)
<1>1. PICK e : e = ErrorAt(code, path, fieldType)
  OBVIOUS
<1>2. e = Structured(code, path, fieldType, << >>, << >>, << >>)
  BY <1>1, ErrorAtIs
<1>3. /\ e.code = code /\ e.path = path /\ e.suggestion = << >>
      /\ e = [code |-> e.code, path |-> e.path, fieldType |-> e.fieldType,
              bound |-> e.bound, options |-> e.options, suggestion |-> e.suggestion]
  BY <1>2, StructuredIs
<1>4. Sound(e, v)
  BY <1>3 DEF Sound
<1> QED
  BY <1>1, <1>4, OneSound

\* Errors made one by one.
LEMMA EachSound ==
  ASSUME NEW v, NEW n \in Nat, NEW es, es = [k \in 1 .. n |-> es[k]], \A k \in 1 .. n : Sound(es[k], v)
  PROVE  AllSound(es, v)
<1>1. Len(es) = n /\ DOMAIN es = 1 .. n
  OBVIOUS
<1>2. IsSeq(es)
  BY <1>1 DEF IsSeq
<1> QED
  BY <1>1, <1>2 DEF AllSound

LEMMA InvInit == Init => ReportInv
<1> SUFFICES ASSUME Init PROVE ReportInv
  OBVIOUS
<1>1. Given
  <2>1. scene \in Scenes /\ data \in Value
    BY SceneAssumption DEF Init
  <2>2. FastOK(fast)
    <3>1. fast = NoDescriptor
      BY DEF Init
    <3> QED
      BY <3>1, NoDescriptorIs DEF FastOK
  <2> QED
    BY <2>1, <2>2 DEF Init, Given
<1>2. Judgement
  BY NoErrors DEF Init, Judgement, Unjudged
<1>3. Verdicts
  BY DEF Init, Verdicts
<1>4. Reading
  <2>1. IsSeq(texts) /\ Len(texts) = 0 /\ Len(errors) = 0 /\ stage = "start"
    BY NoErrors DEF Init
  <2>2. \A i \in 1 .. Len(texts) : FALSE
    BY <2>1
  <2> QED
    BY <2>1, <2>2 DEF Reading
<1> QED
  BY <1>1, <1>2, <1>3, <1>4 DEF ReportInv

\* Before the verdict only the scene's side changes.
LEMMA StillUnjudged ==
  ASSUME Judgement, Verdicts, Unjudged, Given',
         stage' \in {"compiled", "ready", "converted"} \/
           (stage' = "panicked" /\ \E k \in 1 .. MaxFallbackDepth : ChainFrom(scene.cats, Reader(scene))[k] = "typedNil"),
         UNCHANGED <<scene, served, valid, errors, texts>>
  PROVE  ReportInv'
<1>1. served' = "" /\ errors' = << >> /\ texts' = << >>
  BY DEF Judgement
<1>2. Judgement'
  BY <1>1, NoErrors DEF Judgement, Unjudged
<1>3. Verdicts'
  BY DEF Verdicts
<1>4. Reading'
  <2>1. IsSeq(texts') /\ Len(texts') = 0 /\ Len(errors') = 0
    BY <1>1, NoErrors
  <2>2. \A i \in 1 .. Len(texts') : FALSE
    BY <2>1
  <2>3. scene' = scene
    OBVIOUS
  <2>4. stage' = "panicked" => \E k \in 1 .. MaxFallbackDepth : ChainFrom(scene'.cats, Reader(scene'))[k] = "typedNil"
    BY <2>3
  <2> QED
    BY <2>1, <2>2, <2>4 DEF Reading
<1> QED
  BY <1>2, <1>3, <1>4 DEF ReportInv

\* The verdict, with what it rests on.
LEMMA NowJudged ==
  ASSUME ReportInv, Unjudged, stage' = "validated", NEW found, AllSound(found, data),
         served' \in {"convert", "fast", "cue"}, errors' = found, valid' = (found = << >>),
         UNCHANGED <<scene, fast, checked, data, texts>>
  PROVE  ReportInv'
<1>1. texts' = << >>
  BY DEF ReportInv, Judgement
<1>2. Given'
  BY DEF ReportInv, Given
<1>3. Judgement'
  BY DEF Judgement, Unjudged
<1>4. Verdicts'
  BY DEF Verdicts
<1>5. Reading'
  <2>1. Len(errors') \in Nat
    BY DEF AllSound, IsSeq
  <2> QED
    BY <1>1, <2>1, NoErrors DEF Reading
<1> QED
  BY <1>2, <1>3, <1>4, <1>5 DEF ReportInv

LEMMA InvCompile == ASSUME ReportInv, Compile PROVE ReportInv'
<1>1. Unjudged /\ stage' = "compiled" /\ UNCHANGED <<scene, checked, data, served, valid, errors, texts>>
  BY DEF Compile, Stage, Unjudged
<1>2. FastOK(fast')
  <2>1. scene.constraint \in Constraint
    BY SceneAssumption DEF ReportInv, Given
  <2>2. fast' = extractFastConstraint(scene.constraint)
    BY DEF Compile
  <2> QED
    BY <2>1, <2>2, FastConstraintIs
<1>3. Given'
  BY <1>1, <1>2 DEF ReportInv, Given
<1> QED
  BY <1>1, <1>3, StillUnjudged DEF ReportInv

LEMMA InvCheckCatalog == ASSUME ReportInv, CheckCatalog PROVE ReportInv'
<1>1. PICK verdict : verdict = ValidateCatalog(scene.cats, scene.root)
  OBVIOUS
<1>2. /\ scene.root # "nil" /\ stage = "compiled" /\ checked' = verdict
      /\ stage' = IF verdict = "panics" THEN "panicked" ELSE "ready"
      /\ UNCHANGED <<scene, fast, data, served, valid, errors, texts>>
  BY <1>1 DEF CheckCatalog, Stage
<1>3. verdict \in {"ok", "faulty", "panics"}
  BY <1>1 DEF ValidateCatalog
<1>4. Given'
  BY <1>1, <1>2, <1>3 DEF ReportInv, Given
<1>5. verdict = "panics" =>
        \E k \in 1 .. MaxFallbackDepth : ChainFrom(scene.cats, Reader(scene))[k] = "typedNil"
  <2>1. Named(scene.cats, Reader(scene)) /\ LabelsFinal(scene.cats)
    BY SceneAssumption, CatalogAssumption DEF ReportInv, Given
  <2>2. Reader(scene) = scene.root
    BY <1>2 DEF Reader
  <2>3. PICK cats, root : cats = scene.cats /\ root = scene.root
    OBVIOUS
  <2>4. ValidateCatalog(cats, root) = "panics" =>
          \E k \in 1 .. MaxFallbackDepth : ChainFrom(cats, root)[k] = "typedNil"
    BY <2>1, <2>2, <2>3, ProbesEnd
  <2> QED
    BY <1>1, <2>2, <2>3, <2>4
<1>6. Unjudged
  BY <1>2 DEF Unjudged
<1> QED
  BY <1>2, <1>4, <1>5, <1>6, StillUnjudged DEF ReportInv

LEMMA InvLeaveUnchecked == ASSUME ReportInv, LeaveUnchecked PROVE ReportInv'
<1>1. /\ Unjudged /\ stage' = "ready"
      /\ UNCHANGED <<scene, fast, checked, data, served, valid, errors, texts>>
  BY DEF LeaveUnchecked, Stage, Unjudged
<1>2. Given'
  BY <1>1 DEF ReportInv, Given
<1> QED
  BY <1>1, <1>2, StillUnjudged DEF ReportInv

LEMMA InvConvert == ASSUME ReportInv, Convert PROVE ReportInv'
<1>1. /\ Unjudged /\ stage' = "converted"
      /\ UNCHANGED <<scene, fast, checked, served, valid, errors, texts>>
  BY DEF Convert, Stage, Unjudged
<1>2. data' \in Value
  BY SceneAssumption DEF Convert, ReportInv, Given
<1>3. Given'
  BY <1>1, <1>2 DEF ReportInv, Given
<1> QED
  BY <1>1, <1>3, StillUnjudged DEF ReportInv

LEMMA InvRejectInput == ASSUME ReportInv, RejectInput PROVE ReportInv'
<1>1. PICK code \in ErrorCode \ {"E1E01"} : code = "E0C01"
  BY DEF ErrorCode
<1>2. PICK found : found = <<ErrorAt(code, NoPath, NoType)>>
  OBVIOUS
<1>3. AllSound(found, data)
  BY <1>1, <1>2, PlainSound
<1>4. /\ Unjudged /\ stage' = "validated" /\ served' = "convert"
      /\ UNCHANGED <<scene, fast, checked, data, texts>>
  BY DEF RejectInput, Stage, Unjudged
<1>5. errors' = found
  BY <1>1, <1>2 DEF RejectInput, NoType
<1>6. valid' = (found = << >>)
  <2>1. found # << >>
    BY <1>2
  <2>2. valid' = FALSE
    BY DEF RejectInput
  <2> QED
    BY <2>1, <2>2
<1> QED
  BY <1>3, <1>4, <1>5, <1>6, NowJudged

\* The errors a field leaves.
LEMMA InvReport ==
  ASSUME ReportInv, Stage("converted", "validated"), NEW who \in {"fast", "cue"},
         NEW found, AllSound(found, data), Report(who, found)
  PROVE  ReportInv'
<1>1. /\ Unjudged /\ stage' = "validated" /\ served' \in {"convert", "fast", "cue"}
      /\ UNCHANGED <<scene, fast, checked, data, texts>>
  BY DEF Report, Stage, Unjudged
<1>2. errors' = found /\ valid' = (found = << >>)
  BY DEF Report
<1> QED
  BY <1>1, <1>2, NowJudged

LEMMA InvCheckFast == ASSUME ReportInv, CheckFast PROVE ReportInv'
<1>1. PICK verdict : verdict = validateFast(fast, data)
  OBVIOUS
<1>2. PICK found : found = IF verdict.valid THEN << >> ELSE <<FastError(verdict, FieldPath, fast)>>
  OBVIOUS
<1>3. /\ Stage("converted", "validated") /\ fast.kind \notin {"none", "list"} /\ verdict.handled
      /\ Report("fast", found)
  BY <1>1, <1>2 DEF CheckFast
<1>4. data \in Value /\ ScalarFast(fast)
  BY <1>3 DEF ReportInv, Given, FastOK
<1>5. ~verdict.valid => Sound(FastError(verdict, FieldPath, fast), data)
  BY <1>1, <1>3, <1>4, PathIs, FastErrorIs
<1>6. AllSound(found, data)
  BY <1>2, <1>5, NoErrors, OneSound
<1> QED
  BY <1>3, <1>6, InvReport

LEMMA InvCheckFastList == ASSUME ReportInv, CheckFastList PROVE ReportInv'
<1> DEFINE failure(i) == FastError(validateFast(fast.elem[1], data.items[i]), indexedPath(FieldPath, i), fast.elem[1])
<1>1. PICK failures : failures = RejectedElements(fast, data)
  OBVIOUS
<1>2. PICK found : found = [k \in DOMAIN failures |-> failure(failures[k])]
  OBVIOUS
<1>3. /\ Stage("converted", "validated") /\ fast.kind = "list" /\ ElementsHandled(fast, data)
      /\ Report("fast", found)
  BY <1>1, <1>2 DEF CheckFastList
<1>4. PICK d : d = fast.elem[1] /\ ScalarFast(d) /\ d.kind # "none"
  BY <1>3 DEF ReportInv, Given, FastOK
<1>5. data \in Value
  BY DEF ReportInv, Given
<1>6. PICK n \in Nat : n = Len(data.items) /\ DOMAIN data.items = 1 .. n
  BY <1>5, ItemsAre
<1>7. PICK K : K = {i \in 1 .. n : ~validateFast(d, data.items[i]).valid}
  OBVIOUS
<1>8. PICK m \in Nat : DOMAIN failures = 1 .. m /\ \A k \in 1 .. m : failures[k] \in K
  <2>1. K \subseteq 1 .. n
    BY <1>7
  <2>2. K \in SUBSET Int /\ IsFiniteSet(K)
    BY <2>1, PositionsAre
  <2>3. failures = Ascending(K)
    BY <1>1, <1>4, <1>6, <1>7 DEF RejectedElements
  <2> QED
    BY <2>2, <2>3, AscendingOrder
<1>9. ASSUME NEW i \in K
      PROVE  Sound(failure(i), data)
  <2>1. i \in 1 .. n /\ ~validateFast(d, data.items[i]).valid
    BY <1>7
  <2>2. PICK x \in Value : x = data.items[i]
    BY <1>5, <1>6, <2>1, ItemsAre
  <2>3. PICK w : w = validateFast(d, x) /\ w.handled /\ ~w.valid
    BY <1>3, <1>4, <1>6, <2>1, <2>2 DEF ElementsHandled
  <2>4. PICK path : path = indexedPath(FieldPath, i) /\ path # NoPath /\ path.index = i
    BY PathIs
  <2>5. i # 0
    BY <2>1
  <2>6. Sound(FastError(w, path, d), data)
    BY <1>4, <2>2, <2>3, <2>4, <2>5, FastErrorIs
  <2> QED
    BY <1>4, <2>2, <2>3, <2>4, <2>6
<1> HIDE DEF failure
<1>10. AllSound(found, data)
  <2>1. found = [k \in 1 .. m |-> found[k]] /\ \A k \in 1 .. m : found[k] = failure(failures[k])
    BY <1>2, <1>8
  <2>2. \A k \in 1 .. m : Sound(found[k], data)
    BY <1>8, <1>9, <2>1
  <2> QED
    BY <2>1, <2>2, EachSound
<1> QED
  BY <1>3, <1>10, InvReport

LEMMA InvValidateScalarField == ASSUME ReportInv, ValidateScalarField PROVE ReportInv'
<1>1. scene.constraint \in Constraint /\ data \in Value /\ FastOK(fast)
  BY SceneAssumption DEF ReportInv, Given
<1>2. PICK diags \in Seq(DiagnosticIn) : diags = Diagnostics(scene.constraint, data)
  BY <1>1, DiagnosticsIs
<1>3. PICK found : found = [i \in DOMAIN diags |-> recordFieldError(diags[i])]
  OBVIOUS
<1>4. Stage("converted", "validated") /\ Undecided /\ Report("cue", found)
  BY <1>2, <1>3 DEF ValidateScalarField
<1>5. fast.kind \notin {"none", "list"} => ~validateFast(fast, data).handled
  BY <1>4 DEF Undecided
<1>6. PICK n \in Nat : DOMAIN diags = 1 .. n
  BY <1>2
<1>7. AllSound(found, data)
  <2>1. found = [k \in 1 .. n |-> found[k]] /\ \A k \in 1 .. n : found[k] = recordFieldError(diags[k])
    BY <1>3, <1>6
  <2>2. \A k \in 1 .. n : Sound(found[k], data)
    BY <1>1, <1>5, <2>1, FieldErrorIs
  <2> QED
    BY <2>1, <2>2, EachSound
<1> QED
  BY <1>4, <1>7, InvReport

LEMMA InvRejectNonList == ASSUME ReportInv, RejectNonList PROVE ReportInv'
<1>1. PICK code \in ErrorCode \ {"E1E01"} : code = "E1T01"
  BY DEF ErrorCode
<1>2. PICK found : found = <<ErrorAt(code, FieldPath, FieldType)>>
  OBVIOUS
<1>3. AllSound(found, data)
  <2>1. FieldPath # NoPath /\ code # "E0C01"
    BY <1>1, PathIs
  <2> QED
    BY <1>2, <2>1, PlainSound
<1>4. Stage("converted", "validated") /\ Report("cue", found)
  BY <1>1, <1>2 DEF RejectNonList
<1> QED
  BY <1>3, <1>4, InvReport

LEMMA InvValidateListField == ASSUME ReportInv, ValidateListField PROVE ReportInv'
<1>1. PICK c \in Constraint : c = scene.constraint
  BY SceneAssumption DEF ReportInv, Given
<1>2. data \in Value
  BY DEF ReportInv, Given
<1>3. PICK found : found = IF CUEAccepts(c, data) THEN << >> ELSE listErrors(c, data)
  OBVIOUS
<1>4. Stage("converted", "validated") /\ IsListField /\ Report("cue", found)
  BY <1>1, <1>3 DEF ValidateListField
<1>5. Kinds(c) \subseteq {"list"}
  BY <1>1, <1>4 DEF IsListField
<1>6. AllSound(found, data)
  BY <1>2, <1>3, <1>5, NoErrors, ListErrorsSound
<1> QED
  BY <1>4, <1>6, InvReport

LEMMA InvLocalizeNext == ASSUME ReportInv, LocalizeNext PROVE ReportInv'
<1>1. /\ scene \in Scenes /\ AllSound(errors, data) /\ IsSeq(texts)
      /\ \A i \in 1 .. Len(texts) : texts[i] = Intended(scene.cats, Reader(scene), errors[i])
  BY DEF ReportInv, Given, Judgement, Reading
<1>2. PICK m \in Nat : m = Len(texts)
  BY <1>1 DEF IsSeq
<1>3. PICK n \in Nat : n = Len(errors) /\ DOMAIN errors = 1 .. n
  <2>1. Len(errors) \in Nat /\ errors = [k \in 1 .. Len(errors) |-> errors[k]]
    BY <1>1 DEF AllSound, IsSeq
  <2> QED
    BY <2>1
<1>4. PICK e : e = errors[m + 1]
  OBVIOUS
<1>5. PICK said : said = Localize(scene.cats, Reader(scene), e)
  OBVIOUS
<1>6. /\ stage = "validated" /\ m < n
      /\ IF said.panics THEN stage' = "panicked" /\ texts' = texts
         ELSE stage' = stage /\ texts' = Append(texts, said.text)
      /\ UNCHANGED <<scene, fast, checked, data, served, valid, errors>>
  BY <1>2, <1>3, <1>4, <1>5 DEF LocalizeNext
<1>7. Sound(e, data)
  BY <1>1, <1>3, <1>4, <1>6 DEF AllSound
<1>8. \/ said = Says(Intended(scene.cats, Reader(scene), e))
      \/ /\ said = Panic
         /\ \E k \in 1 .. MaxFallbackDepth : ChainFrom(scene.cats, Reader(scene))[k] = "typedNil"
  <2>1. Named(scene.cats, Reader(scene)) /\ LabelsFinal(scene.cats)
    BY <1>1, SceneAssumption, CatalogAssumption
  <2>2. PICK cats, root : cats = scene.cats /\ root = Reader(scene)
    OBVIOUS
  <2>3. PICK C, P, T, B, O, S : e \in ErrorIn(C, P, T, B, O, S)
    BY <1>7, SoundIsError
  <2>4. \/ Localize(cats, root, e) = Says(Intended(cats, root, e))
        \/ /\ Localize(cats, root, e) = Panic
           /\ \E k \in 1 .. MaxFallbackDepth : ChainFrom(cats, root)[k] = "typedNil"
    BY <2>1, <2>2, <2>3, LocalizedRight
  <2> QED
    BY <1>5, <2>2, <2>4
<1>9. Given' /\ Judgement'
  BY <1>6 DEF ReportInv, Given, Judgement, Unjudged
<1>10. Verdicts'
  BY <1>6 DEF ReportInv, Verdicts
<1>11. Reading'
  <2>1. scene' = scene /\ errors' = errors
    BY <1>6
  <2>2. CASE said.panics
    <3>1. stage' = "panicked" /\ texts' = texts
      BY <1>6, <2>2
    <3>2. \E k \in 1 .. MaxFallbackDepth : ChainFrom(scene.cats, Reader(scene))[k] = "typedNil"
      BY <1>8, <2>2, SaysIs
    <3>3. Reading
      BY DEF ReportInv
    <3> QED
      BY <2>1, <3>1, <3>2, <3>3 DEF Reading
  <2>3. CASE ~said.panics
    <3>1. stage' = "validated" /\ texts' = Append(texts, said.text)
      BY <1>6, <2>3
    <3>2. said.text = Intended(scene.cats, Reader(scene), e)
      BY <1>8, <2>3, SaysIs
    <3>3. /\ IsSeq(texts') /\ Len(texts') = m + 1
          /\ \A i \in 1 .. m : texts'[i] = texts[i]
          /\ texts'[m + 1] = said.text
      BY <1>1, <1>2, <3>1, AppendIs
    <3>4. ASSUME NEW i \in 1 .. m + 1
          PROVE  texts'[i] = Intended(scene'.cats, Reader(scene'), errors'[i])
      <4>1. CASE i = m + 1
        BY <1>4, <2>1, <3>2, <3>3, <4>1
      <4>2. CASE i \in 1 .. m
        BY <1>1, <1>2, <2>1, <3>3, <4>2
      <4> QED
        BY <4>1, <4>2
    <3>5. Len(texts') <= Len(errors')
      BY <1>3, <1>6, <2>1, <3>3
    <3> QED
      BY <3>1, <3>3, <3>4, <3>5 DEF Reading
  <2> QED
    BY <2>2, <2>3
<1> QED
  BY <1>9, <1>10, <1>11 DEF ReportInv

LEMMA InvNext == ReportInv /\ [Next]_vars => ReportInv'
<1> SUFFICES ASSUME ReportInv, [Next]_vars PROVE ReportInv'
  OBVIOUS
<1>1. CASE UNCHANGED vars
  <2>1. UNCHANGED <<scene, stage, fast, checked, data, served, valid, errors, texts>>
    BY <1>1 DEF vars
  <2>2. Given' /\ Judgement'
    BY <2>1 DEF ReportInv, Given, Judgement, Unjudged
  <2>3. Verdicts'
    BY <2>1 DEF ReportInv, Verdicts
  <2>4. Reading'
    BY <2>1 DEF ReportInv, Reading
  <2> QED
    BY <2>2, <2>3, <2>4 DEF ReportInv
<1>2. CASE Compile
  BY <1>2, InvCompile
<1>3. CASE CheckCatalog
  BY <1>3, InvCheckCatalog
<1>4. CASE LeaveUnchecked
  BY <1>4, InvLeaveUnchecked
<1>5. CASE Convert
  BY <1>5, InvConvert
<1>6. CASE RejectInput
  BY <1>6, InvRejectInput
<1>7. CASE CheckFast
  BY <1>7, InvCheckFast
<1>8. CASE CheckFastList
  BY <1>8, InvCheckFastList
<1>9. CASE ValidateScalarField
  BY <1>9, InvValidateScalarField
<1>10. CASE RejectNonList
  BY <1>10, InvRejectNonList
<1>11. CASE ValidateListField
  BY <1>11, InvValidateListField
<1>12. CASE LocalizeNext
  BY <1>12, InvLocalizeNext
<1>13. CASE Finished
  BY <1>1, <1>13 DEF Finished
<1> QED
  BY <1>1, <1>2, <1>3, <1>4, <1>5, <1>6, <1>7, <1>8, <1>9, <1>10, <1>11, <1>12, <1>13 DEF Next

LEMMA ReportInvariant == Spec => []ReportInv
<1>1. Init => ReportInv
  BY InvInit
<1>2. ReportInv /\ [Next]_vars => ReportInv'
  BY InvNext
<1> QED
  BY <1>1, <1>2, PTL DEF Spec
----------------------------------------------------------------------------
(* The theorems about a field's report.                                    *)

LEMMA SoundAt ==
  ASSUME ReportInv, NEW i \in DOMAIN errors
  PROVE  Sound(errors[i], data)
BY DEF ReportInv, Judgement, AllSound

\* TypeOK: every stage leaves what the later ones rely on: a descriptor the
\* fast path can decide by, errors with a code of the catalog, a path unless
\* they are about the configuration, and a suggestion only beside options.
THEOREM ReportTyped == Spec => []TypeOK
<1>1. ReportInv => TypeOK
  <2> SUFFICES ASSUME ReportInv PROVE TypeOK
    OBVIOUS
  <2>1. /\ stage \in {"start", "compiled", "ready", "converted", "validated", "panicked"}
        /\ checked \in {"no", "ok", "faulty", "panics"} /\ served \in {"", "convert", "fast", "cue"}
        /\ Len(texts) <= Len(errors)
    BY DEF ReportInv, Given, Judgement, Unjudged, Reading
  <2>2. /\ fast.kind \in {"none", "type", "regex", "range", "enum", "list"}
        /\ fast.kind = "list" => fast.elem[1].kind \in {"type", "regex", "range", "enum"}
    BY DEF ReportInv, Given, FastOK, ScalarFast
  <2>3. valid = (errors = << >>)
    BY DEF ReportInv, Verdicts
  <2>4. served = "" => valid
    <3>1. served = "" => errors = << >>
      BY DEF ReportInv, Judgement
    <3> QED
      BY <2>3, <3>1
  <2>5. ASSUME NEW i \in DOMAIN errors
        PROVE  /\ errors[i].code \in ErrorCode
               /\ errors[i].path = NoPath <=> errors[i].code = "E0C01"
               /\ errors[i].suggestion # << >> => errors[i].code = "E1E01" /\ errors[i].options # << >>
    BY SoundAt DEF Sound
  <2> QED
    BY <2>1, <2>2, <2>3, <2>4, <2>5 DEF TypeOK
<1> QED
  BY <1>1, ReportInvariant, PTL

\* SuggestionIsNearest: whoever found the error, the fast path or CUE, and
\* whatever was merged to make it, its suggestion is the first of its options
\* that is nearest to the rejected string, and none if none is near
\* (suggest.go:8).
THEOREM NearestIsSuggested == Spec => []SuggestionIsNearest
<1>1. ReportInv => SuggestionIsNearest
  <2> SUFFICES ASSUME ReportInv, NEW k \in DOMAIN errors, NEW e, e = errors[k],
                      e.code = "E1E01", e.options # << >>, IsString(Offender(e))
               PROVE  e.suggestion = NearestTo(Offender(e).s, [i \in DOMAIN e.options |-> e.options[i].str])
    BY DEF SuggestionIsNearest
  <2>1. Sound(e, data)
    BY SoundAt
  <2>2. Offender(e) = OffenderOf(data, e)
    BY DEF Offender, OffenderOf
  <2> QED
    BY <2>1, <2>2 DEF Sound
<1> QED
  BY <1>1, ReportInvariant, PTL

\* LocalizedAsIntended: the texts of a report are what its chain of catalogs is
\* meant to say, and only a nil *Catalog ends the program (localize.go:108).
THEOREM TextsAsIntended == Spec => []LocalizedAsIntended
<1>1. ReportInv => LocalizedAsIntended
  <2> SUFFICES ASSUME ReportInv PROVE LocalizedAsIntended
    OBVIOUS
  <2>1. Reading
    BY DEF ReportInv
  <2>2. DOMAIN texts = 1 .. Len(texts)
    <3>1. Len(texts) \in Nat /\ texts = [k \in 1 .. Len(texts) |-> texts[k]]
      BY <2>1 DEF Reading, IsSeq
    <3> QED
      BY <3>1
  <2> QED
    BY <2>1, <2>2 DEF Reading, LocalizedAsIntended
<1> QED
  BY <1>1, ReportInvariant, PTL

\* ValidatedChainReads: once Catalog.Validate has passed the chain at startup,
\* no error of a field is ever reported in the generic text (localize.go:560).
THEOREM ValidatedNeverGeneric == Spec => []ValidatedChainReads
<1>1. ReportInv => ValidatedChainReads
  <2> SUFFICES ASSUME ReportInv, checked = "ok", NEW i \in DOMAIN texts, errors[i].path # NoPath
               PROVE  texts[i].wording # Generic.wording
    BY DEF ValidatedChainReads
  <2>1. PICK m \in Nat : m = Len(texts) /\ DOMAIN texts = 1 .. m
    <3>1. Len(texts) \in Nat /\ texts = [k \in 1 .. Len(texts) |-> texts[k]]
      BY DEF ReportInv, Reading, IsSeq
    <3> QED
      BY <3>1
  <2>2. PICK n \in Nat : n = Len(errors) /\ DOMAIN errors = 1 .. n
    <3>1. Len(errors) \in Nat /\ errors = [k \in 1 .. Len(errors) |-> errors[k]]
      BY DEF ReportInv, Judgement, AllSound, IsSeq
    <3> QED
      BY <3>1
  <2>3. m <= n /\ texts[i] = Intended(scene.cats, Reader(scene), errors[i])
    BY <2>1, <2>2 DEF ReportInv, Reading
  <2>4. PICK e : e = errors[i] /\ Sound(e, data) /\ e.path # NoPath
    BY <2>1, <2>2, <2>3, SoundAt
  <2>5. e.code \in BuiltinCode
    BY <2>4, CodeAssumption DEF Sound
  <2>6. PICK C, P, T, B, O, S : e \in ErrorIn(C, P, T, B, O, S)
    BY <2>4, SoundIsError
  <2>7. PICK cats, root : cats = scene.cats /\ root = Reader(scene)
    OBVIOUS
  <2>8. ValidateCatalog(cats, root) = "ok"
    BY <2>7 DEF ReportInv, Given, Reader
  <2>9. Named(cats, root) /\ LabelsFinal(cats) /\ Telling(cats)
    BY <2>7, SceneAssumption, CatalogAssumption DEF ReportInv, Given
  <2>10. Intended(cats, root, e).wording # Generic.wording
    BY <2>4, <2>5, <2>6, <2>8, <2>9, WordsIntended
  <2> QED
    BY <2>3, <2>4, <2>7, <2>10
<1> QED
  BY <1>1, ReportInvariant, PTL

LEMMA AcceptedBoolean ==
  ASSUME NEW c \in Constraint, NEW v, NEW operands
  PROVE  AcceptedOver(c, v, operands) \in BOOLEAN
<1>1. CASE c.form \in Comparisons
  BY <1>1, Zenon DEF AcceptedOver, Comparisons
<1>2. CASE c.form = "type"
  BY <1>2 DEF AcceptedOver, Comparisons
<1>7. CASE c.form = "lit"
  BY <1>7 DEF AcceptedOver, Comparisons, SameLiteral
<1>3. CASE c.form \in {"=~", "call", "!="}
  BY <1>3 DEF AcceptedOver, Comparisons
<1>4. CASE c.form \in {"and", "or", "default"}
  BY <1>4 DEF AcceptedOver, Comparisons
<1>5. CASE c.form = "tuple"
  BY <1>5 DEF AcceptedOver, Comparisons
<1>6. CASE c.form \notin {"type", "lit", "=~", "call", "!=", "and", "or", "default", "tuple"} \cup Comparisons
  BY <1>6 DEF AcceptedOver, Comparisons
<1> QED
  BY <1>1, <1>2, <1>3, <1>4, <1>5, <1>6, <1>7

\* What a constraint accepts is what AcceptedOver makes of its operands'.
Accepting(c) == [x \in Value |-> CUEAccepts(c, x)]

LEMMA AcceptsIs ==
  ASSUME NEW c \in Constraint, NEW v \in Value
  PROVE  CUEAccepts(c, v) = AcceptedOver(c, v, [i \in DOMAIN c.args |-> Accepting(c.args[i])])
<1> DEFINE V == [Value -> BOOLEAN]
           step == [d \in Constraint |-> [s \in Seq(V) |-> [x \in Value |-> AcceptedOver(d, x, s)]]]
           body(f) == [d \in Constraint |->
                         [x \in Value |-> AcceptedOver(d, x, [i \in DOMAIN d.args |-> f[d.args[i]]])]]
<1>1. ASSUME NEW d, NEW x PROVE CUEAccepts(d, x) = (CHOOSE f : f = body(f))[d][x]
  BY DEF CUEAccepts
<1>2. step \in [Constraint -> [Seq(V) -> V]]
  <2>1. ASSUME NEW d \in Constraint, NEW s \in Seq(V)
        PROVE  [x \in Value |-> AcceptedOver(d, x, s)] \in V
    BY AcceptedBoolean
  <2> HIDE DEF V
  <2> QED
    BY <2>1
<1>3. PICK F : Descends(F, V, step)
  <2> HIDE DEF step
  <2>1. [x \in Value |-> TRUE] \in V
    OBVIOUS
  <2> HIDE DEF V
  <2> QED
    BY <1>2, <2>1, TreeRecursion
<1>4. F = body(F)
  <2>1. F \in [Constraint -> V]
    BY <1>3 DEF Descends
  <2>2. ASSUME NEW d \in Constraint
        PROVE  F[d] = body(F)[d]
    <3> HIDE DEF V
    <3>1. PICK g \in Seq(V) : g = OfArgs(F, d)
      <4>1. \A i \in DOMAIN d.args : F[d.args[i]] \in V
        BY <2>1, ConstraintIs
      <4> QED
        BY <4>1, OfArgsIs
    <3>2. F[d] = [x \in Value |-> AcceptedOver(d, x, g)]
      BY <1>3, <3>1 DEF Descends
    <3> QED
      BY <3>1, <3>2 DEF OfArgs
  <2> HIDE DEF body, V
  <2>3. body(F) = [d \in Constraint |-> body(F)[d]]
    BY DEF body
  <2>4. F = [d \in Constraint |-> F[d]]
    BY <2>1
  <2> QED
    BY <2>2, <2>3, <2>4
<1>5. PICK r : r = (CHOOSE f : f = body(f)) /\ r = body(r)
  <2> HIDE DEF body
  <2> QED
    BY <1>4
<1>6. PICK g : g = [i \in DOMAIN c.args |-> r[c.args[i]]]
  OBVIOUS
<1>7. ASSUME NEW d \in Constraint
      PROVE  r[d] = [x \in Value |-> AcceptedOver(d, x, [i \in DOMAIN d.args |-> r[d.args[i]]])]
  BY <1>5
<1>8. ASSUME NEW d, NEW x PROVE CUEAccepts(d, x) = r[d][x]
  <2> HIDE DEF body
  <2> QED
    BY <1>1, <1>5
<1>9. ASSUME NEW i \in DOMAIN c.args
      PROVE  Accepting(c.args[i]) = r[c.args[i]]
  <2>1. PICK d \in Constraint : d = c.args[i]
    BY ConstraintIs
  <2>2. Accepting(d) = [x \in Value |-> r[d][x]]
    BY <1>8 DEF Accepting
  <2>3. PICK h : h = [j \in DOMAIN d.args |-> r[d.args[j]]]
    OBVIOUS
  <2>4. r[d] = [x \in Value |-> AcceptedOver(d, x, h)]
    BY <1>7, <2>3
  <2> HIDE DEF body
  <2> QED
    BY <2>1, <2>2, <2>4
<1>10. [i \in DOMAIN c.args |-> Accepting(c.args[i])] = g
  <2> HIDE DEF body
  <2> QED
    BY <1>6, <1>9
<1> QED
  <2> HIDE DEF body
  <2>1. r[c] = [x \in Value |-> AcceptedOver(c, x, g)]
    BY <1>6, <1>7
  <2> QED
    BY <1>8, <1>10, <2>1

LEMMA AcceptsBoolean ==
  ASSUME NEW c \in Constraint, NEW v \in Value
  PROVE  CUEAccepts(c, v) \in BOOLEAN
BY AcceptsIs, AcceptedBoolean

\* What each form accepts.
LEMMA TypeAccepts ==
  ASSUME NEW c \in Constraint, NEW v \in Value, c.form = "type"
  PROVE  CUEAccepts(c, v) = (CUEKind(v) \in BasicKinds(c))
BY AcceptsIs DEF AcceptedOver, Comparisons

LEMMA LiteralAccepts ==
  ASSUME NEW c \in Constraint, NEW v \in Value, c.form = "lit"
  PROVE  CUEAccepts(c, v) = (v.go \notin NonFinite /\ SameLiteral(c, v))
BY AcceptsIs DEF AcceptedOver, Comparisons

LEMMA BoundAccepts ==
  ASSUME NEW c \in Constraint, NEW v \in Value, c.form \in Comparisons
  PROVE  CUEAccepts(c, v) = (CUEKind(v) \in {"int", "float"} /\
                               (v.go \in NonFinite \/ Compares(c.form, v.n, c.args[1].num)))
BY AcceptsIs DEF AcceptedOver, Comparisons

LEMMA PatternAccepts ==
  ASSUME NEW c \in Constraint, NEW v \in Value, c.form \in {"=~", "call"}
  PROVE  CUEAccepts(c, v) = (v.go = "string" /\ v.s \in c.pat)
BY AcceptsIs DEF AcceptedOver, Comparisons

LEMMA AndAccepts ==
  ASSUME NEW c \in Constraint, NEW v \in Value, c.form = "and"
  PROVE  CUEAccepts(c, v) = \A i \in DOMAIN c.args : CUEAccepts(c.args[i], v)
<1>1. PICK g : g = [i \in DOMAIN c.args |-> Accepting(c.args[i])]
  OBVIOUS
<1>2. CUEAccepts(c, v) = \A i \in DOMAIN g : g[i][v]
  BY <1>1, AcceptsIs DEF AcceptedOver, Comparisons
<1>3. \A i \in DOMAIN c.args : g[i][v] = CUEAccepts(c.args[i], v)
  BY <1>1 DEF Accepting
<1>4. DOMAIN g = DOMAIN c.args
  BY <1>1
<1> QED
  BY <1>2, <1>3, <1>4

LEMMA OrAccepts ==
  ASSUME NEW c \in Constraint, NEW v \in Value, c.form \in {"or", "default"}
  PROVE  CUEAccepts(c, v) = \E i \in DOMAIN c.args : CUEAccepts(c.args[i], v)
<1>1. PICK g : g = [i \in DOMAIN c.args |-> Accepting(c.args[i])]
  OBVIOUS
<1>2. CUEAccepts(c, v) = \E i \in DOMAIN g : g[i][v]
  BY <1>1, AcceptsIs DEF AcceptedOver, Comparisons
<1>3. \A i \in DOMAIN c.args : g[i][v] = CUEAccepts(c.args[i], v)
  BY <1>1 DEF Accepting
<1>4. DOMAIN g = DOMAIN c.args
  BY <1>1
<1> QED
  BY <1>2, <1>3, <1>4

LEMMA ListAccepts ==
  ASSUME NEW c \in Constraint, NEW v \in Value, c.form \in {"list", "atLeast"}
  PROVE  CUEAccepts(c, v) = (/\ CUEKind(v) = "list"
                             /\ c.form = "atLeast" => Halves(Len(v.items)) >= c.num
                             /\ \A i \in DOMAIN v.items : CUEAccepts(c.args[1], v.items[i]))
<1>1. PICK g : g = [i \in DOMAIN c.args |-> Accepting(c.args[i])]
  OBVIOUS
<1>2. CUEAccepts(c, v) = (/\ CUEKind(v) = "list"
                          /\ c.form = "atLeast" => Halves(Len(v.items)) >= c.num
                          /\ \A i \in DOMAIN v.items : g[1][v.items[i]])
  BY <1>1, AcceptsIs DEF AcceptedOver, Comparisons
<1>3. g[1] = Accepting(c.args[1])
  BY <1>1, FirstArg
<1>4. \A i \in DOMAIN v.items : g[1][v.items[i]] = CUEAccepts(c.args[1], v.items[i])
  BY <1>3, ItemsAre DEF Accepting
<1> QED
  BY <1>2, <1>4

LEMMA FlattenHas ==
  ASSUME NEW V, NEW seqs \in Seq(Seq(V)), NEW i \in DOMAIN seqs, NEW j \in DOMAIN seqs[i]
  PROVE  \E k \in DOMAIN FlattenSeq(seqs) : FlattenSeq(seqs)[k] = seqs[i][j]
<1> DEFINE n == Len(seqs)
<1>1. n \in Nat /\ i \in 1 .. n /\ n # 0 /\ seqs[i] \in Seq(V)
  OBVIOUS
<1>2. PICK r : Flattens(r, seqs, V) /\ FlattenSeq(seqs) = r[n]
  BY <1>1, FlattenSteps
<1>3. PICK x : x = seqs[i][j]
  OBVIOUS
<1> DEFINE Has(s) == \E k \in DOMAIN s : s[k] = x
           S == {m \in Nat : i + m <= n => Has(r[i + m])}
<1>4. ASSUME NEW s \in Seq(V), NEW t \in Seq(V), Has(s) \/ Has(t)
      PROVE  Has(s \o t)
  <2>1. /\ DOMAIN s = 1 .. Len(s) /\ DOMAIN t = 1 .. Len(t) /\ DOMAIN (s \o t) = 1 .. (Len(s) + Len(t))
        /\ Len(s) \in Nat /\ Len(t) \in Nat
    OBVIOUS
  <2>2. CASE Has(s)
    <3>1. PICK k \in DOMAIN s : s[k] = x
      BY <2>2
    <3>2. (s \o t)[k] = x /\ k \in DOMAIN (s \o t)
      BY <2>1, <3>1
    <3> QED
      BY <3>2
  <2>3. CASE Has(t)
    <3>1. PICK k \in DOMAIN t : t[k] = x
      BY <2>3
    <3>2. Len(s) + k \in DOMAIN (s \o t) /\ (s \o t)[Len(s) + k] = x
      BY <2>1, <3>1
    <3> QED
      BY <3>2
  <2> HIDE DEF Has
  <2> QED
    BY <1>4, <2>2, <2>3
<1>5. Has(seqs[i])
  BY <1>3
<1> HIDE DEF Has, n
<1>6. Has(r[i])
  <2>1. CASE i = 1
    BY <1>2, <1>5, <2>1 DEF Flattens
  <2>2. CASE i # 1
    <3>1. i \in 2 .. n /\ i - 1 \in 1 .. n
      BY <1>1, <2>2
    <3>2. r[i - 1] \in Seq(V) /\ r[i] = r[i - 1] \o seqs[i]
      BY <1>2, <3>1 DEF Flattens, n
    <3> QED
      BY <1>1, <1>4, <1>5, <3>2
  <2> QED
    BY <2>1, <2>2
<1>7. 0 \in S
  <2>1. i + 0 = i
    BY <1>1
  <2> QED
    BY <1>6, <2>1
<1>8. ASSUME NEW m \in S PROVE m + 1 \in S
  <2>1. m \in Nat
    OBVIOUS
  <2>2. SUFFICES ASSUME i + (m + 1) <= n PROVE Has(r[i + (m + 1)])
    BY <2>1
  <2>3. PICK k \in 2 .. n : k = i + (m + 1) /\ k - 1 = i + m /\ k - 1 \in 1 .. n /\ i + m <= n
    BY <1>1, <2>1, <2>2
  <2>4. Has(r[k - 1])
    BY <2>3
  <2>5. r[k - 1] \in Seq(V) /\ r[k] = r[k - 1] \o seqs[k]
    BY <1>2, <2>3 DEF Flattens, n
  <2>6. seqs[k] \in Seq(V)
    <3>1. k \in 1 .. Len(seqs)
      BY <2>3 DEF n
    <3> QED
      BY <3>1
  <2> QED
    BY <1>4, <2>3, <2>4, <2>5, <2>6
<1>9. S = Nat
  <2>1. S \in SUBSET Nat
    OBVIOUS
  <2> HIDE DEF S
  <2> QED
    BY <1>7, <1>8, <2>1, SetInduction
<1>10. PICK m \in Nat : m = n - i /\ i + m = n
  <2>1. i \in Int /\ n \in Int /\ i <= n
    BY <1>1
  <2>2. n - i \in Nat /\ i + (n - i) = n
    BY <2>1
  <2> QED
    BY <2>2
<1>11. Has(r[n])
  <2>1. m \in S
    BY <1>9
  <2>2. i + m <= n => Has(r[i + m])
    BY <2>1
  <2>3. n <= n
    BY <1>1
  <2> HIDE DEF S
  <2> QED
    BY <1>10, <2>2, <2>3
<1> QED
  BY <1>2, <1>3, <1>11 DEF Has

----------------------------------------------------------------------------
(* Which kinds each form admits.                                           *)

LEMMA LeafKinds ==
  ASSUME NEW c \in Constraint
  PROVE  /\ c.form \in {"type", "lit"} => Kinds(c) = BasicKinds(c)
         /\ c.form \in Comparisons \cup {"!="} => Kinds(c) = ComparableKinds(c.args[1])
         /\ c.form \in Comparisons => Kinds(c) = {"int", "float"}
         /\ c.form \in {"=~", "call"} => Kinds(c) = {"string"}
         /\ c.form \in {"list", "atLeast", "tuple"} => Kinds(c) = {"list"}
<1>1. PICK g : g = [i \in DOMAIN c.args |-> Kinds(c.args[i])] /\ Kinds(c) = KindsOver(c, g)
  BY KindsIs
<1>2. c.form \in {"type", "lit"} => Kinds(c) = BasicKinds(c)
  BY <1>1 DEF KindsOver, Comparisons
<1>3. c.form \in Comparisons \cup {"!="} => Kinds(c) = ComparableKinds(c.args[1])
  BY <1>1 DEF KindsOver, Comparisons
<1>4. c.form \in Comparisons => Kinds(c) = {"int", "float"}
  BY <1>3, FormAssumption DEF ComparableKinds
<1>5. c.form \in {"=~", "call"} => Kinds(c) = {"string"}
  BY <1>1 DEF KindsOver, Comparisons
<1>6. c.form \in {"list", "atLeast", "tuple"} => Kinds(c) = {"list"}
  BY <1>1 DEF KindsOver, Comparisons
<1> QED
  BY <1>2, <1>3, <1>4, <1>5, <1>6

LEMMA AndKinds ==
  ASSUME NEW c \in Constraint, c.form = "and", NEW k
  PROVE  k \in Kinds(c) <=> \A i \in DOMAIN c.args : k \in Kinds(c.args[i])
<1>1. PICK g : g = [i \in DOMAIN c.args |-> Kinds(c.args[i])]
  OBVIOUS
<1>2. Kinds(c) = {x \in g[1] : \A i \in DOMAIN g : x \in g[i]}
  BY <1>1, KindsIs DEF KindsOver, Comparisons
<1>3. DOMAIN g = DOMAIN c.args /\ 1 \in DOMAIN g /\ \A i \in DOMAIN g : g[i] = Kinds(c.args[i])
  BY <1>1, FirstArg
<1> QED
  BY <1>2, <1>3

LEMMA OrKinds ==
  ASSUME NEW c \in Constraint, c.form \in {"or", "default"}, NEW k
  PROVE  k \in Kinds(c) <=> \E i \in DOMAIN c.args : k \in Kinds(c.args[i])
<1>1. PICK g : g = [i \in DOMAIN c.args |-> Kinds(c.args[i])]
  OBVIOUS
<1>2. Kinds(c) = UNION {g[i] : i \in DOMAIN g}
  BY <1>1, KindsIs DEF KindsOver, Comparisons
<1>3. DOMAIN g = DOMAIN c.args /\ \A i \in DOMAIN g : g[i] = Kinds(c.args[i])
  BY <1>1
<1> QED
  BY <1>2, <1>3

LEMMA StringKind ==
  ASSUME NEW v
  PROVE  v.go = "string" => CUEKind(v) = "string"
BY DEF CUEKind, NonFinite

\* CUE accepts a value only of one of the constraint's kinds.
LEMMA AcceptedKind ==
  ASSUME NEW c \in Constraint, NEW v \in Value, CUEAccepts(c, v)
  PROVE  CUEKind(v) \in Kinds(c)
<1> DEFINE P == {d \in Constraint : CUEAccepts(d, v) => CUEKind(v) \in Kinds(d)}
<1>1. ASSUME NEW d \in Constraint, \A i \in DOMAIN d.args : d.args[i] \in P
      PROVE  d \in P
  <2> SUFFICES ASSUME CUEAccepts(d, v) PROVE CUEKind(v) \in Kinds(d)
    OBVIOUS
  <2>1. CASE d.form = "type"
    BY <2>1, LeafKinds, TypeAccepts
  <2>2. CASE d.form = "lit"
    <3>1. d.kind = CUEKind(v)
      BY <2>2, LiteralAccepts DEF SameLiteral
    <3>2. Kinds(d) = {d.kind}
      BY <2>2, LeafKinds, FormAssumption DEF BasicKinds
    <3> QED
      BY <3>1, <3>2
  <2>3. CASE d.form \in Comparisons
    BY <2>3, LeafKinds, BoundAccepts
  <2>4. CASE d.form \in {"=~", "call"}
    BY <2>4, LeafKinds, PatternAccepts, StringKind
  <2>5. CASE d.form = "!="
    <3>1. CUEKind(v) \in ComparableKinds(d.args[1])
      BY <2>5, AcceptsIs DEF AcceptedOver, Comparisons
    <3> QED
      BY <2>5, <3>1, LeafKinds
  <2>6. CASE d.form = "and"
    <3>1. \A i \in DOMAIN d.args : CUEKind(v) \in Kinds(d.args[i])
      BY <1>1, <2>6, AndAccepts
    <3> QED
      BY <2>6, <3>1, AndKinds
  <2>7. CASE d.form \in {"or", "default"}
    <3>1. \E i \in DOMAIN d.args : CUEKind(v) \in Kinds(d.args[i])
      BY <1>1, <2>7, OrAccepts
    <3> QED
      BY <2>7, <3>1, OrKinds
  <2>8. CASE d.form \in {"list", "atLeast", "tuple"}
    <3>1. CUEKind(v) = "list"
      BY <2>8, AcceptsIs DEF AcceptedOver, Comparisons
    <3> QED
      BY <2>8, <3>1, LeafKinds
  <2> QED
    BY <2>1, <2>2, <2>3, <2>4, <2>5, <2>6, <2>7, <2>8, ConstraintIs DEF Form
<1>2. P \in SUBSET Constraint
  OBVIOUS
<1> HIDE DEF P
<1>3. P = Constraint
  BY <1>1, <1>2, TreeInduction
<1> QED
  BY <1>3 DEF P

----------------------------------------------------------------------------
(* Conjuncts and parts.                                                    *)

LEMMA ConjunctsIs ==
  ASSUME NEW c \in Constraint
  PROVE  /\ Conjuncts(c) = ConjunctsOver(c, [i \in DOMAIN c.args |-> Conjuncts(c.args[i])])
         /\ Conjuncts(c) \in Seq(Constraint)
<1> DEFINE V == Seq(Constraint)
           step == [d \in Constraint |-> [s \in Seq(V) |-> ConjunctsOver(d, s)]]
           body(f) == [d \in Constraint |-> ConjunctsOver(d, [i \in DOMAIN d.args |-> f[d.args[i]]])]
<1>1. ASSUME NEW d PROVE Conjuncts(d) = (CHOOSE f : f = body(f))[d]
  BY DEF Conjuncts
<1>2. step \in [Constraint -> [Seq(V) -> V]]
  <2>1. ASSUME NEW d \in Constraint, NEW s \in Seq(V)
        PROVE  ConjunctsOver(d, s) \in V
    BY FlattenIs DEF ConjunctsOver
  <2> HIDE DEF V
  <2> QED
    BY <2>1
<1>3. PICK F : Descends(F, V, step)
  <2> HIDE DEF step
  <2>1. << >> \in V
    OBVIOUS
  <2> HIDE DEF V
  <2> QED
    BY <1>2, <2>1, TreeRecursion
<1>4. F = body(F)
  <2>1. F \in [Constraint -> V]
    BY <1>3 DEF Descends
  <2>2. ASSUME NEW d \in Constraint
        PROVE  F[d] = body(F)[d]
    <3> HIDE DEF V
    <3>1. PICK g \in Seq(V) : g = OfArgs(F, d)
      <4>1. \A i \in DOMAIN d.args : F[d.args[i]] \in V
        BY <2>1, ConstraintIs
      <4> QED
        BY <4>1, OfArgsIs
    <3>2. F[d] = ConjunctsOver(d, g)
      BY <1>3, <3>1 DEF Descends
    <3> QED
      BY <3>1, <3>2 DEF OfArgs
  <2> HIDE DEF body, V
  <2>3. body(F) = [d \in Constraint |-> body(F)[d]]
    BY DEF body
  <2>4. F = [d \in Constraint |-> F[d]]
    BY <2>1
  <2> QED
    BY <2>2, <2>3, <2>4
<1>5. PICK r : r = (CHOOSE f : f = body(f)) /\ r = body(r)
  <2> HIDE DEF body
  <2> QED
    BY <1>4
<1>6. ASSUME NEW d \in Constraint
      PROVE  r[d] = ConjunctsOver(d, OfArgs(r, d))
  BY <1>5 DEF OfArgs
<1>7. [i \in DOMAIN c.args |-> r[c.args[i]]] = [i \in DOMAIN c.args |-> Conjuncts(c.args[i])]
  <2> HIDE DEF body
  <2>1. ASSUME NEW d PROVE Conjuncts(d) = r[d]
    BY <1>1, <1>5
  <2> QED
    BY <2>1
<1>8. Conjuncts(c) = r[c]
  <2> HIDE DEF body
  <2> QED
    BY <1>1, <1>5
<1>9. r[c] \in V
  <2> DEFINE P == {d \in Constraint : r[d] \in V}
  <2>1. ASSUME NEW d \in Constraint, \A i \in DOMAIN d.args : d.args[i] \in P
        PROVE  d \in P
    <3>1. PICK W : W = V
      OBVIOUS
    <3>2. \A i \in DOMAIN d.args : r[d.args[i]] \in W
      BY <2>1, <3>1
    <3>3. PICK g \in Seq(W) : g = OfArgs(r, d)
      BY <3>2, OfArgsIs
    <3>4. ConjunctsOver(d, g) \in V
      BY <3>1, <3>3, FlattenIs DEF ConjunctsOver
    <3> QED
      BY <1>6, <3>3, <3>4
  <2>2. P \in SUBSET Constraint
    OBVIOUS
  <2> HIDE DEF P
  <2>3. P = Constraint
    BY <2>1, <2>2, TreeInduction
  <2> QED
    BY <2>3 DEF P
<1> QED
  BY <1>6, <1>7, <1>8, <1>9 DEF OfArgs

LEMMA PartsIs ==
  ASSUME NEW c \in Constraint
  PROVE  /\ Parts(c) = {c} \cup UNION {Parts(c.args[i]) : i \in DOMAIN c.args}
         /\ Parts(c) \subseteq Constraint
<1> DEFINE V == SUBSET Constraint
           step == [d \in Constraint |-> [s \in Seq(V) |-> PartsOver(d, s)]]
           body(f) == [d \in Constraint |-> PartsOver(d, [i \in DOMAIN d.args |-> f[d.args[i]]])]
<1>1. ASSUME NEW d PROVE Parts(d) = (CHOOSE f : f = body(f))[d]
  BY DEF Parts
<1>2. step \in [Constraint -> [Seq(V) -> V]]
  <2>1. ASSUME NEW d \in Constraint, NEW s \in Seq(V)
        PROVE  PartsOver(d, s) \in V
    BY DEF PartsOver
  <2> HIDE DEF V
  <2> QED
    BY <2>1
<1>3. PICK F : Descends(F, V, step)
  <2> HIDE DEF step
  <2>1. {} \in V
    OBVIOUS
  <2> HIDE DEF V
  <2> QED
    BY <1>2, <2>1, TreeRecursion
<1>4. F = body(F)
  <2>1. F \in [Constraint -> V]
    BY <1>3 DEF Descends
  <2>2. ASSUME NEW d \in Constraint
        PROVE  F[d] = body(F)[d]
    <3> HIDE DEF V
    <3>1. PICK g \in Seq(V) : g = OfArgs(F, d)
      <4>1. \A i \in DOMAIN d.args : F[d.args[i]] \in V
        BY <2>1, ConstraintIs
      <4> QED
        BY <4>1, OfArgsIs
    <3>2. F[d] = PartsOver(d, g)
      BY <1>3, <3>1 DEF Descends
    <3> QED
      BY <3>1, <3>2 DEF OfArgs
  <2> HIDE DEF body, V
  <2>3. body(F) = [d \in Constraint |-> body(F)[d]]
    BY DEF body
  <2>4. F = [d \in Constraint |-> F[d]]
    BY <2>1
  <2> QED
    BY <2>2, <2>3, <2>4
<1>5. PICK r : r = (CHOOSE f : f = body(f)) /\ r = body(r)
  <2> HIDE DEF body
  <2> QED
    BY <1>4
<1>6. ASSUME NEW d \in Constraint
      PROVE  r[d] = PartsOver(d, [i \in DOMAIN d.args |-> r[d.args[i]]])
  BY <1>5
<1>7. ASSUME NEW d PROVE Parts(d) = r[d]
  <2> HIDE DEF body
  <2> QED
    BY <1>1, <1>5
<1>8. ASSUME NEW d \in Constraint
      PROVE  Parts(d) = {d} \cup UNION {Parts(d.args[i]) : i \in DOMAIN d.args}
  <2> HIDE DEF body
  <2>1. PICK g : g = [i \in DOMAIN d.args |-> r[d.args[i]]] /\ r[d] = PartsOver(d, g)
    BY <1>6
  <2>2. DOMAIN g = DOMAIN d.args /\ \A i \in DOMAIN d.args : g[i] = Parts(d.args[i])
    BY <1>7, <2>1
  <2>3. UNION {g[i] : i \in DOMAIN g} = UNION {Parts(d.args[i]) : i \in DOMAIN d.args}
    BY <2>2
  <2> QED
    BY <1>7, <2>1, <2>3 DEF PartsOver
<1>9. Parts(c) \subseteq Constraint
  <2> DEFINE P == {d \in Constraint : Parts(d) \subseteq Constraint}
  <2>1. ASSUME NEW d \in Constraint, \A i \in DOMAIN d.args : d.args[i] \in P
        PROVE  d \in P
    <3> HIDE DEF body
    <3>1. \A i \in DOMAIN d.args : Parts(d.args[i]) \subseteq Constraint
      BY <2>1
    <3> QED
      BY <1>8, <3>1
  <2>2. P \in SUBSET Constraint
    OBVIOUS
  <2> HIDE DEF P
  <2>3. P = Constraint
    BY <2>1, <2>2, TreeInduction
  <2> QED
    BY <2>3 DEF P
<1> QED
  BY <1>8, <1>9

\* t is one of the conjuncts of c.
Conjunct(t, c) == \E k \in DOMAIN Conjuncts(c) : Conjuncts(c)[k] = t

LEMMA OnlyConjunct ==
  ASSUME NEW c \in Constraint, Op(c) # "and", NEW t
  PROVE  Conjunct(t, c) <=> t = c
<1>1. Conjuncts(c) = <<c>>
  BY ConjunctsIs DEF ConjunctsOver
<1> QED
  BY <1>1 DEF Conjunct

LEMMA AndConjunct ==
  ASSUME NEW c \in Constraint, Op(c) = "and", NEW t
  PROVE  Conjunct(t, c) <=> \E i \in DOMAIN c.args : Conjunct(t, c.args[i])
<1>1. PICK g : g = [i \in DOMAIN c.args |-> Conjuncts(c.args[i])]
  OBVIOUS
<1>2. Conjuncts(c) = FlattenSeq(g)
  BY <1>1, ConjunctsIs DEF ConjunctsOver
<1>3. PICK V : V = {u \in Constraint : \E i \in DOMAIN c.args : Conjunct(u, c.args[i])}
  OBVIOUS
<1>4. PICK S : S = Seq(V)
  OBVIOUS
<1>5. g \in Seq(S)
  <2>1. PICK n \in Nat : n = Len(c.args) /\ DOMAIN c.args = 1 .. n
    BY ConstraintIs
  <2>2. ASSUME NEW i \in 1 .. n
        PROVE  Conjuncts(c.args[i]) \in Seq(V)
    <3>1. PICK s \in Seq(Constraint) : s = Conjuncts(c.args[i])
      BY <2>1, ConstraintIs, ConjunctsIs
    <3>2. ASSUME NEW k \in DOMAIN s PROVE s[k] \in V
      <4>1. s[k] \in Constraint
        OBVIOUS
      <4>2. Conjunct(s[k], c.args[i])
        BY <3>1 DEF Conjunct
      <4> QED
        BY <1>3, <2>1, <4>1, <4>2
    <3>3. DOMAIN s = 1 .. Len(s) /\ Len(s) \in Nat /\ s = [k \in 1 .. Len(s) |-> s[k]]
      OBVIOUS
    <3>4. s \in [1 .. Len(s) -> V]
      BY <3>2, <3>3
    <3> QED
      BY <3>1, <3>3, <3>4
  <2>3. g \in [1 .. n -> S]
    BY <1>1, <1>4, <2>1, <2>2
  <2> QED
    BY <2>3
<1>6. ASSUME Conjunct(t, c)
      PROVE  \E i \in DOMAIN c.args : Conjunct(t, c.args[i])
  <2>1. PICK flat \in Seq(V) : flat = FlattenSeq(g)
    BY <1>4, <1>5, FlattenIs
  <2>2. PICK k \in DOMAIN flat : flat[k] = t
    BY <1>2, <1>6, <2>1 DEF Conjunct
  <2>3. t \in V
    BY <2>2
  <2> QED
    BY <1>3, <2>3
<1>7. ASSUME NEW i \in DOMAIN c.args, Conjunct(t, c.args[i])
      PROVE  Conjunct(t, c)
  <2>1. PICK j \in DOMAIN Conjuncts(c.args[i]) : Conjuncts(c.args[i])[j] = t
    BY <1>7 DEF Conjunct
  <2>2. i \in DOMAIN g /\ j \in DOMAIN g[i] /\ g[i][j] = t
    BY <1>1, <2>1
  <2>3. \E k \in DOMAIN FlattenSeq(g) : FlattenSeq(g)[k] = g[i][j]
    BY <1>4, <1>5, <2>2, FlattenHas
  <2> QED
    BY <1>2, <2>2, <2>3 DEF Conjunct
<1> QED
  BY <1>6, <1>7

----------------------------------------------------------------------------
(* What the conjuncts of a scalar constraint say together.                 *)

\* Not only lists are welcome.
Proper(c) == \E k \in Kinds(c) : k # "list"

\* A constraint is the conjunction of its conjuncts.
Meant(c) ==
  /\ \A t : Conjunct(t, c) =>
       t \in Constraint /\ t \in Parts(c) /\ Op(t) # "and" /\ (c.form = "and" => t.form \notin {"or", "default"})
  /\ \A k : k \in Kinds(c) <=> \A t : Conjunct(t, c) => k \in Kinds(t)
  /\ \A v \in Value : CUEAccepts(c, v) <=> \A t : Conjunct(t, c) => CUEAccepts(t, v)

LEMMA ConjunctsMean ==
  ASSUME NEW c \in Constraint, Proper(c)
  PROVE  Meant(c)
<1> DEFINE P == {d \in Constraint : Proper(d) => Meant(d)}
<1>1. ASSUME NEW d \in Constraint, \A i \in DOMAIN d.args : d.args[i] \in P
      PROVE  d \in P
  <2> SUFFICES ASSUME Proper(d) PROVE Meant(d)
    OBVIOUS
  <2>1. CASE Op(d) # "and"
    <3>1. \A t : Conjunct(t, d) <=> t = d
      BY <2>1, OnlyConjunct
    <3>2. d \in Parts(d)
      BY PartsIs
    <3>3. d.form # "and"
      BY <2>1 DEF Op
    <3> QED
      BY <2>1, <3>1, <3>2, <3>3 DEF Meant
  <2>2. CASE Op(d) = "and"
    <3>1. d.form = "and"
      <4>1. d.form \in {"and", "atLeast"}
        BY <2>2, ConstraintIs DEF Op, Form, Comparisons
      <4>2. d.form = "atLeast" => Kinds(d) = {"list"}
        BY LeafKinds
      <4> QED
        BY <4>1, <4>2 DEF Proper
    <3>2. ASSUME NEW i \in DOMAIN d.args
          PROVE  d.args[i] \in Constraint /\ Meant(d.args[i])
      <4>1. Proper(d.args[i])
        BY <3>1, AndKinds DEF Proper
      <4> QED
        BY <1>1, <4>1
    <3>3. \A t : Conjunct(t, d) <=> \E i \in DOMAIN d.args : Conjunct(t, d.args[i])
      BY <2>2, AndConjunct
    <3>4. ASSUME NEW t, Conjunct(t, d)
          PROVE  t \in Constraint /\ t \in Parts(d) /\ Op(t) # "and" /\ t.form \notin {"or", "default"}
      <4>1. PICK i \in DOMAIN d.args : Conjunct(t, d.args[i])
        BY <3>3, <3>4
      <4>2. PICK e \in Constraint : e = d.args[i] /\ Meant(e)
        BY <3>2
      <4>3. t \in Constraint /\ t \in Parts(e) /\ Op(t) # "and" /\ (e.form = "and" => t.form \notin {"or", "default"})
        BY <4>1, <4>2 DEF Meant
      <4>4. t \in Parts(d)
        BY <4>2, <4>3, PartsIs
      <4>5. e.form \notin {"or", "default"}
        BY <3>1, <4>2, FormAssumption
      <4>6. CASE e.form = "and"
        BY <4>3, <4>4, <4>6
      <4>7. CASE e.form # "and"
        <5>1. CASE Op(e) = "and"
          <6>1. e.form = "atLeast"
            BY <4>7, <5>1, ConstraintIs DEF Op, Form, Comparisons
          <6>2. Kinds(e) = {"list"}
            BY <6>1, LeafKinds
          <6> QED
            BY <3>1, <4>2, <6>2, AndKinds DEF Proper
        <5>2. CASE Op(e) # "and"
          BY <4>1, <4>2, <4>3, <4>4, <4>5, <5>2, OnlyConjunct
        <5> QED
          BY <5>1, <5>2
      <4> QED
        BY <4>6, <4>7
    <3>5. ASSUME NEW k
          PROVE  k \in Kinds(d) <=> \A t : Conjunct(t, d) => k \in Kinds(t)
      <4>1. k \in Kinds(d) <=> \A i \in DOMAIN d.args : k \in Kinds(d.args[i])
        BY <3>1, AndKinds
      <4>2. \A i \in DOMAIN d.args : k \in Kinds(d.args[i]) <=> \A t : Conjunct(t, d.args[i]) => k \in Kinds(t)
        BY <3>2 DEF Meant
      <4> QED
        BY <3>3, <4>1, <4>2
    <3>6. ASSUME NEW v \in Value
          PROVE  CUEAccepts(d, v) <=> \A t : Conjunct(t, d) => CUEAccepts(t, v)
      <4>1. CUEAccepts(d, v) <=> \A i \in DOMAIN d.args : CUEAccepts(d.args[i], v)
        BY <3>1, AndAccepts
      <4>2. \A i \in DOMAIN d.args : CUEAccepts(d.args[i], v) <=> \A t : Conjunct(t, d.args[i]) => CUEAccepts(t, v)
        BY <3>2 DEF Meant
      <4> QED
        BY <3>3, <4>1, <4>2
    <3> QED
      BY <3>4, <3>5, <3>6 DEF Meant
  <2> QED
    BY <2>1, <2>2
<1>2. P \in SUBSET Constraint
  OBVIOUS
<1> HIDE DEF P
<1>3. P = Constraint
  BY <1>1, <1>2, TreeInduction
<1> QED
  BY <1>3 DEF P

\* A bare type, be it the one a default is folded into, accepts what is of its
\* kinds.
LEMMA BareAccepts ==
  ASSUME NEW c \in Constraint, isBareType(c), Proper(c), NEW v \in Value
  PROVE  CUEAccepts(c, v) <=> CUEKind(v) \in Kinds(c)
<1>1. c.form \in {"type", "default"}
  <2>1. c.form \in {"type", "default", "list", "tuple"}
    BY ConstraintIs DEF isBareType, IsConcrete, Op, Form, Comparisons
  <2> QED
    BY <2>1, LeafKinds DEF Proper
<1>2. CASE c.form = "type"
  BY <1>2, LeafKinds, TypeAccepts
<1>3. CASE c.form = "default"
  <2>1. PICK lit \in Constraint, alt \in Constraint :
          /\ lit = c.args[1] /\ alt = c.args[2] /\ DOMAIN c.args = {1, 2}
          /\ lit.form = "lit" /\ alt.form \notin {"lit", "default"} /\ lit.kind \in Kinds(alt)
    <3>1. DOMAIN c.args = 1 .. 2
      BY <1>3, ConstraintIs, FormAssumption
    <3>2. 1 \in DOMAIN c.args /\ 2 \in DOMAIN c.args /\ DOMAIN c.args = {1, 2}
      BY <3>1
    <3>3. c.args[1] \in Constraint /\ c.args[2] \in Constraint
      BY <3>2, ConstraintIs
    <3> QED
      BY <1>3, <3>2, <3>3, FormAssumption DEF IsConcrete
  <2>2. Op(alt) = "noop"
    <3>1. Operands(c) = <<alt>>
      BY <1>3, <2>1 DEF Operands
    <3> QED
      BY <3>1 DEF isBareType, noOpWrapsConstraint
  <2>3. alt.form = "type"
    <3>1. alt.form \in {"type", "list", "tuple"}
      BY <2>1, <2>2, ConstraintIs DEF Op, Form, Comparisons
    <3>2. lit.kind # "list"
      BY ConstraintIs DEF Kind
    <3> QED
      BY <2>1, <3>1, <3>2, LeafKinds
  <2>4. \A k : k \in Kinds(c) <=> k \in Kinds(lit) \/ k \in Kinds(alt)
    BY <1>3, <2>1, OrKinds
  <2>5. Kinds(lit) = {lit.kind}
    BY <2>1, LeafKinds, FormAssumption DEF BasicKinds
  <2>6. \A k : k \in Kinds(c) <=> k \in Kinds(alt)
    BY <2>1, <2>4, <2>5
  <2>7. CUEAccepts(c, v) <=> CUEAccepts(lit, v) \/ CUEAccepts(alt, v)
    BY <1>3, <2>1, OrAccepts
  <2>8. CUEAccepts(alt, v) <=> CUEKind(v) \in Kinds(alt)
    BY <2>3, LeafKinds, TypeAccepts
  <2>9. CUEAccepts(lit, v) => CUEKind(v) \in Kinds(alt)
    BY <2>1, <2>5, AcceptedKind
  <2> QED
    BY <2>6, <2>7, <2>8, <2>9
<1> QED
  BY <1>1, <1>2, <1>3

\* All conjuncts bare: so is the constraint.
LEMMA BareConjuncts ==
  ASSUME NEW c \in Constraint, Proper(c), NEW v \in Value, \A t : Conjunct(t, c) => isBareType(t)
  PROVE  CUEAccepts(c, v) <=> CUEKind(v) \in Kinds(c)
<1>1. Meant(c)
  BY ConjunctsMean
<1>2. ASSUME NEW t, Conjunct(t, c)
      PROVE  CUEAccepts(t, v) <=> CUEKind(v) \in Kinds(t)
  <2>1. t \in Constraint /\ isBareType(t)
    BY <1>1, <1>2 DEF Meant
  <2>2. Proper(t)
    BY <1>1, <1>2 DEF Meant, Proper
  <2> QED
    BY <2>1, <2>2, BareAccepts
<1> QED
  BY <1>1, <1>2 DEF Meant

----------------------------------------------------------------------------
(* The fast path against CUE, a scalar at a time.                          *)

Native(v) == v.go \notin {"intText", "decText", "hugeText"}

\* Exact, of one number.
ExactFor(c, n) ==
  \/ \E d \in Parts(c) : d.form = "type" /\ d.kind = "int"
  \/ "float" \notin UNION {Kinds(d) : d \in Parts(c)}
  \/ (\A d \in Parts(c) : ToFloat(d.num) = d.num) /\ ToFloat(n) = n

\* A verdict about v is CUE's about c.
Agrees(w, c, v) ==
  w.handled =>
    IF v.go \in NonFinite THEN ~w.valid
    ELSE \/ w.valid <=> CUEAccepts(c, v)
         \/ ~ExactFor(c, v.n)
         \/ v.go = "uint" /\ {"int", "float"} \subseteq Kinds(c)

LEMMA GoKinds ==
  ASSUME NEW v, Native(v)
  PROVE  /\ CUEKind(v) = "int" <=> v.go \in {"int", "uint"}
         /\ CUEKind(v) = "float" <=> v.go \in {"float"} \cup NonFinite
         /\ CUEKind(v) = "string" <=> v.go = "string"
         /\ CUEKind(v) = "bool" <=> v.go = "bool"
BY DEF CUEKind, Native, NonFinite

LEMMA VerdictValid ==
  /\ pass.handled /\ pass.valid /\ ~fallbackToCUE.handled
  /\ \A code : fail(code).handled /\ ~fail(code).valid
  /\ \A op, n : outOfBound(op, n).handled /\ ~outOfBound(op, n).valid
  /\ \A s : failEnum(s).handled /\ ~failEnum(s).valid
BY DEF fallbackToCUE, pass, fail, outOfBound, failEnum, Verdict

\* What was passed is fine, what failed CUE rejects, what is left is CUE's.
LEMMA PassAgrees ==
  ASSUME NEW c, NEW v, v.go \notin NonFinite, CUEAccepts(c, v)
  PROVE  Agrees(pass, c, v)
BY VerdictValid DEF Agrees

LEMMA FailAgrees ==
  ASSUME NEW c, NEW v, NEW code, v.go \in NonFinite \/ ~CUEAccepts(c, v)
  PROVE  Agrees(fail(code), c, v)
BY VerdictValid DEF Agrees

LEMMA FallbackAgrees ==
  ASSUME NEW c, NEW v
  PROVE  Agrees(fallbackToCUE, c, v)
BY VerdictValid DEF Agrees

\* The verdict of validateFastIntType where the kinds say no.
LEMMA IntTypeAgrees ==
  ASSUME NEW c \in Constraint, NEW v \in Value, Native(v), Kinds(c) = {"int"}, v.go = "int" => CUEAccepts(c, v)
  PROVE  Agrees(validateFastIntType(v), c, v)
<1>1. CASE IsSigned(v)
  BY <1>1, PassAgrees DEF validateFastIntType, IsSigned, NonFinite
<1>2. CASE ~IsSigned(v) /\ IsFloat(v)
  <2>1. ~CUEAccepts(c, v)
    BY <1>2, AcceptedKind, GoKinds DEF IsFloat
  <2> QED
    BY <1>2, <2>1, FailAgrees DEF validateFastIntType
<1>3. CASE ~IsSigned(v) /\ ~IsFloat(v)
  BY <1>3, FallbackAgrees DEF validateFastIntType
<1> QED
  BY <1>1, <1>2, <1>3

LEMMA TypeAgrees ==
  ASSUME NEW c \in Constraint, NEW v \in Value, Native(v), NEW t,
         \/ t = "int" /\ Kinds(c) = {"int"}
         \/ t = "float" /\ Kinds(c) = {"float"}
         \/ t = "number" /\ Kinds(c) = {"int", "float"}
         \/ t \in {"string", "bool"} /\ Kinds(c) = {t},
         CUEAccepts(c, v) <=> CUEKind(v) \in Kinds(c)
  PROVE  Agrees(validateFast(TypeOnly(t), v), c, v)
<1>1. PICK d : d = TypeOnly(t) /\ d.kind = "type" /\ d.expect = t
  <2>1. TypeOnly(t).kind = "type" /\ TypeOnly(t).expect = t
    BY DEF TypeOnly, NoDescriptor
  <2> QED
    BY <2>1
<1>2. validateFast(d, v) = validateFastType(d, v)
  BY <1>1 DEF validateFast
<1>3. CASE t = "int"
  <2>1. validateFastType(d, v) = validateFastIntType(v)
    BY <1>1, <1>3 DEF validateFastType
  <2>2. Kinds(c) = {"int"}
    BY <1>3
  <2>3. v.go = "int" => CUEAccepts(c, v)
    BY <2>2, GoKinds
  <2> QED
    BY <1>1, <1>2, <2>1, <2>2, <2>3, IntTypeAgrees
<1>4. ASSUME "float" \in Kinds(c), v.go = "uint" => {"int", "float"} \subseteq Kinds(c) \/ ~CUEAccepts(c, v),
             Kinds(c) \subseteq {"int", "float"}, ~IsSigned(v) \/ ~CUEAccepts(c, v)
      PROVE  Agrees(validateFastFloatType(v), c, v)
  <2>1. CASE v.go = "float"
    <3>1. CUEAccepts(c, v)
      BY <1>4, <2>1, GoKinds
    <3>2. validateFastFloatType(v) = pass
      BY <2>1 DEF validateFastFloatType, IsFloat, validateFiniteFloat
    <3> QED
      BY <2>1, <3>1, <3>2, PassAgrees DEF NonFinite
  <2>2. CASE v.go \in NonFinite
    <3>1. \E code : validateFastFloatType(v) = fail(code)
      BY <2>2 DEF validateFastFloatType, IsFloat, validateFiniteFloat, NonFinite
    <3> QED
      BY <2>2, <3>1, FailAgrees
  <2>3. CASE v.go \notin {"float"} \cup NonFinite
    <3>1. validateFastFloatType(v) = fail("E1T01")
      BY <2>3 DEF validateFastFloatType, IsFloat
    <3>2. CASE CUEAccepts(c, v)
      <4>1. CUEKind(v) \in {"int", "float"}
        BY <1>4, <3>2
      <4>2. v.go = "uint"
        BY <1>4, <2>3, <3>2, <4>1, GoKinds DEF IsSigned
      <4> QED
        BY <1>4, <3>2, <4>2 DEF Agrees, NonFinite
    <3> QED
      BY <3>1, <3>2, FailAgrees
  <2> QED
    BY <2>1, <2>2, <2>3
<1>5. CASE t = "float"
  <2>1. validateFastType(d, v) = validateFastFloatType(v)
    BY <1>1, <1>5 DEF validateFastType
  <2>2. Kinds(c) = {"float"}
    BY <1>5
  <2>3. v.go \in {"int", "uint"} => ~CUEAccepts(c, v)
    BY <2>2, GoKinds
  <2> QED
    BY <1>1, <1>2, <1>4, <2>1, <2>2, <2>3 DEF IsSigned
<1>6. CASE t = "number"
  <2>1. validateFastType(d, v) = validateFastNumberType(v)
    BY <1>1, <1>6 DEF validateFastType
  <2>2. Kinds(c) = {"int", "float"}
    BY <1>6
  <2>3. CASE IsSigned(v)
    <3>1. CUEAccepts(c, v) /\ v.go \notin NonFinite
      BY <2>2, <2>3, GoKinds DEF IsSigned, NonFinite
    <3> QED
      BY <1>1, <1>2, <2>1, <2>3, <3>1, PassAgrees DEF validateFastNumberType
  <2>4. CASE ~IsSigned(v)
    BY <1>1, <1>2, <1>4, <2>1, <2>2, <2>4 DEF validateFastNumberType
  <2> QED
    BY <2>3, <2>4
<1>7. CASE t \in {"string", "bool"}
  <2>1. validateFastType(d, v) = IF v.go = t THEN pass ELSE fail("E1T01")
    BY <1>1, <1>7 DEF validateFastType
  <2>2. v.go = t <=> CUEAccepts(c, v)
    BY <1>7, GoKinds
  <2>3. v.go = t => v.go \notin NonFinite
    BY <1>7 DEF NonFinite
  <2> QED
    BY <1>1, <1>2, <2>1, <2>2, <2>3, PassAgrees, FailAgrees
<1> QED
  BY <1>3, <1>5, <1>6, <1>7

\* A regex beside bare types.
LEMMA RegexAgrees ==
  ASSUME NEW c \in Constraint, NEW v \in Value, Native(v), Kinds(c) = {"string"}, NEW p \in Constraint,
         Conjunct(p, c), p.form = "=~", \A t : Conjunct(t, c) => t = p \/ isBareType(t),
         NEW d, d.kind = "regex", d.regex = p.pat
  PROVE  Agrees(validateFast(d, v), c, v)
<1>1. Meant(c) /\ Proper(c)
  BY ConjunctsMean DEF Proper
<1>2. validateFast(d, v) = validateFastRegex(d, v)
  BY DEF validateFast
<1>3. CASE ~IsString(v)
  <2>1. ~CUEAccepts(c, v)
    BY <1>3, AcceptedKind, GoKinds DEF IsString
  <2> QED
    BY <1>2, <1>3, <2>1, FailAgrees DEF validateFastRegex
<1>4. CASE IsString(v)
  <2>1. v.go = "string" /\ v.go \notin NonFinite /\ CUEKind(v) = "string"
    BY <1>4, GoKinds DEF IsString, NonFinite
  <2>2. ASSUME NEW t, Conjunct(t, c), t # p
        PROVE  CUEAccepts(t, v)
    <3>1. t \in Constraint /\ isBareType(t) /\ "string" \in Kinds(t)
      BY <1>1, <2>2 DEF Meant
    <3>2. Proper(t)
      BY <3>1 DEF Proper
    <3> QED
      BY <2>1, <3>1, <3>2, BareAccepts
  <2>3. CUEAccepts(p, v) <=> v.s \in d.regex
    BY <2>1, PatternAccepts
  <2>4. CUEAccepts(c, v) <=> v.s \in d.regex
    BY <1>1, <2>2, <2>3 DEF Meant
  <2> QED
    BY <1>2, <1>4, <2>1, <2>4, PassAgrees, FailAgrees DEF validateFastRegex
<1> QED
  BY <1>3, <1>4

\* A disjunction of literals.
Literals(c, kinds) ==
  c.form = "or" /\ \A i \in DOMAIN c.args : c.args[i].form = "lit" /\ c.args[i].kind \in kinds

LEMMA EnumIs ==
  ASSUME NEW c \in Constraint, NEW kinds, extractEnums(c, kinds) # << >>
  PROVE  extractEnums(c, kinds) = c.args /\ Literals(c, kinds)
<1>1. Op(c) = "or" => c.form = "or"
  BY DEF Op
<1> QED
  BY <1>1 DEF extractEnums, Literals

LEMMA EnumAccepts ==
  ASSUME NEW c \in Constraint, NEW kinds, Literals(c, kinds), NEW v \in Value, v.go \notin NonFinite
  PROVE  CUEAccepts(c, v) <=>
           \E i \in DOMAIN c.args : c.args[i].kind = CUEKind(v) /\ c.args[i].num = v.n /\ c.args[i].str = v.s
<1>1. CUEAccepts(c, v) <=> \E i \in DOMAIN c.args : CUEAccepts(c.args[i], v)
  BY OrAccepts DEF Literals
<1>2. \A i \in DOMAIN c.args : CUEAccepts(c.args[i], v) <=> SameLiteral(c.args[i], v)
  BY ConstraintIs, LiteralAccepts DEF Literals
<1> QED
  BY <1>1, <1>2 DEF SameLiteral

\* The literals are of the kinds the disjunction admits.
LEMMA LiteralKinds ==
  ASSUME NEW c \in Constraint, NEW kinds, Literals(c, kinds), NEW i \in DOMAIN c.args
  PROVE  /\ c.args[i] \in Constraint /\ c.args[i].kind \in Kinds(c)
         /\ c.args[i] \in Parts(c)
<1>1. PICK lit \in Constraint : lit = c.args[i] /\ lit.form = "lit"
  BY ConstraintIs DEF Literals
<1>2. Kinds(lit) = {lit.kind}
  BY <1>1, LeafKinds, FormAssumption DEF BasicKinds
<1>3. lit.kind \in Kinds(c)
  BY <1>1, <1>2, OrKinds DEF Literals
<1>4. lit \in Parts(c)
  BY <1>1, PartsIs
<1> QED
  BY <1>1, <1>3, <1>4

LEMMA EnumOfParts ==
  ASSUME NEW t, NEW lits
  PROVE  EnumOf(t, lits).kind = "enum" /\ EnumOf(t, lits).expect = t /\ EnumOf(t, lits).enums = lits
BY DEF EnumOf, NoDescriptor

LEMMA StringEnumAgrees ==
  ASSUME NEW c \in Constraint, NEW v \in Value, Native(v), Literals(c, {"string"})
  PROVE  Agrees(validateFast(EnumOf("string", c.args), v), c, v)
<1>1. PICK d : d = EnumOf("string", c.args) /\ d.kind = "enum" /\ d.expect = "string" /\ d.enums = c.args
  BY EnumOfParts
<1>2. validateFast(d, v) = validateFastEnum(d, v)
  BY <1>1 DEF validateFast
<1>3. CASE ~IsString(v)
  <2>1. validateFastEnum(d, v) = fail("E1T01")
    BY <1>1, <1>3 DEF validateFastEnum
  <2>2. ASSUME v.go \notin NonFinite
        PROVE  ~CUEAccepts(c, v)
    <3>1. CUEKind(v) # "string"
      BY <1>3, GoKinds DEF IsString
    <3>2. \A i \in DOMAIN c.args : c.args[i].kind = "string"
      BY DEF Literals
    <3> QED
      BY <2>2, <3>1, <3>2, EnumAccepts
  <2> QED
    BY <1>1, <1>2, <2>1, <2>2, FailAgrees
<1>4. CASE IsString(v)
  <2>1. v.go \notin NonFinite /\ CUEKind(v) = "string"
    BY <1>4, GoKinds DEF IsString, NonFinite
  <2>2. CUEAccepts(c, v) <=> InEnum(d, v, v.n)
    <3>1. CUEAccepts(c, v) <=>
            \E i \in DOMAIN c.args : c.args[i].kind = CUEKind(v) /\ c.args[i].num = v.n /\ c.args[i].str = v.s
      BY <2>1, EnumAccepts
    <3>2. \A i \in DOMAIN c.args : c.args[i].kind = CUEKind(v)
      BY <2>1 DEF Literals
    <3> QED
      BY <1>1, <3>1, <3>2 DEF InEnum
  <2>3. \/ validateFastEnum(d, v) = pass /\ InEnum(d, v, v.n)
        \/ (\E s : validateFastEnum(d, v) = failEnum(s)) /\ ~InEnum(d, v, v.n)
    BY <1>1, <1>4 DEF validateFastEnum
  <2> QED
    BY <1>1, <1>2, <2>1, <2>2, <2>3, VerdictValid DEF Agrees
<1> QED
  BY <1>3, <1>4

LEMMA IntEnumAgrees ==
  ASSUME NEW c \in Constraint, NEW v \in Value, Native(v), Literals(c, {"int"}), Kinds(c) = {"int"}
  PROVE  Agrees(validateFast(EnumOf("int", c.args), v), c, v)
<1>1. PICK d : d = EnumOf("int", c.args) /\ d.kind = "enum" /\ d.expect = "int" /\ d.enums = c.args
  BY EnumOfParts
<1>2. validateFast(d, v) = validateFastEnum(d, v)
  BY <1>1 DEF validateFast
<1>3. CASE ~IsSigned(v)
  <2>1. validateFastEnum(d, v) = validateFastIntType(v)
    BY <1>1, <1>3 DEF validateFastEnum
  <2> QED
    BY <1>1, <1>2, <1>3, <2>1, IntTypeAgrees DEF IsSigned
<1>4. CASE IsSigned(v)
  <2>1. v.go \notin NonFinite /\ CUEKind(v) = "int"
    BY <1>4, GoKinds DEF IsSigned, NonFinite
  <2>2. CUEAccepts(c, v) <=> InEnum(d, v, v.n)
    <3>1. CUEAccepts(c, v) <=>
            \E i \in DOMAIN c.args : c.args[i].kind = CUEKind(v) /\ c.args[i].num = v.n /\ c.args[i].str = v.s
      BY <2>1, EnumAccepts
    <3>2. \A i \in DOMAIN c.args : c.args[i].kind = CUEKind(v)
      BY <2>1 DEF Literals
    <3> QED
      BY <1>1, <3>1, <3>2 DEF InEnum
  <2>3. \/ validateFastEnum(d, v) = pass /\ InEnum(d, v, v.n)
        \/ (\E s : validateFastEnum(d, v) = failEnum(s)) /\ ~InEnum(d, v, v.n)
    BY <1>1, <1>4 DEF validateFastEnum
  <2> QED
    BY <1>1, <1>2, <2>1, <2>2, <2>3, VerdictValid DEF Agrees
<1> QED
  BY <1>3, <1>4

\* Where floats are welcome and no part is a bare int, exactness is about the
\* numbers.
LEMMA ExactNumbers ==
  ASSUME NEW c \in Constraint, "float" \in Kinds(c), \A d \in Parts(c) : ~(d.form = "type" /\ d.kind = "int"),
         NEW n, ExactFor(c, n)
  PROVE  (\A d \in Parts(c) : ToFloat(d.num) = d.num) /\ ToFloat(n) = n
<1>1. c \in Parts(c)
  BY PartsIs
<1>2. "float" \in UNION {Kinds(d) : d \in Parts(c)}
  BY <1>1
<1> QED
  BY <1>2 DEF ExactFor

Held(lits) == [i \in DOMAIN lits |-> Renumbered(lits[i], numVal(lits[i]))]

LEMMA HeldIs ==
  ASSUME NEW c \in Constraint, NEW i \in DOMAIN c.args
  PROVE  /\ DOMAIN Held(c.args) = DOMAIN c.args
         /\ Held(c.args)[i].num = ToFloat(c.args[i].num) /\ Held(c.args)[i].str = c.args[i].str
<1>1. PICK lit \in Constraint : lit = c.args[i]
  BY ConstraintIs
<1>2. Renumbered(lit, numVal(lit)).num = numVal(lit) /\ Renumbered(lit, numVal(lit)).str = lit.str
  BY ConstraintIs DEF Renumbered
<1> QED
  BY <1>1, <1>2 DEF Held, numVal

LEMMA FloatEnumAgrees ==
  ASSUME NEW c \in Constraint, NEW v \in Value, Native(v), Literals(c, {"int", "float"}), Kinds(c) = {"float"}
  PROVE  Agrees(validateFast(EnumOf("float", Held(c.args)), v), c, v)
<1>1. PICK d : d = EnumOf("float", Held(c.args)) /\ d.kind = "enum" /\ d.expect = "float" /\ d.enums = Held(c.args)
  BY EnumOfParts
<1>2. validateFast(d, v) = validateFastEnum(d, v)
  BY <1>1 DEF validateFast
<1>3. CASE v.go # "float"
  <2>1. validateFastEnum(d, v) = fail("E1T01")
    BY <1>1, <1>3 DEF validateFastEnum
  <2>2. v.go \notin NonFinite => ~CUEAccepts(c, v)
    BY <1>3, AcceptedKind, GoKinds
  <2> QED
    BY <1>1, <1>2, <2>1, <2>2, FailAgrees
<1>4. CASE v.go = "float"
  <2>1. v.go \notin NonFinite /\ CUEKind(v) = "float"
    BY <1>4, GoKinds DEF NonFinite
  <2>2. \A i \in DOMAIN c.args : c.args[i].kind = "float" /\ c.args[i] \in Parts(c)
    BY LiteralKinds
  <2>3. CUEAccepts(c, v) <=> \E i \in DOMAIN c.args : c.args[i].num = v.n /\ c.args[i].str = v.s
    BY <2>1, <2>2, EnumAccepts
  <2>4. InEnum(d, v, ToFloat(v.n)) <=>
          \E i \in DOMAIN c.args : ToFloat(c.args[i].num) = ToFloat(v.n) /\ c.args[i].str = v.s
    <3>1. DOMAIN Held(c.args) = DOMAIN c.args
      BY DEF Held
    <3> QED
      BY <1>1, <3>1, HeldIs DEF InEnum
  <2>5. ASSUME NEW e \in Parts(c) PROVE ~(e.form = "type" /\ e.kind = "int")
    <3>1. PICK i \in DOMAIN c.args : e = c \/ e \in Parts(c.args[i])
      <4>1. 1 \in DOMAIN c.args
        BY FirstArg DEF Literals
      <4> QED
        BY <4>1, PartsIs
    <3>2. c.args[i] \in Constraint /\ c.args[i].form = "lit"
      BY LiteralKinds DEF Literals
    <3>3. Parts(c.args[i]) = {c.args[i]}
      <4>1. c.args[i].args = << >>
        BY <3>2, FormAssumption
      <4> QED
        BY <3>2, <4>1, PartsIs
    <3> QED
      BY <3>1, <3>2, <3>3 DEF Literals
  <2>6. ExactFor(c, v.n) => (CUEAccepts(c, v) <=> InEnum(d, v, ToFloat(v.n)))
    <3>1. SUFFICES ASSUME ExactFor(c, v.n) PROVE CUEAccepts(c, v) <=> InEnum(d, v, ToFloat(v.n))
      OBVIOUS
    <3>2. (\A e \in Parts(c) : ToFloat(e.num) = e.num) /\ ToFloat(v.n) = v.n
      BY <2>5, <3>1, ExactNumbers
    <3>3. \A i \in DOMAIN c.args : ToFloat(c.args[i].num) = c.args[i].num
      BY <2>2, <3>2
    <3> QED
      BY <2>3, <2>4, <3>2, <3>3
  <2>7. \/ validateFastEnum(d, v) = pass /\ InEnum(d, v, ToFloat(v.n))
        \/ validateFastEnum(d, v) = failEnum(<< >>) /\ ~InEnum(d, v, ToFloat(v.n))
    BY <1>1, <1>4 DEF validateFastEnum
  <2> QED
    BY <1>1, <1>2, <2>1, <2>6, <2>7, VerdictValid DEF Agrees
<1> QED
  BY <1>3, <1>4

----------------------------------------------------------------------------
(* A range.                                                                *)

\* What a part is made of is a part too.
LEMMA PartsClosed ==
  ASSUME NEW c \in Constraint, NEW t \in Parts(c)
  PROVE  Parts(t) \subseteq Parts(c)
<1> DEFINE P == {d \in Constraint : t \in Parts(d) => Parts(t) \subseteq Parts(d)}
<1>1. ASSUME NEW d \in Constraint, \A i \in DOMAIN d.args : d.args[i] \in P
      PROVE  d \in P
  <2> SUFFICES ASSUME t \in Parts(d) PROVE Parts(t) \subseteq Parts(d)
    OBVIOUS
  <2>1. CASE t = d
    BY <2>1
  <2>2. CASE t # d
    <3>1. PICK i \in DOMAIN d.args : t \in Parts(d.args[i])
      BY <2>2, PartsIs
    <3>2. Parts(t) \subseteq Parts(d.args[i])
      BY <1>1, <3>1
    <3>3. Parts(d.args[i]) \subseteq Parts(d)
      BY PartsIs
    <3> QED
      BY <3>2, <3>3
  <2> QED
    BY <2>1, <2>2
<1>2. P \in SUBSET Constraint
  OBVIOUS
<1> HIDE DEF P
<1>3. P = Constraint
  BY <1>1, <1>2, TreeInduction
<1> QED
  BY <1>3 DEF P

\* Only types and bounds are conjoined.
Ranged(c) == \A t : Conjunct(t, c) => t.form \in {"type"} \cup Comparisons

\* The number of a bound.
LEMMA BoundIs ==
  ASSUME NEW t \in Constraint, t.form \in Comparisons
  PROVE  /\ DOMAIN t.args = {1} /\ t.args[1] \in Constraint /\ t.args[1].form = "lit"
         /\ Parts(t.args[1]) = {t.args[1]} /\ Parts(t) = {t, t.args[1]}
<1>1. Len(t.args) = 1 /\ IsConcrete(t.args[1])
  BY FormAssumption
<1>2. DOMAIN t.args = {1} /\ t.args[1] \in Constraint
  BY <1>1, ConstraintIs
<1>3. PICK lit \in Constraint : lit = t.args[1] /\ lit.form = "lit" /\ DOMAIN lit.args = {}
  <2>1. t.args[1].form = "lit" /\ t.args[1].args = << >>
    BY <1>1, <1>2, FormAssumption DEF IsConcrete
  <2> QED
    BY <1>2, <2>1
<1>4. Parts(lit) = {lit}
  BY <1>3, PartsIs
<1>5. Parts(t) = {t} \cup UNION {Parts(t.args[i]) : i \in {1}}
  BY <1>2, PartsIs
<1> QED
  BY <1>2, <1>3, <1>4, <1>5

LEMMA RangedTypes ==
  ASSUME NEW c \in Constraint, Proper(c), Ranged(c), NEW e \in Parts(c), e.form = "type"
  PROVE  Conjunct(e, c)
<1> DEFINE P == {d \in Constraint : Proper(d) /\ Ranged(d) /\ e \in Parts(d) => Conjunct(e, d)}
<1>1. ASSUME NEW d \in Constraint, \A i \in DOMAIN d.args : d.args[i] \in P
      PROVE  d \in P
  <2> SUFFICES ASSUME Proper(d), Ranged(d), e \in Parts(d) PROVE Conjunct(e, d)
    OBVIOUS
  <2>1. CASE Op(d) # "and"
    <3>1. d.form \in {"type"} \cup Comparisons
      BY <2>1, OnlyConjunct DEF Ranged
    <3>2. e = d
      <4>1. CASE d.form = "type"
        <5>1. DOMAIN d.args = {}
          BY <4>1, FormAssumption
        <5> QED
          BY <5>1, PartsIs
      <4>2. CASE d.form \in Comparisons
        <5>1. e \in {d, d.args[1]} /\ d.args[1].form = "lit"
          BY <4>2, BoundIs
        <5> QED
          BY <5>1
      <4> QED
        BY <3>1, <4>1, <4>2
    <3> QED
      BY <2>1, <3>2, OnlyConjunct
  <2>2. CASE Op(d) = "and"
    <3>1. d.form = "and"
      <4>1. d.form \in {"and", "atLeast"}
        BY <2>2, ConstraintIs DEF Op, Form, Comparisons
      <4>2. d.form = "atLeast" => Kinds(d) = {"list"}
        BY LeafKinds
      <4> QED
        BY <4>1, <4>2 DEF Proper
    <3>2. PICK i \in DOMAIN d.args : e \in Parts(d.args[i])
      <4>1. e # d
        BY <3>1
      <4> QED
        BY <4>1, PartsIs
    <3>3. \A t : Conjunct(t, d) <=> \E j \in DOMAIN d.args : Conjunct(t, d.args[j])
      BY <2>2, AndConjunct
    <3>4. Proper(d.args[i])
      BY <3>1, AndKinds DEF Proper
    <3>5. Ranged(d.args[i])
      BY <3>3 DEF Ranged
    <3> QED
      BY <1>1, <3>2, <3>3, <3>4, <3>5
  <2> QED
    BY <2>1, <2>2
<1>2. P \in SUBSET Constraint
  OBVIOUS
<1> HIDE DEF P
<1>3. P = Constraint
  BY <1>1, <1>2, TreeInduction
<1> QED
  BY <1>3 DEF P

\* A number the descriptor holds as it is written.
Holds(useInt64, lit) == useInt64 \/ ToFloat(lit.num) = lit.num

Limits == {{">", ">="}, {"<", "<="}}

\* The bound of a side is the only one, and it is the descriptor's.
LEMMA LimitIs ==
  ASSUME NEW c \in Constraint, NEW useInt64 \in BOOLEAN, NEW ops \in Limits
  PROVE  \/ /\ LastLimit(c, useInt64, ops) = NoLimit
            /\ \A t : Conjunct(t, c) => Op(t) \notin ops
         \/ \E t : /\ Conjunct(t, c) /\ Op(t) \in ops
                   /\ \A u : Conjunct(u, c) /\ Op(u) \in ops => u = t
                   /\ LastLimit(c, useInt64, ops) = setFastRangeBound(useInt64, t)
<1>1. PICK parts \in Seq(Constraint) : parts = Conjuncts(c)
  BY ConjunctsIs
<1>2. PICK K : K = Conjoined(c, ops)
  OBVIOUS
<1>3. K = {i \in DOMAIN parts : Op(parts[i]) \in ops}
  BY <1>1, <1>2 DEF Conjoined
<1>4. CASE K = {}
  <2>1. LastLimit(c, useInt64, ops) = NoLimit
    BY <1>2, <1>4 DEF LastLimit
  <2>2. \A t : Conjunct(t, c) => Op(t) \notin ops
    BY <1>1, <1>3, <1>4 DEF Conjunct
  <2> QED
    BY <2>1, <2>2
<1>5. CASE K # {}
  <2>1. PICK k \in K : TRUE
    BY <1>5
  <2>2. \A j \in K : j = k
    BY <1>2, BoundsAssumption DEF Limits
  <2>3. k \in Nat
    BY <1>3
  <2>4. (CHOOSE i \in K : \A j \in K : j <= i) = k
    <3>1. k <= k
      BY <2>3
    <3>2. \A i \in K : (\A j \in K : j <= i) <=> i = k
      BY <2>2, <3>1
    <3> QED
      BY <2>1, <3>2
  <2>5. LastLimit(c, useInt64, ops) = setFastRangeBound(useInt64, parts[k])
    BY <1>1, <1>2, <1>5, <2>4 DEF LastLimit
  <2>6. Conjunct(parts[k], c) /\ Op(parts[k]) \in ops
    BY <1>1, <1>3 DEF Conjunct
  <2>7. \A u : Conjunct(u, c) /\ Op(u) \in ops => u = parts[k]
    BY <1>1, <1>3, <2>2 DEF Conjunct
  <2> QED
    BY <2>5, <2>6, <2>7
<1> QED
  BY <1>4, <1>5

RangeOver(expect, useInt64, min, max) ==
  [NoDescriptor EXCEPT !.kind = "range", !.expect = expect, !.useInt64 = useInt64, !.min = min, !.max = max]

LEMMA RangeOverIs ==
  ASSUME NEW expect, NEW useInt64, NEW min, NEW max
  PROVE  /\ RangeOver(expect, useInt64, min, max).kind = "range"
         /\ RangeOver(expect, useInt64, min, max).expect = expect
         /\ RangeOver(expect, useInt64, min, max).min = min
         /\ RangeOver(expect, useInt64, min, max).max = max
BY Zenon DEF RangeOver, NoDescriptor

\* A range is extracted from a conjunction whose bounds it can hold.
LEMMA RangeParts ==
  ASSUME NEW c, NEW expect, extractNumericRange(c, expect) # NoDescriptor
  PROVE  LET d == extractNumericRange(c, expect)
             useInt64 == expect = "int"
         IN  /\ Op(c) = "and" /\ ExactBounds(c, useInt64)
             /\ d.kind = "range" /\ d.expect = expect
             /\ d.min = LastLimit(c, useInt64, {">", ">="}) /\ d.max = LastLimit(c, useInt64, {"<", "<="})
<1> DEFINE useInt64 == expect = "int"
           min == LastLimit(c, useInt64, {">", ">="})
           max == LastLimit(c, useInt64, {"<", "<="})
<1>1. Op(c) = "and" /\ ExactBounds(c, useInt64)
  BY Zenon DEF extractNumericRange
<1>2. extractNumericRange(c, expect) = RangeOver(expect, useInt64, min, max)
  BY Zenon DEF extractNumericRange, RangeOver
<1> HIDE DEF min, max
<1>3. /\ extractNumericRange(c, expect).kind = "range" /\ extractNumericRange(c, expect).expect = expect
      /\ extractNumericRange(c, expect).min = min /\ extractNumericRange(c, expect).max = max
  BY <1>2, RangeOverIs
<1> QED
  BY <1>1, <1>3 DEF min, max

LEMMA WithinIs ==
  ASSUME NEW d, NEW n
  PROVE  /\ WithinRange(d, n).handled
         /\ WithinRange(d, n).valid <=> ~BreaksMin(d, n) /\ ~BreaksMax(d, n)
<1>1. CASE BreaksMin(d, n)
  BY <1>1, VerdictValid DEF WithinRange
<1>2. CASE ~BreaksMin(d, n) /\ BreaksMax(d, n)
  BY <1>2, VerdictValid DEF WithinRange
<1>3. CASE ~BreaksMin(d, n) /\ ~BreaksMax(d, n)
  BY <1>3, VerdictValid DEF WithinRange
<1> QED
  BY <1>1, <1>2, <1>3

\* The conjuncts of a range that are bounds, as the descriptor holds them.
Bound(t, c) == Conjunct(t, c) /\ t.form \in Comparisons

LEMMA BoundOp ==
  ASSUME NEW t
  PROVE  /\ t.form \in Comparisons => Op(t) = t.form
         /\ Op(t) \in Comparisons => t.form \in Comparisons
BY DEF Op, Comparisons

LEMMA HeldBound ==
  ASSUME NEW t, t.form \in Comparisons, NEW useInt64 \in BOOLEAN, Holds(useInt64, t.args[1])
  PROVE  /\ setFastRangeBound(useInt64, t).set
         /\ setFastRangeBound(useInt64, t).excl <=> t.form \in {">", "<"}
         /\ setFastRangeBound(useInt64, t).n = t.args[1].num
<1>1. (IF useInt64 THEN t.args[1].num ELSE numVal(t.args[1])) = t.args[1].num
  BY DEF Holds, numVal
<1>2. PICK strict : strict = (t.form \in {">", "<"})
  OBVIOUS
<1>3. PICK m : m = t.args[1].num
  OBVIOUS
<1>4. setFastRangeBound(useInt64, t) = [set |-> TRUE, excl |-> strict, n |-> m]
  BY <1>1, <1>2, <1>3, BoundOp DEF setFastRangeBound
<1>5. /\ [set |-> TRUE, excl |-> strict, n |-> m].set
      /\ [set |-> TRUE, excl |-> strict, n |-> m].excl = strict
      /\ [set |-> TRUE, excl |-> strict, n |-> m].n = m
  OBVIOUS
<1> QED
  BY <1>2, <1>3, <1>4, <1>5

LEMMA SideHolds ==
  ASSUME NEW c \in Constraint, NEW useInt64 \in BOOLEAN, NEW ops \in Limits, Proper(c),
         \A t : Bound(t, c) => Holds(useInt64, t.args[1])
  PROVE  LET l == LastLimit(c, useInt64, ops) IN
         \/ ~l.set /\ \A t : Bound(t, c) => t.form \notin ops
         \/ \E t : /\ Bound(t, c) /\ t.form \in ops
                   /\ \A u : Bound(u, c) /\ u.form \in ops => u = t
                   /\ t.args[1].num \in Int
                   /\ l.set /\ l.n = t.args[1].num /\ (l.excl <=> t.form \in {">", "<"})
<1>1. ops \subseteq Comparisons
  BY DEF Limits, Comparisons
<1>2. PICK l : l = LastLimit(c, useInt64, ops)
  OBVIOUS
<1>3. CASE l = NoLimit /\ \A t : Conjunct(t, c) => Op(t) \notin ops
  <2>1. ~l.set
    BY <1>3 DEF NoLimit
  <2>2. \A t : Bound(t, c) => t.form \notin ops
    BY <1>3, BoundOp DEF Bound
  <2> QED
    BY <1>2, <2>1, <2>2
<1>4. CASE \E t : /\ Conjunct(t, c) /\ Op(t) \in ops
                  /\ \A u : Conjunct(u, c) /\ Op(u) \in ops => u = t
                  /\ l = setFastRangeBound(useInt64, t)
  <2>1. PICK t : /\ Conjunct(t, c) /\ Op(t) \in ops
                 /\ \A u : Conjunct(u, c) /\ Op(u) \in ops => u = t
                 /\ l = setFastRangeBound(useInt64, t)
    BY <1>4
  <2>2. Bound(t, c) /\ t.form \in ops
    BY <1>1, <2>1, BoundOp DEF Bound
  <2>3. l.set /\ l.n = t.args[1].num /\ (l.excl <=> t.form \in {">", "<"})
    BY <2>1, <2>2, HeldBound DEF Bound
  <2>4. \A u : Bound(u, c) /\ u.form \in ops => u = t
    BY <2>1, BoundOp DEF Bound
  <2>5. t.args[1].num \in Int
    <3>1. t \in Constraint
      BY <2>1, ConjunctsMean DEF Meant
    <3>2. t.args[1] \in Constraint
      BY <2>2, <3>1, BoundIs DEF Bound
    <3> QED
      BY <3>2, ConstraintIs
  <2> QED
    BY <1>2, <2>2, <2>3, <2>4, <2>5
<1> QED
  BY <1>2, <1>3, <1>4, LimitIs

\* A number is within the range the descriptor holds just when it is within
\* every bound.
LEMMA WithinBounds ==
  ASSUME NEW c \in Constraint, NEW useInt64 \in BOOLEAN, Proper(c),
         \A t : Bound(t, c) => Holds(useInt64, t.args[1]),
         NEW d, d.min = LastLimit(c, useInt64, {">", ">="}), d.max = LastLimit(c, useInt64, {"<", "<="}),
         NEW n \in Int
  PROVE  WithinRange(d, n).valid <=> \A t : Bound(t, c) => Compares(t.form, n, t.args[1].num)
<1>1. ~BreaksMin(d, n) <=> \A t : Bound(t, c) /\ t.form \in {">", ">="} => Compares(t.form, n, t.args[1].num)
  <2>1. PICK ops \in Limits : ops = {">", ">="}
    BY DEF Limits
  <2>2. CASE ~d.min.set /\ \A t : Bound(t, c) => t.form \notin ops
    BY <2>1, <2>2 DEF BreaksMin
  <2>3. CASE \E t : /\ Bound(t, c) /\ t.form \in ops
                    /\ \A u : Bound(u, c) /\ u.form \in ops => u = t
                    /\ t.args[1].num \in Int
                    /\ d.min.set /\ d.min.n = t.args[1].num /\ (d.min.excl <=> t.form \in {">", "<"})
    <3>1. PICK t : /\ Bound(t, c) /\ t.form \in ops
                   /\ \A u : Bound(u, c) /\ u.form \in ops => u = t
                   /\ t.args[1].num \in Int
                   /\ d.min.set /\ d.min.n = t.args[1].num /\ (d.min.excl <=> t.form \in {">", "<"})
      BY <2>3
    <3>2. PICK m \in Int : m = t.args[1].num
      BY <3>1
    <3>3. CASE t.form = ">"
      <4>1. BreaksMin(d, n) <=> n <= m
        BY <3>1, <3>2, <3>3 DEF BreaksMin
      <4>2. Compares(t.form, n, m) <=> n > m
        BY <3>3 DEF Compares
      <4>3. ~BreaksMin(d, n) <=> Compares(t.form, n, m)
        BY <4>1, <4>2
      <4> QED
        BY <2>1, <3>1, <3>2, <4>3
    <3>4. CASE t.form = ">="
      <4>1. BreaksMin(d, n) <=> n < m
        BY <3>1, <3>2, <3>4 DEF BreaksMin
      <4>2. Compares(t.form, n, m) <=> n >= m
        BY <3>4 DEF Compares
      <4>3. ~BreaksMin(d, n) <=> Compares(t.form, n, m)
        BY <4>1, <4>2
      <4> QED
        BY <2>1, <3>1, <3>2, <4>3
    <3> QED
      BY <2>1, <3>1, <3>3, <3>4
  <2> QED
    BY <2>1, <2>2, <2>3, SideHolds
<1>2. ~BreaksMax(d, n) <=> \A t : Bound(t, c) /\ t.form \in {"<", "<="} => Compares(t.form, n, t.args[1].num)
  <2>1. PICK ops \in Limits : ops = {"<", "<="}
    BY DEF Limits
  <2>2. CASE ~d.max.set /\ \A t : Bound(t, c) => t.form \notin ops
    BY <2>1, <2>2 DEF BreaksMax
  <2>3. CASE \E t : /\ Bound(t, c) /\ t.form \in ops
                    /\ \A u : Bound(u, c) /\ u.form \in ops => u = t
                    /\ t.args[1].num \in Int
                    /\ d.max.set /\ d.max.n = t.args[1].num /\ (d.max.excl <=> t.form \in {">", "<"})
    <3>1. PICK t : /\ Bound(t, c) /\ t.form \in ops
                   /\ \A u : Bound(u, c) /\ u.form \in ops => u = t
                   /\ t.args[1].num \in Int
                   /\ d.max.set /\ d.max.n = t.args[1].num /\ (d.max.excl <=> t.form \in {">", "<"})
      BY <2>3
    <3>2. PICK m \in Int : m = t.args[1].num
      BY <3>1
    <3>3. CASE t.form = "<"
      <4>1. BreaksMax(d, n) <=> n >= m
        BY <3>1, <3>2, <3>3 DEF BreaksMax
      <4>2. Compares(t.form, n, m) <=> n < m
        BY <3>3 DEF Compares
      <4>3. ~BreaksMax(d, n) <=> Compares(t.form, n, m)
        BY <4>1, <4>2
      <4> QED
        BY <2>1, <3>1, <3>2, <4>3
    <3>4. CASE t.form = "<="
      <4>1. BreaksMax(d, n) <=> n > m
        BY <3>1, <3>2, <3>4 DEF BreaksMax
      <4>2. Compares(t.form, n, m) <=> n <= m
        BY <3>4 DEF Compares
      <4>3. ~BreaksMax(d, n) <=> Compares(t.form, n, m)
        BY <4>1, <4>2
      <4> QED
        BY <2>1, <3>1, <3>2, <4>3
    <3> QED
      BY <2>1, <3>1, <3>3, <3>4
  <2> QED
    BY <2>1, <2>2, <2>3, SideHolds
<1>3. \A t : Bound(t, c) => t.form \in {">", ">="} \/ t.form \in {"<", "<="}
  BY DEF Bound, Comparisons
<1> QED
  BY <1>1, <1>2, <1>3, WithinIs

LEMMA RangedIs ==
  ASSUME NEW c \in Constraint, NEW useInt64, Proper(c), Op(c) = "and", ExactBounds(c, useInt64)
  PROVE  /\ Ranged(c)
         /\ \A t : Bound(t, c) => Representable(useInt64, t.args[1])
<1>1. Meant(c)
  BY ConjunctsMean
<1>2. c.form = "and"
  <2>1. c.form \in {"and", "atLeast"}
    BY ConstraintIs DEF Op, Form, Comparisons
  <2>2. c.form = "atLeast" => Kinds(c) = {"list"}
    BY LeafKinds
  <2> QED
    BY <2>1, <2>2 DEF Proper
<1>3. ASSUME NEW t, Conjunct(t, c)
      PROVE  IF Op(t) \in Comparisons THEN Representable(useInt64, t.args[1]) ELSE Op(t) = "noop" /\ ~IsConcrete(t)
  <2>1. PICK k \in DOMAIN Conjuncts(c) : Conjuncts(c)[k] = t
    BY <1>3 DEF Conjunct
  <2> QED
    BY <2>1 DEF ExactBounds
<1>4. ASSUME NEW t, Conjunct(t, c), t.form \notin Comparisons
      PROVE  t.form = "type"
  <2>1. t \in Constraint /\ t.form \notin {"or", "default"}
    BY <1>1, <1>2, <1>4 DEF Meant
  <2>2. Op(t) = "noop" /\ ~IsConcrete(t)
    BY <1>3, <1>4, BoundOp
  <2>3. t.form \in {"type", "list", "tuple"}
    BY <2>1, <2>2, ConstraintIs DEF Op, IsConcrete, Form, Comparisons
  <2>4. Proper(t)
    BY <1>1, <1>4 DEF Meant, Proper
  <2> QED
    BY <2>1, <2>3, <2>4, LeafKinds DEF Proper
<1> QED
  BY <1>3, <1>4, BoundOp DEF Ranged, Bound

\* Of the kind, a number is accepted when it is within every bound.
LEMMA RangeAccepts ==
  ASSUME NEW c \in Constraint, Proper(c), Ranged(c),
         NEW v \in Value, v.go \notin NonFinite, CUEKind(v) \in Kinds(c)
  PROVE  CUEAccepts(c, v) <=> \A t : Bound(t, c) => Compares(t.form, v.n, t.args[1].num)
<1>1. Meant(c)
  BY ConjunctsMean
<1>2. ASSUME NEW t, Conjunct(t, c)
      PROVE  CUEAccepts(t, v) <=> (t.form \in Comparisons => Compares(t.form, v.n, t.args[1].num))
  <2>1. t \in Constraint /\ CUEKind(v) \in Kinds(t) /\ t.form \in {"type"} \cup Comparisons
    BY <1>1, <1>2 DEF Meant, Ranged
  <2>2. CASE t.form \in Comparisons
    <3>1. CUEKind(v) \in {"int", "float"}
      BY <2>1, <2>2, LeafKinds
    <3> QED
      BY <2>1, <2>2, <3>1, BoundAccepts
  <2>3. CASE t.form \notin Comparisons
    <3>1. t.form = "type"
      BY <2>1, <2>3
    <3>2. CUEAccepts(t, v)
      BY <2>1, <3>1, LeafKinds, TypeAccepts
    <3> QED
      BY <2>3, <3>2
  <2> QED
    BY <2>2, <2>3
<1> QED
  BY <1>1, <1>2 DEF Meant, Bound

\* A range that welcomes floats mentions no bare int.
LEMMA NoBareInt ==
  ASSUME NEW c \in Constraint, Proper(c), Ranged(c), "float" \in Kinds(c), NEW e \in Parts(c)
  PROVE  ~(e.form = "type" /\ e.kind = "int")
<1> SUFFICES ASSUME e.form = "type", e.kind = "int" PROVE FALSE
  OBVIOUS
<1>1. Conjunct(e, c)
  BY RangedTypes
<1>2. e \in Constraint /\ "float" \in Kinds(e)
  BY <1>1, ConjunctsMean DEF Meant
<1>3. Kinds(e) = {"int"}
  BY <1>2, LeafKinds DEF BasicKinds
<1> QED
  BY <1>2, <1>3

\* Where exactness matters, the bounds are held as they are written.
LEMMA BoundsHeld ==
  ASSUME NEW c \in Constraint, Proper(c), Ranged(c), "float" \in Kinds(c), NEW n, ExactFor(c, n)
  PROVE  ToFloat(n) = n /\ \A t : Bound(t, c) => Holds(FALSE, t.args[1])
<1>1. (\A d \in Parts(c) : ToFloat(d.num) = d.num) /\ ToFloat(n) = n
  BY NoBareInt, ExactNumbers
<1>2. ASSUME NEW t, Bound(t, c)
      PROVE  t.args[1] \in Parts(c)
  <2>1. t \in Constraint /\ t \in Parts(c) /\ t.form \in Comparisons
    BY <1>2, ConjunctsMean DEF Meant, Bound
  <2>2. t.args[1] \in Parts(t)
    BY <2>1, BoundIs
  <2> QED
    BY <2>1, <2>2, PartsClosed
<1> QED
  BY <1>1, <1>2 DEF Holds

LEMMA ValueIs ==
  ASSUME NEW v \in Value
  PROVE  v.n \in Int /\ v.s \in Seq(Letter) /\ v.go \in GoType
BY ValueAssumption

LEMMA RangeAgrees ==
  ASSUME NEW c \in Constraint, NEW v \in Value, Native(v), NEW expect,
         \/ expect = "int" /\ Kinds(c) = {"int"}
         \/ expect = "float" /\ Kinds(c) = {"float"}
         \/ expect = "number" /\ Kinds(c) = {"int", "float"},
         extractNumericRange(c, expect) # NoDescriptor
  PROVE  Agrees(validateFast(extractNumericRange(c, expect), v), c, v)
<1>1. PICK d : d = extractNumericRange(c, expect)
  OBVIOUS
<1>2. PICK useInt64 \in BOOLEAN : useInt64 = (expect = "int")
  OBVIOUS
<1>3. /\ Op(c) = "and" /\ ExactBounds(c, useInt64)
      /\ d.kind = "range" /\ d.expect = expect
      /\ d.min = LastLimit(c, useInt64, {">", ">="}) /\ d.max = LastLimit(c, useInt64, {"<", "<="})
  BY <1>1, <1>2, RangeParts
<1>4. Proper(c)
  BY DEF Proper
<1>5. Ranged(c) /\ \A t : Bound(t, c) => Representable(useInt64, t.args[1])
  BY <1>3, <1>4, RangedIs
<1>6. validateFast(d, v) = validateFastRange(d, v)
  BY <1>3 DEF validateFast
<1>7. CASE expect = "int"
  <2>1. CASE ~IsSigned(v)
    <3>1. validateFastRange(d, v) = validateFastIntType(v)
      BY <1>3, <1>7, <2>1 DEF validateFastRange
    <3> QED
      BY <1>1, <1>6, <1>7, <2>1, <3>1, IntTypeAgrees DEF IsSigned
  <2>2. CASE IsSigned(v)
    <3>1. v.go \notin NonFinite /\ CUEKind(v) \in Kinds(c)
      BY <1>7, <2>2, GoKinds DEF IsSigned, NonFinite
    <3>2. validateFastRange(d, v) = WithinRange(d, v.n)
      BY <1>3, <1>7, <2>2 DEF validateFastRange
    <3>3. \A t : Bound(t, c) => Holds(useInt64, t.args[1])
      BY <1>2, <1>7 DEF Holds
    <3>4. WithinRange(d, v.n).valid <=> CUEAccepts(c, v)
      BY <1>3, <1>4, <1>5, <3>1, <3>3, ValueIs, WithinBounds, RangeAccepts
    <3> QED
      BY <1>1, <1>6, <3>1, <3>2, <3>4, WithinIs DEF Agrees
  <2> QED
    BY <2>1, <2>2
<1>8. CASE expect \in {"float", "number"}
  <2>1. validateFastRange(d, v) = validateFloatRange(d, v)
    BY <1>3, <1>8 DEF validateFastRange
  <2>2. CASE rejectIntOnFloat(d, v)
    <3>1. validateFloatRange(d, v) = fail("E1T01")
      BY <2>2 DEF validateFloatRange, rejectIntOnFloat, IsSigned, IsFloat, NonFinite
    <3>2. ~CUEAccepts(c, v)
      <4>1. v.go = "int" /\ Kinds(c) = {"float"}
        BY <1>3, <1>8, <2>2 DEF rejectIntOnFloat, IsSigned
      <4> QED
        BY <4>1, AcceptedKind, GoKinds
    <3> QED
      BY <1>1, <1>6, <2>1, <3>1, <3>2, FailAgrees
  <2>3. CASE ~rejectIntOnFloat(d, v) /\ ~IsSigned(v) /\ ~IsFloat(v)
    <3>1. validateFloatRange(d, v) = fail("E1T01")
      BY <2>3 DEF validateFloatRange, IsFloat
    <3>2. v.go \notin {"int", "float"} \cup NonFinite
      BY <2>3 DEF IsSigned, IsFloat
    <3>3. CASE v.go = "uint" /\ expect = "number"
      BY <1>1, <1>6, <2>1, <3>1, <3>3, VerdictValid DEF Agrees, NonFinite
    <3>4. CASE ~(v.go = "uint" /\ expect = "number")
      <4>1. ~CUEAccepts(c, v)
        BY <1>8, <3>2, <3>4, AcceptedKind, GoKinds
      <4> QED
        BY <1>1, <1>6, <2>1, <3>1, <4>1, FailAgrees
    <3> QED
      BY <3>3, <3>4
  <2>4. CASE ~rejectIntOnFloat(d, v) /\ v.go \in NonFinite
    <3>1. validateFloatRange(d, v) = validateFiniteFloat(v)
      BY <2>4 DEF validateFloatRange, IsFloat
    <3>2. \E code : validateFiniteFloat(v) = fail(code)
      BY <2>4 DEF validateFiniteFloat, NonFinite
    <3> QED
      BY <1>1, <1>6, <2>1, <2>4, <3>1, <3>2, FailAgrees
  <2>5. CASE ~rejectIntOnFloat(d, v) /\ (IsSigned(v) \/ IsFloat(v)) /\ v.go \notin NonFinite
    <3>1. validateFloatRange(d, v) = WithinRange(d, ToFloat(v.n))
      BY <2>5 DEF validateFloatRange
    <3>2. CUEKind(v) \in Kinds(c)
      BY <1>3, <1>8, <2>5, GoKinds DEF rejectIntOnFloat, IsSigned, IsFloat
    <3>3. ExactFor(c, v.n) => (WithinRange(d, ToFloat(v.n)).valid <=> CUEAccepts(c, v))
      <4> SUFFICES ASSUME ExactFor(c, v.n) PROVE WithinRange(d, ToFloat(v.n)).valid <=> CUEAccepts(c, v)
        OBVIOUS
      <4>1. ToFloat(v.n) = v.n /\ \A t : Bound(t, c) => Holds(useInt64, t.args[1])
        <5>1. "float" \in Kinds(c) /\ useInt64 = FALSE
          BY <1>2, <1>8
        <5> QED
          BY <1>4, <1>5, <5>1, BoundsHeld
      <4> QED
        BY <1>3, <1>4, <1>5, <2>5, <3>2, <4>1, ValueIs, WithinBounds, RangeAccepts
    <3> QED
      BY <1>1, <1>6, <2>1, <2>5, <3>1, <3>3, WithinIs DEF Agrees
  <2> QED
    BY <2>2, <2>3, <2>4, <2>5
<1> QED
  BY <1>7, <1>8

----------------------------------------------------------------------------
(* What is extracted from a scalar constraint agrees with CUE about it.    *)

LEMMA NothingAgrees ==
  ASSUME NEW c, NEW v
  PROVE  Agrees(validateFast(NoDescriptor, v), c, v)
<1>1. validateFast(NoDescriptor, v) = fallbackToCUE
  BY NoDescriptorIs DEF validateFast
<1> QED
  BY <1>1, FallbackAgrees

LEMMA RangeOrTypeAgrees ==
  ASSUME NEW c \in Constraint, NEW v \in Value, Native(v), NEW expect,
         \/ expect = "int" /\ Kinds(c) = {"int"}
         \/ expect = "float" /\ Kinds(c) = {"float"}
         \/ expect = "number" /\ Kinds(c) = {"int", "float"}
  PROVE  Agrees(validateFast(RangeOrType(c, expect), v), c, v)
<1>1. CASE extractNumericRange(c, expect) # NoDescriptor
  <2>1. RangeOrType(c, expect) = extractNumericRange(c, expect)
    BY <1>1 DEF RangeOrType
  <2> QED
    BY <1>1, <2>1, RangeAgrees
<1>2. CASE extractNumericRange(c, expect) = NoDescriptor /\ isBareType(c)
  <2>1. RangeOrType(c, expect) = TypeOnly(expect)
    BY <1>2 DEF RangeOrType
  <2>2. CUEAccepts(c, v) <=> CUEKind(v) \in Kinds(c)
    BY <1>2, BareAccepts DEF Proper
  <2> QED
    BY <2>1, <2>2, TypeAgrees
<1>3. CASE extractNumericRange(c, expect) = NoDescriptor /\ ~isBareType(c)
  <2>1. RangeOrType(c, expect) = NoDescriptor
    BY <1>3 DEF RangeOrType
  <2> QED
    BY <2>1, NothingAgrees
<1> QED
  BY <1>1, <1>2, <1>3

RegexOnly(r) == [NoDescriptor EXCEPT !.kind = "regex", !.expect = "string", !.regex = r]

LEMMA StringAgrees ==
  ASSUME NEW c \in Constraint, NEW v \in Value, Native(v), Kinds(c) = {"string"}
  PROVE  Agrees(validateFast(extractStringConstraint(c), v), c, v)
<1>1. PICK enums : enums = extractEnums(c, {"string"})
  OBVIOUS
<1>2. PICK parts : parts = Conjuncts(c)
  OBVIOUS
<1>3. PICK found : found = Conjoined(c, {"=~"}) /\ found = {i \in DOMAIN parts : Op(parts[i]) \in {"=~"}}
  BY <1>2 DEF Conjoined
<1>4. PICK exhaustive \in BOOLEAN :
        exhaustive <=> /\ \A i \in DOMAIN parts : i \in found \/ isBareType(parts[i])
                       /\ \A i, j \in found : i = j
  OBVIOUS
<1>5. PICK regex : regex = IF found = {} THEN << >> ELSE <<parts[CHOOSE i \in found : TRUE].pat>>
  OBVIOUS
<1>6. scanStringConjuncts(c).regex = regex /\ (scanStringConjuncts(c).exhaustive <=> exhaustive)
  <2>1. PICK e : e = (/\ \A i \in DOMAIN parts : i \in found \/ isBareType(parts[i])
                      /\ \A i, j \in found : i = j)
    OBVIOUS
  <2>2. scanStringConjuncts(c) = [regex |-> regex, exhaustive |-> e]
    BY <1>2, <1>3, <1>5, <2>1 DEF scanStringConjuncts
  <2>3. [regex |-> regex, exhaustive |-> e].regex = regex /\ [regex |-> regex, exhaustive |-> e].exhaustive = e
    OBVIOUS
  <2> QED
    BY <1>4, <2>1, <2>2, <2>3
<1>7. extractStringConstraint(c) =
        IF enums # << >> THEN EnumOf("string", enums)
        ELSE IF ~exhaustive THEN NoDescriptor
        ELSE IF regex = << >> THEN TypeOnly("string")
        ELSE RegexOnly(regex[1])
  BY <1>1, <1>6 DEF extractStringConstraint, RegexOnly
<1>8. CASE enums # << >>
  <2>1. enums = c.args /\ Literals(c, {"string"})
    BY <1>1, <1>8, EnumIs
  <2> QED
    BY <1>7, <1>8, <2>1, StringEnumAgrees
<1>9. CASE enums = << >> /\ ~exhaustive
  BY <1>7, <1>9, NothingAgrees
<1>10. CASE enums = << >> /\ exhaustive /\ found = {}
  <2>1. regex = << >>
    BY <1>5, <1>10
  <2>2. \A t : Conjunct(t, c) => isBareType(t)
    BY <1>2, <1>4, <1>10 DEF Conjunct
  <2>3. CUEAccepts(c, v) <=> CUEKind(v) \in Kinds(c)
    BY <2>2, BareConjuncts DEF Proper
  <2> QED
    BY <1>7, <1>10, <2>1, <2>3, TypeAgrees
<1>11. CASE enums = << >> /\ exhaustive /\ found # {}
  <2>1. PICK i \in found : i = CHOOSE k \in found : TRUE
    BY <1>11
  <2>2. PICK p : p = parts[i]
    OBVIOUS
  <2>3. Conjunct(p, c) /\ Op(p) = "=~"
    BY <1>2, <1>3, <2>1, <2>2 DEF Conjunct
  <2>4. p \in Constraint
    BY <2>3, ConjunctsMean DEF Meant, Proper
  <2>5. p.form = "=~"
    BY <2>3 DEF Op
  <2>6. \A t : Conjunct(t, c) => t = p \/ isBareType(t)
    BY <1>2, <1>4, <1>11, <2>1, <2>2 DEF Conjunct
  <2>7. regex # << >> /\ regex[1] = p.pat
    BY <1>5, <1>11, <2>1, <2>2
  <2>8. RegexOnly(p.pat).kind = "regex" /\ RegexOnly(p.pat).regex = p.pat
    BY Zenon DEF RegexOnly, NoDescriptor
  <2> QED
    BY <1>7, <1>11, <2>3, <2>4, <2>5, <2>6, <2>7, <2>8, RegexAgrees
<1> QED
  BY <1>8, <1>9, <1>10, <1>11

LEMMA IntAgrees ==
  ASSUME NEW c \in Constraint, NEW v \in Value, Native(v), Kinds(c) = {"int"}
  PROVE  Agrees(validateFast(extractIntConstraint(c), v), c, v)
<1>1. CASE extractEnums(c, {"int"}) # << >>
  <2>1. extractIntConstraint(c) = EnumOf("int", c.args) /\ Literals(c, {"int"})
    BY <1>1, EnumIs DEF extractIntConstraint
  <2> QED
    BY <2>1, IntEnumAgrees
<1>2. CASE extractEnums(c, {"int"}) = << >>
  <2>1. extractIntConstraint(c) = RangeOrType(c, "int")
    BY <1>2 DEF extractIntConstraint
  <2> QED
    BY <2>1, RangeOrTypeAgrees
<1> QED
  BY <1>1, <1>2

LEMMA FloatAgrees ==
  ASSUME NEW c \in Constraint, NEW v \in Value, Native(v), Kinds(c) = {"float"}
  PROVE  Agrees(validateFast(extractFloatConstraint(c), v), c, v)
<1>1. CASE extractEnums(c, {"int", "float"}) # << >>
  <2>1. extractEnums(c, {"int", "float"}) = c.args /\ Literals(c, {"int", "float"})
    BY <1>1, EnumIs
  <2>2. extractFloatConstraint(c) = EnumOf("float", Held(c.args))
    BY <1>1, <2>1 DEF extractFloatConstraint, Held, Renumbered
  <2> QED
    BY <2>1, <2>2, FloatEnumAgrees
<1>2. CASE extractEnums(c, {"int", "float"}) = << >>
  <2>1. extractFloatConstraint(c) = RangeOrType(c, "float")
    BY <1>2 DEF extractFloatConstraint
  <2> QED
    BY <2>1, RangeOrTypeAgrees
<1> QED
  BY <1>1, <1>2

\* A disjunction Eval would collapse has hidden branches.
LEMMA EvalKeeps ==
  ASSUME NEW raw \in Constraint, ~hasHiddenDisjunctionBranches(Eval(raw), raw)
  PROVE  Eval(raw) = raw
<1> SUFFICES ASSUME Eval(raw) # raw PROVE FALSE
  OBVIOUS
<1>1. raw.form = "or" /\ Eval(raw) = raw.args[1]
  BY DEF Eval
<1>2. raw.args[1] \in Constraint /\ raw.args[1].form # "or"
  BY <1>1, FirstArg, FormAssumption
<1> QED
  BY <1>1, <1>2 DEF hasHiddenDisjunctionBranches, Op

LEMMA ScalarAgrees ==
  ASSUME NEW c \in Constraint, NEW v \in Value, Native(v)
  PROVE  Agrees(validateFast(extractScalarConstraint(c), v), c, v)
<1>1. CASE hasHiddenDisjunctionBranches(Eval(c), c)
  <2>1. extractScalarConstraint(c) = NoDescriptor
    BY <1>1 DEF extractScalarConstraint
  <2> QED
    BY <2>1, NothingAgrees
<1>2. CASE ~hasHiddenDisjunctionBranches(Eval(c), c)
  <2>0. Eval(c) = c
    BY <1>2, EvalKeeps
  <2>1. extractScalarConstraint(c) =
          IF Kinds(c) = {"string"} THEN extractStringConstraint(c)
          ELSE IF Kinds(c) = {"int"} THEN extractIntConstraint(c)
          ELSE IF Kinds(c) = {"float"} THEN extractFloatConstraint(c)
          ELSE IF Kinds(c) = {"int", "float"} THEN extractNumberConstraint(c)
          ELSE IF Kinds(c) = {"bool"} /\ isBareType(c) THEN TypeOnly("bool")
          ELSE NoDescriptor
    BY <1>2, <2>0 DEF extractScalarConstraint
  <2>2. CASE Kinds(c) = {"string"}
    BY <2>1, <2>2, StringAgrees
  <2>3. CASE Kinds(c) = {"int"}
    BY <2>1, <2>3, IntAgrees
  <2>4. CASE Kinds(c) = {"float"}
    BY <2>1, <2>4, FloatAgrees
  <2>5. CASE Kinds(c) = {"int", "float"}
    <3>1. extractScalarConstraint(c) = RangeOrType(c, "number")
      BY <2>1, <2>5 DEF extractNumberConstraint
    <3> QED
      BY <2>5, <3>1, RangeOrTypeAgrees
  <2>6. CASE Kinds(c) = {"bool"} /\ isBareType(c)
    <3>1. extractScalarConstraint(c) = TypeOnly("bool")
      BY <2>1, <2>6
    <3>2. CUEAccepts(c, v) <=> CUEKind(v) \in Kinds(c)
      BY <2>6, BareAccepts DEF Proper
    <3> QED
      BY <2>6, <3>1, <3>2, TypeAgrees
  <2>7. CASE /\ Kinds(c) \notin {{"string"}, {"int"}, {"float"}, {"int", "float"}}
             /\ ~(Kinds(c) = {"bool"} /\ isBareType(c))
    <3>1. extractScalarConstraint(c) = NoDescriptor
      BY <2>1, <2>7
    <3> QED
      BY <3>1, NothingAgrees
  <2> QED
    BY <2>2, <2>3, <2>4, <2>5, <2>6, <2>7
<1> QED
  BY <1>1, <1>2

----------------------------------------------------------------------------
(* Where a verdict comes from.                                             *)

\* The descriptor is New's, the value judged is what the conversion made.
Sourced ==
  /\ stage # "start" => fast = extractFastConstraint(scene.constraint)
  /\ stage = "converted" \/ served \in {"fast", "cue"} =>
       toMapAny(scene.way, scene.value).ok /\ data = toMapAny(scene.way, scene.value).value

\* The errors left are those of whoever decided the field.
ByFast ==
  LET verdict == validateFast(fast, data)
  IN  /\ fast.kind \notin {"none", "list"} /\ verdict.handled
      /\ errors = IF verdict.valid THEN << >> ELSE <<FastError(verdict, FieldPath, fast)>>

ByFastList ==
  LET failures == RejectedElements(fast, data)
      failure(i) == FastError(validateFast(fast.elem[1], data.items[i]), indexedPath(FieldPath, i), fast.elem[1])
  IN  /\ fast.kind = "list" /\ ElementsHandled(fast, data)
      /\ errors = [k \in DOMAIN failures |-> failure(failures[k])]

ByScalar ==
  LET found == Diagnostics(scene.constraint, data)
  IN  ~IsListField /\ errors = [i \in DOMAIN found |-> recordFieldError(found[i])]

ByKind == IsListField /\ CUEKind(data) # "list" /\ errors = <<ErrorAt("E1T01", FieldPath, FieldType)>>

ByList ==
  /\ IsListField /\ CUEKind(data) = "list"
  /\ errors = IF CUEAccepts(scene.constraint, data) THEN << >> ELSE listErrors(scene.constraint, data)

Decided ==
  /\ served = "fast" => ByFast \/ ByFastList
  /\ served = "cue" => ByScalar \/ ByKind \/ ByList

VerdictInv == ReportInv /\ Sourced /\ Decided

LEMMA SourcedInit == Init => Sourced /\ Decided
BY DEF Init, Sourced, Decided

\* What is decided stays so.
LEMMA StillDecided ==
  ASSUME Sourced, Decided, stage' # "start", stage' = "converted" => stage = "converted", stage # "start",
         UNCHANGED <<scene, fast, data, served, errors>>
  PROVE  Sourced' /\ Decided'
<1>1. Sourced'
  BY DEF Sourced
<1>2. (ByFast <=> ByFast') /\ (ByFastList <=> ByFastList')
  BY DEF ByFast, ByFastList, FastError, FieldType
<1>3. (ByScalar <=> ByScalar') /\ (ByKind <=> ByKind') /\ (ByList <=> ByList')
  BY DEF ByScalar, ByKind, ByList, IsListField, recordFieldError, FieldType
<1> QED
  BY <1>1, <1>2, <1>3 DEF Decided

\* Before that there is nothing to decide on.
LEMMA NotDecided ==
  ASSUME stage' # "start", fast' = extractFastConstraint(scene'.constraint), served' \notin {"fast", "cue"},
         stage' = "converted" => toMapAny(scene'.way, scene'.value).ok /\ data' = toMapAny(scene'.way, scene'.value).value
  PROVE  Sourced' /\ Decided'
BY DEF Sourced, Decided

LEMMA SourcedNext == ASSUME VerdictInv, [Next]_vars PROVE Sourced' /\ Decided'
<1>0. Sourced /\ Decided /\ (Unjudged => served = "")
  BY DEF VerdictInv, ReportInv, Judgement
<1>1. CASE UNCHANGED vars
  <2>1. UNCHANGED <<scene, stage, fast, data, served, errors>>
    BY <1>1 DEF vars
  <2>2. CASE stage = "start"
    BY <1>0, <2>1, <2>2 DEF Sourced, Decided, Unjudged
  <2>3. CASE stage # "start"
    BY <1>0, <2>1, <2>3, StillDecided
  <2> QED
    BY <2>2, <2>3
<1>2. CASE Compile
  <2>1. /\ stage = "start" /\ stage' = "compiled" /\ fast' = extractFastConstraint(scene.constraint)
        /\ scene' = scene /\ served' = served
    BY <1>2 DEF Compile, Stage
  <2> QED
    BY <1>0, <2>1, NotDecided DEF Unjudged
<1>3. CASE CheckCatalog \/ LeaveUnchecked
  <2>1. stage = "compiled" /\ stage' \in {"ready", "panicked"} /\ UNCHANGED <<scene, fast, data, served, errors>>
    BY <1>3 DEF CheckCatalog, LeaveUnchecked, Stage
  <2> QED
    BY <1>0, <2>1, StillDecided
<1>4. CASE Convert
  <2>1. /\ stage = "ready" /\ stage' = "converted" /\ UNCHANGED <<scene, fast, served>>
        /\ toMapAny(scene.way, scene.value).ok /\ data' = toMapAny(scene.way, scene.value).value
    BY <1>4 DEF Convert, Stage
  <2>2. fast = extractFastConstraint(scene.constraint) /\ served = ""
    BY <1>0, <2>1 DEF Sourced, Unjudged
  <2> QED
    BY <2>1, <2>2, NotDecided
<1>5. CASE RejectInput
  <2>1. stage = "ready" /\ stage' = "validated" /\ served' = "convert" /\ UNCHANGED <<scene, fast>>
    BY <1>5 DEF RejectInput, Stage
  <2>2. fast = extractFastConstraint(scene.constraint)
    BY <1>0, <2>1 DEF Sourced
  <2> QED
    BY <2>1, <2>2, NotDecided
<1>6. ASSUME Stage("converted", "validated"), NEW who \in {"fast", "cue"}, NEW found, Report(who, found)
      PROVE  Sourced' /\ errors' = found /\ served' = who /\ UNCHANGED <<scene, fast, data>>
  <2>1. stage = "converted" /\ stage' = "validated" /\ UNCHANGED <<scene, fast, data>>
    BY <1>6 DEF Stage, Report
  <2>2. errors' = found /\ served' = who
    BY <1>6 DEF Report
  <2> QED
    BY <1>0, <2>1, <2>2 DEF Sourced
<1>7. CASE CheckFast
  <2>1. PICK found : found = IF validateFast(fast, data).valid THEN << >>
                             ELSE <<FastError(validateFast(fast, data), FieldPath, fast)>>
    OBVIOUS
  <2>2. Stage("converted", "validated") /\ Report("fast", found)
        /\ fast.kind \notin {"none", "list"} /\ validateFast(fast, data).handled
    BY <1>7, <2>1 DEF CheckFast
  <2>3. Sourced' /\ errors' = found /\ served' = "fast" /\ UNCHANGED <<scene, fast, data>>
    BY <1>6, <2>2
  <2>4. ByFast'
    BY <2>1, <2>2, <2>3 DEF ByFast, FastError, FieldType
  <2> QED
    BY <2>3, <2>4 DEF Decided
<1>8. CASE CheckFastList
  <2> DEFINE failures == RejectedElements(fast, data)
             failure(i) == FastError(validateFast(fast.elem[1], data.items[i]), indexedPath(FieldPath, i), fast.elem[1])
  <2>1. PICK found : found = [k \in DOMAIN failures |-> failure(failures[k])]
    OBVIOUS
  <2>2. Stage("converted", "validated") /\ Report("fast", found) /\ fast.kind = "list" /\ ElementsHandled(fast, data)
    BY <1>8, <2>1 DEF CheckFastList
  <2>3. Sourced' /\ errors' = found /\ served' = "fast" /\ UNCHANGED <<scene, fast, data>>
    <3> HIDE DEF failures, failure
    <3> QED
      BY <1>6, <2>2
  <2>4. ByFastList'
    BY <2>1, <2>2, <2>3 DEF ByFastList, FastError, FieldType
  <2> QED
    BY <2>3, <2>4 DEF Decided
<1>9. CASE ValidateScalarField
  <2>1. PICK found : found = [i \in DOMAIN Diagnostics(scene.constraint, data) |->
                                recordFieldError(Diagnostics(scene.constraint, data)[i])]
    OBVIOUS
  <2>2. Stage("converted", "validated") /\ Report("cue", found) /\ ~IsListField
    BY <1>9, <2>1 DEF ValidateScalarField
  <2>3. Sourced' /\ errors' = found /\ served' = "cue" /\ UNCHANGED <<scene, fast, data>>
    BY <1>6, <2>2
  <2>4. ByScalar'
    BY <2>1, <2>2, <2>3 DEF ByScalar, IsListField, recordFieldError, FieldType
  <2> QED
    BY <2>3, <2>4 DEF Decided
<1>10. CASE RejectNonList
  <2>1. PICK found : found = <<ErrorAt("E1T01", FieldPath, FieldType)>>
    OBVIOUS
  <2>2. Stage("converted", "validated") /\ Report("cue", found) /\ IsListField /\ CUEKind(data) # "list"
    BY <1>10, <2>1 DEF RejectNonList
  <2>3. Sourced' /\ errors' = found /\ served' = "cue" /\ UNCHANGED <<scene, fast, data>>
    BY <1>6, <2>2
  <2>4. ByKind'
    BY <2>1, <2>2, <2>3 DEF ByKind, IsListField, FieldType
  <2> QED
    BY <2>3, <2>4 DEF Decided
<1>11. CASE ValidateListField
  <2>1. PICK found : found = IF CUEAccepts(scene.constraint, data) THEN << >> ELSE listErrors(scene.constraint, data)
    OBVIOUS
  <2>2. Stage("converted", "validated") /\ Report("cue", found) /\ IsListField /\ CUEKind(data) = "list"
    BY <1>11, <2>1 DEF ValidateListField
  <2>3. Sourced' /\ errors' = found /\ served' = "cue" /\ UNCHANGED <<scene, fast, data>>
    BY <1>6, <2>2
  <2>4. ByList'
    BY <2>1, <2>2, <2>3 DEF ByList, IsListField
  <2> QED
    BY <2>3, <2>4 DEF Decided
<1>12. CASE LocalizeNext
  <2>1. stage = "validated" /\ stage' \in {"validated", "panicked"} /\ UNCHANGED <<scene, fast, data, served, errors>>
    BY <1>12 DEF LocalizeNext
  <2> QED
    BY <1>0, <2>1, StillDecided
<1>13. CASE Finished
  BY <1>1, <1>13 DEF Finished
<1> QED
  BY <1>1, <1>2, <1>3, <1>4, <1>5, <1>7, <1>8, <1>9, <1>10, <1>11, <1>12, <1>13 DEF Next

LEMMA VerdictInvariant == Spec => []VerdictInv
<1>1. Init => VerdictInv
  BY InvInit, SourcedInit DEF VerdictInv
<1>2. VerdictInv /\ [Next]_vars => VerdictInv'
  BY InvNext, SourcedNext DEF VerdictInv
<1> QED
  BY <1>1, <1>2, PTL DEF Spec

----------------------------------------------------------------------------
(* What a conversion makes of a value.                                     *)

\* A value has these four fields, also while it is converted.
Shaped(v) == v \in [go : {v.go}, n : {v.n}, s : {v.s}, items : {v.items}]

Retyped(v, go, n) == [v EXCEPT !.go = go, !.n = n]
Refilled(v, items) == [v EXCEPT !.go = "list", !.items = items]

LEMMA ShapedIs == \A v \in Value : Shaped(v)
BY ValueAssumption DEF Shaped

LEMMA RetypedIs ==
  ASSUME NEW v, Shaped(v), NEW go, NEW n
  PROVE  /\ Shaped(Retyped(v, go, n))
         /\ Retyped(v, go, n).go = go /\ Retyped(v, go, n).n = n
         /\ Retyped(v, go, n).s = v.s /\ Retyped(v, go, n).items = v.items
<1>1. PICK G, N, S, I : v \in [go : G, n : N, s : S, items : I]
  BY DEF Shaped
<1>2. Retyped(v, go, n) \in [go : {go}, n : {n}, s : {v.s}, items : {v.items}]
  BY <1>1 DEF Retyped
<1> QED
  BY <1>2 DEF Shaped

LEMMA RefilledIs ==
  ASSUME NEW v, Shaped(v), NEW items
  PROVE  /\ Shaped(Refilled(v, items))
         /\ Refilled(v, items).go = "list" /\ Refilled(v, items).items = items
         /\ Refilled(v, items).n = v.n /\ Refilled(v, items).s = v.s
<1>1. PICK G, N, S, I : v \in [go : G, n : N, s : S, items : I]
  BY DEF Shaped
<1>2. Refilled(v, items) \in [go : {"list"}, n : {v.n}, s : {v.s}, items : {items}]
  BY <1>1 DEF Refilled
<1> QED
  BY <1>2 DEF Shaped

\* What a scalar is while it is JSON, and after.
TextOf(x) ==
  CASE x.go \in {"int", "uint"} -> [x EXCEPT !.go = "intText"]
    [] x.go = "float" -> [x EXCEPT !.go = IF x.n % Halves(1) = 0 THEN "intText" ELSE "decText"]
    [] OTHER -> x

Carried(way, x) == jsonNumberToNative(IF way = "struct" THEN TextOf(x) ELSE x)

\* A conversion carries the scalars of a value.
LEMMA ConversionIs ==
  ASSUME NEW v \in Value, NEW way \in {"json", "struct"}, NEW w, toMapAny(way, v).ok, w = toMapAny(way, v).value
  PROVE  IF IsListValue(v)
         THEN /\ w.go = "list" /\ w.n = v.n /\ w.s = v.s
              /\ DOMAIN w.items = DOMAIN v.items /\ Len(w.items) = Len(v.items)
              /\ \A i \in DOMAIN v.items : w.items[i] = Carried(way, v.items[i])
         ELSE w = Carried(way, v)
<1>0. Shaped(v)
  BY ShapedIs
<1>1. PICK u : u = IF way = "struct" THEN Marshal(v) ELSE v
  OBVIOUS
<1>2. w = convertJSONNumbers(u)
  <2>1. CASE way = "json"
    BY <1>1, <2>1 DEF toMapAny, Converted
  <2>2. CASE way = "struct"
    <3>1. toMapAny(way, v) = structToMap(v)
      BY <2>2 DEF toMapAny
    <3>2. Marshals(v)
      BY <3>1 DEF structToMap, NotConvertible
    <3> QED
      BY <1>1, <2>2, <3>1, <3>2 DEF structToMap, Converted
  <2> QED
    BY <2>1, <2>2
<1>3. PICK n \in Nat : n = Len(v.items) /\ DOMAIN v.items = 1 .. n
  BY ItemsAre
<1>4. CASE IsListValue(v)
  <2>2. Shaped(u) /\ IsListValue(u) /\ u.n = v.n /\ u.s = v.s /\ DOMAIN u.items = 1 .. n
        /\ \A i \in 1 .. n : u.items[i] = IF way = "struct" THEN TextOf(v.items[i]) ELSE v.items[i]
    <3>1. CASE way = "struct"
      <4>1. u = Refilled(v, [i \in DOMAIN v.items |-> TextOf(v.items[i])])
        BY <1>1, <1>4, <3>1 DEF Marshal, Throughout, Refilled, TextOf
      <4>2. u.items = [i \in 1 .. n |-> TextOf(v.items[i])]
        BY <1>0, <1>3, <4>1, RefilledIs
      <4> QED
        BY <1>0, <3>1, <4>1, <4>2, RefilledIs DEF IsListValue
    <3>2. CASE way = "json"
      BY <1>0, <1>1, <1>3, <1>4, <3>2
    <3> QED
      BY <3>1, <3>2
  <2>3. w = Refilled(u, [i \in DOMAIN u.items |-> jsonNumberToNative(u.items[i])])
    BY <1>2, <2>2 DEF convertJSONNumbers, Throughout, Refilled
  <2>4. w.go = "list" /\ w.n = v.n /\ w.s = v.s /\ w.items = [i \in 1 .. n |-> jsonNumberToNative(u.items[i])]
    BY <2>2, <2>3, RefilledIs
  <2>5. DOMAIN w.items = 1 .. n /\ Len(w.items) = n
    BY <2>4
  <2>6. \A i \in 1 .. n : w.items[i] = Carried(way, v.items[i])
    BY <2>2, <2>4 DEF Carried
  <2> QED
    BY <1>3, <1>4, <2>4, <2>5, <2>6
<1>5. CASE ~IsListValue(v)
  <2>1. u = IF way = "struct" THEN TextOf(v) ELSE v
    BY <1>1, <1>5 DEF Marshal, Throughout, TextOf
  <2>2. ~IsListValue(u)
    <3>1. TextOf(v).go \in {v.go, "intText", "decText"}
      <4>1. TextOf(v) = v \/ \E g \in {"intText", "decText"} : TextOf(v) = Retyped(v, g, v.n)
        <5>1. \A g : [v EXCEPT !.go = g] = Retyped(v, g, v.n)
          <6>1. PICK a, b, c, d : v = [go |-> a, n |-> b, s |-> c, items |-> d]
            BY <1>0 DEF Shaped
          <6> QED
            BY <6>1 DEF Retyped
        <5> QED
          BY <5>1 DEF TextOf
      <4> QED
        BY <1>0, <4>1, RetypedIs
    <3> QED
      BY <1>5, <2>1, <3>1 DEF IsListValue
  <2>3. w = jsonNumberToNative(u)
    BY <1>2, <2>2 DEF convertJSONNumbers, Throughout
  <2> QED
    BY <1>5, <2>1, <2>3 DEF Carried
<1> QED
  BY <1>4, <1>5

TextTypes == {"intText", "decText", "hugeText"}

\* The two conversions of a scalar, a case at a time.
LEMMA TextOfIs ==
  ASSUME NEW x, Shaped(x)
  PROVE  \/ x.go \in {"int", "uint"} /\ TextOf(x) = Retyped(x, "intText", x.n)
         \/ x.go = "float" /\ x.n % Halves(1) = 0 /\ TextOf(x) = Retyped(x, "intText", x.n)
         \/ x.go = "float" /\ x.n % Halves(1) # 0 /\ TextOf(x) = Retyped(x, "decText", x.n)
         \/ x.go \notin {"int", "uint", "float"} /\ TextOf(x) = x
<1>1. \A g : [x EXCEPT !.go = g] = Retyped(x, g, x.n)
  <2>1. PICK G, N, S, I : x \in [go : G, n : N, s : S, items : I]
    BY DEF Shaped
  <2> QED
    BY <2>1 DEF Retyped
<1>2. CASE x.go \in {"int", "uint"}
  BY <1>1, <1>2 DEF TextOf
<1>3. CASE x.go = "float" /\ x.n % Halves(1) = 0
  BY <1>1, <1>3 DEF TextOf
<1>4. CASE x.go = "float" /\ x.n % Halves(1) # 0
  BY <1>1, <1>4 DEF TextOf
<1>5. CASE x.go \notin {"int", "uint", "float"}
  BY <1>5 DEF TextOf
<1> QED
  BY <1>2, <1>3, <1>4, <1>5

LEMMA NativeOfIs ==
  ASSUME NEW x, Shaped(x)
  PROVE  \/ x.go = "intText" /\ InInt64(x.n) /\ jsonNumberToNative(x) = Retyped(x, "int", x.n)
         \/ x.go \in {"intText", "decText"} /\ ~(x.go = "intText" /\ InInt64(x.n))
            /\ jsonNumberToNative(x) = Retyped(x, "float", ToFloat(x.n))
         \/ x.go = "hugeText" /\ jsonNumberToNative(x) = Retyped(x, "inf", x.n)
         \/ x.go \notin TextTypes /\ jsonNumberToNative(x) = x
<1>1. \A g : [x EXCEPT !.go = g] = Retyped(x, g, x.n)
  <2>1. PICK G, N, S, I : x \in [go : G, n : N, s : S, items : I]
    BY DEF Shaped
  <2> QED
    BY <2>1 DEF Retyped
<1>2. \A n : [x EXCEPT !.go = "float", !.n = n] = Retyped(x, "float", n)
  BY DEF Retyped
<1>3. CASE x.go = "intText" /\ InInt64(x.n)
  BY <1>1, <1>3 DEF jsonNumberToNative
<1>4. CASE x.go \in {"intText", "decText"} /\ ~(x.go = "intText" /\ InInt64(x.n))
  BY <1>2, <1>4 DEF jsonNumberToNative
<1>5. CASE x.go = "hugeText"
  BY <1>1, <1>5 DEF jsonNumberToNative
<1>6. CASE x.go \notin TextTypes
  BY <1>6 DEF jsonNumberToNative, TextTypes
<1> QED
  BY <1>3, <1>4, <1>5, <1>6 DEF TextTypes

\* What CarriedByJSON asks of one scalar.
Carries(x) ==
  CASE x.go \in {"int", "uint", "intText"} -> InInt64(x.n)
    [] x.go = "float" -> x.n % Halves(1) # 0
    [] x.go = "decText" -> ToFloat(x.n) = x.n
    [] OTHER -> x.go \notin {"hugeText"} \cup NonFinite

LEMMA CarriesIs ==
  ASSUME NEW x, Carries(x)
  PROVE  /\ x.go \in {"int", "uint", "intText"} => InInt64(x.n)
         /\ x.go = "float" => x.n % Halves(1) # 0
         /\ x.go = "decText" => ToFloat(x.n) = x.n
         /\ x.go \notin {"hugeText"} \cup NonFinite
BY DEF Carries, NonFinite

\* The scalar of a conversion is a Go value, and the one it was if JSON carries
\* it.
LEMMA CarriedIs ==
  ASSUME NEW x \in Value, NEW way \in {"json", "struct"},
         x.go \notin IF way = "json" THEN {"int", "uint", "float"} \cup NonFinite ELSE TextTypes \cup NonFinite
  PROVE  LET y == Carried(way, x) IN
         /\ Native(y) /\ y.go # "uint" /\ y.s = x.s /\ y.items = x.items
         /\ Carries(x) => CUEKind(y) = CUEKind(x) /\ y.n = x.n /\ y.go \notin NonFinite
<1>0. Shaped(x)
  BY ShapedIs
<1>1. PICK u : u = IF way = "struct" THEN TextOf(x) ELSE x
  OBVIOUS
<1>2. PICK y : y = Carried(way, x) /\ y = jsonNumberToNative(u)
  BY <1>1 DEF Carried
<1>3. Shaped(u) /\ u.n = x.n /\ u.s = x.s /\ u.items = x.items
  BY <1>0, <1>1, TextOfIs, RetypedIs
<1>4. u.go \notin {"int", "uint", "float"} \cup NonFinite
  <2>1. CASE way = "json"
    BY <1>1, <2>1
  <2>2. CASE way = "struct"
    BY <1>0, <1>1, <2>2, TextOfIs, RetypedIs DEF NonFinite
  <2> QED
    BY <2>1, <2>2
<1>5. y.s = x.s /\ y.items = x.items
  BY <1>2, <1>3, NativeOfIs, RetypedIs
<1>6. Native(y) /\ y.go # "uint"
  BY <1>2, <1>3, <1>4, NativeOfIs, RetypedIs DEF Native, TextTypes
<1>7. ASSUME Carries(x)
      PROVE  CUEKind(y) = CUEKind(x) /\ y.n = x.n /\ y.go \notin NonFinite
  <2>0. /\ x.go \in {"int", "uint", "intText"} => InInt64(x.n)
        /\ x.go = "float" => x.n % Halves(1) # 0
        /\ x.go = "decText" => ToFloat(x.n) = x.n
        /\ x.go \notin {"hugeText"} \cup NonFinite
    BY <1>7, CarriesIs
  <2>1. CASE x.go \in {"int", "uint", "intText"}
    <3>1. u.go = "intText"
      BY <1>0, <1>1, <2>1, TextOfIs, RetypedIs
    <3>2. InInt64(u.n)
      BY <1>3, <2>0, <2>1
    <3>3. jsonNumberToNative(u) = Retyped(u, "int", u.n)
      BY <1>3, <3>1, <3>2, NativeOfIs DEF TextTypes
    <3>4. y.go = "int" /\ y.n = x.n
      BY <1>2, <1>3, <3>3, RetypedIs
    <3> QED
      BY <2>1, <3>4 DEF CUEKind, NonFinite
  <2>2. CASE x.go \in {"float", "decText"}
    <3>1. u.go = "decText"
      BY <1>0, <1>1, <2>0, <2>2, TextOfIs, RetypedIs
    <3>2. ToFloat(x.n) = x.n
      BY <2>0, <2>2, ValueAssumption
    <3>3. jsonNumberToNative(u) = Retyped(u, "float", ToFloat(u.n))
      BY <1>3, <3>1, NativeOfIs DEF TextTypes
    <3>4. y.go = "float" /\ y.n = x.n
      BY <1>2, <1>3, <3>2, <3>3, RetypedIs
    <3> QED
      BY <2>2, <3>4 DEF CUEKind, NonFinite
  <2>3. CASE x.go \notin {"int", "uint", "float", "intText", "decText"}
    <3>1. u = x
      BY <1>0, <1>1, <2>3, TextOfIs
    <3>2. y = x
      BY <1>0, <1>2, <2>0, <2>3, <3>1, NativeOfIs DEF TextTypes
    <3> QED
      BY <2>0, <3>2
  <2> QED
    BY <2>1, <2>2, <2>3
<1> QED
  BY <1>2, <1>5, <1>6, <1>7

\* A struct that converts has no number that is not finite.
LEMMA MarshaledIs ==
  ASSUME NEW v \in Value, toMapAny("struct", v).ok, NEW x \in Scalars(v)
  PROVE  x.go \notin NonFinite
<1>1. toMapAny("struct", v) = structToMap(v)
  BY DEF toMapAny
<1>2. Marshals(v)
  BY <1>1 DEF structToMap, NotConvertible
<1> QED
  BY <1>2 DEF Marshals, Scalars

LEMMA ScalarsAre ==
  ASSUME NEW v \in Value
  PROVE  Scalars(v) \subseteq Value
BY ItemsAre DEF Scalars

\* Whatever the way, what is judged is a Go value and so are its elements.
LEMMA JudgedNative ==
  ASSUME NEW v \in Value, NEW way, Written(way, v), toMapAny(way, v).ok, NEW w, w = toMapAny(way, v).value
  PROVE  /\ Native(w) /\ \A x \in Scalars(w) : Native(x)
         /\ way \in {"json", "struct"} => \A x \in Scalars(w) : x.go # "uint"
<1>1. CASE way \in {"json", "struct"}
  <2>1. ASSUME NEW x \in Scalars(v)
        PROVE  Native(Carried(way, x)) /\ Carried(way, x).go # "uint"
    <3>1. x \in Value
      BY ScalarsAre
    <3>2. x.go \notin IF way = "json" THEN {"int", "uint", "float"} \cup NonFinite ELSE TextTypes \cup NonFinite
      BY <1>1, <2>1, MarshaledIs DEF Written, TextTypes
    <3> QED
      BY <1>1, <3>1, <3>2, CarriedIs
  <2>2. CASE IsListValue(v)
    <3>1. w.go = "list" /\ DOMAIN w.items = DOMAIN v.items /\ \A i \in DOMAIN v.items : w.items[i] = Carried(way, v.items[i])
      BY <1>1, <2>2, ConversionIs
    <3>2. \A x \in Scalars(w) : \E i \in DOMAIN v.items : x = Carried(way, v.items[i]) /\ v.items[i] \in Scalars(v)
      BY <2>2, <3>1 DEF Scalars, IsListValue
    <3> QED
      BY <2>1, <3>1, <3>2 DEF Native
  <2>3. CASE ~IsListValue(v)
    <3>1. w = Carried(way, v) /\ v \in Scalars(v)
      BY <1>1, <2>3, ConversionIs DEF Scalars
    <3>2. Native(w) /\ w.go # "uint"
      BY <2>1, <3>1
    <3>3. ~IsListValue(w)
      <4>1. PICK u : u = IF way = "struct" THEN TextOf(v) ELSE v
        OBVIOUS
      <4>2. Shaped(u) /\ ~IsListValue(u)
        BY <2>3, <4>1, ShapedIs, TextOfIs, RetypedIs DEF IsListValue
      <4>3. w = jsonNumberToNative(u)
        BY <3>1, <4>1 DEF Carried
      <4> QED
        BY <4>2, <4>3, NativeOfIs, RetypedIs DEF IsListValue
    <3> QED
      BY <3>2, <3>3 DEF Scalars
  <2> QED
    BY <2>2, <2>3
<1>2. CASE way = "map"
  <2>1. w = v
    BY <1>2 DEF toMapAny, Converted
  <2>2. \A x \in Scalars(v) : Native(x)
    BY <1>2 DEF Written, Native
  <2>3. Native(v)
    BY <2>2 DEF Scalars, IsListValue, Native
  <2> QED
    BY <1>2, <2>1, <2>2, <2>3
<1>3. CASE way \notin {"json", "struct", "map"}
  <2>1. toMapAny(way, v) = NotConvertible
    BY <1>3 DEF toMapAny
  <2> QED
    BY <2>1 DEF NotConvertible
<1> QED
  BY <1>1, <1>2, <1>3

----------------------------------------------------------------------------
(* The descriptor of a field.                                              *)

TypeNamed(d) == d.kind = "type" => d.expect \in {"string", "int", "float", "number", "bool"}

LEMMA ExpectIs ==
  /\ TypeNamed(NoDescriptor)
  /\ \A t \in {"string", "int", "float", "number", "bool"} : TypeNamed(TypeOnly(t))
  /\ \A t, lits : TypeNamed(EnumOf(t, lits))
  /\ \A r : TypeNamed(RegexOnly(r))
<1>1. \A t : TypeOnly(t).expect = t
  BY DEF TypeOnly, NoDescriptor
<1>2. \A t, lits : EnumOf(t, lits).kind = "enum"
  BY EnumOfIs
<1>3. \A r : RegexOnly(r).kind = "regex"
  BY Zenon DEF RegexOnly, NoDescriptor
<1> QED
  BY <1>1, <1>2, <1>3, NoDescriptorIs DEF TypeNamed

LEMMA RangeTypeIs ==
  ASSUME NEW c, NEW expect \in {"int", "float", "number"}
  PROVE  TypeNamed(RangeOrType(c, expect))
<1>1. CASE extractNumericRange(c, expect) # NoDescriptor
  <2>1. extractNumericRange(c, expect).kind = "range"
    BY <1>1, RangeParts
  <2> QED
    BY <1>1, <2>1 DEF RangeOrType, TypeNamed
<1>2. CASE extractNumericRange(c, expect) = NoDescriptor
  BY <1>2, ExpectIs DEF RangeOrType
<1> QED
  BY <1>1, <1>2

\* A field with a scalar descriptor welcomes no list.
LEMMA ScalarFieldIs ==
  ASSUME NEW c \in Constraint
  PROVE  /\ TypeNamed(extractScalarConstraint(c))
         /\ extractScalarConstraint(c).kind # "none" => "list" \notin Kinds(c)
<1>1. CASE hasHiddenDisjunctionBranches(Eval(c), c)
  <2>1. extractScalarConstraint(c) = NoDescriptor
    BY <1>1 DEF extractScalarConstraint
  <2> QED
    BY <2>1, ExpectIs, NoDescriptorIs
<1>2. CASE ~hasHiddenDisjunctionBranches(Eval(c), c)
  <2>0. Eval(c) = c
    BY <1>2, EvalKeeps
  <2>1. extractScalarConstraint(c) =
          IF Kinds(c) = {"string"} THEN extractStringConstraint(c)
          ELSE IF Kinds(c) = {"int"} THEN extractIntConstraint(c)
          ELSE IF Kinds(c) = {"float"} THEN extractFloatConstraint(c)
          ELSE IF Kinds(c) = {"int", "float"} THEN extractNumberConstraint(c)
          ELSE IF Kinds(c) = {"bool"} /\ isBareType(c) THEN TypeOnly("bool")
          ELSE NoDescriptor
    BY <1>2, <2>0 DEF extractScalarConstraint
  <2>2. TypeNamed(extractStringConstraint(c))
    BY ExpectIs DEF extractStringConstraint, RegexOnly
  <2>3. /\ TypeNamed(extractIntConstraint(c)) /\ TypeNamed(extractFloatConstraint(c))
        /\ TypeNamed(extractNumberConstraint(c))
    BY ExpectIs, RangeTypeIs DEF extractIntConstraint, extractFloatConstraint, extractNumberConstraint
  <2> QED
    BY <2>1, <2>2, <2>3, ExpectIs, NoDescriptorIs
<1> QED
  BY <1>1, <1>2

\* No list passes a scalar descriptor.
LEMMA ListFails ==
  ASSUME NEW d, ScalarFast(d), TypeNamed(d), d.kind # "none", NEW v, IsListValue(v)
  PROVE  ~validateFast(d, v).valid
<1>0. v.go \notin {"int", "uint", "float", "string", "bool", "number"} \cup NonFinite
  BY DEF IsListValue, NonFinite
<1>1. ~validateFastIntType(v).valid
  BY <1>0 DEF validateFastIntType, IsSigned, IsFloat, fallbackToCUE, fail, Verdict
<1>2. ~fail("E1T01").valid
  BY VerdictValid
<1>3. CASE d.kind = "type"
  <2>1. validateFastFloatType(v) = fail("E1T01") /\ validateFastNumberType(v) = fail("E1T01")
    BY <1>0 DEF validateFastFloatType, validateFastNumberType, IsSigned, IsFloat
  <2>2. ~validateFastType(d, v).valid
    BY <1>0, <1>1, <1>2, <1>3, <2>1 DEF validateFastType, TypeNamed
  <2> QED
    BY <1>3, <2>2 DEF validateFast
<1>4. CASE d.kind = "regex"
  <2>1. ~validateFastRegex(d, v).valid
    BY <1>0, <1>2 DEF validateFastRegex, IsString
  <2> QED
    BY <1>4, <2>1 DEF validateFast
<1>5. CASE d.kind = "range"
  <2>1. validateFloatRange(d, v) = fail("E1T01")
    BY <1>0 DEF validateFloatRange, rejectIntOnFloat, IsSigned, IsFloat
  <2>2. ~validateFastRange(d, v).valid
    BY <1>0, <1>1, <1>2, <2>1 DEF validateFastRange, IsSigned
  <2> QED
    BY <1>5, <2>2 DEF validateFast
<1>6. CASE d.kind = "enum"
  <2>1. d.expect \in {"string", "int", "float"}
    BY <1>6 DEF ScalarFast, EnumFast
  <2>2. ~validateFastEnum(d, v).valid
    BY <1>0, <1>1, <1>2, <2>1 DEF validateFastEnum, IsString, IsSigned
  <2> QED
    BY <1>6, <2>2 DEF validateFast
<1> QED
  BY <1>3, <1>4, <1>5, <1>6 DEF ScalarFast

ListOf(elem) == [NoDescriptor EXCEPT !.kind = "list", !.elem = <<elem>>]

\* The descriptor of a field is a scalar's, or an open list's of what a scalar's
\* descriptor decides.
LEMMA DescriptorIs ==
  ASSUME NEW c \in Constraint, NEW d, d = extractFastConstraint(c), d.kind # "none"
  PROVE  \/ d = extractScalarConstraint(c) /\ d.kind # "list"
         \/ /\ d.kind = "list" /\ c.form = "list" /\ DOMAIN c.args = {1} /\ c.args[1] \in Constraint
            /\ d.elem[1] = extractScalarConstraint(c.args[1]) /\ d.elem[1].kind # "none"
<1>1. PICK e \in Constraint : e = Eval(c)
  BY EvalIs
<1>2. CASE Kinds(e) = {"list"} /\ e.form = "list" /\ ~hasHiddenDisjunctionBranches(e, c)
  <2>1. e = c
    BY <1>1, <1>2, EvalKeeps
  <2>2. DOMAIN c.args = {1} /\ c.args[1] \in Constraint
    <3>1. Len(c.args) = 1
      BY <1>2, <2>1, FormAssumption
    <3> QED
      BY <3>1, ConstraintIs
  <2>3. PICK elem : elem = extractScalarConstraint(c.args[1])
    OBVIOUS
  <2>4. d = extractListConstraint(c, c, elem)
    BY <1>1, <1>2, <2>1, <2>3 DEF extractFastConstraint
  <2>5. d = ListOf(elem) /\ elem.kind # "none"
    BY <2>4, NoDescriptorIs DEF extractListConstraint, ListOf
  <2>6. ListOf(elem).kind = "list" /\ ListOf(elem).elem = <<elem>>
    BY Zenon DEF ListOf, NoDescriptor
  <2> QED
    BY <1>2, <2>1, <2>2, <2>3, <2>5, <2>6
<1>3. CASE ~(Kinds(e) = {"list"} /\ e.form = "list" /\ ~hasHiddenDisjunctionBranches(e, c))
  <2>1. d = extractScalarConstraint(c)
    BY <1>1, <1>3 DEF extractFastConstraint
  <2> QED
    BY <2>1, ScalarConstraintIs DEF ScalarFast
<1> QED
  BY <1>2, <1>3

\* Exact of a list, for its elements.
LEMMA ExactElements ==
  ASSUME NEW c \in Constraint, c.form = "list", NEW e \in Constraint, e = c.args[1], DOMAIN c.args = {1},
         NEW v, Exact(c, v), NEW x \in Scalars(v)
  PROVE  ExactFor(e, x.n)
<1>1. Parts(c) = {c} \cup Parts(e)
  BY PartsIs
<1>2. CASE \E d \in Parts(c) : d.form = "type" /\ d.kind = "int"
  BY <1>1, <1>2 DEF ExactFor
<1>3. CASE "float" \notin UNION {Kinds(d) : d \in Parts(c)}
  BY <1>1, <1>3 DEF ExactFor
<1>4. CASE (\A d \in Parts(c) : ToFloat(d.num) = d.num) /\ \A y \in Scalars(v) : ToFloat(y.n) = y.n
  BY <1>1, <1>4 DEF ExactFor
<1> QED
  BY <1>2, <1>3, <1>4 DEF Exact

LEMMA ExactScalar ==
  ASSUME NEW c \in Constraint, NEW v, Exact(c, v), NEW x \in Scalars(v)
  PROVE  ExactFor(c, x.n)
BY DEF Exact, ExactFor

\* An element's verdict is CUE's, and never that a number that is not finite
\* is valid.
LEMMA ElementAgrees ==
  ASSUME NEW c \in Constraint, c.form = "list", NEW e \in Constraint, e = c.args[1], DOMAIN c.args = {1},
         NEW v \in Value, NEW x \in Scalars(v), x \in Value, Native(x),
         NEW w, w = validateFast(extractScalarConstraint(e), x), w.handled
  PROVE  /\ x.go \in NonFinite => ~w.valid
         /\ x.go \notin NonFinite /\ Exact(c, v) /\ ~UnsignedNumber(c, v) => (w.valid <=> CUEAccepts(e, x))
<1>1. Agrees(w, e, x)
  BY ScalarAgrees
<1>2. Exact(c, v) => ExactFor(e, x.n)
  BY ExactElements
<1>3. ~UnsignedNumber(c, v) => ~(x.go = "uint" /\ {"int", "float"} \subseteq Kinds(e))
  <2>1. e \in Parts(c)
    BY PartsIs
  <2> QED
    BY <2>1 DEF UnsignedNumber
<1> QED
  BY <1>1, <1>2, <1>3 DEF Agrees

\* The errors of rejected elements: there are some just when one is rejected.
LEMMA RejectedIs ==
  ASSUME NEW d, NEW v \in Value, NEW n \in Nat, n = Len(v.items)
  PROVE  LET K == {i \in 1 .. n : ~validateFast(d.elem[1], v.items[i]).valid}
         IN  /\ RejectedElements(d, v) = Ascending(K) /\ K \in SUBSET Int /\ IsFiniteSet(K)
             /\ RejectedElements(d, v) = << >> <=> K = {}
<1>1. PICK K : K = {i \in 1 .. n : ~validateFast(d.elem[1], v.items[i]).valid}
  OBVIOUS
<1>2. DOMAIN v.items = 1 .. n
  BY ItemsAre
<1>3. RejectedElements(d, v) = Ascending(K)
  BY <1>1, <1>2 DEF RejectedElements
<1>4. K \in SUBSET Int /\ IsFiniteSet(K)
  BY <1>1, PositionsAre
<1>5. Ascending(K) = << >> <=> K = {}
  <2>1. PICK m \in Nat : /\ m = Cardinality(K) /\ Ascending(K) \in Seq(K)
                         /\ Len(Ascending(K)) = m /\ DOMAIN Ascending(K) = 1 .. m
                         /\ \A k \in 1 .. m : Ascending(K)[k] \in K
                         /\ \A x \in K : \E k \in 1 .. m : Ascending(K)[k] = x
    BY <1>4, AscendingOrder
  <2>2. CASE K = {}
    <3>1. m = 0
      BY <2>1, <2>2
    <3> QED
      BY <2>1, <2>2, <3>1
  <2>3. CASE K # {}
    <3>1. PICK k \in 1 .. m : TRUE
      BY <2>1, <2>3
    <3>2. m # 0
      BY <3>1
    <3> QED
      BY <2>1, <2>3, <3>2
  <2> QED
    BY <2>2, <2>3
<1> QED
  BY <1>1, <1>3, <1>4, <1>5

\* The verdict on a field left by a fast path.
LEMMA FastVerdict ==
  ASSUME VerdictInv, served = "fast"
  PROVE  IF ~Finite(data) THEN ~valid
         ELSE valid = CUEAccepts(scene.constraint, data)
              \/ ~Exact(scene.constraint, data) \/ UnsignedNumber(scene.constraint, data)
<1>1. PICK c \in Constraint : c = scene.constraint
  BY SceneAssumption DEF VerdictInv, ReportInv, Given
<1>2. PICK v \in Value : v = data
  BY DEF VerdictInv, ReportInv, Given
<1>3. fast = extractFastConstraint(c) /\ v = toMapAny(scene.way, scene.value).value /\ toMapAny(scene.way, scene.value).ok
  <2>1. stage # "start"
    BY DEF VerdictInv, ReportInv, Judgement, Unjudged
  <2> QED
    BY <1>1, <1>2, <2>1 DEF VerdictInv, Sourced
<1>4. Native(v) /\ \A x \in Scalars(v) : Native(x)
  <2>1. scene.value \in Value /\ Written(scene.way, scene.value)
    BY SceneAssumption DEF VerdictInv, ReportInv, Given
  <2> QED
    BY <1>3, <2>1, JudgedNative
<1>5. Finite(v) <=> \A x \in Scalars(v) : x.go \notin NonFinite
  BY <1>4 DEF Finite, Native
<1>6. valid = (errors = << >>)
  BY DEF VerdictInv, ReportInv, Verdicts
<1>7. CUEAccepts(c, v) \in BOOLEAN /\ valid \in BOOLEAN
  BY <1>6, AcceptsBoolean
<1>8. CASE ByFast
  <2>1. PICK w : w = validateFast(fast, v)
    OBVIOUS
  <2>2. fast.kind \notin {"none", "list"} /\ w.handled /\ (valid <=> w.valid)
    BY <1>2, <1>6, <1>8, <2>1 DEF ByFast
  <2>3. fast = extractScalarConstraint(c)
    BY <1>3, <2>2, DescriptorIs
  <2>4. CASE IsListValue(v)
    <3>1. ~valid
      BY <2>1, <2>2, <2>3, <2>4, ScalarConstraintIs, ScalarFieldIs, ListFails
    <3>2. ~CUEAccepts(c, v)
      <4>1. CUEKind(v) = "list"
        BY <2>4 DEF IsListValue, CUEKind, NonFinite
      <4> QED
        BY <2>2, <2>3, <4>1, ScalarFieldIs, AcceptedKind
    <3> QED
      BY <1>1, <1>2, <1>7, <3>1, <3>2
  <2>5. CASE ~IsListValue(v)
    <3>1. Scalars(v) = {v}
      BY <2>5 DEF Scalars
    <3>2. Agrees(w, c, v)
      BY <1>4, <2>1, <2>3, ScalarAgrees
    <3>3. Finite(v) <=> v.go \notin NonFinite
      BY <1>5, <3>1
    <3>4. Exact(c, v) => ExactFor(c, v.n)
      BY <3>1, ExactScalar
    <3>5. v.go = "uint" /\ {"int", "float"} \subseteq Kinds(c) => UnsignedNumber(c, v)
      <4>1. c \in Parts(c)
        BY PartsIs
      <4> QED
        BY <3>1, <4>1 DEF UnsignedNumber
    <3> QED
      BY <1>1, <1>2, <1>7, <2>2, <3>2, <3>3, <3>4, <3>5 DEF Agrees
  <2> QED
    BY <2>4, <2>5
<1>9. CASE ByFastList
  <2>1. fast.kind = "list" /\ ElementsHandled(fast, v)
    BY <1>2, <1>9 DEF ByFastList
  <2>2. errors = << >> <=> RejectedElements(fast, v) = << >>
    <3> DEFINE failure(i) == FastError(validateFast(fast.elem[1], data.items[i]), indexedPath(FieldPath, i), fast.elem[1])
    <3>1. PICK failures : failures = RejectedElements(fast, v)
      OBVIOUS
    <3>2. errors = [k \in DOMAIN failures |-> failure(failures[k])]
      BY <1>2, <1>9, <3>1 DEF ByFastList
    <3> HIDE DEF failure
    <3>3. PICK m \in Nat : DOMAIN failures = 1 .. m /\ (failures = << >> <=> m = 0)
      <4>1. PICK n \in Nat : n = Len(v.items)
        BY ItemsAre
      <4>2. PICK K \in SUBSET Int : failures = Ascending(K) /\ IsFiniteSet(K)
        BY <3>1, <4>1, RejectedIs
      <4>3. failures \in Seq(K)
        BY <4>2, AscendingOrder
      <4>4. PICK m \in Nat : m = Len(failures) /\ DOMAIN failures = 1 .. m
        BY <4>3
      <4>5. failures = << >> <=> m = 0
        BY <4>3, <4>4
      <4> QED
        BY <4>4, <4>5
    <3>4. errors = << >> <=> m = 0
      BY <3>2, <3>3
    <3> QED
      BY <3>1, <3>3, <3>4
  <2>3. PICK e \in Constraint : /\ c.form = "list" /\ e = c.args[1] /\ DOMAIN c.args = {1}
                                /\ fast.elem[1] = extractScalarConstraint(e)
    <3>1. c.form = "list" /\ DOMAIN c.args = {1} /\ c.args[1] \in Constraint /\ fast.elem[1] = extractScalarConstraint(c.args[1])
      BY <1>3, <2>1, DescriptorIs, ScalarConstraintIs DEF ScalarFast
    <3> QED
      BY <3>1
  <2>4. PICK n \in Nat : n = Len(v.items) /\ DOMAIN v.items = 1 .. n
    BY ItemsAre
  <2>5. v.go = "list" /\ \A i \in 1 .. n : validateFast(fast.elem[1], v.items[i]).handled
    BY <2>1, <2>4 DEF ElementsHandled
  <2>6. ASSUME NEW i \in 1 .. n
        PROVE  /\ v.items[i].go \in NonFinite => ~validateFast(fast.elem[1], v.items[i]).valid
               /\ v.items[i].go \notin NonFinite /\ Exact(c, v) /\ ~UnsignedNumber(c, v) =>
                    (validateFast(fast.elem[1], v.items[i]).valid <=> CUEAccepts(e, v.items[i]))
    <3>1. PICK x \in Value : x = v.items[i]
      BY <2>4, ItemsAre
    <3>2. x \in Scalars(v)
      BY <2>4, <2>5, <3>1 DEF Scalars, IsListValue
    <3> QED
      BY <1>4, <2>3, <2>5, <3>1, <3>2, ElementAgrees
  <2>7. valid <=> \A i \in 1 .. n : validateFast(fast.elem[1], v.items[i]).valid
    BY <1>6, <2>2, <2>4, RejectedIs
  <2>8. Scalars(v) = {v.items[i] : i \in 1 .. n}
    BY <2>4, <2>5 DEF Scalars, IsListValue
  <2>9. CASE ~Finite(v)
    <3>1. PICK i \in 1 .. n : v.items[i].go \in NonFinite
      BY <1>5, <2>8, <2>9
    <3> QED
      BY <1>2, <2>6, <2>7, <2>9, <3>1
  <2>10. CASE Finite(v) /\ Exact(c, v) /\ ~UnsignedNumber(c, v)
    <3>1. \A i \in 1 .. n : validateFast(fast.elem[1], v.items[i]).valid <=> CUEAccepts(e, v.items[i])
      BY <1>5, <2>6, <2>8, <2>10
    <3>2. CUEAccepts(c, v) <=> \A i \in 1 .. n : CUEAccepts(e, v.items[i])
      <4>1. CUEKind(v) = "list"
        BY <2>5 DEF CUEKind, NonFinite
      <4> QED
        BY <2>3, <2>4, <4>1, ListAccepts
    <3> QED
      BY <1>1, <1>2, <1>7, <2>7, <2>10, <3>1, <3>2
  <2> QED
    BY <1>1, <1>2, <2>9, <2>10
<1> QED
  BY <1>8, <1>9 DEF VerdictInv, Decided

\* A field the fast path serves is valid just when CUE accepts its value
\* (oracle_test.go:11), whatever its constraint, but for numbers a float64 does
\* not hold and unsigned integers on a number field; a value that is not finite
\* is never valid there (validateFiniteFloat, fastpath.go).
THEOREM FastMeansCUE == Spec => []FastPathAgrees
<1>1. VerdictInv => FastPathAgrees
  BY FastVerdict DEF FastPathAgrees
<1> QED
  BY <1>1, VerdictInvariant, PTL

----------------------------------------------------------------------------
(* Where the elements of a flattened sequence come from.                   *)

\* The k-th element of flat is one of seqs[from[k]], in the order of seqs, and
\* as many as there are.
Traced(from, flat, seqs, n) ==
  /\ from \in [DOMAIN flat -> 1 .. n]
  /\ \A k \in DOMAIN flat : \E j \in DOMAIN seqs[from[k]] : flat[k] = seqs[from[k]][j]
  /\ \A j, k \in DOMAIN flat : j < k => /\ from[j] <= from[k]
                                        /\ from[j] = from[k] => Len(seqs[from[k]]) > 1

LEMMA TracedOn ==
  ASSUME NEW V, NEW s \in Seq(V), NEW t \in Seq(V), NEW seqs, NEW n \in Nat, NEW i, i = n + 1, seqs[i] = t,
         NEW from, Traced(from, s, seqs, n)
  PROVE  \E g : Traced(g, s \o t, seqs, i)
<1>1. PICK a \in Nat, b \in Nat : /\ a = Len(s) /\ b = Len(t) /\ DOMAIN s = 1 .. a /\ DOMAIN t = 1 .. b
                                  /\ DOMAIN (s \o t) = 1 .. (a + b)
  OBVIOUS
<1>2. PICK u : u = s \o t
  OBVIOUS
<1>3. /\ \A k \in 1 .. a : u[k] = s[k]
      /\ \A k \in 1 .. (a + b) : ~(k <= a) => k - a \in 1 .. b /\ u[k] = t[k - a]
  BY <1>1, <1>2
<1>4. PICK g : g = [k \in 1 .. (a + b) |-> IF k <= a THEN from[k] ELSE i]
  OBVIOUS
<1>5. /\ \A k \in 1 .. a : from[k] \in 1 .. n /\ from[k] \in 1 .. i
      /\ i \in 1 .. i /\ i \in Nat
  <2>1. \A k \in 1 .. a : from[k] \in 1 .. n
    BY <1>1 DEF Traced
  <2> QED
    BY <2>1
<1>6. ASSUME NEW k \in 1 .. (a + b)
      PROVE  /\ g[k] \in 1 .. i /\ (k <= a => k \in 1 .. a /\ g[k] = from[k]) /\ (~(k <= a) => g[k] = i)
             /\ \E j \in DOMAIN seqs[g[k]] : u[k] = seqs[g[k]][j]
  <2>1. CASE k <= a
    <3>1. k \in 1 .. a /\ g[k] = from[k] /\ u[k] = s[k]
      BY <1>1, <1>3, <1>4, <2>1
    <3>2. \E j \in DOMAIN seqs[from[k]] : s[k] = seqs[from[k]][j]
      BY <1>1, <3>1 DEF Traced
    <3> QED
      BY <1>5, <2>1, <3>1, <3>2
  <2>2. CASE ~(k <= a)
    <3>1. g[k] = i /\ u[k] = t[k - a] /\ k - a \in DOMAIN t
      BY <1>1, <1>3, <1>4, <2>2
    <3> QED
      BY <1>5, <2>2, <3>1
  <2> QED
    BY <2>1, <2>2
<1>7. ASSUME NEW j \in 1 .. (a + b), NEW k \in 1 .. (a + b), j < k
      PROVE  g[j] <= g[k] /\ (g[j] = g[k] => Len(seqs[g[k]]) > 1)
  <2>1. CASE k <= a
    <3>1. j \in 1 .. a /\ k \in 1 .. a /\ g[j] = from[j] /\ g[k] = from[k]
      <4>1. j <= a
        BY <1>1, <1>7, <2>1
      <4> QED
        BY <1>6, <2>1, <4>1
    <3> QED
      BY <1>1, <1>7, <3>1 DEF Traced
  <2>2. CASE ~(k <= a) /\ j <= a
    <3>1. g[j] \in 1 .. n /\ g[k] = i
      BY <1>5, <1>6, <2>2
    <3> QED
      BY <3>1
  <2>3. CASE ~(k <= a) /\ ~(j <= a)
    <3>1. g[j] = i /\ g[k] = i
      BY <1>6, <2>3
    <3>2. b > 1
      BY <1>1, <1>7, <2>3
    <3> QED
      BY <1>1, <1>5, <3>1, <3>2
  <2> QED
    BY <2>1, <2>2, <2>3
<1>8. g \in [1 .. (a + b) -> 1 .. i]
  BY <1>4, <1>6
<1>9. Traced(g, u, seqs, i)
  <2>1. DOMAIN u = 1 .. (a + b)
    BY <1>1, <1>2
  <2>2. \A k \in DOMAIN u : \E j \in DOMAIN seqs[g[k]] : u[k] = seqs[g[k]][j]
    BY <1>6, <2>1
  <2>3. \A j, k \in DOMAIN u : j < k => g[j] <= g[k] /\ (g[j] = g[k] => Len(seqs[g[k]]) > 1)
    BY <1>7, <2>1
  <2>4. g \in [DOMAIN u -> 1 .. i]
    BY <1>8, <2>1
  <2> QED
    BY <2>2, <2>3, <2>4 DEF Traced
<1> QED
  BY <1>2, <1>9

LEMMA FlattenTraced ==
  ASSUME NEW V, NEW seqs \in Seq(Seq(V))
  PROVE  /\ DOMAIN seqs = 1 .. Len(seqs)
         /\ \E from : Traced(from, FlattenSeq(seqs), seqs, Len(seqs))
<1>1. PICK n \in Nat : n = Len(seqs) /\ DOMAIN seqs = 1 .. n /\ \A i \in 1 .. n : seqs[i] \in Seq(V)
  OBVIOUS
<1>2. PICK from0 : from0 = [k \in DOMAIN << >> |-> 1]
  OBVIOUS
<1>3. Traced(from0, << >>, seqs, 0)
  <2>1. DOMAIN << >> = {}
    OBVIOUS
  <2> QED
    BY <1>2, <2>1 DEF Traced
<1>4. CASE n = 0
  <2>1. seqs = << >>
    BY <1>1, <1>4
  <2>2. FlattenSeq(seqs) = << >>
    BY <2>1 DEF FlattenSeq
  <2> QED
    BY <1>1, <1>3, <1>4, <2>2
<1>5. CASE n # 0
  <2>1. PICK r : Flattens(r, seqs, V) /\ FlattenSeq(seqs) = r[n]
    BY <1>1, <1>5, FlattenSteps
  <2>2. \A i \in 1 .. n : r[i] \in Seq(V)
    BY <1>1, <2>1 DEF Flattens
  <2> DEFINE S == {m \in Nat : m + 1 <= n => \E from : Traced(from, r[m + 1], seqs, m + 1)}
  <2>3. 0 \in S
    <3>1. 0 + 1 = 1 /\ 1 \in 1 .. n
      BY <1>1, <1>5
    <3>2. PICK t \in Seq(V) : t = seqs[1] /\ r[1] = t
      BY <1>1, <2>1, <3>1 DEF Flattens
    <3>3. << >> \in Seq(V) /\ << >> \o t = t
      OBVIOUS
    <3>4. \E g : Traced(g, << >> \o t, seqs, 1)
      <4>1. 0 \in Nat
        OBVIOUS
      <4> QED
        BY <1>3, <3>1, <3>2, <3>3, <4>1, TracedOn
    <3> QED
      BY <3>1, <3>2, <3>3, <3>4
  <2>4. ASSUME NEW m \in S PROVE m + 1 \in S
    <3>1. m \in Nat
      OBVIOUS
    <3>2. SUFFICES ASSUME (m + 1) + 1 <= n PROVE \E from : Traced(from, r[(m + 1) + 1], seqs, (m + 1) + 1)
      BY <3>1
    <3>3. PICK k \in Nat : k = m + 1 /\ k \in 1 .. n
      BY <1>1, <3>1, <3>2
    <3>4. PICK i \in 2 .. n : i = k + 1 /\ i \in 1 .. n /\ i - 1 = k
      BY <1>1, <3>1, <3>2, <3>3
    <3>5. PICK from : Traced(from, r[k], seqs, k)
      BY <3>3
    <3>6. r[i] = r[k] \o seqs[i]
      BY <1>1, <2>1, <3>4 DEF Flattens
    <3>7. PICK s \in Seq(V), t \in Seq(V) : s = r[k] /\ t = seqs[i]
      BY <1>1, <2>2, <3>3, <3>4
    <3>8. \E g : Traced(g, s \o t, seqs, i)
      BY <3>4, <3>5, <3>7, TracedOn
    <3> QED
      BY <3>3, <3>4, <3>6, <3>7, <3>8
  <2>5. S = Nat
    <3>1. S \in SUBSET Nat
      OBVIOUS
    <3> HIDE DEF S
    <3> QED
      BY <2>3, <2>4, <3>1, SetInduction
  <2>6. PICK m \in Nat : m + 1 = n
    <3>1. n - 1 \in Nat /\ (n - 1) + 1 = n
      BY <1>1, <1>5
    <3> QED
      BY <3>1
  <2>7. m \in S
    BY <2>5
  <2>8. \E from : Traced(from, r[n], seqs, n)
    BY <1>1, <2>6, <2>7
  <2> QED
    BY <1>1, <2>1, <2>8
<1> QED
  BY <1>4, <1>5

----------------------------------------------------------------------------
(* The errors collapseDisjunctionErrors leaves.                            *)

\* group holds the elements of s at the positions of K, all of them.
Gathers(group, s, K, m) ==
  /\ DOMAIN group = 1 .. m /\ Len(group) = m
  /\ \A k \in 1 .. m : \E j \in K : group[k] = s[j]
  /\ \A j \in K : \E k \in 1 .. m : group[k] = s[j]
  /\ \A i, j \in K : i # j => m >= 2

LEMMA SelectionIs ==
  ASSUME NEW s, NEW n \in Nat, NEW K, K \subseteq 1 .. n
  PROVE  \E m \in Nat : Gathers(Selection(s, K), s, K, m)
<1>1. K \in SUBSET Int /\ IsFiniteSet(K)
  BY PositionsAre
<1>2. PICK a : a = Ascending(K)
  OBVIOUS
<1>3. PICK m \in Nat : m = Cardinality(K)
  BY <1>1, AscendingOrder
<1>4. /\ DOMAIN a = 1 .. m /\ \A k \in 1 .. m : a[k] \in K
      /\ \A x \in K : \E k \in 1 .. m : a[k] = x
  BY <1>1, <1>2, <1>3, AscendingOrder
<1>5. PICK group : group = Selection(s, K)
  OBVIOUS
<1>6. DOMAIN group = 1 .. m /\ Len(group) = m /\ \A k \in 1 .. m : group[k] = s[a[k]]
  BY <1>2, <1>4, <1>5 DEF Selection
<1>7. \A k \in 1 .. m : \E j \in K : group[k] = s[j]
  BY <1>4, <1>6
<1>8. \A j \in K : \E k \in 1 .. m : group[k] = s[j]
  BY <1>4, <1>6
<1>9. ASSUME NEW i \in K, NEW j \in K, i # j PROVE m >= 2
  <2>1. PICK k \in 1 .. m, l \in 1 .. m : a[k] = i /\ a[l] = j
    BY <1>4
  <2>2. k # l
    BY <1>9, <2>1
  <2> QED
    BY <2>2
<1>10. Gathers(group, s, K, m)
  BY <1>6, <1>7, <1>8, <1>9 DEF Gathers
<1> QED
  BY <1>5, <1>10

LEMMA FinishKeeps ==
  ASSUME NEW x, NEW v, CollectedOK(x, v)
  PROVE  Finish(x).path = x.error.path /\ Finish(x).code = x.error.code
<1>1. PICK index \in 0 .. Len(v.items), code \in ErrorCode \ {"E0C01"} :
        x.error = Structured(code, indexedPath(FieldPath, index), NoType, << >>, << >>, << >>)
  BY DEF CollectedOK
<1>2. PICK path : path = indexedPath(FieldPath, index)
  OBVIOUS
<1>3. Finish(x) = Structured(code, path, NoType, IF code = "E1R01" THEN x.diag.bound ELSE << >>,
                             IF code = "E1E01" THEN NoDescriptor.enums ELSE << >>, << >>)
  BY <1>1, <1>2, AttachedIs DEF Finish
<1> QED
  BY <1>1, <1>2, <1>3, StructuredIs

LEMMA MergedKeeps ==
  ASSUME NEW group, NEW v, CollectedOK(group[1], v), NEW input
  PROVE  mergeDisjunctionGroup(group, input).path = group[1].error.path
<1>1. PICK index \in 0 .. Len(v.items), code \in ErrorCode :
        group[1].error = Structured(code, indexedPath(FieldPath, index), NoType, << >>, << >>, << >>)
  BY DEF CollectedOK
<1>2. PICK path : path = indexedPath(FieldPath, index)
  OBVIOUS
<1>3. PICK candidates, suggestion : mergeDisjunctionGroup(group, input) = Revised(group[1].error, candidates, suggestion)
  BY Zenon DEF mergeDisjunctionGroup, Revised
<1>4. mergeDisjunctionGroup(group, input) = Structured("E1E01", path, NoType, << >>, candidates, suggestion)
  BY <1>1, <1>2, <1>3, RevisedIs
<1> QED
  BY <1>1, <1>2, <1>4, StructuredIs

Companions(collected, path) == {j \in DOMAIN collected : collected[j].error.path = path}
GroupOf(collected, path) == Selection(collected, Companions(collected, path))

\* Each error left is about the path of the first finding of a group, merged or
\* not; the groups come in the order of these.
Grouped(first, errs, collected, n) ==
  /\ first \in [DOMAIN errs -> 1 .. n]
  /\ \A k \in DOMAIN errs :
       /\ errs[k].path = collected[first[k]].error.path
       /\ \A j \in 1 .. n : collected[j].error.path = errs[k].path => first[k] <= j
       /\ \/ Mergeable(GroupOf(collected, errs[k].path))
          \/ \E j \in 1 .. n : collected[j].error.path = errs[k].path /\ errs[k] = Finish(collected[j])
  /\ \A j, k \in DOMAIN errs :
       j < k => first[j] <= first[k] /\ (first[j] = first[k] => ~Mergeable(GroupOf(collected, errs[k].path)))
  /\ \A j \in 1 .. n : \E k \in DOMAIN errs : errs[k].path = collected[j].error.path

\* What is left of one group.
Left(collected, path, v) ==
  IF Mergeable(GroupOf(collected, path)) THEN <<mergeDisjunctionGroup(GroupOf(collected, path), v.items[path.index])>>
  ELSE [k \in DOMAIN GroupOf(collected, path) |-> Finish(GroupOf(collected, path)[k])]

LeftOK(left, path, collected, n) ==
  /\ IsSeq(left) /\ Len(left) >= 1 /\ DOMAIN left = 1 .. Len(left)
  /\ Mergeable(GroupOf(collected, path)) => Len(left) = 1
  /\ \A k \in DOMAIN left :
       /\ left[k].path = path
       /\ \/ Mergeable(GroupOf(collected, path))
          \/ \E j \in 1 .. n : collected[j].error.path = path /\ left[k] = Finish(collected[j])

LEMMA LeftIs ==
  ASSUME NEW v, NEW collected, NEW n \in Nat, DOMAIN collected = 1 .. n,
         \A j \in 1 .. n : CollectedOK(collected[j], v), NEW i \in 1 .. n, NEW path, path = collected[i].error.path
  PROVE  LeftOK(Left(collected, path, v), path, collected, n)
<1>1. PICK K : K = Companions(collected, path)
  OBVIOUS
<1>2. K \subseteq 1 .. n /\ i \in K /\ \A j \in K : j \in 1 .. n /\ collected[j].error.path = path
  BY <1>1 DEF Companions
<1>3. PICK group : group = GroupOf(collected, path)
  OBVIOUS
<1>4. PICK m \in Nat : /\ DOMAIN group = 1 .. m /\ Len(group) = m
                       /\ \A k \in 1 .. m : \E j \in K : group[k] = collected[j]
                       /\ \A j \in K : \E k \in 1 .. m : group[k] = collected[j]
  <2>1. group = Selection(collected, K)
    BY <1>1, <1>3 DEF GroupOf
  <2>2. PICK m \in Nat : Gathers(group, collected, K, m)
    BY <1>2, <2>1, SelectionIs
  <2> QED
    BY <2>2 DEF Gathers
<1>5. 1 \in 1 .. m
  <2>1. PICK k \in 1 .. m : group[k] = collected[i]
    BY <1>2, <1>4
  <2> QED
    BY <2>1
<1>6. PICK left : left = Left(collected, path, v)
  OBVIOUS
<1>7. CASE Mergeable(group)
  <2>1. PICK e : e = mergeDisjunctionGroup(group, v.items[path.index])
    OBVIOUS
  <2>2. left = <<e>>
    BY <1>3, <1>6, <1>7, <2>1 DEF Left
  <2>3. PICK j \in K : group[1] = collected[j]
    BY <1>4, <1>5
  <2>4. e.path = path
    <3>1. CollectedOK(group[1], v) /\ group[1].error.path = path
      BY <1>2, <2>3
    <3> QED
      BY <2>1, <3>1, MergedKeeps
  <2>5. Len(left) = 1 /\ DOMAIN left = 1 .. 1 /\ left[1] = e /\ left = [k \in 1 .. 1 |-> left[k]]
    BY <2>2
  <2> QED
    BY <1>3, <1>6, <1>7, <2>4, <2>5 DEF IsSeq, LeftOK
<1>8. CASE ~Mergeable(group)
  <2>1. left = [k \in 1 .. m |-> Finish(group[k])]
    BY <1>3, <1>4, <1>6, <1>8 DEF Left
  <2>2. Len(left) = m /\ DOMAIN left = 1 .. m /\ m >= 1 /\ left = [k \in 1 .. m |-> left[k]]
    BY <1>5, <2>1
  <2>3. ASSUME NEW k \in 1 .. m
        PROVE  left[k].path = path /\ \E j \in 1 .. n : collected[j].error.path = path /\ left[k] = Finish(collected[j])
    <3>1. PICK j \in K : group[k] = collected[j]
      BY <1>4
    <3>2. left[k] = Finish(collected[j])
      BY <2>1, <3>1
    <3> QED
      BY <1>2, <3>2, FinishKeeps
  <2> QED
    BY <1>3, <1>6, <1>8, <2>2, <2>3 DEF IsSeq, LeftOK
<1> QED
  BY <1>7, <1>8

LEMMA LeastAmong ==
  ASSUME NEW n \in Nat, NEW K, K \subseteq 1 .. n, NEW j \in K
  PROVE  \E i \in K : \A k \in K : i <= k
<1>1. K \in SUBSET Int /\ IsFiniteSet(K)
  BY PositionsAre
<1>2. PICK a : a = Ascending(K)
  OBVIOUS
<1>3. PICK m \in Nat : m = Cardinality(K)
  BY <1>1, AscendingOrder
<1>4. /\ \A k \in 1 .. m : a[k] \in K
      /\ \A x \in K : \E k \in 1 .. m : a[k] = x
      /\ \A k, l \in 1 .. m : k < l => a[k] < a[l]
  BY <1>1, <1>2, <1>3, AscendingOrder
<1>5. 1 \in 1 .. m
  BY <1>4
<1>6. \A k \in K : a[1] <= k
  <2>1. TAKE k \in K
  <2>2. PICK l \in 1 .. m : a[l] = k
    BY <1>4
  <2>3. l = 1 \/ 1 < l
    BY <2>2
  <2>4. a[1] \in Int /\ k \in Int
    BY <1>1, <1>4, <1>5
  <2> QED
    BY <1>4, <1>5, <2>2, <2>3, <2>4
<1> QED
  BY <1>4, <1>5, <1>6

LEMMA CollapseIs ==
  ASSUME NEW v \in Value, NEW collected, NEW n \in Nat, DOMAIN collected = 1 .. n,
         \A j \in 1 .. n : CollectedOK(collected[j], v)
  PROVE  \E first : Grouped(first, collapseDisjunctionErrors(collected, v), collected, n)
<1> DEFINE path(j) == collected[j].error.path
           same(i) == {j \in DOMAIN collected : collected[j].error.path = collected[i].error.path}
           group(i) == Selection(collected, same(i))
           collapsed(i) ==
             IF Mergeable(group(i)) THEN <<mergeDisjunctionGroup(group(i), v.items[collected[i].error.path.index])>>
             ELSE [k \in DOMAIN group(i) |-> Finish(group(i)[k])]
<1>1. PICK firsts : firsts = {i \in DOMAIN collected : \A j \in same(i) : i <= j}
  OBVIOUS
<1>2. PICK a : a = Ascending(firsts)
  OBVIOUS
<1>3. firsts \subseteq 1 .. n /\ \A i \in 1 .. n : i \in firsts <=> \A j \in 1 .. n : path(j) = path(i) => i <= j
  BY <1>1
<1>4. PICK m \in Nat : /\ DOMAIN a = 1 .. m /\ \A k \in 1 .. m : a[k] \in firsts
                       /\ \A x \in firsts : \E k \in 1 .. m : a[k] = x
                       /\ \A k, l \in 1 .. m : k < l => a[k] < a[l]
  <2>1. firsts \in SUBSET Int /\ IsFiniteSet(firsts)
    BY <1>3, PositionsAre
  <2>2. PICK m \in Nat : m = Cardinality(firsts)
    BY <2>1, AscendingOrder
  <2> QED
    BY <1>2, <2>1, <2>2, AscendingOrder
<1>5. collapseDisjunctionErrors(collected, v) = FlattenSeq([k \in DOMAIN a |-> collapsed(a[k])])
  BY <1>1, <1>2 DEF collapseDisjunctionErrors
<1>6. ASSUME NEW i PROVE collapsed(i) = Left(collected, path(i), v)
  <2>1. PICK p : p = path(i)
    OBVIOUS
  <2>2. group(i) = GroupOf(collected, p)
    BY <2>1 DEF GroupOf, Companions
  <2> HIDE DEF group
  <2> QED
    BY <2>1, <2>2 DEF Left
<1> HIDE DEF collapsed
<1>7. PICK groups : groups = [k \in 1 .. m |-> collapsed(a[k])]
  OBVIOUS
<1> DEFINE at(k) == path(a[k])
<1>8. ASSUME NEW k \in 1 .. m
      PROVE  a[k] \in 1 .. n /\ a[k] \in firsts /\ LeftOK(groups[k], at(k), collected, n)
  <2>1. PICK i \in 1 .. n : i = a[k] /\ i \in firsts
    BY <1>3, <1>4
  <2>2. PICK p : p = path(i)
    OBVIOUS
  <2>3. groups[k] = Left(collected, p, v)
    BY <1>6, <1>7, <2>1, <2>2
  <2> QED
    BY <2>1, <2>2, <2>3, LeftIs
<1>9. PICK E : E = UNION {{groups[k][j] : j \in DOMAIN groups[k]} : k \in 1 .. m}
  OBVIOUS
<1>10. groups \in Seq(Seq(E)) /\ Len(groups) = m /\ DOMAIN groups = 1 .. m
  <2>1. ASSUME NEW k \in 1 .. m PROVE groups[k] \in Seq(E)
    <3>1. PICK g : g = groups[k]
      OBVIOUS
    <3>2. PICK l \in Nat : l = Len(g) /\ g = [j \in 1 .. l |-> g[j]] /\ DOMAIN g = 1 .. l
      BY <1>8, <3>1 DEF LeftOK, IsSeq
    <3>3. \A j \in 1 .. l : g[j] \in E
      BY <1>9, <3>1, <3>2
    <3>4. g \in [1 .. l -> E]
      BY <3>2, <3>3
    <3> QED
      BY <3>1, <3>4
  <2>2. PICK S : S = Seq(E)
    OBVIOUS
  <2>3. groups \in [1 .. m -> S]
    BY <1>7, <2>1, <2>2
  <2> QED
    BY <2>2, <2>3
<1>11. PICK errs : errs = collapseDisjunctionErrors(collected, v) /\ errs = FlattenSeq(groups)
  BY <1>4, <1>5, <1>7
<1>12. PICK from : Traced(from, errs, groups, m)
  BY <1>10, <1>11, FlattenTraced
<1>13. ASSUME NEW k \in DOMAIN errs
       PROVE  from[k] \in 1 .. m /\ \E j \in DOMAIN groups[from[k]] : errs[k] = groups[from[k]][j]
  BY <1>12 DEF Traced
<1>14. PICK first : first = [k \in DOMAIN errs |-> a[from[k]]]
  OBVIOUS
<1>15. ASSUME NEW k \in DOMAIN errs
       PROVE  /\ first[k] \in 1 .. n
              /\ errs[k].path = path(first[k])
              /\ \A j \in 1 .. n : path(j) = errs[k].path => first[k] <= j
              /\ \/ Mergeable(GroupOf(collected, errs[k].path))
                 \/ \E j \in 1 .. n : path(j) = errs[k].path /\ errs[k] = Finish(collected[j])
              /\ errs[k].path = at(from[k])
  <2>1. PICK g \in 1 .. m : g = from[k] /\ \E j \in DOMAIN groups[g] : errs[k] = groups[g][j]
    BY <1>13
  <2>2. first[k] = a[g] /\ a[g] \in 1 .. n /\ a[g] \in firsts
    BY <1>8, <1>14, <2>1
  <2>3. /\ errs[k].path = at(g)
        /\ \/ Mergeable(GroupOf(collected, at(g)))
           \/ \E j \in 1 .. n : path(j) = at(g) /\ errs[k] = Finish(collected[j])
    BY <1>8, <2>1 DEF LeftOK
  <2> HIDE DEF path
  <2> QED
    BY <1>3, <2>1, <2>2, <2>3
<1>16. ASSUME NEW j \in DOMAIN errs, NEW k \in DOMAIN errs, j < k
       PROVE  first[j] <= first[k] /\ (first[j] = first[k] => ~Mergeable(GroupOf(collected, errs[k].path)))
  <2>1. PICK g \in 1 .. m, h \in 1 .. m : g = from[j] /\ h = from[k]
    BY <1>13
  <2>2. g <= h /\ (g = h => Len(groups[h]) > 1)
    BY <1>12, <1>16, <2>1 DEF Traced
  <2>3. first[j] = a[g] /\ first[k] = a[h] /\ a[g] \in Int /\ a[h] \in Int
    BY <1>8, <1>14, <2>1
  <2>4. errs[k].path = at(h) /\ (Mergeable(GroupOf(collected, at(h))) => Len(groups[h]) = 1)
    BY <1>8, <1>15, <2>1 DEF LeftOK
  <2>5. CASE g = h
    <3>1. ~Mergeable(GroupOf(collected, at(h)))
      <4>1. Len(groups[h]) # 1
        <5>1. PICK l \in Nat : l = Len(groups[h])
          BY <1>8 DEF LeftOK, IsSeq
        <5>2. l > 1
          BY <2>2, <2>5, <5>1
        <5>3. l # 1
          BY <5>2
        <5> QED
          BY <5>1, <5>3
      <4> QED
        BY <2>4, <4>1
    <3> QED
      BY <2>3, <2>4, <2>5, <3>1
  <2>6. CASE g # h
    <3>1. g < h
      BY <2>2, <2>6
    <3>2. a[g] < a[h]
      BY <1>4, <3>1
    <3> QED
      BY <2>3, <3>2
  <2> QED
    BY <2>5, <2>6
<1>17. ASSUME NEW j \in 1 .. n
       PROVE  \E k \in DOMAIN errs : errs[k].path = path(j)
  <2>1. PICK p : p = path(j)
    OBVIOUS
  <2>2. PICK K : K = Companions(collected, p)
    OBVIOUS
  <2>3. K \subseteq 1 .. n /\ j \in K /\ \A l \in 1 .. n : l \in K <=> path(l) = p
    BY <2>1, <2>2 DEF Companions
  <2>4. PICK i \in K : \A l \in K : i <= l
    BY <2>3, LeastAmong
  <2>5. i \in firsts /\ path(i) = p
    BY <1>3, <2>3, <2>4
  <2>6. PICK g \in 1 .. m : a[g] = i
    BY <1>4, <2>5
  <2>7. 1 \in DOMAIN groups[g]
    <3>1. PICK l \in Nat : l = Len(groups[g]) /\ l >= 1 /\ DOMAIN groups[g] = 1 .. l
      BY <1>8 DEF LeftOK, IsSeq
    <3> QED
      BY <3>1
  <2>8. groups[g][1].path = p
    BY <1>8, <2>5, <2>6, <2>7 DEF LeftOK
  <2>9. \E k \in DOMAIN errs : errs[k] = groups[g][1]
    <3>1. g \in DOMAIN groups
      BY <1>10
    <3>2. PICK l : l = 1 /\ l \in DOMAIN groups[g]
      BY <2>7
    <3>3. PICK seqs \in Seq(Seq(E)) : seqs = groups
      BY <1>10
    <3>4. g \in DOMAIN seqs /\ l \in DOMAIN seqs[g]
      BY <3>1, <3>2, <3>3
    <3>5. \E k \in DOMAIN FlattenSeq(seqs) : FlattenSeq(seqs)[k] = seqs[g][l]
      BY <3>4, FlattenHas
    <3> QED
      BY <1>11, <3>2, <3>3, <3>5
  <2> QED
    BY <2>1, <2>8, <2>9
<1>18. first \in [DOMAIN errs -> 1 .. n]
  BY <1>14, <1>15
<1>19. Grouped(first, errs, collected, n)
  BY <1>15, <1>16, <1>17, <1>18 DEF Grouped
<1> QED
  BY <1>11, <1>19

----------------------------------------------------------------------------
(* CUE reports just what it rejects.                                       *)

\* The diagnostics of the operands, one after the other.
OfOperands(c, v) == [i \in DOMAIN c.args |-> Diagnostics(c.args[i], v)]

LEMMA OfOperandsIs ==
  ASSUME NEW c \in Constraint, NEW v
  PROVE  /\ OfOperands(c, v) \in Seq(Seq(DiagnosticIn)) /\ DOMAIN OfOperands(c, v) = DOMAIN c.args
         /\ \A i \in DOMAIN c.args : OfOperands(c, v)[i] = Diagnostics(c.args[i], v)
         /\ Diagnostics(c, v) = Diagnosed(c, v, FlattenSeq(OfOperands(c, v)))
<1>1. PICK n \in Nat : DOMAIN c.args = 1 .. n /\ \A i \in 1 .. n : c.args[i] \in Constraint
  BY ConstraintIs
<1>2. PICK S : S = Seq(DiagnosticIn)
  OBVIOUS
<1>3. OfOperands(c, v) \in [1 .. n -> S]
  BY <1>1, <1>2, DiagnosticsIs DEF OfOperands
<1>4. Diagnostics(c, v) = Diagnosed(c, v, FlattenSeq(OfOperands(c, v)))
  BY DiagnosticsIs DEF OfOperands
<1>5. OfOperands(c, v) \in Seq(S)
  BY <1>3
<1>6. DOMAIN OfOperands(c, v) = DOMAIN c.args /\ \A i \in DOMAIN c.args : OfOperands(c, v)[i] = Diagnostics(c.args[i], v)
  BY DEF OfOperands
<1> QED
  BY <1>2, <1>4, <1>5, <1>6

\* An element of a flattened sequence is one of a sequence in it.
LEMMA FlattenElements ==
  ASSUME NEW V, NEW seqs \in Seq(Seq(V)), NEW flat, flat = FlattenSeq(seqs), NEW k \in DOMAIN flat
  PROVE  \E i \in DOMAIN seqs : \E j \in DOMAIN seqs[i] : seqs[i][j] = flat[k]
<1>1. PICK n : n = Len(seqs) /\ DOMAIN seqs = 1 .. n
  BY FlattenTraced
<1>2. PICK from : Traced(from, flat, seqs, n)
  BY <1>1, FlattenTraced
<1>3. from[k] \in 1 .. n /\ \E j \in DOMAIN seqs[from[k]] : flat[k] = seqs[from[k]][j]
  BY <1>2 DEF Traced
<1> QED
  BY <1>1, <1>3

LEMMA NoneOrSome ==
  ASSUME NEW V, NEW s \in Seq(V)
  PROVE  s = << >> <=> \A k \in DOMAIN s : FALSE
<1>1. PICK n \in Nat : n = Len(s) /\ DOMAIN s = 1 .. n
  OBVIOUS
<1>2. CASE n = 0
  BY <1>1, <1>2
<1>3. CASE n # 0
  <2>1. 1 \in DOMAIN s
    BY <1>1, <1>3
  <2>2. s # << >>
    BY <1>1, <1>3
  <2> QED
    BY <2>1, <2>2
<1> QED
  BY <1>2, <1>3

LEMMA DiagnosedEmpty ==
  ASSUME NEW c \in Constraint, NEW v, NEW branches \in Seq(DiagnosticIn),
         c.form = "and" /\ ~CUEAccepts(c, v) => branches # << >>
  PROVE  Diagnosed(c, v, branches) = << >> <=> CUEAccepts(c, v)
<1>1. \A d : <<d>> # << >>
  OBVIOUS
<1>2. \A d : <<d>> \o branches # << >>
  <2> TAKE d
  <2>1. PICK V : d \in V /\ branches \in Seq(V)
    <3>1. branches \in Seq(DiagnosticIn \cup {d})
      OBVIOUS
    <3> QED
      BY <3>1
  <2>2. <<d>> \in Seq(V)
    BY <2>1
  <2>3. Len(<<d>> \o branches) = 1 + Len(branches) /\ Len(branches) \in Nat
    BY <2>1, <2>2
  <2> QED
    BY <2>3
<1>3. CASE CUEAccepts(c, v)
  BY <1>3 DEF Diagnosed
<1>4. CASE ~CUEAccepts(c, v) /\ c.form \in {"or", "default"}
  BY <1>2, <1>4 DEF Diagnosed
<1>5. CASE ~CUEAccepts(c, v) /\ c.form \notin {"or", "default"} /\ CUEKind(v) \notin Kinds(c)
  BY <1>1, <1>5 DEF Diagnosed, Mismatch
<1>6. CASE ~CUEAccepts(c, v) /\ c.form = "and" /\ CUEKind(v) \in Kinds(c)
  BY <1>6 DEF Diagnosed
<1>7. CASE ~CUEAccepts(c, v) /\ c.form \notin {"or", "default", "and"} /\ CUEKind(v) \in Kinds(c)
  BY <1>1, <1>7 DEF Diagnosed
<1> QED
  BY <1>3, <1>4, <1>5, <1>6, <1>7

LEMMA ReportedIs ==
  ASSUME NEW c \in Constraint, NEW v \in Value
  PROVE  Diagnostics(c, v) = << >> <=> CUEAccepts(c, v)
<1> DEFINE P == {d \in Constraint : Diagnostics(d, v) = << >> <=> CUEAccepts(d, v)}
<1>1. ASSUME NEW d \in Constraint, \A i \in DOMAIN d.args : d.args[i] \in P
      PROVE  d \in P
  <2>1. PICK seqs \in Seq(Seq(DiagnosticIn)) :
          /\ DOMAIN seqs = DOMAIN d.args /\ \A i \in DOMAIN d.args : seqs[i] = Diagnostics(d.args[i], v)
          /\ Diagnostics(d, v) = Diagnosed(d, v, FlattenSeq(seqs))
    BY OfOperandsIs
  <2>2. PICK branches \in Seq(DiagnosticIn) : branches = FlattenSeq(seqs)
    BY FlattenIs
  <2>3. ASSUME d.form = "and", ~CUEAccepts(d, v)
        PROVE  branches # << >>
    <3>1. PICK i \in DOMAIN d.args : ~CUEAccepts(d.args[i], v)
      BY <2>3, AndAccepts
    <3>2. seqs[i] # << >> /\ seqs[i] \in Seq(DiagnosticIn)
      BY <1>1, <2>1, <3>1
    <3>3. PICK j \in DOMAIN seqs[i] : TRUE
      BY <3>2, NoneOrSome
    <3>4. i \in DOMAIN seqs
      BY <2>1
    <3>5. \E k \in DOMAIN FlattenSeq(seqs) : FlattenSeq(seqs)[k] = seqs[i][j]
      BY <3>3, <3>4, FlattenHas
    <3> QED
      BY <2>2, <3>5, NoneOrSome
  <2>4. Diagnosed(d, v, branches) = << >> <=> CUEAccepts(d, v)
    BY <2>3, DiagnosedEmpty
  <2> QED
    BY <2>1, <2>2, <2>4
<1>2. P \in SUBSET Constraint
  OBVIOUS
<1> HIDE DEF P
<1>3. P = Constraint
  BY <1>1, <1>2, TreeInduction
<1> QED
  BY <1>3 DEF P

----------------------------------------------------------------------------
(* What CUE finds in a list.                                               *)

\* The findings about the elements, in their order and all of them.
OnElements(found, c, v) ==
  /\ \A k \in DOMAIN found :
       /\ found[k].index \in DOMAIN v.items
       /\ LET ds == Diagnostics(ElementConstraint(c, found[k].index), v.items[found[k].index])
          IN  \E l \in DOMAIN ds : found[k].diag = ds[l]
  /\ \A i \in DOMAIN v.items :
       LET ds == Diagnostics(ElementConstraint(c, i), v.items[i])
       IN  \A l \in DOMAIN ds : \E k \in DOMAIN found : found[k].index = i /\ found[k].diag = ds[l]
  /\ \A j, k \in DOMAIN found : j < k => found[j].index <= found[k].index

Elementwise(c, v) == [i \in DOMAIN v.items |-> Indexed(i, Diagnostics(ElementConstraint(c, i), v.items[i]))]

LEMMA ElementwiseIs ==
  ASSUME NEW c \in Constraint, c.form \in ListForm, NEW v \in Value, c.form = "tuple" => Len(v.items) = Len(c.args)
  PROVE  /\ FlattenSeq(Elementwise(c, v)) \in Seq(FoundIn(v))
         /\ OnElements(FlattenSeq(Elementwise(c, v)), c, v)
<1>1. PICK n \in Nat : n = Len(v.items) /\ DOMAIN v.items = 1 .. n
  BY ItemsAre
<1>2. PICK S : S = FoundIn(v)
  OBVIOUS
<1> DEFINE ds(i) == Diagnostics(ElementConstraint(c, i), v.items[i])
<1>3. PICK each : each = Elementwise(c, v)
  OBVIOUS
<1>4. ASSUME NEW i \in 1 .. n
      PROVE  /\ each[i] \in Seq(S) /\ DOMAIN each[i] = DOMAIN ds(i)
             /\ \A l \in DOMAIN ds(i) : each[i][l].index = i /\ each[i][l].diag = ds(i)[l]
  <2>1. PICK d \in Constraint : d = ElementConstraint(c, i)
    BY <1>1, ElementIs
  <2>2. PICK found \in Seq(DiagnosticIn) : found = ds(i)
    BY <2>1, DiagnosticsIs
  <2>3. each[i] = Indexed(i, found)
    BY <1>1, <1>3, <2>2 DEF Elementwise
  <2>4. i \in 0 .. Len(v.items) /\ i # 0
    BY <1>1
  <2>5. Indexed(i, found) \in Seq(S)
    BY <1>2, <2>4, IndexedIs
  <2>6. /\ DOMAIN Indexed(i, found) = DOMAIN found
        /\ \A l \in DOMAIN found : Indexed(i, found)[l].index = i /\ Indexed(i, found)[l].diag = found[l]
    BY DEF Indexed
  <2> HIDE DEF ds
  <2> QED
    BY <2>2, <2>3, <2>5, <2>6
<1> HIDE DEF ds
<1>5. each \in Seq(Seq(S)) /\ DOMAIN each = 1 .. n /\ Len(each) = n
  <2>1. PICK T : T = Seq(S)
    OBVIOUS
  <2>2. each \in [1 .. n -> T]
    BY <1>1, <1>3, <1>4, <2>1 DEF Elementwise
  <2> QED
    BY <2>1, <2>2
<1>6. PICK flat : flat = FlattenSeq(each)
  OBVIOUS
<1>7. flat \in Seq(S)
  BY <1>5, <1>6, FlattenIs
<1>8. PICK from : Traced(from, flat, each, n)
  BY <1>5, <1>6, FlattenTraced
<1>9. ASSUME NEW k \in DOMAIN flat
      PROVE  /\ from[k] \in 1 .. n /\ flat[k].index = from[k]
             /\ \E l \in DOMAIN ds(from[k]) : flat[k].diag = ds(from[k])[l]
  <2>1. PICK i \in 1 .. n : i = from[k] /\ \E j \in DOMAIN each[i] : flat[k] = each[i][j]
    BY <1>8 DEF Traced
  <2> QED
    BY <1>4, <2>1
<1>10. ASSUME NEW i \in 1 .. n, NEW l \in DOMAIN ds(i)
       PROVE  \E k \in DOMAIN flat : flat[k].index = i /\ flat[k].diag = ds(i)[l]
  <2>1. i \in DOMAIN each /\ l \in DOMAIN each[i]
    BY <1>4, <1>5
  <2>2. \E k \in DOMAIN FlattenSeq(each) : FlattenSeq(each)[k] = each[i][l]
    BY <1>5, <2>1, FlattenHas
  <2> QED
    BY <1>4, <1>6, <2>2
<1>11. ASSUME NEW j \in DOMAIN flat, NEW k \in DOMAIN flat, j < k
       PROVE  flat[j].index <= flat[k].index
  <2>1. from[j] <= from[k]
    BY <1>8, <1>11 DEF Traced
  <2> QED
    BY <1>9, <2>1
<1>12. OnElements(flat, c, v)
  <2>1. \A k \in DOMAIN flat :
          /\ flat[k].index \in DOMAIN v.items
          /\ \E l \in DOMAIN ds(flat[k].index) : flat[k].diag = ds(flat[k].index)[l]
    BY <1>1, <1>9
  <2>2. \A i \in DOMAIN v.items : \A l \in DOMAIN ds(i) :
          \E k \in DOMAIN flat : flat[k].index = i /\ flat[k].diag = ds(i)[l]
    BY <1>1, <1>10
  <2> QED
    BY <1>11, <2>1, <2>2 DEF OnElements, ds
<1> QED
  BY <1>2, <1>3, <1>6, <1>7, <1>12

LEMMA OfListOne ==
  ASSUME NEW format
  PROVE  Len(OfList(format)) = 1 /\ DOMAIN OfList(format) = 1 .. 1 /\ OfList(format)[1].index = 0
BY DEF OfList, Indexed

\* What CUE has against the elements, then what it has against the list.
LEMMA BranchIs ==
  ASSUME NEW c \in Constraint, c.form \in ListForm, NEW v \in Value
  PROVE  \/ /\ c.form = "tuple" /\ Len(v.items) # Len(c.args) /\ BranchDiagnostics(c, v) = OfList("other")
         \/ /\ c.form = "tuple" => Len(v.items) = Len(c.args)
            /\ \/ /\ c.form = "atLeast" /\ Halves(Len(v.items)) < c.num
                  /\ BranchDiagnostics(c, v) = FlattenSeq(Elementwise(c, v)) \o OfList("other")
               \/ /\ ~(c.form = "atLeast" /\ Halves(Len(v.items)) < c.num)
                  /\ BranchDiagnostics(c, v) = FlattenSeq(Elementwise(c, v))
BY DEF BranchDiagnostics, Elementwise

\* A conjunction is of no lists.
LEMMA NoListAnd ==
  ASSUME NEW c \in Constraint, c.form = "and"
  PROVE  "list" \notin Kinds(c)
<1> DEFINE P == {d \in Constraint : d.form \notin {"or", "default", "list", "atLeast", "tuple"} => "list" \notin Kinds(d)}
<1>1. ASSUME NEW d \in Constraint, \A i \in DOMAIN d.args : d.args[i] \in P
      PROVE  d \in P
  <2> SUFFICES ASSUME d.form \notin {"or", "default", "list", "atLeast", "tuple"} PROVE "list" \notin Kinds(d)
    OBVIOUS
  <2>1. d.form \in Form /\ d.kind \in Kind
    BY ConstraintIs
  <2>2. CASE d.form \in {"type", "lit"}
    <3>1. Kinds(d) = BasicKinds(d)
      BY <2>2, LeafKinds
    <3> QED
      BY <2>1, <3>1 DEF BasicKinds, Kind
  <2>3. CASE d.form \in Comparisons \cup {"!="}
    <3>1. Kinds(d) = ComparableKinds(d.args[1])
      BY <2>3, LeafKinds
    <3>2. d.args[1].kind \in Kind
      BY <2>3, FirstArg, ConstraintIs DEF Comparisons
    <3> QED
      BY <3>1, <3>2 DEF ComparableKinds, BasicKinds, Kind
  <2>4. CASE d.form \in {"=~", "call"}
    BY <2>4, LeafKinds
  <2>5. CASE d.form = "and"
    <3>1. 1 \in DOMAIN d.args /\ d.args[1] \in Constraint
      BY <2>5, FirstArg
    <3>2. d.args[1].form \notin {"or", "default", "list", "atLeast", "tuple"}
      BY <2>5, <3>1, FormAssumption
    <3>3. "list" \notin Kinds(d.args[1])
      BY <1>1, <3>1, <3>2
    <3> QED
      BY <2>5, <3>1, <3>3, AndKinds
  <2> QED
    BY <2>1, <2>2, <2>3, <2>4, <2>5 DEF Form, Comparisons
<1>2. P \in SUBSET Constraint
  OBVIOUS
<1> HIDE DEF P
<1>3. P = Constraint
  BY <1>1, <1>2, TreeInduction
<1> QED
  BY <1>3 DEF P

\* What is a list and nothing else.
LEMMA ListOnly ==
  ASSUME NEW c \in Constraint, Kinds(c) = {"list"}
  PROVE  c.form \in {"or", "list", "atLeast", "tuple"}
<1>1. c.form \in ListForm
  BY ListFormIs
<1>2. c.form # "and"
  BY NoListAnd
<1>3. c.form # "default"
  <2>1. SUFFICES ASSUME c.form = "default" PROVE FALSE
    OBVIOUS
  <2>2. 1 \in DOMAIN c.args /\ c.args[1] \in Constraint
    BY <2>1, FirstArg
  <2>3. c.args[1].form = "lit" /\ c.args[1].kind \in Kind /\ c.args[1].kind # "number"
    BY <2>1, <2>2, FormAssumption, ConstraintIs DEF IsConcrete
  <2>4. c.args[1].kind \in Kinds(c.args[1])
    <3>1. Kinds(c.args[1]) = BasicKinds(c.args[1])
      BY <2>2, <2>3, LeafKinds
    <3> QED
      BY <2>3, <3>1 DEF BasicKinds
  <2>5. c.args[1].kind \in Kinds(c)
    BY <2>1, <2>2, <2>4, OrKinds
  <2> QED
    BY <2>3, <2>5 DEF Kind
<1> QED
  BY <1>1, <1>2, <1>3 DEF ListForm

LEMMA TupleAccepts ==
  ASSUME NEW c \in Constraint, NEW v \in Value, c.form = "tuple"
  PROVE  CUEAccepts(c, v) = (/\ CUEKind(v) = "list" /\ Len(v.items) = Len(c.args)
                             /\ \A i \in DOMAIN v.items : CUEAccepts(c.args[i], v.items[i]))
<1>1. PICK operands : operands = [i \in DOMAIN c.args |-> Accepting(c.args[i])]
  OBVIOUS
<1>2. PICK n \in Nat : n = Len(c.args) /\ DOMAIN c.args = 1 .. n
  BY ConstraintIs
<1>3. Len(operands) = n /\ \A i \in 1 .. n : operands[i] = Accepting(c.args[i])
  BY <1>1, <1>2
<1>4. CUEAccepts(c, v) = (/\ CUEKind(v) = "list" /\ Len(v.items) = Len(operands)
                          /\ \A i \in DOMAIN v.items : operands[i][v.items[i]])
  BY <1>1, AcceptsIs DEF AcceptedOver, Comparisons
<1>5. PICK l \in Nat : l = Len(v.items) /\ DOMAIN v.items = 1 .. l
  BY ItemsAre
<1>6. l = n => \A i \in DOMAIN v.items : operands[i][v.items[i]] = CUEAccepts(c.args[i], v.items[i])
  <2>1. SUFFICES ASSUME l = n, NEW i \in DOMAIN v.items
                 PROVE  operands[i][v.items[i]] = CUEAccepts(c.args[i], v.items[i])
    OBVIOUS
  <2>2. PICK x \in Value : x = v.items[i]
    BY ItemsAre
  <2>3. PICK f : f = Accepting(c.args[i])
    OBVIOUS
  <2>4. f[x] = CUEAccepts(c.args[i], x)
    BY <2>3 DEF Accepting
  <2> QED
    BY <1>3, <1>5, <2>1, <2>2, <2>3, <2>4
<1> QED
  BY <1>2, <1>3, <1>4, <1>5, <1>6

LEMMA SomeAfter ==
  ASSUME NEW V, NEW s \in Seq(V), NEW t \in Seq(V), t # << >>
  PROVE  s \o t # << >>
<1>1. Len(t) \in Nat /\ Len(t) # 0 /\ Len(s) \in Nat /\ Len(s \o t) = Len(s) + Len(t)
  OBVIOUS
<1> QED
  BY <1>1

\* CUE has something to say about each list it rejects.
LEMMA ListReported ==
  ASSUME NEW c \in Constraint, Kinds(c) = {"list"}, NEW v \in Value, CUEKind(v) = "list", ~CUEAccepts(c, v)
  PROVE  ListDiagnostics(c, v) # << >>
<1>1. PICK S : S = FoundIn(v)
  OBVIOUS
<1>2. PICK one \in Seq(S) : one = OfList("other") /\ 1 \in DOMAIN one
  BY <1>1, OfListIs, OfListOne
<1>3. c.form \in ListForm /\ c.form \in {"or", "list", "atLeast", "tuple"}
  BY ListOnly DEF ListForm
<1>4. CASE c.form = "or"
  <2>1. ListDiagnostics(c, v) \in Seq(S)
    BY <1>1, ListFound
  <2>2. PICK branches : branches = FlattenSeq([i \in DOMAIN c.args |-> BranchDiagnostics(c.args[i], v)])
    OBVIOUS
  <2>3. ListDiagnostics(c, v) = OfList("summary") \o branches
    BY <1>4, <2>2 DEF ListDiagnostics
  <2>4. PICK summary : summary = OfList("summary")
    OBVIOUS
  <2>5. summary = <<[index |-> 0, diag |-> Diagnostic("summary", << >>, << >>)]>>
    BY <2>4 DEF OfList, Indexed
  <2>6. \A d : <<d>> \o branches # << >>
    <3>1. PICK flat \in Seq(S) : flat = << >> \/ flat # << >>
      BY <1>2
    <3>2. TAKE d
    <3>3. SUFFICES ASSUME <<d>> \o branches = << >> PROVE FALSE
      OBVIOUS
    <3>4. Len(<<d>> \o branches) = 0
      BY <3>3
    <3> QED
      BY <3>4
  <2> QED
    BY <2>3, <2>4, <2>5, <2>6
<1>5. CASE c.form # "or"
  <2>1. ListDiagnostics(c, v) = BranchDiagnostics(c, v)
    BY <1>5 DEF ListDiagnostics
  <2>2. one # << >>
    BY <1>2, NoneOrSome
  <2>3. ASSUME c.form = "tuple" => Len(v.items) = Len(c.args)
        PROVE  /\ FlattenSeq(Elementwise(c, v)) \in Seq(S) /\ OnElements(FlattenSeq(Elementwise(c, v)), c, v)
    BY <1>1, <1>3, <2>3, ElementwiseIs
  <2>4. CASE c.form = "tuple" /\ Len(v.items) # Len(c.args)
    BY <1>2, <1>3, <2>1, <2>2, <2>4, BranchIs
  <2>5. CASE c.form = "atLeast" /\ Halves(Len(v.items)) < c.num
    <3>1. PICK flat \in Seq(S) : flat = FlattenSeq(Elementwise(c, v))
      BY <2>3, <2>5
    <3>2. BranchDiagnostics(c, v) = flat \o one
      BY <1>2, <1>3, <2>5, <3>1, BranchIs
    <3>3. flat \o one # << >>
      BY <2>2, SomeAfter
    <3> QED
      BY <2>1, <3>2, <3>3
  <2>6. CASE (c.form = "tuple" => Len(v.items) = Len(c.args)) /\ ~(c.form = "atLeast" /\ Halves(Len(v.items)) < c.num)
    <3>1. PICK flat \in Seq(S) : flat = FlattenSeq(Elementwise(c, v)) /\ OnElements(flat, c, v)
      BY <2>3, <2>6
    <3>2. BranchDiagnostics(c, v) = flat
      BY <1>3, <2>6, <3>1, BranchIs
    <3>3. PICK i \in DOMAIN v.items : ~CUEAccepts(ElementConstraint(c, i), v.items[i])
      <4>1. CASE c.form = "tuple"
        <5>1. \E i \in DOMAIN v.items : ~CUEAccepts(c.args[i], v.items[i])
          BY <2>6, <4>1, TupleAccepts
        <5> QED
          BY <4>1, <5>1 DEF ElementConstraint
      <4>2. CASE c.form \in {"list", "atLeast"}
        <5>1. PICK l \in Nat : l = Len(v.items)
          BY ItemsAre
        <5>2. c.form = "atLeast" => Halves(l) >= c.num
          <6>1. c.num \in Int
            BY ConstraintIs
          <6> QED
            BY <2>6, <5>1, <6>1 DEF Halves
        <5>3. \E i \in DOMAIN v.items : ~CUEAccepts(c.args[1], v.items[i])
          BY <4>2, <5>1, <5>2, ListAccepts
        <5> QED
          BY <4>2, <5>3 DEF ElementConstraint
      <4> QED
        BY <1>3, <1>5, <4>1, <4>2
    <3>4. PICK d \in Constraint, x \in Value : d = ElementConstraint(c, i) /\ x = v.items[i]
      BY <1>3, <2>6, ElementIs, ItemsAre
    <3>5. PICK ds \in Seq(DiagnosticIn) : ds = Diagnostics(d, x) /\ ds # << >>
      BY <3>3, <3>4, ReportedIs, DiagnosticsIs
    <3>6. PICK l \in DOMAIN ds : TRUE
      BY <3>5, NoneOrSome
    <3>7. \E k \in DOMAIN flat : flat[k].index = i
      BY <3>1, <3>4, <3>5, <3>6 DEF OnElements
    <3> QED
      BY <2>1, <3>2, <3>7, NoneOrSome
  <2> QED
    BY <2>4, <2>5, <2>6
<1> QED
  BY <1>4, <1>5

LEMMA CollectedKeeps ==
  ASSUME NEW x
  PROVE  /\ Collected(x).diag = x.diag
         /\ Collected(x).error.path = indexedPath(FieldPath, x.index)
         /\ Collected(x).error.code = LET code == classifyByFormat(x.diag) IN IF code = "E1X01" THEN "E1A01" ELSE code
         /\ indexedPath(FieldPath, x.index).index = x.index
BY DEF Collected, ErrorAt, indexedPath, FieldPath

\* The errors of a list are those of its findings, grouped.
LEMMA ListErrorsIs ==
  ASSUME NEW c \in Constraint, Kinds(c) \subseteq {"list"}, NEW v \in Value,
         NEW found, found = ListDiagnostics(c, v)
  PROVE  \E n \in Nat : \E collected, first :
           /\ found \in Seq(FoundIn(v)) /\ DOMAIN found = 1 .. n
           /\ DOMAIN collected = 1 .. n /\ \A i \in 1 .. n : collected[i] = Collected(found[i])
           /\ Grouped(first, listErrors(c, v), collected, n)
<1>1. PICK S : S = FoundIn(v)
  OBVIOUS
<1>2. found \in Seq(S)
  BY <1>1, ListFound
<1>3. PICK n \in Nat : DOMAIN found = 1 .. n /\ \A i \in 1 .. n : found[i] \in S
  BY <1>2
<1>4. PICK collected : collected = [i \in DOMAIN found |-> Collected(found[i])]
  OBVIOUS
<1>5. DOMAIN collected = 1 .. n /\ \A i \in 1 .. n : collected[i] = Collected(found[i]) /\ CollectedOK(collected[i], v)
  BY <1>1, <1>3, <1>4, CollectedIs
<1>6. listErrors(c, v) = collapseDisjunctionErrors(collected, v)
  BY <1>4 DEF listErrors
<1>7. PICK first : Grouped(first, collapseDisjunctionErrors(collected, v), collected, n)
  BY <1>5, CollapseIs
<1> QED
  BY <1>1, <1>2, <1>3, <1>5, <1>6, <1>7

\* A list CUE rejects leaves an error.
LEMMA ListErrorsLeft ==
  ASSUME NEW c \in Constraint, Kinds(c) = {"list"}, NEW v \in Value, CUEKind(v) = "list", ~CUEAccepts(c, v)
  PROVE  listErrors(c, v) # << >>
<1>1. PICK found : found = ListDiagnostics(c, v) /\ found # << >>
  BY ListReported
<1>2. PICK errs : errs = listErrors(c, v)
  OBVIOUS
<1>3. PICK n, collected, first :
        n \in Nat /\ found \in Seq(FoundIn(v)) /\ DOMAIN found = 1 .. n /\ Grouped(first, errs, collected, n)
  BY <1>1, <1>2, ListErrorsIs
<1>4. PICK j \in 1 .. n : TRUE
  BY <1>1, <1>3, NoneOrSome
<1>5. PICK k \in DOMAIN errs : TRUE
  BY <1>3, <1>4 DEF Grouped
<1>6. errs # << >>
  BY <1>5
<1> QED
  BY <1>2, <1>6

\* The verdict on a field left to CUE is CUE's.
LEMMA CueVerdict ==
  ASSUME VerdictInv, served = "cue"
  PROVE  valid <=> CUEAccepts(scene.constraint, data)
<1>1. PICK c \in Constraint, v \in Value : c = scene.constraint /\ v = data
  BY SceneAssumption DEF VerdictInv, ReportInv, Given
<1>2. valid = (errors = << >>)
  BY DEF VerdictInv, ReportInv, Verdicts
<1>3. CASE ByScalar
  <2>1. PICK found \in Seq(DiagnosticIn) : found = Diagnostics(c, v)
    BY DiagnosticsIs
  <2>2. errors = [i \in DOMAIN found |-> recordFieldError(found[i])]
    BY <1>1, <1>3, <2>1 DEF ByScalar
  <2>3. PICK n \in Nat : n = Len(found) /\ DOMAIN found = 1 .. n /\ (found = << >> <=> n = 0)
    OBVIOUS
  <2>4. errors = << >> <=> n = 0
    BY <2>2, <2>3
  <2> QED
    BY <1>1, <1>2, <2>1, <2>3, <2>4, ReportedIs
<1>4. CASE ByKind
  <2>1. errors # << >>
    BY <1>4 DEF ByKind
  <2>2. Kinds(c) = {"list"} /\ CUEKind(v) # "list"
    BY <1>1, <1>4 DEF ByKind, IsListField
  <2>3. ~CUEAccepts(c, v)
    BY <2>2, AcceptedKind
  <2> QED
    BY <1>1, <1>2, <2>1, <2>3
<1>5. CASE ByList
  <2>1. Kinds(c) = {"list"} /\ CUEKind(v) = "list" /\ errors = IF CUEAccepts(c, v) THEN << >> ELSE listErrors(c, v)
    BY <1>1, <1>5 DEF ByList, IsListField
  <2> QED
    BY <1>1, <1>2, <2>1, ListErrorsLeft
<1> QED
  BY <1>3, <1>4, <1>5 DEF VerdictInv, Decided

----------------------------------------------------------------------------
(* What CUE cannot tell apart.                                             *)

Alike(v, w) ==
  /\ CUEKind(v) = CUEKind(w) /\ v.n = w.n /\ v.s = w.s
  /\ v.go \notin NonFinite /\ w.go \notin NonFinite
  /\ DOMAIN v.items = DOMAIN w.items /\ Len(v.items) = Len(w.items)
  /\ \A d \in Constraint, i \in DOMAIN v.items : CUEAccepts(d, v.items[i]) <=> CUEAccepts(d, w.items[i])

LEMMA NotEqualAccepts ==
  ASSUME NEW c \in Constraint, NEW v \in Value, c.form = "!="
  PROVE  CUEAccepts(c, v) = (/\ CUEKind(v) \in ComparableKinds(c.args[1])
                             /\ v.go \in NonFinite \/ v.n # c.args[1].num \/ v.s # c.args[1].str)
BY AcceptsIs DEF AcceptedOver, Comparisons

LEMMA AcceptsAlike ==
  ASSUME NEW v \in Value, NEW w \in Value, Alike(v, w), NEW c \in Constraint
  PROVE  CUEAccepts(c, v) <=> CUEAccepts(c, w)
<1> DEFINE P == {d \in Constraint : CUEAccepts(d, v) <=> CUEAccepts(d, w)}
<1>0. /\ CUEKind(v) = CUEKind(w) /\ v.n = w.n /\ v.s = w.s
      /\ v.go \notin NonFinite /\ w.go \notin NonFinite
      /\ DOMAIN v.items = DOMAIN w.items /\ Len(v.items) = Len(w.items)
      /\ \A d \in Constraint, i \in DOMAIN v.items : CUEAccepts(d, v.items[i]) <=> CUEAccepts(d, w.items[i])
  BY DEF Alike
<1>1. ASSUME NEW d \in Constraint, \A i \in DOMAIN d.args : d.args[i] \in P
      PROVE  d \in P
  <2>0. d.form \in Form /\ \A i \in DOMAIN d.args : d.args[i] \in Constraint
    BY ConstraintIs
  <2>1. CASE d.form = "type"
    BY <1>0, <2>1, TypeAccepts
  <2>2. CASE d.form = "lit"
    BY <1>0, <2>2, LiteralAccepts DEF SameLiteral
  <2>3. CASE d.form \in Comparisons
    BY <1>0, <2>3, BoundAccepts
  <2>4. CASE d.form \in {"=~", "call"}
    <3>1. v.go = "string" <=> w.go = "string"
      <4>1. \A x \in Value : x.go = "string" <=> CUEKind(x) = "string"
        BY ValueAssumption DEF CUEKind, NonFinite, GoType
      <4> QED
        BY <1>0, <4>1
    <3> QED
      BY <1>0, <2>4, <3>1, PatternAccepts
  <2>5. CASE d.form = "!="
    <3>1. \A x \in Value : CUEAccepts(d, x) = (/\ CUEKind(x) \in ComparableKinds(d.args[1])
                                               /\ x.go \in NonFinite \/ x.n # d.args[1].num \/ x.s # d.args[1].str)
      BY <2>5, NotEqualAccepts
    <3> QED
      BY <1>0, <3>1
  <2>6. CASE d.form = "and"
    <3>1. \A i \in DOMAIN d.args : CUEAccepts(d.args[i], v) <=> CUEAccepts(d.args[i], w)
      BY <1>1
    <3> QED
      BY <2>6, <3>1, AndAccepts
  <2>7. CASE d.form \in {"or", "default"}
    <3>1. \A i \in DOMAIN d.args : CUEAccepts(d.args[i], v) <=> CUEAccepts(d.args[i], w)
      BY <1>1
    <3> QED
      BY <2>7, <3>1, OrAccepts
  <2>8. CASE d.form \in {"list", "atLeast"}
    <3>1. d.args[1] \in Constraint
      BY <2>8, FirstArg
    <3>2. PICK e \in Constraint : e = d.args[1]
      BY <3>1
    <3>3. \A i \in DOMAIN v.items : CUEAccepts(e, v.items[i]) <=> CUEAccepts(e, w.items[i])
      BY <1>0
    <3> QED
      BY <1>0, <2>8, <3>2, <3>3, ListAccepts
  <2>9. CASE d.form = "tuple"
    <3>1. Len(v.items) = Len(d.args) => DOMAIN v.items = DOMAIN d.args
      BY ItemsAre, ConstraintIs
    <3>2. Len(v.items) = Len(d.args) =>
            \A i \in DOMAIN v.items : CUEAccepts(d.args[i], v.items[i]) <=> CUEAccepts(d.args[i], w.items[i])
      BY <1>0, <2>0, <3>1
    <3> QED
      BY <1>0, <2>9, <3>2, TupleAccepts
  <2> QED
    BY <2>0, <2>1, <2>2, <2>3, <2>4, <2>5, <2>6, <2>7, <2>8, <2>9 DEF Form
<1>2. P \in SUBSET Constraint
  OBVIOUS
<1> HIDE DEF P
<1>3. P = Constraint
  BY <1>1, <1>2, TreeInduction
<1> QED
  BY <1>3 DEF P

\* A scalar and what JSON makes of it.
LEMMA CarriedAlike ==
  ASSUME NEW x \in Value, NEW way \in {"json", "struct"},
         x.go \notin IF way = "json" THEN {"int", "uint", "float"} \cup NonFinite ELSE TextTypes \cup NonFinite,
         Carries(x), NEW y \in Value, y = Carried(way, x)
  PROVE  Alike(x, y) /\ y.n = x.n /\ Native(y) /\ y.go \notin NonFinite /\ y.go # "uint"
<1>1. Native(y) /\ y.go # "uint" /\ y.s = x.s /\ y.items = x.items
      /\ CUEKind(y) = CUEKind(x) /\ y.n = x.n /\ y.go \notin NonFinite
  BY CarriedIs
<1>2. x.go \notin NonFinite
  BY CarriesIs
<1> QED
  BY <1>1, <1>2 DEF Alike

\* A value and what the conversion makes of it, when JSON carries its numbers.
LEMMA ConvertedAlike ==
  ASSUME NEW v \in Value, NEW way \in {"json", "struct"}, Written(way, v), CarriedByJSON(v),
         NEW w \in Value, toMapAny(way, v).ok, w = toMapAny(way, v).value
  PROVE  Alike(v, w) /\ \A y \in Scalars(w) : /\ Native(y) /\ y.go \notin NonFinite /\ y.go # "uint"
                                              /\ \E x \in Scalars(v) : y.n = x.n
<1>1. ASSUME NEW x \in Scalars(v), NEW y \in Value, y = Carried(way, x)
      PROVE  Alike(x, y) /\ y.n = x.n /\ Native(y) /\ y.go \notin NonFinite /\ y.go # "uint"
  <2>1. x \in Value
    BY ScalarsAre
  <2>2. x.go \notin IF way = "json" THEN {"int", "uint", "float"} \cup NonFinite ELSE TextTypes \cup NonFinite
    BY MarshaledIs DEF Written, TextTypes
  <2>3. Carries(x)
    BY DEF CarriedByJSON, Carries
  <2> QED
    BY <1>1, <2>1, <2>2, <2>3, CarriedAlike
<1>2. CASE IsListValue(v)
  <2>1. /\ w.go = "list" /\ w.n = v.n /\ w.s = v.s
        /\ DOMAIN w.items = DOMAIN v.items /\ Len(w.items) = Len(v.items)
        /\ \A i \in DOMAIN v.items : w.items[i] = Carried(way, v.items[i])
    BY <1>2, ConversionIs
  <2>2. ASSUME NEW i \in DOMAIN v.items
        PROVE  /\ v.items[i] \in Scalars(v) /\ v.items[i] \in Value /\ w.items[i] \in Value
               /\ Alike(v.items[i], w.items[i]) /\ w.items[i].n = v.items[i].n
               /\ Native(w.items[i]) /\ w.items[i].go \notin NonFinite /\ w.items[i].go # "uint"
    <3>1. PICK x \in Value, y \in Value : x = v.items[i] /\ y = w.items[i]
      BY <2>1, ItemsAre
    <3>2. x \in Scalars(v) /\ y = Carried(way, x)
      BY <1>2, <2>1, <3>1 DEF Scalars
    <3> QED
      BY <1>1, <3>1, <3>2
  <2>3. \A d \in Constraint, i \in DOMAIN v.items : CUEAccepts(d, v.items[i]) <=> CUEAccepts(d, w.items[i])
    BY <2>2, AcceptsAlike
  <2>4. CUEKind(v) = "list" /\ CUEKind(w) = "list" /\ v.go \notin NonFinite /\ w.go \notin NonFinite
    BY <1>2, <2>1 DEF IsListValue, CUEKind, NonFinite
  <2>5. Alike(v, w)
    BY <2>1, <2>3, <2>4 DEF Alike
  <2>6. \A y \in Scalars(w) : \E i \in DOMAIN v.items : y = w.items[i]
    BY <2>1 DEF Scalars, IsListValue
  <2> QED
    BY <2>2, <2>5, <2>6
<1>3. CASE ~IsListValue(v)
  <2>1. w = Carried(way, v) /\ v \in Scalars(v)
    BY <1>3, ConversionIs DEF Scalars
  <2>2. Alike(v, w) /\ w.n = v.n /\ Native(w) /\ w.go \notin NonFinite /\ w.go # "uint"
    BY <1>1, <2>1
  <2>3. Scalars(w) = {w}
    <3>1. CUEKind(v) = CUEKind(w)
      BY <2>2 DEF Alike
    <3>2. \A x \in Value : IsListValue(x) <=> CUEKind(x) = "list"
      BY ValueAssumption DEF IsListValue, CUEKind, NonFinite, GoType
    <3>3. ~IsListValue(w)
      BY <1>3, <3>1, <3>2
    <3> QED
      BY <3>3 DEF Scalars
  <2> QED
    BY <2>1, <2>2, <2>3
<1> QED
  BY <1>2, <1>3

LEMMA ExactAlso ==
  ASSUME NEW c, NEW v, NEW w, Exact(c, v), \A y \in Scalars(w) : \E x \in Scalars(v) : y.n = x.n
  PROVE  Exact(c, w)
<1>1. (\A x \in Scalars(v) : ToFloat(x.n) = x.n) => \A y \in Scalars(w) : ToFloat(y.n) = y.n
  OBVIOUS
<1> QED
  BY <1>1 DEF Exact

LEMMA VerdictSurvives ==
  ASSUME VerdictInv
  PROVE  VerdictSurvivesConversion
<1> SUFFICES ASSUME served \in {"fast", "cue"}, scene.way \in {"json", "struct"},
                    CarriedByJSON(scene.value), Exact(scene.constraint, scene.value)
             PROVE  valid = CUEAccepts(scene.constraint, scene.value)
  BY DEF VerdictSurvivesConversion
<1>1. PICK c \in Constraint, v \in Value, way \in {"json", "struct"}, w \in Value :
        c = scene.constraint /\ v = scene.value /\ way = scene.way /\ w = data
  BY SceneAssumption DEF VerdictInv, ReportInv, Given
<1>2. Written(way, v)
  BY <1>1, SceneAssumption DEF VerdictInv, ReportInv, Given
<1>3. toMapAny(way, v).ok /\ w = toMapAny(way, v).value
  BY <1>1 DEF VerdictInv, Sourced
<1>4. CarriedByJSON(v) /\ Exact(c, v)
  BY <1>1
<1>5. /\ Alike(v, w)
      /\ \A y \in Scalars(w) : Native(y) /\ y.go \notin NonFinite /\ y.go # "uint" /\ \E x \in Scalars(v) : y.n = x.n
  BY <1>2, <1>3, <1>4, ConvertedAlike
<1>6. CUEAccepts(c, v) <=> CUEAccepts(c, w)
  BY <1>5, AcceptsAlike
<1>7. Exact(c, w) /\ ~UnsignedNumber(c, w) /\ Finite(w)
  <2>1. Exact(c, w)
    BY <1>4, <1>5, ExactAlso
  <2>2. ~UnsignedNumber(c, w)
    BY <1>5 DEF UnsignedNumber
  <2>3. Finite(w)
    BY <1>5 DEF Finite, Native
  <2> QED
    BY <2>1, <2>2, <2>3
<1>8. CUEAccepts(c, v) \in BOOLEAN /\ CUEAccepts(c, w) \in BOOLEAN
  BY AcceptsBoolean
<1>9. valid \in BOOLEAN
  BY DEF VerdictInv, ReportInv, Verdicts
<1>10. valid <=> CUEAccepts(c, w)
  <2>1. CASE served = "fast"
    BY <1>1, <1>7, <2>1, FastVerdict
  <2>2. CASE served = "cue"
    BY <1>1, <2>2, CueVerdict
  <2> QED
    BY <2>1, <2>2
<1> QED
  BY <1>1, <1>6, <1>8, <1>9, <1>10

\* A struct and a JSON text, which reach the fast path and CUE as another value
\* (toMapAny, convert.go:66), get the verdict CUE has on what they say, unless
\* a number is one that JSON, int64 or float64 cannot carry.
THEOREM ConversionKeepsVerdict == Spec => []VerdictSurvivesConversion
BY VerdictSurvives, VerdictInvariant, PTL

\* A field left to CUE is valid just when CUE accepts its value: a field, or a
\* list, that is rejected leaves an error whatever becomes of its diagnostics
\* (validateListField, collapseDisjunctionErrors), and one accepted leaves none.
THEOREM CueMeansCUE == Spec => [](served = "cue" => (valid <=> CUEAccepts(scene.constraint, data)))
<1>1. VerdictInv => (served = "cue" => (valid <=> CUEAccepts(scene.constraint, data)))
  BY CueVerdict
<1> QED
  BY <1>1, VerdictInvariant, PTL

----------------------------------------------------------------------------
(* What the diagnostics of an element look like.                           *)

\* A choice is refused with a summary and each of its branches.
ChoiceFormats(ds) ==
  /\ \A l \in DOMAIN ds : ds[l].format \in {"summary", "mismatch", "conflict"}
  /\ \E l \in DOMAIN ds : ds[l].format = "summary"
  /\ \E l \in DOMAIN ds : ds[l].format # "summary"

LEMMA BranchOfChoice ==
  ASSUME NEW d \in Constraint, d.form \in {"lit", "type"}, NEW x \in Value, ~CUEAccepts(d, x)
  PROVE  /\ Len(Diagnostics(d, x)) = 1 /\ DOMAIN Diagnostics(d, x) = 1 .. 1
         /\ Diagnostics(d, x)[1].format \in {"mismatch", "conflict"}
<1>1. PICK branches : Diagnostics(d, x) = Diagnosed(d, x, branches)
  BY DiagnosticsIs
<1>2. CASE CUEKind(x) \notin Kinds(d)
  BY <1>1, <1>2 DEF Diagnosed, Mismatch, Diagnostic
<1>3. CASE CUEKind(x) \in Kinds(d)
  <2>1. d.form = "lit"
    <3>1. SUFFICES ASSUME d.form = "type" PROVE FALSE
      OBVIOUS
    <3>2. Kinds(d) = BasicKinds(d)
      BY <3>1, LeafKinds
    <3> QED
      BY <1>3, <3>1, <3>2, TypeAccepts
  <2> QED
    BY <1>1, <1>3, <2>1 DEF Diagnosed, Diagnostic
<1> QED
  BY <1>2, <1>3

LEMMA ChoiceReported ==
  ASSUME NEW e \in Constraint, IsChoice(e), NEW x \in Value, ~CUEAccepts(e, x)
  PROVE  ChoiceFormats(Diagnostics(e, x))
<1>0. e.form = "or" /\ \A i \in DOMAIN e.args : e.args[i] \in Constraint /\ e.args[i].form \in {"lit", "type"}
  BY ConstraintIs DEF IsChoice
<1>1. PICK seqs \in Seq(Seq(DiagnosticIn)) :
        /\ DOMAIN seqs = DOMAIN e.args /\ \A i \in DOMAIN e.args : seqs[i] = Diagnostics(e.args[i], x)
        /\ Diagnostics(e, x) = Diagnosed(e, x, FlattenSeq(seqs))
  BY OfOperandsIs
<1>2. PICK branches \in Seq(DiagnosticIn) : branches = FlattenSeq(seqs)
  BY FlattenIs
<1>3. PICK summary : summary = Diagnostic("summary", << >>, << >>)
  OBVIOUS
<1>4. Diagnostics(e, x) = <<summary>> \o branches
  BY <1>0, <1>1, <1>2, <1>3 DEF Diagnosed
<1>5. ASSUME NEW i \in DOMAIN e.args
      PROVE  DOMAIN seqs[i] = 1 .. 1 /\ seqs[i][1].format \in {"mismatch", "conflict"}
  <2>1. ~CUEAccepts(e.args[i], x)
    BY <1>0, OrAccepts
  <2> QED
    BY <1>0, <1>1, <2>1, BranchOfChoice
<1>6. \A k \in DOMAIN branches : branches[k].format \in {"mismatch", "conflict"}
  <2>1. TAKE k \in DOMAIN branches
  <2>2. PICK i, j : i \in DOMAIN seqs /\ j \in DOMAIN seqs[i] /\ seqs[i][j] = branches[k]
    BY <1>1, <1>2, <2>1, FlattenElements
  <2>3. DOMAIN seqs[i] = 1 .. 1 /\ seqs[i][1].format \in {"mismatch", "conflict"}
    BY <1>1, <1>5, <2>2
  <2> QED
    BY <2>2, <2>3
<1>7. \E k \in DOMAIN branches : TRUE
  <2>1. 1 \in DOMAIN e.args
    BY <1>0, FirstArg
  <2>2. PICK i, j : i \in DOMAIN seqs /\ j \in DOMAIN seqs[i]
    BY <1>1, <1>5, <2>1
  <2>3. \E k \in DOMAIN FlattenSeq(seqs) : FlattenSeq(seqs)[k] = seqs[i][j]
    BY <2>2, FlattenHas
  <2> QED
    BY <1>2, <2>3
<1>8. summary.format = "summary" /\ summary \in DiagnosticIn
  <2>1. "summary" \in Format /\ << >> \in BoundNamed /\ << >> \in Seq(Constraint)
    BY DEF Format, BoundNamed
  <2> QED
    BY <1>3, <2>1 DEF Diagnostic, DiagnosticIn
<1>9. PICK V : V = DiagnosticIn
  OBVIOUS
<1>10. PICK n \in Nat : n = Len(branches) /\ DOMAIN branches = 1 .. n
  OBVIOUS
<1>11. PICK ds : ds = <<summary>> \o branches
  OBVIOUS
<1>12. /\ DOMAIN ds = 1 .. (n + 1) /\ ds[1] = summary
       /\ \A k \in 1 .. n : ds[k + 1] = branches[k]
       /\ \A k \in 1 .. (n + 1) : k = 1 \/ (k - 1 \in 1 .. n /\ ds[k] = branches[k - 1])
  <2>1. <<summary>> \in Seq(V) /\ branches \in Seq(V) /\ Len(<<summary>>) = 1
    BY <1>8, <1>9
  <2> QED
    BY <1>10, <1>11, <2>1
<1>13. ChoiceFormats(ds)
  <2>1. ASSUME NEW l \in DOMAIN ds
        PROVE  ds[l].format \in {"summary", "mismatch", "conflict"}
    <3>1. CASE l = 1
      BY <1>8, <1>12, <3>1
    <3>2. CASE l # 1
      <4>1. PICK k \in DOMAIN branches : ds[l] = branches[k]
        BY <1>10, <1>12, <2>1, <3>2
      <4> QED
        BY <1>6, <4>1
    <3> QED
      BY <3>1, <3>2
  <2>2. \E l \in DOMAIN ds : ds[l].format = "summary"
    <3>1. 1 \in DOMAIN ds
      BY <1>10, <1>12
    <3> QED
      BY <1>8, <1>12, <3>1
  <2>3. \E l \in DOMAIN ds : ds[l].format # "summary"
    <3>1. PICK k \in 1 .. n : branches[k].format # "summary"
      BY <1>6, <1>7, <1>10
    <3>2. k + 1 \in DOMAIN ds /\ ds[k + 1] = branches[k]
      BY <1>10, <1>12
    <3> QED
      BY <3>1, <3>2
  <2> QED
    BY <2>1, <2>2, <2>3 DEF ChoiceFormats
<1> QED
  BY <1>4, <1>11, <1>13

\* A conjunction that does not come down to one value is refused in no words of
\* a disjunction.
LEMMA ConjunctionReported ==
  ASSUME NEW e \in Constraint, e.form \notin {"or", "default"}, \A t : Conjunct(t, e) => t.form # "lit", NEW x \in Value
  PROVE  \A l \in DOMAIN Diagnostics(e, x) : Diagnostics(e, x)[l].format \notin {"summary", "conflict"}
<1> DEFINE P == {d \in Constraint : d.form \notin {"or", "default"} /\ (\A t : Conjunct(t, d) => t.form # "lit") =>
                   \A l \in DOMAIN Diagnostics(d, x) : Diagnostics(d, x)[l].format \notin {"summary", "conflict"}}
<1>1. ASSUME NEW d \in Constraint, \A i \in DOMAIN d.args : d.args[i] \in P
      PROVE  d \in P
  <2> SUFFICES ASSUME d.form \notin {"or", "default"}, \A t : Conjunct(t, d) => t.form # "lit"
               PROVE  \A l \in DOMAIN Diagnostics(d, x) : Diagnostics(d, x)[l].format \notin {"summary", "conflict"}
    OBVIOUS
  <2>1. PICK seqs \in Seq(Seq(DiagnosticIn)) :
          /\ DOMAIN seqs = DOMAIN d.args /\ \A i \in DOMAIN d.args : seqs[i] = Diagnostics(d.args[i], x)
          /\ Diagnostics(d, x) = Diagnosed(d, x, FlattenSeq(seqs))
    BY OfOperandsIs
  <2>2. PICK branches \in Seq(DiagnosticIn) : branches = FlattenSeq(seqs)
    BY FlattenIs
  <2>3. d.form # "lit"
    <3>1. d.form = "lit" => Conjunct(d, d)
      BY OnlyConjunct DEF Op
    <3> QED
      BY <3>1
  <2>4. CASE d.form = "and" /\ ~CUEAccepts(d, x) /\ CUEKind(x) \in Kinds(d)
    <3>1. Diagnostics(d, x) = branches
      BY <2>1, <2>2, <2>4 DEF Diagnosed
    <3>2. ASSUME NEW i \in DOMAIN d.args
          PROVE  \A l \in DOMAIN seqs[i] : seqs[i][l].format \notin {"summary", "conflict"}
      <4>1. d.args[i] \in P /\ d.args[i] \in Constraint
        BY <1>1
      <4>2. d.args[i].form \notin {"or", "default"}
        BY <2>4, FormAssumption
      <4>3. \A t : Conjunct(t, d.args[i]) => t.form # "lit"
        <5>1. Op(d) = "and"
          BY <2>4 DEF Op
        <5>2. \A t : Conjunct(t, d.args[i]) => Conjunct(t, d)
          BY <5>1, AndConjunct
        <5> QED
          BY <5>2
      <4> QED
        BY <2>1, <4>1, <4>2, <4>3
    <3>3. TAKE l \in DOMAIN Diagnostics(d, x)
    <3>4. PICK i, j : i \in DOMAIN seqs /\ j \in DOMAIN seqs[i] /\ seqs[i][j] = branches[l]
      BY <2>1, <2>2, <3>1, <3>3, FlattenElements
    <3> QED
      BY <2>1, <3>1, <3>2, <3>4
  <2>5. CASE CUEAccepts(d, x)
    <3>1. Diagnostics(d, x) = << >>
      BY <2>5, ReportedIs
    <3> QED
      BY <3>1
  <2>6. CASE ~CUEAccepts(d, x) /\ ~(d.form = "and" /\ CUEKind(x) \in Kinds(d))
    <3>1. \E format \in {"mismatch", "bound", "pattern", "other"} : \E bound, cand :
             Diagnostics(d, x) = <<Diagnostic(format, bound, cand)>>
      BY <2>1, <2>2, <2>3, <2>6 DEF Diagnosed, Mismatch
    <3> QED
      BY <3>1 DEF Diagnostic
  <2> QED
    BY <2>4, <2>5, <2>6
<1>2. P \in SUBSET Constraint
  OBVIOUS
<1> HIDE DEF P
<1>3. P = Constraint
  BY <1>1, <1>2, TreeInduction
<1> QED
  BY <1>3 DEF P

----------------------------------------------------------------------------
(* What is left of a list whose elements one constraint decides.           *)

FromElement(x, e, v) ==
  /\ x.index \in DOMAIN v.items
  /\ \E l \in DOMAIN Diagnostics(e, v.items[x.index]) : x.diag = Diagnostics(e, v.items[x.index])[l]

EachFound(found, ds, i) == \A l \in DOMAIN ds : \E k \in DOMAIN found : found[k].index = i /\ found[k].diag = ds[l]

UniformlyFound(found, e, v) ==
  /\ \A k \in DOMAIN found : found[k].index # 0 => FromElement(found[k], e, v)
  /\ \A i \in DOMAIN v.items : EachFound(found, Diagnostics(e, v.items[i]), i)
  /\ \A j, k \in DOMAIN found : j < k => found[k].index = 0 \/ found[j].index <= found[k].index

LEMMA UniformFound ==
  ASSUME NEW c \in Constraint, c.form \in {"list", "atLeast"}, NEW v \in Value, NEW e, e = c.args[1],
         NEW found, found = ListDiagnostics(c, v)
  PROVE  UniformlyFound(found, e, v)
<1>1. c.form \in ListForm /\ c.form # "tuple" /\ c.form # "or"
  BY DEF ListForm
<1>2. found = BranchDiagnostics(c, v)
  BY <1>1 DEF ListDiagnostics
<1>3. \A i : ElementConstraint(c, i) = e
  BY <1>1 DEF ElementConstraint
<1>4. PICK V : V = FoundIn(v)
  OBVIOUS
<1>5. PICK flat \in Seq(V) : flat = FlattenSeq(Elementwise(c, v)) /\ OnElements(flat, c, v)
  BY <1>1, <1>4, ElementwiseIs
<1>6. ASSUME NEW k \in DOMAIN flat PROVE FromElement(flat[k], e, v)
  <2>1. PICK i : i = flat[k].index
    OBVIOUS
  <2>2. PICK ds : ds = Diagnostics(ElementConstraint(c, i), v.items[i])
    OBVIOUS
  <2>3. i \in DOMAIN v.items /\ \E l \in DOMAIN ds : flat[k].diag = ds[l]
    BY <1>5, <2>1, <2>2 DEF OnElements
  <2>4. ds = Diagnostics(e, v.items[i])
    BY <1>3, <2>2
  <2> QED
    BY <2>1, <2>3, <2>4 DEF FromElement
<1>9. ASSUME NEW i \in DOMAIN v.items PROVE EachFound(flat, Diagnostics(e, v.items[i]), i)
  <2>1. PICK ds : ds = Diagnostics(ElementConstraint(c, i), v.items[i])
    OBVIOUS
  <2>2. \A l \in DOMAIN ds : \E k \in DOMAIN flat : flat[k].index = i /\ flat[k].diag = ds[l]
    BY <1>5, <2>1 DEF OnElements
  <2>3. ds = Diagnostics(e, v.items[i])
    BY <1>3, <2>1
  <2> QED
    BY <2>2, <2>3 DEF EachFound
<1>10. \A j, k \in DOMAIN flat : j < k => flat[j].index <= flat[k].index
  BY <1>5 DEF OnElements
<1>7. CASE found = flat
  BY <1>6, <1>7, <1>9, <1>10 DEF UniformlyFound
<1>8. CASE found = flat \o OfList("other")
  <2>1. PICK one \in Seq(V) : one = OfList("other")
    BY <1>4, OfListIs
  <2>2. Len(one) = 1 /\ DOMAIN one = 1 .. 1 /\ one[1].index = 0
    BY <2>1, OfListOne
  <2>3. PICK n \in Nat : n = Len(flat) /\ DOMAIN flat = 1 .. n
    OBVIOUS
  <2>4. /\ DOMAIN found = 1 .. (n + 1) /\ \A k \in 1 .. n : found[k] = flat[k]
        /\ found[n + 1] = one[1]
    BY <1>8, <2>1, <2>2, <2>3
  <2>5. \A k \in 1 .. (n + 1) : found[k].index # 0 => k \in 1 .. n /\ found[k] = flat[k]
    <3>1. \A k \in 1 .. (n + 1) : k = n + 1 \/ k \in 1 .. n
      OBVIOUS
    <3> QED
      BY <2>2, <2>4, <3>1
  <2>6. ASSUME NEW k \in DOMAIN found, found[k].index # 0
        PROVE  FromElement(found[k], e, v)
    <3>1. k \in DOMAIN flat /\ found[k] = flat[k]
      BY <2>3, <2>4, <2>5, <2>6
    <3> QED
      BY <1>6, <3>1
  <2>7. ASSUME NEW i \in DOMAIN v.items
        PROVE  EachFound(found, Diagnostics(e, v.items[i]), i)
    <3>1. PICK ds : ds = Diagnostics(e, v.items[i])
      OBVIOUS
    <3>2. EachFound(flat, ds, i)
      BY <1>9, <3>1
    <3>3. ASSUME NEW l \in DOMAIN ds
          PROVE  \E k \in DOMAIN found : found[k].index = i /\ found[k].diag = ds[l]
      <4>1. PICK k \in DOMAIN flat : flat[k].index = i /\ flat[k].diag = ds[l]
        BY <3>2 DEF EachFound
      <4>2. k \in DOMAIN found /\ found[k] = flat[k]
        BY <2>3, <2>4
      <4> QED
        BY <4>1, <4>2
    <3> QED
      BY <3>1, <3>3 DEF EachFound
  <2>8. ASSUME NEW j \in DOMAIN found, NEW k \in DOMAIN found, j < k, found[k].index # 0
        PROVE  found[j].index <= found[k].index
    <3>1. k \in 1 .. n /\ found[k] = flat[k]
      BY <2>4, <2>5, <2>8
    <3>2. j \in 1 .. n /\ found[j] = flat[j]
      BY <2>4, <2>8, <3>1
    <3> QED
      BY <1>10, <2>3, <2>8, <3>1, <3>2
  <2> QED
    BY <2>6, <2>7, <2>8 DEF UniformlyFound
<1> QED
  BY <1>1, <1>2, <1>5, <1>7, <1>8, BranchIs

\* The errors of the elements, told by their element constraint: one at least
\* for each that is rejected, in order, exactly one if it is a choice, and no
\* enum's if it is no disjunction.
OnePerElement(errs, on) == \A j, k \in on : j < k => errs[j].path.index # errs[k].path.index

ElementErrors(errs, e, v) ==
  LET rejected == {i \in DOMAIN v.items : ~CUEAccepts(e, v.items[i])}
      on == {k \in DOMAIN errs : errs[k].path.index > 0}
  IN  /\ {errs[k].path.index : k \in on} = rejected
      /\ \A j, k \in on : j < k => errs[j].path.index <= errs[k].path.index
      /\ IsChoice(e) => OnePerElement(errs, on)
      /\ IsOpenConjunction(e) => \A k \in on : errs[k].code # "E1E01"

LEMMA OpenConjuncts ==
  ASSUME NEW e \in Constraint, IsOpenConjunction(e)
  PROVE  e.form = "and" /\ \A t : Conjunct(t, e) => t.form # "lit"
BY DEF IsOpenConjunction, Conjunct, IsConcrete

\* The group has the diagnostics ds and no others.
Reported(group, ds) ==
  /\ \A k \in DOMAIN group : \E l \in DOMAIN ds : group[k].diag = ds[l]
  /\ \A l \in DOMAIN ds : \E k \in DOMAIN group : group[k].diag = ds[l]
  /\ (\E k, l \in DOMAIN ds : ds[k] # ds[l]) => Len(group) >= 2

\* The diagnostics of an element's path are those of the element.
LEMMA GroupFormats ==
  ASSUME NEW v \in Value, NEW e, NEW found, UniformlyFound(found, e, v), NEW n \in Nat, DOMAIN found = 1 .. n,
         NEW collected, DOMAIN collected = 1 .. n, \A i \in 1 .. n : collected[i] = Collected(found[i]),
         NEW i, i \in DOMAIN v.items, NEW path, path = indexedPath(FieldPath, i), NEW ds, ds = Diagnostics(e, v.items[i])
  PROVE  /\ \A j \in 1 .. n : collected[j].error.path = path => found[j].index = i /\ \E l \in DOMAIN ds : found[j].diag = ds[l]
         /\ Reported(GroupOf(collected, path), ds)
<1>1. PICK K : K = Companions(collected, path)
  OBVIOUS
<1>2. K \subseteq 1 .. n /\ \A j \in 1 .. n : j \in K <=> collected[j].error.path = path
  BY <1>1 DEF Companions
<1>3. PICK group : group = GroupOf(collected, path) /\ group = Selection(collected, K)
  BY <1>1 DEF GroupOf
<1>4. PICK m \in Nat : Gathers(group, collected, K, m)
  BY <1>2, <1>3, SelectionIs
<1>5. \A j \in 1 .. n : collected[j].diag = found[j].diag /\ collected[j].error.path = indexedPath(FieldPath, found[j].index)
  BY CollectedKeeps
<1>6. i # 0
  BY ItemsAre
<1>7. ASSUME NEW j \in 1 .. n, collected[j].error.path = path
      PROVE  found[j].index = i /\ \E l \in DOMAIN ds : found[j].diag = ds[l]
  <2>1. found[j].index = i
    <3>1. indexedPath(FieldPath, found[j].index).index = found[j].index /\ path.index = i
      BY PathIs
    <3> QED
      BY <1>5, <1>7, <3>1
  <2>2. FromElement(found[j], e, v)
    BY <1>6, <2>1 DEF UniformlyFound
  <2> QED
    BY <2>1, <2>2 DEF FromElement
<1>8. ASSUME NEW l \in DOMAIN ds PROVE \E j \in K : collected[j].diag = ds[l]
  <2>3. EachFound(found, ds, i)
    BY DEF UniformlyFound
  <2>1. PICK j \in DOMAIN found : found[j].index = i /\ found[j].diag = ds[l]
    BY <2>3 DEF EachFound
  <2> QED
    BY <1>2, <1>5, <2>1
<1>9. \A k \in DOMAIN group : \E l \in DOMAIN ds : group[k].diag = ds[l]
  <2>1. TAKE k \in DOMAIN group
  <2>2. PICK j \in K : group[k] = collected[j]
    BY <1>4, <2>1 DEF Gathers
  <2> QED
    BY <1>2, <1>5, <1>7, <2>2
<1>10. \A l \in DOMAIN ds : \E k \in DOMAIN group : group[k].diag = ds[l]
  <2>1. TAKE l \in DOMAIN ds
  <2>2. PICK j \in K : collected[j].diag = ds[l]
    BY <1>8
  <2>3. PICK k \in DOMAIN group : group[k] = collected[j]
    BY <1>4, <2>2 DEF Gathers
  <2> QED
    BY <2>2, <2>3
<1>11. ASSUME NEW k \in DOMAIN ds, NEW l \in DOMAIN ds, ds[k] # ds[l] PROVE Len(group) >= 2
  <2>1. PICK a \in K, b \in K : collected[a].diag = ds[k] /\ collected[b].diag = ds[l]
    BY <1>8
  <2>2. a # b
    BY <1>11, <2>1
  <2> QED
    BY <1>4, <2>2 DEF Gathers
<1> QED
  BY <1>3, <1>7, <1>9, <1>10, <1>11 DEF Reported

\* Several diagnostics of a rejected choice are one mistake.
LEMMA ChoiceMerges ==
  ASSUME NEW e \in Constraint, IsChoice(e), NEW x \in Value, ~CUEAccepts(e, x), NEW ds, ds = Diagnostics(e, x),
         NEW group, Reported(group, ds)
  PROVE  Mergeable(group)
<1>1. /\ \A l \in DOMAIN ds : ds[l].format \in {"summary", "mismatch", "conflict"}
      /\ \E l \in DOMAIN ds : ds[l].format = "summary"
      /\ \E l \in DOMAIN ds : ds[l].format # "summary"
  BY ChoiceReported DEF ChoiceFormats
<1>2. PICK a \in DOMAIN ds, b \in DOMAIN ds : ds[a].format = "summary" /\ ds[b].format # "summary"
  BY <1>1
<1>3. Len(group) >= 2
  <2>1. ds[a] # ds[b]
    BY <1>2
  <2> QED
    BY <2>1 DEF Reported
<1>4. PICK formats : formats = {group[i].diag.format : i \in DOMAIN group}
  OBVIOUS
<1>5. formats \subseteq {"summary", "mismatch", "conflict"}
  <2>1. SUFFICES ASSUME NEW k \in DOMAIN group PROVE group[k].diag.format \in {"summary", "mismatch", "conflict"}
    BY <1>4
  <2>2. PICK l \in DOMAIN ds : group[k].diag = ds[l]
    BY DEF Reported
  <2> QED
    BY <1>1, <2>2
<1>6. "summary" \in formats /\ formats # {"summary"}
  <2>1. PICK k \in DOMAIN group, l \in DOMAIN group : group[k].diag = ds[a] /\ group[l].diag = ds[b]
    BY DEF Reported
  <2> QED
    BY <1>2, <1>4, <2>1
<1> QED
  BY <1>3, <1>4, <1>5, <1>6 DEF Mergeable

\* Those of a conjunction are no disjunction's.
LEMMA ConjunctionStays ==
  ASSUME NEW e \in Constraint, IsOpenConjunction(e), NEW x \in Value, NEW ds, ds = Diagnostics(e, x),
         NEW group, Reported(group, ds)
  PROVE  /\ ~Mergeable(group)
         /\ \A l \in DOMAIN ds : classifyByFormat(ds[l]) # "E1E01"
<1>1. \A l \in DOMAIN ds : ds[l].format \notin {"summary", "conflict"}
  BY OpenConjuncts, ConjunctionReported
<1>2. ~Mergeable(group)
  <2>1. PICK formats : formats = {group[i].diag.format : i \in DOMAIN group}
    OBVIOUS
  <2>2. "summary" \notin formats
    <3>1. SUFFICES ASSUME NEW k \in DOMAIN group PROVE group[k].diag.format # "summary"
      BY <2>1
    <3>2. PICK l \in DOMAIN ds : group[k].diag = ds[l]
      BY DEF Reported
    <3> QED
      BY <1>1, <3>2
  <2> QED
    BY <2>1, <2>2 DEF Mergeable
<1> QED
  BY <1>1, <1>2 DEF classifyByFormat

\* A list CUE rejects, told by its elements.
LEMMA UniformErrors ==
  ASSUME NEW c \in Constraint, c.form \in {"list", "atLeast"}, NEW v \in Value, NEW e \in Constraint, e = c.args[1],
         NEW errs, errs = listErrors(c, v)
  PROVE  ElementErrors(errs, e, v)
<1>1. Kinds(c) \subseteq {"list"}
  BY LeafKinds
<1>2. PICK found : found = ListDiagnostics(c, v)
  OBVIOUS
<1>3. PICK n, collected, first :
        /\ n \in Nat /\ found \in Seq(FoundIn(v)) /\ DOMAIN found = 1 .. n
        /\ DOMAIN collected = 1 .. n /\ \A i \in 1 .. n : collected[i] = Collected(found[i])
        /\ Grouped(first, errs, collected, n)
  BY <1>1, <1>2, ListErrorsIs
<1>4. UniformlyFound(found, e, v)
  BY <1>2, UniformFound
<1> DEFINE path(i) == indexedPath(FieldPath, i)
           ds(i) == Diagnostics(e, v.items[i])
           on == {k \in DOMAIN errs : errs[k].path.index > 0}
           rejected == {i \in DOMAIN v.items : ~CUEAccepts(e, v.items[i])}
<1>5. ASSUME NEW j \in 1 .. n
      PROVE  /\ collected[j].diag = found[j].diag /\ collected[j].error.path = path(found[j].index)
             /\ path(found[j].index).index = found[j].index /\ found[j].index \in Nat
  <2>1. PICK x \in FoundIn(v) : x = found[j] /\ collected[j] = Collected(x)
    BY <1>3
  <2>2. x.index \in 0 .. Len(v.items) /\ Len(v.items) \in Nat
    BY ItemsAre DEF FoundIn
  <2>3. Collected(x).diag = x.diag /\ Collected(x).error.path = path(x.index) /\ path(x.index).index = x.index
    BY CollectedKeeps
  <2> QED
    BY <2>1, <2>2, <2>3
<1>6. ASSUME NEW k \in on
      PROVE  /\ k \in DOMAIN errs /\ first[k] \in 1 .. n /\ errs[k].path = path(found[first[k]].index)
             /\ errs[k].path.index = found[first[k]].index /\ FromElement(found[first[k]], e, v)
  <2>1. k \in DOMAIN errs /\ first[k] \in 1 .. n /\ errs[k].path = collected[first[k]].error.path
    BY <1>3 DEF Grouped
  <2>2. PICK j \in 1 .. n : j = first[k]
    BY <2>1
  <2>3. errs[k].path = path(found[j].index) /\ errs[k].path.index = found[j].index /\ found[j].index # 0
    BY <1>5, <2>1, <2>2
  <2> QED
    BY <1>3, <1>4, <2>1, <2>2, <2>3 DEF UniformlyFound
<1>7. ASSUME NEW k \in on, NEW i, i = errs[k].path.index
      PROVE  i \in rejected /\ errs[k].path = path(i)
  <2>1. PICK x : x = found[first[k]] /\ x.index = i /\ FromElement(x, e, v)
    BY <1>6, <1>7
  <2>2. i \in DOMAIN v.items /\ \E l \in DOMAIN ds(i) : TRUE
    BY <2>1 DEF FromElement
  <2>3. v.items[i] \in Value
    BY <2>2, ItemsAre
  <2>4. ~CUEAccepts(e, v.items[i])
    BY <2>2, <2>3, ReportedIs
  <2> QED
    BY <1>6, <1>7, <2>1, <2>2, <2>4
<1>8. ASSUME NEW i \in rejected PROVE \E k \in on : errs[k].path.index = i
  <2>1. i \in DOMAIN v.items /\ v.items[i] \in Value /\ ~CUEAccepts(e, v.items[i]) /\ i > 0
    BY ItemsAre
  <2>2. PICK l \in DOMAIN ds(i) : TRUE
    <3>1. PICK D \in Seq(DiagnosticIn) : D = ds(i)
      BY <2>1, DiagnosticsIs
    <3>2. D # << >>
      BY <2>1, <3>1, ReportedIs
    <3> QED
      BY <3>1, <3>2, NoneOrSome
  <2>3. EachFound(found, ds(i), i)
    BY <1>4, <2>1 DEF UniformlyFound
  <2>4. PICK j \in 1 .. n : found[j].index = i
    BY <1>3, <2>2, <2>3 DEF EachFound
  <2>5. PICK k \in DOMAIN errs : errs[k].path = collected[j].error.path
    BY <1>3 DEF Grouped
  <2>6. errs[k].path.index = i
    BY <1>5, <2>4, <2>5
  <2> QED
    BY <2>1, <2>5, <2>6
<1>9. {errs[k].path.index : k \in on} = rejected
  BY <1>7, <1>8
<1>10. ASSUME NEW j \in on, NEW k \in on, j < k PROVE errs[j].path.index <= errs[k].path.index
  <2>1. first[j] <= first[k]
    BY <1>3, <1>10 DEF Grouped
  <2>2. PICK a \in 1 .. n, b \in 1 .. n : a = first[j] /\ b = first[k]
    BY <1>6
  <2>3. errs[j].path.index = found[a].index /\ errs[k].path.index = found[b].index /\ found[b].index # 0
    BY <1>6, <2>2
  <2>4. CASE a = b
    BY <1>5, <2>3, <2>4
  <2>5. CASE a # b
    <3>1. a < b
      BY <2>1, <2>2, <2>5
    <3> QED
      BY <1>3, <1>4, <2>3, <3>1 DEF UniformlyFound
  <2> QED
    BY <2>4, <2>5
<1>11. ASSUME NEW k \in on, NEW i, i = errs[k].path.index
       PROVE  /\ \A j \in 1 .. n : collected[j].error.path = path(i) =>
                    found[j].index = i /\ \E l \in DOMAIN ds(i) : found[j].diag = ds(i)[l]
              /\ Reported(GroupOf(collected, path(i)), ds(i))
  <2>1. i \in DOMAIN v.items
    BY <1>7, <1>11
  <2>2. PICK p, D : p = path(i) /\ D = ds(i)
    OBVIOUS
  <2>3. /\ \A j \in 1 .. n : collected[j].error.path = p => found[j].index = i /\ \E l \in DOMAIN D : found[j].diag = D[l]
        /\ Reported(GroupOf(collected, p), D)
    BY <1>3, <1>4, <2>1, <2>2, GroupFormats
  <2> QED
    BY <2>2, <2>3
<1>12. ASSUME IsChoice(e), NEW j \in on, NEW k \in on, errs[j].path.index = errs[k].path.index, j < k
       PROVE  FALSE
  <2>1. PICK i : i = errs[k].path.index
    OBVIOUS
  <2>2. i \in rejected /\ errs[j].path = path(i) /\ errs[k].path = path(i)
    BY <1>7, <1>12, <2>1
  <2>3. PICK group : group = GroupOf(collected, path(i))
    OBVIOUS
  <2>4. PICK x, D : x \in Value /\ D = Diagnostics(e, x) /\ x = v.items[i] /\ ~CUEAccepts(e, x) /\ D = ds(i)
    BY <2>2, ItemsAre
  <2>5. Reported(group, D)
    BY <1>11, <2>1, <2>3, <2>4
  <2>6. Mergeable(group)
    BY <1>12, <2>4, <2>5, ChoiceMerges
  <2>7. first[j] \in 1 .. n /\ first[k] \in 1 .. n /\ j \in DOMAIN errs /\ k \in DOMAIN errs
    BY <1>6
  <2>8. first[j] <= first[k] /\ first[k] <= first[j]
    BY <1>3, <1>12, <2>2, <2>7 DEF Grouped
  <2>9. first[j] = first[k]
    BY <2>7, <2>8
  <2> QED
    BY <1>3, <1>12, <2>2, <2>3, <2>6, <2>7, <2>9 DEF Grouped
<1>13. ASSUME IsOpenConjunction(e), NEW k \in on
       PROVE  errs[k].code # "E1E01"
  <2>1. PICK i : i = errs[k].path.index
    OBVIOUS
  <2>2. i \in rejected /\ errs[k].path = path(i) /\ k \in DOMAIN errs
    BY <1>7, <2>1
  <2>3. PICK group : group = GroupOf(collected, path(i))
    OBVIOUS
  <2>4. PICK x, D : x \in Value /\ D = Diagnostics(e, x) /\ x = v.items[i] /\ D = ds(i)
    BY <2>2, ItemsAre
  <2>5. Reported(group, D)
    BY <1>11, <2>1, <2>3, <2>4
  <2>6. ~Mergeable(group) /\ \A l \in DOMAIN D : classifyByFormat(D[l]) # "E1E01"
    BY <1>13, <2>4, <2>5, ConjunctionStays
  <2>7. PICK j \in 1 .. n : collected[j].error.path = path(i) /\ errs[k] = Finish(collected[j])
    <3>1. PICK p : p = errs[k].path /\ p = path(i)
      BY <2>2
    <3>2. ~Mergeable(GroupOf(collected, p))
      BY <2>3, <2>6, <3>1
    <3>3. \/ Mergeable(GroupOf(collected, errs[k].path))
          \/ \E j \in 1 .. n : collected[j].error.path = errs[k].path /\ errs[k] = Finish(collected[j])
      BY <1>3, <2>2 DEF Grouped
    <3> HIDE DEF path
    <3> QED
      BY <3>1, <3>2, <3>3
  <2>8. PICK l \in DOMAIN D : found[j].diag = D[l]
    <3>1. collected[j].error.path = path(i) => \E l \in DOMAIN ds(i) : found[j].diag = ds(i)[l]
      BY <1>11, <2>1
    <3>2. \E l \in DOMAIN ds(i) : found[j].diag = ds(i)[l]
      BY <2>7, <3>1
    <3> HIDE DEF ds
    <3> QED
      BY <2>4, <3>2
  <2>9. PICK z, y : z \in FoundIn(v) /\ y = collected[j] /\ z = found[j] /\ y = Collected(z)
    BY <1>3
  <2>10. y.error.code # "E1E01"
    BY <2>6, <2>8, <2>9, CollectedKeeps
  <2>11. CollectedOK(y, v)
    BY <2>9, CollectedIs
  <2>12. Finish(y).code = y.error.code
    BY <2>11, FinishKeeps
  <2> QED
    BY <2>7, <2>9, <2>10, <2>12
<1> QED
  BY <1>9, <1>10, <1>12, <1>13 DEF ElementErrors, OnePerElement

----------------------------------------------------------------------------
(* What the fast path leaves of a list.                                    *)

\* A conjunction has no enum's descriptor.
LEMMA ConjunctionFast ==
  ASSUME NEW e \in Constraint, e.form = "and"
  PROVE  extractScalarConstraint(e).kind # "enum"
<1>1. Eval(e) = e /\ Op(e) = "and"
  BY DEF Eval, Op
<1>2. \A kinds : extractEnums(e, kinds) = << >>
  BY <1>1 DEF extractEnums
<1>3. \A t : TypeOnly(t).kind = "type"
  BY DEF TypeOnly, NoDescriptor
<1>4. \A r : RegexOnly(r).kind = "regex"
  BY Zenon DEF RegexOnly, NoDescriptor
<1>5. \A expect : RangeOrType(e, expect).kind # "enum"
  <2>1. TAKE expect
  <2>2. CASE extractNumericRange(e, expect) # NoDescriptor
    <3>1. extractNumericRange(e, expect).kind = "range"
      BY <2>2, RangeParts
    <3> QED
      BY <2>2, <3>1 DEF RangeOrType
  <2>3. CASE extractNumericRange(e, expect) = NoDescriptor
    BY <1>3, <2>3, NoDescriptorIs DEF RangeOrType
  <2> QED
    BY <2>2, <2>3
<1>6. extractStringConstraint(e).kind # "enum"
  BY <1>2, <1>3, <1>4, NoDescriptorIs DEF extractStringConstraint, RegexOnly
<1>7. /\ extractIntConstraint(e).kind # "enum" /\ extractFloatConstraint(e).kind # "enum"
      /\ extractNumberConstraint(e).kind # "enum"
  BY <1>2, <1>5 DEF extractIntConstraint, extractFloatConstraint, extractNumberConstraint
<1> QED
  BY <1>1, <1>3, <1>6, <1>7, NoDescriptorIs DEF extractScalarConstraint

LEMMA FastErrorKeeps ==
  ASSUME NEW w, NEW path, NEW d
  PROVE  FastError(w, path, d).path = path /\ FastError(w, path, d).code = w.code
<1>1. PICK plain : plain = Structured(w.code, path, FieldType, << >>, << >>, w.suggestion)
  OBVIOUS
<1>2. FastError(w, path, d) = attachStructuredFields(plain, d, w.bound)
  BY <1>1, ErrorAtIs DEF FastError
<1>3. FastError(w, path, d) = Structured(w.code, path, FieldType, IF w.code = "E1R01" THEN w.bound ELSE << >>,
                                         IF w.code = "E1E01" THEN d.enums ELSE << >>, w.suggestion)
  BY <1>1, <1>2, AttachedIs
<1> QED
  BY <1>3, StructuredIs

\* One error for each index of K, in order.
Counted(errs, K, on) ==
  /\ on = DOMAIN errs /\ {errs[k].path.index : k \in on} = K
  /\ \A j, k \in on : j < k => errs[j].path.index <= errs[k].path.index /\ errs[j].path.index # errs[k].path.index

LEMMA AscendingErrors ==
  ASSUME NEW n \in Nat, NEW K, K \subseteq 1 .. n, NEW failures, failures = Ascending(K),
         NEW errs, DOMAIN errs = DOMAIN failures, \A k \in DOMAIN failures : errs[k].path.index = failures[k],
         NEW on, on = {k \in DOMAIN errs : errs[k].path.index > 0}
  PROVE  Counted(errs, K, on)
<1>1. K \in SUBSET Int /\ IsFiniteSet(K)
  BY PositionsAre
<1>2. PICK m \in Nat : m = Cardinality(K)
  BY <1>1, AscendingOrder
<1>3. /\ DOMAIN failures = 1 .. m /\ \A k \in 1 .. m : failures[k] \in K
      /\ \A x \in K : \E k \in 1 .. m : failures[k] = x
      /\ \A k, l \in 1 .. m : k < l => failures[k] < failures[l]
  BY <1>1, <1>2, AscendingOrder
<1>4. PICK index : index = [k \in 1 .. m |-> errs[k].path.index]
  OBVIOUS
<1>5. \A k \in 1 .. m : index[k] = failures[k] /\ failures[k] \in 1 .. n /\ errs[k].path.index = index[k]
  BY <1>3, <1>4
<1>6. on = 1 .. m
  <2>1. \A k \in 1 .. m : errs[k].path.index > 0
    BY <1>5
  <2> QED
    BY <1>3, <2>1
<1>7. {errs[k].path.index : k \in on} = K
  <2>1. ASSUME NEW k \in on PROVE errs[k].path.index \in K
    BY <1>3, <1>5, <1>6, <2>1
  <2>2. ASSUME NEW x \in K PROVE \E k \in on : errs[k].path.index = x
    <3>1. PICK k \in 1 .. m : failures[k] = x
      BY <1>3
    <3> QED
      BY <1>5, <1>6, <3>1
  <2> QED
    BY <2>1, <2>2
<1>8. ASSUME NEW j \in on, NEW k \in on, j < k
      PROVE  errs[j].path.index <= errs[k].path.index /\ errs[j].path.index # errs[k].path.index
  <2>1. failures[j] < failures[k]
    BY <1>3, <1>6, <1>8
  <2> QED
    BY <1>5, <1>6, <2>1
<1> QED
  BY <1>3, <1>6, <1>7, <1>8 DEF Counted

LEMMA FastElementErrors ==
  ASSUME VerdictInv, served = "fast", ByFastList, NEW c, c = scene.constraint, NEW e, e = c.args[1],
         Finite(data), Exact(c, data), ~UnsignedNumber(c, data)
  PROVE  ElementErrors(errors, e, data)
<1>1. c \in Constraint
  BY SceneAssumption DEF VerdictInv, ReportInv, Given
<1>2. PICK v \in Value : v = data
  BY DEF VerdictInv, ReportInv, Given
<1>3. fast = extractFastConstraint(c) /\ v = toMapAny(scene.way, scene.value).value /\ toMapAny(scene.way, scene.value).ok
  <2>1. stage # "start"
    BY DEF VerdictInv, ReportInv, Judgement, Unjudged
  <2> QED
    BY <1>2, <2>1 DEF VerdictInv, Sourced
<1>4. \A x \in Scalars(v) : Native(x)
  <2>1. scene.value \in Value /\ Written(scene.way, scene.value)
    BY SceneAssumption DEF VerdictInv, ReportInv, Given
  <2> QED
    BY <1>3, <2>1, JudgedNative
<1>5. fast.kind = "list" /\ ElementsHandled(fast, v)
  BY <1>2 DEF ByFastList
<1>6. PICK d : d = fast.elem[1]
  OBVIOUS
<1>7. e \in Constraint /\ c.form = "list" /\ DOMAIN c.args = {1} /\ d = extractScalarConstraint(e) /\ d.kind # "none"
  BY <1>1, <1>3, <1>5, <1>6, DescriptorIs, ScalarConstraintIs DEF ScalarFast
<1>8. PICK n \in Nat : n = Len(v.items) /\ DOMAIN v.items = 1 .. n
  BY ItemsAre
<1>9. v.go = "list" /\ \A i \in 1 .. n : validateFast(d, v.items[i]).handled
  BY <1>5, <1>6, <1>8 DEF ElementsHandled
<1>10. ASSUME NEW i \in 1 .. n
       PROVE  validateFast(d, v.items[i]).valid <=> CUEAccepts(e, v.items[i])
  <2>1. PICK x \in Value : x = v.items[i]
    BY <1>8, ItemsAre
  <2>2. x \in Scalars(v)
    BY <1>8, <1>9, <2>1 DEF Scalars, IsListValue
  <2>3. x.go \notin NonFinite
    BY <1>2, <2>2 DEF Finite
  <2> QED
    BY <1>1, <1>2, <1>4, <1>7, <1>9, <2>1, <2>2, <2>3, ElementAgrees
<1>11. PICK K : K = {i \in 1 .. n : ~CUEAccepts(e, v.items[i])}
  OBVIOUS
<1>12. K = {i \in 1 .. n : ~validateFast(d, v.items[i]).valid}
  BY <1>10, <1>11
<1>13. PICK failures : failures = RejectedElements(fast, v) /\ failures = Ascending(K)
  <2>1. PICK R : R = {i \in 1 .. n : ~validateFast(fast.elem[1], v.items[i]).valid}
    OBVIOUS
  <2>2. RejectedElements(fast, v) = Ascending(R)
    BY <1>8, <2>1, RejectedIs
  <2>3. R = K
    BY <1>6, <1>12, <2>1
  <2> QED
    BY <2>2, <2>3
<1> DEFINE failure(i) == FastError(validateFast(fast.elem[1], data.items[i]), indexedPath(FieldPath, i), fast.elem[1])
<1>14. errors = [k \in DOMAIN failures |-> failure(failures[k])]
  BY <1>2, <1>13 DEF ByFastList
<1>15. ASSUME NEW k \in DOMAIN failures
       PROVE  errors[k].path.index = failures[k] /\ errors[k].code = validateFast(d, v.items[failures[k]]).code
  <2>1. PICK i : i = failures[k]
    OBVIOUS
  <2>2. PICK w, path : w = validateFast(d, v.items[i]) /\ path = indexedPath(FieldPath, i)
    OBVIOUS
  <2>3. errors[k] = FastError(w, path, d)
    BY <1>2, <1>6, <1>14, <2>1, <2>2
  <2> QED
    BY <2>1, <2>2, <2>3, FastErrorKeeps, PathIs
<1>16. ASSUME IsOpenConjunction(e), NEW k \in DOMAIN failures
       PROVE  errors[k].code # "E1E01"
  <2>1. d.kind # "enum" /\ ScalarFast(d)
    BY <1>7, <1>16, ConjunctionFast, ScalarConstraintIs DEF IsOpenConjunction
  <2>2. PICK i \in K : i = failures[k]
    <3>1. K \in SUBSET Int /\ IsFiniteSet(K)
      BY <1>8, <1>11, PositionsAre
    <3>2. failures \in Seq(K)
      BY <1>13, <3>1, AscendingOrder
    <3> QED
      BY <3>2
  <2>3. PICK w : w = validateFast(d, v.items[i]) /\ w.handled /\ ~w.valid
    BY <1>9, <1>12, <2>2
  <2>4. Condemns(w, d, v.items[i])
    BY <1>7, <2>1, <2>3, VerdictIs
  <2> QED
    BY <1>15, <2>1, <2>2, <2>3, <2>4 DEF Condemns
<1>17. DOMAIN errors = DOMAIN failures
  BY <1>14
<1> QED
  <2>1. PICK on, errs : on = {k \in DOMAIN errs : errs[k].path.index > 0} /\ errs = errors
    OBVIOUS
  <2>2. Counted(errs, K, on)
    BY <1>8, <1>11, <1>13, <1>15, <1>17, <2>1, AscendingErrors
  <2>3. K = {i \in DOMAIN v.items : ~CUEAccepts(e, v.items[i])}
    BY <1>8, <1>11
  <2>4. IsOpenConjunction(e) => \A k \in on : errs[k].code # "E1E01"
    BY <1>16, <1>17, <2>1
  <2>5. ElementErrors(errs, e, v)
    BY <2>1, <2>2, <2>3, <2>4 DEF ElementErrors, Counted, OnePerElement
  <2> QED
    BY <1>2, <2>1, <2>5

\* As many errors as elements rejected, when no two are about the same.
LEMMA CountedOnce ==
  ASSUME NEW errs, NEW n \in Nat, DOMAIN errs = 1 .. n, NEW on, on \subseteq 1 .. n, OnePerElement(errs, on),
         NEW K, K = {errs[k].path.index : k \in on}
  PROVE  Cardinality(on) = Cardinality(K)
<1>0. on \subseteq Int
  <2>1. 1 .. n \subseteq Int
    OBVIOUS
  <2> QED
    BY <2>1
<1>1. IsFiniteSet(on)
  BY PositionsAre
<1>2. PICK f : f = [k \in on |-> errs[k].path.index]
  OBVIOUS
<1>3. f \in [on -> K] /\ \A x \in K : \E k \in on : f[k] = x
  BY <1>2
<1>4. ASSUME NEW j \in on, NEW k \in on, f[j] = f[k] PROVE j = k
  <2>1. ~(j < k) /\ ~(k < j)
    BY <1>2, <1>4 DEF OnePerElement
  <2>2. j \in Int /\ k \in Int
    BY <1>0
  <2> QED
    BY <2>1, <2>2
<1>5. f \in Bijection(on, K)
  BY <1>3, <1>4 DEF Bijection, Injection, IsInjective, Surjection
<1>6. ExistsBijection(on, K)
  BY <1>5 DEF ExistsBijection
<1> QED
  BY <1>1, <1>6, FS_Bijection

\* The errors of an accepted list.
LEMMA NoElementErrors ==
  ASSUME NEW e, NEW v, \A i \in DOMAIN v.items : CUEAccepts(e, v.items[i])
  PROVE  ElementErrors(<< >>, e, v)
<1>1. PICK none : none = << >> /\ DOMAIN none = {}
  OBVIOUS
<1>2. ElementErrors(none, e, v)
  BY <1>1 DEF ElementErrors, OnePerElement
<1> QED
  BY <1>1, <1>2

LEMMA ElementsJudged ==
  ASSUME VerdictInv
  PROVE  EveryElementJudged
<1>1. SUFFICES ASSUME served \in {"fast", "cue"}, IsListValue(data), IsUniformList(scene.constraint),
                      Finite(data), Exact(scene.constraint, data), ~UnsignedNumber(scene.constraint, data),
                      NEW e, e = scene.constraint.args[1]
               PROVE  LET rejected == {i \in DOMAIN data.items : ~CUEAccepts(e, data.items[i])}
                          onElements == {k \in DOMAIN errors : errors[k].path.index > 0}
                      IN  /\ {errors[k].path.index : k \in onElements} = rejected
                          /\ \A j, k \in onElements : j < k => errors[j].path.index <= errors[k].path.index
                          /\ IsChoice(e) => Cardinality(onElements) = Cardinality(rejected)
                          /\ IsOpenConjunction(e) => \A k \in onElements : errors[k].code # "E1E01"
  BY DEF EveryElementJudged
<1>2. PICK c \in Constraint : c = scene.constraint
  BY SceneAssumption DEF VerdictInv, ReportInv, Given
<1>3. PICK v \in Value : v = data
  BY DEF VerdictInv, ReportInv, Given
<1>4. c.form \in {"list", "atLeast"} /\ e = c.args[1] /\ e \in Constraint
  <2>1. c.form \in {"list", "atLeast"}
    BY <1>1, <1>2 DEF IsUniformList
  <2> QED
    BY <1>1, <1>2, <2>1, FirstArg
<1>5. Kinds(c) = {"list"} /\ CUEKind(v) = "list"
  <2>1. CUEKind(v) = "list"
    BY <1>1, <1>3 DEF IsListValue, CUEKind, NonFinite
  <2> QED
    BY <1>4, <2>1, LeafKinds
<1>6. ElementErrors(errors, e, v)
  <2>1. CASE served = "fast"
    <3>1. ~ByFast
      <4>1. SUFFICES ASSUME ByFast PROVE FALSE
        OBVIOUS
      <4>2. stage # "start"
        BY <1>1 DEF VerdictInv, ReportInv, Judgement, Unjudged
      <4>3. fast = extractFastConstraint(c) /\ fast.kind \notin {"none", "list"}
        BY <1>2, <4>1, <4>2 DEF VerdictInv, Sourced, ByFast
      <4>4. fast = extractScalarConstraint(c)
        BY <4>3, DescriptorIs
      <4> QED
        BY <1>5, <4>3, <4>4, ScalarFieldIs
    <3>2. ByFastList
      BY <2>1, <3>1 DEF VerdictInv, Decided
    <3> QED
      BY <1>1, <1>2, <1>3, <1>4, <2>1, <3>2, FastElementErrors
  <2>2. CASE served = "cue"
    <3>1. ~ByScalar /\ ~ByKind
      BY <1>2, <1>3, <1>5 DEF ByScalar, ByKind, IsListField
    <3>2. errors = IF CUEAccepts(c, v) THEN << >> ELSE listErrors(c, v)
      BY <1>2, <1>3, <2>2, <3>1 DEF VerdictInv, Decided, ByList
    <3>3. CASE CUEAccepts(c, v)
      <4>1. \A i \in DOMAIN v.items : CUEAccepts(e, v.items[i])
        BY <1>4, <3>3, ListAccepts
      <4> QED
        BY <3>2, <3>3, <4>1, NoElementErrors
    <3>4. CASE ~CUEAccepts(c, v)
      BY <1>4, <3>2, <3>4, UniformErrors
    <3> QED
      BY <3>3, <3>4
  <2> QED
    BY <1>1, <2>1, <2>2
<1>7. PICK on, K : on = {k \in DOMAIN errors : errors[k].path.index > 0} /\ K = {i \in DOMAIN v.items : ~CUEAccepts(e, v.items[i])}
  OBVIOUS
<1>8. /\ {errors[k].path.index : k \in on} = K
      /\ \A j, k \in on : j < k => errors[j].path.index <= errors[k].path.index
      /\ IsChoice(e) => OnePerElement(errors, on)
      /\ IsOpenConjunction(e) => \A k \in on : errors[k].code # "E1E01"
  BY <1>6, <1>7 DEF ElementErrors
<1>9. PICK n \in Nat : DOMAIN errors = 1 .. n
  <2>1. IsSeq(errors)
    BY DEF VerdictInv, ReportInv, Judgement, AllSound
  <2> QED
    BY <2>1 DEF IsSeq
<1>10. IsChoice(e) => Cardinality(on) = Cardinality(K)
  <2>1. on \subseteq 1 .. n
    BY <1>7, <1>9
  <2> QED
    BY <1>8, <1>9, <2>1, CountedOnce
<1> QED
  BY <1>3, <1>7, <1>8, <1>10

\* CUE reports every offending element and so does the fast path
\* (fastpath.go:646): an open list leaves errors at exactly the elements its
\* element constraint rejects, in index order, one for each where that is a
\* choice (collapseDisjunctionErrors, classify.go:133), and no enum's error
\* where it is a conjunction.
THEOREM ElementsAllJudged == Spec => []EveryElementJudged
<1>1. VerdictInv => EveryElementJudged
  BY ElementsJudged
<1> QED
  BY <1>1, VerdictInvariant, PTL
=============================================================================
