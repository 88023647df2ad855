-------------------------- MODULE FieldConstraint --------------------------
(***************************************************************************)
(* One field of a schema as CUE sees it: the constraint declared for it,   *)
(* what CUE answers about the constraint's expression, which values it     *)
(* accepts and what it reports about the others.  CUE is outside this      *)
(* repository; its answers are those its code and tests rely on.           *)
(*                                                                         *)
(* A number is counted in halves: 3 stands for 1.5.                        *)
(***************************************************************************)
EXTENDS Integers, Sequences, SequencesExt

CONSTANTS
  Letter,        \* the letters of strings
  Constraint,    \* the constraints considered, with all they are made of
  Depth,         \* how deeply each of them is nested
  Value,         \* the values considered, with their elements
  MantissaBits,  \* bits of a float64's significand, 53 in Go
  Int64Limit     \* 2^63: an int64 lies in -Int64Limit .. Int64Limit - 1

\* "form" is the outermost operator: a bare type, a literal, a comparison, =~
\* or != with its literal, a builtin call, a conjunction, a disjunction, a
\* disjunction with a default, an open list, one with list.MinItems ("atLeast"),
\* a list of fixed arity ("tuple").
Comparisons == {">", ">=", "<", "<="}
Form == Comparisons \cup {"type", "lit", "=~", "!=", "call", "and", "or", "default", "list", "atLeast", "tuple"}

\* Kinds of CUE, and a "number" that may be either of two.
Kind == {"int", "float", "number", "string", "bool"}

\* Go values, and the numbers of a JSON text: an integer literal, one with a
\* fraction, and one too large for a float64.
GoType == {"int", "uint", "float", "nan", "inf", "bool", "string", "list", "slice", "null",
           "intText", "decText", "hugeText"}

\* Constraints are trees, an operator has operands, and only a string literal
\* has letters.
ASSUME ConstraintAssumption ==
  \A c \in Constraint :
    /\ c \in [form : Form, kind : Kind, num : Int, str : Seq(Letter), pat : SUBSET Seq(Letter),
              args : Seq(Constraint)]
    /\ c.form \notin {"type", "lit", "=~", "call", "tuple"} => c.args # << >>
    /\ c.kind # "string" => c.str = << >>
    /\ Depth[c] \in Nat /\ \A i \in DOMAIN c.args : Depth[c.args[i]] < Depth[c]

ASSUME PrecisionAssumption ==
  /\ MantissaBits \in Nat \ {0} /\ Int64Limit \in Nat
  /\ Int64Limit > 2 ^ MantissaBits

Halves(k) == 2 * k
InInt64(n) == Halves(-Int64Limit) <= n /\ n < Halves(Int64Limit)

Magnitude(n) == IF n < 0 THEN -n ELSE n

\* The distance between neighbouring floats around n.
Spacing(n) ==
  LET Q == {2 ^ e : e \in 0 .. 10}
  IN  CHOOSE q \in Q : /\ Magnitude(n) <= q * 2 ^ MantissaBits
                       /\ \A r \in Q : r < q => Magnitude(n) > r * 2 ^ MantissaBits

\* float64(n): the nearest float, ties to the even significand.
ToFloat(n) ==
  LET q == Spacing(n)
      k == n \div q
      r == n % q
  IN  IF 2 * r < q \/ (2 * r = q /\ k % 2 = 0) THEN k * q ELSE (k + 1) * q

----------------------------------------------------------------------------
(* What CUE makes of a Go value.                                           *)

\* A Go float is one that a float64 holds.
ASSUME ValueAssumption ==
  \A v \in Value :
    /\ v \in [go : GoType, n : Int, s : Seq(Letter), items : Seq(Value)]
    /\ v.go = "float" => ToFloat(v.n) = v.n

NonFinite == {"nan", "inf"}

CUEKind(v) ==
  CASE v.go \in {"int", "uint", "intText"} -> "int"
    [] v.go \in {"float", "decText", "hugeText"} \cup NonFinite -> "float"
    [] v.go \in {"list", "slice"} -> "list"
    [] OTHER -> v.go

----------------------------------------------------------------------------
(* What CUE answers about a constraint.                                    *)

\* Value.IncompleteKind, as a set of basic kinds: by itself, and with those of
\* its operands.
BasicKinds(c) == IF c.kind = "number" THEN {"int", "float"} ELSE {c.kind}

\* What a value may be to be told apart from a literal: numbers compare.
ComparableKinds(lit) == IF lit.kind \in {"int", "float"} THEN {"int", "float"} ELSE BasicKinds(lit)

KindsOver(c, operands) ==
  CASE c.form \in {"type", "lit"} -> BasicKinds(c)
    [] c.form \in Comparisons \cup {"!="} -> ComparableKinds(c.args[1])
    [] c.form \in {"=~", "call"} -> {"string"}
    [] c.form = "and" -> {k \in operands[1] : \A i \in DOMAIN operands : k \in operands[i]}
    [] c.form \in {"or", "default"} -> UNION {operands[i] : i \in DOMAIN operands}
    [] OTHER -> {"list"}

Kinds(c) ==
  LET kinds[d \in Constraint] == KindsOver(d, [i \in DOMAIN d.args |-> kinds[d.args[i]]])
  IN  kinds[c]

IsConcrete(c) == c.form = "lit"

\* What CUE writes: leaves have no operands, comparisons one number, != one
\* literal, a list of any length one element.  It distributes & over |, unifies
\* lists, a branch of | is no |, and a default is folded only into an
\* alternative that admits it.
ASSUME FormAssumption ==
  \A c \in Constraint :
    /\ c.form \in {"type", "lit", "=~", "call"} => c.args = << >>
    /\ c.form = "lit" => c.kind # "number"
    /\ c.form \in Comparisons \cup {"!="} => Len(c.args) = 1 /\ IsConcrete(c.args[1])
    /\ c.form \in Comparisons => c.args[1].kind \in {"int", "float"}
    /\ c.form \in {"list", "atLeast"} => Len(c.args) = 1
    /\ c.form = "and" =>
         \A i \in DOMAIN c.args : c.args[i].form \notin {"or", "default", "list", "atLeast", "tuple"}
    /\ c.form = "or" => \A i \in DOMAIN c.args : c.args[i].form # "or"
    /\ c.form = "default" =>
         /\ Len(c.args) = 2 /\ IsConcrete(c.args[1]) /\ c.args[2].form \notin {"lit", "default"}
         /\ c.args[1].kind \in Kinds(c.args[2])

\* The operator Value.Expr reports.  A folded default marker reports none.
Op(c) ==
  CASE c.form \in {"type", "lit", "default", "list", "tuple"} -> "noop"
    [] c.form = "atLeast" -> "and"
    [] OTHER -> c.form

\* The operands it reports: of a bare type the type again, of a folded default
\* the alternative that is left.
Operands(c) ==
  CASE c.form \in {"type", "lit", "list", "tuple"} -> <<c>>
    [] c.form = "default" -> <<c.args[2]>>
    [] OTHER -> c.args

\* Value.Eval: a disjunction of types collapses to its first branch, one of
\* literals survives.
Eval(c) ==
  IF c.form = "or" /\ \E i \in DOMAIN c.args : ~IsConcrete(c.args[i]) THEN c.args[1] ELSE c

Compares(op, n, m) ==
  CASE op = ">" -> n > m [] op = ">=" -> n >= m [] op = "<" -> n < m [] op = "<=" -> n <= m

SameLiteral(c, v) == c.kind = CUEKind(v) /\ c.num = v.n /\ c.str = v.s

\* Unify and Validate, in exact arithmetic, given which values each operand
\* accepts.  A number that is not finite is taken for a float within any bound,
\* the answer the fast path guards against.
AcceptedOver(c, v, operands) ==
  CASE c.form = "type" -> CUEKind(v) \in BasicKinds(c)
    [] c.form = "lit" -> v.go \notin NonFinite /\ SameLiteral(c, v)
    [] c.form \in Comparisons ->
         CUEKind(v) \in {"int", "float"} /\ (v.go \in NonFinite \/ Compares(c.form, v.n, c.args[1].num))
    [] c.form \in {"=~", "call"} -> v.go = "string" /\ v.s \in c.pat
    [] c.form = "!=" ->
         /\ CUEKind(v) \in ComparableKinds(c.args[1])
         /\ v.go \in NonFinite \/ v.n # c.args[1].num \/ v.s # c.args[1].str
    [] c.form = "and" -> \A i \in DOMAIN operands : operands[i][v]
    [] c.form \in {"or", "default"} -> \E i \in DOMAIN operands : operands[i][v]
    [] c.form = "tuple" ->
         /\ CUEKind(v) = "list" /\ Len(v.items) = Len(operands)
         /\ \A i \in DOMAIN v.items : operands[i][v.items[i]]
    [] OTHER ->
         /\ CUEKind(v) = "list"
         /\ c.form = "atLeast" => Halves(Len(v.items)) >= c.num
         /\ \A i \in DOMAIN v.items : operands[1][v.items[i]]

CUEAccepts(c, v) ==
  LET accepts[d \in Constraint] ==
        [x \in Value |-> AcceptedOver(d, x, [i \in DOMAIN d.args |-> accepts[d.args[i]]])]
  IN  accepts[c][v]

----------------------------------------------------------------------------
(* The diagnostics of what CUE rejects: which of its formats, the bound or *)
(* the branch the text names.  A disjunction reports a summary and each    *)
(* branch; a list reports every element, then what it has against itself.  *)

Diagnostic(format, bound, cand) == [format |-> format, bound |-> bound, cand |-> cand]
Mismatch(c) == <<Diagnostic("mismatch", << >>, <<c>>)>>

\* With the diagnostics of its branches.
Diagnosed(c, v, branches) ==
  IF CUEAccepts(c, v) THEN << >>
  ELSE IF c.form \in {"or", "default"} THEN <<Diagnostic("summary", << >>, << >>)>> \o branches
  ELSE IF CUEKind(v) \notin Kinds(c) THEN Mismatch(c)
  ELSE IF c.form = "lit" THEN <<Diagnostic("conflict", << >>, <<c>>)>>
  ELSE IF c.form = "and" THEN branches
  ELSE IF c.form \in Comparisons THEN <<Diagnostic("bound", <<c.form, c.args[1].num>>, << >>)>>
  ELSE IF c.form = "=~" THEN <<Diagnostic("pattern", << >>, << >>)>>
  ELSE IF c.form = "!=" THEN <<Diagnostic("bound", <<"!=", c.args[1].num>>, << >>)>>
  ELSE <<Diagnostic("other", << >>, << >>)>>

Diagnostics(c, v) ==
  LET found[d \in Constraint] == Diagnosed(d, v, FlattenSeq([i \in DOMAIN d.args |-> found[d.args[i]]]))
  IN  found[c]

\* The constraint on the element at an index.
ElementConstraint(c, i) == c.args[IF c.form = "tuple" THEN i ELSE 1]

\* Diagnostics with the index of the element they are about, 0 for the list.
Indexed(i, ds) == [k \in DOMAIN ds |-> [index |-> i, diag |-> ds[k]]]
OfList(format) == Indexed(0, <<Diagnostic(format, << >>, << >>)>>)

BranchDiagnostics(c, v) ==
  LET elements == FlattenSeq([i \in DOMAIN v.items |->
                                Indexed(i, Diagnostics(ElementConstraint(c, i), v.items[i]))])
  IN  IF c.form = "tuple" /\ Len(v.items) # Len(c.args) THEN OfList("other")
      ELSE IF c.form = "atLeast" /\ Halves(Len(v.items)) < c.num THEN elements \o OfList("other")
      ELSE elements

\* The branches of a disjunction are no disjunctions: | is associative.
ListDiagnostics(c, v) ==
  IF c.form = "or" THEN OfList("summary") \o FlattenSeq([i \in DOMAIN c.args |-> BranchDiagnostics(c.args[i], v)])
  ELSE BranchDiagnostics(c, v)
=============================================================================
