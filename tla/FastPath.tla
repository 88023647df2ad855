------------------------------ MODULE FastPath ------------------------------
(***************************************************************************)
(* fastpath.go: the descriptor New extracts from a field's constraint, and *)
(* the verdict a descriptor gives on a Go value without asking CUE.        *)
(***************************************************************************)
EXTENDS FieldConstraint, EditDistance, Listing

NoLimit == [set |-> FALSE, n |-> 0, excl |-> FALSE]

\* constraintNone, and the zero value of every other part.
NoDescriptor ==
  [kind |-> "none", expect |-> "", useInt64 |-> FALSE, regex |-> {},
   min |-> NoLimit, max |-> NoLimit, enums |-> << >>, elem |-> << >>]

TypeOnly(t) == [NoDescriptor EXCEPT !.kind = "type", !.expect = t]
EnumOf(t, lits) == [NoDescriptor EXCEPT !.kind = "enum", !.expect = t, !.enums = lits]

----------------------------------------------------------------------------
(* Extraction.                                                             *)

hasHiddenDisjunctionBranches(evaluated, raw) == Op(raw) = "or" /\ Op(evaluated) # "or"

noOpWrapsConstraint(c) ==
  Op(c) = "noop" /\ Len(Operands(c)) = 1 /\ Op(Operands(c)[1]) # "noop"

SlipIsBareType(c) == Op(c) = "noop" /\ ~IsConcrete(c)

isBareType(c) == Op(c) = "noop" /\ ~IsConcrete(c) /\ ~noOpWrapsConstraint(c)

\* The conjuncts of a constraint, those of the conjunctions in it included, as
\* the recursions over Expr meet them.
ConjunctsOver(c, operands) == IF Op(c) = "and" THEN FlattenSeq(operands) ELSE <<c>>

Conjuncts(c) ==
  LET conjuncts[d \in Constraint] == ConjunctsOver(d, [i \in DOMAIN d.args |-> conjuncts[d.args[i]]])
  IN  conjuncts[c]

Conjoined(c, ops) == {i \in DOMAIN Conjuncts(c) : Op(Conjuncts(c)[i]) \in ops}

\* CUE simplifies the bounds of a conjunction to one at most on either side.
ASSUME BoundsAssumption ==
  \A c \in Constraint : \A ops \in {{">", ">="}, {"<", "<="}} :
    \A i, j \in Conjoined(c, ops) : i = j

\* The regex among the conjuncts, if there is one, and whether nothing but one
\* regex and bare types is among them.
scanStringConjuncts(c) ==
  LET parts == Conjuncts(c)
      found == Conjoined(c, {"=~"})
  IN  [regex |-> IF found = {} THEN << >> ELSE <<parts[CHOOSE i \in found : TRUE].pat>>,
       exhaustive |-> /\ \A i \in DOMAIN parts : i \in found \/ isBareType(parts[i])
                      /\ \A i, j \in found : i = j]

\* The literals of a disjunction whose every branch is one of these kinds.
extractEnums(c, kinds) ==
  IF /\ Op(c) = "or" /\ Len(c.args) >= 2
     /\ \A i \in DOMAIN c.args : c.args[i].form = "lit" /\ c.args[i].kind \in kinds
     /\ kinds = {"int"} => \A i \in DOMAIN c.args : InInt64(c.args[i].num)
  THEN c.args
  ELSE << >>

numVal(lit) == ToFloat(lit.num)

\* Whether a bound can be held by the descriptor.
Representable(useInt64, lit) == useInt64 => lit.kind = "int" /\ InInt64(lit.num)

setFastRangeBound(useInt64, bound) ==
  [set |-> TRUE, excl |-> Op(bound) \in {">", "<"},
   n |-> IF useInt64 THEN bound.args[1].num ELSE numVal(bound.args[1])]

\* A later bound overwrites the earlier one of its side.
LastLimit(c, useInt64, ops) ==
  LET K == Conjoined(c, ops)
  IN  IF K = {} THEN NoLimit
      ELSE setFastRangeBound(useInt64, Conjuncts(c)[CHOOSE k \in K : \A j \in K : j <= k])

\* Every conjunct is a bound the descriptor can hold or the bare type the bounds
\* are conjoined with.
ExactBounds(c, useInt64) ==
  LET parts == Conjuncts(c)
  IN  \A i \in DOMAIN parts :
        IF Op(parts[i]) \in Comparisons THEN Representable(useInt64, parts[i].args[1])
        ELSE Op(parts[i]) = "noop" /\ ~IsConcrete(parts[i])

extractNumericRange(c, expect) ==
  LET useInt64 == expect = "int"
  IN  IF Op(c) = "and" /\ Conjoined(c, Comparisons) # {} /\ ExactBounds(c, useInt64)
      THEN [NoDescriptor EXCEPT !.kind = "range", !.expect = expect, !.useInt64 = useInt64,
                                !.min = LastLimit(c, useInt64, {">", ">="}),
                                !.max = LastLimit(c, useInt64, {"<", "<="})]
      ELSE NoDescriptor

extractStringConstraint(c) ==
  LET enums == extractEnums(c, {"string"})
      scan == scanStringConjuncts(c)
  IN  IF enums # << >> THEN EnumOf("string", enums)
      ELSE IF ~scan.exhaustive THEN NoDescriptor
      ELSE IF scan.regex = << >> THEN TypeOnly("string")
      ELSE [NoDescriptor EXCEPT !.kind = "regex", !.expect = "string", !.regex = scan.regex[1]]

\* A range where there is one, else the bare type and nothing else.
RangeOrType(c, expect) ==
  LET range == extractNumericRange(c, expect)
  IN  IF range # NoDescriptor THEN range
      ELSE IF isBareType(c) THEN TypeOnly(expect) ELSE NoDescriptor

extractIntConstraint(c) ==
  LET enums == extractEnums(c, {"int"})
  IN  IF enums # << >> THEN EnumOf("int", enums) ELSE RangeOrType(c, "int")

extractFloatConstraint(c) ==
  LET enums == extractEnums(c, {"int", "float"})
  IN  IF enums # << >>
      THEN EnumOf("float", [i \in DOMAIN enums |-> [enums[i] EXCEPT !.num = numVal(enums[i])]])
      ELSE RangeOrType(c, "float")

extractNumberConstraint(c) == RangeOrType(c, "number")

\* Only an open list of elements that have a scalar descriptor themselves.
extractListConstraint(evaluated, raw, elem) ==
  IF Op(raw) = "noop" /\ Op(evaluated) = "noop" /\ evaluated.form = "list" /\ elem.kind # "none"
  THEN [NoDescriptor EXCEPT !.kind = "list", !.elem = <<elem>>]
  ELSE NoDescriptor

extractScalarConstraint(raw) ==
  LET c == Eval(raw)
      kinds == Kinds(c)
  IN  IF hasHiddenDisjunctionBranches(c, raw) THEN NoDescriptor
      ELSE IF kinds = {"string"} THEN extractStringConstraint(c)
      ELSE IF kinds = {"int"} THEN extractIntConstraint(c)
      ELSE IF kinds = {"float"} THEN extractFloatConstraint(c)
      ELSE IF kinds = {"int", "float"} THEN extractNumberConstraint(c)
      ELSE IF kinds = {"bool"} /\ isBareType(c) THEN TypeOnly("bool")
      ELSE NoDescriptor

\* The recursion ends with the elements of a list: one that is a list itself is
\* refused whether or not it has a descriptor.
extractFastConstraint(raw) ==
  LET c == Eval(raw)
  IN  IF Kinds(c) = {"list"} /\ c.form = "list" /\ ~hasHiddenDisjunctionBranches(c, raw)
      THEN extractListConstraint(c, raw, extractScalarConstraint(c.args[1]))
      ELSE extractScalarConstraint(raw)

----------------------------------------------------------------------------
(* Validation.  A verdict that is not "handled" sends the value to CUE.    *)

Verdict(handled, valid, code, bound, suggestion) ==
  [handled |-> handled, valid |-> valid, code |-> code, bound |-> bound, suggestion |-> suggestion]

fallbackToCUE == Verdict(FALSE, FALSE, "", << >>, << >>)
pass == Verdict(TRUE, TRUE, "", << >>, << >>)
fail(code) == Verdict(TRUE, FALSE, code, << >>, << >>)
outOfBound(op, n) == Verdict(TRUE, FALSE, "E1R01", <<op, n>>, << >>)
failEnum(suggestion) == Verdict(TRUE, FALSE, "E1E01", << >>, suggestion)

IsFloat(v) == v.go \in {"float"} \cup NonFinite
IsSigned(v) == v.go = "int"
IsString(v) == v.go = "string"

validateFiniteFloat(v) ==
  CASE v.go = "nan" -> fail("E1T01") [] v.go = "inf" -> fail("E1R01") [] OTHER -> pass

validateFastIntType(v) ==
  IF IsSigned(v) THEN pass ELSE IF IsFloat(v) THEN fail("E1T01") ELSE fallbackToCUE

validateFastFloatType(v) == IF IsFloat(v) THEN validateFiniteFloat(v) ELSE fail("E1T01")

validateFastNumberType(v) == IF IsSigned(v) THEN pass ELSE validateFastFloatType(v)

validateFastType(d, v) ==
  CASE d.expect = "int" -> validateFastIntType(v)
    [] d.expect = "float" -> validateFastFloatType(v)
    [] d.expect = "number" -> validateFastNumberType(v)
    [] OTHER -> IF v.go = d.expect THEN pass ELSE fail("E1T01")

validateFastRegex(d, v) ==
  IF ~IsString(v) THEN fail("E1T01") ELSE IF v.s \in d.regex THEN pass ELSE fail("E1F01")

BreaksMin(d, n) == d.min.set /\ (IF d.min.excl THEN n <= d.min.n ELSE n < d.min.n)
SlipBreaksMax(d, n) == d.max.set /\ n > d.max.n

BreaksMax(d, n) == d.max.set /\ (IF d.max.excl THEN n >= d.max.n ELSE n > d.max.n)

\* The lower bound is compared first, so it is the one named.
WithinRange(d, n) ==
  IF BreaksMin(d, n) THEN outOfBound(IF d.min.excl THEN ">" ELSE ">=", d.min.n)
  ELSE IF BreaksMax(d, n) THEN outOfBound(IF d.max.excl THEN "<" ELSE "<=", d.max.n)
  ELSE pass

rejectIntOnFloat(d, v) == d.expect = "float" /\ IsSigned(v)

\* A float or number range: everything is compared as a float64.
validateFloatRange(d, v) ==
  CASE rejectIntOnFloat(d, v) -> fail("E1T01")
    [] ~IsSigned(v) /\ ~IsFloat(v) -> fail("E1T01")
    [] v.go \in NonFinite -> validateFiniteFloat(v)
    [] OTHER -> WithinRange(d, ToFloat(v.n))

validateFastRange(d, v) ==
  IF d.expect # "int" THEN validateFloatRange(d, v)
  ELSE IF IsSigned(v) THEN WithinRange(d, v.n) ELSE validateFastIntType(v)

InEnum(d, v, n) == \E i \in DOMAIN d.enums : d.enums[i].num = n /\ d.enums[i].str = v.s

EnumStrings(d) == [i \in DOMAIN d.enums |-> d.enums[i].str]

validateFastEnum(d, v) ==
  CASE d.expect = "string" ->
         IF ~IsString(v) THEN fail("E1T01")
         ELSE IF InEnum(d, v, v.n) THEN pass
         ELSE failEnum(suggestClosest(v.s, EnumStrings(d)))
    [] d.expect = "int" ->
         IF ~IsSigned(v) THEN validateFastIntType(v)
         ELSE IF InEnum(d, v, v.n) THEN pass ELSE failEnum(<< >>)
    [] d.expect = "float" ->
         IF v.go # "float" THEN fail("E1T01")
         ELSE IF InEnum(d, v, ToFloat(v.n)) THEN pass ELSE failEnum(<< >>)

validateFast(d, v) ==
  CASE d.kind = "type" -> validateFastType(d, v)
    [] d.kind = "regex" -> validateFastRegex(d, v)
    [] d.kind = "range" -> validateFastRange(d, v)
    [] d.kind = "enum" -> validateFastEnum(d, v)
    [] OTHER -> fallbackToCUE

\* The elements of a list: only an untyped slice is served, and one element
\* nobody here can decide hands the whole list to CUE.
SlipElementsHandled(d, v) ==
  v.go = "list" /\ \E i \in DOMAIN v.items : validateFast(d.elem[1], v.items[i]).handled

ElementsHandled(d, v) ==
  v.go = "list" /\ \A i \in DOMAIN v.items : validateFast(d.elem[1], v.items[i]).handled

\* The indices of the rejected elements, in order.
RejectedElements(d, v) ==
  Ascending({i \in DOMAIN v.items : ~validateFast(d.elem[1], v.items[i]).valid})

\* The candidates an enum error lists, in the order the schema declares them.
enumOptionsOf(d) == d.enums
=============================================================================
