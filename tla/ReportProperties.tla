-------------------------- MODULE ReportProperties --------------------------
(***************************************************************************)
(* What a caller may rely on when a field is reported.                     *)
(***************************************************************************)
EXTENDS FieldReport

ErrorCode == {"E1F01", "E1T01", "E1E01", "E1R01", "E1A01", "E1X01", "E0C01"}

ASSUME CodeAssumption == ErrorCode \subseteq BuiltinCode

\* Types, and what each stage has settled.
TypeOK ==
  /\ stage \in {"start", "compiled", "ready", "converted", "validated", "panicked"}
  /\ fast.kind \in {"none", "type", "regex", "range", "enum", "list"}
  /\ fast.kind = "list" => fast.elem[1].kind \in {"type", "regex", "range", "enum"}
  /\ checked \in {"no", "ok", "faulty", "panics"}
  /\ served \in {"", "convert", "fast", "cue"}
  /\ valid = (errors = << >>)
  /\ served = "" => valid
  /\ \A i \in DOMAIN errors :
       /\ errors[i].code \in ErrorCode
       /\ errors[i].path = NoPath <=> errors[i].code = "E0C01"
       /\ errors[i].suggestion # << >> => errors[i].code = "E1E01" /\ errors[i].options # << >>
  /\ Len(texts) <= Len(errors)

----------------------------------------------------------------------------
(* The verdict.                                                            *)

Finite(v) == \A x \in Scalars(v) : x.go \notin NonFinite \cup {"hugeText"}

\* The constraints and literals a constraint is written with.
PartsOver(c, operands) == {c} \cup UNION {operands[i] : i \in DOMAIN operands}

Parts(c) ==
  LET parts[d \in Constraint] == PartsOver(d, [i \in DOMAIN d.args |-> parts[d.args[i]]])
  IN  parts[c]

\* No float is welcome, or every number involved is one exactly.
Exact(c, v) ==
  \/ \E d \in Parts(c) : d.form = "type" /\ d.kind = "int"
  \/ "float" \notin UNION {Kinds(d) : d \in Parts(c)}
  \/ /\ \A d \in Parts(c) : ToFloat(d.num) = d.num
     /\ \A x \in Scalars(v) : ToFloat(x.n) = x.n

\* An unsigned integer where integers and floats are both welcome.
UnsignedNumber(c, v) ==
  /\ \E d \in Parts(c) : {"int", "float"} \subseteq Kinds(d)
  /\ \E x \in Scalars(v) : x.go = "uint"

\* For finite values the fast path and CUE agree (oracle_test.go:11), but for
\* numbers a float64 cannot hold and unsigned integers on a number field; a
\* value that is not finite never passes the fast path.
FastPathAgrees ==
  served = "fast" =>
    IF ~Finite(data) THEN ~valid
    ELSE valid = CUEAccepts(scene.constraint, data)
         \/ ~Exact(scene.constraint, data) \/ UnsignedNumber(scene.constraint, data)

\* Oracle contract: for finite values, the fast path and CUE must agree.
OracleContract == served = "fast" /\ Finite(data) => valid = CUEAccepts(scene.constraint, data)

\* The numbers JSON carries unchanged: a struct's integers of 64 bits with a
\* sign and its floats with a fraction; a text's integers of that size and the
\* fractions a float64 holds.
CarriedByJSON(v) ==
  \A x \in Scalars(v) :
    CASE x.go \in {"int", "uint", "intText"} -> InInt64(x.n)
      [] x.go = "float" -> x.n % Halves(1) # 0
      [] x.go = "decText" -> ToFloat(x.n) = x.n
      [] OTHER -> x.go \notin {"hugeText"} \cup NonFinite

\* A struct and a JSON text are judged as what they say: the detour through
\* JSON, numbers and all, changes no verdict (convert.go:66, "preserve integer
\* precision") unless a number is one that JSON, int64 or float64 cannot carry.
VerdictSurvivesConversion ==
  served \in {"fast", "cue"} /\ scene.way \in {"json", "struct"} =>
    \/ valid = CUEAccepts(scene.constraint, scene.value)
    \/ ~CarriedByJSON(scene.value) \/ ~Exact(scene.constraint, scene.value)

----------------------------------------------------------------------------
(* The errors.                                                             *)

IsUniformList(c) == c.form \in {"list", "atLeast"}

\* A disjunction of literals and types, an enum to who reads its errors.
IsChoice(c) == c.form = "or" /\ \A i \in DOMAIN c.args : c.args[i].form \in {"lit", "type"}

\* A conjunction that does not come down to one value.
IsOpenConjunction(c) == c.form = "and" /\ \A i \in DOMAIN Conjuncts(c) : ~IsConcrete(Conjuncts(c)[i])

\* CUE reports every offending element and so does the fast path, in index
\* order (fastpath.go:646): an open list leaves errors at exactly the elements
\* its element constraint rejects, and exactly one where that is a choice, the
\* several diagnostics of its branches being one mistake (classify.go:133); the
\* several of a conjunction are not taken for an enum's.
EveryElementJudged ==
  served \in {"fast", "cue"} /\ IsListValue(data) /\ IsUniformList(scene.constraint)
    /\ Finite(data) /\ Exact(scene.constraint, data) /\ ~UnsignedNumber(scene.constraint, data) =>
    LET element == scene.constraint.args[1]
        rejected == {i \in DOMAIN data.items : ~CUEAccepts(element, data.items[i])}
        onElements == {k \in DOMAIN errors : errors[k].path.index > 0}
    IN  /\ {errors[k].path.index : k \in onElements} = rejected
        /\ \A j, k \in onElements : j < k => errors[j].path.index <= errors[k].path.index
        /\ IsChoice(element) => Cardinality(onElements) = Cardinality(rejected)
        /\ IsOpenConjunction(element) => \A k \in onElements : errors[k].code # "E1E01"

\* The value an error is about.
Offender(e) == IF e.path.index = 0 THEN data ELSE data.items[e.path.index]

\* A suggestion is the first of the options nearest to the rejected string, and
\* there is one as soon as an option is near enough: at most two edits, fewer
\* than the string has letters (suggest.go:8).  Whether the descriptor or a
\* collapsed CUE disjunction made the error is all the same.
SuggestionIsNearest ==
  \A k \in DOMAIN errors :
    LET e == errors[k] IN
    e.code = "E1E01" /\ e.options # << >> /\ IsString(Offender(e)) =>
      e.suggestion = NearestTo(Offender(e).s, [i \in DOMAIN e.options |-> e.options[i].str])

----------------------------------------------------------------------------
(* The texts.                                                              *)

\* An error is worded by the nearest catalog of the chain that can, about the
\* path as the nearest catalog that renames it calls it, with the nearest
\* suffix (localize.go:124, 173), and the text is never empty, however long the
\* chain and whether it loops; only a nil *Catalog in it ends the program.
LocalizedAsIntended ==
  /\ \A i \in DOMAIN texts : texts[i] = Intended(scene.cats, Reader(scene), errors[i])
  /\ stage = "panicked" => \E k \in 1 .. MaxFallbackDepth : ChainFrom(scene.cats, Reader(scene))[k] = "typedNil"

\* A catalog Validate has passed words every error of a field: nothing it was
\* asked about at startup degrades to the generic text later.
ValidatedChainReads ==
  checked = "ok" => \A i \in DOMAIN texts : errors[i].path # NoPath => texts[i].wording # Generic.wording
=============================================================================
