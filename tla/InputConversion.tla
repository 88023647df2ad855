-------------------------- MODULE InputConversion --------------------------
(***************************************************************************)
(* convert.go: what becomes of a value on its way into the input map.      *)
(* "map" stands for a map[string]any and for a Processable, which are      *)
(* taken as they are, "json" for JSON bytes, "struct" for a struct or a    *)
(* pointer to one, and "bad" for nil, empty bytes and every other type.    *)
(***************************************************************************)
EXTENDS FieldConstraint

Converted(v) == [ok |-> TRUE, value |-> v]
NotConvertible == [ok |-> FALSE, value |-> [go |-> "null", n |-> 0, s |-> << >>, items |-> << >>]]

IsListValue(v) == v.go \in {"list", "slice"}

\* A conversion of scalars, carried into the elements of a list.
Throughout(F(_), v) ==
  IF IsListValue(v) THEN [v EXCEPT !.go = "list", !.items = [i \in DOMAIN v.items |-> F(v.items[i])]]
  ELSE F(v)

\* encoding/json refuses a number that is not finite, and writes a float
\* without a fraction like an integer.
Marshals(v) == v.go \notin NonFinite /\ \A i \in DOMAIN v.items : v.items[i].go \notin NonFinite

Marshal(v) ==
  LET text(x) ==
        CASE x.go \in {"int", "uint"} -> [x EXCEPT !.go = "intText"]
          [] x.go = "float" -> [x EXCEPT !.go = IF x.n % Halves(1) = 0 THEN "intText" ELSE "decText"]
          [] OTHER -> x
  IN  Throughout(text, v)

\* Every number taken for a float, as json.Unmarshal does by itself.
SlipJSONNumberToNative(x) ==
  CASE x.go \in {"intText", "decText"} -> [x EXCEPT !.go = "float", !.n = ToFloat(x.n)]
    [] x.go = "hugeText" -> [x EXCEPT !.go = "inf"]
    [] OTHER -> x

\* The error of Float64 is dropped: what overflows arrives as an infinity.
jsonNumberToNative(x) ==
  IF x.go = "intText" /\ InInt64(x.n) THEN [x EXCEPT !.go = "int"]
  ELSE IF x.go \in {"intText", "decText"} THEN [x EXCEPT !.go = "float", !.n = ToFloat(x.n)]
  ELSE IF x.go = "hugeText" THEN [x EXCEPT !.go = "inf"]
  ELSE x

convertJSONNumbers(v) == Throughout(jsonNumberToNative, v)

structToMap(v) == IF Marshals(v) THEN Converted(convertJSONNumbers(Marshal(v))) ELSE NotConvertible

toMapAny(way, v) ==
  CASE way = "map" -> Converted(v)
    [] way = "json" -> Converted(convertJSONNumbers(v))
    [] way = "struct" -> structToMap(v)
    [] OTHER -> NotConvertible
=============================================================================
