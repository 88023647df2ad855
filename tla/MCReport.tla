------------------------------ MODULE MCReport ------------------------------
(***************************************************************************)
(* Instances of FieldReport: numbers small enough that floats run out of   *)
(* bits and integers out of int64, every form of constraint against every  *)
(* kind of value, and chains of catalogs that stop, loop, run too long or  *)
(* run into a nil.                                                         *)
(***************************************************************************)
EXTENDS ReportProperties

MCLower(letter) == IF letter = "A" THEN "a" ELSE letter

BuiltinErrorCodes ==
  {"E1F01", "E1T01", "E1E01", "E1R01", "E1M01", "E1A01", "E1X01",
   "E2B01", "E2X01", "E2T01", "E3C01", "E3X01", "E0C01"}

----------------------------------------------------------------------------
(* Constraints.                                                            *)

Blank == [form |-> "type", kind |-> "string", num |-> 0, str |-> << >>, pat |-> {}, args |-> << >>]

OfType(k) == [Blank EXCEPT !.kind = k]
Str(s) == [Blank EXCEPT !.form = "lit", !.str = s]
Num(k, n) == [Blank EXCEPT !.form = "lit", !.kind = k, !.num = n]
Bound(op, lit) == [Blank EXCEPT !.form = op, !.args = <<lit>>]
Like(form, pat) == [Blank EXCEPT !.form = form, !.pat = pat]
Of(form, args) == [Blank EXCEPT !.form = form, !.args = args]
AtLeast(k, element) == [Of("atLeast", <<element>>) EXCEPT !.num = Halves(k)]

IntLit(n) == Num("int", Halves(n))
Half == Num("float", 1)
One == Num("float", 2)

A == <<"a">>
UpperA == <<"A">>
AB == <<"a", "b">>
BA == <<"b", "a">>
ABBA == <<"a", "b", "b", "a">>
Pattern == {A, AB}
Other == {AB, ABBA}

Enum == Of("or", <<Str(AB), Str(ABBA), Str(UpperA)>>)
IntEnum == Of("or", <<IntLit(1), IntLit(9)>>)
Ranged == Of("and", <<OfType("int"), Bound(">=", IntLit(1))>>)

ScalarConstraints ==
  {OfType(k) : k \in {"int", "float", "number", "string", "bool"}} \cup
  {Str(AB), IntLit(1), Enum, IntEnum, Of("or", <<Half, One>>), Of("or", <<Half, IntLit(1)>>),
   Ranged,
   Of("and", <<Of("and", <<OfType("int"), Bound(">", IntLit(0))>>), Bound("<", IntLit(9))>>),
   Of("and", <<OfType("int"), Bound("<=", IntLit(20))>>),
   Of("and", <<OfType("int"), Bound(">", Half)>>),
   Of("and", <<OfType("int"), Bound(">=", IntLit(0)), Bound("!=", IntLit(1))>>),
   Of("and", <<OfType("float"), Bound(">=", Half), Bound("<", One)>>),
   Of("and", <<OfType("number"), Bound("<=", IntLit(8))>>),
   Of("and", <<OfType("number"), Bound(">", IntLit(0)), Bound("<", IntLit(9))>>),
   Bound(">=", IntLit(1)),
   Like("=~", Pattern), Of("and", <<OfType("string"), Like("=~", Pattern)>>),
   Of("and", <<Like("=~", Pattern), Like("=~", Other)>>),
   Of("and", <<OfType("string"), Bound("!=", Str(A))>>),
   Of("and", <<OfType("string"), Like("call", Other)>>),
   Of("or", <<OfType("int"), OfType("string")>>),
   Of("or", <<OfType("string"), IntLit(1)>>),
   Of("default", <<IntLit(1), Ranged>>), Of("default", <<IntLit(1), OfType("int")>>),
   Of("default", <<Str(AB), Like("=~", Pattern)>>)}

ListConstraints ==
  {Of("list", <<c>>) : c \in {OfType("string"), OfType("int"), OfType("number"), Ranged, Enum, IntEnum,
                              Like("=~", Pattern), Of("and", <<Like("=~", Pattern), Like("=~", Other)>>),
                              Of("or", <<Bound(">", IntLit(8)), OfType("string")>>),
                              Of("or", <<OfType("string"), IntLit(1)>>),
                              Of("default", <<IntLit(1), Ranged>>),
                              Of("list", <<OfType("string")>>)}} \cup
  {AtLeast(2, OfType("string")), AtLeast(2, Enum), Of("tuple", <<OfType("string"), OfType("int")>>),
   Of("or", <<Of("list", <<OfType("string")>>), Of("list", <<OfType("int")>>)>>)}

----------------------------------------------------------------------------
(* Values.                                                                 *)

GoValue(go, n, s, items) == [go |-> go, n |-> n, s |-> s, items |-> items]
Number(go, n) == GoValue(go, n, << >>, << >>)
Text(s) == GoValue("string", 0, s, << >>)
Items(go, items) == GoValue(go, 0, << >>, items)
Plain(go) == Number(go, 0)

Texts == {Text(s) : s \in {<< >>, A, AB, BA, <<"a", "b", "b">>, <<"b", "b", "a", "A">>, <<"A", "b", "A">>}}

Scalar ==
  {Number("int", Halves(n)) : n \in {-1, 0, 1, 8, 9, 15}} \cup
  {Number("uint", Halves(n)) : n \in {1, 9, 17}} \cup
  {Number("float", n) : n \in {-1, 1, 2, 16, 40}} \cup
  {Plain(go) : go \in {"nan", "inf", "bool"}} \cup Texts

JSONScalar ==
  {Number("intText", Halves(n)) : n \in {-1, 0, 1, 8, 9, 17}} \cup
  {Number("decText", n) : n \in {1, 2, 9, 16}} \cup
  {Plain("hugeText"), Plain("bool")} \cup Texts

SeqsUpTo(S, k) == UNION {[1 .. n -> S] : n \in 0 .. k}

ListsOver(S) == {Items("list", s) : s \in SeqsUpTo(S, 2)}

Elements == {Number("int", 0), Number("int", 2), Number("uint", 2), Plain("nan"), Plain("null"), Text(A), Text(AB)}
JSONElements == {Number("intText", 0), Number("intText", 2), Number("intText", Halves(17)), Plain("null"), Text(A)}

Lists ==
  ListsOver(Elements) \cup {Items("slice", s) : s \in SeqsUpTo({Text(A), Text(AB)}, 2)} \cup
  {Items("list", s) : s \in [1 .. 3 -> {Number("int", 0), Text(BA), Number("uint", 2)}]} \cup
  {Items("list", <<Items("list", <<Text(A)>>)>>)}

JSONLists == ListsOver(JSONElements)

----------------------------------------------------------------------------
(* Catalogs.                                                               *)

Template(wording, holes) == [wording |-> wording, holes |-> holes]
NoTemplate == Template("", {})
Message(template, fallback) == [template |-> template, fallback |-> fallback]
NoMessage == Message(NoTemplate, NoTemplate)
NoMessages == [c \in {} |-> NoMessage]
NoLabels == [p \in {} |-> NoPath]

EnUS ==
  [messages |->
     [c \in BuiltinErrorCodes |->
        CASE c = "E1T01" -> Message(Template("en type", {"field", "type"}), Template("en wrong type", {"field"}))
          [] c = "E1E01" -> Message(Template("en enum", {"field", "options"}), Template("en not allowed", {"field"}))
          [] c = "E1R01" -> Message(Template("en bound", {"field", "bound"}), Template("en range", {"field"}))
          [] c = "E0C01" -> Message(Template("en config", {}), NoTemplate)
          [] OTHER -> Message(Template("en other", {"field"}), NoTemplate)],
   default |-> Message(Template("en default", {"field"}), NoTemplate),
   labels |-> [p \in {NoPath} |-> [name |-> "value", index |-> 0]],
   suffix |-> Template("en suffix", {"suggestion"}),
   next |-> "nil"]

Renamed(name) == [name |-> name, index |-> 0]
EachElement == [FieldPath EXCEPT !.index = AnyIndex]

\* A catalog for one code; typo is a placeholder that does not exist.
Catalog(msg, default, labels, suffix, next) ==
  [messages |-> msg, default |-> default, labels |-> labels, suffix |-> suffix, next |-> next]

For(code, template, fallback) == [c \in {code} |-> Message(template, fallback)]

OwnMessages ==
  {NoMessages,
   For("E1E01", Template("own enum", {"field", "options"}), NoTemplate),
   For("E1T01", Template("own type", {"type"}), NoTemplate),
   For("E1T01", Template("own typo", {"feild"}), Template("own plain type", {}))}

OwnLabels == {NoLabels, [p \in {FieldPath} |-> Renamed("Field")], [p \in {EachElement} |-> Renamed("Each")]}

OwnSuffixes == {NoTemplate, Template("own suffix", {"suggestion"}), Template("own typed suffix", {"type"})}

\* A catalog that needs no fallback, if its own message for one code serves.
Complete == {Catalog(m, Message(Template("own default", {"field"}), NoTemplate), l, NoTemplate, n) :
               m \in OwnMessages, l \in OwnLabels, n \in {"nil", "typedNil", "mute"}}

First == Complete \cup
         {Catalog(m, NoMessage, l, s, n) :
            m \in OwnMessages, l \in OwnLabels, s \in OwnSuffixes,
            n \in {"second", "en", "first", "nil", "typedNil", "foreign", "mute"}}

Second == {Catalog(m, NoMessage, l, s, n) :
             m \in {NoMessages, For("E1E01", Template("next enum", {"field"}), NoTemplate)},
             l \in {NoLabels, [p \in {FieldPath, EachElement} |-> Renamed("Second")]},
             s \in {NoTemplate, Template("next suffix", {})},
             n \in {"first", "en", "third", "typedNil"}}

Third == Catalog(NoMessages, NoMessage, NoLabels, NoTemplate, "en")

English == [n \in {"en"} |-> EnUS]

Chain(f, s) ==
  [n \in {"first", "second", "third", "en"} |->
     CASE n = "first" -> f [] n = "second" -> s [] n = "third" -> Third [] OTHER -> EnUS]

Chains == {Chain(f, CHOOSE s \in Second : TRUE) : f \in {c \in First : c.next # "second"}} \cup
          {Chain(f, s) : f \in {c \in First : c.next = "second"}, s \in Second}

----------------------------------------------------------------------------

Scene(f, cats, root) == [constraint |-> f[1], value |-> f[2], way |-> f[3], cats |-> cats, root |-> root]

\* Every constraint against every value of its sort, read in English.
Fields ==
  (ScalarConstraints \X (Scalar \cup {Items("list", <<Text(A)>>)}) \X {"map", "struct"}) \cup
  (ScalarConstraints \X JSONScalar \X {"json"}) \cup
  (ListConstraints \X (Lists \cup {Text(A)}) \X {"map", "struct"}) \cup
  (ListConstraints \X JSONLists \X {"json"})

Judged == {Scene(f, English, "nil") : f \in Fields}

\* A few errors, read through every chain: with a suggestion, with a type, of
\* an element without one, and of an input that could not be converted.
Worded ==
  {Scene(f, chain, "first") :
     f \in {<<Enum, Text(<<"a", "b", "b">>), "map">>, <<OfType("int"), Text(A), "map">>,
            <<Of("list", <<OfType("int")>>), Items("slice", <<Text(A)>>), "map">>,
            <<AtLeast(1, Enum), Items("list", <<Text(A), Text(AB), Text(BA)>>), "map">>,
            <<OfType("string"), Plain("nan"), "bad">>},
     chain \in Chains}

Unreadable == Scene(<<OfType("int"), Text(A), "map">>, English, "typedNil")

Scenery == Judged \cup Worded \cup {Unreadable}

\* Constraints with the constraints and literals they are made of.
WithArgs(S) == S \cup UNION {{c.args[i] : i \in DOMAIN c.args} : c \in S}
Constraints == WithArgs(WithArgs(WithArgs(ScalarConstraints \cup ListConstraints \cup {AtLeast(1, Enum)})))

Nesting[c \in Constraints] ==
  IF c.args = << >> THEN 0 ELSE 1 + Max({Nesting[c.args[i]] : i \in DOMAIN c.args})

\* The values as they are passed and as they are validated, with their elements.
Given == Scalar \cup JSONScalar \cup Lists \cup JSONLists \cup
         {Items("slice", <<Text(A)>>), Items("list", <<Text(A), Text(AB), Text(BA)>>)}
Passed == Given \cup {toMapAny(way, v).value : way \in {"json", "struct"}, v \in Given}
WithItems(S) == S \cup UNION {{v.items[i] : i \in DOMAIN v.items} : v \in S}
Values == WithItems(WithItems(Passed))

\* The definition a constant is given is evaluated wherever the constant is
\* used: it names what a definition of this module has computed once.
MCLetter == {"a", "b", "A"}
MCConstraint == LET all == Constraints IN all
MCDepth == LET all == Nesting IN all
MCValue == LET all == Values IN all
MCScenes == LET all == Scenery IN all
=============================================================================
