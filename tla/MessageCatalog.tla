--------------------------- MODULE MessageCatalog ---------------------------
(***************************************************************************)
(* localize.go: what a Catalog makes of an error, along its chain of       *)
(* fallbacks, and what Catalog.Validate finds out beforehand.              *)
(*                                                                         *)
(* "cats" maps the names of catalogs to catalogs:                          *)
(*   messages  from some error codes to a template and its fallback        *)
(*   default   the message of the other codes                              *)
(*   labels    from some paths to the path shown instead                   *)
(*   suffix    the template of SuggestionSuffix                            *)
(*   next      the Fallback: a catalog, "nil", "typedNil" for a nil        *)
(*             *Catalog, or a Localizer from elsewhere that answers        *)
(*             ("foreign") or does not ("mute").                           *)
(* A template is its wording and the placeholders it names; the wording    *)
(* "" is the empty template.                                               *)
(***************************************************************************)
EXTENDS Integers, Sequences, FiniteSets

CONSTANTS
  BuiltinCode,       \* builtinErrorCodes
  MaxFallbackDepth   \* maxFallbackDepth, 8 in Go

ASSUME DepthAssumption == MaxFallbackDepth \in Nat \ {0}

\* A path: a field and the index of one of its elements, 0 for none and
\* AnyIndex for the "[]" of a label key.
AnyIndex == -1
NoPath == [name |-> "", index |-> 0]
NormalizePath(path) == IF path.index > 0 THEN [path EXCEPT !.index = AnyIndex] ELSE path

NoText == [wording |-> "", field |-> NoPath, suffix |-> ""]
Generic == [NoText EXCEPT !.wording = "validation failed"]

EmptyTemplate == [wording |-> "", holes |-> {}]

\* The answer of resolve: a text, or the nil dereference that ends the program.
Says(text) == [text |-> text, panics |-> FALSE]
Panic == [text |-> NoText, panics |-> TRUE]
Silent == Says(NoText)

KnownPlaceholders == {"field", "type", "bound", "options", "suggestion"}

\* The placeholders an error has a value for.
Furnished(e) ==
  {p \in KnownPlaceholders :
     CASE p = "field" -> e.path # NoPath
       [] p = "type" -> e.fieldType # ""
       [] p = "bound" -> e.bound # << >>
       [] p = "options" -> e.options # << >>
       [] p = "suggestion" -> e.suggestion # << >>}

\* expand, as far as whether it yields a sentence.
SlipExpands(t, e) == t.wording # ""

Expands(t, e) == t.wording # "" /\ t.holes \subseteq Furnished(e)

MessageOf(cat, code) == IF code \in DOMAIN cat.messages THEN cat.messages[code] ELSE cat.default

\* Whether the catalog has a label for the path, and which.
HasLabel(cat, path) == path \in DOMAIN cat.labels \/ NormalizePath(path) \in DOMAIN cat.labels

lookupLabel(cat, path) ==
  IF path \in DOMAIN cat.labels THEN cat.labels[path] ELSE cat.labels[NormalizePath(path)]

\* The wording of this catalog alone: the template, else its fallback.
Body(cat, e) ==
  LET msg == MessageOf(cat, e.code)
  IN  IF Expands(msg.template, e) THEN msg.template.wording
      ELSE IF Expands(msg.fallback, e) THEN msg.fallback.wording
      ELSE ""

\* The suffix of the chain from a catalog on.  A nil *Catalog is not a nil
\* Localizer: the chain is followed into it.
suggestionSuffix(cats, name, depth) ==
  LET goesOn(c) == /\ c \in DOMAIN cats /\ cats[c].suffix.wording = ""
                   /\ cats[c].next \in DOMAIN cats \cup {"typedNil"}
      receiver[k \in 0 .. MaxFallbackDepth - depth] ==
        IF k = 0 THEN name
        ELSE IF goesOn(receiver[k - 1]) THEN cats[receiver[k - 1]].next ELSE receiver[k - 1]
      last == receiver[MaxFallbackDepth - depth]
  IN  IF last = "typedNil" THEN [template |-> EmptyTemplate, panics |-> TRUE]
      ELSE [template |-> cats[last].suffix, panics |-> FALSE]

render(cats, name, e, depth) ==
  LET body == Body(cats[name], e)
      suffix == suggestionSuffix(cats, name, depth)
      says(s) == Says([wording |-> body, field |-> e.path, suffix |-> s])
  IN  IF body = "" THEN Silent
      ELSE IF e.suggestion = << >> THEN says("")
      ELSE IF suffix.panics THEN Panic
      ELSE says(IF Expands(suffix.template, e) THEN suffix.template.wording ELSE "")

\* The error as this catalog and the rest of its chain see it.
SlipRelabelled(cat, e) ==
  IF e.path \in DOMAIN cat.labels THEN [e EXCEPT !.path = cat.labels[e.path]] ELSE e

Relabelled(cat, e) ==
  IF HasLabel(cat, e.path) THEN [e EXCEPT !.path = lookupLabel(cat, e.path)] ELSE e

Foreign(e) == Says([wording |-> "foreign", field |-> e.path, suffix |-> ""])

\* A call of resolve that has not answered yet and what it passes on: the
\* receiver and the error of the call it ends with, or its answer.
Ask(cats, call, depth) ==
  LET cat == cats[call.receiver]
      shown == Relabelled(cat, call.error)
      own == render(cats, call.receiver, shown, depth)
  IN  [receiver |-> cat.next, error |-> shown,
       answer |-> IF own = Silent /\ cat.next = "foreign" THEN Foreign(shown) ELSE own]

\* The calls of resolve by their depth; the last answer or end of the chain
\* stays.
Calls(cats, name, e) ==
  LET call[k \in 0 .. MaxFallbackDepth] ==
        IF k = 0 THEN [receiver |-> name, error |-> e, answer |-> Silent]
        ELSE IF call[k - 1].answer = Silent /\ call[k - 1].receiver \in DOMAIN cats
             THEN Ask(cats, call[k - 1], k - 1)
             ELSE call[k - 1]
  IN  call

resolve(cats, name, e) == Calls(cats, name, e)[MaxFallbackDepth].answer

Localize(cats, name, e) ==
  LET answer == resolve(cats, name, e)
  IN  IF answer = Silent THEN Says(Generic) ELSE answer

----------------------------------------------------------------------------
(* Catalog.Validate.                                                       *)

\* The catalogs followed by detectFallbackCycle, one more than there are names.
Followed(cats, name) ==
  LET F[k \in 0 .. Cardinality(DOMAIN cats)] ==
        IF k = 0 THEN name
        ELSE IF F[k - 1] \in DOMAIN cats THEN cats[F[k - 1]].next ELSE F[k - 1]
  IN  F

detectFallbackCycle(cats, name) == \A k \in DOMAIN Followed(cats, name) : Followed(cats, name)[k] \in DOMAIN cats

TemplatesOf(cat) ==
  LET msgs == {cat.messages[c] : c \in DOMAIN cat.messages} \cup {cat.default}
  IN  {m.template : m \in msgs} \cup {m.fallback : m \in msgs} \cup {cat.suffix}

\* Only the catalog's own templates: those of its fallbacks are not looked at.
checkPlaceholders(cat) == \A t \in TemplatesOf(cat) : t.holes \subseteq KnownPlaceholders

BareError(code) ==
  [code |-> code, path |-> [name |-> "field", index |-> 0], fieldType |-> "",
   bound |-> << >>, options |-> << >>, suggestion |-> << >>]

FurnishedError(code) ==
  [BareError(code) EXCEPT !.fieldType = "int", !.bound = <<">", 0>>, !.options = <<"a">>,
                          !.suggestion = <<"a">>]

SlipProbes == {FurnishedError(c) : c \in BuiltinCode}

\* The errors Validate tries: every code with all placeholders, and with none.
Probes == UNION {{FurnishedError(c), BareError(c)} : c \in BuiltinCode}

\* "ok", "faulty", or "panics" when a probe runs into a nil *Catalog.
ValidateCatalog(cats, name) ==
  IF name = "typedNil" \/ detectFallbackCycle(cats, name) THEN "faulty"
  ELSE IF \E e \in Probes : resolve(cats, name, e) = Panic THEN "panics"
  ELSE IF checkPlaceholders(cats[name]) /\ \A e \in Probes : resolve(cats, name, e) # Silent THEN "ok"
  ELSE "faulty"

----------------------------------------------------------------------------
(* What a chain of catalogs is meant to say.                               *)

\* The names that end a chain name no catalog.
Named(cats, root) ==
  /\ DOMAIN cats \cap {"nil", "typedNil", "foreign", "mute"} = {}
  /\ root \in DOMAIN cats \cup {"typedNil"}
  /\ \A c \in DOMAIN cats : cats[c].next \in DOMAIN cats \cup {"nil", "typedNil", "foreign", "mute"}

\* No catalog renames what is a label already.
LabelsFinal(cats) ==
  \A c, d \in DOMAIN cats : \A p \in DOMAIN cats[c].labels :
    HasLabel(cats[d], cats[c].labels[p]) => lookupLabel(cats[d], cats[c].labels[p]) = cats[c].labels[p]

\* No label is empty, and no template reads like the generic text.
Telling(cats) ==
  \A c \in DOMAIN cats :
    /\ \A p \in DOMAIN cats[c].labels : cats[c].labels[p] # NoPath
    /\ \A t \in TemplatesOf(cats[c]) : t.wording # Generic.wording

\* The catalog at each level of the chain, or what ends it.
ChainFrom(cats, root) ==
  LET at[k \in 0 .. MaxFallbackDepth] ==
        IF k = 0 THEN root ELSE IF at[k - 1] \in DOMAIN cats THEN cats[at[k - 1]].next ELSE "nil"
  IN  at

Foremost(S) == CHOOSE k \in S : \A j \in S : k <= j

\* The levels down to k whose catalog has a label for the path.
Labellers(cats, at, path, k) == {j \in 0 .. k : at[j] \in DOMAIN cats /\ HasLabel(cats[at[j]], path)}

\* The error as a level shows it: renamed by the first catalog that has a label.
ShownAt(cats, at, e, k) ==
  LET namers == Labellers(cats, at, e.path, k)
  IN  IF namers = {} THEN e
      ELSE [e EXCEPT !.path = lookupLabel(cats[at[Foremost(namers)]], e.path)]

\* A template all of whose placeholders the error has a value for.
Fulfilled(t, e) == t.wording # "" /\ t.holes \subseteq Furnished(e)

\* What the catalog at a level can say of the error: the first of its two
\* templates that is complete.
SentencesAt(cats, at, e, k) ==
  LET msg == MessageOf(cats[at[k]], e.code)
  IN  {i \in 1 .. 2 : Fulfilled(<<msg.template, msg.fallback>>[i], ShownAt(cats, at, e, k))}

Speakers(cats, at, e) ==
  {k \in 0 .. MaxFallbackDepth - 1 : at[k] \in DOMAIN cats /\ SentencesAt(cats, at, e, k) # {}}

SentenceAt(cats, at, e, k) ==
  LET msg == MessageOf(cats[at[k]], e.code)
  IN  <<msg.template, msg.fallback>>[Foremost(SentencesAt(cats, at, e, k))].wording

\* The first suffix from a level on, if the error has a suggestion to append.
SuffixLevels(cats, at, k) ==
  {j \in k .. MaxFallbackDepth : at[j] \in DOMAIN cats /\ cats[at[j]].suffix.wording # ""}

SuffixAt(cats, at, e, k) ==
  LET levels == SuffixLevels(cats, at, k)
      template == cats[at[Foremost(levels)]].suffix
  IN  IF e.suggestion # << >> /\ levels # {} /\ Fulfilled(template, ShownAt(cats, at, e, k))
      THEN template.wording ELSE ""

Intended(cats, root, e) ==
  LET at == ChainFrom(cats, root)
      k == Foremost(Speakers(cats, at, e))
      foreign == {j \in 1 .. MaxFallbackDepth : at[j] = "foreign"}
  IN  IF Speakers(cats, at, e) # {} THEN
        [wording |-> SentenceAt(cats, at, e, k), field |-> ShownAt(cats, at, e, k).path,
         suffix |-> SuffixAt(cats, at, e, k)]
      ELSE IF foreign # {} THEN Foreign(ShownAt(cats, at, e, Foremost(foreign) - 1)).text
      ELSE Generic
=============================================================================
