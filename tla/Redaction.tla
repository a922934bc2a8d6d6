------------------------------ MODULE Redaction ------------------------------
(***************************************************************************)
(* Redaction (redaction.py) and its two uses: the log processor redacts an *)
(* event; the capture recorder redacts a parsed JSON body, makes it one    *)
(* text with json.dumps, and redacts the exchange that the text is part    *)
(* of, which scrubs the text once more.  A body that is not parsed (no     *)
(* JSON, too long, broken) is a text from the start.                       *)
(*                                                                         *)
(* A text is the set of the pieces that it consists of.  A value is a tree *)
(* of records; a map is the sequence of its pairs, since a dict keeps its  *)
(* order and a JSON text may have one key twice.  The text that json.dumps *)
(* makes is the value with its names, numbers and escapes exposed to the   *)
(* patterns; where a pattern leaves no JSON, the place is garbled.         *)
(***************************************************************************)
EXTENDS Naturals, Sequences

CONSTANTS
  MaxDepth,     \* MAX_DEPTH
  Key,          \* the keys of maps
  Normalised,   \* Normalised[key]: the key without separators, in lower case
  Credentials,  \* the normalised keys with a part that marks a credential
  Allowlist,    \* _KEY_ALLOWLIST
  ShapedKey,    \* the keys that a text pattern matches
  EscapedKey,   \* the keys that one matches once json.dumps has escaped them
  ShapedNumber, \* the numbers that one matches: 32 digits and more
  MaxNesting,   \* bound: the containers around a leaf
  JsonBody,     \* bound: the JSON bodies that are captured
  TextBody,     \* bound: the bodies that are not parsed
  Event         \* bound: the events that are logged

VARIABLES
  stage,  \* how far the value has come
  given,  \* the value as it came in
  value   \* what it is by now

redactionVars == <<stage, given, value>>

-----------------------------------------------------------------------------
(* Values.                                                                 *)

\* What the patterns match, and what they leave.  A "pair" is a name, an equals
\* sign and something long, of which the name is kept.  A "glyph" is what a
\* pattern matches only as json.dumps escapes it: the sign in "Lego(R)" becomes
\* u00ae, which is shaped like a postcode.
Shaped == {"token", "email", "pair"}
Piece  == {"word", "name", "length", "marker", "glyph"} \cup Shaped

Scalar(n)    == [kind |-> "scalar", number |-> n]
Text(pieces) == [kind |-> "text", pieces |-> pieces]
Bytes(n)     == [kind |-> "bytes", size |-> n]
Object(repr) == [kind |-> "object", repr |-> repr]
Map(pairs)   == [kind |-> "map", pairs |-> pairs]
List(items)  == [kind |-> "list", items |-> items]
Unordered(members) == [kind |-> "set", members |-> members]

REDACTED == Text({"marker"})

\* A place of a JSON text that is no JSON any more.
Garbled == [kind |-> "garbled"]

Leaf == [kind : {"scalar"}, number : Nat]
          \cup [kind : {"text"}, pieces : SUBSET Piece]
          \cup [kind : {"bytes"}, size : Nat]
          \cup [kind : {"object"}, repr : SUBSET Piece]

JsonLeaf == {leaf \in Leaf : leaf.kind \in {"scalar", "text"}}

Kinds     == {"map", "list", "set"}
JsonKinds == {"map", "list"}

\* The keys in a value, those included that redact_text has been over.
FieldName == Key \cup {"[REDACTED]", "garbled"}

Containers(S, kinds) ==
  {v \in [kind : {"map"}, pairs : Seq(FieldName \X S)]
           \cup [kind : {"list"}, items : Seq(S)]
           \cup [kind : {"set"}, members : SUBSET S] : v.kind \in kinds}

\* The values with up to n containers of these kinds around each of these leaves.
Nested(leaves, kinds) ==
  LET values[n \in 0..MaxNesting] ==
        IF n = 0 THEN leaves ELSE leaves \cup Containers(values[n - 1], kinds)
  IN  values

Value   == Nested(Leaf, Kinds)[MaxNesting]
Json(n) == Nested(JsonLeaf, JsonKinds)[n]

ASSUME RedactionAssumption ==
  /\ MaxDepth \in Nat /\ MaxNesting \in Nat
  /\ ShapedKey \cup EscapedKey \subseteq Key
  /\ {"[REDACTED]", "garbled"} \cap Key = {}
  /\ JsonBody \subseteq Json(MaxNesting)
  /\ TextBody \subseteq {leaf \in Leaf : leaf.kind = "text"}
  /\ Event \subseteq Value

-----------------------------------------------------------------------------
(* redaction.py.                                                           *)

IsSensitiveKey(key) ==
  /\ Normalised[key] \notin Allowlist
  /\ Normalised[key] \in Credentials

\* Bug: the first pattern that matches ends the search.
RedactFirst(pieces) ==
  IF pieces \cap Shaped = {} THEN pieces
  ELSE LET found == CHOOSE piece \in pieces \cap Shaped : TRUE
       IN  (pieces \ {found}) \cup {"marker"}

RedactPieces(pieces) ==
  (pieces \ Shaped)
    \cup (IF pieces \cap Shaped # {} THEN {"marker"} ELSE {})
    \cup (IF "pair" \in pieces THEN {"name"} ELSE {})

\* Bug: the limit is reached one level early.
TooDeepEarly(depth) == depth >= MaxDepth

TooDeep(depth) == depth > MaxDepth

\* Bug: an allowlisted key exempts the value below it.
RedactPairExempting(pair, redacted) ==
  <<pair[1],
    IF IsSensitiveKey(pair[1]) THEN REDACTED
    ELSE IF Normalised[pair[1]] \in Allowlist THEN pair[2]
    ELSE redacted[pair[2]]>>

RedactPair(pair, redacted) ==
  <<pair[1], IF IsSensitiveKey(pair[1]) THEN REDACTED ELSE redacted[pair[2]]>>

\* What becomes of a value, when the values in it become what redacted says.
RedactWith(v, redacted) ==
  CASE v.kind = "scalar" -> v
    [] v.kind = "text"   -> Text(RedactPieces(v.pieces))
    [] v.kind = "bytes"  -> Text({"marker", "length"})
    [] v.kind = "object" -> Text(RedactPieces(v.repr))
    [] v.kind = "map"    ->
         Map([i \in DOMAIN v.pairs |-> RedactPair(v.pairs[i], redacted)])
    [] v.kind = "list"   -> List([i \in DOMAIN v.items |-> redacted[v.items[i]]])
    [] v.kind = "set"    -> Unordered({redacted[m] : m \in v.members})

\* redact(value, _depth=depth) is Redact[depth][value].
Redact[depth \in 0..(MaxDepth + 1)] ==
  [v \in Value |->
     IF TooDeep(depth) THEN REDACTED ELSE RedactWith(v, Redact[depth + 1])]

-----------------------------------------------------------------------------
RedactionInit ==
  /\ \/ stage = "event" /\ given \in Event
     \/ stage = "body" /\ given \in JsonBody
     \/ stage = "unparsed" /\ given \in TextBody
  /\ value = given

\* redaction_processor: every value of the event.
Log ==
  /\ stage = "event"
  /\ stage' = "logged"
  /\ value' = Redact[0][value]
  /\ UNCHANGED given

\* _read_body: the body is redacted as a structure and made a text.
DumpBody ==
  /\ stage = "body"
  /\ stage' = "dumped"
  /\ value' = Redact[0][value]
  /\ UNCHANGED given

\* _read_body: a body that is too long, does not parse or is no JSON.
ScrubBody ==
  /\ stage = "unparsed"
  /\ stage' = "scrubbed"
  /\ value' = Text(RedactPieces(value.pieces))
  /\ UNCHANGED given

\* What redact_text leaves of a key in a JSON text.
ScrubbedKey(key) ==
  CASE key \in ShapedKey  -> "[REDACTED]"
    [] key \in EscapedKey -> "garbled"
    [] OTHER              -> key

\* redact_text on the text of a JSON value: its keys, its numbers and its
\* strings as json.dumps escaped them.
ScrubWith(v, scrubbed) ==
  CASE v.kind = "scalar" -> IF v.number \in ShapedNumber THEN Garbled ELSE v
    [] v.kind = "text"   ->
         IF "glyph" \in v.pieces THEN Garbled ELSE Text(RedactPieces(v.pieces))
    [] v.kind = "list"   -> List([i \in DOMAIN v.items |-> scrubbed[v.items[i]]])
    [] v.kind = "map"    ->
         Map([i \in DOMAIN v.pairs |->
                <<ScrubbedKey(v.pairs[i][1]), scrubbed[v.pairs[i][2]]>>])

Scrub[n \in 0..MaxNesting] == [v \in Json(n) |-> ScrubWith(v, Scrub[n - 1])]

\* _record: the exchange is redacted, the text of the body with it.
AppendExchange ==
  /\ stage' = "recorded"
  /\ \/ stage = "dumped" /\ value' = Scrub[MaxNesting][value]
     \/ stage = "scrubbed" /\ value' = Text(RedactPieces(value.pieces))
  /\ UNCHANGED given

RedactionNext == Log \/ DumpBody \/ ScrubBody \/ AppendExchange

RedactionSpec == RedactionInit /\ [][RedactionNext]_redactionVars

-----------------------------------------------------------------------------
(* Properties.                                                             *)

\* The children of a value, each with the step that leads to it.
Children(v) ==
  CASE v.kind = "map"  ->
         {<< <<"key", v.pairs[i][1]>>, v.pairs[i][2] >> : i \in DOMAIN v.pairs}
    [] v.kind = "list" ->
         {<< <<"item", i>>, v.items[i] >> : i \in DOMAIN v.items}
    [] v.kind = "set"  ->
         {<< <<"member">>, m >> : m \in v.members}
    [] OTHER           -> {}

\* What is at a place itself: a leaf, or the kind of the container.
Label(v) == IF v.kind \in Kinds THEN [kind |-> v.kind] ELSE v

OneFurther(ways) ==
  UNION {{<<Append(way[1], child[1]), child[2]>> : child \in Children(way[2])} :
           way \in ways}

\* The ways of n steps into a value, each with what it leads to.
Ways(v) ==
  LET ways[n \in 0..MaxNesting] ==
        IF n = 0 THEN {<< <<>>, v >>} ELSE OneFurther(ways[n - 1])
  IN  ways

\* The places in a value: the steps that lead to each, and its label.
Places(v) ==
  {<<way[1], Label(way[2])>> : way \in UNION {Ways(v)[n] : n \in 0..MaxNesting}}

Redacted == stage \in {"logged", "dumped"}

\* A place that redaction goes through: not too deep, not under a credential.
Open(steps) ==
  /\ Len(steps) <= MaxDepth
  /\ \A i \in DOMAIN steps :
       steps[i][1] = "key" =>
         Normalised[steps[i][2]] \in Allowlist
           \/ Normalised[steps[i][2]] \notin Credentials

Parent(steps) == SubSeq(steps, 1, Len(steps) - 1)

\* What redaction should make of a label.
Cleaned(label) ==
  CASE label.kind = "text"   -> Text(RedactPieces(label.pieces))
    [] label.kind = "object" -> Text(RedactPieces(label.repr))
    [] label.kind = "bytes"  -> Text({"marker", "length"})
    [] OTHER                 -> label

\* redaction.py:148-156: the redacted value has the structure of the value as
\* far as the limit: the places that are open with their labels cleaned, and
\* one marker where the way ends.  The definition goes by places, the code by
\* recursion and a depth that it counts.
StructureKept ==
  Redacted =>
    Places(value) =
      {<<place[1], IF Open(place[1]) THEN Cleaned(place[2]) ELSE REDACTED>> :
         place \in {pl \in Places(given) : pl[1] = <<>> \/ Open(Parent(pl[1]))}}

\* The keys on the way to a place.
KeysTo(steps) == {steps[i][2] : i \in {j \in DOMAIN steps : steps[j][1] = "key"}}

\* redaction.py:24-28: "over-redact rather than under-redact": no text that a
\* pattern matches is left at any place, under any key; and as a recorded body is
\* one text, neither is a field name or a number in it.  The field names of an
\* event that is logged are left as they are (redaction.py:172-176).
NothingShapedLeft ==
  stage \in {"logged", "dumped", "scrubbed", "recorded"} =>
    \A place \in Places(value) :
      /\ place[2].kind = "text" => place[2].pieces \cap Shaped = {}
      /\ stage = "recorded" =>
           /\ KeysTo(place[1]) \cap (ShapedKey \cup EscapedKey) = {}
           /\ place[2].kind = "scalar" => place[2].number \notin ShapedNumber

\* What a pattern matches in the text that json.dumps makes of a place, and would
\* not match in its value.
OnlyAsJson(place) ==
  \/ KeysTo(place[1]) \cap (ShapedKey \cup EscapedKey) # {}
  \/ place[2].kind = "scalar" /\ place[2].number \in ShapedNumber
  \/ place[2].kind = "text" /\ "glyph" \in place[2].pieces

\* capture.py:106-107, 190: the body of an exchange is redacted twice.  The second
\* time takes nothing from it, field names and structure included, but what only
\* the JSON text has: all else the first time has found.
CaptureIntact ==
  stage = "recorded" =>
    LET once == Redact[0][given]
    IN  (\E place \in Places(once) : OnlyAsJson(place)) \/ value = once

\* The keys on the ways to the places of a value.
FieldNames(v) == {place[1] : place \in Places(v)}

\* cli.py:360: "JSON keys and structure are intact": the body that is recorded
\* has the fields that redaction of the structure left.
FieldNamesIntact ==
  stage = "recorded" => FieldNames(value) = FieldNames(Redact[0][given])
=============================================================================
