----------------------------- MODULE MCRedaction -----------------------------
(* Instances of Redaction for TLC.                                         *)
EXTENDS Redaction

\* A credential in a spelling that has to be normalised, an allowlisted fact
\* about one, a plain key, a plain key that looks like a hex digest, and one with
\* a sign that json.dumps escapes.
MCNormalised ==
  [key \in {"api_key", "cookie_names", "price", "digest", "lego"} |->
     CASE key = "api_key"      -> "apikey"
       [] key = "cookie_names" -> "cookienames"
       [] OTHER                -> key]

Plain     == Text({"word"})
BodyLeaf  == {Scalar(7), Scalar(32), Plain, Text({"word", "glyph"}),
              Text({"token", "pair"})}
EventLeaf == BodyLeaf \cup
  {Bytes(3), Object({"word", "token"}), Unordered({Plain, Text({"token"})})}

\* Containers of a value, alone or beside a leaf.
InContainer(S) ==
  {List(<<v>>) : v \in S} \cup {List(<<Plain, v>>) : v \in S}
    \cup {Map(<< <<key, v>> >>) : key \in Key, v \in S}
    \cup {Map(<< <<"price", Plain>>, <<key, v>> >>) :
             key \in Key \ {"price"}, v \in S}

\* Values with up to three containers around a leaf: one more than MaxDepth.
UpToThree(S) ==
  LET one == S \cup InContainer(S)
      two == S \cup InContainer(one)
  IN  S \cup {List(<<v>>) : v \in two}
        \cup {Map(<< <<key, v>> >>) : key \in Key, v \in two}

MCJsonBody == UpToThree(BodyLeaf)
MCEvent    == UpToThree(EventLeaf)
MCTextBody ==
  {Plain, Text({"word", "pair"}), Text({"glyph", "token", "email"})}
=============================================================================
