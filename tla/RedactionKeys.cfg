\* A body with a field name that a text pattern matches.
CONSTANTS
  MaxDepth = 2
  Key = {"api_key", "cookie_names", "price", "digest", "lego"}
  Normalised <- MCNormalised
  Credentials = {"apikey", "cookienames"}
  Allowlist = {"cookienames"}
  ShapedKey = {"digest"}
  EscapedKey = {"lego"}
  ShapedNumber = {32}
  MaxNesting = 4
  JsonBody <- MCJsonBody
  TextBody <- MCTextBody
  Event <- MCEvent
SPECIFICATION RedactionSpec
INVARIANT FieldNamesIntact
\* A value that is logged or recorded goes nowhere else.
CHECK_DEADLOCK FALSE
