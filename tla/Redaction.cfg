\* Values nested one deeper than the limit.
CONSTANTS
  MaxDepth = 2
  Key = {"api_key", "cookie_names", "price", "digest", "lego"}
  Normalised <- MCNormalised
  Credentials = {"apikey", "cookienames"}
  Allowlist = {"cookienames"}
  ShapedKey = {"digest"}
  EscapedKey = {"lego"}
  ShapedNumber = {32}
  MaxNesting = 4
  JsonBody <- MCJsonBody
  TextBody <- MCTextBody
  Event <- MCEvent
SPECIFICATION RedactionSpec
INVARIANTS
  StructureKept
  NothingShapedLeft
  CaptureIntact
\* A value that is logged or recorded goes nowhere else.
CHECK_DEADLOCK FALSE
