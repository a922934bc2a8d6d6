---------------------------- MODULE CaptureSummary ---------------------------
(***************************************************************************)
(* The table of endpoints that is made of the recorded exchanges (summary  *)
(* of CaptureRecorder, capture.py), for the operator to find the call that *)
(* an adapter needs.  Definitions only; Reports has the command that       *)
(* prints it.                                                              *)
(***************************************************************************)
EXTENDS Naturals, Sequences, FiniteSets

CONSTANTS
  ShapedSegment,  \* what a pattern of redact_text matches between the slashes of a path
  ShapedHost      \* the hosts and paths of which a match takes a part of the host too:
                  \* an address user@host, or a last label that is 40 letters and slashes
                  \* together with the path

REDACTED == "[REDACTED]"

\* What the summary reads of an exchange.
Exchange ==
  [method : STRING, host : STRING, path : Seq(STRING), query : STRING, status : Nat,
   format : {"json", "text", "none"}, length : Nat]

\* The url is redacted before it is recorded; the summary reads what is recorded.  A
\* host with brackets is refused as an address, with a ValueError.
Parses(e) == <<e.host, e.path>> \notin ShapedHost

Kept(e) == \A i \in DOMAIN e.path : e.path[i] \notin ShapedSegment

RedactedPath(e) ==
  [i \in DOMAIN e.path |-> IF e.path[i] \in ShapedSegment THEN REDACTED ELSE e.path[i]]

\* The query of the url is no part of an endpoint.
Endpoint(e) == <<e.method, e.host, RedactedPath(e)>>

-----------------------------------------------------------------------------
NewStats(e) ==
  [endpoint |-> Endpoint(e), calls |-> 0, statuses |-> {}, json |-> FALSE,
   max_body_bytes |-> 0]

\* Bug: the last body decides.
CountLast(stats, e) ==
  [stats EXCEPT !.calls = @ + 1,
                !.statuses = @ \cup {e.status},
                !.json = e.format = "json",
                !.max_body_bytes = IF e.length > @ THEN e.length ELSE @]

Count(stats, e) ==
  [stats EXCEPT !.calls = @ + 1,
                !.statuses = @ \cup {e.status},
                !.json = @ \/ e.format = "json",
                !.max_body_bytes = IF e.length > @ THEN e.length ELSE @]

\* setdefault: the rows are in the order in which the endpoints came.
Add(rows, e) ==
  LET known == {i \in DOMAIN rows : rows[i].endpoint = Endpoint(e)}
  IN  IF known = {} THEN Append(rows, Count(NewStats(e), e))
      ELSE [i \in DOMAIN rows |-> IF i \in known THEN Count(rows[i], e) ELSE rows[i]]

\* The rows that the first n exchanges make.
Grouping(exchanges) ==
  LET rows[n \in 0..Len(exchanges)] ==
        IF n = 0 THEN <<>> ELSE Add(rows[n - 1], exchanges[n])
  IN  rows

grouped(exchanges) == Grouping(exchanges)[Len(exchanges)]

-----------------------------------------------------------------------------
\* Bug: the biggest rows come first, whatever they are.
BeforeBySize(r, s) == r.max_body_bytes > s.max_body_bytes

\* The sort key: JSON, then size.
Before(r, s) ==
  \/ r.json /\ ~s.json
  \/ r.json = s.json /\ r.max_body_bytes > s.max_body_bytes

\* rows.sort is stable.
Rank(rows, i) ==
  1 + Cardinality({j \in DOMAIN rows :
                     \/ Before(rows[j], rows[i])
                     \/ j < i /\ ~Before(rows[i], rows[j])})

ranked(exchanges) ==
  LET rows == grouped(exchanges)
  IN  [k \in DOMAIN rows |-> rows[CHOOSE i \in DOMAIN rows : Rank(rows, i) = k]]

\* One url that does not parse, and there are no rows at all: the error is not caught.
Fails(exchanges) == \E i \in DOMAIN exchanges : ~Parses(exchanges[i])

summary(exchanges) == IF Fails(exchanges) THEN <<>> ELSE ranked(exchanges)
=============================================================================
