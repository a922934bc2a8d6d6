--------------------------- MODULE CaptureRecorder ---------------------------
(***************************************************************************)
(* One run of `discover` (commands/discover.py) with its recorder          *)
(* (capture.py): what becomes of the responses that the browser receives.  *)
(*                                                                         *)
(* Everything runs on one thread.  Playwright delivers a response event,   *)
(* and goes on with a handler whose answer has come, only while            *)
(* run_discover is itself inside a Playwright call: loading the first      *)
(* page, settling, closing the context.  While it waits for the operator's *)
(* answer no handler moves.  A handler gives way to others at each of its  *)
(* own calls, so the number of exchanges it checked may not be the one it  *)
(* adds to.                                                                *)
(***************************************************************************)
EXTENDS Naturals, FiniteSets

CONSTANTS
  Response,     \* bound: the responses the browser receives
  MaxExchanges  \* the cap of the recorder

ASSUME ResponseAssumption == IsFiniteSet(Response)
ASSUME CapAssumption == MaxExchanges \in Nat \ {0}

VARIABLES
  main,      \* the step of run_discover
  kept,      \* kept[r]: r's resource type is one of RECORDED_RESOURCE_TYPES
  hasBody,   \* hasBody[r]: r has a body (a redirect or a 204 has none)
  pc,        \* pc[r]: what has become of r
  body,      \* body[r]: what r's handler knows of the body
  capture,   \* the responses in the capture file
  peak,      \* history: the most handlers that were under way at once
  prompted,  \* history: the responses received before the operator answered
  cutOff     \* history: the context was closed before everything was handled,
             \* or a call of a handler failed

vars == <<main, kept, hasBody, pc, body, capture, peak, prompted, cutOff>>

-----------------------------------------------------------------------------
Main    == {"loading", "prompt", "settling", "closing", "aborting", "left",
            "written", "empty", "failed", "dead"}
Calling == {"loading", "settling", "closing", "aborting"}
Working == {"typing", "reading", "describing"}
Skipped == {"capped", "raised"}

\* The responses whose handlers have passed the check of the cap and not ended.
UnderWay == {r \in Response : pc[r] \in Working}
Recorded == {r \in Response : pc[r] = "recorded"}

TypeOK ==
  /\ main \in Main
  /\ kept \in [Response -> BOOLEAN]
  /\ hasBody \in [Response -> BOOLEAN]
  /\ pc \in [Response -> {"ahead", "queued", "ignored", "recorded"}
                         \cup Working \cup Skipped]
  /\ body \in [Response -> {"unread", "none", "whole", "lost"}]
  /\ capture \subseteq Response
  /\ peak \in Nat
  /\ prompted \subseteq Response
  /\ cutOff \in BOOLEAN

Init ==
  /\ main = "loading"
  /\ kept \in [Response -> BOOLEAN]
  /\ hasBody \in [Response -> BOOLEAN]
  /\ pc = [r \in Response |-> "ahead"]
  /\ body = [r \in Response |-> "unread"]
  /\ capture = {}
  /\ peak = 0
  /\ prompted = {}
  /\ cutOff = FALSE

Goto(r, from, to) ==
  /\ pc[r] = from
  /\ pc' = [pc EXCEPT ![r] = to]

-----------------------------------------------------------------------------
(* The browser.                                                            *)
Receive(r) ==
  /\ main \in {"loading", "prompt", "settling"}
  /\ Goto(r, "ahead", "queued")
  /\ prompted' = IF main = "settling" THEN prompted ELSE prompted \cup {r}
  /\ UNCHANGED <<main, kept, hasBody, body, capture, peak, cutOff>>

-----------------------------------------------------------------------------
(* _record, one step for each stretch between two calls to the browser.    *)
Ignore(r) ==
  /\ main \in Calling
  /\ Goto(r, "queued", "ignored")
  /\ ~kept[r]
  /\ UNCHANGED <<main, kept, hasBody, body, capture, peak, prompted, cutOff>>

Drop(r) ==
  /\ main \in Calling
  /\ Goto(r, "queued", "capped")
  /\ kept[r]
  /\ Cardinality(Recorded) >= MaxExchanges
  /\ UNCHANGED <<main, kept, hasBody, body, capture, peak, prompted, cutOff>>

\* Bug: the cap is compared with > for >=.
TakeUpOneMore(r) ==
  /\ main \in Calling
  /\ Goto(r, "queued", "typing")
  /\ kept[r]
  /\ Cardinality(Recorded) <= MaxExchanges
  /\ peak' = IF Cardinality(UnderWay) >= peak THEN Cardinality(UnderWay) + 1
             ELSE peak
  /\ UNCHANGED <<main, kept, hasBody, body, capture, prompted, cutOff>>

\* There is room now; the handler asks for the content type.
TakeUp(r) ==
  /\ main \in Calling
  /\ Goto(r, "queued", "typing")
  /\ kept[r]
  /\ Cardinality(Recorded) < MaxExchanges
  /\ peak' = IF Cardinality(UnderWay) >= peak THEN Cardinality(UnderWay) + 1
             ELSE peak
  /\ UNCHANGED <<main, kept, hasBody, body, capture, prompted, cutOff>>

GetType(r) ==
  /\ main \in Calling
  /\ Goto(r, "typing", "reading")
  /\ UNCHANGED <<main, kept, hasBody, body, capture, peak, prompted, cutOff>>

\* The content type cannot be had, because the page is gone or the context is
\* closing, or a body or the posted data cannot be turned into text: the
\* exception reaches _on_response.
Raise(r) ==
  /\ main \in Calling
  /\ pc[r] \in {"typing", "describing"}
  /\ pc' = [pc EXCEPT ![r] = "raised"]
  /\ cutOff' = TRUE
  /\ UNCHANGED <<main, kept, hasBody, body, capture, peak, prompted>>

\* Bug: the bytes go into the exchange as they are.
GetRawBody(r) ==
  /\ main \in Calling
  /\ Goto(r, "reading", "describing")
  /\ body' = [body EXCEPT ![r] = IF hasBody[r] THEN "raw" ELSE "none"]
  /\ UNCHANGED <<main, kept, hasBody, capture, peak, prompted, cutOff>>

GetBody(r) ==
  /\ main \in Calling
  /\ Goto(r, "reading", "describing")
  /\ body' = [body EXCEPT ![r] = IF hasBody[r] THEN "whole" ELSE "none"]
  /\ UNCHANGED <<main, kept, hasBody, capture, peak, prompted, cutOff>>

\* body() raises although there is one, because the page is gone or the context
\* is closing, and _read_body takes it for a response that has none.
LoseBody(r) ==
  /\ main \in Calling
  /\ Goto(r, "reading", "describing")
  /\ hasBody[r]
  /\ body' = [body EXCEPT ![r] = "lost"]
  /\ cutOff' = TRUE
  /\ UNCHANGED <<main, kept, hasBody, capture, peak, prompted>>

\* Bug: an exchange without headers is left out.
AppendWithHeaders(r) ==
  /\ main \in Calling
  /\ \E end \in {"recorded", "raised"} : Goto(r, "describing", end)
  /\ UNCHANGED <<main, kept, hasBody, body, capture, peak, prompted, cutOff>>

\* Both sets of headers come or do not; the exchange is redacted and added.
AddExchange(r) ==
  /\ main \in Calling
  /\ Goto(r, "describing", "recorded")
  /\ UNCHANGED <<main, kept, hasBody, body, capture, peak, prompted, cutOff>>

-----------------------------------------------------------------------------
(* run_discover.                                                           *)
Step(from, to) ==
  /\ main = from
  /\ main' = to

Prompt ==
  /\ Step("loading", "prompt")
  /\ UNCHANGED <<kept, hasBody, pc, body, capture, peak, prompted, cutOff>>

Confirm ==
  /\ Step("prompt", "settling")
  /\ UNCHANGED <<kept, hasBody, pc, body, capture, peak, prompted, cutOff>>

\* The pages are idle, or five seconds have passed for each that is not.
\* Neither says how far the handlers are.
Close ==
  /\ Step("settling", "closing")
  /\ cutOff' = (cutOff \/ \E r \in Response : pc[r] \in {"queued"} \cup Working)
  /\ UNCHANGED <<kept, hasBody, pc, body, capture, peak, prompted>>

\* The page cannot be loaded, or the operator says no.
Abort ==
  /\ main \in {"loading", "prompt"}
  /\ main' = "aborting"
  /\ UNCHANGED <<kept, hasBody, pc, body, capture, peak, prompted, cutOff>>

\* Playwright has stopped: a handler that has not ended never does.
Leave ==
  /\ \/ Step("closing", "left")
     \/ Step("aborting", "failed")
  /\ UNCHANGED <<kept, hasBody, pc, body, capture, peak, prompted, cutOff>>

WriteCapture ==
  /\ Step("left", "written")
  /\ Recorded # {}
  /\ capture' = Recorded
  /\ UNCHANGED <<kept, hasBody, pc, body, peak, prompted, cutOff>>

\* Nothing was recorded, or the file cannot be written.
NoCapture ==
  /\ main = "left"
  /\ main' = IF Recorded = {} THEN "empty" ELSE "failed"
  /\ UNCHANGED <<kept, hasBody, pc, body, capture, peak, prompted, cutOff>>

Die ==
  /\ main \in Calling \cup {"prompt", "left"}
  /\ main' = "dead"
  /\ UNCHANGED <<kept, hasBody, pc, body, capture, peak, prompted, cutOff>>

-----------------------------------------------------------------------------
Handle(r) ==
  \/ Ignore(r) \/ Drop(r) \/ TakeUp(r) \/ GetType(r) \/ Raise(r)
  \/ GetBody(r) \/ LoseBody(r) \/ AddExchange(r)

Discover ==
  \/ Prompt \/ Confirm \/ Close \/ Abort \/ Leave
  \/ WriteCapture \/ NoCapture \/ Die

Next == Discover \/ \E r \in Response : Receive(r) \/ Handle(r)

Spec == Init /\ [][Next]_vars

-----------------------------------------------------------------------------
(* Properties.                                                             *)

\* The cap is checked before the calls and the exchange is added after them, so
\* handlers that run side by side can pass it, by one less than there were of
\* them and never by more.
CapPassedByOverlapOnly ==
  Cardinality(Recorded) + Cardinality(UnderWay) < MaxExchanges + peak

\* If the settling lasted until every handler had ended and no call failed, the
\* capture has all there was to record, whole, or is full.
CompleteUnlessCutOff ==
  main = "written" /\ ~cutOff =>
    \/ Cardinality(capture) >= MaxExchanges
    \/ \A r \in prompted :
         kept[r] => r \in capture /\ (hasBody[r] => body[r] = "whole")
=============================================================================
