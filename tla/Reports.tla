------------------------------- MODULE Reports -------------------------------
(***************************************************************************)
(* What two commands tell the operator (cli.py): `session status` of a     *)
(* stored session that grows old, and `discover` of the exchanges that it  *)
(* has recorded.                                                           *)
(***************************************************************************)
EXTENDS Integers, Sequences, FiniteSets

CONSTANTS
  TicksPerSecond,
  None,          \* no stored session, no date
  States,        \* bound: the storage states that a login finds
  ShapedSegment, \* what a pattern matches in a path (CaptureSummary)
  ShapedHost,    \* the hosts and paths that are redacted into the host
  Exchanges,     \* bound: the exchanges that are recorded
  MaxTime,       \* bound: the clock stops here
  MaxCalls,      \* bound: the exchanges of one discover
  Shown          \* the rows of the table that are printed

VARIABLES
  now,        \* the clock
  stored,     \* the storage state of the stored session, or None
  exchanges   \* the recorded exchanges

reportsVars == <<now, stored, exchanges>>

Session == INSTANCE StoredSession WITH NoExpiry <- None
Summary == INSTANCE CaptureSummary

ASSUME ReportsAssumption ==
  /\ TicksPerSecond \in Nat \ {0}
  /\ None \notin Nat
  /\ States \subseteq Session!StorageState
  /\ ShapedSegment \subseteq STRING \ {Summary!REDACTED}
  /\ ShapedHost \subseteq STRING \X Seq(STRING)
  /\ Exchanges \subseteq Summary!Exchange
  /\ \A e \in Exchanges : \A i \in DOMAIN e.path : e.path[i] # Summary!REDACTED
  /\ MaxTime \in Nat /\ MaxCalls \in Nat /\ Shown \in Nat \ {0}

-----------------------------------------------------------------------------
ReportsInit ==
  /\ now = 0
  /\ stored = None
  /\ exchanges = <<>>

Tick ==
  /\ now < MaxTime
  /\ now' = now + 1
  /\ UNCHANGED <<stored, exchanges>>

Login(state) == stored' = state /\ UNCHANGED <<now, exchanges>>

Clear == stored' = None /\ UNCHANGED <<now, exchanges>>

Record(e) ==
  /\ Len(exchanges) < MaxCalls
  /\ exchanges' = Append(exchanges, e)
  /\ UNCHANGED <<now, stored>>

\* Another discover, with a recorder of its own.
StartOver == exchanges' = <<>> /\ UNCHANGED <<now, stored>>

ReportsNext ==
  \/ Tick
  \/ \E state \in States : Login(state)
  \/ Clear
  \/ \E e \in Exchanges : Record(e)
  \/ StartOver

ReportsSpec == ReportsInit /\ [][ReportsNext]_reportsVars

-----------------------------------------------------------------------------
(* What is printed.                                                        *)
Status == Session!summary(stored)

\* "Every persistent cookie has passed its expiry."
Hint == stored # None /\ Session!is_probably_stale(stored, now)

\* The rows of discover; none when the summary has failed, after the capture is written
\* and before a word is printed.
Failed == Summary!Fails(exchanges)

Table ==
  LET rows == Summary!summary(exchanges)
  IN  SubSeq(rows, 1, IF Len(rows) < Shown THEN Len(rows) ELSE Shown)

-----------------------------------------------------------------------------
(* Properties.                                                             *)

\* The hint and the date above it never contradict each other, however the two
\* are rounded: with the hint the date has come and no cookie is alive, before the
\* date there is no expired cookie, and without dates, which is not evidence of
\* anything, there is neither.
HintAgreesWithDate ==
  stored # None =>
    LET date   == Status.session_expires_at
        second == now \div TicksPerSecond
        cookie == stored.cookies
    IN  /\ Hint => /\ date # None /\ date <= second
                   /\ \A i \in DOMAIN cookie : cookie[i].expires <= now
        /\ date # None /\ second < date =>
             Session!expired_cookie_names(stored, now) = <<>>
        /\ date = None <=> \A i \in DOMAIN cookie : cookie[i].expires <= 0
        /\ ~Hint /\ date # None =>
             \E i \in DOMAIN cookie : cookie[i].expires > now

CountOf(list, value) == Cardinality({i \in DOMAIN list : list[i] = value})

\* Every key of the local storage of every origin is listed, as often as it is
\* there, and so is every cookie, also when two domains use one name; the count of
\* the cookies, which is printed beside their names, is the number of the names.
NothingLeftOut ==
  stored # None =>
    LET cookies == stored.cookies
        keys    == [at \in UNION {{i} \X DOMAIN stored.origins[i].localStorage :
                                   i \in DOMAIN stored.origins}
                      |-> stored.origins[at[1]].localStorage[at[2]]]
    IN  /\ Status.cookie_count = Len(Status.cookie_names)
        /\ \A i \in DOMAIN cookies :
             CountOf(Status.cookie_names, cookies[i].name)
               = Cardinality({j \in DOMAIN cookies : cookies[j].name = cookies[i].name})
        /\ \A at \in DOMAIN keys :
             CountOf(Status.local_storage_keys, keys[at]) = CountOf(keys, keys[at])

\* The calls of an endpoint, wherever they are among the others.
CallsOf(endpoint) ==
  {i \in DOMAIN exchanges : Summary!Endpoint(exchanges[i]) = endpoint}

Largest(endpoint) ==
  CHOOSE n \in {exchanges[i].length : i \in CallsOf(endpoint)} :
    \A i \in CallsOf(endpoint) : exchanges[i].length <= n

\* When there is a table, each endpoint, as it is after redaction, has one row, which
\* tells of all of its calls: one JSON answer among others, or a large one among small
\* ones, is not lost.  Where redaction has left the path alone the row mixes in no
\* other endpoint's calls: they have all been for that path.
RowsTellOfAllCalls ==
  ~Failed =>
    LET rows == Summary!summary(exchanges)
    IN  /\ \A i \in DOMAIN exchanges :
             \E k \in DOMAIN rows : rows[k].endpoint = Summary!Endpoint(exchanges[i])
        /\ \A j, k \in DOMAIN rows : rows[j].endpoint = rows[k].endpoint => j = k
        /\ \A k \in DOMAIN rows :
             LET calls == CallsOf(rows[k].endpoint)
             IN  /\ calls # {} /\ rows[k].calls = Cardinality(calls)
                 /\ rows[k].statuses = {exchanges[i].status : i \in calls}
                 /\ rows[k].json <=> \E i \in calls : exchanges[i].format = "json"
                 /\ rows[k].max_body_bytes = Largest(rows[k].endpoint)
        /\ \A i, j \in DOMAIN exchanges :
             /\ Summary!Kept(exchanges[i])
             /\ Summary!Endpoint(exchanges[j]) = Summary!Endpoint(exchanges[i])
             => exchanges[j].path = exchanges[i].path

\* capture.py:135, "the saved-items call is near the top": when there is a table, an
\* endpoint that answered with JSON is cut off only by as many JSON endpoints as are
\* printed, each with a recorded body at least as large.
LikeliestShown ==
  ~Failed =>
    \A i \in DOMAIN exchanges :
      LET endpoint == Summary!Endpoint(exchanges[i])
      IN  exchanges[i].format = "json" =>
            \/ \E k \in DOMAIN Table : Table[k].endpoint = endpoint
            \/ /\ Len(Table) = Shown
               /\ \A k \in DOMAIN Table :
                    Table[k].json /\ Table[k].max_body_bytes >= Largest(endpoint)
=============================================================================
