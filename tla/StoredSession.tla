---------------------------- MODULE StoredSession ----------------------------
(***************************************************************************)
(* What can be told of an exported session without using it (StoredSession *)
(* of session/store.py).  Definitions only; Reports has the command that   *)
(* prints them.                                                            *)
(*                                                                         *)
(* Times are counted in ticks, so that one may lie within a second.  Names *)
(* are numbers, in their alphabetical order.                               *)
(***************************************************************************)
EXTENDS Integers, Sequences, FiniteSets

CONSTANTS
  TicksPerSecond,
  NoExpiry  \* there is no date

\* Of a cookie that dies with the browser.
SESSION_COOKIE_EXPIRY == -1

Cookie == [name : Nat, expires : {SESSION_COOKIE_EXPIRY} \cup Nat]
Origin == [origin : Nat, localStorage : Seq(Nat)]
StorageState == [cookies : Seq(Cookie), origins : Seq(Origin)]

-----------------------------------------------------------------------------
(* Of cookies that a method picks out, the places in the list.             *)

\* sorted(), of a family of names: at place k is the one with fewer than k names
\* before it and, with its equals, at least k.
Sorted(names) ==
  [k \in 1..Cardinality(DOMAIN names) |->
     CHOOSE m \in {names[i] : i \in DOMAIN names} :
       /\ Cardinality({i \in DOMAIN names : names[i] < m}) < k
       /\ Cardinality({i \in DOMAIN names : names[i] <= m}) >= k]

cookie_names(state) == Sorted([i \in DOMAIN state.cookies |-> state.cookies[i].name])

origin_urls(state) ==
  Sorted([i \in DOMAIN state.origins |-> state.origins[i].origin])

\* The keys of the first n origins.
KeysOf(origins) ==
  LET keys[n \in 0..Len(origins)] ==
        IF n = 0 THEN <<>> ELSE keys[n - 1] \o origins[n].localStorage
  IN  keys

\* Bug: the keys of an origin take the place of those before.
local_storage_keys_last(state) ==
  IF state.origins = <<>> THEN <<>>
  ELSE Sorted(state.origins[Len(state.origins)].localStorage)

local_storage_keys(state) ==
  Sorted(KeysOf(state.origins)[Len(state.origins)])

persistent_cookies(state) ==
  {i \in DOMAIN state.cookies : state.cookies[i].expires > 0}

earliest_expiry(state) ==
  LET expiries == {state.cookies[i].expires : i \in persistent_cookies(state)}
  IN  IF expiries = {} THEN NoExpiry
      ELSE CHOOSE d \in expiries : \A e \in expiries : d <= e

\* Those that have expired, the ones that do so just now among them.
ExpiredCookies(state, now) ==
  {i \in persistent_cookies(state) : state.cookies[i].expires <= now}

expired_cookie_names(state, now) ==
  Sorted([i \in ExpiredCookies(state, now) |-> state.cookies[i].name])

\* Bug: the names are compared, and cookies of two domains may share one.
is_stale_by_names(state, now) ==
  /\ persistent_cookies(state) # {}
  /\ {state.cookies[i].name : i \in ExpiredCookies(state, now)}
       = {state.cookies[i].name : i \in persistent_cookies(state)}

is_probably_stale(state, now) ==
  /\ persistent_cookies(state) # {}
  /\ Len(expired_cookie_names(state, now))
       = Cardinality(persistent_cookies(state))

\* A date is printed in whole seconds, rounded down.
summary(state) ==
  [cookie_count       |-> Len(state.cookies),
   cookie_names       |-> cookie_names(state),
   origins            |-> origin_urls(state),
   local_storage_keys |-> local_storage_keys(state),
   session_expires_at |->
     IF earliest_expiry(state) = NoExpiry THEN NoExpiry
     ELSE earliest_expiry(state) \div TicksPerSecond]
=============================================================================
