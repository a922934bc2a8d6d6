---------------------------- MODULE AccountRoster ----------------------------
(***************************************************************************)
(* What the accounts table promises (accounts.py), without transactions:   *)
(* the config decides at once which accounts exist, where and whether they *)
(* are enabled; a login and a clear decide about their health; no account  *)
(* is ever forgotten.  AccountRows implements this specification.          *)
(***************************************************************************)
CONSTANTS
  Account,  \* account names
  Site,     \* sites
  Absent,   \* an account that a config or the table does not have
  Configs   \* the contents that the config file takes

VARIABLES
  rows      \* rows[a]: the row of account a, or Absent

\* What a config says of an account, and what the table knows of it.
Entry == [site : Site, enabled : BOOLEAN]
Row   == [site : Site, enabled : BOOLEAN,
          status : {"unknown", "ok", "needs_reauth"}, captured : BOOLEAN]

Config == [Account -> Entry \cup {Absent}]
Rows   == [Account -> Row \cup {Absent}]

Inserted(entry) ==
  [site |-> entry.site, enabled |-> entry.enabled,
   status |-> "unknown", captured |-> FALSE]

Updated(row, entry) ==
  [row EXCEPT !.site = entry.site, !.enabled = entry.enabled]

Disabled(row) == [row EXCEPT !.enabled = FALSE]

\* The row that a sync makes of a row.
Synced(row, entry) ==
  IF entry # Absent
  THEN IF row = Absent THEN Inserted(entry) ELSE Updated(row, entry)
  ELSE IF row = Absent THEN Absent ELSE Disabled(row)

Captured(row, verified) ==
  [row EXCEPT !.captured = TRUE, !.status = IF verified THEN "ok" ELSE @]

Cleared(row) == [row EXCEPT !.captured = FALSE, !.status = "needs_reauth"]

-----------------------------------------------------------------------------
Init == rows = [a \in Account |-> Absent]

Sync(config) == rows' = [a \in Account |-> Synced(rows[a], config[a])]

Record(a, verified) ==
  /\ rows[a] # Absent
  /\ rows' = [rows EXCEPT ![a] = Captured(rows[a], verified)]

Clear(a) ==
  /\ rows[a] # Absent
  /\ rows' = [rows EXCEPT ![a] = Cleared(rows[a])]

Next ==
  \/ \E config \in Configs : Sync(config)
  \/ \E a \in Account : Clear(a) \/ \E verified \in BOOLEAN : Record(a, verified)

Spec == Init /\ [][Next]_rows
=============================================================================
