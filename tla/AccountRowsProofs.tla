--------------------------- MODULE AccountRowsProofs --------------------------
(***************************************************************************)
(* Proofs about AccountRows, for any accounts, sites, configs, processes.  *)
(*                                                                         *)
(* The argument: only the writer changes its copy of the table, and nobody *)
(* else changes the table meanwhile, so the copy is at every moment the    *)
(* table with the accounts synced that are done (TxnInv).  What the commit *)
(* makes visible is therefore the sync of the table as it is then.         *)
(***************************************************************************)
EXTENDS AccountRows, TLAPS

\* What the writer's transaction has done so far.
TxnOf(p) ==
  /\ pc[p] = "upserting" =>
       /\ todo[p] \subseteq Named(loaded[p])
       /\ \A a \in Account :
            newRows[a] = IF a \in Named(loaded[p]) \ todo[p]
                         THEN Roster!Synced(rows[a], loaded[p][a])
                         ELSE rows[a]
  /\ pc[p] = "disabled" =>
       \A a \in Account : newRows[a] = Roster!Synced(rows[a], loaded[p][a])

TxnInv ==
  \A p \in Proc :
    /\ writer = p <=> pc[p] \in InTransaction
    /\ TxnOf(p)

\* Whoever has started goes by a content that the config file had.
LoadedInv == \A p \in Proc : pc[p] # "start" => loaded[p] \in Configs

IInv == TypeOK /\ TxnInv /\ SwitchesOfOneConfig

-----------------------------------------------------------------------------
\* The statements of accounts.py make rows of rows.
LEMMA RowTypes ==
  /\ \A row \in Roster!Row, entry \in Roster!Entry :
       Roster!Updated(row, entry) \in Roster!Row
  /\ \A entry \in Roster!Entry : Roster!Inserted(entry) \in Roster!Row
  /\ \A row \in Roster!Row :
       /\ Roster!Disabled(row) \in Roster!Row
       /\ Roster!Cleared(row) \in Roster!Row
       /\ \A verified \in BOOLEAN : Roster!Captured(row, verified) \in Roster!Row
BY DEF Roster!Row, Roster!Entry, Roster!Updated, Roster!Inserted,
       Roster!Disabled, Roster!Cleared, Roster!Captured

\* A sync gives an account the site and the switch that the config says.
LEMMA SyncedSwitch ==
  ASSUME NEW row \in Roster!Row \cup {Absent},
         NEW entry \in Roster!Entry \cup {Absent}
  PROVE  LET new == Roster!Synced(row, entry)
         IN  /\ new \in Roster!Row \cup {Absent}
             /\ entry = Absent => (new # Absent => ~new.enabled)
             /\ entry # Absent =>
                  /\ new # Absent
                  /\ new.site = entry.site
                  /\ new.enabled = entry.enabled
             /\ row # Absent =>
                  /\ new # Absent
                  /\ new.status = row.status
                  /\ new.captured = row.captured
<1>1. CASE entry = Absent
  BY <1>1, RowTypes, AbsentAssumption
  DEF Roster!Synced, Roster!Disabled, Roster!Row, Roster!Entry
<1>2. CASE entry # Absent /\ row = Absent
  <2>1. entry \in Roster!Entry /\ Roster!Synced(row, entry) = Roster!Inserted(entry)
    BY <1>2 DEF Roster!Synced
  <2>2. Roster!Inserted(entry) \in Roster!Row
    BY <2>1, RowTypes
  <2>3. /\ Roster!Inserted(entry).site = entry.site
        /\ Roster!Inserted(entry).enabled = entry.enabled
    BY DEF Roster!Inserted
  <2>4. Roster!Inserted(entry) # Absent
    BY <2>2, AbsentAssumption
  <2>5. QED
    BY <1>2, <2>1, <2>2, <2>3, <2>4
<1>3. CASE entry # Absent /\ row # Absent
  BY <1>3, RowTypes, AbsentAssumption
  DEF Roster!Synced, Roster!Updated, Roster!Row, Roster!Entry
<1>4. QED
  BY <1>1, <1>2, <1>3

-----------------------------------------------------------------------------
\* What a command goes by is a config.
LEMMA LoadedTyped ==
  ASSUME TypeOK
  PROVE  loaded \in [Proc -> Roster!Config]
<1>1. NoConfig \in Roster!Config
  BY DEF NoConfig, Roster!Config
<1>2. QED
  BY <1>1, ConfigsAssumption DEF TypeOK

\* A command loads its config once, at its start.
LEMMA NextLoaded == TypeOK /\ LoadedInv /\ [Next]_vars => LoadedInv'
BY DEF TypeOK, LoadedInv, Next, SyncAccounts, vars, EditConfig, Load, Begin, Upsert,
       DisableOthers, Commit, RecordCapture, MarkReauth, Fail, Die, Goto,
       InTransaction, Over

\* The initial states satisfy the invariant: the table is empty.
LEMMA InitIInv == Init => IInv
<1> SUFFICES ASSUME Init PROVE IInv
  OBVIOUS
<1>1. NoConfig \in Roster!Config
  BY DEF NoConfig, Roster!Config
<1>2. TypeOK
  BY <1>1, ConfigsAssumption DEF Init, TypeOK, Roster!Init, Roster!Rows
<1>3. TxnInv
  BY NoProcAssumption DEF Init, TxnInv, TxnOf, InTransaction
<1>4. SwitchesOfOneConfig
  BY DEF Init, SwitchesOfOneConfig, NoConfig, Roster!Init
<1>5. QED
  BY <1>2, <1>3, <1>4 DEF IInv

\* One statement of the sync.
LEMMA UpsertIInv ==
  ASSUME IInv, NEW p \in Proc, Upsert(p)
  PROVE  IInv'
<1> USE DEF IInv
<1>1. PICK a \in todo[p] :
        /\ newRows' =
             [newRows EXCEPT ![a] =
                IF newRows[a] = Absent THEN Roster!Inserted(loaded[p][a])
                ELSE Roster!Updated(newRows[a], loaded[p][a])]
        /\ todo' = [todo EXCEPT ![p] = todo[p] \ {a}]
  BY DEF Upsert
<1>2. /\ pc[p] = "upserting"
      /\ UNCHANGED <<file, pc, loaded, rows, writer, synced>>
  BY DEF Upsert
<1>3. /\ a \in Account
      /\ loaded[p][a] \in Roster!Entry
      /\ newRows[a] = rows[a]
      /\ loaded[p][a] # Absent
  BY <1>2, LoadedTyped DEF TypeOK, TxnInv, TxnOf, Named, Roster!Config
<1>4. /\ newRows \in [Account -> Roster!Row \cup {Absent}]
      /\ rows[a] \in Roster!Row \cup {Absent}
  BY <1>3 DEF TypeOK, Roster!Rows
<1>5. newRows'[a] = Roster!Synced(rows[a], loaded[p][a])
  BY <1>1, <1>3, <1>4 DEF Roster!Synced
<1>6. newRows'[a] \in Roster!Row \cup {Absent}
  BY <1>3, <1>4, <1>5, SyncedSwitch
<1>7. newRows' \in Roster!Rows
  BY <1>1, <1>4, <1>6 DEF Roster!Rows
<1>8. todo' \in [Proc -> SUBSET Account]
  BY <1>1 DEF TypeOK
<1>9. TypeOK'
  BY <1>2, <1>7, <1>8 DEF TypeOK
<1>10. TxnOf(p)'
  <2>1. todo'[p] = todo[p] \ {a}
    BY <1>1 DEF TypeOK
  <2>2. todo[p] \subseteq Named(loaded[p]) /\ a \in Named(loaded[p])
    BY <1>2 DEF TxnInv, TxnOf
  <2>3. ASSUME NEW b \in Account
        PROVE  newRows'[b] = IF b \in Named(loaded[p]) \ todo'[p]
                             THEN Roster!Synced(rows[b], loaded[p][b])
                             ELSE rows[b]
    <3>1. CASE b = a
      BY <3>1, <2>1, <2>2, <1>5
    <3>2. CASE b # a
      BY <3>2, <2>1, <1>1, <1>2, <1>4 DEF TxnInv, TxnOf
    <3>3. QED
      BY <3>1, <3>2
  <2>4. QED
    BY <1>2, <2>1, <2>2, <2>3 DEF TxnOf, Named
<1>11. TxnInv'
  <2>1. ASSUME NEW q \in Proc, q # p PROVE pc[q] \notin InTransaction
    BY <2>1, <1>2 DEF TxnInv, InTransaction
  <2>2. QED
    BY <1>2, <1>10, <2>1 DEF TxnInv, TxnOf, InTransaction
<1>12. SwitchesOfOneConfig'
  BY <1>2 DEF SwitchesOfOneConfig
<1>13. QED
  BY <1>9, <1>11, <1>12

\* The last statement of the sync.
LEMMA DisableIInv ==
  ASSUME IInv, NEW p \in Proc, DisableOthers(p)
  PROVE  IInv'
<1> USE DEF IInv
<1>1. /\ pc[p] = "upserting"
      /\ pc' = [pc EXCEPT ![p] = "disabled"]
      /\ todo[p] = {}
      /\ newRows' =
           [a \in Account |->
              IF newRows[a] = Absent \/ a \in Named(loaded[p]) THEN newRows[a]
              ELSE Roster!Disabled(newRows[a])]
      /\ UNCHANGED <<file, loaded, todo, rows, writer, synced>>
  BY DEF DisableOthers, Goto
<1>2. ASSUME NEW a \in Account
      PROVE  /\ newRows'[a] = Roster!Synced(rows[a], loaded[p][a])
             /\ newRows'[a] \in Roster!Row \cup {Absent}
  <2>1. /\ rows[a] \in Roster!Row \cup {Absent}
        /\ loaded[p][a] \in Roster!Entry \cup {Absent}
    BY LoadedTyped DEF TypeOK, Roster!Rows, Roster!Config
  <2>2. newRows'[a] = Roster!Synced(rows[a], loaded[p][a])
    <3>1. CASE a \in Named(loaded[p])
      BY <3>1, <1>1 DEF TxnInv, TxnOf
    <3>2. CASE a \notin Named(loaded[p])
      BY <3>2, <1>1 DEF TxnInv, TxnOf, Named, Roster!Synced
    <3>3. QED
      BY <3>1, <3>2
  <2>3. QED
    BY <2>1, <2>2, SyncedSwitch
<1>3. TypeOK'
  <2>1. newRows' \in Roster!Rows
    BY <1>1, <1>2 DEF Roster!Rows
  <2>2. QED
    BY <1>1, <2>1 DEF TypeOK, InTransaction
<1>4. TxnInv'
  BY <1>1, <1>2 DEF TypeOK, TxnInv, TxnOf, InTransaction
<1>5. SwitchesOfOneConfig'
  BY <1>1 DEF SwitchesOfOneConfig
<1>6. QED
  BY <1>3, <1>4, <1>5

\* The commit makes the sync of the table visible.
LEMMA CommitSyncs ==
  ASSUME IInv, NEW p \in Proc, Commit(p)
  PROVE  Roster!Sync(loaded[p])
<1>1. newRows = [a \in Account |-> Roster!Synced(rows[a], loaded[p][a])]
  BY DEF IInv, TypeOK, TxnInv, TxnOf, Commit, Goto, Roster!Rows
<1>2. QED
  BY <1>1 DEF Commit, Roster!Sync

LEMMA CommitIInv ==
  ASSUME IInv, NEW p \in Proc, Commit(p)
  PROVE  IInv'
<1> USE DEF IInv
<1>1. TypeOK'
  BY LoadedTyped DEF TypeOK, Commit, Goto, InTransaction, Over
<1>2. TxnInv'
  <2>1. \A q \in Proc \ {p} : pc[q] \notin InTransaction
    BY DEF Commit, Goto, TxnInv, InTransaction
  <2>2. QED
    BY <2>1, NoProcAssumption
    DEF TypeOK, TxnInv, TxnOf, Commit, Goto, InTransaction
<1>3. SwitchesOfOneConfig'
  <2> SUFFICES ASSUME NEW a \in Account
               PROVE  IF synced'[a] = Absent
                      THEN rows'[a] # Absent => ~rows'[a].enabled
                      ELSE /\ rows'[a] # Absent
                           /\ rows'[a].site = synced'[a].site
                           /\ rows'[a].enabled = synced'[a].enabled
    BY DEF SwitchesOfOneConfig
  <2>1. rows'[a] = Roster!Synced(rows[a], loaded[p][a]) /\ synced' = loaded[p]
    BY CommitSyncs DEF Roster!Sync, Commit
  <2>2. /\ rows[a] \in Roster!Row \cup {Absent}
        /\ loaded[p][a] \in Roster!Entry \cup {Absent}
    BY LoadedTyped DEF TypeOK, Roster!Rows, Roster!Config
  <2>3. QED
    BY <2>1, <2>2, SyncedSwitch
<1>4. QED
  BY <1>1, <1>2, <1>3

-----------------------------------------------------------------------------
\* An update of one row, outside the transactions of others, that leaves the
\* site and the switch alone.
LEMMA RowUpdateIInv ==
  ASSUME IInv, NEW p \in Proc, Goto(p, "loaded", "done"), writer = NoProc,
         NEW a \in Account, rows[a] # Absent,
         NEW row \in Roster!Row,
         row.site = rows[a].site, row.enabled = rows[a].enabled,
         rows' = [rows EXCEPT ![a] = row],
         UNCHANGED <<file, loaded, todo, writer, newRows, synced>>
  PROVE  IInv'
<1> USE DEF IInv
<1>1. TypeOK'
  BY DEF TypeOK, Goto, Over, Roster!Rows
<1>2. TxnInv'
  BY NoProcAssumption DEF TypeOK, TxnInv, TxnOf, Goto, InTransaction
<1>3. SwitchesOfOneConfig'
  BY AbsentAssumption DEF TypeOK, SwitchesOfOneConfig, Roster!Rows
<1>4. QED
  BY <1>1, <1>2, <1>3

\* A step that leaves the table and the copy of any other writer alone.
LEMMA QuietIInv ==
  ASSUME IInv, NEW p \in Proc,
         Load(p) \/ Begin(p) \/ Fail(p) \/ Die(p)
  PROVE  IInv'
<1> USE DEF IInv, TypeOK, TxnInv, TxnOf, SwitchesOfOneConfig, InTransaction, Over
<1>1. CASE Load(p)
  BY <1>1, ConfigsAssumption DEF Load, Goto
<1>2. CASE Begin(p)
  <2>1. todo' \in [Proc -> SUBSET Account]
    BY <1>2 DEF Begin, Named
  <2>2. QED
    BY <1>2, <2>1, NoProcAssumption DEF Begin, Goto, Named
<1>3. CASE Fail(p)
  BY <1>3, NoProcAssumption DEF Fail
<1>4. CASE Die(p)
  BY <1>4, NoProcAssumption DEF Die
<1>5. QED
  BY <1>1, <1>2, <1>3, <1>4

\* login and session clear: what they do to a row, or nothing.
LEMMA RecordIInv ==
  ASSUME IInv, NEW p \in Proc, RecordCapture(p) \/ MarkReauth(p)
  PROVE  /\ IInv'
         /\ rows' = rows \/ \E a \in Account :
              Roster!Clear(a) \/ \E verified \in BOOLEAN : Roster!Record(a, verified)
<1>1. PICK a \in Account :
        \/ rows[a] = Absent /\ rows' = rows
        \/ /\ rows[a] # Absent
           /\ \/ rows' = [rows EXCEPT ![a] = Roster!Cleared(rows[a])]
              \/ \E verified \in BOOLEAN :
                   rows' = [rows EXCEPT ![a] = Roster!Captured(rows[a], verified)]
  BY DEF RecordCapture, MarkReauth, Named
<1>2. /\ Goto(p, "loaded", "done") /\ writer = NoProc
      /\ UNCHANGED <<file, loaded, todo, writer, newRows, synced>>
  BY DEF RecordCapture, MarkReauth
<1>3. CASE rows[a] = Absent
  BY <1>1, <1>2, <1>3, NoProcAssumption
  DEF IInv, TypeOK, TxnInv, TxnOf, SwitchesOfOneConfig, Goto, InTransaction, Over
<1>4. CASE rows[a] # Absent
  <2>1. rows[a] \in Roster!Row
    BY <1>4 DEF IInv, TypeOK, Roster!Rows
  <2>2. PICK row \in Roster!Row :
          /\ rows' = [rows EXCEPT ![a] = row]
          /\ row.site = rows[a].site /\ row.enabled = rows[a].enabled
    <3>1. CASE rows' = [rows EXCEPT ![a] = Roster!Cleared(rows[a])]
      <4>1. LET row == Roster!Cleared(rows[a])
            IN  row \in Roster!Row /\ row.site = rows[a].site
                /\ row.enabled = rows[a].enabled
        BY <2>1, RowTypes DEF Roster!Cleared, Roster!Row
      <4>2. QED
        BY <3>1, <4>1
    <3>2. ASSUME NEW verified \in BOOLEAN,
                 rows' = [rows EXCEPT ![a] = Roster!Captured(rows[a], verified)]
          PROVE  \E row \in Roster!Row :
                   /\ rows' = [rows EXCEPT ![a] = row]
                   /\ row.site = rows[a].site /\ row.enabled = rows[a].enabled
      <4>1. LET row == Roster!Captured(rows[a], verified)
            IN  row \in Roster!Row /\ row.site = rows[a].site
                /\ row.enabled = rows[a].enabled
        BY <2>1, RowTypes DEF Roster!Captured, Roster!Row
      <4>2. QED
        BY <3>2, <4>1
    <3>3. QED
      BY <1>1, <1>4, <3>1, <3>2
  <2>3. IInv'
    BY <1>2, <1>4, <2>2, RowUpdateIInv
  <2>4. QED
    BY <1>1, <1>4, <2>3 DEF Roster!Clear, Roster!Record
<1>5. QED
  BY <1>3, <1>4

-----------------------------------------------------------------------------
\* Every step keeps the invariant.
LEMMA NextIInv == IInv /\ [Next]_vars => IInv'
<1> SUFFICES ASSUME IInv, [Next]_vars PROVE IInv'
  OBVIOUS
<1>1. CASE UNCHANGED vars
  BY <1>1
  DEF vars, IInv, TypeOK, TxnInv, TxnOf, SwitchesOfOneConfig, Named
<1>2. CASE EditConfig
  BY <1>2
  DEF EditConfig, IInv, TypeOK, TxnInv, TxnOf, SwitchesOfOneConfig, Named
<1>3. ASSUME NEW p \in Proc, Upsert(p) PROVE IInv'
  BY <1>3, UpsertIInv
<1>4. ASSUME NEW p \in Proc, DisableOthers(p) PROVE IInv'
  BY <1>4, DisableIInv
<1>5. ASSUME NEW p \in Proc, Commit(p) PROVE IInv'
  BY <1>5, CommitIInv
<1>6. ASSUME NEW p \in Proc, RecordCapture(p) \/ MarkReauth(p) PROVE IInv'
  BY <1>6, RecordIInv
<1>7. ASSUME NEW p \in Proc, Load(p) \/ Begin(p) \/ Fail(p) \/ Die(p)
      PROVE  IInv'
  BY <1>7, QuietIInv
<1>8. QED
  BY <1>1, <1>2, <1>3, <1>4, <1>5, <1>6, <1>7 DEF Next, SyncAccounts

\* The invariant holds throughout.
THEOREM Inductive == Spec => [](IInv /\ LoadedInv)
<1>1. Init => LoadedInv
  BY DEF Init, LoadedInv
<1>2. IInv => TypeOK
  BY DEF IInv
<1>3. QED
  BY <1>1, <1>2, InitIInv, NextIInv, NextLoaded, PTL DEF Spec

\* Every variable keeps its type.
THEOREM TypeCorrect == Spec => []TypeOK
<1>1. IInv => TypeOK
  BY DEF IInv
<1>2. QED
  BY <1>1, Inductive, PTL

\* accounts.py:37-61: at every moment the sites and switches in the table are
\* those of one config, the one that was synced last.
THEOREM OneConfig == Spec => []SwitchesOfOneConfig
<1>1. IInv => SwitchesOfOneConfig
  BY DEF IInv
<1>2. QED
  BY <1>1, Inductive, PTL

-----------------------------------------------------------------------------
\* A step that leaves the table alone.
LEMMA TableKept ==
  ASSUME IInv, NEW p \in Proc,
         Load(p) \/ Begin(p) \/ Upsert(p) \/ DisableOthers(p) \/ Fail(p) \/ Die(p)
  PROVE  rows' = rows
BY DEF Load, Begin, Upsert, DisableOthers, Fail, Die

\* accounts.py:3-6: no step forgets an account, and a sync leaves the health
\* of its session alone.
THEOREM HistoryKept == Spec => HistorySurvives
<1>1. IInv /\ [Next]_vars => [Survives]_vars
  <2> SUFFICES ASSUME IInv, Next, NEW a \in Account, rows[a] # Absent
               PROVE  /\ rows'[a] # Absent
                      /\ writer' # writer =>
                           /\ rows'[a].status = rows[a].status
                           /\ rows'[a].captured = rows[a].captured
    BY DEF Survives
  <2>1. CASE rows' = rows
    BY <2>1
  <2>2. ASSUME NEW p \in Proc, Commit(p)
        PROVE  /\ rows'[a] # Absent
               /\ rows'[a].status = rows[a].status
               /\ rows'[a].captured = rows[a].captured
    <3>1. rows'[a] = Roster!Synced(rows[a], loaded[p][a])
      BY <2>2, CommitSyncs DEF Roster!Sync
    <3>2. /\ rows[a] \in Roster!Row \cup {Absent}
          /\ loaded[p][a] \in Roster!Entry \cup {Absent}
      BY LoadedTyped DEF IInv, TypeOK, Roster!Rows, Roster!Config
    <3>3. QED
      BY <3>1, <3>2, SyncedSwitch
  <2>3. ASSUME NEW p \in Proc, RecordCapture(p) \/ MarkReauth(p)
        PROVE  rows'[a] # Absent /\ writer' = writer
    <3>1. writer' = writer
      BY <2>3 DEF RecordCapture, MarkReauth
    <3>2. rows' \in Roster!Rows /\ rows \in Roster!Rows
      BY <2>3, RecordIInv DEF IInv, TypeOK
    <3>3. ASSUME NEW b \in Account, NEW verified \in BOOLEAN,
                 Roster!Clear(b) \/ Roster!Record(b, verified)
          PROVE  rows'[a] # Absent
      <4>1. rows[b] \in Roster!Row /\ Roster!Cleared(rows[b]) \in Roster!Row
            /\ Roster!Captured(rows[b], verified) \in Roster!Row
        BY <3>2, <3>3, RowTypes DEF Roster!Rows, Roster!Clear, Roster!Record
      <4>2. QED
        BY <3>2, <3>3, <4>1, AbsentAssumption
        DEF Roster!Rows, Roster!Clear, Roster!Record
    <3>4. QED
      BY <2>3, <3>1, <3>3, RecordIInv
  <2>4. QED
    BY <2>1, <2>2, <2>3, TableKept DEF Next, SyncAccounts, EditConfig
<1>2. QED
  BY <1>1, Inductive, PTL DEF Spec, HistorySurvives

\* accounts.py:37-61: a sync of many statements is one step of the roster.
THEOREM Refinement == Spec => RefinesRoster
<1>1. Init => Roster!Init
  BY DEF Init
<1>2. IInv /\ LoadedInv /\ [Next]_vars => [Roster!Next]_rows
  <2> SUFFICES ASSUME IInv, LoadedInv, [Next]_vars PROVE Roster!Next \/ rows' = rows
    OBVIOUS
  <2>1. CASE UNCHANGED vars
    BY <2>1 DEF vars
  <2>2. ASSUME NEW p \in Proc, Commit(p) PROVE Roster!Next
    BY <2>2, CommitSyncs DEF Roster!Next, Commit, Goto, LoadedInv
  <2>3. ASSUME NEW p \in Proc, RecordCapture(p) \/ MarkReauth(p)
        PROVE  Roster!Next \/ rows' = rows
    BY <2>3, RecordIInv DEF Roster!Next
  <2>4. QED
    BY <2>1, <2>2, <2>3, TableKept DEF Next, SyncAccounts, EditConfig
<1>3. QED
  BY <1>1, <1>2, Inductive, PTL DEF Spec, RefinesRoster, Roster!Spec
=============================================================================
