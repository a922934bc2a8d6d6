-------------------------- MODULE MigrationsProofs ---------------------------
(***************************************************************************)
(* Proofs about Migrations, for any processes, builds and scripts.         *)
(*                                                                         *)
(* A runner's plan is stale from the moment it is made.  It stays usable   *)
(* because the versions a runner does not plan to apply stay recorded with *)
(* its own scripts (PlanInv), so when its next version is free, the record *)
(* is exactly what that version goes on top of; and a version that is free *)
(* when the write transaction begins is free when it commits (TxnInv).     *)
(***************************************************************************)
EXTENDS Migrations, TLAPS

PlanInv ==
  \A p \in Proc :
    pc[p] \in {"applying"} \cup Inside =>
      /\ pending[p] \subseteq Shipped(p)
      /\ \A v \in Shipped(p) \ pending[p] : log[v] = build[p][v]
      /\ \A v \in pending[p], w \in Shipped(p) : v <= w => w \in pending[p]

\* What the write transaction has done so far, and on what.
TxnOf(p) ==
  /\ pc[p] = "begun" => newLog = log /\ newRan = ran
  /\ pc[p] = "altered" =>
       /\ newLog = log
       /\ \E v \in Version :
            /\ IsNextPending(p, v)
            /\ newRan = [ran EXCEPT ![v] = ran[v] + 1]
  /\ pc[p] = "recorded" =>
       \E v \in Version :
         /\ IsNextPending(p, v)
         /\ log[v] = NoText
         /\ newRan = [ran EXCEPT ![v] = ran[v] + 1]
         /\ newLog = [log EXCEPT ![v] = build[p][v]]

TxnInv ==
  \A p \in Proc :
    /\ writer = p <=> pc[p] \in Inside
    /\ TxnOf(p)

IInv ==
  /\ TypeOK
  /\ PlanInv
  /\ TxnInv
  /\ SchemaMatchesLog
  /\ LogIsOneBuild
  /\ DoneMeansMigrated

-----------------------------------------------------------------------------
\* A build's scripts, by version.
LEMMA ShippedText ==
  ASSUME TypeOK, NEW p \in Proc
  PROVE  /\ Shipped(p) \subseteq Version
         /\ \A v \in Shipped(p) : build[p][v] \in Text
  BY BuildsAssumption, MaxVersionAssumption DEF TypeOK, Shipped, Version

\* The version a runner comes to is the one after those that are recorded.
LEMMA NextIsNext ==
  ASSUME IInv, NEW p \in Proc, pc[p] \in Inside,
         NEW v \in Version, IsNextPending(p, v), log[v] = NoText
  PROVE  /\ v \in Shipped(p)
         /\ \A w \in Version : w < v => w \in Shipped(p) /\ log[w] = build[p][w]
         /\ \A w \in Version : w > v => log[w] = NoText
<1>1. v \in Shipped(p)
  BY DEF IInv, PlanInv, IsNextPending
<1>2. \A w \in Version : w < v => w \in Shipped(p) /\ w \notin pending[p]
  BY <1>1 DEF IsNextPending, Version, Shipped
<1>3. \A w \in Version : w < v => log[w] = build[p][w]
  BY <1>2 DEF IInv, PlanInv
<1>4. \A w \in Version : w > v => log[w] = NoText
  <2>1. PICK b \in Builds :
          \E n \in 0 .. Len(b) :
            \A w \in Version : log[w] = IF w <= n THEN b[w] ELSE NoText
    BY DEF IInv, LogIsOneBuild
  <2>2. PICK n \in 0 .. Len(b) :
          \A w \in Version : log[w] = IF w <= n THEN b[w] ELSE NoText
    BY <2>1
  <2>3. ~ (v <= n)
    BY <2>2, BuildsAssumption, NoTextAssumption, MaxVersionAssumption DEF Version
  <2>4. QED
    BY <2>2, <2>3, BuildsAssumption, MaxVersionAssumption DEF Version
<1>5. QED
  BY <1>1, <1>2, <1>3, <1>4

-----------------------------------------------------------------------------
\* The initial states satisfy the invariant: nothing is recorded.
LEMMA InitIInv == Init => IInv
<1> SUFFICES ASSUME Init PROVE IInv
  OBVIOUS
<1>1. TypeOK
  BY DEF Init, TypeOK
<1>2. PlanInv /\ TxnInv /\ DoneMeansMigrated
  BY NoProcAssumption DEF Init, PlanInv, TxnInv, TxnOf, DoneMeansMigrated, Inside
<1>3. SchemaMatchesLog
  BY DEF Init, SchemaMatchesLog
<1>4. LogIsOneBuild
  <2>1. PICK b : b \in Builds
    BY BuildsAssumption
  <2>2. 0 \in 0 .. Len(b) /\ \A v \in Version : ~ (v <= 0)
    BY <2>1, BuildsAssumption, MaxVersionAssumption DEF Version
  <2>3. QED
    BY <2>1, <2>2 DEF Init, LogIsOneBuild
<1>5. QED
  BY <1>1, <1>2, <1>3, <1>4 DEF IInv

\* Every step of the runner keeps the invariant.
LEMMA NextIInv == IInv /\ [Next]_vars => IInv'
<1> USE NoProcAssumption, NoTextAssumption
    DEF TypeOK, Inside, Over, Goto
<1> SUFFICES ASSUME IInv, [Next]_vars PROVE IInv'
  OBVIOUS
<1>inv. /\ TypeOK /\ PlanInv /\ TxnInv
        /\ SchemaMatchesLog /\ LogIsOneBuild /\ DoneMeansMigrated
  BY DEF IInv
<1>next. UNCHANGED pending =>
           \A q \in Proc, v \in Version :
             IsNextPending(q, v)' <=> IsNextPending(q, v)
  BY DEF IsNextPending
<1>1. CASE UNCHANGED vars
  <2>1. TypeOK' /\ TxnInv'
    BY <1>1, <1>inv, <1>next DEF vars, TxnInv, TxnOf
  <2>2. PlanInv' /\ SchemaMatchesLog' /\ LogIsOneBuild' /\ DoneMeansMigrated'
    BY <1>1, <1>inv
    DEF vars, PlanInv, SchemaMatchesLog, LogIsOneBuild, DoneMeansMigrated, Shipped
  <2>3. QED
    BY <2>1, <2>2 DEF IInv
<1>2. ASSUME NEW p \in Proc, Plan(p) PROVE IInv'
  <2>1. Shipped(p) \subseteq Version
    BY <1>inv, ShippedText
  <2>2. TypeOK'
    BY <1>2, <1>inv, <2>1 DEF Plan
  <2>0. TxnInv'
    <3>1. \A q \in Proc, v \in Version :
            pc[q] \in Inside => (IsNextPending(q, v)' <=> IsNextPending(q, v))
      BY <1>2, <1>inv DEF Plan, IsNextPending
    <3>2. QED
      BY <1>2, <1>inv, <3>1 DEF Plan, TxnInv, TxnOf
  \* The record is the beginning of a build, so what is pending is its end.
  <2>3. \A v \in Shipped(p) \ Recorded, w \in Shipped(p) :
          v <= w => w \notin Recorded
    <3>1. PICK b \in Builds :
            \E n \in 0 .. Len(b) :
              \A v \in Version : log[v] = IF v <= n THEN b[v] ELSE NoText
      BY <1>inv DEF LogIsOneBuild
    <3>2. PICK n \in 0 .. Len(b) :
            \A v \in Version : log[v] = IF v <= n THEN b[v] ELSE NoText
      BY <3>1
    <3>3. \A v \in Version : v \in Recorded <=> v <= n
      BY <3>2, BuildsAssumption, MaxVersionAssumption DEF Recorded, Version
    <3>4. QED
      BY <3>3, <2>1, BuildsAssumption DEF Version
  <2>4. PlanInv'
    BY <1>2, <1>inv, <2>1, <2>3 DEF Plan, Compatible, Recorded, PlanInv, Shipped
  <2>5. SchemaMatchesLog' /\ LogIsOneBuild' /\ DoneMeansMigrated'
    BY <1>2, <1>inv
    DEF Plan, SchemaMatchesLog, LogIsOneBuild, DoneMeansMigrated, Shipped
  <2>6. QED
    BY <2>0, <2>2, <2>4, <2>5 DEF IInv
<1>3. ASSUME NEW p \in Proc, Refuse(p) \/ Finish(p) \/ Fail(p) \/ Die(p)
      PROVE  IInv'
  <2>1. TypeOK'
    BY <1>3, <1>inv DEF Refuse, Finish, Fail, Die
  <2>2. TxnInv'
    BY <1>3, <1>inv, <1>next DEF Refuse, Finish, Fail, Die, TxnInv, TxnOf
  <2>0. PlanInv'
    BY <1>3, <1>inv DEF Refuse, Finish, Fail, Die, PlanInv, Shipped
  <2>3. SchemaMatchesLog' /\ LogIsOneBuild'
    BY <1>3, <1>inv
    DEF Refuse, Finish, Fail, Die, SchemaMatchesLog, LogIsOneBuild
  \* Nothing is left to apply, so all of the build is recorded.
  <2>4. DoneMeansMigrated'
    <3>1. CASE Finish(p)
      <4>1. \A v \in Shipped(p) : log[v] = build[p][v]
        BY <1>inv, <3>1 DEF Finish, PlanInv
      <4>2. QED
        BY <1>inv, <3>1, <4>1 DEF Finish, DoneMeansMigrated, Shipped
    <3>2. CASE Refuse(p) \/ Fail(p) \/ Die(p)
      BY <1>inv, <3>2 DEF Refuse, Fail, Die, DoneMeansMigrated, Shipped
    <3>3. QED
      BY <1>3, <3>1, <3>2
  <2>5. QED
    BY <2>0, <2>1, <2>2, <2>3, <2>4 DEF IInv
<1>4. ASSUME NEW p \in Proc, Begin(p) PROVE IInv'
  <2>1. TypeOK' /\ TxnInv'
    BY <1>4, <1>inv, <1>next DEF Begin, TxnInv, TxnOf
  <2>2. PlanInv' /\ SchemaMatchesLog' /\ LogIsOneBuild' /\ DoneMeansMigrated'
    BY <1>4, <1>inv
    DEF Begin, PlanInv, SchemaMatchesLog, LogIsOneBuild, DoneMeansMigrated, Shipped
  <2>3. QED
    BY <2>1, <2>2 DEF IInv
<1>5. ASSUME NEW p \in Proc, RunScript(p) PROVE IInv'
  <2>1. TypeOK'
    BY <1>5, <1>inv DEF RunScript
  <2>2. TxnInv'
    <3>1. PICK v \in Version :
            IsNextPending(p, v) /\ newRan' = [newRan EXCEPT ![v] = newRan[v] + 1]
      BY <1>5 DEF RunScript
    <3>2. newLog = log /\ newRan = ran
      BY <1>5, <1>inv DEF RunScript, TxnInv, TxnOf
    <3>3. \A q \in Proc : q # p => pc'[q] \notin Inside
      BY <1>5, <1>inv DEF RunScript, TxnInv
    <3>4. IsNextPending(p, v)'
      BY <1>5, <1>next, <3>1 DEF RunScript
    <3>5. TxnOf(p)'
      BY <1>5, <1>inv, <3>1, <3>2, <3>4 DEF RunScript, TxnOf
    <3>6. \A q \in Proc : q # p => TxnOf(q)'
      BY <3>3 DEF TxnOf
    <3>7. QED
      BY <1>5, <1>inv, <3>5, <3>6 DEF RunScript, TxnInv
  <2>3. PlanInv' /\ SchemaMatchesLog' /\ LogIsOneBuild' /\ DoneMeansMigrated'
    BY <1>5, <1>inv
    DEF RunScript, PlanInv, SchemaMatchesLog, LogIsOneBuild, DoneMeansMigrated,
        Shipped
  <2>4. QED
    BY <2>1, <2>2, <2>3 DEF IInv
<1>6. ASSUME NEW p \in Proc, InsertRow(p) PROVE IInv'
  <2>1. PICK v \in Version :
          /\ IsNextPending(p, v)
          /\ newLog[v] = NoText
          /\ newLog' = [newLog EXCEPT ![v] = build[p][v]]
    BY <1>6 DEF InsertRow
  <2>2. v \in Shipped(p) /\ build[p][v] \in Text
    BY <1>6, <1>inv, <2>1, ShippedText DEF InsertRow, PlanInv, IsNextPending
  <2>3. TypeOK'
    BY <1>6, <1>inv, <2>1, <2>2 DEF InsertRow
  <2>4. TxnInv'
    <3>1. PICK w \in Version :
            IsNextPending(p, w) /\ newRan = [ran EXCEPT ![w] = ran[w] + 1]
      BY <1>6, <1>inv DEF InsertRow, TxnInv, TxnOf
    <3>2. w = v
      BY <2>1, <3>1 DEF IsNextPending, Version
    <3>3. newLog = log
      BY <1>6, <1>inv DEF InsertRow, TxnInv, TxnOf
    <3>4. \A q \in Proc : q # p => pc'[q] \notin Inside
      BY <1>6, <1>inv DEF InsertRow, TxnInv
    <3>5. IsNextPending(p, v)'
      BY <1>6, <1>next, <2>1 DEF InsertRow
    <3>6. TxnOf(p)'
      BY <1>6, <1>inv, <2>1, <3>1, <3>2, <3>3, <3>5 DEF InsertRow, TxnOf
    <3>7. \A q \in Proc : q # p => TxnOf(q)'
      BY <3>4 DEF TxnOf
    <3>8. QED
      BY <1>6, <1>inv, <3>6, <3>7 DEF InsertRow, TxnInv
  <2>5. PlanInv' /\ SchemaMatchesLog' /\ LogIsOneBuild' /\ DoneMeansMigrated'
    BY <1>6, <1>inv
    DEF InsertRow, PlanInv, SchemaMatchesLog, LogIsOneBuild, DoneMeansMigrated,
        Shipped
  <2>6. QED
    BY <2>3, <2>4, <2>5 DEF IInv
<1>7. ASSUME NEW p \in Proc, Commit(p) PROVE IInv'
  <2>1. PICK v \in Version :
          /\ IsNextPending(p, v)
          /\ log[v] = NoText
          /\ newRan = [ran EXCEPT ![v] = ran[v] + 1]
          /\ newLog = [log EXCEPT ![v] = build[p][v]]
    BY <1>7, <1>inv DEF Commit, TxnInv, TxnOf
  <2>2. /\ v \in Shipped(p)
        /\ \A w \in Version : w < v => w \in Shipped(p) /\ log[w] = build[p][w]
        /\ \A w \in Version : w > v => log[w] = NoText
    BY <1>7, <2>1, NextIsNext DEF Commit
  <2>3. build[p][v] \in Text
    BY <1>inv, <2>2, ShippedText
  <2>4. /\ log' = [log EXCEPT ![v] = build[p][v]]
        /\ ran' = [ran EXCEPT ![v] = ran[v] + 1]
        /\ UNCHANGED build
        /\ \A q \in Proc \ {p} : pc'[q] = pc[q] /\ pending'[q] = pending[q]
        /\ pending'[p] = pending[p] \ {v}
    <3>1. \A w \in pending[p] : IsNextPending(p, w) <=> w = v
      BY <1>inv, <2>1 DEF IsNextPending, Version
    <3>2. QED
      BY <1>7, <1>inv, <2>1, <3>1 DEF Commit
  <2>5. TypeOK'
    BY <1>7, <1>inv, <2>3, <2>4 DEF Commit
  \* What the others left out of their plans was recorded before: v was not.
  <2>6. PlanInv'
    <3>1. ASSUME NEW q \in Proc, pc'[q] \in {"applying"} \cup Inside
          PROVE  /\ pending'[q] \subseteq Shipped(q)
                 /\ \A w \in Shipped(q) \ pending'[q] : log'[w] = build[q][w]
                 /\ \A w \in pending'[q], x \in Shipped(q) :
                      w <= x => x \in pending'[q]
      <4>1. pc[q] \in {"applying"} \cup Inside
        BY <1>7, <1>inv, <2>4, <3>1 DEF Commit
      <4>2. /\ pending[q] \subseteq Shipped(q)
            /\ \A w \in Shipped(q) \ pending[q] : log[w] = build[q][w]
            /\ \A w \in pending[q], x \in Shipped(q) : w <= x => x \in pending[q]
        BY <1>inv, <4>1 DEF PlanInv
      <4>3. Shipped(q) \subseteq Version /\ \A w \in Shipped(q) : build[q][w] \in Text
        BY <1>inv, ShippedText
      <4>4. CASE q = p
        BY <1>inv, <2>1, <2>4, <4>2, <4>3, <4>4 DEF IsNextPending, Version
      <4>5. CASE q # p
        BY <1>inv, <2>1, <2>4, <4>2, <4>3, <4>5
      <4>6. QED
        BY <4>4, <4>5
    <3>2. QED
      BY <2>4, <3>1 DEF PlanInv, Shipped
  <2>7. TxnInv'
    BY <1>7, <1>inv, <2>4 DEF Commit, TxnInv, TxnOf
  <2>8. SchemaMatchesLog'
    BY <1>inv, <2>1, <2>3, <2>4 DEF SchemaMatchesLog
  <2>9. LogIsOneBuild'
    <3>1. build[p] \in Builds /\ v \in 0 .. Len(build[p])
      BY <1>inv, <2>2, BuildsAssumption DEF Shipped
    <3>2. \A w \in Version : log'[w] = IF w <= v THEN build[p][w] ELSE NoText
      BY <1>inv, <2>2, <2>4 DEF Version
    <3>3. QED
      BY <3>1, <3>2 DEF LogIsOneBuild
  <2>10. DoneMeansMigrated'
    <3>1. ASSUME NEW q \in Proc, pc'[q] = "done", NEW w \in Shipped(q)
          PROVE  log'[w] = build[q][w]
      <4>1. w # v
        BY <1>7, <1>inv, <2>1, <2>4, <3>1, ShippedText
        DEF Commit, DoneMeansMigrated
      <4>2. QED
        BY <1>7, <1>inv, <2>4, <3>1, <4>1, ShippedText
        DEF Commit, DoneMeansMigrated
    <3>2. QED
      BY <2>4, <3>1 DEF DoneMeansMigrated, Shipped
  <2>11. QED
    BY <2>5, <2>6, <2>7, <2>8, <2>9, <2>10 DEF IInv
<1>8. QED
  BY <1>1, <1>2, <1>3, <1>4, <1>5, <1>6, <1>7 DEF Next

LEMMA SpecIInv == Spec => []IInv
  BY InitIInv, NextIInv, PTL DEF Spec
-----------------------------------------------------------------------------
\* Every variable keeps its type.
THEOREM TypeCorrect == Spec => []TypeOK
  BY SpecIInv, PTL DEF IInv

\* The committed schema has run exactly the scripts that are recorded, each
\* once (db/__init__.py:158-188).
THEOREM SchemaAndLogAgree == Spec => []SchemaMatchesLog
  BY SpecIInv, PTL DEF IInv

\* The record is always the beginning of one build (db/__init__.py:129-155).
THEOREM OneBuild == Spec => []LogIsOneBuild
  BY SpecIInv, PTL DEF IInv

\* migrate returns only to a command whose migrations are all recorded, with
\* the checksums it ships (db/__init__.py:136-155).
THEOREM DoneIsMigrated == Spec => []DoneMeansMigrated
  BY SpecIInv, PTL DEF IInv

-----------------------------------------------------------------------------
\* The abstract history, when the first n versions are recorded.
LEMMA HistoryIs ==
  ASSUME TypeOK, NEW n \in 0 .. MaxVersion,
         \A v \in Version : log[v] # NoText <=> v <= n
  PROVE  /\ History = [v \in 1 .. n |-> log[v]]
         /\ History \in Seq(Text)
         /\ Len(History) = n
<1> USE MaxVersionAssumption DEF Version
<1>1. \A m \in 0 .. MaxVersion : Unbroken(m) <=> m = n
  BY DEF Unbroken
<1>2. (CHOOSE m \in 0 .. MaxVersion : Unbroken(m)) = n
  BY <1>1
<1>3. History = [v \in 1 .. n |-> log[v]]
  BY <1>2 DEF History
<1>4. \A v \in 1 .. n : log[v] \in Text
  BY DEF TypeOK
<1>5. QED
  BY <1>3, <1>4

\* The number of recorded versions.
LEMMA RecordedUpTo ==
  ASSUME IInv
  PROVE  \E n \in 0 .. MaxVersion : \A v \in Version : log[v] # NoText <=> v <= n
<1>1. PICK b \in Builds :
        \E n \in 0 .. Len(b) :
          \A v \in Version : log[v] = IF v <= n THEN b[v] ELSE NoText
  BY DEF IInv, LogIsOneBuild
<1>2. PICK n \in 0 .. Len(b) :
        \A v \in Version : log[v] = IF v <= n THEN b[v] ELSE NoText
  BY <1>1
<1>3. n \in 0 .. MaxVersion
  BY <1>2, BuildsAssumption, MaxVersionAssumption
<1>4. \A v \in Version : v <= n => b[v] # NoText
  BY <1>2, BuildsAssumption, NoTextAssumption DEF Version
<1>5. QED
  BY <1>2, <1>3, <1>4

\* A commit adds the next migration of the runner's build; no other step
\* changes the record.
LEMMA StepRefines == IInv /\ [Next]_vars => [Schema!Next]_History
<1> SUFFICES ASSUME IInv, [Next]_vars
             PROVE  Schema!Next \/ UNCHANGED History
  OBVIOUS
<1>1. ASSUME UNCHANGED log PROVE UNCHANGED History
  BY <1>1 DEF History, Unbroken
<1>2. ASSUME NEW p \in Proc, Commit(p) PROVE Schema!Next
  <2>1. PICK v \in Version :
          /\ IsNextPending(p, v)
          /\ log[v] = NoText
          /\ newLog = [log EXCEPT ![v] = build[p][v]]
    BY <1>2 DEF IInv, TxnInv, TxnOf, Commit, Goto
  <2>2. /\ v \in Shipped(p)
        /\ \A w \in Version : w < v => w \in Shipped(p) /\ log[w] = build[p][w]
        /\ \A w \in Version : w > v => log[w] = NoText
    BY <1>2, <2>1, NextIsNext DEF Commit, Goto, Inside
  <2>3. /\ TypeOK /\ TypeOK'
        /\ build[p] \in Builds
        /\ \A w \in Shipped(p) : w \in Version /\ build[p][w] \in Text
    BY NextIInv, ShippedText DEF IInv, TypeOK
  <2>4. log' = [log EXCEPT ![v] = build[p][v]]
    BY <1>2, <2>1 DEF Commit
  <2>5. /\ v - 1 \in 0 .. MaxVersion
        /\ \A w \in Version : log[w] # NoText <=> w <= v - 1
    BY <2>1, <2>2, <2>3, MaxVersionAssumption, NoTextAssumption DEF Version
  <2>6. /\ v \in 0 .. MaxVersion
        /\ \A w \in Version : log'[w] # NoText <=> w <= v
    BY <2>2, <2>3, <2>4, <2>5, MaxVersionAssumption, NoTextAssumption
    DEF Version, TypeOK
  <2>7. /\ History = [w \in 1 .. v - 1 |-> log[w]]
        /\ History \in Seq(Text)
        /\ Len(History) = v - 1
    BY <2>3, <2>5, HistoryIs
  <2>8. History' = [w \in 1 .. v |-> log'[w]]
    <3>1. \A m \in 0 .. MaxVersion : Unbroken(m)' <=> m = v
      BY <2>6, MaxVersionAssumption DEF Unbroken, Version
    <3>2. (CHOOSE m \in 0 .. MaxVersion : Unbroken(m)') = v
      BY <2>6, <3>1
    <3>3. QED
      BY <3>2 DEF History
  <2>9. History' = Append(History, build[p][v])
    BY <2>2, <2>3, <2>4, <2>7, <2>8 DEF TypeOK, Version
  <2>10. Schema!Apply(build[p])
    <3>1. Len(History) < Len(build[p]) /\ v = Len(History) + 1
      BY <2>2, <2>3, <2>7, BuildsAssumption DEF Shipped, Version
    <3>2. \A w \in 1 .. Len(History) : History[w] = build[p][w]
      BY <2>2, <2>7, MaxVersionAssumption DEF Version
    <3>3. QED
      BY <2>3, <2>9, <3>1, <3>2, BuildsAssumption
      DEF Schema!Apply, Schema!Agrees
  <2>11. QED
    BY <2>3, <2>10 DEF Schema!Next
<1>3. CASE UNCHANGED vars
  BY <1>1, <1>3 DEF vars
<1>4. ASSUME NEW p \in Proc,
             \/ Plan(p) \/ Refuse(p) \/ Begin(p) \/ RunScript(p)
             \/ InsertRow(p) \/ Finish(p) \/ Fail(p) \/ Die(p)
      PROVE  UNCHANGED log
  BY <1>4
  DEF Plan, Refuse, Begin, RunScript, InsertRow, Finish, Fail, Die
<1>5. QED
  BY <1>1, <1>2, <1>3, <1>4 DEF Next

\* However many runners of whatever builds there are, the record grows as the
\* abstract one does.
THEOREM Refinement == Spec => RefinesSchemaLog
<1>1. Init => Schema!Init
  <2> SUFFICES ASSUME Init PROVE History = <<>>
    BY DEF Schema!Init
  <2>1. TypeOK /\ \A v \in Version : log[v] # NoText <=> v <= 0
    BY InitIInv, MaxVersionAssumption DEF IInv, Init, Version
  <2>2. Len(History) = 0 /\ History \in Seq(Text)
    BY <2>1, HistoryIs, MaxVersionAssumption
  <2>3. QED
    BY <2>2
<1>2. QED
  BY SpecIInv, StepRefines, <1>1, PTL DEF Spec, RefinesSchemaLog, Schema!Spec
=============================================================================
