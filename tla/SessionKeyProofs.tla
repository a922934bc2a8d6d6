-------------------------- MODULE SessionKeyProofs ---------------------------
(***************************************************************************)
(* Proofs about SessionKey, for any number of processes.                   *)
(*                                                                         *)
(* The argument: O_EXCL leaves one creator (OneCreator), so the file goes  *)
(* from nothing to empty to the creator's key and never changes again.     *)
(* Whoever holds a generated key holds the one in the file (HeldIsStored), *)
(* which is why no export can be encrypted with another one.               *)
(***************************************************************************)
EXTENDS SessionKey, TLAPS

OneCreator ==
  \A p \in Proc :
    pc[p] = "created" =>
      /\ keyFile = NotAKey
      /\ \A q \in Proc : pc[q] = "created" => q = p

FileStays == \A p \in Proc : pc[p] \in {"found", "checked"} => keyFile # NoKey

HeldIsStored == \A p \in Proc : held[p] \in Proc => keyFile = held[p]

ReadyHolds == \A p \in Proc : pc[p] = "ready" => held[p] # NoKey

EnvKeyIsSet ==
  /\ \A p \in Proc : held[p] = EnvKey => env[p] = EnvKey
  /\ export = EnvKey => \E q \in Proc : env[q] = EnvKey

IInv ==
  /\ TypeOK
  /\ OneCreator /\ FileStays /\ HeldIsStored /\ ReadyHolds /\ EnvKeyIsSet
  /\ ExportHasItsKey /\ UndecryptableMeansEnvironment

-----------------------------------------------------------------------------
\* The initial states satisfy the invariant: there is no key and no export.
LEMMA InitIInv == Init => IInv
BY KeysAssumption
DEF Init, IInv, TypeOK, Opening, Over, OneCreator, FileStays, HeldIsStored,
    ReadyHolds, EnvKeyIsSet, ExportHasItsKey, UndecryptableMeansEnvironment

\* Every step of a command keeps the invariant.
LEMMA NextIInv == IInv /\ [Next]_vars => IInv'
<1> USE KeysAssumption
    DEF IInv, TypeOK, Opening, Over, OneCreator, FileStays, HeldIsStored,
        ReadyHolds, EnvKeyIsSet, ExportHasItsKey,
        UndecryptableMeansEnvironment, Goto, Hold
<1> SUFFICES ASSUME IInv, [Next]_vars PROVE IInv'
  OBVIOUS
<1>1. CASE UNCHANGED vars
  BY <1>1 DEF vars
<1>2. ASSUME NEW p \in Proc, LoadOrCreate(p) PROVE IInv'
  <2>1. CASE TakeEnvKey(p)
    BY <2>1 DEF TakeEnvKey
  <2>2. CASE RejectEnvKey(p)
    BY <2>2 DEF RejectEnvKey
  <2>0. CASE EnvKeyEscapes(p)
    BY <2>0 DEF EnvKeyEscapes
  <2>3. CASE LookForFile(p)
    BY <2>3 DEF LookForFile
  <2>4. CASE RequirePrivate(p)
    BY <2>4 DEF RequirePrivate
  <2>5. CASE ReadKey(p)
    BY <2>5 DEF ReadKey
  <2>6. CASE RejectKey(p)
    BY <2>6 DEF RejectKey
  <2>7. CASE Create(p)
    BY <2>7 DEF Create
  <2>8. CASE CreateFails(p)
    BY <2>8 DEF CreateFails
  <2>9. CASE WriteKey(p)
    BY <2>9 DEF WriteKey
  <2>10. QED
    BY <1>2, <2>0, <2>1, <2>2, <2>3, <2>4, <2>5, <2>6, <2>7, <2>8, <2>9
    DEF LoadOrCreate
<1>3. ASSUME NEW p \in Proc, Save(p) PROVE IInv'
  BY <1>3 DEF Save
<1>4. ASSUME NEW p \in Proc, Load(p) PROVE IInv'
  BY <1>4 DEF Load
<1>5. ASSUME NEW p \in Proc, Delete(p) PROVE IInv'
  BY <1>5 DEF Delete
<1>6. ASSUME NEW p \in Proc, Die(p) PROVE IInv'
  BY <1>6 DEF Die
<1>7. CASE ChangeMode
  BY <1>7 DEF ChangeMode
<1>8. QED
  BY <1>1, <1>2, <1>3, <1>4, <1>5, <1>6, <1>7 DEF Next

\* The invariant holds throughout.
THEOREM Inductive == Spec => []IInv
BY InitIInv, NextIInv, PTL DEF Spec

-----------------------------------------------------------------------------
\* Every variable keeps its type.
THEOREM TypeCorrect == Spec => []TypeOK
<1>1. IInv => TypeOK
  BY DEF IInv
<1>2. QED
  BY <1>1, Inductive, PTL

\* crypto.py:58-75: however many first commands race for the key file and
\* wherever they die, no export is left whose generated key is not in it.
THEOREM ExportReadable == Spec => []ExportHasItsKey
<1>1. IInv => ExportHasItsKey
  BY DEF IInv
<1>2. QED
  BY <1>1, Inductive, PTL

\* crypto.py:80-88: an export that cannot be decrypted is explained by the
\* environment variable, as the error says.
THEOREM MismatchExplained == Spec => []UndecryptableMeansEnvironment
<1>1. IInv => UndecryptableMeansEnvironment
  BY DEF IInv
<1>2. QED
  BY <1>1, Inductive, PTL

\* crypto.py:72: a key that is in the file stays there.
THEOREM KeyKept == Spec => KeySurvives
<1>1. IInv /\ [Next]_vars => [KeepsKey]_vars
  <2> SUFFICES ASSUME IInv, Next, keyFile \in Proc PROVE keyFile' = keyFile
    BY DEF KeepsKey
  <2>1. ASSUME NEW p \in Proc, Create(p) PROVE FALSE
    BY <2>1, KeysAssumption DEF Create
  <2>2. ASSUME NEW p \in Proc, WriteKey(p) PROVE FALSE
    BY <2>2, KeysAssumption DEF WriteKey, Goto, IInv, OneCreator
  <2>3. QED
    BY <2>1, <2>2
    DEF Next, LoadOrCreate, TakeEnvKey, RejectEnvKey,
        EnvKeyEscapes, LookForFile,
        RequirePrivate, ReadKey, RejectKey, CreateFails, Save, Load, Delete,
        Die, ChangeMode
<1>2. QED
  BY <1>1, Inductive, PTL DEF Spec, KeySurvives
=============================================================================
