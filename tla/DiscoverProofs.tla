---------------------------- MODULE DiscoverProofs ----------------------------
(***************************************************************************)
(* Proofs about what discover records, redacts and prints, and about what  *)
(* session status prints: about CaptureRecorder, Reports and Redaction,    *)
(* whose theorems rest on the same lemmas about numbers and counting.      *)
(*                                                                         *)
(* The recorder.  A handler is taken up only while there is room, at most  *)
(* peak handlers are under way then, and after that every step leaves the  *)
(* sum of recorded exchanges and open handlers as it is or makes it        *)
(* smaller: that is the cap.  Without a failed call and with nothing open  *)
(* at the close, each response received before has ended as recorded,      *)
(* capped or ignored.                                                      *)
(*                                                                         *)
(* Induction.  The naturals are well founded, so a set of them has a least *)
(* member; so a set with zero and the successor of each of its members has *)
(* them all; so there is a function for every start and every step, and a  *)
(* recursive definition is what it says.  Everything below that goes by    *)
(* the length of a list or the nesting of a value rests on that.           *)
(*                                                                         *)
(* The reports.  The keys of the origins and the rows of the exchanges     *)
(* grow by one element after the other, and after each they tell of those  *)
(* read so far.  A sort gives each row the rank that it has in a strict    *)
(* total order: the key of the sort, with the places to break its ties.    *)
(*                                                                         *)
(* Redaction.  By induction from the deepest level up, redaction maps      *)
(* values to values of the same nesting whose leaves are tidy, and the     *)
(* scrubbing of a dumped body leaves the leaves tidy or garbles them.  By  *)
(* induction over the length of the ways, the ways into the result are     *)
(* those ways into the value that lead through nothing closed, which is    *)
(* StructureKept.                                                          *)
(***************************************************************************)
EXTENDS CaptureRecorder, Reports, Redaction, FiniteSetTheorems,
        WellFoundedInduction, TLAPS

-----------------------------------------------------------------------------
(* Numbers, and functions that are defined along them.                     *)

\* A set of natural numbers has a least one.
LEMMA Least ==
  ASSUME NEW S \in SUBSET Nat, S # {}
  PROVE  \E n \in S : \A m \in S : n <= m
<1>1. PICK n \in S : \A m \in S : <<m, n>> \notin OpToRel(<, Nat)
  <2>1. S \subseteq Nat
    OBVIOUS
  <2>2. QED
    BY <2>1, NatLessThanWellFounded, WFMin, Zenon
<1>2. \A m \in S : m \in Nat /\ ~(m < n)
  BY <1>1 DEF OpToRel
<1>3. QED
  BY <1>2

\* Induction: a set with zero and the successor of each of its members.
LEMMA Induction ==
  ASSUME NEW S, 0 \in S, \A n \in Nat : n \in S => n + 1 \in S
  PROVE  Nat \subseteq S
<1> SUFFICES ASSUME Nat \ S # {} PROVE FALSE
  OBVIOUS
<1>1. PICK n \in Nat \ S : \A m \in Nat \ S : n <= m
  <2>1. Nat \ S \in SUBSET Nat
    OBVIOUS
  <2>2. QED
    BY <2>1, Least
<1>2. n - 1 \in Nat /\ ~(n <= n - 1) /\ (n - 1) + 1 = n
  BY <1>1
<1>3. n - 1 \in S
  BY <1>1, <1>2
<1>4. QED
  BY <1>1, <1>2, <1>3

\* Induction as far as a bound.
LEMMA InductionUpTo ==
  ASSUME NEW N \in Nat, NEW S, 0 \in S, \A n \in 1..N : n - 1 \in S => n \in S
  PROVE  0..N \subseteq S
<1> DEFINE T == {n \in Nat : n <= N => n \in S}
<1>1. 0 \in T
  OBVIOUS
<1>2. ASSUME NEW n \in Nat, n \in T PROVE n + 1 \in T
  <2>1. n + 1 <= N => n + 1 \in 1..N /\ (n + 1) - 1 = n
    OBVIOUS
  <2>2. QED
    BY <1>2, <2>1
<1>3. Nat \subseteq T
  <2> HIDE DEF T
  <2>1. QED
    BY <1>1, <1>2, Induction
<1>4. QED
  BY <1>3

\* f is the recursive function on 0..N that starts with base and goes by step.
Recurs(f, N, S, base, step) ==
  /\ f \in [0..N -> S]
  /\ f[0] = base
  /\ \A n \in 1..N : f[n] = step[<<n, f[n - 1]>>]

\* There is a function for every start and every step.
LEMMA Recursion ==
  ASSUME NEW N \in Nat, NEW S, NEW base \in S,
         NEW step, \A n \in 1..N, x \in S : step[<<n, x>>] \in S
  PROVE  \E f : Recurs(f, N, S, base, step)
<1> DEFINE Solves(n, f) ==
             /\ f \in [0..n -> S]
             /\ \A m \in 0..n :
                  f[m] = IF m = 0 THEN base ELSE step[<<m, f[m - 1]>>]
           Solved == {n \in Nat : n <= N => \E f : Solves(n, f)}
<1>1. 0 \in Solved
  <2>1. Solves(0, [m \in 0..0 |-> base])
    OBVIOUS
  <2>2. QED
    BY <2>1
<1>2. ASSUME NEW n \in Nat, n \in Solved, n + 1 <= N
      PROVE  \E f : Solves(n + 1, f)
  <2>1. PICK f : Solves(n, f)
    BY <1>2
  <2> DEFINE g == [m \in 0..(n + 1) |-> IF m = n + 1 THEN step[<<m, f[n]>>] ELSE f[m]]
  <2>2. f[n] \in S
    BY <2>1
  <2>3. step[<<n + 1, f[n]>>] \in S
    BY <1>2, <2>2
  <2>4. g \in [0..(n + 1) -> S]
    BY <2>1, <2>3
  <2>5. ASSUME NEW m \in 0..(n + 1)
        PROVE  g[m] = IF m = 0 THEN base ELSE step[<<m, g[m - 1]>>]
    <3>1. CASE m = n + 1
      <4>1. m # 0 /\ m - 1 = n /\ n \in 0..(n + 1) /\ n # n + 1
        BY <3>1
      <4>2. g[m - 1] = f[n]
        BY <4>1
      <4>3. QED
        BY <3>1, <4>1, <4>2
    <3>2. CASE m # n + 1
      <4>1. m \in 0..n /\ g[m] = f[m]
        BY <3>2
      <4>2. m # 0 => m - 1 \in 0..n /\ g[m - 1] = f[m - 1]
        BY <4>1
      <4>3. QED
        BY <4>1, <4>2, <2>1
    <3>3. QED
      BY <3>1, <3>2
  <2> HIDE DEF g
  <2>6. Solves(n + 1, g)
    BY <2>4, <2>5
  <2>7. QED
    BY <2>6
<1>3. \A n \in Nat : n \in Solved => n + 1 \in Solved
  <2> HIDE DEF Solves
  <2>1. QED
    BY <1>2
<1>4. N \in Solved
  <2> HIDE DEF Solved
  <2>1. QED
    BY <1>1, <1>3, Induction
<1>5. PICK f : Solves(N, f)
  <2> HIDE DEF Solves
  <2>1. QED
    BY <1>4
<1>6. 0 \in 0..N /\ \A n \in 1..N : n \in 0..N /\ n # 0
  OBVIOUS
<1>7. QED
  BY <1>5, <1>6 DEF Recurs

-----------------------------------------------------------------------------
(* Counting and ranking.                                                   *)

\* Of finitely many numbers one is the largest.
LEMMA Maximum ==
  ASSUME NEW D, IsFiniteSet(D), D # {}, NEW f \in [D -> Nat]
  PROVE  \E i \in D : \A j \in D : f[j] <= f[i]
<1> DEFINE Above(i) == {j \in D : f[j] > f[i]}
           Heights == {Cardinality(Above(i)) : i \in D}
<1>1. \A i \in D : IsFiniteSet(Above(i)) /\ Cardinality(Above(i)) \in Nat
  <2>1. \A i \in D : Above(i) \in SUBSET D
    OBVIOUS
  <2>2. QED
    BY <2>1, FS_Subset, FS_CardinalityType
<1>2. PICK i \in D : \A j \in D : Cardinality(Above(i)) <= Cardinality(Above(j))
  <2>1. Heights \in SUBSET Nat /\ Heights # {}
    BY <1>1
  <2>2. PICK n \in Heights : \A m \in Heights : n <= m
    <3> HIDE DEF Heights
    <3>1. QED
      BY <2>1, Least
  <2>3. PICK i \in D : n = Cardinality(Above(i))
    OBVIOUS
  <2>4. \A j \in D : Cardinality(Above(j)) \in Heights
    OBVIOUS
  <2> HIDE DEF Above, Heights
  <2>5. QED
    BY <2>2, <2>3, <2>4
<1>3. ASSUME NEW j \in D, f[j] > f[i] PROVE FALSE
  <2>1. Above(j) \in SUBSET Above(i) /\ j \in Above(i) /\ j \notin Above(j)
    BY <1>3
  <2>2. Cardinality(Above(j)) <= Cardinality(Above(i))
        /\ Cardinality(Above(j)) # Cardinality(Above(i))
    <3> HIDE DEF Above
    <3>1. QED
      BY <1>1, <2>1, FS_Subset
  <2> HIDE DEF Above
  <2>3. QED
    BY <1>1, <1>2, <2>2
<1>4. QED
  BY <1>3

\* A list has finitely many places.
LEMMA ListIsFinite ==
  ASSUME NEW S, NEW s \in Seq(S)
  PROVE  /\ DOMAIN s = 1..Len(s) /\ Len(s) \in Nat
         /\ IsFiniteSet(DOMAIN s) /\ Cardinality(DOMAIN s) = Len(s)
<1>1. DOMAIN s = 1..Len(s) /\ Len(s) \in Nat
  OBVIOUS
<1>2. IsFiniteSet(1..Len(s)) /\ Cardinality(1..Len(s)) = Len(s)
  <2>1. 1 \in Int /\ Len(s) \in Int /\ Len(s) >= 0
    BY <1>1
  <2>2. QED
    BY <2>1, FS_Interval
<1>3. QED
  BY <1>1, <1>2

\* Two sets without a common member.
LEMMA Disjoint ==
  ASSUME NEW A, NEW B, IsFiniteSet(A), IsFiniteSet(B), A \cap B = {}
  PROVE  /\ IsFiniteSet(A \cup B)
         /\ Cardinality(A \cup B) = Cardinality(A) + Cardinality(B)
<1>1. Cardinality(A \cap B) = 0
  BY FS_EmptySet
<1>2. Cardinality(A) \in Nat /\ Cardinality(B) \in Nat
  BY FS_CardinalityType
<1>3. /\ IsFiniteSet(A \cup B)
      /\ Cardinality(A \cup B)
           = Cardinality(A) + Cardinality(B) - Cardinality(A \cap B)
  BY FS_Union
<1>4. QED
  BY <1>1, <1>2, <1>3

\* A set that another is mapped onto, one to one, has as many members.
LEMMA SameSize ==
  ASSUME NEW A, NEW B, IsFiniteSet(A), NEW g \in [A -> B],
         \A x, y \in A : g[x] = g[y] => x = y,
         \A y \in B : \E x \in A : g[x] = y
  PROVE  IsFiniteSet(B) /\ Cardinality(B) = Cardinality(A)
<1>1. g \in Bijection(A, B)
  BY DEF Bijection, Injection, Surjection, IsInjective
<1>2. QED
  BY <1>1, FS_Bijection DEF ExistsBijection

\* A strict total order of N places, and the ranks of the places in it.
Orders(Less, N) ==
  /\ \A i \in 1..N : <<i, i>> \notin Less
  /\ \A i, j, k \in 1..N : <<i, j>> \in Less /\ <<j, k>> \in Less => <<i, k>> \in Less
  /\ \A i, j \in 1..N : i = j \/ <<i, j>> \in Less \/ <<j, i>> \in Less

Ranking(Less, N) ==
  [i \in 1..N |-> 1 + Cardinality({j \in 1..N : <<j, i>> \in Less})]

\* In a strict total order each of finitely many places has a rank of its own.
LEMMA Ranks ==
  ASSUME NEW N \in Nat, NEW Less, Orders(Less, N)
  PROVE  LET rank == Ranking(Less, N)
         IN  /\ rank \in [1..N -> 1..N]
             /\ \A i, j \in 1..N : <<i, j>> \in Less => rank[i] < rank[j]
             /\ \A i, j \in 1..N : rank[i] = rank[j] => i = j
             /\ \A k \in 1..N : \E i \in 1..N : rank[i] = k
<1> DEFINE rank    == Ranking(Less, N)
           D       == 1..N
           Under(i) == {j \in 1..N : <<j, i>> \in Less}
<1>1. IsFiniteSet(D) /\ Cardinality(D) = N
  BY FS_Interval
<1>2. ASSUME NEW i \in D
      PROVE  /\ IsFiniteSet(Under(i)) /\ Cardinality(Under(i)) \in Nat
             /\ Cardinality(Under(i)) < N
  <2>1. Under(i) \in SUBSET D /\ i \in D /\ i \notin Under(i)
    BY DEF Orders
  <2> HIDE DEF Under, D
  <2>2. IsFiniteSet(Under(i)) /\ Cardinality(Under(i)) \in Nat
    BY <1>1, <2>1, FS_Subset, FS_CardinalityType
  <2>3. Cardinality(Under(i)) <= N /\ Cardinality(Under(i)) # N
    BY <1>1, <2>1, FS_Subset
  <2>4. QED
    BY <2>2, <2>3
<1>3. ASSUME NEW i \in D PROVE rank[i] = 1 + Cardinality(Under(i)) /\ rank[i] \in 1..N
  <2>1. rank[i] = 1 + Cardinality(Under(i))
    BY DEF Ranking
  <2> HIDE DEF Under, rank
  <2>2. QED
    BY <1>2, <2>1
<1>4. rank \in [D -> D]
  BY <1>3 DEF Ranking
<1> HIDE DEF rank
<1>5. ASSUME NEW i \in D, NEW j \in D, <<i, j>> \in Less PROVE rank[i] < rank[j]
  <2>1. Under(i) \in SUBSET Under(j) /\ i \in Under(j) /\ i \notin Under(i)
    BY <1>5 DEF Orders
  <2> HIDE DEF Under
  <2>2. Cardinality(Under(i)) <= Cardinality(Under(j))
        /\ Cardinality(Under(i)) # Cardinality(Under(j))
    BY <1>2, <2>1, FS_Subset
  <2>3. /\ rank[i] = 1 + Cardinality(Under(i)) /\ rank[j] = 1 + Cardinality(Under(j))
        /\ Cardinality(Under(i)) \in Nat /\ Cardinality(Under(j)) \in Nat
    BY <1>2, <1>3
  <2>4. QED
    BY <2>2, <2>3
<1>6. ASSUME NEW i \in D, NEW j \in D, rank[i] = rank[j] PROVE i = j
  <2>1. ~(rank[i] < rank[j]) /\ ~(rank[j] < rank[i])
    <3>1. rank[i] \in 1..N /\ rank[j] = rank[i]
      BY <1>3, <1>6
    <3>2. QED
      BY <3>1
  <2>2. <<i, j>> \notin Less /\ <<j, i>> \notin Less
    BY <1>5, <2>1
  <2>3. QED
    BY <2>2 DEF Orders
<1>7. rank \in Surjection(D, D)
  <2>1. rank \in Injection(D, D)
    <3> HIDE DEF D
    <3>1. QED
      BY <1>4, <1>6 DEF Injection, IsInjective
  <2> HIDE DEF D
  <2>2. QED
    BY <1>1, <2>1, FS_Injection
<1>8. \A k \in D : \E i \in D : rank[i] = k
  <2> HIDE DEF D
  <2>1. QED
    BY <1>7 DEF Surjection
<1>9. QED
  BY <1>4, <1>5, <1>6, <1>8 DEF rank

-----------------------------------------------------------------------------
(* The recorder.                                                           *)

PeakHolds == Cardinality(UnderWay) <= peak

IgnoredIsNoise == \A r \in Response : pc[r] = "ignored" => ~kept[r]

CappedWhenFull ==
  \A r \in Response : pc[r] = "capped" => Cardinality(Recorded) >= MaxExchanges

PromptedSeen == \A r \in prompted : pc[r] # "ahead"

UncutEndsWell ==
  ~cutOff =>
    \A r \in Response :
      /\ pc[r] # "raised"
      /\ pc[r] \in {"describing", "recorded"} /\ hasBody[r] => body[r] = "whole"
      /\ main \in {"closing", "left", "written"} =>
           pc[r] \notin {"queued"} \cup Working

CaptureIsRecorded == main = "written" => capture = Recorded

RecorderIInv ==
  /\ TypeOK
  /\ PeakHolds /\ CapPassedByOverlapOnly
  /\ IgnoredIsNoise /\ CappedWhenFull /\ PromptedSeen
  /\ UncutEndsWell /\ CaptureIsRecorded

-----------------------------------------------------------------------------
\* Any set of responses can be counted.
LEMMA ResponsesCounted ==
  /\ IsFiniteSet(Recorded) /\ Cardinality(Recorded) \in Nat
  /\ IsFiniteSet(UnderWay) /\ Cardinality(UnderWay) \in Nat
<1>1. Recorded \in SUBSET Response /\ UnderWay \in SUBSET Response
  BY DEF Recorded, UnderWay
<1>2. QED
  BY <1>1, ResponseAssumption, FS_Subset, FS_CardinalityType

\* The initial states satisfy the invariant: nothing has been received.
LEMMA RecorderInit == Init => RecorderIInv
<1> SUFFICES ASSUME Init PROVE RecorderIInv
  OBVIOUS
<1>1. Recorded = {} /\ UnderWay = {}
  BY DEF Init, Recorded, UnderWay, Working
<1>2. PeakHolds /\ CapPassedByOverlapOnly
  BY <1>1, FS_EmptySet, CapAssumption
  DEF Init, PeakHolds, CapPassedByOverlapOnly
<1>3. TypeOK
  BY DEF Init, TypeOK, Main
<1>4. /\ IgnoredIsNoise /\ CappedWhenFull /\ PromptedSeen
      /\ UncutEndsWell /\ CaptureIsRecorded
  BY DEF Init, IgnoredIsNoise, CappedWhenFull, PromptedSeen, UncutEndsWell,
         CaptureIsRecorded, Working
<1>5. QED
  BY <1>2, <1>3, <1>4 DEF RecorderIInv

\* A step that leaves both counted sets and the peak as they are leaves what is
\* said of the cap.
LEMMA CountsUnchanged ==
  ASSUME RecorderIInv, Recorded' = Recorded, UnderWay' = UnderWay, peak' = peak
  PROVE  PeakHolds' /\ CapPassedByOverlapOnly'
BY DEF RecorderIInv, PeakHolds, CapPassedByOverlapOnly

\* The handler of a response keeps the invariant at each of its steps.
LEMMA HandlerStep ==
  ASSUME RecorderIInv, NEW r \in Response, Handle(r) \/ Receive(r)
  PROVE  RecorderIInv'
<1> USE DEF TypeOK, Main, Working, Skipped, Calling, Goto
<1>inv. /\ TypeOK
        /\ PeakHolds /\ CapPassedByOverlapOnly
        /\ IgnoredIsNoise /\ CappedWhenFull /\ PromptedSeen
        /\ UncutEndsWell /\ CaptureIsRecorded
  BY DEF RecorderIInv
<1>cnt. /\ Cardinality(Recorded) \in Nat /\ Cardinality(UnderWay) \in Nat
        /\ IsFiniteSet(Recorded) /\ IsFiniteSet(UnderWay)
  BY ResponsesCounted
<1>1. CASE Receive(r) \/ Ignore(r)
  <2>1. Recorded' = Recorded /\ UnderWay' = UnderWay /\ peak' = peak
    BY <1>1, <1>inv DEF Receive, Ignore, Recorded, UnderWay
  <2>2. PeakHolds' /\ CapPassedByOverlapOnly'
    BY <2>1, CountsUnchanged
  <2>3. TypeOK' /\ IgnoredIsNoise' /\ PromptedSeen'
    BY <1>1, <1>inv DEF Receive, Ignore, IgnoredIsNoise, PromptedSeen
  <2>4. CappedWhenFull' /\ CaptureIsRecorded'
    BY <1>1, <1>inv, <2>1
    DEF Receive, Ignore, CappedWhenFull, CaptureIsRecorded
  <2>5. UncutEndsWell'
    BY <1>1, <1>inv DEF Receive, Ignore, UncutEndsWell
  <2>6. QED
    BY <2>2, <2>3, <2>4, <2>5 DEF RecorderIInv
<1>2. CASE Drop(r)
  <2>1. Recorded' = Recorded /\ UnderWay' = UnderWay /\ peak' = peak
    BY <1>2, <1>inv DEF Drop, Recorded, UnderWay
  <2>2. PeakHolds' /\ CapPassedByOverlapOnly'
    BY <2>1, CountsUnchanged
  <2>3. TypeOK' /\ IgnoredIsNoise' /\ PromptedSeen' /\ UncutEndsWell'
    BY <1>2, <1>inv DEF Drop, IgnoredIsNoise, PromptedSeen, UncutEndsWell
  <2>4. CappedWhenFull' /\ CaptureIsRecorded'
    BY <1>2, <1>inv, <2>1 DEF Drop, CappedWhenFull, CaptureIsRecorded
  <2>5. QED
    BY <2>2, <2>3, <2>4 DEF RecorderIInv
<1>3. CASE TakeUp(r)
  <2>1. Recorded' = Recorded /\ UnderWay' = UnderWay \cup {r}
    BY <1>3, <1>inv DEF TakeUp, Recorded, UnderWay
  <2>2. Cardinality(UnderWay') = Cardinality(UnderWay) + 1
    <3>1. r \notin UnderWay
      BY <1>3 DEF TakeUp, UnderWay
    <3>2. QED
      BY <2>1, <3>1, <1>cnt, FS_AddElement
  <2>3. PeakHolds' /\ CapPassedByOverlapOnly'
    BY <1>3, <1>inv, <1>cnt, <2>1, <2>2, CapAssumption
    DEF TakeUp, PeakHolds, CapPassedByOverlapOnly
  <2>4. TypeOK' /\ IgnoredIsNoise' /\ PromptedSeen' /\ UncutEndsWell'
    BY <1>3, <1>inv, <1>cnt
    DEF TakeUp, IgnoredIsNoise, PromptedSeen, UncutEndsWell
  <2>5. CappedWhenFull' /\ CaptureIsRecorded'
    BY <1>3, <1>inv, <2>1 DEF TakeUp, CappedWhenFull, CaptureIsRecorded
  <2>6. QED
    BY <2>3, <2>4, <2>5 DEF RecorderIInv
<1>4. CASE GetType(r) \/ GetBody(r) \/ LoseBody(r)
  <2>1. Recorded' = Recorded /\ UnderWay' = UnderWay /\ peak' = peak
    BY <1>4, <1>inv DEF GetType, GetBody, LoseBody, Recorded, UnderWay
  <2>2. PeakHolds' /\ CapPassedByOverlapOnly'
    BY <2>1, CountsUnchanged
  <2>3. TypeOK' /\ IgnoredIsNoise' /\ PromptedSeen'
    <3>1. CASE GetType(r)
      BY <3>1, <1>inv DEF GetType, IgnoredIsNoise, PromptedSeen
    <3>2. CASE GetBody(r)
      BY <3>2, <1>inv DEF GetBody, IgnoredIsNoise, PromptedSeen
    <3>3. CASE LoseBody(r)
      BY <3>3, <1>inv DEF LoseBody, IgnoredIsNoise, PromptedSeen
    <3>4. QED
      BY <1>4, <3>1, <3>2, <3>3
  <2>4. CappedWhenFull' /\ CaptureIsRecorded'
    BY <1>4, <1>inv, <2>1
    DEF GetType, GetBody, LoseBody, CappedWhenFull, CaptureIsRecorded
  <2>5. UncutEndsWell'
    BY <1>4, <1>inv DEF GetType, GetBody, LoseBody, UncutEndsWell
  <2>6. QED
    BY <2>2, <2>3, <2>4, <2>5 DEF RecorderIInv
<1>5. CASE Raise(r)
  <2>1. Recorded' = Recorded /\ UnderWay' = UnderWay \ {r}
    BY <1>5, <1>inv DEF Raise, Recorded, UnderWay
  <2>2. /\ Cardinality(UnderWay') <= Cardinality(UnderWay)
        /\ Cardinality(UnderWay') \in Nat
    BY <2>1, <1>cnt, FS_Subset, FS_CardinalityType
  <2>3. PeakHolds' /\ CapPassedByOverlapOnly'
    BY <1>5, <1>inv, <1>cnt, <2>1, <2>2, CapAssumption
    DEF Raise, PeakHolds, CapPassedByOverlapOnly
  <2>4. TypeOK' /\ IgnoredIsNoise' /\ PromptedSeen' /\ UncutEndsWell'
    BY <1>5, <1>inv DEF Raise, IgnoredIsNoise, PromptedSeen, UncutEndsWell
  <2>5. CappedWhenFull' /\ CaptureIsRecorded'
    BY <1>5, <1>inv, <2>1 DEF Raise, CappedWhenFull, CaptureIsRecorded
  <2>6. QED
    BY <2>3, <2>4, <2>5 DEF RecorderIInv
<1>6. CASE AddExchange(r)
  <2>1. Recorded' = Recorded \cup {r} /\ UnderWay' = UnderWay \ {r}
    BY <1>6, <1>inv DEF AddExchange, Recorded, UnderWay
  <2>2. r \notin Recorded /\ r \in UnderWay
    BY <1>6 DEF AddExchange, Recorded, UnderWay
  <2>3. /\ Cardinality(Recorded') = Cardinality(Recorded) + 1
        /\ Cardinality(UnderWay') = Cardinality(UnderWay) - 1
    BY <2>1, <2>2, <1>cnt, FS_AddElement, FS_RemoveElement
  <2>4. PeakHolds' /\ CapPassedByOverlapOnly'
    BY <1>6, <1>inv, <1>cnt, <2>3, CapAssumption
    DEF AddExchange, PeakHolds, CapPassedByOverlapOnly
  <2>5. TypeOK' /\ IgnoredIsNoise' /\ PromptedSeen' /\ UncutEndsWell'
    BY <1>6, <1>inv
    DEF AddExchange, IgnoredIsNoise, PromptedSeen, UncutEndsWell
  <2>6. CappedWhenFull' /\ CaptureIsRecorded'
    BY <1>6, <1>inv, <1>cnt, <2>3, CapAssumption
    DEF AddExchange, CappedWhenFull, CaptureIsRecorded
  <2>7. QED
    BY <2>4, <2>5, <2>6 DEF RecorderIInv
<1>7. QED
  BY <1>1, <1>2, <1>3, <1>4, <1>5, <1>6 DEF Handle

\* So does every step of run_discover, which leaves the responses alone.
LEMMA DiscoverStep == ASSUME RecorderIInv, Discover PROVE RecorderIInv'
<1> USE DEF TypeOK, Main, Working, Skipped, Calling, Step
<1>inv. /\ TypeOK
        /\ PeakHolds /\ CapPassedByOverlapOnly
        /\ IgnoredIsNoise /\ CappedWhenFull /\ PromptedSeen
        /\ UncutEndsWell /\ CaptureIsRecorded
  BY DEF RecorderIInv
<1> USE DEF Discover, Prompt, Confirm, Close, Abort, Leave, WriteCapture,
            NoCapture, Die
<1>1. pc' = pc /\ peak' = peak /\ kept' = kept /\ prompted' = prompted
  OBVIOUS
<1>2. Recorded' = Recorded /\ UnderWay' = UnderWay
  BY <1>1 DEF Recorded, UnderWay
<1>3. PeakHolds' /\ CapPassedByOverlapOnly'
  BY <1>1, <1>2, CountsUnchanged
<1>4. TypeOK'
  BY <1>inv DEF Recorded
<1>5. IgnoredIsNoise' /\ CappedWhenFull' /\ PromptedSeen'
  BY <1>inv, <1>1, <1>2 DEF IgnoredIsNoise, CappedWhenFull, PromptedSeen
<1>6. UncutEndsWell'
  BY <1>inv DEF UncutEndsWell
<1>7. CaptureIsRecorded'
  BY <1>inv, <1>2 DEF CaptureIsRecorded
<1>8. QED
  BY <1>3, <1>4, <1>5, <1>6, <1>7 DEF RecorderIInv

\* Every step keeps the invariant.
LEMMA RecorderNext == RecorderIInv /\ [Next]_vars => RecorderIInv'
<1> SUFFICES ASSUME RecorderIInv, [Next]_vars PROVE RecorderIInv'
  OBVIOUS
<1>1. CASE UNCHANGED vars
  BY <1>1
  DEF vars, RecorderIInv, TypeOK, PeakHolds, CapPassedByOverlapOnly, IgnoredIsNoise,
      CappedWhenFull, PromptedSeen, UncutEndsWell, CaptureIsRecorded,
      Recorded, UnderWay
<1>2. QED
  BY <1>1, HandlerStep, DiscoverStep DEF Next

\* The invariant holds throughout.
THEOREM RecorderInductive == Spec => []RecorderIInv
BY RecorderInit, RecorderNext, PTL DEF Spec

-----------------------------------------------------------------------------
\* Every variable keeps its type.
THEOREM RecorderTyped == Spec => []TypeOK
<1>1. RecorderIInv => TypeOK
  BY DEF RecorderIInv
<1>2. QED
  BY <1>1, RecorderInductive, PTL

\* capture.py:89-107: however many handlers run side by side, the recorder
\* exceeds its cap by less than their number.
THEOREM CapBounded == Spec => []CapPassedByOverlapOnly
<1>1. RecorderIInv => CapPassedByOverlapOnly
  BY DEF RecorderIInv
<1>2. QED
  BY <1>1, RecorderInductive, PTL

\* A capture that was not cut off holds every response there was to record, or
\* is full.
THEOREM CaptureComplete == Spec => []CompleteUnlessCutOff
<1>1. RecorderIInv => CompleteUnlessCutOff
  <2> SUFFICES ASSUME RecorderIInv, main = "written", ~cutOff,
                      ~(Cardinality(capture) >= MaxExchanges),
                      NEW r \in prompted, kept[r]
               PROVE  r \in capture /\ (hasBody[r] => body[r] = "whole")
    BY DEF CompleteUnlessCutOff
  <2>1. r \in Response
    BY DEF RecorderIInv, TypeOK
  <2>2. pc[r] = "recorded"
    BY <2>1
    DEF RecorderIInv, TypeOK, Working, Skipped, IgnoredIsNoise, CappedWhenFull,
        PromptedSeen, UncutEndsWell, CaptureIsRecorded
  <2>3. QED
    BY <2>1, <2>2 DEF RecorderIInv, UncutEndsWell, CaptureIsRecorded, Recorded
<1>2. QED
  BY <1>1, RecorderInductive, PTL

-----------------------------------------------------------------------------
(* What session status says.                                               *)

\* The instances of StoredSession and CaptureSummary count as this module does.
LEMMA SameCardinality ==
  \A S : /\ Session!Cardinality(S) = Cardinality(S)
         /\ Summary!Cardinality(S) = Cardinality(S)
BY DEF Session!Cardinality, Summary!Cardinality, Cardinality

\* sorted() has a place for each of the names, and each name as often as it came.
LEMMA SortedCounts ==
  ASSUME NEW D, IsFiniteSet(D), NEW f \in [D -> Nat]
  PROVE  /\ DOMAIN Session!Sorted(f) = 1..Cardinality(D)
         /\ Session!Sorted(f) \in Seq(Nat)
         /\ Len(Session!Sorted(f)) = Cardinality(D)
         /\ \A m \in Nat :
              CountOf(Session!Sorted(f), m) = Cardinality({i \in D : f[i] = m})
<1> DEFINE Below(m) == {i \in D : f[i] < m}
           UpTo(m)  == {i \in D : f[i] <= m}
           With(m)  == {i \in D : f[i] = m}
           sorted   == Session!Sorted(f)
           Place(k, m) ==
             /\ Session!Cardinality({i \in DOMAIN f : f[i] < m}) < k
             /\ Session!Cardinality({i \in DOMAIN f : f[i] <= m}) >= k
<1>1. /\ \A m \in Nat : /\ IsFiniteSet(Below(m)) /\ Cardinality(Below(m)) \in Nat
                        /\ IsFiniteSet(UpTo(m)) /\ Cardinality(UpTo(m)) \in Nat
                        /\ IsFiniteSet(With(m)) /\ Cardinality(With(m)) \in Nat
                        /\ Cardinality(UpTo(m)) <= Cardinality(D)
      /\ Cardinality(D) \in Nat
  <2>1. \A m \in Nat : /\ Below(m) \in SUBSET D
                       /\ UpTo(m) \in SUBSET D
                       /\ With(m) \in SUBSET D
    OBVIOUS
  <2> HIDE DEF Below, UpTo, With
  <2>2. QED
    BY <2>1, FS_Subset, FS_CardinalityType
<1>2. \A m \in Nat :
        Cardinality(UpTo(m)) = Cardinality(Below(m)) + Cardinality(With(m))
  <2>1. ASSUME NEW m \in Nat
        PROVE  UpTo(m) = Below(m) \cup With(m) /\ Below(m) \cap With(m) = {}
    OBVIOUS
  <2> HIDE DEF Below, UpTo, With
  <2>2. QED
    BY <1>1, <2>1, Disjoint
<1>3. \A m, n \in Nat : m < n => Cardinality(UpTo(m)) <= Cardinality(Below(n))
  <2>1. ASSUME NEW m \in Nat, NEW n \in Nat, m < n PROVE UpTo(m) \in SUBSET Below(n)
    BY <2>1
  <2> HIDE DEF Below, UpTo
  <2>2. QED
    BY <1>1, <2>1, FS_Subset
<1>4. \A m \in Nat : Below(m + 1) = UpTo(m)
  OBVIOUS
<1>5. Cardinality(Below(0)) = 0
  <2>1. Below(0) = {}
    OBVIOUS
  <2> HIDE DEF Below
  <2>2. QED
    BY <2>1, FS_EmptySet
<1>place. \A k, m : Place(k, m) <=>
               Cardinality(Below(m)) < k /\ Cardinality(UpTo(m)) >= k
  <2>1. DOMAIN f = D
    OBVIOUS
  <2>2. QED
    BY <2>1, SameCardinality
<1>6. ASSUME NEW k \in 1..Cardinality(D)
      PROVE  \E m \in {f[i] : i \in D} : Place(k, m)
  <2> DEFINE Reached == {m \in Nat : Cardinality(UpTo(m)) >= k}
  <2>1. Reached # {}
    <3>1. D # {}
      BY <1>1, FS_EmptySet
    <3>2. PICK i \in D : \A j \in D : f[j] <= f[i]
      BY <3>1, Maximum
    <3>3. UpTo(f[i]) = D /\ f[i] \in Nat
      BY <3>2
    <3>4. f[i] \in Reached
      <4> HIDE DEF UpTo
      <4>1. QED
        BY <1>1, <3>3
    <3>5. QED
      BY <3>4
  <2>2. PICK m \in Reached : \A n \in Reached : m <= n
    <3>1. Reached \in SUBSET Nat
      OBVIOUS
    <3> HIDE DEF Reached
    <3>2. QED
      BY <2>1, <3>1, Least
  <2>3. Cardinality(Below(m)) < k
    <3> HIDE DEF Below, UpTo
    <3>1. CASE m = 0
      BY <3>1, <1>5
    <3>2. CASE m # 0
      <4>1. m - 1 \in Nat /\ (m - 1) + 1 = m /\ ~(m <= m - 1)
        BY <3>2, <2>2
      <4>2. m - 1 \notin Reached
        <5> HIDE DEF Reached
        <5>1. QED
          BY <4>1, <2>2
      <4>3. Below(m) = UpTo(m - 1)
        BY <4>1, <1>4
      <4>4. Cardinality(UpTo(m - 1)) \in Nat
        BY <4>1, <1>1
      <4>5. k \in Nat
        OBVIOUS
      <4>6. QED
        BY <4>1, <4>2, <4>3, <4>4, <4>5
    <3>3. QED
      BY <3>1, <3>2
  <2>4. With(m) # {}
    <3> HIDE DEF Below, UpTo, With
    <3>1. QED
      BY <1>1, <1>2, <2>2, <2>3, FS_EmptySet
  <2>5. m \in {f[i] : i \in D}
    BY <2>4
  <2>6. QED
    BY <2>2, <2>3, <2>5, <1>place
<1>7. sorted = [k \in 1..Cardinality(D) |->
                  CHOOSE m \in {f[i] : i \in D} : Place(k, m)]
  <2>1. DOMAIN f = D
    OBVIOUS
  <2>2. QED
    BY <2>1, SameCardinality DEF Session!Sorted
<1>8. ASSUME NEW k \in 1..Cardinality(D)
      PROVE  sorted[k] \in Nat /\ Place(k, sorted[k])
  <2> HIDE DEF Place, sorted
  <2>1. sorted[k] \in {f[i] : i \in D} /\ Place(k, sorted[k])
    BY <1>6, <1>7
  <2>2. QED
    BY <2>1
<1>9. ASSUME NEW m \in Nat
      PROVE  {k \in DOMAIN sorted : sorted[k] = m}
               = (Cardinality(Below(m)) + 1)..Cardinality(UpTo(m))
  <2>bounds. /\ Cardinality(Below(m)) \in Nat /\ Cardinality(UpTo(m)) \in Nat
        /\ Cardinality(UpTo(m)) <= Cardinality(D) /\ Cardinality(D) \in Nat
    BY <1>1
  <2>rank. ASSUME NEW k \in 1..Cardinality(D)
        PROVE  /\ sorted[k] \in Nat
               /\ Cardinality(Below(sorted[k])) \in Nat
               /\ Cardinality(UpTo(sorted[k])) \in Nat
               /\ Cardinality(Below(sorted[k])) < k
               /\ Cardinality(UpTo(sorted[k])) >= k
    <3> HIDE DEF Place, sorted, Below, UpTo
    <3>1. QED
      BY <1>8, <1>1, <1>place
  <2> HIDE DEF sorted, Below, UpTo
  <2>1. ASSUME NEW k \in (Cardinality(Below(m)) + 1)..Cardinality(UpTo(m))
        PROVE  k \in 1..Cardinality(D) /\ sorted[k] = m
    <3>1. k \in 1..Cardinality(D)
      BY <2>bounds
    <3>2. ~(sorted[k] < m)
      BY <3>1, <2>bounds, <2>rank, <1>3
    <3>3. ~(m < sorted[k])
      BY <3>1, <2>bounds, <2>rank, <1>3
    <3>4. QED
      BY <3>1, <2>rank, <3>2, <3>3
  <2>2. ASSUME NEW k \in 1..Cardinality(D), sorted[k] = m
        PROVE  k \in (Cardinality(Below(m)) + 1)..Cardinality(UpTo(m))
    BY <2>bounds, <2>rank, <2>2
  <2>3. DOMAIN sorted = 1..Cardinality(D)
    BY <1>7
  <2>4. QED
    BY <2>1, <2>2, <2>3
<1>10. \A m \in Nat : CountOf(sorted, m) = Cardinality(With(m))
  <2> HIDE DEF sorted, Below, UpTo, With
  <2>1. ASSUME NEW m \in Nat
        PROVE  CountOf(sorted, m) = Cardinality(With(m))
    <3>1. /\ Cardinality(Below(m)) \in Nat /\ Cardinality(UpTo(m)) \in Nat
          /\ Cardinality(With(m)) \in Nat
          /\ Cardinality(UpTo(m)) = Cardinality(Below(m)) + Cardinality(With(m))
      BY <1>1, <1>2
    <3>2. CountOf(sorted, m)
            = Cardinality((Cardinality(Below(m)) + 1)..Cardinality(UpTo(m)))
      BY <1>9 DEF CountOf
    <3>3. QED
      BY <3>1, <3>2, FS_Interval
  <2>2. QED
    BY <2>1
<1>11. sorted \in Seq(Nat) /\ Len(sorted) = Cardinality(D)
  <2> HIDE DEF sorted, Place
  <2>1. sorted \in [1..Cardinality(D) -> Nat]
    BY <1>7, <1>8
  <2>2. QED
    BY <2>1, <1>1
<1>12. QED
  BY <1>7, <1>10, <1>11
-----------------------------------------------------------------------------
(* session status.                                                         *)

\* A date in whole seconds is not after another for being rounded.
LEMMA RoundingKeepsOrder ==
  ASSUME NEW k \in Nat \ {0}, NEW x \in Nat, NEW y \in Nat, x <= y
  PROVE  x \div k \in Nat /\ y \div k \in Nat /\ x \div k <= y \div k
<1>1. x \div k \in Nat /\ y \div k \in Nat
  OBVIOUS
<1>2. x \div k <= y \div k
  OBVIOUS
<1>3. QED
  BY <1>1, <1>2

\* The cookies that have a date, and those of them whose date has come.
LEMMA Dated ==
  ASSUME NEW state \in Session!StorageState, NEW t \in Nat
  PROVE  LET cookie     == state.cookies
             persistent == Session!persistent_cookies(state)
             expired    == Session!ExpiredCookies(state, t)
         IN  /\ DOMAIN cookie = 1..Len(cookie) /\ Len(cookie) \in Nat
             /\ \A i \in DOMAIN cookie : cookie[i].expires \in Int
             /\ \A i \in DOMAIN cookie : cookie[i].name \in Nat
             /\ persistent = {i \in DOMAIN cookie : cookie[i].expires > 0}
             /\ expired = {i \in persistent : cookie[i].expires <= t}
             /\ IsFiniteSet(DOMAIN cookie)
             /\ IsFiniteSet(persistent) /\ IsFiniteSet(expired)
<1> DEFINE cookie == state.cookies
<1>1. cookie \in Seq(Session!Cookie)
  BY DEF Session!StorageState
<1>2. DOMAIN cookie = 1..Len(cookie) /\ Len(cookie) \in Nat
  BY <1>1
<1>3. \A i \in DOMAIN cookie : cookie[i] \in Session!Cookie
  BY <1>1
<1>4. \A i \in DOMAIN cookie : cookie[i].expires \in Int /\ cookie[i].name \in Nat
  BY <1>3 DEF Session!Cookie, Session!SESSION_COOKIE_EXPIRY
<1>5. IsFiniteSet(DOMAIN cookie)
  BY <1>2, FS_Interval
<1>6. /\ Session!persistent_cookies(state) \in SUBSET DOMAIN cookie
      /\ Session!ExpiredCookies(state, t) \in SUBSET DOMAIN cookie
  BY DEF Session!persistent_cookies, Session!ExpiredCookies
<1>7. QED
  BY <1>2, <1>4, <1>5, <1>6, FS_Subset
  DEF Session!persistent_cookies, Session!ExpiredCookies

\* expired_cookie_names: a name for each expired cookie.
LEMMA ExpiredNames ==
  ASSUME NEW state \in Session!StorageState, NEW t \in Nat
  PROVE  LET names == Session!expired_cookie_names(state, t)
         IN  /\ names \in Seq(Nat)
             /\ Len(names) = Cardinality(Session!ExpiredCookies(state, t))
<1> DEFINE expired == Session!ExpiredCookies(state, t)
           names   == [i \in expired |-> state.cookies[i].name]
<1>1. names \in [expired -> Nat] /\ IsFiniteSet(expired)
  BY Dated
<1>2. /\ Session!Sorted(names) \in Seq(Nat)
      /\ Len(Session!Sorted(names)) = Cardinality(expired)
  <2> HIDE DEF names, expired
  <2>1. QED
    BY <1>1, SortedCounts
<1>3. QED
  BY <1>2 DEF Session!expired_cookie_names

\* is_probably_stale: there are cookies with a date and all of the dates have come.
LEMMA StaleMeansAllExpired ==
  ASSUME NEW state \in Session!StorageState, NEW t \in Nat
  PROVE  Session!is_probably_stale(state, t) <=>
           /\ Session!persistent_cookies(state) # {}
           /\ \A i \in Session!persistent_cookies(state) :
                state.cookies[i].expires <= t
<1> DEFINE persistent == Session!persistent_cookies(state)
           expired    == Session!ExpiredCookies(state, t)
<1>1. /\ expired = {i \in persistent : state.cookies[i].expires <= t}
      /\ IsFiniteSet(persistent)
  BY Dated
<1>2. expired \in SUBSET persistent
  BY <1>1
<1>3. Cardinality(expired) = Cardinality(persistent) <=> expired = persistent
  <2> HIDE DEF expired, persistent
  <2>1. QED
    BY <1>1, <1>2, FS_Subset
<1>4. Session!is_probably_stale(state, t) <=>
        persistent # {} /\ Cardinality(expired) = Cardinality(persistent)
  BY ExpiredNames, SameCardinality DEF Session!is_probably_stale
<1>5. QED
  BY <1>1, <1>3, <1>4

\* earliest_expiry: the first of the dates, if there is one.
LEMMA EarliestIsFirst ==
  ASSUME NEW state \in Session!StorageState
  PROVE  LET persistent == Session!persistent_cookies(state)
             earliest   == Session!earliest_expiry(state)
         IN  /\ persistent = {} => earliest = None
             /\ persistent # {} =>
                  /\ earliest \in Nat
                  /\ \E i \in persistent : earliest = state.cookies[i].expires
                  /\ \A i \in persistent : earliest <= state.cookies[i].expires
<1> DEFINE persistent == Session!persistent_cookies(state)
           expiries   == {state.cookies[i].expires : i \in persistent}
<1>1. expiries \in SUBSET Nat
  <2>1. /\ persistent = {i \in DOMAIN state.cookies : state.cookies[i].expires > 0}
        /\ \A i \in DOMAIN state.cookies : state.cookies[i].expires \in Int
    <3>1. 0 \in Nat
      OBVIOUS
    <3>2. QED
      BY <3>1, Dated
  <2>2. \A i \in persistent : state.cookies[i].expires \in Nat
    BY <2>1
  <2> HIDE DEF persistent
  <2>3. QED
    BY <2>2
<1>2. expiries # {} => \E d \in expiries : \A e \in expiries : d <= e
  <2> HIDE DEF expiries
  <2>1. QED
    BY <1>1, Least
<1>3. Session!earliest_expiry(state) =
        IF expiries = {} THEN None
        ELSE CHOOSE d \in expiries : \A e \in expiries : d <= e
  BY DEF Session!earliest_expiry
<1>4. expiries # {} =>
        /\ Session!earliest_expiry(state) \in expiries
        /\ \A e \in expiries : Session!earliest_expiry(state) <= e
  <2> HIDE DEF expiries
  <2>1. QED
    BY <1>2, <1>3
<1>5. persistent = {} <=> expiries = {}
  OBVIOUS
<1>6. QED
  BY <1>1, <1>3, <1>4, <1>5

\* What session status says of any session at any time.
LEMMA StatusIsConsistent ==
  ASSUME stored \in Session!StorageState, stored # None, now \in Nat
  PROVE  HintAgreesWithDate
<1> DEFINE persistent == Session!persistent_cookies(stored)
           expired    == Session!ExpiredCookies(stored, now)
           earliest   == Session!earliest_expiry(stored)
           date       == Status.session_expires_at
           second     == now \div TicksPerSecond
           cookie     == stored.cookies
<1>1. /\ \A i \in DOMAIN cookie : cookie[i].expires \in Int
      /\ persistent = {i \in DOMAIN cookie : cookie[i].expires > 0}
      /\ expired = {i \in persistent : cookie[i].expires <= now}
  BY Dated
<1>2. Hint <=> /\ persistent # {}
               /\ \A i \in persistent : cookie[i].expires <= now
  BY StaleMeansAllExpired DEF Hint
<1>3. date = IF earliest = None THEN None ELSE earliest \div TicksPerSecond
  BY DEF Status, Session!summary
<1>4. /\ persistent = {} => earliest = None
      /\ persistent # {} =>
           /\ earliest \in Nat
           /\ \E i \in persistent : earliest = cookie[i].expires
           /\ \A i \in persistent : earliest <= cookie[i].expires
  BY EarliestIsFirst
<1>5. persistent # {} => date = earliest \div TicksPerSecond /\ date \in Nat
  BY <1>3, <1>4, ReportsAssumption, RoundingKeepsOrder
<1>6. date = None <=> persistent = {}
  BY <1>3, <1>4, <1>5, ReportsAssumption
<1>7. persistent # {} /\ earliest <= now => date <= second
  BY <1>4, <1>5, ReportsAssumption, RoundingKeepsOrder
<1>8. Hint => /\ date # None /\ date <= second
              /\ \A i \in DOMAIN cookie : cookie[i].expires <= now
  <2> SUFFICES ASSUME Hint
               PROVE  /\ date # None /\ date <= second
                      /\ \A i \in DOMAIN cookie : cookie[i].expires <= now
    OBVIOUS
  <2> HIDE DEF persistent, expired, earliest, date, second
  <2>1. persistent # {} /\ earliest <= now
    BY <1>2, <1>4
  <2>2. \A i \in DOMAIN cookie : i \notin persistent => cookie[i].expires <= 0
    BY <1>1
  <2>3. QED
    BY <1>1, <1>2, <1>6, <1>7, <2>1, <2>2
<1>9. date # None /\ second < date =>
        Session!expired_cookie_names(stored, now) = <<>>
  <2> SUFFICES ASSUME date # None, second < date
               PROVE  Session!expired_cookie_names(stored, now) = <<>>
    OBVIOUS
  <2>1. expired = {}
    <3> SUFFICES ASSUME NEW i \in expired PROVE FALSE
      OBVIOUS
    <3> HIDE DEF persistent, expired, earliest, date
    <3>1. i \in persistent /\ cookie[i].expires \in Int /\ cookie[i].expires <= now
      BY <1>1
    <3>2. earliest \in Nat /\ earliest <= now
      BY <3>1, <1>4
    <3>3. date \in Nat /\ second \in Nat /\ date <= second
      BY <3>1, <3>2, <1>5, <1>7, ReportsAssumption, RoundingKeepsOrder
    <3>4. QED
      BY <3>3
  <2>2. Cardinality({}) = 0
    BY FS_EmptySet
  <2> DEFINE names == Session!expired_cookie_names(stored, now)
  <2>3. names \in Seq(Nat) /\ Len(names) = 0
    BY <2>1, <2>2, ExpiredNames
  <2> HIDE DEF names
  <2>4. names = <<>>
    BY <2>3
  <2>5. QED
    BY <2>4 DEF names
<1>10. date = None <=> \A i \in DOMAIN cookie : cookie[i].expires <= 0
  <2> HIDE DEF persistent, date
  <2>1. QED
    BY <1>1, <1>6
<1>11. ~Hint /\ date # None => \E i \in DOMAIN cookie : cookie[i].expires > now
  <2> HIDE DEF persistent, date
  <2>1. QED
    BY <1>1, <1>2, <1>6
<1>12. QED
  <2> HIDE DEF date, second
  <2>1. QED
    BY <1>8, <1>9, <1>10, <1>11 DEF HintAgreesWithDate, date, second

\* A list is counted part by part.
LEMMA ConcatCounts ==
  ASSUME NEW s \in Seq(Nat), NEW t \in Seq(Nat), NEW v
  PROVE  /\ CountOf(s \o t, v) = CountOf(s, v) + CountOf(t, v)
         /\ CountOf(s, v) \in Nat /\ CountOf(t, v) \in Nat
<1> DEFINE S     == {i \in DOMAIN s : s[i] = v}
           T     == {i \in DOMAIN t : t[i] = v}
           Later == {i + Len(s) : i \in T}
           g     == [i \in T |-> i + Len(s)]
<1>1. IsFiniteSet(S) /\ IsFiniteSet(T)
  <2>1. S \in SUBSET (1..Len(s)) /\ T \in SUBSET (1..Len(t))
    OBVIOUS
  <2>2. IsFiniteSet(1..Len(s)) /\ IsFiniteSet(1..Len(t))
    BY FS_Interval
  <2> HIDE DEF S, T
  <2>3. QED
    BY <2>1, <2>2, FS_Subset
<1>2. IsFiniteSet(Later) /\ Cardinality(Later) = Cardinality(T)
  <2>1. /\ g \in [T -> Later]
        /\ \A x, y \in T : g[x] = g[y] => x = y
        /\ \A y \in Later : \E x \in T : g[x] = y
    OBVIOUS
  <2> HIDE DEF g, Later, T
  <2>2. QED
    BY <1>1, <2>1, SameSize
<1>3. {i \in DOMAIN (s \o t) : (s \o t)[i] = v} = S \cup Later
  <2>1. ASSUME NEW i \in DOMAIN (s \o t), (s \o t)[i] = v PROVE i \in S \cup Later
    <3>1. CASE i <= Len(s)
      BY <3>1, <2>1
    <3>2. CASE ~(i <= Len(s))
      <4>1. i - Len(s) \in T /\ i = (i - Len(s)) + Len(s)
        BY <3>2, <2>1
      <4>2. QED
        BY <4>1
    <3>3. QED
      BY <3>1, <3>2
  <2>2. ASSUME NEW i \in S PROVE i \in DOMAIN (s \o t) /\ (s \o t)[i] = v
    OBVIOUS
  <2>3. ASSUME NEW i \in T
        PROVE  i + Len(s) \in DOMAIN (s \o t) /\ (s \o t)[i + Len(s)] = v
    OBVIOUS
  <2>4. QED
    BY <2>1, <2>2, <2>3
<1>4. S \cap Later = {}
  OBVIOUS
<1>5. Cardinality(S \cup Later) = Cardinality(S) + Cardinality(T)
  <2> HIDE DEF S, T, Later
  <2>1. QED
    BY <1>1, <1>2, <1>4, Disjoint
<1>6. QED
  BY <1>1, <1>3, <1>5, FS_CardinalityType DEF CountOf

\* The keys grow by those of one origin after the other.
LEMMA KeysGrow ==
  ASSUME NEW origins \in Seq(Session!Origin)
  PROVE  LET keys == Session!KeysOf(origins)
         IN  /\ keys \in [0..Len(origins) -> Seq(Nat)]
             /\ keys[0] = <<>>
             /\ \A n \in 1..Len(origins) :
                  keys[n] = keys[n - 1] \o origins[n].localStorage
<1> DEFINE N    == Len(origins)
           step == [p \in (1..N) \X Seq(Nat) |-> p[2] \o origins[p[1]].localStorage]
           Is(keys) == keys = [n \in 0..N |->
                          IF n = 0 THEN <<>>
                          ELSE keys[n - 1] \o origins[n].localStorage]
<1>1. N \in Nat /\ \A n \in 1..N : origins[n].localStorage \in Seq(Nat)
  <2>1. \A n \in 1..N : origins[n] \in Session!Origin
    OBVIOUS
  <2>2. QED
    BY <2>1 DEF Session!Origin
<1>2. \A n \in 1..N, x \in Seq(Nat) :
        /\ step[<<n, x>>] = x \o origins[n].localStorage
        /\ step[<<n, x>>] \in Seq(Nat)
  <2> SUFFICES ASSUME NEW n \in 1..N, NEW x \in Seq(Nat)
               PROVE  /\ step[<<n, x>>] = x \o origins[n].localStorage
                      /\ step[<<n, x>>] \in Seq(Nat)
    OBVIOUS
  <2>1. step[<<n, x>>] = x \o origins[n].localStorage
    OBVIOUS
  <2>2. x \o origins[n].localStorage \in Seq(Nat)
    BY <1>1
  <2>3. QED
    BY <2>1, <2>2
<1>3. PICK f : Recurs(f, N, Seq(Nat), <<>>, step)
  <2>1. <<>> \in Seq(Nat)
    OBVIOUS
  <2>2. N \in Nat
    BY <1>1
  <2> HIDE DEF N, step
  <2>3. QED
    BY <1>2, <2>1, <2>2, Recursion
<1>4. Is(f)
  <2>1. ASSUME NEW n \in 0..N, n # 0
        PROVE  f[n] = f[n - 1] \o origins[n].localStorage
    <3>1. n - 1 \in 0..N /\ n \in 1..N
      BY <2>1, <1>1
    <3> HIDE DEF step
    <3>2. QED
      BY <3>1, <1>2, <1>3 DEF Recurs
  <2> HIDE DEF step
  <2>2. QED
    BY <1>3, <2>1 DEF Recurs
<1>5. Is(Session!KeysOf(origins))
  <2>1. Session!KeysOf(origins) = CHOOSE keys : Is(keys)
    BY DEF Session!KeysOf
  <2> HIDE DEF Is
  <2>2. QED
    BY <1>4, <2>1
<1> DEFINE keys  == Session!KeysOf(origins)
           Typed == {n \in 0..N : keys[n] \in Seq(Nat)}
<1>6. /\ keys = [n \in 0..N |-> keys[n]] /\ keys[0] = <<>>
      /\ \A n \in 1..N : keys[n] = keys[n - 1] \o origins[n].localStorage
  <2> HIDE DEF keys
  <2>1. QED
    BY <1>1, <1>5
<1>7. 0..N \subseteq Typed
  <2>1. 0 \in Typed
    <3>1. 0 \in 0..N /\ <<>> \in Seq(Nat)
      BY <1>1
    <3> HIDE DEF keys
    <3>2. QED
      BY <3>1, <1>6
  <2>2. ASSUME NEW n \in 1..N, n - 1 \in Typed PROVE n \in Typed
    <3> HIDE DEF keys
    <3>1. n \in 0..N /\ keys[n - 1] \in Seq(Nat)
      BY <1>1, <2>2
    <3>2. keys[n - 1] \o origins[n].localStorage \in Seq(Nat)
      BY <3>1, <1>1
    <3>3. QED
      BY <3>1, <3>2, <1>6
  <2>3. N \in Nat
    BY <1>1
  <2> HIDE DEF Typed, N
  <2>4. QED
    BY <2>1, <2>2, <2>3, InductionUpTo
<1>8. keys \in [0..N -> Seq(Nat)]
  <2> HIDE DEF keys
  <2>1. QED
    BY <1>6, <1>7
<1>9. QED
  BY <1>6, <1>8

\* A key is in the list as often as the origins have it.
LEMMA KeysCounted ==
  ASSUME NEW origins \in Seq(Session!Origin), NEW v
  PROVE  CountOf(Session!KeysOf(origins)[Len(origins)], v)
           = Cardinality({at \in UNION {{i} \X DOMAIN origins[i].localStorage :
                                          i \in DOMAIN origins} :
                            origins[at[1]].localStorage[at[2]] = v})
<1> DEFINE N     == Len(origins)
           keys  == Session!KeysOf(origins)
           own(n) == {k \in DOMAIN origins[n].localStorage :
                        origins[n].localStorage[k] = v}
           Of(n) == {<<n, k>> : k \in own(n)}
           At(n) == UNION {Of(i) : i \in 1..n}
           Counted == {n \in 0..N : /\ IsFiniteSet(At(n))
                                    /\ CountOf(keys[n], v) = Cardinality(At(n))}
<1>1. N \in Nat /\ \A n \in 1..N : origins[n].localStorage \in Seq(Nat)
  <2>1. \A n \in 1..N : origins[n] \in Session!Origin
    OBVIOUS
  <2>2. QED
    BY <2>1 DEF Session!Origin
<1>2. /\ keys \in [0..N -> Seq(Nat)] /\ keys[0] = <<>>
      /\ \A n \in 1..N : keys[n] = keys[n - 1] \o origins[n].localStorage
  BY KeysGrow
<1>3. 0 \in Counted
  <2>1. At(0) = {}
    OBVIOUS
  <2>2. {i \in DOMAIN (<<>>) : (<<>>)[i] = v} = {}
    OBVIOUS
  <2>3. CountOf(keys[0], v) = Cardinality({})
    <3> HIDE DEF keys
    <3>1. QED
      BY <1>2, <2>2 DEF CountOf
  <2>4. 0 \in 0..N
    BY <1>1
  <2> HIDE DEF At, keys, N
  <2>5. QED
    BY <2>1, <2>3, <2>4, FS_EmptySet
<1>4. ASSUME NEW n \in 1..N
      PROVE  IsFiniteSet(Of(n)) /\ Cardinality(Of(n)) = Cardinality(own(n))
  <2> DEFINE g == [k \in own(n) |-> <<n, k>>]
  <2>1. IsFiniteSet(own(n))
    <3>1. own(n) \in SUBSET DOMAIN origins[n].localStorage
      BY <1>1
    <3>2. IsFiniteSet(DOMAIN origins[n].localStorage)
      BY <1>1, ListIsFinite
    <3> HIDE DEF own
    <3>3. QED
      BY <3>1, <3>2, FS_Subset
  <2>2. /\ g \in [own(n) -> Of(n)]
        /\ \A x, y \in own(n) : g[x] = g[y] => x = y
        /\ \A y \in Of(n) : \E x \in own(n) : g[x] = y
    OBVIOUS
  <2> HIDE DEF g, own, Of
  <2>3. QED
    BY <2>1, <2>2, SameSize
<1>5. ASSUME NEW n \in 1..N, n - 1 \in Counted PROVE n \in Counted
  <2>1. n \in 0..N /\ n - 1 \in 0..N
    BY <1>1
  <2>2. At(n) = At(n - 1) \cup Of(n)
    <3>1. 1..n = (1..(n - 1)) \cup {n}
      BY <1>1
    <3> HIDE DEF Of
    <3>2. QED
      BY <3>1
  <2>3. At(n - 1) \cap Of(n) = {}
    BY <1>1
  <2>4. /\ IsFiniteSet(At(n))
        /\ Cardinality(At(n)) = Cardinality(At(n - 1)) + Cardinality(Of(n))
    <3>1. IsFiniteSet(At(n - 1)) /\ IsFiniteSet(Of(n))
      BY <1>4, <1>5
    <3> HIDE DEF At, Of
    <3>2. QED
      BY <3>1, <2>2, <2>3, Disjoint
  <2>5. CountOf(keys[n], v)
          = CountOf(keys[n - 1], v) + CountOf(origins[n].localStorage, v)
    <3>1. keys[n - 1] \in Seq(Nat) /\ origins[n].localStorage \in Seq(Nat)
      BY <1>1, <1>2, <2>1
    <3>2. keys[n] = keys[n - 1] \o origins[n].localStorage
      BY <1>2
    <3> HIDE DEF keys
    <3>3. QED
      BY <3>1, <3>2, ConcatCounts
  <2>6. CountOf(origins[n].localStorage, v) = Cardinality(own(n))
    BY DEF CountOf
  <2> HIDE DEF At, Of, own, keys
  <2>7. QED
    BY <1>4, <1>5, <2>1, <2>4, <2>5, <2>6
<1>6. N \in Counted
  <2>1. 0..N \subseteq Counted
    <3> HIDE DEF Counted, N
    <3>1. QED
      BY <1>1, <1>3, <1>5, InductionUpTo
  <2>2. N \in 0..N
    BY <1>1
  <2>3. QED
    BY <2>1, <2>2
<1>7. At(N) = {at \in UNION {{i} \X DOMAIN origins[i].localStorage :
                               i \in DOMAIN origins} :
                 origins[at[1]].localStorage[at[2]] = v}
  <2>1. DOMAIN origins = 1..N
    OBVIOUS
  <2> HIDE DEF N
  <2>2. QED
    BY <2>1
<1>8. QED
  BY <1>6, <1>7

\* session status lists every cookie and every key.
LEMMA StatusIsComplete ==
  ASSUME stored \in Session!StorageState, stored # None
  PROVE  NothingLeftOut
<1> DEFINE cookies == stored.cookies
           origins == stored.origins
           places  == UNION {{i} \X DOMAIN origins[i].localStorage :
                               i \in DOMAIN origins}
           keys    == [at \in places |-> origins[at[1]].localStorage[at[2]]]
           names   == [i \in DOMAIN cookies |-> cookies[i].name]
           listed  == Session!KeysOf(origins)[Len(origins)]
<1>1. cookies \in Seq(Session!Cookie) /\ origins \in Seq(Session!Origin)
  BY DEF Session!StorageState
<1>2. /\ IsFiniteSet(DOMAIN cookies)
      /\ DOMAIN cookies = 1..Len(cookies) /\ Len(cookies) \in Nat
      /\ names \in [DOMAIN cookies -> Nat]
  BY Dated, 0 \in Nat
<1>3. Cardinality(DOMAIN cookies) = Len(cookies)
  BY <1>2, FS_Interval
<1>4. /\ Status.cookie_count = Len(cookies)
      /\ Status.cookie_names = Session!Sorted(names)
      /\ Status.local_storage_keys = Session!Sorted(listed)
  BY DEF Status, Session!summary, Session!cookie_names, Session!local_storage_keys
<1>5. /\ Len(Status.cookie_names) = Len(cookies)
      /\ \A m \in Nat : CountOf(Status.cookie_names, m)
                          = Cardinality({i \in DOMAIN cookies : names[i] = m})
  <2> HIDE DEF names, cookies
  <2>1. QED
    BY <1>2, <1>3, <1>4, SortedCounts
<1>6. \A i \in DOMAIN cookies :
        CountOf(Status.cookie_names, cookies[i].name)
          = Cardinality({j \in DOMAIN cookies : cookies[j].name = cookies[i].name})
  <2> SUFFICES ASSUME NEW i \in DOMAIN cookies
               PROVE  CountOf(Status.cookie_names, cookies[i].name)
                        = Cardinality({j \in DOMAIN cookies :
                                         cookies[j].name = cookies[i].name})
    OBVIOUS
  <2>1. cookies[i].name \in Nat
    BY <1>2
  <2>2. {j \in DOMAIN cookies : names[j] = cookies[i].name}
          = {j \in DOMAIN cookies : cookies[j].name = cookies[i].name}
    OBVIOUS
  <2> HIDE DEF names
  <2>3. QED
    BY <1>5, <2>1, <2>2
<1>7. listed \in Seq(Nat) /\ listed \in [1..Len(listed) -> Nat] /\ Len(listed) \in Nat
  <2>1. listed \in Seq(Nat)
    <3>1. Len(origins) \in 0..Len(origins)
      BY <1>1
    <3> HIDE DEF origins
    <3>2. QED
      BY <1>1, <3>1, KeysGrow
  <2> HIDE DEF listed
  <2>2. QED
    BY <2>1
<1>8. \A m \in Nat : CountOf(Status.local_storage_keys, m) = CountOf(listed, m)
  <2> HIDE DEF listed
  <2>1. IsFiniteSet(DOMAIN listed) /\ listed \in [DOMAIN listed -> Nat]
    BY <1>7, ListIsFinite
  <2>2. \A m \in Nat : CountOf(Session!Sorted(listed), m)
                        = Cardinality({k \in DOMAIN listed : listed[k] = m})
    BY <2>1, SortedCounts
  <2>3. QED
    BY <1>4, <2>2 DEF CountOf
<1>9. ASSUME NEW at \in places
      PROVE  CountOf(Status.local_storage_keys, keys[at]) = CountOf(keys, keys[at])
  <2>1. keys[at] \in Nat
    <3>1. PICK i \in DOMAIN origins : at \in {i} \X DOMAIN origins[i].localStorage
      OBVIOUS
    <3>2. origins[i] \in Session!Origin
      BY <1>1
    <3>3. origins[i].localStorage \in Seq(Nat)
      BY <3>2 DEF Session!Origin
    <3>4. /\ keys[at] = origins[i].localStorage[at[2]]
          /\ at[2] \in DOMAIN origins[i].localStorage
      BY <3>1
    <3>5. QED
      BY <3>3, <3>4
  <2>2. CountOf(listed, keys[at])
          = Cardinality({x \in places : origins[x[1]].localStorage[x[2]] = keys[at]})
    <3> HIDE DEF keys
    <3>1. QED
      BY <1>1, KeysCounted
  <2>3. {x \in places : origins[x[1]].localStorage[x[2]] = keys[at]}
          = {x \in DOMAIN keys : keys[x] = keys[at]}
    OBVIOUS
  <2> HIDE DEF keys, listed, places
  <2>4. QED
    BY <1>8, <2>1, <2>2, <2>3 DEF CountOf
<1>10. QED
  <2>1. DOMAIN keys = places
    OBVIOUS
  <2> HIDE DEF names, listed
  <2>2. QED
    BY <1>4, <1>5, <1>6, <1>9, <2>1 DEF NothingLeftOut

-----------------------------------------------------------------------------
(* The rows of discover.                                                   *)

\* A segment of a path that is or is not redacted.
Segment == STRING \cup {Summary!REDACTED}

\* A row of the table.
Row == [endpoint : STRING \X STRING \X Seq(Segment), calls : Nat, statuses : SUBSET Nat,
        json : BOOLEAN, max_body_bytes : Nat]

\* The calls of an endpoint among the first n exchanges.
CallsAmong(n, endpoint) ==
  {i \in 1..n : Summary!Endpoint(exchanges[i]) = endpoint}

\* A row tells of the calls of its endpoint among the first n exchanges.
RowTells(row, n) ==
  LET calls == CallsAmong(n, row.endpoint)
  IN  /\ row.calls = Cardinality(calls)
      /\ row.statuses = {exchanges[i].status : i \in calls}
      /\ row.json <=> \E i \in calls : exchanges[i].format = "json"
      /\ \A i \in calls : exchanges[i].length <= row.max_body_bytes
      /\ \E i \in calls : exchanges[i].length = row.max_body_bytes

\* Each of the first n exchanges has a row, each endpoint one, and they all tell.
Tells(rows, n) ==
  /\ \A i \in 1..n : \E k \in DOMAIN rows :
       rows[k].endpoint = Summary!Endpoint(exchanges[i])
  /\ \A j, k \in DOMAIN rows : rows[j].endpoint = rows[k].endpoint => j = k
  /\ \A k \in DOMAIN rows : RowTells(rows[k], n)

\* What is known of an exchange and its endpoint.
LEMMA ExchangeTyped ==
  ASSUME NEW e \in Summary!Exchange
  PROVE  /\ Summary!Endpoint(e) \in STRING \X STRING \X Seq(Segment)
         /\ e.status \in Nat /\ e.length \in Nat
<1>1. /\ e.method \in STRING /\ e.host \in STRING /\ e.path \in Seq(STRING)
      /\ e.status \in Nat /\ e.length \in Nat
  BY DEF Summary!Exchange
<1>2. Summary!RedactedPath(e) \in Seq(Segment)
  <2>1. \A i \in 1..Len(e.path) : e.path[i] \in STRING
    BY <1>1
  <2>2. Len(e.path) \in Nat /\ DOMAIN e.path = 1..Len(e.path)
    BY <1>1
  <2> DEFINE segment(i) == IF e.path[i] \in ShapedSegment THEN Summary!REDACTED ELSE e.path[i]
  <2>3. Summary!RedactedPath(e) = [i \in 1..Len(e.path) |-> segment(i)]
    BY <2>2 DEF Summary!RedactedPath
  <2>4. \A i \in 1..Len(e.path) : segment(i) \in Segment
    BY <2>1 DEF Segment
  <2> HIDE DEF segment
  <2>5. Summary!RedactedPath(e) \in [1..Len(e.path) -> Segment]
    BY <2>3, <2>4
  <2>6. QED
    BY <2>2, <2>5
<1>3. QED
  BY <1>1, <1>2 DEF Summary!Endpoint

\* Add keeps the rows typed, and the row of an exchange counts it.
LEMMA CountTyped ==
  ASSUME NEW e \in Summary!Exchange, NEW row \in Row
  PROVE  LET counted == Summary!Count(row, e)
         IN  /\ counted \in Row
             /\ counted.endpoint = row.endpoint
             /\ counted.calls = row.calls + 1
             /\ counted.statuses = row.statuses \cup {e.status}
             /\ counted.json = (row.json \/ e.format = "json")
             /\ counted.max_body_bytes =
                  IF e.length > row.max_body_bytes THEN e.length
                  ELSE row.max_body_bytes
<1> DEFINE counted == Summary!Count(row, e)
           longest == IF e.length > row.max_body_bytes THEN e.length
                      ELSE row.max_body_bytes
<1>1. e.status \in Nat /\ e.length \in Nat
  BY ExchangeTyped
<1>2. /\ row.endpoint \in STRING \X STRING \X Seq(Segment) /\ row.calls \in Nat
      /\ row.statuses \in SUBSET Nat /\ row.json \in BOOLEAN
      /\ row.max_body_bytes \in Nat
      /\ row = [endpoint |-> row.endpoint, calls |-> row.calls,
                statuses |-> row.statuses, json |-> row.json,
                max_body_bytes |-> row.max_body_bytes]
  BY DEF Row
<1>3. counted = [endpoint |-> row.endpoint, calls |-> row.calls + 1,
                 statuses |-> row.statuses \cup {e.status},
                 json |-> row.json \/ e.format = "json", max_body_bytes |-> longest]
  <2>1. /\ DOMAIN counted = DOMAIN row
        /\ DOMAIN row = {"endpoint", "calls", "statuses", "json", "max_body_bytes"}
    BY DEF Summary!Count, Row
  <2>2. counted = [f \in DOMAIN row |-> counted[f]]
    BY DEF Summary!Count
  <2>3. /\ counted.endpoint = row.endpoint
        /\ counted.calls = row.calls + 1
        /\ counted.statuses = row.statuses \cup {e.status}
        /\ counted.max_body_bytes = longest
    BY <2>1 DEF Summary!Count
  <2>4. counted.json = (row.json \/ e.format = "json")
    BY <2>1, Zenon DEF Summary!Count
  <2> HIDE DEF counted, longest
  <2>5. QED
    BY <2>1, <2>2, <2>3, <2>4
<1>4. /\ row.calls + 1 \in Nat /\ row.statuses \cup {e.status} \in SUBSET Nat
      /\ (row.json \/ e.format = "json") \in BOOLEAN /\ longest \in Nat
  BY <1>1, <1>2
<1> HIDE DEF longest
<1>5. counted \in Row
  BY <1>2, <1>3, <1>4 DEF Row
<1> HIDE DEF counted
<1>6. QED
  BY <1>3, <1>5 DEF counted, longest

\* The first exchange of an endpoint makes a row.
LEMMA NewStatsTyped ==
  ASSUME NEW e \in Summary!Exchange
  PROVE  Summary!NewStats(e) \in Row
BY ExchangeTyped DEF Summary!NewStats, Row

\* Counting one more exchange leaves a list of rows.
LEMMA AddTyped ==
  ASSUME NEW e \in Summary!Exchange, NEW rows \in Seq(Row)
  PROVE  Summary!Add(rows, e) \in Seq(Row)
<1> DEFINE known == {i \in DOMAIN rows : rows[i].endpoint = Summary!Endpoint(e)}
<1>1. CASE known = {}
  BY <1>1, NewStatsTyped, CountTyped DEF Summary!Add
<1>2. CASE known # {}
  <2> DEFINE added == [i \in DOMAIN rows |->
                         IF i \in known THEN Summary!Count(rows[i], e) ELSE rows[i]]
  <2>1. \A i \in DOMAIN rows : added[i] \in Row
    BY CountTyped
  <2>2. DOMAIN rows = 1..Len(rows) /\ Len(rows) \in Nat
    OBVIOUS
  <2>3. added \in [1..Len(rows) -> Row]
    <3> HIDE DEF known
    <3>1. QED
      BY <2>1, <2>2
  <2>4. added \in Seq(Row)
    <3> HIDE DEF added
    <3>1. QED
      BY <2>2, <2>3
  <2>5. QED
    BY <1>2, <2>4 DEF Summary!Add
<1>3. QED
  BY <1>1, <1>2

\* The rows grow by one exchange after the other.
LEMMA RowsGrow ==
  ASSUME exchanges \in Seq(Summary!Exchange)
  PROVE  LET rows == Summary!Grouping(exchanges)
         IN  /\ rows \in [0..Len(exchanges) -> Seq(Row)]
             /\ rows[0] = <<>>
             /\ \A n \in 1..Len(exchanges) :
                  rows[n] = Summary!Add(rows[n - 1], exchanges[n])
<1> DEFINE N    == Len(exchanges)
           step == [p \in (1..N) \X Seq(Row) |-> Summary!Add(p[2], exchanges[p[1]])]
           Is(rows) == rows = [n \in 0..N |->
                          IF n = 0 THEN <<>>
                          ELSE Summary!Add(rows[n - 1], exchanges[n])]
<1>1. N \in Nat /\ \A n \in 1..N : exchanges[n] \in Summary!Exchange
  OBVIOUS
<1>2. \A n \in 1..N, x \in Seq(Row) :
        /\ step[<<n, x>>] = Summary!Add(x, exchanges[n])
        /\ step[<<n, x>>] \in Seq(Row)
  <2> SUFFICES ASSUME NEW n \in 1..N, NEW x \in Seq(Row)
               PROVE  /\ step[<<n, x>>] = Summary!Add(x, exchanges[n])
                      /\ step[<<n, x>>] \in Seq(Row)
    OBVIOUS
  <2>1. step[<<n, x>>] = Summary!Add(x, exchanges[n])
    OBVIOUS
  <2>2. Summary!Add(x, exchanges[n]) \in Seq(Row)
    BY <1>1, AddTyped
  <2>3. QED
    BY <2>1, <2>2
<1>3. PICK f : Recurs(f, N, Seq(Row), <<>>, step)
  <2>1. <<>> \in Seq(Row)
    OBVIOUS
  <2>2. N \in Nat
    BY <1>1
  <2> HIDE DEF N, step
  <2>3. QED
    BY <1>2, <2>1, <2>2, Recursion
<1>4. Is(f)
  <2>1. ASSUME NEW n \in 0..N, n # 0
        PROVE  f[n] = Summary!Add(f[n - 1], exchanges[n])
    <3>1. n - 1 \in 0..N /\ n \in 1..N
      BY <2>1, <1>1
    <3> HIDE DEF step
    <3>2. QED
      BY <3>1, <1>2, <1>3 DEF Recurs
  <2> HIDE DEF step
  <2>2. QED
    BY <1>3, <2>1 DEF Recurs
<1>5. Is(Summary!Grouping(exchanges))
  <2>1. Summary!Grouping(exchanges) = CHOOSE rows : Is(rows)
    BY DEF Summary!Grouping
  <2> HIDE DEF Is
  <2>2. QED
    BY <1>4, <2>1
<1> DEFINE rows  == Summary!Grouping(exchanges)
           Typed == {n \in 0..N : rows[n] \in Seq(Row)}
<1>6. /\ rows = [n \in 0..N |-> rows[n]] /\ rows[0] = <<>>
      /\ \A n \in 1..N : rows[n] = Summary!Add(rows[n - 1], exchanges[n])
  <2>1. Is(rows)
    BY <1>5
  <2> HIDE DEF rows
  <2>2. rows = [n \in 0..N |-> rows[n]]
    BY <2>1
  <2>3. rows[0] = <<>>
    BY <2>1, <1>1
  <2>4. ASSUME NEW n \in 1..N PROVE rows[n] = Summary!Add(rows[n - 1], exchanges[n])
    <3>1. n \in 0..N /\ n # 0
      BY <1>1
    <3>2. QED
      BY <2>1, <3>1
  <2>5. QED
    BY <2>2, <2>3, <2>4
<1>7. 0..N \subseteq Typed
  <2>1. 0 \in Typed
    <3>1. 0 \in 0..N /\ <<>> \in Seq(Row)
      BY <1>1
    <3> HIDE DEF rows
    <3>2. QED
      BY <3>1, <1>6
  <2>2. ASSUME NEW n \in 1..N, n - 1 \in Typed PROVE n \in Typed
    <3> HIDE DEF rows
    <3>1. n \in 0..N /\ rows[n - 1] \in Seq(Row)
      BY <1>1, <2>2
    <3>2. Summary!Add(rows[n - 1], exchanges[n]) \in Seq(Row)
      BY <3>1, <1>1, AddTyped
    <3>3. QED
      BY <3>1, <3>2, <1>6
  <2>3. N \in Nat
    BY <1>1
  <2> HIDE DEF Typed, N
  <2>4. QED
    BY <2>1, <2>2, <2>3, InductionUpTo
<1>8. rows \in [0..N -> Seq(Row)]
  <2> HIDE DEF rows
  <2>1. QED
    BY <1>6, <1>7
<1>9. QED
  BY <1>6, <1>8

\* The n-th exchange is one call more of its endpoint, and none of another.
LEMMA OneCallMore ==
  ASSUME exchanges \in Seq(Summary!Exchange), NEW n \in 1..Len(exchanges), NEW endpoint
  PROVE  LET before == CallsAmong(n - 1, endpoint)
             after  == CallsAmong(n, endpoint)
         IN  /\ IsFiniteSet(before) /\ Cardinality(before) \in Nat /\ n \notin before
             /\ Summary!Endpoint(exchanges[n]) # endpoint => after = before
             /\ Summary!Endpoint(exchanges[n]) = endpoint =>
                  /\ after = before \cup {n}
                  /\ Cardinality(after) = Cardinality(before) + 1
<1> DEFINE before == CallsAmong(n - 1, endpoint)
           after  == CallsAmong(n, endpoint)
<1>1. n \in Nat /\ n - 1 \in Int /\ n \notin 1..(n - 1)
  OBVIOUS
<1>2. 1..n = (1..(n - 1)) \cup {n}
  BY <1>1
<1>3. before \in SUBSET (1..(n - 1)) /\ n \notin before
  BY <1>1 DEF CallsAmong
<1>4. IsFiniteSet(before) /\ Cardinality(before) \in Nat
  <2>1. IsFiniteSet(1..(n - 1))
    BY <1>1, FS_Interval
  <2> HIDE DEF before
  <2>2. QED
    BY <1>3, <2>1, FS_Subset, FS_CardinalityType
<1>5. Summary!Endpoint(exchanges[n]) # endpoint => after = before
  BY <1>2 DEF CallsAmong
<1>6. ASSUME Summary!Endpoint(exchanges[n]) = endpoint
      PROVE  after = before \cup {n} /\ Cardinality(after) = Cardinality(before) + 1
  <2>1. after = before \cup {n}
    BY <1>2, <1>6 DEF CallsAmong
  <2> HIDE DEF before, after
  <2>2. QED
    BY <1>3, <1>4, <2>1, FS_AddElement
<1>7. QED
  BY <1>3, <1>4, <1>5, <1>6

\* A row that counts the n-th exchange, its own, tells of it and of what it told
\* before, if that was anything.
LEMMA CountTells ==
  ASSUME exchanges \in Seq(Summary!Exchange), NEW n \in 1..Len(exchanges),
         NEW row \in Row, row.endpoint = Summary!Endpoint(exchanges[n]),
         \/ RowTells(row, n - 1)
         \/ /\ row = Summary!NewStats(exchanges[n])
            /\ CallsAmong(n - 1, row.endpoint) = {}
  PROVE  RowTells(Summary!Count(row, exchanges[n]), n)
<1> DEFINE e       == exchanges[n]
           before  == CallsAmong(n - 1, row.endpoint)
           after   == CallsAmong(n, row.endpoint)
           counted == Summary!Count(row, e)
<1>1. e \in Summary!Exchange /\ n \in after
  BY DEF CallsAmong
<1>2. \A i \in after : exchanges[i].length \in Nat
  BY ExchangeTyped DEF CallsAmong
<1>3. /\ after = before \cup {n} /\ Cardinality(before) \in Nat
      /\ Cardinality(after) = Cardinality(before) + 1
  BY OneCallMore
<1>4. /\ row.calls = Cardinality(before)
      /\ row.statuses = {exchanges[i].status : i \in before}
      /\ row.json <=> \E i \in before : exchanges[i].format = "json"
      /\ \A i \in before : exchanges[i].length <= row.max_body_bytes
      /\ \/ row.max_body_bytes = 0
         \/ \E i \in before : exchanges[i].length = row.max_body_bytes
  <2>1. CASE RowTells(row, n - 1)
    BY <2>1 DEF RowTells
  <2>2. CASE /\ row = Summary!NewStats(exchanges[n])
             /\ CallsAmong(n - 1, row.endpoint) = {}
    BY <2>2, FS_EmptySet DEF Summary!NewStats
  <2>3. QED
    BY <2>1, <2>2
<1>5. /\ counted.endpoint = row.endpoint
      /\ counted.calls = row.calls + 1
      /\ counted.statuses = row.statuses \cup {e.status}
      /\ counted.json = (row.json \/ e.format = "json")
      /\ counted.max_body_bytes =
           IF e.length > row.max_body_bytes THEN e.length ELSE row.max_body_bytes
  BY <1>1, CountTyped
<1>6. row.json \in BOOLEAN /\ row.max_body_bytes \in Nat /\ e.length \in Nat
  BY <1>1, <1>2 DEF Row
<1> HIDE DEF counted, before, after
<1>7. counted.calls = Cardinality(after)
  BY <1>3, <1>4, <1>5
<1>8. counted.statuses = {exchanges[i].status : i \in after}
  BY <1>3, <1>4, <1>5
<1>9. counted.json <=> \E i \in after : exchanges[i].format = "json"
  BY <1>3, <1>4, <1>5, <1>6
<1>10. /\ \A i \in after : exchanges[i].length <= counted.max_body_bytes
       /\ \E i \in after : exchanges[i].length = counted.max_body_bytes
  <2>1. CASE e.length > row.max_body_bytes
    <3>1. counted.max_body_bytes = e.length
      BY <1>5, <2>1
    <3>2. QED
      BY <1>1, <1>2, <1>3, <1>4, <1>6, <2>1, <3>1
  <2>2. CASE ~(e.length > row.max_body_bytes)
    <3>1. counted.max_body_bytes = row.max_body_bytes /\ e.length <= row.max_body_bytes
      BY <1>5, <1>6, <2>2
    <3>2. \A i \in after : exchanges[i].length <= counted.max_body_bytes
      BY <1>3, <1>4, <3>1
    <3>3. \E i \in after : exchanges[i].length = counted.max_body_bytes
      <4>1. CASE row.max_body_bytes = 0
        <5>1. e.length = 0
          BY <1>6, <3>1, <4>1
        <5>2. QED
          BY <1>1, <3>1, <4>1, <5>1
      <4>2. CASE \E i \in before : exchanges[i].length = row.max_body_bytes
        BY <1>3, <3>1, <4>2
      <4>3. QED
        BY <1>4, <4>1, <4>2
    <3>4. QED
      BY <3>2, <3>3
  <2>3. QED
    BY <2>1, <2>2
<1>11. QED
  BY <1>5, <1>7, <1>8, <1>9, <1>10 DEF RowTells, counted, after

\* A row tells as much after an exchange that is not its own.
LEMMA OtherRowsTell ==
  ASSUME exchanges \in Seq(Summary!Exchange), NEW n \in 1..Len(exchanges),
         NEW row, row.endpoint # Summary!Endpoint(exchanges[n]), RowTells(row, n - 1)
  PROVE  RowTells(row, n)
<1>1. CallsAmong(n, row.endpoint) = CallsAmong(n - 1, row.endpoint)
  BY OneCallMore
<1>2. QED
  BY <1>1 DEF RowTells

\* Rows that tell of the exchanges before the n-th tell of the n-th when it is added.
LEMMA AddTells ==
  ASSUME exchanges \in Seq(Summary!Exchange), NEW n \in 1..Len(exchanges),
         NEW rows \in Seq(Row), Tells(rows, n - 1)
  PROVE  Tells(Summary!Add(rows, exchanges[n]), n)
<1> DEFINE e     == exchanges[n]
           known == {i \in DOMAIN rows : rows[i].endpoint = Summary!Endpoint(e)}
           after == Summary!Add(rows, e)
<1>1. e \in Summary!Exchange
  OBVIOUS
<1>2. DOMAIN rows = 1..Len(rows) /\ Len(rows) \in Nat
  OBVIOUS
<1>3. \A i \in 1..n : i = n \/ i \in 1..(n - 1)
  OBVIOUS
<1>4. CASE known = {}
  <2> DEFINE new == Summary!Count(Summary!NewStats(e), e)
             l   == Len(rows) + 1
  <2>1. after = Append(rows, new)
    BY <1>4 DEF Summary!Add
  <2>2. /\ DOMAIN after = (DOMAIN rows) \cup {l} /\ l \notin DOMAIN rows
        /\ after[l] = new /\ \A k \in DOMAIN rows : after[k] = rows[k]
    <3> HIDE DEF new, after
    <3>1. QED
      BY <1>2, <2>1
  <2>3. /\ Summary!NewStats(e) \in Row
        /\ Summary!NewStats(e).endpoint = Summary!Endpoint(e)
    BY <1>1, NewStatsTyped DEF Summary!NewStats
  <2>4. new.endpoint = Summary!Endpoint(e)
    BY <1>1, <2>3, CountTyped
  <2>5. \A k \in DOMAIN rows : rows[k].endpoint # Summary!Endpoint(e)
    BY <1>4
  <2>6. CallsAmong(n - 1, Summary!Endpoint(e)) = {}
    BY <2>5 DEF Tells, CallsAmong
  <2>7. RowTells(new, n)
    BY <2>3, <2>6, CountTells
  <2>8. \A k \in DOMAIN rows : RowTells(rows[k], n)
    BY <2>5, OtherRowsTell DEF Tells
  <2> HIDE DEF new, l, after, known
  <2>9. \A i \in 1..n : \E k \in DOMAIN after :
          after[k].endpoint = Summary!Endpoint(exchanges[i])
    <3> SUFFICES ASSUME NEW i \in 1..n
                 PROVE  \E k \in DOMAIN after :
                          after[k].endpoint = Summary!Endpoint(exchanges[i])
      OBVIOUS
    <3>1. CASE i = n
      BY <2>2, <2>4, <3>1
    <3>2. CASE i \in 1..(n - 1)
      <4>1. PICK k \in DOMAIN rows : rows[k].endpoint = Summary!Endpoint(exchanges[i])
        BY <3>2 DEF Tells
      <4>2. QED
        BY <2>2, <4>1
    <3>3. QED
      BY <1>3, <3>1, <3>2
  <2>10. \A j, k \in DOMAIN after : after[j].endpoint = after[k].endpoint => j = k
    BY <2>2, <2>4, <2>5 DEF Tells
  <2>11. \A k \in DOMAIN after : RowTells(after[k], n)
    BY <2>2, <2>7, <2>8
  <2>12. QED
    BY <2>9, <2>10, <2>11 DEF Tells, after
<1>5. CASE known # {}
  <2>1. after = [i \in DOMAIN rows |->
                   IF i \in known THEN Summary!Count(rows[i], e) ELSE rows[i]]
    BY <1>5 DEF Summary!Add
  <2>2. DOMAIN after = DOMAIN rows
    BY <2>1
  <2>3. \A k \in DOMAIN rows : after[k].endpoint = rows[k].endpoint
    <3> SUFFICES ASSUME NEW k \in DOMAIN rows
                 PROVE  after[k].endpoint = rows[k].endpoint
      OBVIOUS
    <3>1. Summary!Count(rows[k], e).endpoint = rows[k].endpoint
      BY <1>1, CountTyped
    <3> HIDE DEF known, after
    <3>2. QED
      BY <2>1, <3>1
  <2>4. \A k \in DOMAIN rows : RowTells(after[k], n)
    <3> SUFFICES ASSUME NEW k \in DOMAIN rows PROVE RowTells(after[k], n)
      OBVIOUS
    <3>1. rows[k] \in Row /\ RowTells(rows[k], n - 1)
      BY DEF Tells
    <3>2. CASE k \in known
      <4>1. after[k] = Summary!Count(rows[k], e)
        <5> HIDE DEF after, known
        <5>1. QED
          BY <2>1, <3>2
      <4>2. RowTells(Summary!Count(rows[k], e), n)
        BY <3>1, <3>2, CountTells
      <4>3. QED
        BY <4>1, <4>2
    <3>3. CASE k \notin known
      <4>1. after[k] = rows[k]
        <5> HIDE DEF after, known
        <5>1. QED
          BY <2>1, <3>3
      <4>2. RowTells(rows[k], n)
        BY <3>1, <3>3, OtherRowsTell
      <4>3. QED
        BY <4>1, <4>2
    <3>4. QED
      BY <3>2, <3>3
  <2>5. \A i \in 1..n : \E k \in DOMAIN rows :
          rows[k].endpoint = Summary!Endpoint(exchanges[i])
    <3> SUFFICES ASSUME NEW i \in 1..n
                 PROVE  \E k \in DOMAIN rows :
                          rows[k].endpoint = Summary!Endpoint(exchanges[i])
      OBVIOUS
    <3>1. CASE i = n
      BY <1>5, <3>1
    <3>2. CASE i \in 1..(n - 1)
      BY <3>2 DEF Tells
    <3>3. QED
      BY <1>3, <3>1, <3>2
  <2> HIDE DEF after, known
  <2>6. \A j, k \in DOMAIN after : after[j].endpoint = after[k].endpoint => j = k
    BY <2>2, <2>3 DEF Tells
  <2>7. QED
    BY <2>2, <2>3, <2>4, <2>5, <2>6 DEF Tells, after
<1>6. QED
  BY <1>4, <1>5

\* The rows of the summary, before they are sorted, tell of all exchanges.
LEMMA GroupedTells ==
  ASSUME exchanges \in Seq(Summary!Exchange)
  PROVE  LET rows == Summary!grouped(exchanges)
         IN  rows \in Seq(Row) /\ Tells(rows, Len(exchanges))
<1> DEFINE N      == Len(exchanges)
           rows   == Summary!Grouping(exchanges)
           Telling == {n \in 0..N : Tells(rows[n], n)}
<1>1. /\ N \in Nat /\ 0 \in 0..N /\ N \in 0..N
      /\ \A n \in 1..N : n \in 0..N /\ n - 1 \in 0..N
  OBVIOUS
<1>2. /\ rows \in [0..N -> Seq(Row)] /\ rows[0] = <<>>
      /\ \A n \in 1..N : rows[n] = Summary!Add(rows[n - 1], exchanges[n])
  BY RowsGrow
<1> HIDE DEF rows
<1>3. 0 \in Telling
  <2>1. Tells(<<>>, 0)
    BY DEF Tells
  <2>2. QED
    BY <1>1, <1>2, <2>1
<1>4. ASSUME NEW n \in 1..N, n - 1 \in Telling PROVE n \in Telling
  <2>1. rows[n - 1] \in Seq(Row) /\ Tells(rows[n - 1], n - 1)
    BY <1>1, <1>2, <1>4
  <2>2. Tells(Summary!Add(rows[n - 1], exchanges[n]), n)
    BY <2>1, AddTells
  <2>3. QED
    BY <1>1, <1>2, <2>2
<1>5. 0..N \subseteq Telling
  <2> HIDE DEF Telling, N
  <2>1. QED
    BY <1>1, <1>3, <1>4, InductionUpTo
<1>6. QED
  BY <1>1, <1>2, <1>5 DEF Summary!grouped, rows

-----------------------------------------------------------------------------
(* The order of the rows.                                                  *)

\* The places of the rows in the order of the sort: by the key, then as they were.
Sooner(rows) ==
  {at \in (DOMAIN rows) \X (DOMAIN rows) :
     \/ Summary!Before(rows[at[1]], rows[at[2]])
     \/ at[1] < at[2] /\ ~Summary!Before(rows[at[2]], rows[at[1]])}

\* Before is a strict weak order: irreflexive, transitive, and so is its absence.
LEMMA BeforeOrders ==
  ASSUME NEW r \in Row, NEW s \in Row, NEW t \in Row
  PROVE  /\ ~Summary!Before(r, r)
         /\ Summary!Before(r, s) => ~Summary!Before(s, r)
         /\ Summary!Before(r, s) /\ ~Summary!Before(t, s) => Summary!Before(r, t)
         /\ ~Summary!Before(s, r) /\ Summary!Before(s, t) => Summary!Before(r, t)
         /\ ~Summary!Before(s, r) /\ ~Summary!Before(t, s) => ~Summary!Before(t, r)
<1>1. /\ r.json \in BOOLEAN /\ s.json \in BOOLEAN /\ t.json \in BOOLEAN
      /\ r.max_body_bytes \in Nat /\ s.max_body_bytes \in Nat
      /\ t.max_body_bytes \in Nat
  BY DEF Row
<1>2. QED
  BY <1>1 DEF Summary!Before

\* With the places to break the ties, it is a strict total order.
LEMMA SoonerOrders ==
  ASSUME NEW rows \in Seq(Row)
  PROVE  Orders(Sooner(rows), Len(rows))
<1> DEFINE N     == Len(rows)
           Less  == Sooner(rows)
           B(i, j) == Summary!Before(rows[i], rows[j])
<1>1. DOMAIN rows = 1..N /\ \A i \in 1..N : rows[i] \in Row
  OBVIOUS
<1>2. \A i, j \in 1..N : <<i, j>> \in Less <=> B(i, j) \/ (i < j /\ ~B(j, i))
  BY <1>1 DEF Sooner
<1>3. \A i, j, k \in 1..N : /\ ~B(i, i)
                            /\ B(i, j) => ~B(j, i)
                            /\ B(i, j) /\ ~B(k, j) => B(i, k)
                            /\ ~B(j, i) /\ B(j, k) => B(i, k)
                            /\ ~B(j, i) /\ ~B(k, j) => ~B(k, i)
  BY <1>1, BeforeOrders
<1> HIDE DEF B, Less
<1>4. \A i \in 1..N : <<i, i>> \notin Less
  BY <1>2, <1>3
<1>5. ASSUME NEW i \in 1..N, NEW j \in 1..N
      PROVE  i = j \/ <<i, j>> \in Less \/ <<j, i>> \in Less
  <2>1. i = j \/ i < j \/ j < i
    BY <1>1
  <2>2. QED
    BY <1>2, <2>1
<1>6. ASSUME NEW i \in 1..N, NEW j \in 1..N, NEW k \in 1..N,
             <<i, j>> \in Less, <<j, k>> \in Less
      PROVE  <<i, k>> \in Less
  <2>1. ~B(j, i) /\ ~B(k, j)
    BY <1>2, <1>3, <1>6
  <2>2. CASE B(i, j) \/ B(j, k)
    BY <1>2, <1>3, <2>1, <2>2
  <2>3. CASE ~B(i, j) /\ ~B(j, k)
    <3>1. i < j /\ j < k
      BY <1>2, <1>6, <2>3
    <3>2. i < k
      BY <3>1
    <3>3. ~B(k, i)
      BY <1>3, <2>1
    <3>4. QED
      BY <1>2, <3>2, <3>3
  <2>4. QED
    BY <2>2, <2>3
<1>7. QED
  BY <1>4, <1>5, <1>6 DEF Orders, Less

\* The summary has each of the grouped rows once, and none before one that the
\* sort puts before it.
LEMMA SummarySorts ==
  ASSUME exchanges \in Seq(Summary!Exchange)
  PROVE  LET rows  == Summary!grouped(exchanges)
             table == Summary!ranked(exchanges)
             N     == Len(rows)
         IN  /\ table \in Seq(Row) /\ DOMAIN table = 1..N /\ Len(table) = N
             /\ \E places \in [1..N -> 1..N] :
                  /\ \A k \in 1..N : table[k] = rows[places[k]]
                  /\ \A j, k \in 1..N : places[j] = places[k] => j = k
                  /\ \A i \in 1..N : \E k \in 1..N : places[k] = i
             /\ \A j, k \in 1..N : j < k => ~Summary!Before(table[k], table[j])
<1> DEFINE rows  == Summary!grouped(exchanges)
           table == Summary!ranked(exchanges)
           N     == Len(rows)
           Less  == Sooner(rows)
           rank  == Ranking(Less, N)
           at    == [k \in 1..N |-> CHOOSE i \in 1..N : rank[i] = k]
<1>1. rows \in Seq(Row)
  BY GroupedTells
<1> HIDE DEF rows
<1>2. N \in Nat /\ DOMAIN rows = 1..N /\ \A i \in 1..N : rows[i] \in Row
  BY <1>1
<1>3. Orders(Less, N)
  BY <1>1, SoonerOrders
<1>4. /\ rank \in [1..N -> 1..N]
      /\ \A i, j \in 1..N : <<i, j>> \in Less => rank[i] < rank[j]
      /\ \A i, j \in 1..N : rank[i] = rank[j] => i = j
      /\ \A k \in 1..N : \E i \in 1..N : rank[i] = k
  <2> HIDE DEF N, Less
  <2>1. QED
    BY <1>2, <1>3, Ranks
<1>5. \A i \in 1..N : Summary!Rank(rows, i) = rank[i]
  <2> SUFFICES ASSUME NEW i \in 1..N PROVE Summary!Rank(rows, i) = rank[i]
    OBVIOUS
  <2>1. {j \in DOMAIN rows : \/ Summary!Before(rows[j], rows[i])
                             \/ j < i /\ ~Summary!Before(rows[i], rows[j])}
          = {j \in 1..N : <<j, i>> \in Less}
    BY <1>2 DEF Sooner
  <2>2. QED
    BY <2>1, SameCardinality DEF Summary!Rank, Ranking
<1>6. table = [k \in 1..N |-> rows[CHOOSE i \in 1..N : Summary!Rank(rows, i) = k]]
  BY <1>2 DEF Summary!ranked, rows
<1> HIDE DEF rank, N, Less
<1>7. \A k \in 1..N : at[k] \in 1..N /\ rank[at[k]] = k
  BY <1>4
<1>8. \A k \in 1..N : table[k] = rows[at[k]]
  <2> SUFFICES ASSUME NEW k \in 1..N PROVE table[k] = rows[at[k]]
    OBVIOUS
  <2>1. (CHOOSE i \in 1..N : Summary!Rank(rows, i) = k)
          = (CHOOSE i \in 1..N : rank[i] = k)
    BY <1>5
  <2>2. table[k] = rows[CHOOSE i \in 1..N : Summary!Rank(rows, i) = k]
    BY <1>6
  <2>3. QED
    BY <2>1, <2>2
<1>9. DOMAIN table = 1..N
  BY <1>6
<1>10. at \in [1..N -> 1..N]
  BY <1>7
<1> HIDE DEF at, table
<1>11. table \in Seq(Row) /\ Len(table) = N
  <2>1. \A k \in 1..N : table[k] \in Row
    BY <1>2, <1>7, <1>8
  <2>2. table = [k \in 1..N |-> table[k]]
    BY <1>6 DEF table
  <2>3. table \in [1..N -> Row]
    BY <2>1, <2>2
  <2>4. QED
    BY <1>2, <2>3
<1>12. \A j, k \in 1..N : at[j] = at[k] => j = k
  <2> SUFFICES ASSUME NEW j \in 1..N, NEW k \in 1..N, at[j] = at[k] PROVE j = k
    OBVIOUS
  <2>1. rank[at[j]] = j /\ rank[at[k]] = k
    BY <1>7
  <2>2. QED
    BY <2>1
<1>13. \A i \in 1..N : \E k \in 1..N : at[k] = i
  <2> SUFFICES ASSUME NEW i \in 1..N PROVE \E k \in 1..N : at[k] = i
    OBVIOUS
  <2>1. rank[i] \in 1..N
    BY <1>4
  <2>2. at[rank[i]] \in 1..N /\ rank[at[rank[i]]] = rank[i]
    BY <1>7, <2>1
  <2>3. \A j \in 1..N : rank[j] = rank[i] => j = i
    BY <1>4
  <2>4. at[rank[i]] = i
    BY <2>2, <2>3
  <2>5. QED
    BY <2>1, <2>4
<1>14. ASSUME NEW j \in 1..N, NEW k \in 1..N, j < k
       PROVE  ~Summary!Before(table[k], table[j])
  <2> SUFFICES ASSUME Summary!Before(rows[at[k]], rows[at[j]]) PROVE FALSE
    BY <1>8
  <2>1. <<at[k], at[j]>> \in Less
    BY <1>2, <1>7 DEF Sooner, Less
  <2>2. /\ at[j] \in 1..N /\ at[k] \in 1..N
        /\ rank[at[j]] = j /\ rank[at[k]] = k
    BY <1>7
  <2>3. k < j
    <3>1. \A x, y \in 1..N : <<x, y>> \in Less => rank[x] < rank[y]
      BY <1>4
    <3>2. rank[at[k]] < rank[at[j]]
      BY <2>1, <2>2, <3>1
    <3>3. QED
      BY <2>2, <3>2
  <2>4. j \in Int /\ k \in Int /\ j < k
    BY <1>2, <1>14 DEF N
  <2>5. QED
    BY <2>3, <2>4
<1>15. \E places \in [1..N -> 1..N] :
          /\ \A k \in 1..N : table[k] = rows[places[k]]
          /\ \A j, k \in 1..N : places[j] = places[k] => j = k
          /\ \A i \in 1..N : \E k \in 1..N : places[k] = i
  BY <1>8, <1>10, <1>12, <1>13
<1>16. QED
  BY <1>9, <1>11, <1>14, <1>15 DEF N, table, rows

\* So the summary tells of all exchanges too.
LEMMA SummaryTells ==
  ASSUME exchanges \in Seq(Summary!Exchange)
  PROVE  LET table == Summary!ranked(exchanges)
         IN  table \in Seq(Row) /\ Tells(table, Len(exchanges))
<1> DEFINE rows  == Summary!grouped(exchanges)
           table == Summary!ranked(exchanges)
           N     == Len(rows)
           C     == Len(exchanges)
<1>1. rows \in Seq(Row) /\ Tells(rows, C)
  BY GroupedTells
<1>2. /\ table \in Seq(Row) /\ DOMAIN table = 1..N
      /\ \E places \in [1..N -> 1..N] :
           /\ \A k \in 1..N : table[k] = rows[places[k]]
           /\ \A j, k \in 1..N : places[j] = places[k] => j = k
           /\ \A i \in 1..N : \E k \in 1..N : places[k] = i
  BY SummarySorts
<1>3. PICK places \in [1..N -> 1..N] :
        /\ \A k \in 1..N : table[k] = rows[places[k]]
        /\ \A j, k \in 1..N : places[j] = places[k] => j = k
        /\ \A i \in 1..N : \E k \in 1..N : places[k] = i
  BY <1>2
<1> HIDE DEF rows, table, C
<1>4. DOMAIN rows = 1..N
  BY <1>1
<1> HIDE DEF N
<1>5. \A i \in 1..C : \E k \in DOMAIN table :
        table[k].endpoint = Summary!Endpoint(exchanges[i])
  <2> SUFFICES ASSUME NEW i \in 1..C
               PROVE  \E k \in DOMAIN table :
                        table[k].endpoint = Summary!Endpoint(exchanges[i])
    OBVIOUS
  <2>1. PICK j \in 1..N : rows[j].endpoint = Summary!Endpoint(exchanges[i])
    BY <1>1, <1>4 DEF Tells
  <2>2. PICK k \in 1..N : places[k] = j
    BY <1>3
  <2>3. k \in DOMAIN table /\ table[k] = rows[j]
    BY <1>2, <1>3, <2>2
  <2>4. QED
    BY <2>1, <2>3
<1>6. \A j, k \in DOMAIN table : table[j].endpoint = table[k].endpoint => j = k
  <2> SUFFICES ASSUME NEW j \in 1..N, NEW k \in 1..N,
                      table[j].endpoint = table[k].endpoint
               PROVE  j = k
    BY <1>2
  <2>1. rows[places[j]].endpoint = rows[places[k]].endpoint
    BY <1>3
  <2>2. places[j] = places[k]
    BY <1>1, <1>3, <1>4, <2>1 DEF Tells
  <2>3. QED
    BY <1>3, <2>2
<1>7. \A k \in DOMAIN table : RowTells(table[k], C)
  <2> SUFFICES ASSUME NEW k \in 1..N PROVE RowTells(table[k], C)
    BY <1>2
  <2>1. RowTells(rows[places[k]], C)
    BY <1>1, <1>4 DEF Tells
  <2>2. QED
    BY <1>3, <2>1
<1>8. QED
  BY <1>2, <1>5, <1>6, <1>7 DEF Tells, table, C

\* The largest body that a row tells of is the largest of its endpoint.
LEMMA LargestTold ==
  ASSUME exchanges \in Seq(Summary!Exchange), NEW row \in Row,
         RowTells(row, Len(exchanges))
  PROVE  /\ CallsOf(row.endpoint) = CallsAmong(Len(exchanges), row.endpoint)
         /\ CallsOf(row.endpoint) # {}
         /\ row.max_body_bytes = Largest(row.endpoint)
<1> DEFINE calls   == CallsOf(row.endpoint)
           lengths == {exchanges[i].length : i \in calls}
<1>1. calls = CallsAmong(Len(exchanges), row.endpoint)
  BY DEF CallsOf, CallsAmong
<1>2. /\ \A i \in calls : exchanges[i].length <= row.max_body_bytes
      /\ \E i \in calls : exchanges[i].length = row.max_body_bytes
  BY <1>1 DEF RowTells
<1>3. row.max_body_bytes \in Nat /\ \A i \in calls : exchanges[i].length \in Nat
  BY ExchangeTyped DEF Row, CallsOf
<1> HIDE DEF calls
<1>4. row.max_body_bytes \in lengths
  BY <1>2
<1>5. \A n \in lengths :
        (\A i \in calls : exchanges[i].length <= n) => n = row.max_body_bytes
  BY <1>2, <1>3
<1>6. row.max_body_bytes =
        CHOOSE n \in lengths : \A i \in calls : exchanges[i].length <= n
  BY <1>2, <1>4, <1>5
<1>7. QED
  BY <1>1, <1>2, <1>6 DEF Largest, calls

\* Redaction leaves a path that has nothing shaped apart from all others.
LEMMA KeptApart ==
  ASSUME NEW d \in Exchanges, NEW e \in Exchanges,
         Summary!Kept(d), Summary!Endpoint(e) = Summary!Endpoint(d)
  PROVE  e.path = d.path
<1>1. /\ d.path \in Seq(STRING) /\ e.path \in Seq(STRING)
      /\ \A i \in DOMAIN d.path : d.path[i] # Summary!REDACTED
  BY ReportsAssumption DEF Summary!Exchange
<1>2. Summary!RedactedPath(e) = Summary!RedactedPath(d)
  BY DEF Summary!Endpoint
<1>3. DOMAIN e.path = DOMAIN d.path
  BY <1>2 DEF Summary!RedactedPath
<1>4. \A i \in DOMAIN d.path : e.path[i] = d.path[i]
  <2> SUFFICES ASSUME NEW i \in DOMAIN d.path PROVE e.path[i] = d.path[i]
    OBVIOUS
  <2>1. d.path[i] = Summary!RedactedPath(d)[i]
    BY DEF Summary!Kept, Summary!RedactedPath
  <2>2. Summary!RedactedPath(e)[i]
          = IF e.path[i] \in ShapedSegment THEN Summary!REDACTED ELSE e.path[i]
    BY <1>3 DEF Summary!RedactedPath
  <2>3. QED
    BY <1>1, <1>2, <2>1, <2>2
<1>5. QED
  BY <1>1, <1>3, <1>4

\* discover's rows tell of all calls.
LEMMA TableIsComplete ==
  ASSUME exchanges \in Seq(Summary!Exchange), exchanges \in Seq(Exchanges)
  PROVE  RowsTellOfAllCalls
<1> SUFFICES ASSUME ~Failed PROVE RowsTellOfAllCalls
  BY DEF RowsTellOfAllCalls
<1> DEFINE table == Summary!summary(exchanges)
           N     == Len(exchanges)
<1>1. table \in Seq(Row) /\ Tells(table, N)
  BY SummaryTells DEF Failed, Summary!summary
<1>2. DOMAIN exchanges = 1..N
  OBVIOUS
<1> HIDE DEF table
<1>3. ASSUME NEW k \in DOMAIN table
      PROVE  LET calls == CallsOf(table[k].endpoint)
             IN  /\ calls # {} /\ table[k].calls = Cardinality(calls)
                 /\ table[k].statuses = {exchanges[i].status : i \in calls}
                 /\ table[k].json <=> \E i \in calls : exchanges[i].format = "json"
                 /\ table[k].max_body_bytes = Largest(table[k].endpoint)
  <2>1. table[k] \in Row /\ RowTells(table[k], N)
    BY <1>1 DEF Tells
  <2>2. /\ CallsOf(table[k].endpoint) = CallsAmong(N, table[k].endpoint)
        /\ CallsOf(table[k].endpoint) # {}
        /\ table[k].max_body_bytes = Largest(table[k].endpoint)
    BY <2>1, LargestTold
  <2>3. QED
    BY <2>1, <2>2 DEF RowTells
<1>4. \A i, j \in DOMAIN exchanges :
        /\ Summary!Kept(exchanges[i])
        /\ Summary!Endpoint(exchanges[j]) = Summary!Endpoint(exchanges[i])
        => exchanges[j].path = exchanges[i].path
  BY KeptApart
<1>5. QED
  BY <1>1, <1>2, <1>3, <1>4 DEF RowsTellOfAllCalls, Tells, table

\* An endpoint with JSON is cut off only by as many that are at least as likely.
LEMMA TopOfTable ==
  ASSUME exchanges \in Seq(Summary!Exchange), Shown \in Nat
  PROVE  LikeliestShown
<1> SUFFICES ASSUME ~Failed PROVE LikeliestShown
  BY DEF LikeliestShown
<1> DEFINE table == Summary!summary(exchanges)
           N     == Len(table)
           M     == IF N < Shown THEN N ELSE Shown
<1>1. table \in Seq(Row) /\ Tells(table, Len(exchanges))
  BY SummaryTells DEF Failed, Summary!summary
<1>2. \A j, k \in DOMAIN table : j < k => ~Summary!Before(table[k], table[j])
  BY SummarySorts DEF Failed, Summary!summary
<1>3. Table = SubSeq(table, 1, M)
  BY DEF Table
<1> HIDE DEF table
<1>4. /\ M \in Nat /\ DOMAIN Table = 1..M /\ Len(Table) = M
      /\ \A k \in 1..M : Table[k] = table[k] /\ k \in DOMAIN table
      /\ DOMAIN table = 1..N /\ N \in Nat
  BY <1>1, <1>3
<1>5. SUFFICES ASSUME NEW i \in DOMAIN exchanges, exchanges[i].format = "json",
                      \A k \in DOMAIN Table :
                        Table[k].endpoint # Summary!Endpoint(exchanges[i])
               PROVE  /\ Len(Table) = Shown
                      /\ \A k \in DOMAIN Table :
                           /\ Table[k].json
                           /\ Table[k].max_body_bytes
                                >= Largest(Summary!Endpoint(exchanges[i]))
  BY DEF LikeliestShown
<1>6. PICK r \in DOMAIN table : table[r].endpoint = Summary!Endpoint(exchanges[i])
  BY <1>1 DEF Tells
<1>7. table[r] \in Row /\ RowTells(table[r], Len(exchanges))
  BY <1>1 DEF Tells
<1>8. table[r].json
  BY <1>6, <1>7, <1>5 DEF RowTells, CallsAmong
<1>9. table[r].max_body_bytes = Largest(Summary!Endpoint(exchanges[i]))
  BY <1>6, <1>7, LargestTold
<1>10. r \notin 1..M
  BY <1>4, <1>5, <1>6
<1>11. M = Shown /\ \A k \in 1..M : k < r
  <2>1. r \in 1..N /\ r \notin 1..M
    BY <1>4, <1>6, <1>10
  <2>2. N \in Nat
    BY <1>4
  <2> HIDE DEF N
  <2>3. QED
    BY <2>1, <2>2
<1>12. ASSUME NEW k \in 1..M
       PROVE  table[k].json /\ table[k].max_body_bytes >= table[r].max_body_bytes
  <2>1. table[k] \in Row /\ k \in DOMAIN table
    BY <1>1, <1>4
  <2>2. ~Summary!Before(table[r], table[k])
    BY <1>2, <1>6, <1>11, <2>1
  <2>3. /\ table[k].json \in BOOLEAN /\ table[k].max_body_bytes \in Nat
        /\ table[r].json \in BOOLEAN /\ table[r].max_body_bytes \in Nat
    BY <1>7, <2>1 DEF Row
  <2>4. table[k].json
    BY <1>8, <2>2 DEF Summary!Before
  <2>5. ~(table[r].max_body_bytes > table[k].max_body_bytes)
    BY <1>8, <2>2, <2>3, <2>4 DEF Summary!Before
  <2>6. QED
    BY <2>3, <2>4, <2>5
<1>13. QED
  BY <1>4, <1>9, <1>11, <1>12

-----------------------------------------------------------------------------
(* What the two commands print.                                            *)

\* The type invariant of Reports.
ReportsTypeOK ==
  /\ now \in Nat
  /\ stored \in States \cup {None}
  /\ exchanges \in Seq(Exchanges)

\* What is read of the clock, of the store and of the recorder is of its kind.
THEOREM ReportsTyped == ReportsSpec => []ReportsTypeOK
<1>1. ReportsInit => ReportsTypeOK
  BY DEF ReportsInit, ReportsTypeOK
<1>2. ReportsTypeOK /\ [ReportsNext]_reportsVars => ReportsTypeOK'
  <2> SUFFICES ASSUME ReportsTypeOK, [ReportsNext]_reportsVars PROVE ReportsTypeOK'
    OBVIOUS
  <2> USE DEF ReportsTypeOK
  <2>1. CASE Tick
    BY <2>1 DEF Tick
  <2>2. CASE \E state \in States : Login(state)
    BY <2>2 DEF Login
  <2>3. CASE Clear
    BY <2>3 DEF Clear
  <2>4. CASE \E e \in Exchanges : Record(e)
    BY <2>4 DEF Record
  <2>5. CASE StartOver
    BY <2>5 DEF StartOver
  <2>6. CASE UNCHANGED reportsVars
    BY <2>6 DEF reportsVars
  <2>7. QED
    BY <2>1, <2>2, <2>3, <2>4, <2>5, <2>6 DEF ReportsNext
<1>3. QED
  BY <1>1, <1>2, PTL DEF ReportsSpec

\* So it is what the two commands can read.
LEMMA Readable ==
  ASSUME ReportsTypeOK
  PROVE  /\ now \in Nat
         /\ stored # None => stored \in Session!StorageState
         /\ exchanges \in Seq(Summary!Exchange)
<1>1. \A i \in DOMAIN exchanges : exchanges[i] \in Summary!Exchange
  BY ReportsAssumption DEF ReportsTypeOK
<1>2. exchanges \in Seq(Summary!Exchange)
  BY <1>1 DEF ReportsTypeOK
<1>3. QED
  BY <1>2, ReportsAssumption DEF ReportsTypeOK

\* session status: "Every persistent cookie has passed its expiry." is printed only
\* when the date above it, the earliest expiry, has come and no persistent cookie is
\* alive; without the hint one is alive, or there is no date; before the date nothing
\* has expired; and there is no date only when no cookie is persistent
\* (cli.py:325, session/store.py:58).
THEOREM StatusAgreesWithItself == ReportsSpec => []HintAgreesWithDate
<1>1. ReportsTypeOK => HintAgreesWithDate
  BY Readable, StatusIsConsistent DEF HintAgreesWithDate
<1>2. QED
  BY <1>1, ReportsTyped, PTL

\* session status lists every cookie and every key of the local storage, each as
\* often as it is stored (session/store.py:58).
THEOREM StatusLeavesNothingOut == ReportsSpec => []NothingLeftOut
<1>1. ReportsTypeOK => NothingLeftOut
  BY Readable, StatusIsComplete DEF NothingLeftOut
<1>2. QED
  BY <1>1, ReportsTyped, PTL

\* discover: when the urls parse, every redacted endpoint has one row, which tells of
\* all of its calls, and of no other path's when nothing in its path is redacted
\* (capture.py:107, capture.py:112).
THEOREM EveryCallIsTold == ReportsSpec => []RowsTellOfAllCalls
<1>1. ReportsTypeOK => RowsTellOfAllCalls
  BY Readable, TableIsComplete DEF ReportsTypeOK
<1>2. QED
  BY <1>1, ReportsTyped, PTL

\* discover: "the saved-items call is near the top" (capture.py:135): when the urls
\* parse, what is cut off is no likelier than what is printed.
THEOREM LikeliestIsPrinted == ReportsSpec => []LikeliestShown
<1>1. ReportsTypeOK => LikeliestShown
  BY Readable, TopOfTable, ReportsAssumption
<1>2. QED
  BY <1>1, ReportsTyped, PTL

-----------------------------------------------------------------------------
(* Values to redact.                                                       *)

\* There are values of every nesting.
LEMMA NestedIs ==
  ASSUME NEW leaves, NEW kinds, MaxNesting \in Nat
  PROVE  LET values == Nested(leaves, kinds)
         IN  /\ values[0] = leaves
             /\ \A n \in 1..MaxNesting :
                  values[n] = leaves \cup Containers(values[n - 1], kinds)
<1> DEFINE Is(n, f) == f = [m \in 0..n |-> IF m = 0 THEN leaves
                                          ELSE leaves \cup Containers(f[m - 1], kinds)]
           Made     == {n \in 0..MaxNesting : \E f : Is(n, f)}
<1>1. 0 \in Made
  <2>1. Is(0, [m \in 0..0 |-> leaves])
    OBVIOUS
  <2> HIDE DEF Is
  <2>2. QED
    BY <2>1
<1>2. ASSUME NEW n \in 1..MaxNesting, n - 1 \in Made PROVE n \in Made
  <2>1. PICK f : Is(n - 1, f)
    BY <1>2
  <2> DEFINE g == [m \in 0..n |->
                     IF m = n THEN leaves \cup Containers(f[n - 1], kinds) ELSE f[m]]
  <2>2. ASSUME NEW m \in 0..n
        PROVE  g[m] = IF m = 0 THEN leaves ELSE leaves \cup Containers(g[m - 1], kinds)
    <3>1. CASE m = n
      <4>1. m # 0 /\ n - 1 \in 0..n /\ n - 1 # n /\ m - 1 = n - 1
        BY <3>1
      <4>2. g[m - 1] = f[n - 1] /\ g[m] = leaves \cup Containers(f[n - 1], kinds)
        BY <3>1, <4>1
      <4>3. QED
        BY <4>1, <4>2
    <3>2. CASE m # n
      <4>1. m \in 0..(n - 1) /\ g[m] = f[m]
        BY <3>2
      <4>2. m # 0 => m - 1 \in 0..n /\ m - 1 # n /\ g[m - 1] = f[m - 1]
        BY <4>1
      <4> HIDE DEF g
      <4>3. QED
        BY <2>1, <4>1, <4>2
    <3>3. QED
      BY <3>1, <3>2
  <2>3. g = [m \in 0..n |-> g[m]]
    OBVIOUS
  <2> HIDE DEF g
  <2>4. Is(n, g)
    BY <2>2, <2>3
  <2> HIDE DEF Is
  <2>5. QED
    BY <2>4
<1>3. MaxNesting \in Made
  <2> HIDE DEF Made
  <2>1. QED
    BY <1>1, <1>2, InductionUpTo
<1>4. Is(MaxNesting, Nested(leaves, kinds))
  <2>1. Nested(leaves, kinds) = CHOOSE f : Is(MaxNesting, f)
    BY DEF Nested
  <2> HIDE DEF Is
  <2>2. QED
    BY <1>3, <2>1
<1> DEFINE values == Nested(leaves, kinds)
<1> HIDE DEF values
<1>5. values[0] = leaves
  BY <1>4 DEF values
<1>6. ASSUME NEW n \in 1..MaxNesting
      PROVE  values[n] = leaves \cup Containers(values[n - 1], kinds)
  <2>1. n \in 0..MaxNesting /\ n # 0
    OBVIOUS
  <2>2. QED
    BY <1>4, <2>1 DEF values
<1>7. QED
  BY <1>5, <1>6 DEF values

\* What is in a container, and what makes one.
LEMMA ContainerCases ==
  ASSUME NEW S, NEW kinds, NEW v
  PROVE  v \in Containers(S, kinds) <=>
           /\ v.kind \in kinds
           /\ \/ v.kind = "map" /\ v = Map(v.pairs) /\ v.pairs \in Seq(FieldName \X S)
              \/ v.kind = "list" /\ v = List(v.items) /\ v.items \in Seq(S)
              \/ v.kind = "set" /\ v = Unordered(v.members) /\ v.members \in SUBSET S
BY DEF Containers, Map, List, Unordered

\* What is put into a container of each kind.
LEMMA ContainersMade ==
  ASSUME NEW S, NEW kinds
  PROVE  /\ "map" \in kinds =>
              \A pairs \in Seq(FieldName \X S) : Map(pairs) \in Containers(S, kinds)
         /\ "list" \in kinds =>
              \A items \in Seq(S) : List(items) \in Containers(S, kinds)
         /\ "set" \in kinds =>
              \A members \in SUBSET S : Unordered(members) \in Containers(S, kinds)
BY DEF Containers, Map, List, Unordered

\* The leaves of values and of JSON texts.
AnyLeaf == Leaf \cup {Garbled}

\* A leaf is of one of four kinds.
LEMMA LeafCases ==
  ASSUME NEW v \in Leaf
  PROVE  \/ v.kind = "scalar" /\ v = Scalar(v.number) /\ v.number \in Nat
         \/ v.kind = "text" /\ v = Text(v.pieces) /\ v.pieces \in SUBSET Piece
         \/ v.kind = "bytes" /\ v = Bytes(v.size) /\ v.size \in Nat
         \/ v.kind = "object" /\ v = Object(v.repr) /\ v.repr \in SUBSET Piece
BY DEF Leaf, Scalar, Text, Bytes, Object

\* No leaf is a container.
LEMMA LeafKinds ==
  ASSUME NEW v \in AnyLeaf PROVE v.kind \notin {"map", "list", "set"}
BY LeafCases DEF AnyLeaf, Garbled

\* Containers of more values are more containers.
LEMMA MoreContainers ==
  ASSUME NEW S, NEW T, S \subseteq T, NEW kinds, NEW more, kinds \subseteq more
  PROVE  Containers(S, kinds) \subseteq Containers(T, more)
<1> SUFFICES ASSUME NEW v \in Containers(S, kinds) PROVE v \in Containers(T, more)
  OBVIOUS
<1>1. \A s \in Seq(S) : s \in Seq(T)
  OBVIOUS
<1>2. \A s \in Seq(FieldName \X S) : s \in Seq(FieldName \X T)
  OBVIOUS
<1>3. v.kind \in kinds /\ v.kind \in more
  BY ContainerCases
<1>4. CASE v.kind = "map"
  <2>1. v = Map(v.pairs) /\ v.pairs \in Seq(FieldName \X S)
    BY <1>4, ContainerCases
  <2>2. QED
    BY <1>2, <1>3, <1>4, <2>1, ContainerCases
<1>5. CASE v.kind = "list"
  <2>1. v = List(v.items) /\ v.items \in Seq(S)
    BY <1>5, ContainerCases
  <2>2. QED
    BY <1>1, <1>3, <1>5, <2>1, ContainerCases
<1>6. CASE v.kind = "set"
  <2>1. v = Unordered(v.members) /\ v.members \in SUBSET S
    BY <1>6, ContainerCases
  <2>2. QED
    BY <1>3, <1>6, <2>1, ContainerCases
<1>7. v.kind = "map" \/ v.kind = "list" \/ v.kind = "set"
  BY ContainerCases
<1>8. QED
  BY <1>4, <1>5, <1>6, <1>7

\* Values of more leaves and of more kinds of containers are more values.
LEMMA MoreValues ==
  ASSUME MaxNesting \in Nat,
         NEW leaves, NEW more, leaves \subseteq more,
         NEW kinds, NEW others, kinds \subseteq others,
         NEW n \in 0..MaxNesting
  PROVE  Nested(leaves, kinds)[n] \subseteq Nested(more, others)[n]
<1> DEFINE few  == Nested(leaves, kinds)
           many == Nested(more, others)
           Less == {m \in 0..MaxNesting : few[m] \subseteq many[m]}
<1>1. /\ few[0] = leaves /\ many[0] = more
      /\ \A m \in 1..MaxNesting :
           /\ few[m] = leaves \cup Containers(few[m - 1], kinds)
           /\ many[m] = more \cup Containers(many[m - 1], others)
  BY NestedIs
<1> HIDE DEF few, many
<1>2. 0 \in Less
  BY <1>1
<1>3. ASSUME NEW m \in 1..MaxNesting, m - 1 \in Less PROVE m \in Less
  <2>1. Containers(few[m - 1], kinds) \subseteq Containers(many[m - 1], others)
    BY <1>3, MoreContainers
  <2>2. QED
    BY <1>1, <2>1
<1>4. 0..MaxNesting \subseteq Less
  <2> HIDE DEF Less
  <2>1. QED
    BY <1>2, <1>3, InductionUpTo
<1>5. QED
  BY <1>4 DEF few, many

\* The values of a nesting are among those of each deeper one.
LEMMA DeeperValues ==
  ASSUME MaxNesting \in Nat, NEW leaves, NEW kinds, NEW n \in 0..MaxNesting
  PROVE  /\ n # 0 => Nested(leaves, kinds)[n - 1] \subseteq Nested(leaves, kinds)[n]
         /\ Nested(leaves, kinds)[n] \subseteq Nested(leaves, kinds)[MaxNesting]
<1> DEFINE values == Nested(leaves, kinds)
           Grown  == {m \in 0..MaxNesting : m # 0 => values[m - 1] \subseteq values[m]}
           Within == {m \in 0..MaxNesting :
                        \A k \in 0..m : values[k] \subseteq values[m]}
<1>1. /\ values[0] = leaves
      /\ \A m \in 1..MaxNesting :
           values[m] = leaves \cup Containers(values[m - 1], kinds)
  BY NestedIs
<1> HIDE DEF values
<1>2. 0..MaxNesting \subseteq Grown
  <2>1. 0 \in Grown
    OBVIOUS
  <2>2. ASSUME NEW m \in 1..MaxNesting, m - 1 \in Grown PROVE m \in Grown
    <3>1. CASE m = 1
      <4>1. values[m - 1] = leaves /\ leaves \subseteq values[m]
        BY <1>1, <3>1
      <4>2. QED
        BY <4>1
    <3>2. CASE m # 1
      <4>1. m - 1 \in 1..MaxNesting /\ m - 1 # 0 /\ m \in 0..MaxNesting
        BY <3>2
      <4>2. values[m - 1 - 1] \subseteq values[m - 1]
        BY <2>2, <4>1
      <4>3. Containers(values[m - 1 - 1], kinds)
              \subseteq Containers(values[m - 1], kinds)
        BY <4>2, MoreContainers
      <4>4. values[m - 1] \subseteq values[m]
        BY <1>1, <4>1, <4>3
      <4>5. QED
        BY <4>1, <4>4
    <3>3. QED
      BY <3>1, <3>2
  <2> HIDE DEF Grown
  <2>3. QED
    BY <2>1, <2>2, InductionUpTo
<1>3. 0..MaxNesting \subseteq Within
  <2>1. 0 \in Within
    OBVIOUS
  <2>2. ASSUME NEW m \in 1..MaxNesting, m - 1 \in Within PROVE m \in Within
    <3>1. values[m - 1] \subseteq values[m] /\ m \in 0..MaxNesting
      BY <1>2
    <3>2. \A k \in 0..m : k = m \/ k \in 0..(m - 1)
      OBVIOUS
    <3>3. QED
      BY <2>2, <3>1, <3>2
  <2> HIDE DEF Within
  <2>3. QED
    BY <2>1, <2>2, InductionUpTo
<1>4. MaxNesting \in Within /\ n \in Grown
  BY <1>2, <1>3
<1>5. QED
  BY <1>4 DEF values

\* The steps into a value.
WayStep == ({"key"} \X FieldName) \cup ({"item"} \X Nat) \cup {<<"member">>}

\* What a value contains is less nested; a leaf contains nothing.
LEMMA ChildrenNested ==
  ASSUME MaxNesting \in Nat, NEW leaves \in SUBSET AnyLeaf, NEW kinds,
         NEW n \in 0..MaxNesting, NEW v \in Nested(leaves, kinds)[n],
         NEW child \in Children(v)
  PROVE  /\ n # 0 /\ child[2] \in Nested(leaves, kinds)[n - 1]
         /\ child[1] \in WayStep /\ child = <<child[1], child[2]>>
<1> DEFINE S == Nested(leaves, kinds)[n - 1]
<1>1. v \notin leaves
  <2> SUFFICES ASSUME v \in AnyLeaf PROVE FALSE
    OBVIOUS
  <2>1. v.kind \notin {"map", "list", "set"}
    BY LeafKinds
  <2>2. QED
    BY <2>1 DEF Children
<1>2. n # 0 /\ v \in Containers(S, kinds)
  BY <1>1, NestedIs
<1> HIDE DEF S
<1>3. CASE v.kind = "map"
  <2>1. v.pairs \in Seq(FieldName \X S)
    BY <1>2, <1>3, ContainerCases
  <2>2. PICK i \in DOMAIN v.pairs :
          child = << <<"key", v.pairs[i][1]>>, v.pairs[i][2] >>
    BY <1>3 DEF Children
  <2>3. v.pairs[i] \in FieldName \X S
    BY <2>1
  <2>4. QED
    BY <1>2, <2>2, <2>3 DEF S, WayStep
<1>4. CASE v.kind = "list"
  <2>1. v.items \in Seq(S)
    BY <1>2, <1>4, ContainerCases
  <2>2. PICK i \in DOMAIN v.items : child = << <<"item", i>>, v.items[i] >>
    BY <1>4 DEF Children
  <2>3. QED
    BY <1>2, <2>1, <2>2 DEF S, WayStep
<1>5. CASE v.kind = "set"
  <2>1. v.members \in SUBSET S
    BY <1>2, <1>5, ContainerCases
  <2>2. PICK m \in v.members : child = << <<"member">>, m >>
    BY <1>5 DEF Children
  <2>3. QED
    BY <1>2, <2>1, <2>2 DEF S, WayStep
<1>6. QED
  BY <1>2, <1>3, <1>4, <1>5, ContainerCases

-----------------------------------------------------------------------------
(* redact.                                                                 *)

\* There is such a function, defined from the deepest level up.
LEMMA RedactIs ==
  ASSUME MaxDepth \in Nat
  PROVE  /\ \A v \in Value : Redact[MaxDepth + 1][v] = REDACTED
         /\ \A depth \in 0..MaxDepth, v \in Value :
              Redact[depth][v] = RedactWith(v, Redact[depth + 1])
<1> DEFINE M         == MaxDepth + 1
           At(d, f)  == [v \in Value |->
                           IF TooDeep(d) THEN REDACTED ELSE RedactWith(v, f[d + 1])]
           Is(n, f)  == f = [d \in (M - n)..M |-> At(d, f)]
           Made      == {n \in 0..M : \E f : Is(n, f)}
<1>1. M \in Nat /\ \A d \in Int : TooDeep(d) <=> d > MaxDepth
  BY DEF TooDeep
<1>2. 0 \in Made
  <2> DEFINE f == [d \in (M - 0)..M |-> [v \in Value |-> REDACTED]]
  <2>1. \A d \in (M - 0)..M : TooDeep(d) /\ At(d, f) = [v \in Value |-> REDACTED]
    BY <1>1
  <2> HIDE DEF At
  <2>2. Is(0, f)
    BY <2>1
  <2> HIDE DEF Is, f
  <2>3. QED
    BY <1>1, <2>2
<1>3. ASSUME NEW n \in 1..M, n - 1 \in Made PROVE n \in Made
  <2>1. PICK f : Is(n - 1, f)
    BY <1>3
  <2> DEFINE g == [d \in (M - n)..M |-> IF d = M - n THEN At(d, f) ELSE f[d]]
  <2>2. ASSUME NEW d \in (M - n)..M PROVE g[d] = At(d, g)
    <3>1. /\ d \in Int /\ d # M - n => d \in (M - (n - 1))..M
          /\ d # M => d + 1 \in (M - n)..M /\ d + 1 # M - n
      BY <1>1
    <3>2. At(d, g) = At(d, f)
      <4>1. CASE d = M
        <5>1. TooDeep(d)
          BY <1>1, <4>1
        <5> HIDE DEF g
        <5>2. QED
          BY <5>1
      <4>2. CASE d # M
        <5>1. g[d + 1] = f[d + 1]
          BY <3>1, <4>2
        <5> HIDE DEF g
        <5>2. QED
          BY <5>1
      <4>3. QED
        BY <4>1, <4>2
    <3> HIDE DEF At
    <3>3. d # M - n => f[d] = At(d, f)
      <4>1. \A e \in (M - (n - 1))..M : f[e] = At(e, f)
        BY <2>1
      <4>2. QED
        BY <3>1, <4>1
    <3>4. QED
      BY <3>2, <3>3
  <2>3. g = [d \in (M - n)..M |-> g[d]]
    OBVIOUS
  <2> HIDE DEF g, At
  <2>4. Is(n, g)
    BY <2>2, <2>3
  <2> HIDE DEF Is
  <2>5. n \in 0..M
    BY <1>1
  <2>6. QED
    BY <2>4, <2>5
<1>4. M \in Made
  <2>1. 0..M \subseteq Made
    <3> HIDE DEF Made, M
    <3>1. QED
      BY <1>1, <1>2, <1>3, InductionUpTo
  <2>2. QED
    BY <1>1, <2>1
<1>5. Redact = [d \in 0..M |-> At(d, Redact)]
  <2>1. PICK f : Is(M, f)
    BY <1>4
  <2>2. M - M = 0
    BY <1>1
  <2> DEFINE Fits(h) == h = [d \in 0..M |-> At(d, h)]
  <2> HIDE DEF At
  <2>3. Fits(f)
    BY <2>1, <2>2
  <2>4. Redact = CHOOSE h : Fits(h)
    BY DEF Redact, At
  <2> HIDE DEF Fits
  <2>5. Fits(Redact)
    BY <2>3, <2>4
  <2>6. QED
    BY <2>5 DEF Fits
<1>6. \A d \in 0..M : Redact[d] = At(d, Redact)
  <2> HIDE DEF At
  <2>1. QED
    BY <1>5
<1>7. ASSUME NEW v \in Value PROVE Redact[MaxDepth + 1][v] = REDACTED
  <2>1. M \in 0..M /\ TooDeep(M)
    BY <1>1
  <2>2. Redact[M][v] = At(M, Redact)[v]
    BY <1>6, <2>1
  <2>3. QED
    BY <2>1, <2>2
<1>8. ASSUME NEW depth \in 0..MaxDepth, NEW v \in Value
      PROVE  Redact[depth][v] = RedactWith(v, Redact[depth + 1])
  <2>1. depth \in 0..M /\ ~TooDeep(depth)
    BY <1>1
  <2>2. Redact[depth][v] = At(depth, Redact)[v]
    BY <1>6, <2>1
  <2>3. QED
    BY <2>1, <2>2
<1>9. QED
  BY <1>7, <1>8

\* What redaction makes of a leaf, at any depth.
LEMMA LeafRedacted ==
  ASSUME NEW leaf \in Leaf, NEW redacted
  PROVE  RedactWith(leaf, redacted) = Cleaned(leaf)
BY LeafCases DEF RedactWith, Cleaned, Scalar, Text, Bytes, Object

\* The leaves that redaction makes of these.
Cleans(leaves, cleaned) ==
  REDACTED \in cleaned /\ \A leaf \in leaves : Cleaned(leaf) \in cleaned

\* Redaction keeps the nesting, and all leaves of what it returns are clean.
LEMMA RedactTyped ==
  ASSUME MaxDepth \in Nat, MaxNesting \in Nat,
         NEW leaves \in SUBSET Leaf, NEW cleaned \in SUBSET Leaf,
         NEW kinds \in SUBSET Kinds, Cleans(leaves, cleaned)
  PROVE  \A depth \in 0..(MaxDepth + 1), n \in 0..MaxNesting :
           \A v \in Nested(leaves, kinds)[n] :
             v \in Value /\ Redact[depth][v] \in Nested(cleaned, kinds)[n]
<1> DEFINE M      == MaxDepth + 1
           before == Nested(leaves, kinds)
           after  == Nested(cleaned, kinds)
           Good(depth) == \A n \in 0..MaxNesting : \A v \in before[n] :
                            Redact[depth][v] \in after[n]
           Done   == {r \in 0..M : Good(M - r)}
<1>1. /\ before[0] = leaves /\ after[0] = cleaned
      /\ \A m \in 1..MaxNesting :
           /\ before[m] = leaves \cup Containers(before[m - 1], kinds)
           /\ after[m] = cleaned \cup Containers(after[m - 1], kinds)
  BY NestedIs
<1>2. \A n \in 0..MaxNesting : cleaned \subseteq after[n]
  <2> HIDE DEF after, before
  <2>1. QED
    BY <1>1
<1>3. \A n \in 0..MaxNesting : before[n] \subseteq Value
  <2> SUFFICES ASSUME NEW n \in 0..MaxNesting PROVE before[n] \subseteq Value
    OBVIOUS
  <2>1. leaves \subseteq Leaf /\ kinds \subseteq Kinds
    OBVIOUS
  <2>2. before[n] \subseteq Nested(Leaf, Kinds)[n]
    BY <2>1, MoreValues
  <2>3. QED
    BY <2>2, DeeperValues DEF Value
<1> HIDE DEF before, after
<1>4. 0 \in Done
  <2>1. ASSUME NEW n \in 0..MaxNesting, NEW v \in before[n]
        PROVE  Redact[M][v] \in after[n]
    <3>1. Redact[M][v] = REDACTED /\ REDACTED \in cleaned
      BY <1>3, RedactIs DEF Cleans
    <3>2. QED
      BY <1>2, <3>1
  <2>2. M - 0 = M /\ 0 \in 0..M
    OBVIOUS
  <2> HIDE DEF M
  <2>3. QED
    BY <2>1, <2>2
<1>5. ASSUME NEW r \in 1..M, r - 1 \in Done PROVE r \in Done
  <2> DEFINE depth == M - r
  <2>1. depth \in 0..MaxDepth /\ M - (r - 1) = depth + 1
    OBVIOUS
  <2>2. Good(depth + 1)
    BY <1>5, <2>1
  <2> HIDE DEF depth
  <2>3. ASSUME NEW n \in 0..MaxNesting, NEW v \in before[n]
        PROVE  Redact[depth][v] \in after[n]
    <3> DEFINE inner == Redact[depth + 1]
               S     == before[n - 1]
               T     == after[n - 1]
    <3>1. Redact[depth][v] = RedactWith(v, inner)
      BY <1>3, <2>1, RedactIs
    <3> HIDE DEF inner
    <3>2. CASE v \in leaves
      BY <1>2, <3>1, <3>2, LeafRedacted DEF Cleans
    <3>3. CASE v \notin leaves
      <4>1. n \in 1..MaxNesting /\ v \in Containers(S, kinds)
        BY <1>1, <3>3
      <4>2. n - 1 \in 0..MaxNesting /\ REDACTED \in T
        BY <1>2, <4>1 DEF Cleans
      <4>3. /\ \A w \in S : inner[w] \in T
            /\ v.kind \in kinds
        <5>1. \A w \in S : inner[w] \in T
          BY <2>2, <4>2 DEF inner
        <5> HIDE DEF S
        <5>2. v.kind \in kinds
          BY <4>1, ContainerCases
        <5>3. QED
          BY <5>1, <5>2
      <4> SUFFICES RedactWith(v, inner) \in Containers(T, kinds)
        BY <1>1, <3>1, <4>1
      <4> HIDE DEF S, T
      <4>4. CASE v.kind = "map"
        <5> DEFINE pairs == [i \in DOMAIN v.pairs |-> RedactPair(v.pairs[i], inner)]
        <5>1. v.pairs \in Seq(FieldName \X S)
          BY <4>1, <4>4, ContainerCases
        <5>2. RedactWith(v, inner) = Map(pairs)
          BY <4>4 DEF RedactWith
        <5>3. pairs \in Seq(FieldName \X T)
          <6>1. ASSUME NEW i \in DOMAIN v.pairs
                PROVE  RedactPair(v.pairs[i], inner) \in FieldName \X T
            <7>1. v.pairs[i] \in FieldName \X S
              BY <5>1
            <7>2. v.pairs[i][1] \in FieldName /\ inner[v.pairs[i][2]] \in T
              BY <4>3, <7>1
            <7>3. QED
              BY <4>2, <7>2 DEF RedactPair
          <6>2. DOMAIN v.pairs = 1..Len(v.pairs) /\ Len(v.pairs) \in Nat
            BY <5>1
          <6>3. pairs \in [1..Len(v.pairs) -> FieldName \X T]
            BY <6>1, <6>2
          <6> HIDE DEF pairs
          <6>4. QED
            BY <6>2, <6>3
        <5>4. "map" \in kinds
          BY <4>3, <4>4
        <5> HIDE DEF pairs
        <5>5. QED
          BY <5>2, <5>3, <5>4, ContainersMade
      <4>5. CASE v.kind = "list"
        <5> DEFINE items == [i \in DOMAIN v.items |-> inner[v.items[i]]]
        <5>1. v.items \in Seq(S)
          BY <4>1, <4>5, ContainerCases
        <5>2. RedactWith(v, inner) = List(items)
          BY <4>5 DEF RedactWith
        <5>3. items \in Seq(T)
          BY <4>3, <5>1
        <5>4. "list" \in kinds
          BY <4>3, <4>5
        <5> HIDE DEF items
        <5>5. QED
          BY <5>2, <5>3, <5>4, ContainersMade
      <4>6. CASE v.kind = "set"
        <5>1. v.members \in SUBSET S
          BY <4>1, <4>6, ContainerCases
        <5>2. RedactWith(v, inner) = Unordered({inner[m] : m \in v.members})
          BY <4>6 DEF RedactWith
        <5>3. {inner[m] : m \in v.members} \in SUBSET T
          BY <4>3, <5>1
        <5>4. "set" \in kinds
          BY <4>3, <4>6
        <5>5. QED
          BY <5>2, <5>3, <5>4, ContainersMade
      <4>7. QED
        BY <4>1, <4>4, <4>5, <4>6, ContainerCases
    <3>4. QED
      BY <3>2, <3>3
  <2>4. Good(depth)
    BY <2>3
  <2>5. QED
    BY <2>4 DEF depth
<1>6. 0..M \subseteq Done
  <2>1. M \in Nat
    OBVIOUS
  <2> HIDE DEF Done, M
  <2>2. QED
    BY <1>4, <1>5, <2>1, InductionUpTo
<1>7. ASSUME NEW depth \in 0..M PROVE Good(depth)
  <2>1. M - depth \in 0..M /\ M - (M - depth) = depth
    OBVIOUS
  <2> HIDE DEF Good
  <2>2. QED
    BY <1>6, <2>1
<1>8. QED
  BY <1>3, <1>7 DEF before, after

\* A value is a leaf or a container of values.
LEMMA ValueCases ==
  ASSUME MaxNesting \in Nat, NEW v \in Value
  PROVE  v \in Leaf \/ v \in Containers(Value, Kinds)
<1> DEFINE values == Nested(Leaf, Kinds)
<1>1. /\ values[0] = Leaf
      /\ \A n \in 1..MaxNesting : values[n] = Leaf \cup Containers(values[n - 1], Kinds)
  BY NestedIs
<1>2. CASE MaxNesting = 0
  BY <1>1, <1>2 DEF Value
<1>3. CASE MaxNesting # 0
  <2>1. /\ MaxNesting \in 1..MaxNesting /\ MaxNesting \in 0..MaxNesting
        /\ MaxNesting - 1 \in 0..MaxNesting
    BY <1>3
  <2>2. values[MaxNesting - 1] \subseteq Value
    BY <2>1, DeeperValues DEF Value
  <2>3. Containers(values[MaxNesting - 1], Kinds) \subseteq Containers(Value, Kinds)
    BY <2>2, MoreContainers
  <2> HIDE DEF values
  <2>4. QED
    BY <1>1, <2>1, <2>3 DEF Value, values
<1>4. QED
  BY <1>2, <1>3

\* The cases of a container, and what is in it.
LEMMA ContainerOfValues ==
  ASSUME NEW v \in Containers(Value, Kinds)
  PROVE  \/ /\ v.kind = "map" /\ v = Map(v.pairs)
            /\ v.pairs \in Seq(FieldName \X Value)
         \/ /\ v.kind = "list" /\ v = List(v.items) /\ v.items \in Seq(Value)
         \/ /\ v.kind = "set" /\ v = Unordered(v.members)
            /\ v.members \in SUBSET Value
BY ContainerCases

\* The leaves that nothing is left in.
TidyLeaf ==
  {leaf \in JsonLeaf : leaf.kind = "text" => leaf.pieces \cap Shaped = {}}

\* Patterns find nothing in what they have left.
LEMMA PiecesRedacted ==
  ASSUME NEW pieces \in SUBSET Piece
  PROVE  /\ RedactPieces(pieces) \in SUBSET Piece
         /\ RedactPieces(pieces) \cap Shaped = {}
BY DEF RedactPieces, Piece, Shaped

\* A leaf is tidy when it has been cleaned.
LEMMA LeafCleaned ==
  ASSUME NEW leaf \in Leaf
  PROVE  Cleaned(leaf) \in TidyLeaf
<1>1. ASSUME NEW pieces \in SUBSET Piece, pieces \cap Shaped = {}
      PROVE  Text(pieces) \in TidyLeaf
  BY <1>1 DEF TidyLeaf, JsonLeaf, Leaf, Text
<1>2. CASE leaf.kind = "scalar"
  BY <1>2 DEF Cleaned, TidyLeaf, JsonLeaf
<1>3. CASE leaf.kind = "text"
  <2>1. leaf.pieces \in SUBSET Piece /\ Cleaned(leaf) = Text(RedactPieces(leaf.pieces))
    BY <1>3, LeafCases DEF Cleaned
  <2>2. QED
    BY <1>1, <2>1, PiecesRedacted
<1>4. CASE leaf.kind = "object"
  <2>1. leaf.repr \in SUBSET Piece /\ Cleaned(leaf) = Text(RedactPieces(leaf.repr))
    BY <1>4, LeafCases DEF Cleaned
  <2>2. QED
    BY <1>1, <2>1, PiecesRedacted
<1>5. CASE leaf.kind = "bytes"
  <2>1. Cleaned(leaf) = Text({"marker", "length"})
    BY <1>5 DEF Cleaned
  <2>2. {"marker", "length"} \in SUBSET Piece /\ {"marker", "length"} \cap Shaped = {}
    BY DEF Piece, Shaped
  <2>3. QED
    BY <1>1, <2>1, <2>2
<1>6. QED
  BY <1>2, <1>3, <1>4, <1>5, LeafCases

\* Nothing is left in the marker that stands for a value.
LEMMA MarkerIsTidy == REDACTED \in TidyLeaf
BY DEF REDACTED, Text, TidyLeaf, JsonLeaf, Leaf, Piece, Shaped

\* What is redacted is a value with tidy leaves; what came from JSON stays JSON.
LEMMA RedactedIsTidy ==
  ASSUME MaxDepth \in Nat, MaxNesting \in Nat, NEW depth \in 0..(MaxDepth + 1)
  PROVE  /\ \A v \in Value :
              /\ Redact[depth][v] \in Nested(TidyLeaf, Kinds)[MaxNesting]
              /\ Redact[depth][v] \in Value
         /\ \A v \in Json(MaxNesting) :
              /\ v \in Value
              /\ Redact[depth][v] \in Nested(TidyLeaf, JsonKinds)[MaxNesting]
              /\ Redact[depth][v] \in Json(MaxNesting)
<1>1. /\ TidyLeaf \in SUBSET Leaf /\ JsonLeaf \in SUBSET Leaf
      /\ TidyLeaf \subseteq JsonLeaf
      /\ Leaf \in SUBSET Leaf /\ TidyLeaf \subseteq Leaf
      /\ Kinds \in SUBSET Kinds /\ JsonKinds \in SUBSET Kinds
      /\ Kinds \subseteq Kinds /\ JsonKinds \subseteq JsonKinds
      /\ MaxNesting \in 0..MaxNesting
  BY DEF TidyLeaf, JsonLeaf, Kinds, JsonKinds
<1>2. Cleans(Leaf, TidyLeaf) /\ Cleans(JsonLeaf, TidyLeaf)
  BY <1>1, LeafCleaned, MarkerIsTidy DEF Cleans
<1>3. \A v \in Value : Redact[depth][v] \in Nested(TidyLeaf, Kinds)[MaxNesting]
  BY <1>1, <1>2, RedactTyped DEF Value
<1>4. \A v \in Json(MaxNesting) :
        v \in Value /\ Redact[depth][v] \in Nested(TidyLeaf, JsonKinds)[MaxNesting]
  BY <1>1, <1>2, RedactTyped DEF Json
<1>5. Nested(TidyLeaf, Kinds)[MaxNesting] \subseteq Value
  BY <1>1, MoreValues DEF Value
<1>6. Nested(TidyLeaf, JsonKinds)[MaxNesting] \subseteq Json(MaxNesting)
  BY <1>1, MoreValues DEF Json
<1>7. QED
  BY <1>3, <1>4, <1>5, <1>6

-----------------------------------------------------------------------------
(* Places.                                                                 *)

\* There are ways of every length.
LEMMA WaysAre ==
  ASSUME MaxNesting \in Nat, NEW v
  PROVE  /\ Ways(v)[0] = {<< <<>>, v >>}
         /\ \A n \in 1..MaxNesting : Ways(v)[n] = OneFurther(Ways(v)[n - 1])
<1> DEFINE start    == {<< <<>>, v >>}
           Is(n, f) == f = [m \in 0..n |-> IF m = 0 THEN start
                                          ELSE OneFurther(f[m - 1])]
           Made     == {n \in 0..MaxNesting : \E f : Is(n, f)}
<1>1. 0 \in Made
  <2>1. Is(0, [m \in 0..0 |-> start])
    OBVIOUS
  <2> HIDE DEF Is
  <2>2. QED
    BY <2>1
<1>2. ASSUME NEW n \in 1..MaxNesting, n - 1 \in Made PROVE n \in Made
  <2>1. PICK f : Is(n - 1, f)
    BY <1>2
  <2> DEFINE g == [m \in 0..n |-> IF m = n THEN OneFurther(f[n - 1]) ELSE f[m]]
  <2> HIDE DEF start
  <2>2. ASSUME NEW m \in 0..n
        PROVE  g[m] = IF m = 0 THEN start ELSE OneFurther(g[m - 1])
    <3>1. CASE m = n
      <4>1. m # 0 /\ n - 1 \in 0..n /\ n - 1 # n /\ m - 1 = n - 1
        BY <3>1
      <4>2. g[m - 1] = f[n - 1] /\ g[m] = OneFurther(f[n - 1])
        BY <3>1, <4>1
      <4>3. QED
        BY <4>1, <4>2
    <3>2. CASE m # n
      <4>1. m \in 0..(n - 1) /\ g[m] = f[m]
        BY <3>2
      <4>2. m # 0 => m - 1 \in 0..n /\ m - 1 # n /\ g[m - 1] = f[m - 1]
        BY <4>1
      <4> HIDE DEF g
      <4>3. QED
        BY <2>1, <4>1, <4>2
    <3>3. QED
      BY <3>1, <3>2
  <2>3. g = [m \in 0..n |-> g[m]]
    OBVIOUS
  <2> HIDE DEF g
  <2>4. Is(n, g)
    BY <2>2, <2>3
  <2> HIDE DEF Is
  <2>5. QED
    BY <2>4
<1>3. MaxNesting \in Made
  <2> HIDE DEF Made
  <2>1. QED
    BY <1>1, <1>2, InductionUpTo
<1>4. Is(MaxNesting, Ways(v))
  <2>1. Ways(v) = CHOOSE f : Is(MaxNesting, f)
    BY DEF Ways
  <2> HIDE DEF Is
  <2>2. QED
    BY <1>3, <2>1
<1> DEFINE ways == Ways(v)
<1> HIDE DEF ways
<1>5. ways[0] = start
  BY <1>4 DEF ways
<1>6. ASSUME NEW n \in 1..MaxNesting PROVE ways[n] = OneFurther(ways[n - 1])
  <2>1. n \in 0..MaxNesting /\ n # 0
    OBVIOUS
  <2>2. QED
    BY <1>4, <2>1 DEF ways
<1>7. QED
  BY <1>5, <1>6 DEF ways

IsWay(way) == way = <<way[1], way[2]>> /\ way[1] \in Seq(WayStep)

\* A way of n steps is a sequence of n steps, and leads to a value that is n levels
\* less nested.
LEMMA WaysNested ==
  ASSUME MaxNesting \in Nat, NEW leaves \in SUBSET AnyLeaf, NEW kinds,
         NEW v \in Nested(leaves, kinds)[MaxNesting]
  PROVE  \A n \in 0..MaxNesting : \A way \in Ways(v)[n] :
           /\ IsWay(way) /\ Len(way[1]) = n
           /\ way[2] \in Nested(leaves, kinds)[MaxNesting - n]
<1> DEFINE values == Nested(leaves, kinds)
           ways   == Ways(v)
           Good(n) == \A way \in ways[n] :
                        /\ way = <<way[1], way[2]>>
                        /\ way[1] \in Seq(WayStep) /\ Len(way[1]) = n
                        /\ way[2] \in values[MaxNesting - n]
           Done == {n \in 0..MaxNesting : Good(n)}
<1>1. /\ ways[0] = {<< <<>>, v >>}
      /\ \A n \in 1..MaxNesting : ways[n] = OneFurther(ways[n - 1])
  BY WaysAre
<1> HIDE DEF ways
<1>2. 0 \in Done
  <2>1. MaxNesting - 0 = MaxNesting /\ v \in values[MaxNesting] /\ 0 \in 0..MaxNesting
    OBVIOUS
  <2> HIDE DEF values
  <2>2. ASSUME NEW way \in ways[0]
        PROVE  /\ way = <<way[1], way[2]>>
               /\ way[1] \in Seq(WayStep) /\ Len(way[1]) = 0
               /\ way[2] \in values[MaxNesting - 0]
    <3>1. way = << <<>>, v >>
      BY <1>1
    <3>2. way[1] = <<>> /\ way[2] = v
      BY <3>1
    <3>3. QED
      BY <2>1, <3>1, <3>2
  <2>3. QED
    BY <2>1, <2>2
<1>3. ASSUME NEW n \in 1..MaxNesting, n - 1 \in Done PROVE n \in Done
  <2>1. ASSUME NEW way \in ways[n]
        PROVE  /\ way = <<way[1], way[2]>>
               /\ way[1] \in Seq(WayStep) /\ Len(way[1]) = n
               /\ way[2] \in values[MaxNesting - n]
    <3>way. PICK x \in ways[n - 1] :
            \E child \in Children(x[2]) : way = <<Append(x[1], child[1]), child[2]>>
      BY <1>1 DEF OneFurther
    <3>1. PICK child \in Children(x[2]) : way = <<Append(x[1], child[1]), child[2]>>
      BY <3>way
    <3>2. /\ x[1] \in Seq(WayStep) /\ Len(x[1]) = n - 1
          /\ x[2] \in values[MaxNesting - (n - 1)]
      BY <1>3
    <3>3. MaxNesting - (n - 1) \in 0..MaxNesting
          /\ MaxNesting - (n - 1) - 1 = MaxNesting - n
      OBVIOUS
    <3>4. child[2] \in values[MaxNesting - n] /\ child[1] \in WayStep
      <4>1. child[2] \in values[MaxNesting - (n - 1) - 1] /\ child[1] \in WayStep
        BY <3>1, <3>2, <3>3, ChildrenNested
      <4>2. QED
        BY <3>3, <4>1
    <3> HIDE DEF values
    <3>5. Append(x[1], child[1]) \in Seq(WayStep) /\ Len(Append(x[1], child[1])) = n
      BY <3>2, <3>4
    <3>6. QED
      BY <3>1, <3>4, <3>5
  <2>2. n \in 0..MaxNesting
    OBVIOUS
  <2> HIDE DEF values
  <2>3. QED
    BY <2>1, <2>2
<1>4. 0..MaxNesting \subseteq Done
  <2> HIDE DEF Done
  <2>1. QED
    BY <1>2, <1>3, InductionUpTo
<1>5. QED
  BY <1>4 DEF ways, IsWay

\* So each way into a value leads to a value, and so does each of its steps.
LEMMA WaysOfValue ==
  ASSUME MaxNesting \in Nat, NEW v \in Value,
         NEW n \in 0..MaxNesting, NEW way \in Ways(v)[n]
  PROVE  /\ way = <<way[1], way[2]>> /\ way[1] \in Seq(WayStep) /\ Len(way[1]) = n
         /\ way[2] \in Value
         /\ \A child \in Children(way[2]) : child[1] \in WayStep /\ child[2] \in Value
<1> DEFINE values == Nested(Leaf, Kinds)
           m      == MaxNesting - n
<1>1. Leaf \in SUBSET AnyLeaf /\ v \in values[MaxNesting] /\ m \in 0..MaxNesting
  BY DEF Value, AnyLeaf
<1>2. /\ way = <<way[1], way[2]>> /\ way[1] \in Seq(WayStep) /\ Len(way[1]) = n
      /\ way[2] \in values[m]
  <2>1. IsWay(way) /\ Len(way[1]) = n /\ way[2] \in values[MaxNesting - n]
    BY <1>1, WaysNested
  <2>2. QED
    BY <2>1 DEF IsWay
<1> HIDE DEF m
<1>3. values[m] \subseteq Value
  BY <1>1, DeeperValues DEF Value
<1>4. ASSUME NEW child \in Children(way[2])
      PROVE  child[1] \in WayStep /\ child[2] \in Value
  <2>1. m # 0 /\ child[2] \in values[m - 1] /\ child[1] \in WayStep
    BY <1>1, <1>2, ChildrenNested
  <2>2. m - 1 \in 0..MaxNesting
    BY <1>1, <2>1
  <2>3. values[m - 1] \subseteq Value
    BY <2>2, DeeperValues DEF Value
  <2> HIDE DEF values
  <2>4. QED
    BY <2>1, <2>3
<1> HIDE DEF values
<1>5. QED
  BY <1>2, <1>3, <1>4

\* What is at a place is a container or one of the leaves.
LEMMA LeafPlaces ==
  ASSUME MaxNesting \in Nat, NEW kinds \in SUBSET Kinds,
         NEW leaves \in SUBSET AnyLeaf,
         NEW v \in Nested(leaves, kinds)[MaxNesting],
         NEW place \in Places(v), place[2].kind \notin Kinds
  PROVE  place[2] \in leaves
<1>n. PICK n \in 0..MaxNesting :
        \E way \in Ways(v)[n] : place = <<way[1], Label(way[2])>>
  BY DEF Places
<1>1. PICK way \in Ways(v)[n] : place = <<way[1], Label(way[2])>>
  BY <1>n
<1>2. place[2] = way[2] /\ way[2].kind \notin Kinds
  BY <1>1 DEF Label
<1>3. MaxNesting - n \in 0..MaxNesting
  OBVIOUS
<1>4. way[2] \in Nested(leaves, kinds)[MaxNesting - n]
  BY WaysNested
<1> DEFINE values == Nested(leaves, kinds)
           m      == MaxNesting - n
<1>5. /\ values[0] = leaves
      /\ \A k \in 1..MaxNesting :
           values[k] = leaves \cup Containers(values[k - 1], kinds)
  BY NestedIs
<1>6. m = 0 \/ m \in 1..MaxNesting
  BY <1>3
<1>7. way[2] \in leaves \/ way[2] \in Containers(values[m - 1], kinds)
  <2>1. way[2] \in values[m]
    BY <1>4
  <2> HIDE DEF values, m
  <2>2. QED
    BY <1>5, <1>6, <2>1
<1> HIDE DEF values, m
<1>8. way[2] \in Containers(values[m - 1], kinds) => way[2].kind \in kinds
  <2>1. \A S, w : w \in Containers(S, kinds) => w.kind \in kinds
    BY DEF Containers, Map, List, Unordered
  <2>2. QED
    BY <2>1
<1>9. QED
  BY <1>2, <1>7, <1>8

-----------------------------------------------------------------------------
(* The structure.                                                          *)

\* A step that redaction does not go.
Closed(step) == step[1] = "key" /\ IsSensitiveKey(step[2])

\* The way goes on one step further.
LEMMA OpenStep ==
  ASSUME MaxDepth \in Nat, NEW steps \in Seq(WayStep), NEW step \in WayStep
  PROVE  LET further == Append(steps, step)
         IN  /\ further # <<>> /\ Parent(further) = steps
             /\ Open(further) <=>
                  Open(steps) /\ Len(steps) + 1 <= MaxDepth /\ ~Closed(step)
<1> DEFINE further == Append(steps, step)
           Passes(s) == s[1] = "key" =>
                          Normalised[s[2]] \in Allowlist
                            \/ Normalised[s[2]] \notin Credentials
<1>1. /\ Len(further) = Len(steps) + 1 /\ Len(steps) \in Nat
      /\ DOMAIN further = 1..(Len(steps) + 1) /\ DOMAIN steps = 1..Len(steps)
      /\ further[Len(steps) + 1] = step
      /\ \A i \in DOMAIN steps : further[i] = steps[i]
  OBVIOUS
<1>2. further # <<>> /\ Parent(further) = steps
  BY <1>1 DEF Parent
<1>3. Passes(step) <=> ~Closed(step)
  BY DEF Closed, IsSensitiveKey
<1> HIDE DEF further
<1>4. (\A i \in DOMAIN further : Passes(further[i]))
        <=> (\A i \in DOMAIN steps : Passes(steps[i])) /\ Passes(step)
  <2>1. \A i \in DOMAIN further : i \in DOMAIN steps \/ i = Len(steps) + 1
    BY <1>1
  <2>2. \A i \in DOMAIN steps : i \in DOMAIN further
    BY <1>1
  <2>3. Len(steps) + 1 \in DOMAIN further
    BY <1>1
  <2> HIDE DEF Passes
  <2>4. QED
    BY <1>1, <2>1, <2>2, <2>3
<1>5. \A s : Open(s) <=> Len(s) <= MaxDepth /\ \A i \in DOMAIN s : Passes(s[i])
  BY DEF Open
<1> HIDE DEF Passes
<1>6. Open(further) <=> Open(steps) /\ Len(steps) + 1 <= MaxDepth /\ ~Closed(step)
  BY <1>1, <1>3, <1>4, <1>5
<1>7. QED
  BY <1>2, <1>6 DEF further

\* Above the limit, what a redacted value contains is what the value contains, each
\* redacted one level deeper or replaced, and its label is cleaned.
LEMMA RedactedParts ==
  ASSUME MaxDepth \in Nat, MaxNesting \in Nat,
         NEW depth \in 0..MaxDepth, NEW v \in Value
  PROVE  LET w == Redact[depth][v]
         IN  /\ Label(w) = Cleaned(Label(v))
             /\ Children(w) =
                  {<<child[1], IF Closed(child[1]) THEN REDACTED
                               ELSE Redact[depth + 1][child[2]]>> :
                     child \in Children(v)}
<1> DEFINE inner == Redact[depth + 1]
           w     == Redact[depth][v]
           After(child) == <<child[1], IF Closed(child[1]) THEN REDACTED
                                       ELSE inner[child[2]]>>
<1>1. w = RedactWith(v, inner)
  BY RedactIs
<1> HIDE DEF inner, w
<1>2. CASE v \in Leaf
  <2>1. w = Cleaned(v) /\ w \in Leaf
    BY <1>1, <1>2, LeafRedacted, LeafCleaned DEF TidyLeaf, JsonLeaf
  <2>2. \A leaf \in Leaf : leaf.kind \notin Kinds
    BY LeafCases DEF Kinds
  <2>3. \A leaf \in Leaf : Label(leaf) = leaf /\ Children(leaf) = {}
    BY <2>2 DEF Label, Children, Kinds
  <2>4. QED
    BY <1>2, <2>1, <2>3 DEF w
<1>3. CASE v \in Containers(Value, Kinds)
  <2>1. \A kind \in Kinds : Cleaned([kind |-> kind]) = [kind |-> kind]
    BY DEF Cleaned, Kinds
  <2>2. CASE v.kind = "map"
    <3> DEFINE pairs == [i \in DOMAIN v.pairs |-> RedactPair(v.pairs[i], inner)]
    <3>1. w = Map(pairs)
      BY <1>1, <2>2 DEF RedactWith
    <3>2. Label(w) = [kind |-> "map"] /\ Label(v) = [kind |-> "map"]
      BY <2>2, <3>1 DEF Label, Map, Kinds
    <3>3. Children(w) =
            {<< <<"key", pairs[i][1]>>, pairs[i][2] >> : i \in DOMAIN v.pairs}
      BY <3>1 DEF Children, Map
    <3>4. Children(v) =
            {<< <<"key", v.pairs[i][1]>>, v.pairs[i][2] >> : i \in DOMAIN v.pairs}
      BY <2>2 DEF Children
    <3>5. ASSUME NEW i \in DOMAIN v.pairs
          PROVE  << <<"key", pairs[i][1]>>, pairs[i][2] >>
                   = After(<< <<"key", v.pairs[i][1]>>, v.pairs[i][2] >>)
      BY DEF RedactPair, Closed
    <3>6. Children(w) = {After(c) : c \in Children(v)}
      <4> DEFINE Old(i) == << <<"key", v.pairs[i][1]>>, v.pairs[i][2] >>
                 New(i) == << <<"key", pairs[i][1]>>, pairs[i][2] >>
      <4>1. \A i \in DOMAIN v.pairs : New(i) = After(Old(i))
        BY <3>5
      <4>2. /\ Children(w) = {New(i) : i \in DOMAIN v.pairs}
            /\ Children(v) = {Old(i) : i \in DOMAIN v.pairs}
        BY <3>3, <3>4
      <4> HIDE DEF Old, New, After
      <4>3. QED
        BY <4>1, <4>2
    <3>7. QED
      BY <2>1, <3>2, <3>6 DEF w, inner, Kinds
  <2>3. CASE v.kind = "list"
    <3>1. w = List([i \in DOMAIN v.items |-> inner[v.items[i]]])
      BY <1>1, <2>3 DEF RedactWith
    <3>2. Label(w) = [kind |-> "list"] /\ Label(v) = [kind |-> "list"]
      BY <2>3, <3>1 DEF Label, List, Kinds
    <3>3. Children(w) = {<< <<"item", i>>, inner[v.items[i]] >> : i \in DOMAIN v.items}
      BY <3>1 DEF Children, List
    <3>4. Children(v) = {<< <<"item", i>>, v.items[i] >> : i \in DOMAIN v.items}
      BY <2>3 DEF Children
    <3>5. ASSUME NEW i \in DOMAIN v.items
          PROVE  << <<"item", i>>, inner[v.items[i]] >>
                   = After(<< <<"item", i>>, v.items[i] >>)
      BY DEF Closed
    <3>6. Children(w) = {After(c) : c \in Children(v)}
      <4> DEFINE Old(i) == << <<"item", i>>, v.items[i] >>
                 New(i) == << <<"item", i>>, inner[v.items[i]] >>
      <4>1. \A i \in DOMAIN v.items : New(i) = After(Old(i))
        BY <3>5
      <4>2. /\ Children(w) = {New(i) : i \in DOMAIN v.items}
            /\ Children(v) = {Old(i) : i \in DOMAIN v.items}
        BY <3>3, <3>4
      <4> HIDE DEF Old, New, After
      <4>3. QED
        BY <4>1, <4>2
    <3>7. QED
      BY <2>1, <3>2, <3>6 DEF w, inner, Kinds
  <2>4. CASE v.kind = "set"
    <3>1. w = Unordered({inner[m] : m \in v.members})
      BY <1>1, <2>4 DEF RedactWith
    <3>2. Label(w) = [kind |-> "set"] /\ Label(v) = [kind |-> "set"]
      BY <2>4, <3>1 DEF Label, Unordered, Kinds
    <3>3. Children(w) = {<< <<"member">>, inner[m] >> : m \in v.members}
      BY <3>1 DEF Children, Unordered
    <3>4. Children(v) = {<< <<"member">>, m >> : m \in v.members}
      BY <2>4 DEF Children
    <3>5. ASSUME NEW m \in v.members
          PROVE  << <<"member">>, inner[m] >> = After(<< <<"member">>, m >>)
      BY DEF Closed
    <3>6. Children(w) = {After(c) : c \in Children(v)}
      <4> DEFINE Old(i) == << <<"member">>, i >>
                 New(i) == << <<"member">>, inner[i] >>
      <4>1. \A i \in v.members : New(i) = After(Old(i))
        BY <3>5
      <4>2. /\ Children(w) = {New(i) : i \in v.members}
            /\ Children(v) = {Old(i) : i \in v.members}
        BY <3>3, <3>4
      <4> HIDE DEF Old, New, After
      <4>3. QED
        BY <4>1, <4>2
    <3>7. QED
      BY <2>1, <3>2, <3>6 DEF w, inner, Kinds
  <2>5. QED
    BY <1>3, <2>2, <2>3, <2>4, ContainerOfValues
<1>4. QED
  BY <1>2, <1>3, ValueCases

\* What becomes of a way into a value.
RedactedWay(way) ==
  <<way[1], IF Open(way[1]) THEN Redact[Len(way[1])][way[2]] ELSE REDACTED>>

\* A way that is open, or was until its last step.
Kept(way) == way[1] = <<>> \/ Open(Parent(way[1]))

\* The ways into a redacted value are the ways into the value, as far as they are open.
LEMMA WaysRedacted ==
  ASSUME MaxDepth \in Nat, MaxNesting \in Nat, NEW v \in Value
  PROVE  \A n \in 0..MaxNesting :
           Ways(Redact[0][v])[n] =
             {RedactedWay(way) : way \in {x \in Ways(v)[n] : Kept(x)}}
<1> DEFINE old     == Ways(v)
           new     == Ways(Redact[0][v])
           Same(n) == new[n] = {RedactedWay(way) : way \in {x \in old[n] : Kept(x)}}
           Done    == {n \in 0..MaxNesting : Same(n)}
<1>1. /\ old[0] = {<< <<>>, v >>} /\ new[0] = {<< <<>>, Redact[0][v] >>}
      /\ \A n \in 1..MaxNesting :
           old[n] = OneFurther(old[n - 1]) /\ new[n] = OneFurther(new[n - 1])
  BY WaysAre
<1>2. \A n \in 0..MaxNesting : \A way \in old[n] :
        /\ way = <<way[1], way[2]>> /\ way[1] \in Seq(WayStep) /\ Len(way[1]) = n
        /\ way[2] \in Value
        /\ \A child \in Children(way[2]) : child[1] \in WayStep /\ child[2] \in Value
  BY WaysOfValue
<1> HIDE DEF old, new
<1>3. 0 \in Done
  <2>1. Open(<<>>) /\ Len(<<>>) = 0
    BY DEF Open
  <2> DEFINE start == << <<>>, v >>
  <2>2. start[1] = <<>> /\ start[2] = v
    OBVIOUS
  <2>3. RedactedWay(start) = << <<>>, Redact[0][v] >> /\ Kept(start)
    BY <2>1, <2>2 DEF RedactedWay, Kept
  <2> HIDE DEF start
  <2>4. old[0] = {start} /\ new[0] = {RedactedWay(start)}
    BY <1>1, <2>3 DEF start
  <2>5. QED
    BY <2>3, <2>4
<1>4. ASSUME NEW n \in 1..MaxNesting, n - 1 \in Done PROVE n \in Done
  <2>1. n - 1 \in 0..MaxNesting /\ n \in 0..MaxNesting /\ (n - 1) + 1 = n
    OBVIOUS
  \* One step further from an open way.
  <2>2. ASSUME NEW x \in old[n - 1], Open(x[1]), NEW child \in Children(x[2])
        PROVE  LET way == <<Append(x[1], child[1]), child[2]>>
               IN  /\ Kept(way)
                   /\ RedactedWay(way) =
                        <<Append(x[1], child[1]),
                          IF Closed(child[1]) THEN REDACTED ELSE Redact[n][child[2]]>>
    <3> DEFINE further == Append(x[1], child[1])
               way     == <<further, child[2]>>
    <3>1. /\ x[1] \in Seq(WayStep) /\ Len(x[1]) = n - 1
          /\ child[1] \in WayStep /\ child[2] \in Value
      BY <1>2, <2>1
    <3>2. /\ further # <<>> /\ Parent(further) = x[1]
          /\ Open(further) <=> n <= MaxDepth /\ ~Closed(child[1])
      BY <2>1, <2>2, <3>1, OpenStep
    <3>3. Len(further) = n
      BY <2>1, <3>1
    <3>4. n <= MaxDepth + 1
      BY <2>2, <3>1 DEF Open
    <3>5. n <= MaxDepth \/ Redact[n][child[2]] = REDACTED
      <4>1. n <= MaxDepth \/ n = MaxDepth + 1
        BY <3>4
      <4>2. QED
        BY <3>1, <4>1, RedactIs
    <3> HIDE DEF further
    <3>6. Kept(way)
      BY <2>2, <3>2 DEF Kept
    <3>7. RedactedWay(way) =
            <<further, IF Closed(child[1]) THEN REDACTED ELSE Redact[n][child[2]]>>
      BY <3>2, <3>3, <3>5 DEF RedactedWay
    <3>8. QED
      BY <3>6, <3>7 DEF further
  \* What the way leads to, before and after.
  <2>3. ASSUME NEW x \in old[n - 1], Open(x[1])
        PROVE  /\ Kept(x)
               /\ RedactedWay(x)[1] = x[1]
               /\ Children(RedactedWay(x)[2]) =
                    {<<child[1], IF Closed(child[1]) THEN REDACTED
                                 ELSE Redact[n][child[2]]>> : child \in Children(x[2])}
    <3>1. /\ x[1] \in Seq(WayStep) /\ Len(x[1]) = n - 1 /\ x[2] \in Value
      BY <1>2, <2>1
    <3>2. n - 1 \in 0..MaxDepth
      BY <2>1, <2>3, <3>1 DEF Open
    <3>3. RedactedWay(x)[1] = x[1] /\ RedactedWay(x)[2] = Redact[n - 1][x[2]]
      BY <2>3, <3>1 DEF RedactedWay
    <3>4. Children(Redact[n - 1][x[2]]) =
            {<<child[1], IF Closed(child[1]) THEN REDACTED
                         ELSE Redact[n][child[2]]>> : child \in Children(x[2])}
      BY <2>1, <3>1, <3>2, RedactedParts
    <3>5. Kept(x)
      <4>1. CASE x[1] = <<>>
        BY <4>1 DEF Kept
      <4>2. CASE x[1] # <<>>
        <5>1. /\ Parent(x[1]) \in Seq(WayStep) /\ x[1][Len(x[1])] \in WayStep
              /\ x[1] = Append(Parent(x[1]), x[1][Len(x[1])])
          BY <3>1, <4>2 DEF Parent
        <5>2. Open(Parent(x[1]))
          BY <2>3, <5>1, OpenStep
        <5>3. QED
          BY <5>2 DEF Kept
      <4>3. QED
        BY <4>1, <4>2
    <3>6. QED
      BY <3>3, <3>4, <3>5
  <2>4. \A x \in old[n - 1] : ~Open(x[1]) => Children(RedactedWay(x)[2]) = {}
    <3>1. Children(REDACTED) = {}
      BY DEF Children, REDACTED, Text
    <3>2. QED
      BY <3>1 DEF RedactedWay
  <2>5. ASSUME NEW y \in new[n]
        PROVE  \E way \in old[n] : Kept(way) /\ y = RedactedWay(way)
    <3>1. PICK z \in new[n - 1] :
            \E part \in Children(z[2]) : y = <<Append(z[1], part[1]), part[2]>>
      BY <1>1 DEF OneFurther
    <3>2. PICK part \in Children(z[2]) : y = <<Append(z[1], part[1]), part[2]>>
      BY <3>1
    <3>3. PICK x \in old[n - 1] : Kept(x) /\ z = RedactedWay(x)
      BY <1>4
    <3>4. Open(x[1])
      BY <2>4, <3>2, <3>3
    <3>5. PICK child \in Children(x[2]) :
            part = <<child[1], IF Closed(child[1]) THEN REDACTED
                               ELSE Redact[n][child[2]]>>
      BY <2>3, <3>2, <3>3, <3>4
    <3> DEFINE way == <<Append(x[1], child[1]), child[2]>>
    <3>6. way \in old[n]
      BY <1>1 DEF OneFurther
    <3>7. /\ part[1] = child[1]
          /\ part[2] = IF Closed(child[1]) THEN REDACTED ELSE Redact[n][child[2]]
      BY <3>5
    <3>8. z[1] = x[1]
      BY <2>3, <3>3, <3>4
    <3>9. Kept(way) /\ y = RedactedWay(way)
      BY <2>2, <3>2, <3>4, <3>7, <3>8
    <3> HIDE DEF way
    <3>10. QED
      BY <3>6, <3>9
  <2>6. ASSUME NEW way \in old[n], Kept(way)
        PROVE  RedactedWay(way) \in new[n]
    <3>1. PICK x \in old[n - 1] :
            \E child \in Children(x[2]) : way = <<Append(x[1], child[1]), child[2]>>
      BY <1>1 DEF OneFurther
    <3>2. PICK child \in Children(x[2]) : way = <<Append(x[1], child[1]), child[2]>>
      BY <3>1
    <3>3. x[1] \in Seq(WayStep) /\ child[1] \in WayStep
      BY <1>2, <2>1
    <3>4. way[1] # <<>> /\ Parent(way[1]) = x[1]
      <4>1. way[1] = Append(x[1], child[1])
        BY <3>2
      <4>2. QED
        BY <3>3, <4>1, OpenStep
    <3>5. Open(x[1])
      BY <2>6, <3>4 DEF Kept
    <3> DEFINE z    == RedactedWay(x)
               part == <<child[1], IF Closed(child[1]) THEN REDACTED
                                   ELSE Redact[n][child[2]]>>
    <3>6. z \in new[n - 1] /\ z[1] = x[1] /\ part \in Children(z[2])
      <4>1. Kept(x) /\ z[1] = x[1] /\ part \in Children(z[2])
        BY <2>3, <3>5
      <4> HIDE DEF part
      <4>2. QED
        BY <1>4, <4>1
    <3>7. RedactedWay(way) = <<Append(x[1], part[1]), part[2]>>
      BY <2>2, <3>2, <3>5
    <3> HIDE DEF z, part
    <3>8. RedactedWay(way) = <<Append(z[1], part[1]), part[2]>>
      BY <3>6, <3>7
    <3>9. RedactedWay(way) \in OneFurther(new[n - 1])
      BY <3>6, <3>8 DEF OneFurther
    <3>10. QED
      BY <1>1, <3>9
  <2>7. Same(n)
    BY <2>5, <2>6
  <2>8. QED
    BY <2>1, <2>7
<1>5. 0..MaxNesting \subseteq Done
  <2> HIDE DEF Done
  <2>1. QED
    BY <1>3, <1>4, InductionUpTo
<1>6. QED
  BY <1>5 DEF old, new

\* So are the places.
LEMMA PlacesRedacted ==
  ASSUME MaxDepth \in Nat, MaxNesting \in Nat, NEW v \in Value
  PROVE  Places(Redact[0][v]) =
           {<<place[1], IF Open(place[1]) THEN Cleaned(place[2]) ELSE REDACTED>> :
              place \in {pl \in Places(v) : pl[1] = <<>> \/ Open(Parent(pl[1]))}}
<1> DEFINE w          == Redact[0][v]
           After(pl)  == <<pl[1], IF Open(pl[1]) THEN Cleaned(pl[2]) ELSE REDACTED>>
           Place(way) == <<way[1], Label(way[2])>>
<1>1. \A n \in 0..MaxNesting :
        Ways(w)[n] = {RedactedWay(way) : way \in {x \in Ways(v)[n] : Kept(x)}}
  BY WaysRedacted
<1>2. ASSUME NEW n \in 0..MaxNesting, NEW way \in Ways(v)[n]
      PROVE  Place(RedactedWay(way)) = After(Place(way))
  <2>1. Len(way[1]) = n
    BY WaysOfValue
  <2>2. way[2] \in Value
    BY WaysOfValue
  <2>3. Open(way[1]) => Label(Redact[n][way[2]]) = Cleaned(Label(way[2]))
    <3>1. Open(way[1]) => n \in 0..MaxDepth
      BY <2>1 DEF Open
    <3>2. QED
      BY <2>2, <3>1, RedactedParts
  <2>4. Label(REDACTED) = REDACTED
    BY DEF Label, REDACTED, Text, Kinds
  <2>5. QED
    BY <2>1, <2>3, <2>4 DEF RedactedWay
<1>3. \A way : Kept(way) <=> Place(way)[1] = <<>> \/ Open(Parent(Place(way)[1]))
  BY DEF Kept
<1>4. /\ Places(w) = {Place(way) : way \in UNION {Ways(w)[n] : n \in 0..MaxNesting}}
      /\ Places(v) = {Place(way) : way \in UNION {Ways(v)[n] : n \in 0..MaxNesting}}
  BY DEF Places
<1> DEFINE Seen(pl) == pl[1] = <<>> \/ Open(Parent(pl[1]))
<1>5. \A way : Kept(way) <=> Seen(Place(way))
  BY <1>3
<1> HIDE DEF w, After, Place, Seen
<1>6. Places(w) = {After(pl) : pl \in {x \in Places(v) : Seen(x)}}
  <2>1. ASSUME NEW n \in 0..MaxNesting, NEW way \in Ways(w)[n]
        PROVE  \E pl \in Places(v) : Seen(pl) /\ Place(way) = After(pl)
    <3>1. PICK x \in Ways(v)[n] : Kept(x) /\ way = RedactedWay(x)
      BY <1>1
    <3>2. Place(x) \in Places(v)
      BY <1>4
    <3>3. QED
      BY <1>2, <1>5, <3>1, <3>2
  <2>2. ASSUME NEW pl \in Places(v), Seen(pl) PROVE After(pl) \in Places(w)
    <3>1. PICK n \in 0..MaxNesting : \E way \in Ways(v)[n] : pl = Place(way)
      BY <1>4
    <3>2. PICK way \in Ways(v)[n] : pl = Place(way)
      BY <3>1
    <3>3. Kept(way)
      BY <1>5, <2>2, <3>2
    <3>4. RedactedWay(way) \in Ways(w)[n]
      BY <1>1, <3>3
    <3>5. Place(RedactedWay(way)) \in Places(w)
      BY <1>4, <3>4
    <3>6. QED
      BY <1>2, <3>2, <3>5
  <2>3. QED
    BY <1>4, <2>1, <2>2
<1>7. QED
  BY <1>6 DEF w, After, Seen

-----------------------------------------------------------------------------
(* The text of a body.                                                     *)

\* There is such a function, for values of every nesting.
LEMMA ScrubIs ==
  ASSUME MaxNesting \in Nat
  PROVE  \A n \in 0..MaxNesting : \A v \in Json(n) :
           Scrub[n][v] = ScrubWith(v, Scrub[n - 1])
<1> DEFINE At(m, before) == [v \in Json(m) |-> ScrubWith(v, before)]
           first    == At(0, Scrub[0 - 1])
           Is(n, f) == f = [m \in 0..n |-> IF m = 0 THEN first ELSE At(m, f[m - 1])]
           Made     == {n \in 0..MaxNesting : \E f : Is(n, f)}
<1>1. ASSUME NEW v \in Json(0), NEW f, NEW g PROVE ScrubWith(v, f) = ScrubWith(v, g)
  <2>1. v \in JsonLeaf
    BY NestedIs DEF Json
  <2>2. v.kind \in {"scalar", "text"}
    BY <2>1 DEF JsonLeaf
  <2>3. QED
    BY <2>2 DEF ScrubWith
<1>2. \A f : At(0, f) = first
  BY <1>1
<1> HIDE DEF At, first
<1>3. 0 \in Made
  <2>1. Is(0, [m \in 0..0 |-> first])
    OBVIOUS
  <2> HIDE DEF Is
  <2>2. QED
    BY <2>1
<1>4. ASSUME NEW n \in 1..MaxNesting, n - 1 \in Made PROVE n \in Made
  <2>1. PICK f : Is(n - 1, f)
    BY <1>4
  <2> DEFINE g == [m \in 0..n |-> IF m = n THEN At(n, f[n - 1]) ELSE f[m]]
  <2>2. ASSUME NEW m \in 0..n
        PROVE  g[m] = IF m = 0 THEN first ELSE At(m, g[m - 1])
    <3>1. CASE m = n
      <4>1. m # 0 /\ n - 1 \in 0..n /\ n - 1 # n /\ m - 1 = n - 1
        BY <3>1
      <4>2. g[m - 1] = f[n - 1] /\ g[m] = At(n, f[n - 1])
        BY <3>1, <4>1
      <4>3. QED
        BY <3>1, <4>1, <4>2
    <3>2. CASE m # n
      <4>1. m \in 0..(n - 1) /\ g[m] = f[m]
        BY <3>2
      <4>2. m # 0 => m - 1 \in 0..n /\ m - 1 # n /\ g[m - 1] = f[m - 1]
        BY <4>1
      <4> HIDE DEF g
      <4>3. QED
        BY <2>1, <4>1, <4>2
    <3>3. QED
      BY <3>1, <3>2
  <2>3. g = [m \in 0..n |-> g[m]]
    OBVIOUS
  <2> HIDE DEF g
  <2>4. Is(n, g)
    BY <2>2, <2>3
  <2> HIDE DEF Is
  <2>5. QED
    BY <2>4
<1>5. MaxNesting \in Made
  <2> HIDE DEF Made
  <2>1. QED
    BY <1>3, <1>4, InductionUpTo
<1>6. PICK f : f = [n \in 0..MaxNesting |-> At(n, f[n - 1])]
  <2>1. PICK f : Is(MaxNesting, f)
    BY <1>5
  <2>2. ASSUME NEW n \in 0..MaxNesting PROVE f[n] = At(n, f[n - 1])
    <3>1. CASE n = 0
      <4>1. f[n] = first
        BY <2>1, <3>1
      <4>2. QED
        BY <1>2, <3>1, <4>1
    <3>2. CASE n # 0
      BY <2>1, <3>2
    <3>3. QED
      BY <3>1, <3>2
  <2>3. f = [n \in 0..MaxNesting |-> f[n]]
    BY <2>1
  <2> HIDE DEF Is
  <2>4. QED
    BY <2>2, <2>3
<1>7. Scrub = [n \in 0..MaxNesting |-> At(n, Scrub[n - 1])]
  <2> DEFINE Fits(h) == h = [n \in 0..MaxNesting |-> At(n, h[n - 1])]
  <2>1. Fits(f)
    BY <1>6
  <2>2. Scrub = CHOOSE h : Fits(h)
    BY DEF Scrub, At
  <2> HIDE DEF Fits
  <2>3. Fits(Scrub)
    BY <2>1, <2>2
  <2>4. QED
    BY <2>3 DEF Fits
<1>8. QED
  <2> SUFFICES ASSUME NEW n \in 0..MaxNesting, NEW v \in Json(n)
               PROVE  Scrub[n][v] = ScrubWith(v, Scrub[n - 1])
    OBVIOUS
  <2>1. Scrub[n] = At(n, Scrub[n - 1])
    BY <1>7
  <2>2. QED
    BY <2>1 DEF At

\* The leaves that nothing is left in once they are part of a text.
ScrubbedLeaf ==
  {leaf \in TidyLeaf : leaf.kind = "scalar" => leaf.number \notin ShapedNumber}
    \cup {Garbled}

\* The strings and numbers of a body that has been scrubbed are tidy, whatever they
\* were.
LEMMA ScrubTyped ==
  ASSUME MaxNesting \in Nat
  PROVE  \A n \in 0..MaxNesting : \A v \in Json(n) :
           Scrub[n][v] \in Nested(ScrubbedLeaf, JsonKinds)[n]
<1> DEFINE after   == Nested(ScrubbedLeaf, JsonKinds)
           before  == Nested(JsonLeaf, JsonKinds)
           Good(n) == \A v \in before[n] : Scrub[n][v] \in after[n]
           Done    == {n \in 0..MaxNesting : Good(n)}
<1>1. /\ before[0] = JsonLeaf /\ after[0] = ScrubbedLeaf
      /\ \A m \in 1..MaxNesting :
           /\ before[m] = JsonLeaf \cup Containers(before[m - 1], JsonKinds)
           /\ after[m] = ScrubbedLeaf \cup Containers(after[m - 1], JsonKinds)
  BY NestedIs
<1>2. \A n \in 0..MaxNesting : \A v \in before[n] :
        Scrub[n][v] = ScrubWith(v, Scrub[n - 1])
  BY ScrubIs DEF Json
<1> HIDE DEF before, after
<1>3. \A v \in JsonLeaf : \A f : ScrubWith(v, f) \in ScrubbedLeaf
  <2> SUFFICES ASSUME NEW v \in JsonLeaf, NEW f PROVE ScrubWith(v, f) \in ScrubbedLeaf
    OBVIOUS
  <2>1. v \in Leaf /\ v.kind \in {"scalar", "text"}
    BY DEF JsonLeaf
  <2>2. /\ v.kind = "text" => Cleaned(v) = Text(RedactPieces(v.pieces))
        /\ v.kind = "scalar" => Cleaned(v) = v
    BY DEF Cleaned
  <2>3. ScrubWith(v, f) \in {Garbled, Cleaned(v)}
    BY <2>1, <2>2 DEF ScrubWith
  <2>4. Cleaned(v) \in TidyLeaf
    BY <2>1, LeafCleaned
  <2>5. CASE v.kind = "text"
    BY <2>2, <2>3, <2>4, <2>5 DEF Text, ScrubbedLeaf
  <2>6. CASE v.kind = "scalar"
    BY <2>2, <2>4, <2>6 DEF ScrubWith, ScrubbedLeaf
  <2>7. QED
    BY <2>1, <2>5, <2>6
<1>4. 0 \in Done
  BY <1>1, <1>2, <1>3
<1>5. ASSUME NEW n \in 1..MaxNesting, n - 1 \in Done PROVE n \in Done
  <2> DEFINE S     == before[n - 1]
             T     == after[n - 1]
             inner == Scrub[n - 1]
  <2>1. n \in 0..MaxNesting /\ \A v \in S : inner[v] \in T
    BY <1>5
  <2>2. /\ before[n] = JsonLeaf \cup Containers(S, JsonKinds)
        /\ after[n] = ScrubbedLeaf \cup Containers(T, JsonKinds)
    BY <1>1
  <2>3. \A v \in before[n] : Scrub[n][v] = ScrubWith(v, inner)
    BY <1>2, <2>1
  <2> HIDE DEF S, T, inner
  <2>4. ASSUME NEW v \in Containers(S, JsonKinds)
        PROVE  ScrubWith(v, inner) \in Containers(T, JsonKinds)
    <3>1. v.kind \in JsonKinds
      BY ContainerCases
    <3>2. CASE v.kind = "map"
      <4> DEFINE pairs == [i \in DOMAIN v.pairs |->
                             <<ScrubbedKey(v.pairs[i][1]), inner[v.pairs[i][2]]>>]
      <4>1. v.pairs \in Seq(FieldName \X S)
        BY <3>2, ContainerCases
      <4>2. ScrubWith(v, inner) = Map(pairs)
        BY <3>2 DEF ScrubWith
      <4>3. pairs \in Seq(FieldName \X T)
        <5>1. ASSUME NEW i \in DOMAIN v.pairs
              PROVE  <<ScrubbedKey(v.pairs[i][1]), inner[v.pairs[i][2]]>>
                       \in FieldName \X T
          <6>1. v.pairs[i] \in FieldName \X S
            BY <4>1
          <6>2. v.pairs[i][1] \in FieldName /\ v.pairs[i][2] \in S
            BY <6>1
          <6>3. inner[v.pairs[i][2]] \in T
            BY <2>1, <6>2
          <6>4. ScrubbedKey(v.pairs[i][1]) \in FieldName
            BY <6>2 DEF ScrubbedKey, FieldName
          <6>5. QED
            BY <6>3, <6>4
        <5>2. DOMAIN v.pairs = 1..Len(v.pairs) /\ Len(v.pairs) \in Nat
          BY <4>1
        <5>3. pairs \in [1..Len(v.pairs) -> FieldName \X T]
          BY <5>1, <5>2
        <5> HIDE DEF pairs
        <5>4. QED
          BY <5>2, <5>3
      <4> HIDE DEF pairs
      <4>4. QED
        BY <3>1, <3>2, <4>2, <4>3, ContainersMade
    <3>3. CASE v.kind = "list"
      <4> DEFINE items == [i \in DOMAIN v.items |-> inner[v.items[i]]]
      <4>1. v.items \in Seq(S)
        BY <3>3, ContainerCases
      <4>2. ScrubWith(v, inner) = List(items)
        BY <3>3 DEF ScrubWith
      <4>3. items \in Seq(T)
        BY <2>1, <4>1
      <4> HIDE DEF items
      <4>4. QED
        BY <3>1, <3>3, <4>2, <4>3, ContainersMade
    <3>4. QED
      BY <3>1, <3>2, <3>3 DEF JsonKinds
  <2>5. \A v \in before[n] : Scrub[n][v] \in after[n]
    BY <1>3, <2>2, <2>3, <2>4
  <2>6. QED
    BY <2>1, <2>5
<1>6. 0..MaxNesting \subseteq Done
  <2> HIDE DEF Done
  <2>1. QED
    BY <1>4, <1>5, InductionUpTo
<1>7. QED
  BY <1>6 DEF before, after, Json

\* What a pattern matches in the text of a field name is gone from a scrubbed one.
Marked == ShapedKey \cup EscapedKey

LEMMA NamesScrubbed ==
  ASSUME NEW key \in FieldName PROVE ScrubbedKey(key) \notin Marked
BY RedactionAssumption DEF ScrubbedKey, Marked, FieldName

\* One step into a scrubbed value leads to a scrubbed value, by a scrubbed name.
LEMMA ScrubbedChild ==
  ASSUME MaxNesting \in Nat, NEW n \in 0..MaxNesting, NEW v \in Json(n),
         NEW child \in Children(Scrub[n][v])
  PROVE  /\ n # 0
         /\ child[1][1] = "key" => child[1][2] \notin Marked
         /\ \E x \in Json(n - 1) : child[2] = Scrub[n - 1][x]
<1> DEFINE inner == Scrub[n - 1]
           w     == Scrub[n][v]
           S     == Json(n - 1)
<1>1. w = ScrubWith(v, inner)
  BY ScrubIs
<1>2. v \in JsonLeaf \/ (n # 0 /\ v \in Containers(S, JsonKinds))
  BY NestedIs DEF Json
<1>3. child \in Children(w)
  OBVIOUS
<1> HIDE DEF inner, w, S
<1>4. v \notin JsonLeaf
  <2> SUFFICES ASSUME v \in JsonLeaf PROVE FALSE
    OBVIOUS
  <2>1. v.kind \in {"scalar", "text"}
    BY DEF JsonLeaf
  <2>2. w = Garbled \/ w = v \/ w = Text(RedactPieces(v.pieces))
    BY <1>1, <2>1 DEF ScrubWith
  <2>3. w.kind \in {"garbled", "scalar", "text"}
    BY <2>1, <2>2 DEF Garbled, Text
  <2>4. QED
    BY <1>3, <2>3 DEF Children
<1>5. n # 0 /\ v.kind \in JsonKinds
  BY <1>2, <1>4, ContainerCases
<1>6. CASE v.kind = "map"
  <2> DEFINE pairs == [i \in DOMAIN v.pairs |->
                         <<ScrubbedKey(v.pairs[i][1]), inner[v.pairs[i][2]]>>]
  <2>1. v.pairs \in Seq(FieldName \X S)
    BY <1>2, <1>4, <1>6, ContainerCases
  <2>2. w = Map(pairs)
    BY <1>1, <1>6 DEF ScrubWith
  <2>3. w.kind = "map" /\ w.pairs = pairs
    BY <2>2 DEF Map
  <2>4. PICK i \in DOMAIN pairs : child = << <<"key", pairs[i][1]>>, pairs[i][2] >>
    BY <1>3, <2>3 DEF Children
  <2>5. v.pairs[i][1] \in FieldName /\ v.pairs[i][2] \in S
    BY <2>1, <2>4
  <2>6. pairs[i][1] = ScrubbedKey(v.pairs[i][1]) /\ pairs[i][2] = inner[v.pairs[i][2]]
    BY <2>4
  <2> HIDE DEF pairs
  <2>7. QED
    BY <1>5, <2>4, <2>5, <2>6, NamesScrubbed DEF S, inner
<1>7. CASE v.kind = "list"
  <2> DEFINE items == [i \in DOMAIN v.items |-> inner[v.items[i]]]
  <2>1. v.items \in Seq(S)
    BY <1>2, <1>4, <1>7, ContainerCases
  <2>2. w = List(items)
    BY <1>1, <1>7 DEF ScrubWith
  <2>3. w.kind = "list" /\ w.items = items
    BY <2>2 DEF List
  <2>4. PICK i \in DOMAIN items : child = << <<"item", i>>, items[i] >>
    BY <1>3, <2>3 DEF Children
  <2>5. v.items[i] \in S /\ items[i] = inner[v.items[i]]
    BY <2>1, <2>4
  <2> HIDE DEF items
  <2>6. QED
    BY <1>5, <2>4, <2>5 DEF S, inner
<1>8. QED
  BY <1>5, <1>6, <1>7 DEF JsonKinds

\* So no name on the way to a place of a scrubbed value is one that a pattern
\* matches.
LEMMA ScrubbedWays ==
  ASSUME MaxNesting \in Nat, NEW v \in Json(MaxNesting)
  PROVE  \A place \in Places(Scrub[MaxNesting][v]) : KeysTo(place[1]) \cap Marked = {}
<1> DEFINE ways     == Ways(Scrub[MaxNesting][v])
           Clean(s) == \A i \in DOMAIN s : s[i][1] = "key" => s[i][2] \notin Marked
           From(m, w) == \E x \in Json(m) : w = Scrub[m][x]
           Good(n)  == \A way \in ways[n] :
                         Clean(way[1]) /\ From(MaxNesting - n, way[2])
           Done     == {n \in 0..MaxNesting : Good(n)}
<1>1. /\ ways[0] = {<< <<>>, Scrub[MaxNesting][v] >>}
      /\ \A n \in 1..MaxNesting : ways[n] = OneFurther(ways[n - 1])
  BY WaysAre
<1>s. \A n \in 0..MaxNesting : \A way \in ways[n] : way[1] \in Seq(WayStep)
  <2>1. ScrubbedLeaf \in SUBSET AnyLeaf
    BY DEF ScrubbedLeaf, AnyLeaf, TidyLeaf, JsonLeaf
  <2>2. Scrub[MaxNesting][v] \in Nested(ScrubbedLeaf, JsonKinds)[MaxNesting]
    BY ScrubTyped
  <2>3. QED
    BY <2>1, <2>2, WaysNested DEF IsWay
<1> HIDE DEF ways
<1>2. 0 \in Done
  <2>1. ASSUME NEW way \in ways[0]
        PROVE  Clean(way[1]) /\ From(MaxNesting - 0, way[2])
    <3>1. way[1] = <<>> /\ way[2] = Scrub[MaxNesting][v] /\ MaxNesting - 0 = MaxNesting
      BY <1>1
    <3>2. QED
      BY <3>1
  <2> HIDE DEF From, Clean
  <2>2. QED
    BY <2>1
<1>3. ASSUME NEW n \in 1..MaxNesting, n - 1 \in Done PROVE n \in Done
  <2>1. ASSUME NEW way \in ways[n]
        PROVE  Clean(way[1]) /\ From(MaxNesting - n, way[2])
    <3>way. PICK x \in ways[n - 1] :
            \E child \in Children(x[2]) : way = <<Append(x[1], child[1]), child[2]>>
      BY <1>1 DEF OneFurther
    <3>1. PICK child \in Children(x[2]) : way = <<Append(x[1], child[1]), child[2]>>
      BY <3>way
    <3> DEFINE m == MaxNesting - (n - 1)
    <3>2. m \in 0..MaxNesting /\ m - 1 = MaxNesting - n
      OBVIOUS
    <3>3. Clean(x[1]) /\ From(m, x[2])
      BY <1>3
    <3> HIDE DEF m
    <3>4. PICK y \in Json(m) : x[2] = Scrub[m][y]
      BY <3>3
    <3>5. /\ child[1][1] = "key" => child[1][2] \notin Marked
          /\ From(m - 1, child[2])
      BY <3>1, <3>2, <3>4, ScrubbedChild
    <3>6. x[1] \in Seq(WayStep)
      BY <1>s
    <3> DEFINE steps == Append(x[1], child[1])
    <3>7. /\ DOMAIN steps = 1..(Len(x[1]) + 1) /\ Len(x[1]) \in Nat
          /\ DOMAIN x[1] = 1..Len(x[1])
          /\ \A i \in 1..Len(x[1]) : steps[i] = x[1][i]
          /\ steps[Len(x[1]) + 1] = child[1]
      BY <3>6
    <3>8. way[1] = steps /\ way[2] = child[2]
      BY <3>1
    <3> HIDE DEF From, steps
    <3>9. Clean(steps)
      BY <3>3, <3>5, <3>7
    <3>10. QED
      BY <3>2, <3>5, <3>8, <3>9
  <2> HIDE DEF From, Clean
  <2>2. QED
    BY <2>1
<1>4. 0..MaxNesting \subseteq Done
  <2> HIDE DEF Done
  <2>1. QED
    BY <1>2, <1>3, InductionUpTo
<1>5. ASSUME NEW place \in Places(Scrub[MaxNesting][v])
      PROVE  KeysTo(place[1]) \cap Marked = {}
  <2>n. PICK n \in 0..MaxNesting :
          \E way \in ways[n] : place = <<way[1], Label(way[2])>>
    BY DEF Places, ways
  <2>1. PICK way \in ways[n] : place = <<way[1], Label(way[2])>>
    BY <2>n
  <2>2. Clean(way[1]) /\ place[1] = way[1]
    BY <1>4, <2>1
  <2>3. QED
    BY <2>2 DEF KeysTo
<1>6. QED
  BY <1>5

-----------------------------------------------------------------------------
(* The theorems.                                                           *)

\* What each stage has made of the value that came in.
RedactionIInv ==
  /\ stage \in {"event", "body", "unparsed", "logged", "dumped", "scrubbed",
                "recorded"}
  /\ stage \in {"event", "logged"} => given \in Event /\ given \in Value
  /\ stage \in {"body", "dumped"} => given \in JsonBody
  /\ stage \in {"event", "body", "unparsed"} => value = given
  /\ Redacted => value = Redact[0][given]
  /\ stage \in {"unparsed", "scrubbed"} =>
       value.kind = "text" /\ value.pieces \in SUBSET Piece
  /\ stage = "scrubbed" => value.pieces \cap Shaped = {}
  /\ stage = "recorded" =>
       \/ \E v \in Json(MaxNesting) : value = Scrub[MaxNesting][v]
       \/ value = Text(value.pieces) /\ value.pieces \cap Shaped = {}

\* A body that is parsed is redacted from the top and then as a text, any other one
\* as a text twice.
LEMMA RedactionInductive == RedactionSpec => []RedactionIInv
<1>a. /\ MaxDepth \in Nat /\ MaxNesting \in Nat /\ 0 \in 0..(MaxDepth + 1)
      /\ JsonBody \subseteq Json(MaxNesting) /\ Event \subseteq Value
      /\ TextBody \subseteq {leaf \in Leaf : leaf.kind = "text"}
  BY RedactionAssumption
<1>1. RedactionInit => RedactionIInv
  <2> SUFFICES ASSUME RedactionInit PROVE RedactionIInv
    OBVIOUS
  <2>1. given \in TextBody => given.kind = "text" /\ given.pieces \in SUBSET Piece
    BY <1>a, LeafCases
  <2>2. QED
    BY <1>a, <2>1 DEF RedactionInit, RedactionIInv, Redacted
<1>2. RedactionIInv /\ [RedactionNext]_redactionVars => RedactionIInv'
  <2> SUFFICES ASSUME RedactionIInv, [RedactionNext]_redactionVars
               PROVE  RedactionIInv'
    OBVIOUS
  <2> USE DEF RedactionIInv, Redacted
  <2>1. CASE Log
    BY <2>1 DEF Log
  <2>2. CASE DumpBody
    BY <2>2 DEF DumpBody
  <2>3. CASE ScrubBody
    <3>1. value.pieces \in SUBSET Piece /\ value' = Text(RedactPieces(value.pieces))
      BY <2>3 DEF ScrubBody
    <3>2. value'.kind = "text" /\ value'.pieces = RedactPieces(value.pieces)
      BY <3>1 DEF Text
    <3>3. QED
      BY <2>3, <3>1, <3>2, PiecesRedacted DEF ScrubBody
  <2>4. CASE AppendExchange
    <3>1. CASE stage = "dumped" /\ value' = Scrub[MaxNesting][value]
      <4>1. value \in Json(MaxNesting)
        BY <1>a, <3>1, RedactedIsTidy
      <4>2. QED
        BY <2>4, <3>1, <4>1 DEF AppendExchange
    <3>2. CASE stage = "scrubbed" /\ value' = Text(RedactPieces(value.pieces))
      <4>1. value' = Text(value'.pieces) /\ value'.pieces = RedactPieces(value.pieces)
        BY <3>2 DEF Text
      <4>2. QED
        BY <2>4, <3>2, <4>1, PiecesRedacted DEF AppendExchange
    <3>3. QED
      BY <2>4, <3>1, <3>2 DEF AppendExchange
  <2>5. CASE UNCHANGED redactionVars
    BY <2>5 DEF redactionVars
  <2>6. QED
    BY <2>1, <2>2, <2>3, <2>4, <2>5 DEF RedactionNext
<1>3. QED
  BY <1>1, <1>2, PTL DEF RedactionSpec

\* What is logged or dumped came in as a value.
LEMMA GivenIsValue ==
  ASSUME RedactionIInv, Redacted
  PROVE  MaxDepth \in Nat /\ MaxNesting \in Nat /\ given \in Value
<1>1. /\ MaxDepth \in Nat /\ MaxNesting \in Nat
      /\ JsonBody \subseteq Json(MaxNesting) /\ Event \subseteq Value
  BY RedactionAssumption
<1>2. \A v \in Json(MaxNesting) : v \in Value
  <2>1. 0 \in 0..(MaxDepth + 1)
    BY <1>1
  <2>2. QED
    BY <1>1, <2>1, RedactedIsTidy
<1>3. QED
  BY <1>1, <1>2 DEF RedactionIInv, Redacted

\* redact walks a value as far as the limit and keeps its structure
\* (redaction.py:148-156).
THEOREM RedactionKeepsStructure == RedactionSpec => []StructureKept
<1>1. RedactionIInv => StructureKept
  BY GivenIsValue, PlacesRedacted DEF StructureKept, RedactionIInv
<1>2. QED
  BY <1>1, RedactionInductive, PTL

\* No text that a pattern matches is left in what is logged or recorded
\* (redaction.py:24-28, 139-145), and no field name or number that one matches in
\* a recorded body, which is one text (capture.py:107).
THEOREM RedactionLeavesNothing == RedactionSpec => []NothingShapedLeft
<1>1. RedactionIInv => NothingShapedLeft
  <2> SUFFICES ASSUME RedactionIInv, NEW place \in Places(value),
                      stage \in {"logged", "dumped", "scrubbed", "recorded"}
               PROVE  /\ place[2].kind = "text" => place[2].pieces \cap Shaped = {}
                      /\ stage = "recorded" =>
                           /\ KeysTo(place[1]) \cap (ShapedKey \cup EscapedKey) = {}
                           /\ place[2].kind = "scalar" =>
                                place[2].number \notin ShapedNumber
    BY DEF NothingShapedLeft
  <2>1. /\ MaxDepth \in Nat /\ MaxNesting \in Nat /\ 0 \in 0..(MaxDepth + 1)
        /\ Kinds \in SUBSET Kinds /\ JsonKinds \in SUBSET Kinds
        /\ MaxNesting \in 0..MaxNesting /\ "text" \notin Kinds /\ "scalar" \notin Kinds
        /\ TidyLeaf \in SUBSET AnyLeaf /\ ScrubbedLeaf \in SUBSET AnyLeaf
    BY RedactionAssumption
    DEF Kinds, JsonKinds, TidyLeaf, ScrubbedLeaf, AnyLeaf, JsonLeaf
  <2>2. CASE stage \in {"logged", "dumped"}
    <3>1. value \in Nested(TidyLeaf, Kinds)[MaxNesting]
      BY <2>1, <2>2, GivenIsValue, RedactedIsTidy DEF RedactionIInv, Redacted
    <3>2. place[2].kind \notin Kinds => place[2] \in TidyLeaf
      BY <2>1, <3>1, LeafPlaces
    <3>3. QED
      BY <2>1, <2>2, <3>2 DEF TidyLeaf
  <2>3. ASSUME NEW v \in Json(MaxNesting), value = Scrub[MaxNesting][v],
               stage = "recorded"
        PROVE  /\ place[2].kind = "text" => place[2].pieces \cap Shaped = {}
               /\ KeysTo(place[1]) \cap (ShapedKey \cup EscapedKey) = {}
               /\ place[2].kind = "scalar" => place[2].number \notin ShapedNumber
    <3>1. value \in Nested(ScrubbedLeaf, JsonKinds)[MaxNesting]
      BY <2>1, <2>3, ScrubTyped
    <3>2. place[2].kind \notin Kinds => place[2] \in ScrubbedLeaf
      BY <2>1, <3>1, LeafPlaces
    <3>3. KeysTo(place[1]) \cap (ShapedKey \cup EscapedKey) = {}
      BY <2>1, <2>3, ScrubbedWays DEF Marked
    <3>4. QED
      BY <2>1, <3>2, <3>3 DEF ScrubbedLeaf, TidyLeaf, Garbled
  <2>4. ASSUME value.kind = "text", value.pieces \cap Shaped = {}
        PROVE  place = << <<>>, value >>
    <3>n. PICK n \in 0..MaxNesting :
            \E way \in Ways(value)[n] : place = <<way[1], Label(way[2])>>
      BY DEF Places
    <3>1. PICK way \in Ways(value)[n] : place = <<way[1], Label(way[2])>>
      BY <3>n
    <3> DEFINE ways == Ways(value)
    <3>2. /\ ways[0] = {<< <<>>, value >>}
          /\ \A m \in 1..MaxNesting : ways[m] = OneFurther(ways[m - 1])
      BY <2>1, WaysAre
    <3>3. Children(value) = {} /\ Label(value) = value
      BY <2>1, <2>4 DEF Children, Label
    <3> HIDE DEF ways
    <3>4. ASSUME n # 0 PROVE FALSE
      <4> DEFINE Nowhere == {m \in 0..MaxNesting : m # 0 => ways[m] = {}}
      <4>1. 0 \in Nowhere
        BY <2>1
      <4>2. ASSUME NEW m \in 1..MaxNesting, m - 1 \in Nowhere PROVE m \in Nowhere
        <5>1. ways[m] = OneFurther(ways[m - 1])
          BY <3>2
        <5>2. CASE m = 1
          <6>1. ways[m] = OneFurther({<< <<>>, value >>})
            <7>1. m - 1 = 0 /\ ways[0] = {<< <<>>, value >>}
              BY <3>2, <5>2
            <7>2. QED
              BY <5>1, <7>1
          <6>2. QED
            BY <3>3, <6>1 DEF OneFurther
        <5>3. CASE m # 1
          BY <4>2, <5>1, <5>3 DEF OneFurther
        <5>4. QED
          BY <5>2, <5>3
      <4> HIDE DEF Nowhere
      <4>3. 0..MaxNesting \subseteq Nowhere
        BY <2>1, <4>1, <4>2, InductionUpTo
      <4>4. QED
        BY <3>1, <3>4, <4>3 DEF Nowhere, ways
    <3>5. way = << <<>>, value >>
      BY <3>1, <3>2, <3>4 DEF ways
    <3>6. QED
      BY <3>1, <3>3, <3>5
  <2>5. CASE stage = "scrubbed"
    BY <2>4, <2>5 DEF RedactionIInv
  <2>6. ASSUME value = Text(value.pieces), value.pieces \cap Shaped = {}
        PROVE  /\ place[2].kind = "text" => place[2].pieces \cap Shaped = {}
               /\ KeysTo(place[1]) \cap (ShapedKey \cup EscapedKey) = {}
               /\ place[2].kind = "scalar" => place[2].number \notin ShapedNumber
    <3>1. value.kind = "text"
      BY <2>6 DEF Text
    <3>2. place[1] = <<>> /\ place[2] = value
      BY <2>4, <2>6, <3>1
    <3>3. KeysTo(<<>>) = {}
      BY DEF KeysTo
    <3>4. QED
      BY <2>6, <3>1, <3>2, <3>3
  <2>7. CASE stage = "recorded"
    BY <2>3, <2>6, <2>7 DEF RedactionIInv
  <2>8. QED
    BY <2>2, <2>5, <2>7
<1>2. QED
  BY <1>1, RedactionInductive, PTL
=============================================================================
