------------------------- MODULE PersistenceProofs --------------------------
(* Proofs about what survives a crash: the checkpoint stores, for any      *)
(* number of crews and Saves, and the flow with a state file, for any      *)
(* number of nodes.                                                        *)
EXTENDS CheckpointStores, FlowSequence, TLAPS

-----------------------------------------------------------------------------
(* The checkpoint stores.                                                  *)

SavingRecord == [step : {"versioned", "latest", "cleanup"}, crew : Crews, ts : Nat, v : 1..MaxSaves]

StoreTypeOK ==
    /\ backend \in {"file", "redis", "sqlite"} /\ now \in Nat /\ saves \in Nat
    /\ latest \in [Crews -> [ts : Nat, v : Nat]]
    /\ newest \in [Crews -> Nat] /\ acked \in [Crews -> Nat]
    /\ saving = Idle \/ saving \in SavingRecord

(* The Save under way is the newest of all, and it has become the latest   *)
(* checkpoint when only its cleanup is left.                               *)
SaveSound ==
    /\ \A c \in Crews : newest[c] <= saves
    /\ saving # Idle =>
           /\ saving.v = saves
           /\ saving.step # "cleanup" => \A c \in Crews : newest[c] < saving.v
           /\ saving.step = "cleanup" /\ backend # "sqlite" => newest[saving.crew] = saving.v

StoreIInv == StoreTypeOK /\ SaveSound

(* A step of the Save under way leaves its crew, time and number alone.    *)
LEMMA SavingMoves ==
    ASSUME StoreTypeOK, saving # Idle, NEW s \in {"latest", "cleanup"},
           saving' = [saving EXCEPT !.step = s]
    PROVE  /\ saving' \in SavingRecord /\ saving'.step = s
           /\ saving'.crew = saving.crew /\ saving'.v = saving.v /\ saving' # Idle
<1>1. saving \in SavingRecord
  BY DEF StoreTypeOK
<1>2. saving' \in SavingRecord /\ saving'.step = s /\ saving'.crew = saving.crew /\ saving'.v = saving.v
  BY <1>1 DEF SavingRecord
<1>3. QED
  BY <1>2 DEF Idle

(* The Save under way has a crew, a time and a number.                     *)
LEMMA SavingTyped ==
    ASSUME StoreTypeOK, saving # Idle
    PROVE  /\ saving \in SavingRecord /\ saving.crew \in Crews /\ saving.ts \in Nat
           /\ saving.v \in Nat /\ saving.v \in 1..MaxSaves
<1>1. saving \in SavingRecord
  BY DEF StoreTypeOK
<1>2. saving.crew \in Crews /\ saving.ts \in Nat /\ saving.v \in 1..MaxSaves
  BY <1>1 DEF SavingRecord
<1>3. QED
  BY <1>1, <1>2

(* A Save that is at one of its steps is under way.                        *)
LEMMA NotIdle ==
    ASSUME saving.step # "none"
    PROVE  saving # Idle
BY DEF Idle

(* A Save begins newer than whatever any crew has published.               *)
LEMMA SaveBegins ==
    ASSUME StoreIInv, NEW c \in Crews, Save(c)
    PROVE  StoreIInv'
<1>0. StoreTypeOK /\ \A d \in Crews : newest[d] <= saves
  BY DEF StoreIInv, SaveSound
<1>1. /\ saves < MaxSaves /\ saves' = saves + 1
      /\ saving' = [step |-> "versioned", crew |-> c, ts |-> now, v |-> saves']
      /\ backend' = backend /\ now' = now /\ latest' = latest /\ newest' = newest /\ acked' = acked
  BY DEF Save
<1>2. saves \in Nat /\ MaxSaves \in Nat /\ saves' \in 1..MaxSaves /\ saves' \in Nat /\ now \in Nat
      /\ \A d \in Crews : newest[d] \in Nat
  BY <1>0, <1>1, StoresAssumption DEF StoreTypeOK
<1>3. \A n, m, k \in Nat : n <= m /\ k = m + 1 => n < k /\ n <= k
  OBVIOUS
<1>4. \A d \in Crews : newest[d] < saves' /\ newest[d] <= saves'
  BY <1>0, <1>1, <1>2, <1>3
<1>5. saving' \in SavingRecord /\ saving'.v = saves' /\ saving'.step = "versioned"
  BY <1>1, <1>2 DEF SavingRecord
<1>6. StoreTypeOK'
  BY <1>0, <1>1, <1>2, <1>5 DEF StoreTypeOK
<1>7. SaveSound'
  BY <1>1, <1>4, <1>5 DEF SaveSound
<1>8. QED
  BY <1>6, <1>7 DEF StoreIInv

(* The versioned write publishes nothing, whether it succeeds or fails.    *)
LEMMA WriteVersionedSound ==
    ASSUME StoreIInv, WriteVersioned
    PROVE  StoreIInv'
<1>0. StoreTypeOK /\ SaveSound /\ saving # Idle /\ saving.step = "versioned"
  BY NotIdle DEF StoreIInv, WriteVersioned
<1>1. /\ backend' = backend /\ now' = now /\ saves' = saves /\ latest' = latest /\ newest' = newest /\ acked' = acked
      /\ saving' = Idle \/ saving' = [saving EXCEPT !.step = "latest"]
  BY DEF WriteVersioned, WriteFile, SetKey, InsertRow
<1>2. CASE saving' = Idle
  <2>1. StoreTypeOK'
    BY <1>0, <1>1, <1>2 DEF StoreTypeOK
  <2>2. SaveSound'
    BY <1>0, <1>1, <1>2 DEF SaveSound
  <2>3. QED
    BY <2>1, <2>2 DEF StoreIInv
<1>3. CASE saving' = [saving EXCEPT !.step = "latest"]
  <2>1. saving' \in SavingRecord /\ saving'.step = "latest" /\ saving'.crew = saving.crew /\ saving'.v = saving.v
    BY <1>0, <1>3, SavingMoves
  <2>2. StoreTypeOK'
    BY <1>0, <1>1, <2>1 DEF StoreTypeOK
  <2>3. SaveSound'
    BY <1>0, <1>1, <2>1 DEF SaveSound
  <2>4. QED
    BY <2>2, <2>3 DEF StoreIInv
<1>4. QED
  BY <1>1, <1>2, <1>3

(* What becomes of the map of latest checkpoints when one is replaced.     *)
LEMMA LatestMoves ==
    ASSUME StoreTypeOK, NEW c \in Crews, NEW r \in [ts : Nat, v : Nat], latest' = [latest EXCEPT ![c] = r]
    PROVE  /\ latest' \in [Crews -> [ts : Nat, v : Nat]]
           /\ [d \in Crews |-> latest'[d].v] = [[d \in Crews |-> latest[d].v] EXCEPT ![c] = r.v]
<1>1. latest \in [Crews -> [ts : Nat, v : Nat]]
  BY DEF StoreTypeOK
<1>2. latest' \in [Crews -> [ts : Nat, v : Nat]] /\ latest'[c] = r /\ \A d \in Crews \ {c} : latest'[d] = latest[d]
  BY <1>1
<1>3. QED
  BY <1>2

(* What a Save points to is its own number.                                *)
LEMMA PointToTyped ==
    ASSUME StoreTypeOK, saving # Idle, NEW c
    PROVE  /\ PointTo(c) \in [ts : Nat, v : Nat] /\ PointTo(c).v = saving.v
           /\ NoRow \in [ts : Nat, v : Nat] /\ NoRow.v = 0
BY SavingTyped DEF PointTo, NoRow

(* The write of the latest checkpoint publishes the Save under way.        *)
LEMMA WriteLatestSound ==
    ASSUME StoreIInv, WriteLatest
    PROVE  StoreIInv'
<1> DEFINE c == saving.crew
<1>0. StoreTypeOK /\ SaveSound /\ saving # Idle /\ saving.step = "latest" /\ saving.crew \in Crews /\ saving.v \in Nat
  BY NotIdle, SavingTyped DEF StoreIInv, WriteLatest
<1>1. backend' = backend /\ now' = now /\ saves' = saves /\ acked' = acked
  BY DEF WriteLatest
<1>2. /\ saving.v = saves /\ saves \in Nat /\ \A d \in Crews : newest[d] < saving.v /\ newest[d] <= saves
      /\ newest \in [Crews -> Nat] /\ latest \in [Crews -> [ts : Nat, v : Nat]]
  BY <1>0 DEF SaveSound, StoreTypeOK
<1>3. CASE /\ latest' = [latest EXCEPT ![c] = PointTo(c)]
           /\ newest' = [newest EXCEPT ![c] = saving.v]
           /\ saving' = [saving EXCEPT !.step = "cleanup"]
  <2>1. latest' \in [Crews -> [ts : Nat, v : Nat]]
    BY <1>0, <1>3, LatestMoves, PointToTyped
  <2>2. newest' \in [Crews -> Nat] /\ newest'[c] = saving.v /\ \A d \in Crews \ {c} : newest'[d] = newest[d]
    BY <1>0, <1>2, <1>3
  <2>3. /\ saving' \in SavingRecord /\ saving'.step = "cleanup" /\ saving'.crew = saving.crew
        /\ saving'.v = saving.v
    BY <1>0, <1>3, SavingMoves
  <2>4. StoreTypeOK'
    BY <1>0, <1>1, <2>1, <2>2, <2>3 DEF StoreTypeOK
  <2>5. \A d \in Crews : newest'[d] <= saves'
    BY <1>0, <1>1, <1>2, <2>2
  <2>6. SaveSound'
    BY <1>1, <1>2, <2>2, <2>3, <2>5 DEF SaveSound
  <2>7. QED
    BY <2>4, <2>6 DEF StoreIInv
<1>4. CASE /\ latest' = latest \/ latest' = [latest EXCEPT ![c] = NoRow]
           /\ saving' = IF backend = "sqlite" THEN [saving EXCEPT !.step = "cleanup"] ELSE Idle
           /\ newest' = newest
  <2>1. latest' \in [Crews -> [ts : Nat, v : Nat]]
    BY <1>0, <1>2, <1>4, LatestMoves, PointToTyped
  <2>2. CASE backend = "sqlite"
    <3>1. /\ saving' \in SavingRecord /\ saving'.step = "cleanup" /\ saving'.crew = saving.crew
          /\ saving'.v = saving.v
      BY <1>0, <1>4, <2>2, SavingMoves
    <3>2. StoreTypeOK'
      BY <1>0, <1>1, <1>4, <2>1, <3>1 DEF StoreTypeOK
    <3>3. SaveSound'
      BY <1>1, <1>2, <1>4, <2>2, <3>1 DEF SaveSound
    <3>4. QED
      BY <3>2, <3>3 DEF StoreIInv
  <2>3. CASE backend # "sqlite"
    <3>1. saving' = Idle
      BY <1>4, <2>3
    <3>2. StoreTypeOK'
      BY <1>0, <1>1, <1>4, <2>1, <3>1 DEF StoreTypeOK
    <3>3. SaveSound'
      BY <1>1, <1>2, <1>4, <3>1 DEF SaveSound
    <3>4. QED
      BY <3>2, <3>3 DEF StoreIInv
  <2>4. QED
    BY <2>2, <2>3
<1>5. QED
  BY <1>3, <1>4 DEF WriteLatest

(* Save returns nil after its cleanup, when its number is published.       *)
LEMMA CleanupSound ==
    ASSUME StoreIInv, Cleanup
    PROVE  StoreIInv'
<1>0. StoreTypeOK /\ SaveSound /\ saving # Idle /\ saving.crew \in Crews /\ saving.v \in Nat
  BY NotIdle, SavingTyped DEF StoreIInv, Cleanup
<1>1. /\ backend' = backend /\ now' = now /\ saves' = saves /\ latest' = latest /\ newest' = newest
      /\ saving' = Idle /\ acked' = [acked EXCEPT ![saving.crew] = saving.v]
  BY DEF Cleanup
<1>2. acked' \in [Crews -> Nat]
  BY <1>0, <1>1 DEF StoreTypeOK
<1>3. StoreTypeOK'
  BY <1>0, <1>1, <1>2 DEF StoreTypeOK
<1>4. SaveSound'
  BY <1>0, <1>1 DEF SaveSound
<1>5. QED
  BY <1>3, <1>4 DEF StoreIInv

(* What neither publishes nor goes on with a Save.                         *)
LEMMA OtherStoreSteps ==
    ASSUME StoreIInv, Tick \/ Crash \/ UNCHANGED vars
                      \/ \E c \in Crews : Expire(c) \/ \E t \in 1..MaxTime : Delete(c, t)
    PROVE  /\ StoreIInv'
           /\ backend' = backend /\ newest' = newest /\ acked' = acked
           /\ \/ latest' = latest
              \/ \E c \in Crews : latest' = [latest EXCEPT ![c] = NoRow]
<1>0. StoreTypeOK /\ SaveSound /\ now \in Nat
  BY DEF StoreIInv, StoreTypeOK
<1>1. /\ backend' = backend /\ saves' = saves /\ newest' = newest /\ acked' = acked
      /\ saving' = saving \/ saving' = Idle
  BY DEF Tick, Crash, Expire, Delete, vars
<1>2. now' \in Nat
  BY <1>0 DEF Tick, Crash, Expire, Delete, vars
<1>3. latest' = latest \/ \E c \in Crews : latest' = [latest EXCEPT ![c] = NoRow]
  <2>1. CASE Crash
    <3>1. saving.crew \in Crews
      BY <1>0, <2>1, SavingTyped DEF Crash
    <3>2. QED
      BY <2>1, <3>1 DEF Crash
  <2>2. CASE \E c \in Crews : Expire(c)
    BY <2>2 DEF Expire
  <2>3. CASE Tick \/ UNCHANGED vars \/ \E c \in Crews : \E t \in 1..MaxTime : Delete(c, t)
    BY <2>3 DEF Tick, Delete, vars
  <2>4. QED
    BY <2>1, <2>2, <2>3
<1>4. latest' \in [Crews -> [ts : Nat, v : Nat]]
  <2>1. latest \in [Crews -> [ts : Nat, v : Nat]] /\ NoRow \in [ts : Nat, v : Nat]
    BY <1>0 DEF StoreTypeOK, NoRow
  <2>2. QED
    BY <1>3, <2>1
<1>5. StoreTypeOK'
  BY <1>0, <1>1, <1>2, <1>4 DEF StoreTypeOK
<1>6. SaveSound'
  BY <1>0, <1>1 DEF SaveSound
<1>7. QED
  BY <1>1, <1>3, <1>5, <1>6 DEF StoreIInv

(* The Save under way is sound in every reachable state.                   *)
LEMMA StoreInductive == Spec => []StoreIInv
<1>1. Init => StoreIInv
  <2>1. SUFFICES ASSUME Init PROVE StoreIInv
    OBVIOUS
  <2>2. /\ backend \in {"file", "redis", "sqlite"} /\ now = 1 /\ saves = 0 /\ latest = [c \in Crews |-> NoRow]
        /\ saving = Idle /\ newest = [c \in Crews |-> 0] /\ acked = newest
    BY <2>1, Zenon DEF Init
  <2>3. NoRow \in [ts : Nat, v : Nat]
    BY DEF NoRow
  <2>4. StoreTypeOK
    BY <2>2, <2>3 DEF StoreTypeOK
  <2>5. SaveSound
    <3>1. \A c \in Crews : newest[c] <= saves
      BY <2>2
    <3>2. QED
      BY <2>2, <3>1 DEF SaveSound
  <2>6. QED
    BY <2>4, <2>5 DEF StoreIInv
<1>2. StoreIInv /\ [Next]_vars => StoreIInv'
  BY SaveBegins, WriteVersionedSound, WriteLatestSound, CleanupSound, OtherStoreSteps DEF Next
<1>3. QED
  BY <1>1, <1>2, PTL DEF Spec

(* Behind the refinement mapping of a store that keeps the promise.        *)
LEMMA MappedStore ==
    ASSUME StoreTypeOK, backend # "sqlite"
    PROVE  /\ [c \in Crews |-> LoadLatest(c).v] = [c \in Crews |-> latest[c].v]
           /\ Kept(newest) = newest /\ Kept(acked) = acked
BY DEF StoreTypeOK, LoadLatest, LoadLatestFile, LoadLatestKey, Kept

(* SQLite, from which no checkpoint can be read back, is left out: it maps *)
(* to a promise that nothing was made of.                                  *)
LEMMA MappedSqlite ==
    ASSUME backend = "sqlite"
    PROVE  /\ [c \in Crews |-> LoadLatest(c).v] = [c \in Crews |-> 0]
           /\ Kept(newest) = [c \in Crews |-> 0] /\ Kept(acked) = [c \in Crews |-> 0]
BY DEF LoadLatest, LoadLatestRow, Kept, NoRow

(* Each step of a store that keeps the promise is a step of the promise or *)
(* changes nothing a user can see.                                         *)
LEMMA StoreSimulates ==
    ASSUME StoreIInv, [Next]_vars, backend # "sqlite", backend' = backend
    PROVE  LET shown == [c \in Crews |-> latest[c].v] IN
           \/ /\ shown' = shown /\ newest' = newest /\ acked' = acked
           \/ \E c \in Crews :
                 \/ /\ \E v \in 1..MaxSaves : v > newest[c] /\ shown' = [shown EXCEPT ![c] = v]
                    /\ newest' = [newest EXCEPT ![c] = shown'[c]] /\ acked' = acked
                 \/ acked' = [acked EXCEPT ![c] = newest[c]] /\ shown' = shown /\ newest' = newest
                 \/ shown' = [shown EXCEPT ![c] = 0] /\ newest' = newest /\ acked' = acked
<1> DEFINE shown == [c \in Crews |-> latest[c].v]
<1>0. StoreTypeOK /\ SaveSound
  BY DEF StoreIInv
<1>1. CASE (\E c \in Crews : Save(c)) \/ WriteVersioned
  BY <1>1 DEF Save, WriteVersioned
<1>2. CASE WriteLatest
  <2> DEFINE c == saving.crew
  <2>1. saving # Idle /\ saving.crew \in Crews /\ saving.v \in Nat /\ saving.v \in 1..MaxSaves
        /\ saving.step = "latest"
    BY <1>0, <1>2, NotIdle, SavingTyped DEF WriteLatest
  <2>2. saving.v > newest[c] /\ acked' = acked
    <3>1. newest[c] < saving.v /\ newest[c] \in Nat
      BY <1>0, <2>1 DEF SaveSound, StoreTypeOK
    <3>2. QED
      BY <1>2, <2>1, <3>1 DEF WriteLatest
  <2>3. CASE latest' = [latest EXCEPT ![c] = PointTo(c)] /\ newest' = [newest EXCEPT ![c] = saving.v]
    <3>1. PointTo(c) \in [ts : Nat, v : Nat] /\ PointTo(c).v = saving.v
      BY <1>0, <2>1, PointToTyped
    <3>2. shown' = [shown EXCEPT ![c] = PointTo(c).v]
      BY <1>0, <2>1, <2>3, <3>1, LatestMoves
    <3>3. shown' = [shown EXCEPT ![c] = saving.v] /\ shown'[c] = saving.v
      BY <2>1, <3>1, <3>2
    <3>4. QED
      BY <2>1, <2>2, <2>3, <3>3
  <2>4. CASE newest' = newest /\ (latest' = latest \/ latest' = [latest EXCEPT ![c] = NoRow])
    <3>1. NoRow \in [ts : Nat, v : Nat] /\ NoRow.v = 0
      BY <1>0, <2>1, PointToTyped
    <3>2. CASE latest' = latest
      BY <2>2, <2>4, <3>2
    <3>3. CASE latest' = [latest EXCEPT ![c] = NoRow]
      <4>1. shown' = [shown EXCEPT ![c] = NoRow.v]
        BY <1>0, <2>1, <3>1, <3>3, LatestMoves
      <4>2. QED
        BY <2>1, <2>2, <2>4, <3>1, <4>1
    <3>4. QED
      BY <2>4, <3>2, <3>3
  <2>5. QED
    BY <1>2, <2>3, <2>4 DEF WriteLatest
<1>3. CASE Cleanup
  <2>1. saving # Idle /\ saving.crew \in Crews /\ saving.step = "cleanup"
    BY <1>0, <1>3, NotIdle, SavingTyped DEF Cleanup
  <2>2. newest[saving.crew] = saving.v
    BY <1>0, <2>1 DEF SaveSound
  <2>3. latest' = latest /\ newest' = newest /\ acked' = [acked EXCEPT ![saving.crew] = newest[saving.crew]]
    BY <1>3, <2>2 DEF Cleanup
  <2>4. QED
    BY <2>1, <2>3
<1>4. CASE Tick \/ Crash \/ UNCHANGED vars \/ \E c \in Crews : Expire(c) \/ \E t \in 1..MaxTime : Delete(c, t)
  <2>1. newest' = newest /\ acked' = acked
        /\ (latest' = latest \/ \E c \in Crews : latest' = [latest EXCEPT ![c] = NoRow])
    BY <1>4, OtherStoreSteps
  <2>2. CASE latest' = latest
    BY <2>1, <2>2
  <2>3. ASSUME NEW c \in Crews, latest' = [latest EXCEPT ![c] = NoRow]
        PROVE  shown' = [shown EXCEPT ![c] = 0]
    <3>1. NoRow \in [ts : Nat, v : Nat] /\ NoRow.v = 0
      BY DEF NoRow
    <3>2. shown' = [shown EXCEPT ![c] = NoRow.v]
      BY <1>0, <2>3, <3>1, LatestMoves
    <3>3. QED
      BY <3>1, <3>2
  <2>4. QED
    BY <2>1, <2>2, <2>3
<1>5. QED
  BY <1>1, <1>2, <1>3, <1>4 DEF Next

(* The file and the Redis store implement CheckpointStore for any number   *)
(* of crews and Saves: through failed writes, crashes between the writes   *)
(* and expiry the latest checkpoint only moves forward, and a Save returns *)
(* nil only after it became the latest (checkpoint.go:89-126,              *)
(* redis_checkpoint.go:73-98).                                             *)
THEOREM StoresKeepPromise == Spec => StoreRefines
<1>1. Init => Promise!Init
  <2>1. SUFFICES ASSUME Init PROVE Promise!Init
    OBVIOUS
  <2>2. /\ backend \in {"file", "redis", "sqlite"} /\ latest = [c \in Crews |-> NoRow]
        /\ newest = [c \in Crews |-> 0] /\ acked = newest
    BY <2>1, Zenon DEF Init
  <2>3. \A c \in Crews : LoadLatest(c).v = 0
    BY <2>2 DEF LoadLatest, LoadLatestFile, LoadLatestKey, LoadLatestRow, NoRow
  <2>4. Kept(newest) = [c \in Crews |-> 0] /\ Kept(acked) = [c \in Crews |-> 0]
    BY <2>2 DEF Kept
  <2>5. QED
    BY <2>3, <2>4 DEF Promise!Init
<1>2. StoreIInv /\ [Next]_vars => [Promise!Next]_(Promise!vars)
  <2>1. SUFFICES ASSUME StoreIInv, [Next]_vars PROVE [Promise!Next]_(Promise!vars)
    OBVIOUS
  <2>2. StoreTypeOK /\ StoreTypeOK'
    <3>1. StoreIInv'
      BY <2>1, SaveBegins, WriteVersionedSound, WriteLatestSound, CleanupSound, OtherStoreSteps DEF Next
    <3>2. QED
      BY <2>1, <3>1 DEF StoreIInv
  <2>3. backend' = backend
    BY <2>1 DEF Next, Tick, WriteVersioned, WriteLatest, Cleanup, Crash, Save, Expire, Delete, vars
  <2>4. CASE backend = "sqlite"
    <3>1. /\ [c \in Crews |-> LoadLatest(c).v]' = [c \in Crews |-> 0]
          /\ Kept(newest)' = [c \in Crews |-> 0] /\ Kept(acked)' = [c \in Crews |-> 0]
      BY <2>3, <2>4 DEF LoadLatest, LoadLatestRow, Kept, NoRow
    <3>2. QED
      BY <2>4, <3>1, MappedSqlite DEF Promise!vars
  <2>5. CASE backend # "sqlite"
    <3>1. /\ [c \in Crews |-> LoadLatest(c).v] = [c \in Crews |-> latest[c].v]
          /\ Kept(newest) = newest /\ Kept(acked) = acked
      BY <2>2, <2>5, MappedStore
    <3>2. /\ [c \in Crews |-> LoadLatest(c).v]' = [c \in Crews |-> latest[c].v]'
          /\ Kept(newest)' = newest' /\ Kept(acked)' = acked'
      BY <2>2, <2>3, <2>5 DEF StoreTypeOK, LoadLatest, LoadLatestFile, LoadLatestKey, Kept
    <3>3. QED
      BY <2>1, <2>3, <2>5, <3>1, <3>2, StoreSimulates
         DEF Promise!Next, Promise!vars, Promise!Publish, Promise!Ack, Promise!Lose
  <2>6. QED
    BY <2>4, <2>5
<1>3. QED
  BY <1>1, <1>2, StoreInductive, PTL DEF Spec, StoreRefines, Promise!Spec

-----------------------------------------------------------------------------
(* The flow with a state file.                                             *)

(* What the Kickoff has completed is in its state, whoever fails.          *)
FlowIInv == fdone \subseteq fstate /\ ProgressDurable

(* A node that merges its output adds it to the state before it is done.   *)
LEMMA MergedSound ==
    ASSUME FlowIInv, fstate \subseteq fstate', Merged
    PROVE  FlowIInv'
<1>1. fdone' = fdone \cup (fstate' \ fstate) /\ fpc' = "merged" /\ disk' = disk
  BY DEF Merged
<1>2. fdone' \subseteq fstate'
  BY <1>1 DEF FlowIInv
<1>3. ProgressDurable'
  BY <1>1 DEF FlowIInv, ProgressDurable
<1>4. QED
  BY <1>2, <1>3 DEF FlowIInv

(* Every kind of node merges, or passes its output on to the next.         *)
LEMMA NodeSound ==
    ASSUME FlowIInv, NEW i \in 1..FlowNodes,
           RunNode(i) \/ SkipNode(i) \/ RunParallelNodes(i) \/ RunEventRouter(i) \/ HumanFeedback(i)
    PROVE  FlowIInv'
<1>1. fstate \subseteq fstate' /\ Merged
  BY DEF RunNode, SkipNode, RunParallelNodes, RunEventRouter, HumanFeedback, Emit
<1>2. QED
  BY <1>1, MergedSound

(* The rename that ends SaveState replaces the whole file at once.         *)
LEMMA RenameSound ==
    ASSUME FlowIInv, Rename
    PROVE  FlowIInv'
<1>1. fkind' = fkind /\ fstate' = fstate /\ fdone' = fdone
  BY DEF Rename, Memory
<1>2. CASE disk' = File(fstate)
  <2>1. disk'.kind = "whole" /\ disk'.data = fstate
    BY <1>2 DEF File
  <2>2. QED
    BY <1>1, <2>1 DEF FlowIInv, ProgressDurable
<1>3. CASE disk' = disk /\ fpc' = "error"
  BY <1>1, <1>3 DEF FlowIInv, ProgressDurable
<1>4. QED
  BY <1>2, <1>3 DEF Rename

(* A Kickoff has completed nothing of its own yet.                         *)
LEMMA KickoffSound ==
    ASSUME FlowIInv, FlowKickoff
    PROVE  FlowIInv'
<1>1. fdone' = {} /\ disk' = disk
  BY DEF FlowKickoff
<1>2. QED
  BY <1>1 DEF FlowIInv, ProgressDurable

(* The steps that neither complete a node nor write the file.              *)
LEMMA OtherFlowSteps ==
    ASSUME FlowIInv,
           NodeFails \/ SaveState \/ NextNode \/ FlowComplete \/ FlowCancel \/ FlowCrash \/ UNCHANGED flowVars
    PROVE  FlowIInv'
<1>1. CASE NodeFails
  <2>1. fpc' # "node" /\ disk' = disk /\ fdone' = fdone /\ fstate \subseteq fstate'
    BY <1>1 DEF NodeFails
  <2>2. QED
    BY <2>1 DEF FlowIInv, ProgressDurable
<1>2. CASE SaveState
  <2>1. fpc' # "node" /\ disk' = disk /\ fdone' = fdone /\ fstate' = fstate
    BY <1>2 DEF SaveState, BeginWrite, Memory
  <2>2. QED
    BY <2>1 DEF FlowIInv, ProgressDurable
<1>3. CASE NextNode
  <2>1. fkind = "plain" /\ fkind' = fkind /\ disk' = disk /\ fdone' = fdone /\ fstate' = fstate
    BY <1>3 DEF NextNode, Memory
  <2>2. QED
    BY <2>1 DEF FlowIInv, ProgressDurable
<1>4. CASE FlowComplete
  <2>1. fpc' # "node" /\ (disk' = disk \/ disk' = NoFile) /\ fdone' = fdone /\ fstate' = fstate
    BY <1>4 DEF FlowComplete, Memory
  <2>2. disk'.kind # "torn"
    BY <2>1 DEF FlowIInv, ProgressDurable, NoFile
  <2>3. QED
    BY <2>1, <2>2 DEF FlowIInv, ProgressDurable
<1>5. CASE FlowCancel \/ UNCHANGED flowVars
  <2>1. fkind' = fkind /\ fpc' = fpc /\ disk' = disk /\ fdone' = fdone /\ fstate' = fstate
    BY <1>5 DEF FlowCancel, Memory, flowVars
  <2>2. QED
    BY <2>1 DEF FlowIInv, ProgressDurable
<1>6. CASE FlowCrash
  <2>1. fdone' = {} /\ disk' = disk
    BY <1>6 DEF FlowCrash
  <2>2. QED
    BY <2>1 DEF FlowIInv, ProgressDurable
<1>7. QED
  BY <1>1, <1>2, <1>3, <1>4, <1>5, <1>6

(* A flow that saves its state goes on to its next node only when the      *)
(* output of every node it has completed is in the state file, and no      *)
(* crash leaves that file torn, for any number of nodes (persistence.go    *)
(* PersistentFlow.Kickoff and atomicWriteFile, typed_flow.go).             *)
THEOREM ProgressAlwaysDurable == FlowSpec => []ProgressDurable
<1>1. FlowInit => FlowIInv
  <2>1. SUFFICES ASSUME FlowInit PROVE FlowIInv
    OBVIOUS
  <2>2. disk = NoFile /\ fdone = {}
    BY <2>1, Zenon DEF FlowInit
  <2>3. QED
    BY <2>2 DEF FlowIInv, ProgressDurable, NoFile
<1>2. FlowIInv /\ [FlowNext]_flowVars => FlowIInv'
  BY NodeSound, RenameSound, KickoffSound, OtherFlowSteps DEF FlowNext
<1>3. FlowIInv => ProgressDurable
  BY DEF FlowIInv
<1>4. QED
  BY <1>1, <1>2, <1>3, PTL DEF FlowSpec
=============================================================================
