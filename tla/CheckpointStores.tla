-------------------------- MODULE CheckpointStores --------------------------
(***************************************************************************)
(* The checkpoint stores of pkg/crew (checkpoint.go, redis_checkpoint.go,  *)
(* sqlite_checkpoint.go), one of which a behaviour is about.               *)
(*                                                                         *)
(* A Save is several writes under the store's mutex, and the process may   *)
(* crash between them or in the middle of one; it then starts again with   *)
(* what the store holds.  A checkpoint is the number of the Save that made *)
(* it; 0 stands for a file that cannot be read.                            *)
(***************************************************************************)
EXTENDS Naturals, FiniteSets

CONSTANTS Crews,
          Shadows,         \* crew -> the crews whose file names its pattern also matches
          MaxCheckpoints,  \* 10 in the code
          MaxSaves, MaxTime  \* bounds of the model: saves, clock

ASSUME StoresAssumption ==
    /\ Shadows \in [Crews -> SUBSET Crews]
    /\ {MaxCheckpoints, MaxSaves, MaxTime} \subseteq Nat \ {0}

VARIABLES backend, now,
          saves,    \* how many Saves have begun
          rows,     \* the versioned checkpoints: files, keys or rows
          latest,   \* crew -> the latest file or key; for SQLite what the pointer names
          saving,   \* the Save that holds the mutex
          newest, acked  \* as in CheckpointStore

vars == <<backend, now, saves, rows, latest, saving, newest, acked>>

NoRow == [ts |-> 0, v |-> 0]
Idle == [step |-> "none"]

Init ==
    /\ backend \in {"file", "redis", "sqlite"}
    /\ now = 1 /\ saves = 0
    /\ rows = {}
    /\ latest = [c \in Crews |-> NoRow]
    /\ saving = Idle
    /\ newest = [c \in Crews |-> 0] /\ acked = newest

(* time.Now().UnixMilli(): several Saves may see the same millisecond. *)
Tick ==
    /\ now < MaxTime /\ now' = now + 1
    /\ UNCHANGED <<backend, saves, rows, latest, saving, newest, acked>>

Save(c) ==
    /\ saving = Idle /\ saves < MaxSaves
    /\ saves' = saves + 1
    /\ saving' = [step |-> "versioned", crew |-> c, ts |-> now, v |-> saves']
    /\ UNCHANGED <<backend, now, rows, latest, newest, acked>>

Saved == [crew |-> saving.crew, ts |-> saving.ts, v |-> saving.v]

(* os.WriteFile and SET replace what has the name of the same crew and     *)
(* millisecond; INSERT adds a row.                                         *)
Replace(r) == {q \in rows : ~(q.crew = r.crew /\ q.ts = r.ts)} \cup {r}
Insert(r) == rows \cup {r}

(* The first write.  An error ends the Save; os.WriteFile, which truncates *)
(* the file first, then leaves it cut short.                               *)
WriteFile ==
    /\ backend = "file"
    /\ \/ rows' = Replace(Saved) /\ saving' = [saving EXCEPT !.step = "latest"]
       \/ rows' \in {rows, Replace([Saved EXCEPT !.v = 0])} /\ saving' = Idle

SetKey ==
    /\ backend = "redis"
    /\ \/ rows' = Replace(Saved) /\ saving' = [saving EXCEPT !.step = "latest"]
       \/ UNCHANGED rows /\ saving' = Idle

InsertRow ==
    /\ backend = "sqlite"
    /\ \/ rows' = Insert(Saved) /\ saving' = [saving EXCEPT !.step = "latest"]
       \/ UNCHANGED rows /\ saving' = Idle

WriteVersioned ==
    /\ saving.step = "versioned"
    /\ WriteFile \/ SetKey \/ InsertRow
    /\ UNCHANGED <<backend, now, saves, latest, newest, acked>>

(* Mutant: the pointer keeps its row on a conflict. *)
PointToFirst(c) == IF latest[c] = NoRow THEN [ts |-> saving.ts, v |-> saving.v] ELSE latest[c]

(* The new content of "latest". *)
PointTo(c) == [ts |-> saving.ts, v |-> saving.v]

(* The second write.  For SQLite its failure is only logged. *)
WriteLatest ==
    /\ saving.step = "latest"
    /\ LET c == saving.crew IN
       \/ /\ latest' = [latest EXCEPT ![c] = PointTo(c)]
          /\ newest' = [newest EXCEPT ![c] = saving.v]
          /\ saving' = [saving EXCEPT !.step = "cleanup"]
       \/ /\ latest' \in {latest} \cup
                (IF backend = "file" THEN {[latest EXCEPT ![c] = NoRow]} ELSE {})
          /\ saving' = IF backend = "sqlite" THEN [saving EXCEPT !.step = "cleanup"] ELSE Idle
          /\ UNCHANGED newest
    /\ UNCHANGED <<backend, now, saves, rows, acked>>

-----------------------------------------------------------------------------
(* Listing and retention. *)

Of(c) == {r \in rows : r.crew = c /\ r.v # 0}

(* The files of other crews that the glob pattern of c matches: their      *)
(* versioned checkpoints and their "latest" copies.                        *)
Foreign(c) ==
    {[ts |-> r.ts, v |-> r.v] : r \in UNION {Of(d) : d \in Shadows[c]}}
        \cup ({latest[d] : d \in Shadows[c]} \ {NoRow})

(* ListCheckpoints of the file store: unreadable files are left out and    *)
(* the order is that of the names, so the oldest of c come first.          *)
IndexOf(c, r) == Cardinality({q \in Of(c) : q.ts < r.ts})
IndexOfForeign(c, f) == Cardinality(Of(c)) + Cardinality({g \in Foreign(c) : g.ts < f.ts})

(* cleanup of the file store: what is listed at or after MaxCheckpoints is *)
(* removed, by its time under the name of c.                               *)
CleanupFiles(c) ==
    {r \in Of(c) : \/ IndexOf(c, r) >= MaxCheckpoints
                   \/ \E f \in Foreign(c) : f.ts = r.ts /\ IndexOfForeign(c, f) >= MaxCheckpoints}

(* The times of the newest n rows, the later of two rows of one time first.*)
NewestTimes(c, n) ==
    {r.ts : r \in {q \in Of(c) : Cardinality({p \in Of(c) : p.ts > q.ts}) < n}}

(* cleanup of SQLite. *)
CleanupRows(c) ==
    IF Cardinality(Of(c)) <= MaxCheckpoints THEN {}
    ELSE {r \in Of(c) : r.ts \notin NewestTimes(c, MaxCheckpoints)}

(* The end of a Save. *)
Cleanup ==
    /\ saving.step = "cleanup"
    /\ LET c == saving.crew IN
       /\ rows' = rows \ (IF backend = "file" THEN CleanupFiles(c)
                          ELSE IF backend = "sqlite" THEN CleanupRows(c) ELSE {})
       /\ acked' = [acked EXCEPT ![c] = saving.v]
    /\ saving' = Idle
    /\ UNCHANGED <<backend, now, saves, latest, newest>>

-----------------------------------------------------------------------------
(* The other operations. *)

(* LoadLatest of the files and the keys: what "latest" holds, nothing if   *)
(* it cannot be read.                                                      *)
LoadLatestFile(c) == latest[c]
LoadLatestKey(c) == latest[c]

(* LoadLatest of SQLite cannot scan its integer time into a time.Time:     *)
(* with any row of the crew, the one pointed to or a legacy one, it fails. *)
LoadLatestRow(c) == NoRow

LoadLatest(c) ==
    CASE backend = "file" -> LoadLatestFile(c)
      [] backend = "redis" -> LoadLatestKey(c)
      [] backend = "sqlite" -> LoadLatestRow(c)

Delete(c, t) ==
    /\ saving = Idle
    /\ \E r \in rows : r.crew = c /\ r.ts = t
    /\ rows' = {r \in rows : ~(r.crew = c /\ r.ts = t)}
    /\ UNCHANGED <<backend, now, saves, latest, saving, newest, acked>>

(* Keys expire, the versioned one before the latest one set after it. *)
Expire(c) ==
    /\ backend = "redis"
    /\ \/ \E r \in Of(c) : rows' = rows \ {r} /\ UNCHANGED latest
       \/ /\ latest[c] # NoRow /\ latest' = [latest EXCEPT ![c] = NoRow]
          /\ UNCHANGED rows
    /\ UNCHANGED <<backend, now, saves, saving, newest, acked>>

(* The process dies in a Save.  A write under way may have happened or     *)
(* not; a file may be left cut short.                                      *)
Crash ==
    /\ saving # Idle
    /\ saving' = Idle
    /\ \/ UNCHANGED <<rows, latest>>
       \/ /\ saving.step = "versioned" /\ backend = "file"
          /\ rows' = Replace([Saved EXCEPT !.v = 0]) /\ UNCHANGED latest
       \/ /\ saving.step = "latest" /\ backend = "file"
          /\ latest' = [latest EXCEPT ![saving.crew] = NoRow] /\ UNCHANGED rows
    /\ UNCHANGED <<backend, now, saves, newest, acked>>

Next ==
    \/ Tick \/ WriteVersioned \/ WriteLatest \/ Cleanup \/ Crash
    \/ \E c \in Crews : Save(c) \/ Expire(c) \/ \E t \in 1..MaxTime : Delete(c, t)

Spec == Init /\ [][Next]_vars

-----------------------------------------------------------------------------
(* The file and the Redis store keep the promise of CheckpointStore:       *)
(* through failed writes, crashes and expiry the latest checkpoint only    *)
(* moves forward, and a Save that returned nil is the latest               *)
(* (checkpoint.go:89-126, redis_checkpoint.go:73-98).  SQLite is left out: *)
(* its Save succeeds when the pointer was not written, and no checkpoint   *)
(* can be read back from it.                                               *)
Kept(f) == IF backend = "sqlite" THEN [c \in Crews |-> 0] ELSE f
Promise == INSTANCE CheckpointStore
               WITH Versions <- 1..MaxSaves,
                    latest <- [c \in Crews |-> LoadLatest(c).v],
                    newest <- Kept(newest), acked <- Kept(acked)
StoreRefines == Promise!Spec
=============================================================================
