------------------------------- MODULE Memory -------------------------------
(***************************************************************************)
(* UnifiedMemory of pkg/memory over one of the stores, with or without the *)
(* RetryStore: remember, recall, forget and reset by concurrent callers,   *)
(* the background writer behind RememberMany, scopes and slices, the long  *)
(* term memory that shares the store, and the conversation threads.        *)
(*                                                                         *)
(* Abstracted: texts and scores (a ranking is any order), the clock (ids   *)
(* made of nanoseconds are fresh), backoff times.                          *)
(***************************************************************************)
EXTENDS MemoryStores

CONSTANTS
    Stacks,         \* the stores to choose from: pairs of a backend and its being retried
    Users,          \* callers of the memory
    MaxUses,        \* bound: operations the callers start together on a local store
    MaxCalls,       \* the same for a store behind HTTP, with its many answers
    Paths,          \* scopes in use, as sequences of segments
    Labels,         \* metadata callers give: [scoped, path, priv, src], src may be "none"
    RecallOptions,  \* [view, src, priv]: of the memory ("all"), a scope or a slice
    QueueCap,       \* room of the channel of the writer (100 in the code)
    Page,           \* the cap of a search: limit*3 of Recall, 1000 of Forget
    Attempts        \* RetryPolicy.Attempts

ASSUME MemAssumption ==
    /\ Stacks \subseteq (Local \cup Remote) \X BOOLEAN
    /\ \A l \in Labels : l.priv \in BOOLEAN /\ (l.scoped => l.path \in Paths)
    /\ \A o \in RecallOptions : o.view \in {"all", "scope", "slice"} /\ o.priv \in BOOLEAN

VARIABLES
    kind, retry,    \* the backend, and whether WithRetry wraps it
    items, there,   \* what is stored; does the collection exist
    queue, closed,  \* the writer's channel
    writer,         \* "run" or "gone"
    use,            \* what each caller is doing
    uses, writes,   \* operations and writes so far
    erased,         \* the writes a successful Forget or Reset was to erase
    threads, msgSeq,\* the conversation store
    panic           \* a send on, or a close of, the closed channel

memVars == <<kind, retry, items, there, queue, closed, writer, use, uses, writes, erased,
             threads, msgSeq, panic>>
storeVars == <<items, there>>
queueVars == <<queue, closed, writer, panic>>
threadVars == <<threads, msgSeq>>

NoOptions == [view |-> "all", src |-> "none", priv |-> FALSE]
Resting == [name |-> "rest", step |-> "", path |-> <<>>, todo |-> {}, tries |-> 0, ok |-> TRUE,
            before |-> {}, res |-> {}, opts |-> NoOptions]
Hold(c, u) == use' = [use EXCEPT ![c] = u]
Return(c, ok) == Hold(c, [Resting EXCEPT !.ok = ok])
ReturnRes(c, ok, res) ==
    Hold(c, [use[c] EXCEPT !.step = "", !.ok = ok, !.todo = {}, !.tries = 0, !.res = res])

(* RetryPolicy.normalized *)
Tries == CASE Attempts < 1 -> 1 [] Attempts > 10 -> 10 [] OTHER -> Attempts

(* Only the list and SQLite offer DeleteScope, and the RetryStore around   *)
(* them hides it.                                                          *)
ScopeDeleter == kind \in {"mem", "sqlite"} /\ ~retry

MemInit ==
    /\ \E s \in Stacks : kind = s[1] /\ retry = s[2]
    /\ items = {} /\ there = TRUE
    /\ queue = <<>> /\ closed = FALSE /\ writer = "run"
    /\ use = [c \in Users |-> Resting] /\ uses = 0 /\ writes = 0
    /\ erased = {} /\ threads = <<>> /\ msgSeq = 0 /\ panic = FALSE

Begin(c) ==
    /\ ~panic /\ use[c].step = ""
    /\ uses < IF kind \in Local THEN MaxUses ELSE MaxCalls
    /\ uses' = uses + 1

(***************************************************************************)
(* Remember, and the views that choose its scope: a MemoryScope writes     *)
(* under its path, a slice under its first scope unless it is read-only.   *)
(* An item remembered so has no embedding.                                 *)
(***************************************************************************)
NewItem(id, label, vec, life) ==
    [w |-> writes + 1, id |-> id, scoped |-> label.scoped, path |-> label.path, priv |-> label.priv,
     src |-> label.src, vec |-> vec, life |-> life]

Unlabelled == [scoped |-> FALSE, path |-> <<>>, priv |-> FALSE, src |-> "none"]

Adding(c, B) ==
    /\ Begin(c)
    /\ Hold(c, [Resting EXCEPT !.name = "add", !.step = "add", !.todo = B])
    /\ UNCHANGED <<kind, retry, storeVars, queueVars, erased, threadVars>>

Remember(c) ==
    /\ \E label \in Labels : Adding(c, {NewItem(writes + 1, label, FALSE, "ever")})
    /\ writes' = writes + 1

(* LongTermMemory.Save embeds the text, takes its hash as the id, and the  *)
(* metadata, with any label, from its caller.                              *)
SaveLongTerm(c) ==
    /\ \E label \in Labels : Adding(c, {NewItem(0, label, TRUE, "ever")})
    /\ writes' = writes + 1

(* IngestionEngine stores the chunks of a source, labelled with it, their  *)
(* ids made of its name and their number, as one batch; a batch of the     *)
(* Store interface may have a time to live.                                *)
Ingest(c) ==
    /\ \E l \in {"ever", "live"} :
          LET Chunk(n) == NewItem(-n, [Unlabelled EXCEPT !.src = "doc"], TRUE, l)
          IN  Adding(c, {Chunk(1), [Chunk(2) EXCEPT !.w = writes + 2]})
    /\ writes' = writes + 2

(* Remember on a slice opened read-only is refused.                        *)
SliceReadOnly(c) ==
    /\ Begin(c)
    /\ Return(c, FALSE)
    /\ UNCHANGED <<kind, retry, storeVars, queueVars, writes, erased, threadVars>>

(* RetryStore.do: another attempt after an error until they are used up,   *)
(* or until the context is over.                                           *)
Again(c) == retry /\ use[c].tries + 1 < Tries

Failed(c) ==
    \/ Again(c) /\ Hold(c, [use[c] EXCEPT !.tries = @ + 1])
    \/ Return(c, FALSE)

AddItem(c) ==
    /\ ~panic /\ use[c].step = "add"
    /\ \E a \in Answers(kind) :
          /\ there \/ a # "ok"
          /\ items' \in IF there THEN Added(kind, items, use[c].todo, a) ELSE {items}
          /\ IF a = "ok" THEN Return(c, TRUE) ELSE Failed(c)
    /\ UNCHANGED <<kind, retry, there, queueVars, uses, writes, erased, threadVars>>

(***************************************************************************)
(* RememberMany drops what a batch repeats and hands each text to the      *)
(* background writer; the send blocks while the channel is full, and       *)
(* panics once Close has closed it.                                        *)
(***************************************************************************)
RememberMany(c) ==
    /\ Begin(c)
    /\ \E n \in 1..2 :
          /\ Hold(c, [Resting EXCEPT !.name = "many", !.step = "send", !.tries = n])
    /\ UNCHANGED <<kind, retry, storeVars, queueVars, writes, erased, threadVars>>

Send(c) ==
    /\ ~panic /\ use[c].step = "send"
    /\ IF closed
       THEN panic' = TRUE /\ UNCHANGED <<queue, use, writes>>
       ELSE /\ Len(queue) < QueueCap
            /\ queue' = Append(queue, NewItem(writes + 1, Unlabelled, FALSE, "ever"))
            /\ writes' = writes + 1
            /\ panic' = FALSE
            /\ IF use[c].tries = 1 THEN Return(c, TRUE)
               ELSE Hold(c, [use[c] EXCEPT !.tries = @ - 1])
    /\ UNCHANGED <<kind, retry, storeVars, closed, writer, uses, erased, threadVars>>

BackgroundWriterEager ==
    /\ ~panic /\ writer = "run"
    /\ \/ /\ queue # <<>>
          /\ items' \in IF there THEN UNION {Added(kind, items, {Head(queue)}, a) : a \in Answers(kind)}
                        ELSE {items}
          /\ queue' = Tail(queue) /\ UNCHANGED writer
       \/ closed /\ writer' = "gone" /\ UNCHANGED <<items, queue>>
    /\ UNCHANGED <<kind, retry, there, closed, panic, use, uses, writes, erased, threadVars>>

(* One Add per entry, under the context of the caller that queued it and   *)
(* that may be over by now; a failure is only logged.  A closed channel    *)
(* yields its entries first.                                               *)
BackgroundWriter ==
    /\ ~panic /\ writer = "run"
    /\ \/ /\ queue # <<>>
          /\ items' \in IF there THEN UNION {Added(kind, items, {Head(queue)}, a) : a \in Answers(kind)}
                        ELSE {items}
          /\ queue' = Tail(queue) /\ UNCHANGED writer
       \/ closed /\ queue = <<>> /\ writer' = "gone" /\ UNCHANGED <<items, queue>>
    /\ UNCHANGED <<kind, retry, there, closed, panic, use, uses, writes, erased, threadVars>>

(* Close: close the channel and wait for the writer.                       *)
DrainWrites(c) ==
    /\ Begin(c)
    /\ IF closed
       THEN panic' = TRUE /\ UNCHANGED <<closed, use>>
       ELSE /\ closed' = TRUE /\ panic' = FALSE
            /\ Hold(c, [Resting EXCEPT !.name = "close", !.step = "wait"])
    /\ UNCHANGED <<kind, retry, storeVars, queue, writer, writes, erased, threadVars>>

AwaitWriter(c) ==
    /\ ~panic /\ use[c].step = "wait" /\ writer = "gone" /\ Return(c, TRUE)
    /\ UNCHANGED <<kind, retry, storeVars, queueVars, uses, writes, erased, threadVars>>

(***************************************************************************)
(* Recall of the memory, through a scope, or through a slice: nothing when *)
(* there is no embedding of the query, else a search whose result is       *)
(* filtered by scope, an item without one passing only an empty filter; by *)
(* source, which an item without one passes; and by privacy, unless the    *)
(* caller includes the private ones.                                       *)
(***************************************************************************)
RecallUnlabelled(S, opts, some, path) ==
    {i \in S : /\ some /\ i.scoped => InScope(i.path, path)
               /\ opts.src # "none" /\ i.src # "none" => i.src = opts.src
               /\ i.priv => opts.priv}

Recall(S, opts, some, path) ==
    {i \in S : /\ some => i.scoped /\ InScope(i.path, path)
               /\ opts.src # "none" /\ i.src # "none" => i.src = opts.src
               /\ i.priv => opts.priv}

(* The scopes a view asks; a slice over none finds nothing at once.        *)
ScopesOf(view) ==
    CASE view = "all" -> {{}}
      [] view = "scope" -> {{p} : p \in Paths}
      [] view = "slice" -> (SUBSET Paths) \ {{}}

BeginRecall(c) ==
    /\ Begin(c)
    /\ \E opts \in RecallOptions : \E todo \in ScopesOf(opts.view) :
          Hold(c, [Resting EXCEPT !.name = "recall", !.step = "search", !.todo = todo,
                                  !.before = todo, !.opts = opts])
    /\ UNCHANGED <<kind, retry, storeVars, queueVars, writes, erased, threadVars>>

(* todo holds the scopes still to ask.  The over-fetch is Page; the merge  *)
(* keeps at most Page.  A slice skips a scope whose search fails, the      *)
(* memory and a scope return the error.                                    *)
SearchStore(c) ==
    /\ ~panic /\ use[c].step = "search"
    /\ LET u == use[c]
           some == u.before # {}
           p == IF some THEN CHOOSE x \in u.todo : TRUE ELSE <<>>
           Next1(res) == IF u.todo \ {p} = {} THEN \E B \in Best(res, Page) : ReturnRes(c, TRUE, B)
                         ELSE Hold(c, [u EXCEPT !.todo = @ \ {p}, !.res = res, !.tries = 0])
       IN  \/ Next1(u.res)                                        \* no embedding
           \/ \E a \in Answers(kind) :
                 LET F == IF there THEN Found(kind, items, TRUE, Page, a) ELSE {}
                 IN  \/ \E B \in F : Next1(u.res \cup Recall(B, u.opts, some, p))
                     \/ /\ F = {}
                        /\ \/ Again(c) /\ Hold(c, [u EXCEPT !.tries = @ + 1])
                           \/ IF u.opts.view = "slice" THEN Next1(u.res) ELSE ReturnRes(c, FALSE, {})
    /\ items' = IF kind = "sqlite" THEN SqlitePurge(items) ELSE items
    /\ UNCHANGED <<kind, retry, there, queueVars, uses, writes, erased, threadVars>>

(***************************************************************************)
(* Forget.  The list deletes the scope under its lock.  SQLite lists the   *)
(* ids and deletes them one after the other.  Everything else searches     *)
(* with the nil vector and deletes what carries a scope label in scope.    *)
(***************************************************************************)
Erase(c, W) == erased' = erased \cup {i.w : i \in W}

MemDeleteScope(S, path) == {i \in S : ~InScope(i.path, path)}
SqliteScopeIdsExact(S, path) == {i.id : i \in {j \in S : j.path = path}}
SqliteScopeIds(S, path) == {i.id : i \in {j \in S : InScope(j.path, path)}}

BeginForget(c) ==
    /\ Begin(c)
    /\ \E p \in Paths \cup {<<>>} :
          Hold(c, [Resting EXCEPT !.name = "forget", !.step = "list", !.path = p,
                                  !.before = {i \in items : InScope(i.path, p)}])
    /\ UNCHANGED <<kind, retry, storeVars, queueVars, writes, erased, threadVars>>

ListScope(c) ==
    /\ ~panic /\ use[c].step = "list"
    /\ LET u == use[c]
       IN  \/ /\ ScopeDeleter /\ kind = "mem"
              /\ items' = MemDeleteScope(items, u.path)
              /\ Return(c, TRUE) /\ Erase(c, u.before)
           \/ /\ ScopeDeleter /\ kind = "sqlite" /\ UNCHANGED items
              /\ \/ Return(c, FALSE) /\ UNCHANGED erased
                 \/ /\ Hold(c, [u EXCEPT !.step = "drop", !.todo = SqliteScopeIds(items, u.path)])
                    /\ UNCHANGED erased
           \/ /\ ~ScopeDeleter /\ UNCHANGED erased
              /\ \E a \in Answers(kind) :
                    LET F == IF there THEN Found(kind, items, FALSE, Page, a) ELSE {}
                    IN  \/ \E B \in F :
                              Hold(c, [u EXCEPT !.step = "drop", !.tries = 0,
                                 !.todo = {i.id : i \in {j \in B : j.scoped /\ InScope(j.path, u.path)}}])
                        \/ F = {} /\ Failed(c)
              /\ items' = IF kind = "sqlite" THEN SqlitePurge(items) ELSE items
    /\ UNCHANGED <<kind, retry, there, queueVars, uses, writes, threadVars>>

(* DeleteScope ends at the first error, the fallback goes on and returns   *)
(* the errors together.                                                    *)
DropListed(c) ==
    /\ ~panic /\ use[c].step = "drop"
    /\ LET u == use[c]
       IN  IF u.todo = {}
           THEN /\ Return(c, u.ok) /\ UNCHANGED items
                /\ IF ScopeDeleter /\ u.ok THEN Erase(c, u.before) ELSE UNCHANGED erased
           ELSE /\ UNCHANGED erased
                /\ \E id \in u.todo, a \in Answers(kind) :
                      /\ items' = IF there THEN Deleted(kind, items, id, a) ELSE items
                      /\ IF ScopeDeleter /\ a # "ok" THEN Return(c, FALSE)
                         ELSE Hold(c, [u EXCEPT !.todo = @ \ {id},
                                   !.ok = @ /\ (ScopeDeleter \/ DeleteOk(kind, items, id, a))])
    /\ UNCHANGED <<kind, retry, there, queueVars, uses, writes, threadVars>>

(***************************************************************************)
(* Reset of the store, which is not retried.                               *)
(***************************************************************************)
BeginReset(c) ==
    /\ Begin(c)
    /\ Hold(c, [Resting EXCEPT !.name = "reset", !.step = "clear", !.before = items,
                               !.todo = {i.id : i \in items}])
    /\ UNCHANGED <<kind, retry, storeVars, queueVars, writes, erased, threadVars>>

(* Redis scans its keys and deletes each.                                  *)
RedisReset(c) ==
    /\ kind = "redis" /\ UNCHANGED there
    /\ LET u == use[c]
       IN  \/ Return(c, FALSE) /\ UNCHANGED <<items, erased>>
           \/ /\ u.todo = {} /\ Return(c, TRUE) /\ Erase(c, u.before) /\ UNCHANGED items
           \/ \E id \in u.todo :
                 /\ items' = {i \in items : i.id # id}
                 /\ Hold(c, [u EXCEPT !.todo = @ \ {id}]) /\ UNCHANGED erased

(* The status of the DELETE is not looked at.                              *)
DropCollection(c) ==
    /\ Recreates(kind)
    /\ \E a \in Answers(kind) :
          /\ IF Done(a) THEN items' = {} /\ there' = FALSE ELSE UNCHANGED <<items, there>>
          /\ IF a \in {"down", "lost"} THEN Return(c, FALSE)
             ELSE Hold(c, [use[c] EXCEPT !.step = "ensure"])
    /\ UNCHANGED erased

ClearStore(c) ==
    /\ ~panic /\ use[c].step = "clear"
    /\ \/ /\ kind = "mem" /\ items' = MemReset(items) /\ Return(c, TRUE)
          /\ Erase(c, use[c].before) /\ UNCHANGED there
       \/ /\ kind \in {"sqlite", "pinecone"} /\ UNCHANGED there
          /\ \E a \in Answers(kind) :
                /\ items' = IF kind = "sqlite" THEN SqliteReset(items, a) ELSE PineconeReset(items, a)
                /\ Return(c, a = "ok")
                /\ IF a = "ok" THEN Erase(c, use[c].before) ELSE UNCHANGED erased
       \/ RedisReset(c)
       \/ DropCollection(c)
    /\ UNCHANGED <<kind, retry, queueVars, uses, writes, threadVars>>

EnsureCollection(c) ==
    /\ ~panic /\ use[c].step = "ensure"
    /\ \E a \in Answers(kind) :
          /\ there' = (there \/ Done(a))
          /\ Return(c, Ensured(kind, there, a))
    /\ UNCHANGED <<kind, retry, items, queueVars, uses, writes, erased, threadVars>>

CountItems(c) ==
    /\ Begin(c)
    /\ \E a \in Answers(kind) :
          LET N == CountItemsOf(kind, items, a)
          IN  Return(c, N # {})
    /\ UNCHANGED <<kind, retry, storeVars, queueVars, writes, erased, threadVars>>

(* A time to live ends; Redis drops the keys that have one.                *)
TimeToLive ==
    /\ \E i \in items :
          \/ i.life = "live" /\ items' = (items \ {i}) \cup {[i EXCEPT !.life = "past"]}
          \/ i.life = "keyed" /\ items' = items \ {i}
    /\ UNCHANGED <<kind, retry, there, queueVars, use, uses, writes, erased, threadVars>>

(***************************************************************************)
(* The conversation store: one lock, ids of messages from one counter.     *)
(***************************************************************************)
CreateThread(t) ==
    /\ threads' = IF t \in DOMAIN threads THEN threads ELSE [x \in DOMAIN threads \cup {t} |->
                     IF x = t THEN <<>> ELSE threads[x]]
    /\ UNCHANGED msgSeq
AddMessage(t) ==
    /\ t \in DOMAIN threads
    /\ threads' = [threads EXCEPT ![t] = Append(@, msgSeq + 1)] /\ msgSeq' = msgSeq + 1
DeleteThread(t) ==
    /\ t \in DOMAIN threads
    /\ threads' = [x \in DOMAIN threads \ {t} |-> threads[x]] /\ UNCHANGED msgSeq

Converse(c) ==
    /\ Begin(c)
    /\ \E t \in {"t1", "t2"} : CreateThread(t) \/ AddMessage(t) \/ DeleteThread(t)
    /\ Return(c, TRUE)
    /\ UNCHANGED <<kind, retry, storeVars, queueVars, writes, erased>>

UserNext(c) ==
    \/ Remember(c) \/ SaveLongTerm(c) \/ Ingest(c) \/ SliceReadOnly(c) \/ AddItem(c)
    \/ RememberMany(c) \/ Send(c) \/ DrainWrites(c) \/ AwaitWriter(c)
    \/ BeginRecall(c) \/ SearchStore(c) \/ BeginForget(c) \/ ListScope(c) \/ DropListed(c)
    \/ BeginReset(c) \/ ClearStore(c) \/ EnsureCollection(c) \/ CountItems(c)

TalkNext == \E c \in Users : Converse(c)
MemNext == BackgroundWriter \/ TimeToLive \/ \E c \in Users : UserNext(c)

(* The writer is a goroutine of its own and a waiting Close goes on when   *)
(* it is done.                                                             *)
MemFairness == WF_memVars(BackgroundWriter) /\ \A c \in Users : WF_memVars(AwaitWriter(c))

MemSpec == MemInit /\ [][MemNext \/ TalkNext]_memVars /\ MemFairness

(* Once a Forget on a store that deletes scopes, or a Reset on a store     *)
(* that sees the answer, has returned without an error, nothing that was   *)
(* stored in that scope when it was called is there any more: not by a     *)
(* delete that stopped half way, nor by a write that overlapped.  Behind a *)
(* RetryStore it may be: an Add that was carried out while its answer was  *)
(* lost is repeated after the erasure.                                     *)
ErasureHolds == ~retry => \A i \in items : i.w \notin erased

(* What a recall returns, through a scope, a slice or neither, whichever   *)
(* of the scopes' searches failed: it was remembered in one of the scopes, *)
(* not beside them and not without any; it carries no other source than    *)
(* the one asked for; and it is private only if the caller included the    *)
(* private memories (unified.go:254-288, scope.go:94-127).                 *)
RecallIsolated ==
    \A c \in Users :
        use[c].name = "recall" =>
            \A i \in use[c].res :
                /\ use[c].before # {} => i.scoped /\ \E p \in use[c].before : InScope(i.path, p)
                /\ use[c].opts.src # "none" => i.src \in {"none", use[c].opts.src}
                /\ i.priv => use[c].opts.priv

(* A Close returns, and then the writer has handed every memory it took    *)
(* from RememberMany to the store.                                         *)
WritesDrained ==
    \A c \in Users :
        (use[c].step = "wait") ~> (panic \/ (use[c].step # "wait" /\ queue = <<>>))
=============================================================================
