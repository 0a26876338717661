----------------------------- MODULE MemoryStores -----------------------------
(***************************************************************************)
(* The backends of pkg/memory behind the Store interface: the list in      *)
(* memory, SQLite, Redis and the HTTP clients of Chroma, Qdrant, Weaviate  *)
(* and Pinecone.  An operation maps the stored items and the answer of the *)
(* database to the items that are stored then; whether the caller sees an  *)
(* error is a matter of which answers the client looks at.                 *)
(*                                                                         *)
(* An item is [w, id, path, scoped, priv, src, vec, life]: w numbers the   *)
(* write, vec says whether it has an embedding, path is the normalized     *)
(* scope as the sequence of its segments, priv and src are the private and *)
(* source labels, and life is "ever", "live" (it has a time to live),      *)
(* "keyed" (Redis itself drops it) or "past".                              *)
(***************************************************************************)
EXTENDS Integers, FiniteSets, Sequences, SequencesExt

Local == {"mem", "sqlite", "redis"}
Remote == {"chroma", "qdrant", "weaviate", "pinecone"}

(* "bad" is an error status, "down" no connection, "lost" a request that   *)
(* was carried out while its answer did not arrive.                        *)
Answers(k) ==
    CASE k = "mem" -> {"ok"}
      [] k \in {"sqlite", "redis"} -> {"ok", "down"}
      [] k \in Remote -> {"ok", "bad", "down", "lost"}

Done(a) == a \in {"ok", "lost"}

(* normalizeScope and inScope: "/a" holds "/a" and "/a/b" but not "/ab";   *)
(* everything, an item without a scope included, is under "/".             *)
InScope(path, filter) == IsPrefix(filter, path)

Upsert(S, B) == {j \in S : \A i \in B : j.id # i.id} \cup B

(***************************************************************************)
(* Adding a batch B; Add is a batch of one.                                *)
(***************************************************************************)
MemAdd(S, B) == {S \cup B}

(* INSERT OR REPLACE, a batch in one transaction.                          *)
SqliteAdd(S, B) == {Upsert(S, B)}

(* Add ignores the time to live; the pipeline of BulkAdd sets it as the    *)
(* key's and skips what is over already.                                   *)
RedisAdd(S, B) == {Upsert(S, B)}
RedisBulkAdd(S, B) ==
    LET kept == {i \in B : i.life # "past"}
    IN  {Upsert(S, {[i EXCEPT !.life = IF @ = "live" THEN "keyed" ELSE @] : i \in kept})}

(* Chroma's add leaves an id that exists alone; the time to live is not    *)
(* sent.  A batch is one request per item and ends at the first refusal,   *)
(* so a failed one leaves any part behind.                                 *)
ChromaAdd(S, B) ==
    {S \cup {[i EXCEPT !.life = "ever"] : i \in {b \in B : \A j \in S : j.id # b.id}}}
ChromaBulkAdd(S, B) == UNION {ChromaAdd(S, P) : P \in SUBSET B}

QdrantBulkAdd(S, B) == {Upsert(S, B)}
PineconeBulkAdd(S, B) == {Upsert(S, B)}

(* PUT, then POST when the PUT is refused.                                 *)
WeaviateAdd(S, B) == {Upsert(S, B)}
WeaviateBulkAdd(S, B) == {Upsert(S, B)}

(* What may be stored after an Add or a BulkAdd answered a.                *)
Added(k, S, B, a) ==
    LET bulk == Cardinality(B) > 1
    IN  IF ~Done(a) THEN IF k = "chroma" /\ bulk THEN ChromaBulkAdd(S, B) ELSE {S}
        ELSE CASE k = "mem" -> MemAdd(S, B)
          [] k = "sqlite" -> SqliteAdd(S, B)
          [] k = "redis" -> IF bulk THEN RedisBulkAdd(S, B) ELSE RedisAdd(S, B)
          [] k = "chroma" -> ChromaAdd(S, B)
          [] k = "qdrant" -> QdrantBulkAdd(S, B)
          [] k = "weaviate" -> IF bulk THEN WeaviateBulkAdd(S, B) ELSE WeaviateAdd(S, B)
          [] k = "pinecone" -> PineconeBulkAdd(S, B)

(***************************************************************************)
(* Delete by id.  The list drops the oldest of its items with that id;     *)
(* SQLite and Redis report an id that is not there, the others do not.     *)
(***************************************************************************)
MemDelete(S, id) ==
    LET same == {i \in S : i.id = id}
    IN  S \ {i \in same : \A j \in same : i.w <= j.w}
SqliteDelete(S, id) == {i \in S : i.id # id}
RedisDelete(S, id) == {i \in S : i.id # id}
ChromaDelete(S, id) == {i \in S : i.id # id}
QdrantDelete(S, id) == {i \in S : i.id # id}
WeaviateDelete(S, id) == {i \in S : i.id # id}
PineconeDelete(S, id) == {i \in S : i.id # id}

Deleted(k, S, id, a) ==
    IF ~Done(a) THEN S
    ELSE CASE k = "mem" -> MemDelete(S, id)
      [] k = "sqlite" -> SqliteDelete(S, id)
      [] k = "redis" -> RedisDelete(S, id)
      [] k = "chroma" -> ChromaDelete(S, id)
      [] k = "qdrant" -> QdrantDelete(S, id)
      [] k = "weaviate" -> WeaviateDelete(S, id)
      [] k = "pinecone" -> PineconeDelete(S, id)

DeleteOk(k, S, id, a) ==
    a = "ok" /\ (k \in {"sqlite", "redis"} => \E i \in S : i.id = id)

(***************************************************************************)
(* Search with an embedding (q) or, from Forget's fallback, with the nil   *)
(* vector.  The local stores compare only vectors of the query's length,   *)
(* so an item without an embedding is found by the nil vector alone; the   *)
(* ranking is any.  An operator yields the sets that may be returned with  *)
(* no error; an answer for which it yields none is an error.               *)
(***************************************************************************)
Best(S, limit) ==
    IF Cardinality(S) <= limit THEN {S} ELSE {B \in SUBSET S : Cardinality(B) = limit}
MemSearch(S, q, limit) == Best({i \in S : i.vec = q}, limit)
RedisSearch(S, q, limit) == Best({i \in S : i.vec = q}, limit)
SqlitePurge(S) == {i \in S : i.life # "past"}
SqliteSearch(S, q, limit) == Best({i \in SqlitePurge(S) : i.vec = q}, limit)

(* What a vector database answers to a null vector is its own affair.      *)
Nearest(S, q, limit) ==
    IF q THEN Best({i \in S : i.vec}, limit) ELSE {B \in SUBSET S : Cardinality(B) <= limit}
ChromaSearch(S, q, limit, a) == IF a = "ok" THEN Nearest(S, q, limit) ELSE {}
PineconeSearch(S, q, limit, a) == IF a = "ok" THEN Nearest(S, q, limit) ELSE {}

(* No look at the status: the body of a refusal decodes to no result.      *)
QdrantSearch(S, q, limit, a) ==
    CASE a = "ok" -> Nearest(S, q, limit) [] a = "bad" -> {{}} [] OTHER -> {}
WeaviateSearch(S, q, limit, a) ==
    CASE a = "ok" -> Nearest(S, q, limit) [] a = "bad" -> {{}} [] OTHER -> {}

Found(k, S, q, limit, a) ==
    CASE k = "mem" -> MemSearch(S, q, limit)
      [] k = "sqlite" -> IF a = "ok" THEN SqliteSearch(S, q, limit) ELSE {}
      [] k = "redis" -> IF a = "ok" THEN RedisSearch(S, q, limit) ELSE {}
      [] k = "chroma" -> ChromaSearch(S, q, limit, a)
      [] k = "pinecone" -> PineconeSearch(S, q, limit, a)
      [] k = "qdrant" -> QdrantSearch(S, q, limit, a)
      [] k = "weaviate" -> WeaviateSearch(S, q, limit, a)

(***************************************************************************)
(* Count: the numbers that may be returned with no error.                  *)
(***************************************************************************)
SqliteCount(S) == Cardinality(SqlitePurge(S))
RedisCount(S) == Cardinality(S)
ChromaCount(S, a) == IF a = "ok" THEN {Cardinality(S)} ELSE {}
QdrantCount(S, a) == CASE a = "ok" -> {Cardinality(S)} [] a = "bad" -> {0} [] OTHER -> {}
WeaviateCount(S, a) == CASE a = "ok" -> {Cardinality(S)} [] a = "bad" -> {0} [] OTHER -> {}
PineconeCount(S, a) == CASE a = "ok" -> {Cardinality(S)} [] a = "bad" -> {0} [] OTHER -> {}

CountItemsOf(k, S, a) ==
    CASE k = "mem" -> {Cardinality(S)}
      [] k = "sqlite" -> IF a = "ok" THEN {SqliteCount(S)} ELSE {}
      [] k = "redis" -> IF a = "ok" THEN {RedisCount(S)} ELSE {}
      [] k = "chroma" -> ChromaCount(S, a)
      [] k = "qdrant" -> QdrantCount(S, a)
      [] k = "weaviate" -> WeaviateCount(S, a)
      [] k = "pinecone" -> PineconeCount(S, a)

(***************************************************************************)
(* Reset.  Three of the HTTP clients drop the collection, whatever the     *)
(* status, and make sure there is one again.                               *)
(***************************************************************************)
Recreates(k) == k \in {"chroma", "qdrant", "weaviate"}

(* Chroma: POST, and GET when the POST is refused, as it is for a          *)
(* collection that exists.  Qdrant and Weaviate: GET, then create.         *)
ChromaEnsure(there, a) == a = "ok" \/ (a = "bad" /\ there)
QdrantEnsure(a) == a = "ok"
WeaviateEnsure(a) == a = "ok"

Ensured(k, there, a) ==
    CASE k = "chroma" -> ChromaEnsure(there, a)
      [] k = "qdrant" -> QdrantEnsure(a)
      [] k = "weaviate" -> WeaviateEnsure(a)

(* The stores that see whether their Reset happened.                       *)
MemReset(S) == {}
SqliteReset(S, a) == IF Done(a) THEN {} ELSE S
PineconeReset(S, a) == IF Done(a) THEN {} ELSE S
=============================================================================
