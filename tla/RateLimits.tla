----------------------------- MODULE RateLimits -----------------------------
(***************************************************************************)
(* The per-address rate limiters in front of the two HTTP servers: the     *)
(* sliding window of the REST server (pkg/api/server.go rateLimiter) and   *)
(* the token buckets of the operations server (pkg/server/server.go),      *)
(* with their bounded tables and evictions.                                *)
(*                                                                         *)
(* The REST limiter reads the clock before it takes its lock, so sections  *)
(* run in another order than their times.  The operations server touches   *)
(* the table and takes the token in two lock sections; only a request that *)
(* stalls for the idle TTL in between could tell, so they are one step     *)
(* here.  A slice of times is the set of their stamps: the time kept, the  *)
(* time it was kept on, and the least number that tells it from the others.*)
(***************************************************************************)
EXTENDS Integers, FiniteSets, Functions

CONSTANTS
    Ips,        \* client addresses
    Limit,      \* requests per window, of both limiters
    Window,     \* its length in ticks
    IdleTtl,    \* limiterIdleTTL
    MaxStall,   \* bound: ticks from a request's reading of the clock to its lock section
    TableCap,   \* maxRateLimiterIPs, maxRateLimiters
    LastTick    \* bound: time

ASSUME RateAssumption == /\ {Limit, Window, IdleTtl, TableCap} \subseteq Nat \ {0}
                         /\ {LastTick, MaxStall} \subseteq Nat /\ MaxStall < Window

VARIABLES
    now,
    waiting,    \* requests to the REST server with the time they read: [ip, at]
    hits,       \* rateLimiter.hits: stamps of the admitted requests of some addresses
    buckets,    \* Server.rateLimiters: [tokens, lastRefill, lastSeen] of some addresses
    admitted    \* history: stamps of admissions by each limiter, those of its last span

rateVars == <<now, waiting, hits, buckets, admitted>>

Empty == [ip \in {} |-> {}]

RateInit == /\ now = 0 /\ waiting = {} /\ hits = Empty /\ buckets = Empty
            /\ admitted = [l \in {"api", "ops"} |-> [ip \in Ips |-> {}]]

Within(times, t) == {h \in times : t - h.at < Window}
Stamp(t, n) == [at |-> t, on |-> now, nth |-> n]
Numbers(times, t) ==
    {n \in 0..Limit : Stamp(t, n) \notin times /\ \A m \in 0..(n - 1) : Stamp(t, m) \in times}
Put(f, ip, v) == [x \in DOMAIN f \cup {ip} |-> IF x = ip THEN v ELSE f[x]]
Drop(f, ip) == Restrict(f, DOMAIN f \ {ip})
Full(f) == Cardinality(DOMAIN f) >= TableCap

Admit(l, ip, h) == admitted' = [admitted EXCEPT ![l][ip] = @ \cup {h}]

(***************************************************************************)
(* rateLimiter.allow.                                                      *)
(***************************************************************************)
(* now := time.Now(); an entry stands for any number of requests that read *)
(* the same time.                                                          *)
ReadClock(ip) ==
    /\ waiting' = waiting \cup {[ip |-> ip, at |-> now]} /\ waiting' # waiting
    /\ UNCHANGED <<now, hits, buckets, admitted>>

FreshHits(w) == IF w.ip \in DOMAIN hits THEN Within(hits[w.ip], w.at) ELSE {}

EvictableAny(ip, t) == TRUE
(* The sweep of a full table drops an address without a fresh hit.         *)
Evictable(ip, t) == Within(hits[ip], t) = {}

(* The other addresses the sweep has met keep their fresh hits.            *)
Swept(P, t) == [ip \in DOMAIN hits |-> IF ip \in P THEN Within(hits[ip], t) ELSE hits[ip]]

Record(w, table) ==
    \E n \in Numbers(FreshHits(w) \cup admitted["api"][w.ip], w.at) :
        /\ hits' = Put(table, w.ip, FreshHits(w) \cup {Stamp(w.at, n)})
        /\ Admit("api", w.ip, Stamp(w.at, n))

(* Over the limit: the fresh hits are kept.  A new address in a full table *)
(* evicts the first idle one the sweep meets, or is refused.               *)
Allow(w) ==
    \/ /\ Cardinality(FreshHits(w)) >= Limit
       /\ hits' = Put(hits, w.ip, FreshHits(w)) /\ UNCHANGED admitted
    \/ /\ Cardinality(FreshHits(w)) < Limit /\ (FreshHits(w) # {} \/ ~Full(hits))
       /\ Record(w, hits)
    \/ /\ FreshHits(w) = {} /\ Full(hits)
       /\ \E k \in DOMAIN hits, P \in SUBSET {a \in DOMAIN hits : ~Evictable(a, w.at)} :
             Evictable(k, w.at) /\ Record(w, Drop(Swept(P, w.at), k))
    \/ /\ FreshHits(w) = {} /\ Full(hits) /\ \A k \in DOMAIN hits : ~Evictable(k, w.at)
       /\ hits' = Swept(DOMAIN hits, w.at) /\ UNCHANGED admitted

(* The middleware of the REST server; the health check is not limited.     *)
ApiRequest(w) ==
    /\ w \in waiting /\ waiting' \in {waiting, waiting \ {w}}
    /\ Allow(w) /\ UNCHANGED <<now, buckets>>

(***************************************************************************)
(* tokenBucket.                                                            *)
(***************************************************************************)
NewTokenBucket == [tokens |-> Limit, lastRefill |-> now, lastSeen |-> now]

BucketOf(ip) == IF ip \in DOMAIN buckets THEN [buckets[ip] EXCEPT !.lastSeen = now] ELSE NewTokenBucket

(* Allow moves lastRefill on every call: whole windows count only between  *)
(* two calls, and a client that keeps asking within a window gets nothing. *)
Refill(tb) ==
    LET windows == (now - tb.lastRefill) \div Window
        more == tb.tokens + windows * Limit
    IN  [tb EXCEPT !.lastRefill = now, !.tokens = IF more > Limit THEN Limit ELSE more]

RateLimitMiddleware(ip) ==
    \/ ip \notin DOMAIN buckets /\ Full(buckets) /\ UNCHANGED <<buckets, admitted>>
    \/ /\ ip \in DOMAIN buckets \/ ~Full(buckets)
       /\ LET tb == Refill(BucketOf(ip))
          IN  IF tb.tokens > 0
              THEN /\ buckets' = Put(buckets, ip, [tb EXCEPT !.tokens = @ - 1])
                   /\ \E n \in Numbers(admitted["ops"][ip], now) : Admit("ops", ip, Stamp(now, n))
              ELSE buckets' = Put(buckets, ip, tb) /\ UNCHANGED admitted

OpsRequest(ip) == RateLimitMiddleware(ip) /\ UNCHANGED <<now, waiting, hits>>

(* startLimiterSweeper evicts the buckets not seen for the TTL.            *)
Sweep ==
    /\ \E ip \in DOMAIN buckets : buckets[ip].lastSeen < now - IdleTtl
    /\ buckets' = Restrict(buckets, {ip \in DOMAIN buckets : buckets[ip].lastSeen >= now - IdleTtl})
    /\ UNCHANGED <<now, waiting, hits, admitted>>

(* The time in which the limit is kept.  REST: a section may put in a time *)
(* that old already.  Operations: the sweeper may give a fresh bucket to   *)
(* an address that was silent for the TTL, however long the window is.     *)
Span(l) == IF l = "api" THEN Window - MaxStall ELSE IF IdleTtl < Window THEN IdleTtl ELSE Window

TimePasses ==
    /\ now < LastTick /\ \A w \in waiting : now - w.at < MaxStall
    /\ now' = now + 1
    /\ admitted' = [l \in {"api", "ops"} |-> [ip \in Ips |->
                       {h \in admitted[l][ip] : now + 1 - h.on < Span(l)}]]
    /\ UNCHANGED <<waiting, hits, buckets>>

RateNext ==
    \/ \E ip \in Ips : ReadClock(ip) \/ OpsRequest(ip)
    \/ \E w \in waiting : ApiRequest(w)
    \/ Sweep \/ TimePasses

RateSpec == RateInit /\ [][RateNext]_rateVars

(* Neither limiter lets an address pass more often than the limit within   *)
(* its span, whatever order the requests take the lock in and whatever the *)
(* other addresses, the evictions from a full table and the idle sweeper   *)
(* do in between.  The span is the window less the longest stall, and the  *)
(* shorter of the window and the idle TTL.                                 *)
WindowBounded == \A l \in {"api", "ops"}, ip \in Ips : Cardinality(admitted[l][ip]) <= Limit
=============================================================================
