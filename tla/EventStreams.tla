---------------------------- MODULE EventStreams ----------------------------
(***************************************************************************)
(* The two event buses (pkg/telemetry/events.go EventBus, pkg/events       *)
(* Bus) and what listens to them: the session streams of the REST server   *)
(* (handleSSEStream) and the dashboard's feed (pkg/dashboard).             *)
(*                                                                         *)
(* Abstracted: an event is its tag, on the crew bus the session it belongs *)
(* to, on the telemetry bus whether it is a review request.                *)
(***************************************************************************)
EXTENDS Integers, Sequences, FiniteSets

CONSTANTS
    Streams,        \* clients of /stream/:id
    StreamSessions, \* sessions
    Publishers,     \* goroutines that publish
    ChanCap,        \* capacity of a subscriber's channel (100)
    MaxEvents       \* bound: events published

Buses == {"telemetry", "crew"}
Tags(b) == IF b = "crew" THEN StreamSessions \cup {""} ELSE {"review", "status"}
Dash == "dashboard"

VARIABLES
    subscribers,    \* of each bus
    chan,           \* the channel of each subscriber on each bus
    closed,         \* the channels that were closed: <<subscriber, bus>>
    pub,            \* a publisher: [bus, tag, left, calls]; left = subscribers not served
    handlers,       \* events.Bus: registered callbacks, by id
    nextID,
    running,        \* goroutines of callbacks
    sse,            \* phase of a stream
    watched,        \* its session
    wrote,          \* crew events written to it
    review,         \* WSServer.review; metrics is empty for ever, see HandleConnections
    wsHeld,         \* WSServer.mu is held by a write that does not return
    sent,           \* events published
    panicked        \* a send on a closed channel

eventVars == <<subscribers, chan, closed, pub, handlers, nextID, running, sse, watched, wrote,
               review, wsHeld, sent, panicked>>

NoPub == [bus |-> "none", tag |-> "", left |-> {}, calls |-> {}]

(* The dashboard subscribes when it starts (handleMessages).               *)
EventInit ==
    /\ subscribers = [b \in Buses |-> IF b = "telemetry" THEN {Dash} ELSE {}]
    /\ chan = [s \in Streams \cup {Dash} |-> [b \in Buses |-> <<>>]]
    /\ closed = {} /\ pub = [p \in Publishers |-> NoPub]
    /\ handlers = {} /\ nextID = 0 /\ running = {}
    /\ sse = [s \in Streams |-> "off"] /\ watched \in [Streams -> StreamSessions]
    /\ wrote = [s \in Streams |-> {}] /\ review = {} /\ wsHeld = FALSE
    /\ sent = 0 /\ panicked = FALSE

(***************************************************************************)
(* The buses.                                                              *)
(***************************************************************************)
ReadLocked(b) == \E p \in Publishers : pub[p].bus = b
(* The write lock of a bus, which Subscribe, Unsubscribe and On take.      *)
WriteLock(b) == ~ReadLocked(b)

Subscribe(s, b) ==
    /\ WriteLock(b)
    /\ subscribers' = [subscribers EXCEPT ![b] = @ \cup {s}]
    /\ UNCHANGED <<chan, closed>>

CloseUnguarded(b) == b \in Buses
(* Unsubscribe closes the channel under the lock that publishers share.    *)
CloseGuarded(b) == WriteLock(b)

Unsubscribe(s, b) ==
    /\ CloseGuarded(b)
    /\ subscribers' = [subscribers EXCEPT ![b] = @ \ {s}]
    /\ closed' = closed \cup {<<s, b>>}
    /\ UNCHANGED chan

(* Publish takes the read lock and copies the callbacks.                   *)
Publish(p) ==
    /\ pub[p] = NoPub /\ sent < MaxEvents /\ sent' = sent + 1
    /\ \E b \in Buses : \E tag \in Tags(b) :
          pub' = [pub EXCEPT ![p] = [bus |-> b, tag |-> tag, left |-> subscribers[b],
                                     calls |-> IF b = "crew" THEN handlers ELSE {}]]
    /\ UNCHANGED <<subscribers, chan, closed, handlers, nextID, running, sse, watched, wrote, review,
                   wsHeld, panicked>>

(* One send: a full channel is skipped, a closed one panics.               *)
Send(p) ==
    \E s \in pub[p].left :
        LET b == pub[p].bus
        IN  /\ pub' = [pub EXCEPT ![p].left = @ \ {s}]
            /\ panicked' = (panicked \/ <<s, b>> \in closed)
            /\ chan' = IF <<s, b>> \in closed \/ Len(chan[s][b]) >= ChanCap THEN chan
                       ELSE [chan EXCEPT ![s][b] = Append(@, pub[p].tag)]
            /\ UNCHANGED <<subscribers, closed, handlers, nextID, running, sse, watched, wrote, review,
                           wsHeld, sent>>

(* The lock is released, then the callbacks start as goroutines.           *)
EndPublish(p) ==
    /\ pub[p].bus # "none" /\ pub[p].left = {}
    /\ pub' = [pub EXCEPT ![p] = NoPub]
    /\ running' = running \cup pub[p].calls
    /\ UNCHANGED <<subscribers, chan, closed, handlers, nextID, sse, watched, wrote, review, wsHeld,
                   sent, panicked>>

(* On and ScopedHandlers; its cleanup removes exactly the one registered,  *)
(* which a publisher may have copied before.                               *)
On ==
    /\ WriteLock("crew") /\ nextID < 1
    /\ nextID' = nextID + 1 /\ handlers' = handlers \cup {nextID + 1}
    /\ UNCHANGED <<subscribers, chan, closed, pub, running, sse, watched, wrote, review, wsHeld, sent,
                   panicked>>

Cleanup ==
    /\ WriteLock("crew")
    /\ \E h \in handlers : handlers' = handlers \ {h}
    /\ UNCHANGED <<subscribers, chan, closed, pub, nextID, running, sse, watched, wrote, review, wsHeld,
                   sent, panicked>>

HandlerReturns ==
    /\ \E h \in running : running' = running \ {h}
    /\ UNCHANGED <<subscribers, chan, closed, pub, handlers, nextID, sse, watched, wrote, review, wsHeld,
                   sent, panicked>>

(***************************************************************************)
(* handleSSEStream.                                                        *)
(***************************************************************************)
Others == <<pub, handlers, nextID, running, watched, review, wsHeld, sent, panicked>>

(* A session that is not the caller's is answered 404.                     *)
HandleSSEStream(s) ==
    \/ /\ sse[s] = "off" /\ Subscribe(s, "telemetry")
       /\ sse' = [sse EXCEPT ![s] = "half"] /\ UNCHANGED <<wrote, Others>>
    \/ /\ sse[s] = "half" /\ Subscribe(s, "crew")
       /\ sse' = [sse EXCEPT ![s] = "on"] /\ UNCHANGED <<wrote, Others>>
    \/ /\ sse[s] = "off" /\ sse' = [sse EXCEPT ![s] = "404"]
       /\ UNCHANGED <<subscribers, chan, closed, wrote, Others>>

PassSSEEvent(id, tag) == tag # "" /\ tag = id

(* Telemetry events go out as they are, crew events if they belong here.   *)
StreamEvent(s) ==
    \E b \in Buses :
        /\ sse[s] = "on" /\ chan[s][b] # <<>>
        /\ chan' = [chan EXCEPT ![s][b] = Tail(@)]
        /\ wrote' = IF b = "crew" /\ PassSSEEvent(watched[s], Head(chan[s][b]))
                    THEN [wrote EXCEPT ![s] = @ \cup {Head(chan[s][b])}] ELSE wrote
        /\ UNCHANGED <<subscribers, closed, sse, Others>>

(* The client leaves: the deferred calls run, last first.                  *)
StreamLeaves(s) ==
    \/ /\ sse[s] = "on" /\ Unsubscribe(s, "crew")
       /\ sse' = [sse EXCEPT ![s] = "left"] /\ UNCHANGED <<wrote, Others>>
    \/ /\ sse[s] = "left" /\ Unsubscribe(s, "telemetry")
       /\ sse' = [sse EXCEPT ![s] = "gone"] /\ UNCHANGED <<wrote, Others>>

(***************************************************************************)
(* The dashboard's feed.                                                   *)
(***************************************************************************)
WsAuthorized(cred) == cred \in {"admin", "read", "jwt"}

(* With credentials configured others are refused, without them everybody  *)
(* gets the review feed: nobody ever joins the metrics feed.               *)
HandleConnections ==
    /\ ~wsHeld /\ review = {}
    /\ \E configured \in BOOLEAN, cred \in {"", "read"} :
          /\ configured => WsAuthorized(cred)
          /\ review' = {"client"}
    /\ UNCHANGED <<subscribers, chan, closed, pub, handlers, nextID, running, sse, watched, wrote, wsHeld,
                   sent, panicked>>

(* A write that fails drops the client; one that blocks keeps the lock     *)
(* until the connection breaks.                                            *)
WriteClients ==
    \/ UNCHANGED <<review, wsHeld>>
    \/ review # {} /\ review' = {} /\ UNCHANGED wsHeld
    \/ review # {} /\ wsHeld' = TRUE /\ UNCHANGED review

HandleMessages ==
    /\ ~wsHeld /\ chan[Dash]["telemetry"] # <<>>
    /\ chan' = [chan EXCEPT ![Dash]["telemetry"] = Tail(@)]
    /\ WriteClients
    /\ UNCHANGED <<subscribers, closed, pub, handlers, nextID, running, sse, watched, wrote, sent,
                   panicked>>

(* Errors of the metrics ticker's writes are ignored.                      *)
PublishMetrics ==
    /\ ~wsHeld /\ review # {} /\ wsHeld' = TRUE
    /\ UNCHANGED <<subscribers, chan, closed, pub, handlers, nextID, running, sse, watched, wrote, review,
                   sent, panicked>>

Disconnect ==
    /\ review # {} /\ review' = {} /\ wsHeld' = FALSE
    /\ UNCHANGED <<subscribers, chan, closed, pub, handlers, nextID, running, sse, watched, wrote, sent,
                   panicked>>

EventNext ==
    \/ \E p \in Publishers : Publish(p) \/ Send(p) \/ EndPublish(p)
    \/ \E s \in Streams : HandleSSEStream(s) \/ StreamEvent(s) \/ StreamLeaves(s)
    \/ On \/ Cleanup \/ HandlerReturns
    \/ HandleConnections \/ HandleMessages \/ PublishMetrics \/ Disconnect

EventSpec == EventInit /\ [][EventNext]_eventVars

(* A publisher never sends on a channel that a leaving stream has closed,  *)
(* wherever the disconnect falls in its loop over the subscribers: the     *)
(* panic would end the server.                                             *)
NoSendOnClosed == ~panicked
=============================================================================
