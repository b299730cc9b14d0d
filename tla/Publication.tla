----------------------------- MODULE Publication -----------------------------
(***************************************************************************)
(* One publication of a copper server (server_pubs.go): the endpoints that *)
(* applications published under one name and priority, the requests that   *)
(* are routed to them, and the queue of requests that wait for a free      *)
(* endpoint.                                                               *)
(*                                                                         *)
(* Requests run under owner.mu.RLock, and inside it under pub.mu for one   *)
(* critical section at a time, so two requests interleave between their    *)
(* critical sections; publish and unpublish hold owner.mu for writing and  *)
(* therefore exclude every request that is not parked or being served.     *)
(*                                                                         *)
(* The behaviour is the life of one serverPublication object.  It is made  *)
(* by the publish of its first endpoint, and when the last one is gone the *)
(* server forgets it: a later publish makes another object, while requests *)
(* that still refer to this one are told to retry.  An endpoint is a       *)
(* localEndpoint object, which is never published a second time.           *)
(***************************************************************************)
EXTENDS Integers, Sequences, FiniteSets

CONSTANTS Endpoint, Request,
          Concurrency,  \* PublishSettings of each endpoint
          QueueSize,
          MaxDistance,
          Modulus       \* settings are uint32: 2^32 in the program

NoEndpoint == "nil"
Empty == "empty"

ASSUME PublicationParameters ==
    /\ Modulus \in Nat \ {0}
    /\ Concurrency \in [Endpoint -> 1 .. Modulus - 1]
    /\ QueueSize \in [Endpoint -> 0 .. Modulus - 1]
    /\ MaxDistance \in [Endpoint -> 0 .. Modulus - 1]
    /\ IsFiniteSet(Request)
    /\ NoEndpoint \notin Endpoint /\ Empty \notin Endpoint

VARIABLES published,  \* endpoints in pub.endpoints (endpoint.pub # nil)
          removed,    \* endpoints that were unpublished
          active,     \* active[e]
          ready,      \* pub.ready
          queue,      \* pub.queue: the requests whose channels it holds
          settings,   \* pub.settings
          distances,  \* pub.maxDistanceCounts
          chan,       \* chan[r]: what the waiter channel of r holds
          pc,         \* where request r stands
          held,       \* held[r]: the endpoint r is being served by
          before,     \* history: endpoints removed when r was started
          waking      \* wakeups publish may still do, with owner.mu held

queues == <<active, ready, queue, chan>>
registry == <<published, removed, settings, distances>>
vars == <<registry, queues, pc, held, before, waking>>

\* start: not begun; missed: found no endpoint to take; waiting: parked on its
\* channel; serving: has an endpoint; failed: its endpoint was unpublished by
\* force; retry, done and refused: what handleRequestRLocked returned.
PC == {"start", "missed", "waiting", "serving", "failed", "retry", "done",
       "refused"}

Settings == [concurrency : 0 .. Modulus - 1, queueSize : 0 .. Modulus - 1,
             maxDistance : 0 .. Modulus - 1]

\* publishLocked for the first endpoint, which makes the publication.
Init ==
    \E e \in Endpoint :
        /\ published = {e} /\ removed = {}
        /\ settings = [concurrency |-> Concurrency[e],
                       queueSize |-> QueueSize[e],
                       maxDistance |-> MaxDistance[e]]
        /\ distances = [d \in 0 .. Modulus - 1 |->
                          IF d = MaxDistance[e] THEN 1 ELSE 0]
        /\ active = [d \in Endpoint |-> 0]
        /\ ready = {e} /\ queue = <<>>
        /\ chan = [r \in Request |-> Empty]
        /\ pc = [r \in Request |-> "start"]
        /\ held = [r \in Request |-> NoEndpoint]
        /\ before = [r \in Request |-> {}]
        /\ waking = 0

\* owner.mu.RLock and owner.mu.Lock can be taken.  A request holds the read
\* lock between missing an endpoint and queueing, and when it retries.
CanRLock == waking = 0
CanLock == waking = 0 /\ \A r \in Request : pc[r] \notin {"missed", "retry"}

Goto(r, label) == pc' = [pc EXCEPT ![r] = label]

-----------------------------------------------------------------------------
\* Critical sections of pub.mu

\* takeEndpointLocked picks a ready endpoint with the fewest active requests;
\* the order of a Go map decides between equals.
Take(e) ==
    /\ e \in ready /\ \A d \in ready : active[e] <= active[d]
    /\ active' = [active EXCEPT ![e] = @ + 1]
    /\ ready' = IF active[e] + 1 = Concurrency[e] THEN ready \ {e} ELSE ready

\* Mutant: the waiter that gets the endpoint is left in the queue.
ReleaseKeepingWaiter(e, k) ==
    \/ /\ e \notin published
       /\ chan' = k
       /\ UNCHANGED <<active, ready, queue>>
    \/ /\ e \in published /\ queue # <<>>
       /\ chan' = [k EXCEPT ![Head(queue)] = e]
       /\ UNCHANGED <<active, ready, queue>>
    \/ /\ e \in published /\ queue = <<>>
       /\ chan' = k
       /\ active' = [active EXCEPT ![e] = @ - 1]
       /\ ready' = ready \cup {e}
       /\ UNCHANGED queue

\* releaseEndpointRLocked: the endpoint goes to the first waiter if there is
\* one.  The channels are k when the caller has emptied its own.
Release(e, k) ==
    \/ /\ e \notin published
       /\ chan' = k
       /\ UNCHANGED <<active, ready, queue>>
    \/ /\ e \in published /\ queue # <<>>
       /\ chan' = [k EXCEPT ![Head(queue)] = e]
       /\ queue' = Tail(queue)
       /\ UNCHANGED <<active, ready>>
    \/ /\ e \in published /\ queue = <<>>
       /\ chan' = k
       /\ active' = [active EXCEPT ![e] = @ - 1]
       /\ ready' = ready \cup {e}
       /\ UNCHANGED queue

-----------------------------------------------------------------------------
\* handleRequestRLocked

\* A new request takes the place of one that is over.
NewRequest(r) ==
    /\ pc[r] \in {"done", "refused"}
    /\ Goto(r, "start")
    /\ UNCHANGED <<registry, queues, held, before, waking>>

\* A request is handled while the publication is known to the server; only one
\* that retries can find it empty.
NoRoute(r) ==
    /\ pc[r] = "retry" /\ CanRLock /\ published = {}
    /\ Goto(r, "refused")
    /\ UNCHANGED <<registry, queues, held, before, waking>>

TakeEndpoint(r) ==
    /\ pc[r] \in {"start", "retry"} /\ CanRLock /\ published # {}
    /\ before' = [before EXCEPT ![r] = removed]
    /\ \/ \E e \in ready :
             /\ Take(e)
             /\ held' = [held EXCEPT ![r] = e]
             /\ Goto(r, "serving")
       \/ /\ ready = {}
          /\ Goto(r, "missed")
          /\ UNCHANGED <<active, ready, held>>
    /\ UNCHANGED <<registry, queue, chan, waking>>

\* The request turns out to be cancelled before it is queued.
GiveUp(r) ==
    /\ pc[r] = "missed"
    /\ Goto(r, "done")
    /\ UNCHANGED <<registry, queues, held, before, waking>>

QueueWaiter(r) ==
    /\ pc[r] = "missed"
    /\ \/ /\ Len(queue) >= settings.queueSize
          /\ Goto(r, "refused")
          /\ UNCHANGED queue
       \/ /\ Len(queue) < settings.queueSize
          /\ queue' = Append(queue, r)
          /\ Goto(r, "waiting")
    /\ UNCHANGED <<registry, active, ready, chan, held, before, waking>>

\* Mutant: a request retries although its endpoint was not unpublished.
WakeUpRetrying(r) ==
    /\ pc[r] = "waiting" /\ CanRLock /\ chan[r] # Empty
    /\ chan' = [chan EXCEPT ![r] = Empty]
    /\ Goto(r, "retry")
    /\ UNCHANGED <<registry, active, ready, queue, held, before, waking>>

\* The channel of the waiter delivers an endpoint, or nil if it was closed.
WakeUp(r) ==
    /\ pc[r] = "waiting" /\ CanRLock /\ chan[r] # Empty
    /\ chan' = [chan EXCEPT ![r] = Empty]
    /\ \/ /\ chan[r] = NoEndpoint
          /\ Goto(r, IF published = {} THEN "retry" ELSE "refused")
          /\ UNCHANGED held
       \/ /\ chan[r] # NoEndpoint /\ chan[r] \notin published
          /\ Goto(r, "retry")
          /\ UNCHANGED held
       \/ /\ chan[r] \in published
          /\ held' = [held EXCEPT ![r] = chan[r]]
          /\ Goto(r, "serving")
    /\ UNCHANGED <<registry, active, ready, queue, before, waking>>

\* The queue without its i-th waiter.
Without(q, i) == SubSeq(q, 1, i - 1) \o SubSeq(q, i + 1, Len(q))

\* Mutant: an endpoint handed to a cancelled waiter is not given back.
CancelKeepingEndpoint(r) ==
    /\ pc[r] = "waiting" /\ CanRLock
    /\ Goto(r, "done")
    /\ \/ \E i \in 1 .. Len(queue) :
             /\ queue[i] = r
             /\ queue' = Without(queue, i)
             /\ UNCHANGED <<active, ready, chan>>
       \/ /\ chan[r] # Empty
          /\ chan' = [chan EXCEPT ![r] = Empty]
          /\ UNCHANGED <<active, ready, queue>>
    /\ UNCHANGED <<registry, held, before, waking>>

\* The request is cancelled while it waits: it leaves the queue, or gives back
\* the endpoint that was handed to it in the meantime.
CancelWaiter(r) ==
    /\ pc[r] = "waiting" /\ CanRLock
    /\ Goto(r, "done")
    /\ \/ \E i \in 1 .. Len(queue) :
             /\ queue[i] = r
             /\ queue' = Without(queue, i)
             /\ UNCHANGED <<active, ready, chan>>
       \/ /\ chan[r] # Empty
          /\ Release(chan[r], [chan EXCEPT ![r] = Empty])
    /\ UNCHANGED <<registry, held, before, waking>>

\* The stream to the endpoint is over, or the request was cancelled before it
\* was opened: the deferred release runs.
Finish(r) ==
    /\ pc[r] \in {"serving", "failed"} /\ CanRLock
    /\ Goto(r, IF pc[r] = "failed" THEN "retry" ELSE "done")
    /\ held' = [held EXCEPT ![r] = NoEndpoint]
    /\ Release(held[r], chan)
    /\ UNCHANGED <<registry, before, waking>>

-----------------------------------------------------------------------------
\* Mutant: the check for a wrap around is missing.
FitsAlways(sum, old) == TRUE

\* A sum of settings is refused when it wraps around.
Fits(sum, old) == ~(sum < old)

\* publishLocked for a further endpoint, up to its call of wakeupWaitersLocked.
Publish(e) ==
    LET concurrency == (settings.concurrency + Concurrency[e]) % Modulus
        queueSize == (settings.queueSize + QueueSize[e]) % Modulus
    IN /\ CanLock /\ published # {} /\ e \notin published \cup removed
       /\ Fits(concurrency, settings.concurrency)
       /\ Fits(queueSize, settings.queueSize)
       /\ published' = published \cup {e}
       /\ settings' = [concurrency |-> concurrency, queueSize |-> queueSize,
                       maxDistance |->
                         IF settings.maxDistance < MaxDistance[e]
                         THEN MaxDistance[e] ELSE settings.maxDistance]
       /\ distances' = [distances EXCEPT ![MaxDistance[e]] = @ + 1]
       /\ ready' = ready \cup {e}
       /\ waking' = Concurrency[e]
       /\ UNCHANGED <<removed, active, queue, chan, pc, held, before>>

\* One turn of the loop of wakeupWaitersLocked, still under owner.mu.
WakeWaiter ==
    /\ waking > 0
    /\ \/ \E e \in ready :
             /\ queue # <<>>
             /\ Take(e)
             /\ chan' = [chan EXCEPT ![Head(queue)] = e]
             /\ queue' = Tail(queue)
             /\ waking' = waking - 1
       \/ /\ queue = <<>> \/ ready = {}
          /\ waking' = 0
          /\ UNCHANGED queues
    /\ UNCHANGED <<registry, pc, held, before>>

\* The largest distance that is still counted.
Farthest(counts) ==
    LET live == {d \in 0 .. Modulus - 1 : counts[d] > 0}
    IN IF live = {} THEN 0 ELSE CHOOSE d \in live : \A c \in live : c <= d

\* unpublishLocked keeps the first waiters that still fit, none when this was
\* the last endpoint; the others find their channel closed.
Drop(e) ==
    LET left == published \ {e}
        queueSize == (settings.queueSize - QueueSize[e]) % Modulus
        counts == [distances EXCEPT ![MaxDistance[e]] = @ - 1]
        keep == IF left = {} THEN 0
                ELSE IF Len(queue) > queueSize THEN queueSize ELSE Len(queue)
        closed == {queue[i] : i \in keep + 1 .. Len(queue)}
    IN /\ published' = left
       /\ removed' = removed \cup {e}
       /\ settings' =
            [concurrency |-> (settings.concurrency - Concurrency[e]) % Modulus,
             queueSize |-> queueSize,
             maxDistance |-> IF counts[MaxDistance[e]] = 0 THEN Farthest(counts)
                             ELSE settings.maxDistance]
       /\ distances' = counts
       /\ ready' = ready \ {e}
       /\ queue' = SubSeq(queue, 1, keep)
       /\ chan' = [r \in Request |->
                     IF r \in closed THEN NoEndpoint ELSE chan[r]]
       /\ UNCHANGED active

Unpublish(e) ==
    /\ CanLock /\ e \in published
    /\ Drop(e)
    /\ UNCHANGED <<pc, held, before, waking>>

\* The stream to the endpoint cannot be opened: it is unpublished by force,
\* unless somebody else has unpublished it.
StreamFails(r) ==
    /\ pc[r] = "serving" /\ CanLock
    /\ Goto(r, "failed")
    /\ \/ held[r] \in published /\ Drop(held[r])
       \/ held[r] \notin published /\ UNCHANGED <<registry, queues>>
    /\ UNCHANGED <<held, before, waking>>

-----------------------------------------------------------------------------
\* What the server does with a request by itself; a cancellation comes from
\* the client.
Handling(r) ==
    \/ NoRoute(r) \/ TakeEndpoint(r) \/ QueueWaiter(r) \/ WakeUp(r)
    \/ Finish(r)

Cancelling(r) == GiveUp(r) \/ CancelWaiter(r)

Next ==
    \/ \E r \in Request :
          NewRequest(r) \/ Handling(r) \/ Cancelling(r) \/ StreamFails(r)
    \/ \E e \in Endpoint : Publish(e) \/ Unpublish(e)
    \/ WakeWaiter

Spec == Init /\ [][Next]_vars

\* Goroutines run, the locks are not held forever, and an endpoint finishes
\* every request it serves.
FairSpec ==
    /\ Spec
    /\ \A r \in Request : WF_vars(Handling(r))
    /\ WF_vars(WakeWaiter)

-----------------------------------------------------------------------------
\* Requests that hold a unit of e's concurrency: served by it, or handed it
\* and not yet running.
Holders(e) == {r \in Request : held[r] = e \/ chan[r] = e}

\* The shape of the state: endpoints, counters, channels, queue.
TypeOK ==
    /\ published \in SUBSET Endpoint /\ removed \in SUBSET Endpoint
    /\ settings \in Settings
    /\ distances \in [0 .. Modulus - 1 -> Nat]
    /\ active \in [Endpoint -> Nat]
    /\ ready \in SUBSET published
    /\ queue \in Seq(Request)
    /\ chan \in [Request -> Endpoint \cup {NoEndpoint, Empty}]
    /\ pc \in [Request -> PC]
    /\ held \in [Request -> Endpoint \cup {NoEndpoint}]
    /\ before \in [Request -> SUBSET Endpoint]
    /\ waking \in Nat

\* An endpoint is never handed to more requests than the concurrency it was
\* published with, the ones still waking up included, and no capacity leaks: one
\* with fewer is in pub.ready, whatever cancellations, hand-overs and failed
\* streams came before (takeEndpointLocked, releaseEndpointRLocked,
\* cancelWaiterRLocked, wakeupWaitersLocked).
CapacityExact ==
    \A e \in published :
        /\ Cardinality(Holders(e)) <= Concurrency[e]
        /\ Cardinality(Holders(e)) < Concurrency[e] => e \in ready

\* The queue never holds more requests than the publication's queue size, not
\* even after an endpoint took its share away, and none when it is forgotten
\* (queueWaiterRLocked, unpublishLocked).
QueueBounded ==
    /\ Len(queue) <= settings.queueSize
    /\ published = {} => queue = <<>>

\* A parked request is in the queue exactly once or has an answer in its
\* channel, and nobody else is in the queue, which keeps to its size:
\* cancelWaiterRLocked never blocks on the channel, and no channel is filled or
\* closed twice.
WaitersQueuedOnce ==
    /\ \A r \in Request :
          Cardinality({i \in 1 .. Len(queue) : queue[i] = r}) =
              IF pc[r] = "waiting" /\ chan[r] = Empty THEN 1 ELSE 0
    /\ QueueBounded

\* "It is mandatory that something had been removed before returning this
\* status" (handleRequestStatusRetry): every retry comes after an endpoint was
\* unpublished since this attempt began, so the loop of
\* handleRequestRLockedWith ends.
RetryAfterRemoval ==
    \A r \in Request : pc[r] = "retry" => removed \ before[r] # {}

\* A request that waits in the queue is answered once endpoints become free,
\* as TestSubscribeQueueWorks expects.
QueuedIsServed ==
    \A r \in Request : pc[r] = "waiting" ~> pc[r] # "waiting"
=============================================================================
