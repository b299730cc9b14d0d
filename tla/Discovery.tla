------------------------------ MODULE Discovery ------------------------------
(***************************************************************************)
(* How a copper server learns what another one publishes.                  *)
(*                                                                         *)
(* The other server keeps a serverServiceChangesStream per connection that *)
(* asked for one (server_changes.go) and sends it batches of changes.      *)
(* This server has a serverPeer (server_peers.go): a connectloop that      *)
(* dials again whenever the connection ended, for every connection a       *)
(* serveClient goroutine that reads the batches, and the remotes they      *)
(* announced, which a subscription uses to open streams to the peer.       *)
(*                                                                         *)
(* An action is one critical section under a server's mu, or what a        *)
(* goroutine does between two of them.  The subscription has one option,   *)
(* which accepts every remote of the peer.                                 *)
(***************************************************************************)
EXTENDS Naturals, Sequences, FiniteSets, FiniteSetsExt, Functions

CONSTANTS Endpoint,      \* applications' endpoints at the watched server
          Name, Priority, Distance,
          Request,       \* requests to the subscription
          PeerDistance,  \* distance of the peer
          Batch,         \* maxChangedServicesBatch
          MaxTarget,     \* bound: target ids of one life of the watched server
          MaxConn,       \* bound: connections that are dialled
          StreamRoom     \* bound: batches under way on one stream

Conn == 1 .. MaxConn
NoConn == 0
NoRemote == [client |-> NoConn]
NoBatch == "nil"

\* A distance is a uint32, so that there is a largest one.
ASSUME DiscoveryParameters ==
    /\ Distance \subseteq Nat
    /\ \E max \in Distance : \A d \in Distance : d <= max
    /\ Priority \subseteq Nat /\ PeerDistance \in Nat
    /\ Batch \in Nat \ {0} /\ StreamRoom \in Nat \ {0}
    /\ MaxTarget \in Nat /\ MaxConn \in Nat

VARIABLES lastTargetID,  \* of the watched server
          pub,           \* pubByTarget: name and priority of a publication
          endpoint,      \* published endpoints: their target and distance
          watcher,       \* watcher[c]: the changes stream of connection c
          conn,          \* conn[c]: the connection itself
          stream,        \* stream[c]: batches sent and not yet read
          failed,        \* peer.failure # nil
          loop,          \* connectloop: where it stands and its client
          serve,         \* serve[c]: serveClient of connection c
          mirror,        \* peer.client, peer.remotesByTarget and the
                         \* subscription's list of remotes
          request,       \* request[r]: handleRequestRLocked of a remote
          dropped        \* history: targets that requests removed by force
                         \* since the peer has its client

server == <<lastTargetID, pub, endpoint>>
remotes == <<mirror, request, dropped>>
vars == <<server, watcher, conn, stream, failed, loop, serve, remotes>>

NoWatcher == [state |-> "none", sent |-> {}, removed |-> {}, changed |-> {}]
NoServe == [pc |-> "none", batch |-> NoBatch]
NoRequest == [pc |-> "idle", remote |-> NoRemote, gone |-> FALSE]
NoMirror == [client |-> NoConn, remotes |-> <<>>, listed |-> {}]

Init ==
    /\ lastTargetID = 0 /\ pub = <<>> /\ endpoint = <<>>
    /\ watcher = [c \in Conn |-> NoWatcher]
    /\ conn = [c \in Conn |-> "unused"]
    /\ stream = [c \in Conn |-> <<>>]
    /\ failed = FALSE
    /\ loop = [pc |-> "top", client |-> NoConn]
    /\ serve = [c \in Conn |-> NoServe]
    /\ mirror = NoMirror
    /\ request = [r \in Request |-> NoRequest]
    /\ dropped = {}

\* The entries of f, and those of g for other keys.
Over(f, g) ==
    [x \in DOMAIN f \cup DOMAIN g |-> IF x \in DOMAIN f THEN f[x] ELSE g[x]]

-----------------------------------------------------------------------------
\* The watched server: publications and the streams of changes

EndpointsOf(t) == {e \in DOMAIN endpoint : endpoint[e].target = t}

\* What a ServiceChange says of publication t.
Service(t) ==
    [name |-> pub[t].name, priority |-> pub[t].priority,
     maxDistance |-> Max({endpoint[e].distance : e \in EndpointsOf(t)})]

AddRemoved(w, t) ==
    IF w.state = "open"
    THEN [w EXCEPT !.changed = @ \ {t},
                   !.removed = IF t \in w.sent THEN @ \cup {t} ELSE @]
    ELSE w

AddChanged(w, t) ==
    IF w.state = "open"
    THEN [w EXCEPT !.removed = @ \ {t}, !.changed = @ \cup {t}]
    ELSE w

\* An application publishes an endpoint; the first one of a name and priority
\* makes a publication with a new target id.
Publish(e, n, p, d) ==
    LET svc  == [name |-> n, priority |-> p]
        same == {t \in DOMAIN pub : pub[t] = svc}
        t    == IF same = {} THEN lastTargetID + 1 ELSE CHOOSE s \in same : TRUE
    IN /\ e \notin DOMAIN endpoint
       /\ t <= MaxTarget
       /\ lastTargetID' = Max({lastTargetID, t})
       /\ pub' = Over([s \in {t} |-> svc], pub)
       /\ endpoint' = Over([f \in {e} |-> [target |-> t, distance |-> d]], endpoint)
       /\ watcher' = [c \in Conn |-> AddChanged(watcher[c], t)]
       /\ UNCHANGED <<conn, stream, failed, loop, serve, remotes>>

Unpublish(e) ==
    /\ e \in DOMAIN endpoint
    /\ endpoint' = Restrict(endpoint, DOMAIN endpoint \ {e})
    /\ LET t == endpoint[e].target
       IN IF EndpointsOf(t) = {e}
          THEN /\ pub' = Restrict(pub, DOMAIN pub \ {t})
               /\ watcher' = [c \in Conn |-> AddRemoved(watcher[c], t)]
          ELSE /\ watcher' = [c \in Conn |-> AddChanged(watcher[c], t)]
               /\ UNCHANGED pub
    /\ UNCHANGED <<lastTargetID, conn, stream, failed, loop, serve, remotes>>

\* The request for changes arrives: newServerServiceChangesStream.
StreamServices(c) ==
    /\ watcher[c].state = "asked" /\ conn[c] = "up"
    /\ watcher' = [watcher EXCEPT ![c] =
                      [@ EXCEPT !.state = "open", !.changed = DOMAIN pub]]
    /\ UNCHANGED <<server, conn, stream, failed, loop, serve, remotes>>

\* Read returns everything removed and a batch of what changed, which the
\* handler of the request writes to the stream.
SendChanges(c) ==
    LET w == watcher[c]
    IN /\ w.state = "open" /\ conn[c] = "up"
       /\ w.removed \cup w.changed # {}
       /\ Len(stream[c]) < StreamRoom
       /\ \E S \in kSubset(Min({Batch, Cardinality(w.changed)}), w.changed) :
             /\ watcher' = [watcher EXCEPT ![c] =
                               [w EXCEPT !.sent = (@ \ w.removed) \cup S,
                                         !.removed = {},
                                         !.changed = @ \ S]]
             /\ stream' = [stream EXCEPT ![c] =
                              Append(@, [removed |-> w.removed,
                                         changed |-> [t \in S |-> Service(t)]])]
       /\ UNCHANGED <<server, conn, failed, loop, serve, remotes>>

\* The connection ended, or the peer closed the stream: stopLocked.  Nobody
\* reads what a closed stream still holds.
StopWatcher(c) ==
    /\ watcher[c].state \in {"asked", "open"}
    /\ conn[c] = "closed" \/ serve[c].pc \in {"detach", "close"}
    /\ watcher' = [watcher EXCEPT ![c] = [NoWatcher EXCEPT !.state = "closed"]]
    /\ UNCHANGED <<server, conn, stream, failed, loop, serve, remotes>>

\* The watched server is closed and started again; its target ids start over.
Restart ==
    /\ lastTargetID' = 0 /\ pub' = <<>> /\ endpoint' = <<>>
    /\ watcher' = [c \in Conn |->
          IF watcher[c].state \in {"asked", "open"}
          THEN [NoWatcher EXCEPT !.state = "closed"] ELSE watcher[c]]
    /\ conn' = [c \in Conn |-> IF conn[c] = "up" THEN "closed" ELSE conn[c]]
    /\ UNCHANGED <<stream, failed, loop, serve, remotes>>

\* The network fails.
Break(c) ==
    /\ conn[c] = "up"
    /\ conn' = [conn EXCEPT ![c] = "closed"]
    /\ UNCHANGED <<server, watcher, stream, failed, loop, serve, remotes>>

-----------------------------------------------------------------------------
\* The remotes of the peer.  A remote is a record; an object that was removed
\* (remote.peer = nil) is in neither place and is gone for who still holds it.

\* serverPeerRemote.removeLocked, for the remotes of the targets in T
RemoveRemotes(m, T) ==
    LET gone == {t \in T \cap DOMAIN m.remotes : m.remotes[t].client = m.client}
    IN [m EXCEPT !.remotes = Restrict(@, DOMAIN @ \ gone),
                 !.listed = @ \ {m.remotes[t] : t \in gone}]

\* The changes that this server may reach.
Near(changed) ==
    Restrict(changed,
             {t \in DOMAIN changed : changed[t].maxDistance >= PeerDistance})

\* serverPeer.addRemoteLocked, for each of the changes.  A remote that stays as
\* it is, is kept; any other that is mentioned is removed, and one that is near
\* is made.
AddRemotes(m, changed) ==
    LET near == Near(changed)
        same == {t \in DOMAIN near \cap DOMAIN m.remotes :
                    /\ m.remotes[t].name = near[t].name
                    /\ m.remotes[t].priority = near[t].priority}
        cut  == RemoveRemotes(m, DOMAIN changed \ same)
        new  == [t \in DOMAIN near \ same |->
                    [target |-> t, name |-> near[t].name,
                     priority |-> near[t].priority, client |-> m.client]]
    IN [cut EXCEPT !.remotes = Over(new, @), !.listed = @ \cup Range(new)]

\* Mutant: what was removed is not looked at.
ApplyChangedOnly(m, batch) == AddRemotes(m, batch.changed)

ApplyChanges(m, batch) ==
    AddRemotes(RemoveRemotes(m, batch.removed), batch.changed)

\* Mutant: peer.client is cleared before the remotes are removed.
DetachFirst(m, c) ==
    IF m.client = c
    THEN RemoveRemotes([m EXCEPT !.client = NoConn], DOMAIN m.remotes)
    ELSE m

\* serverPeer.detachClient
Detach(m, c) ==
    IF m.client = c
    THEN [RemoveRemotes(m, DOMAIN m.remotes) EXCEPT !.client = NoConn]
    ELSE m

\* The mirror becomes m, and who holds a remote that this removes sees it gone.
Update(m) ==
    LET lost == Range(mirror.remotes) \ Range(m.remotes)
    IN /\ mirror' = m
       /\ request' = [r \in Request |->
             [request[r] EXCEPT !.gone = @ \/ request[r].remote \in lost]]

-----------------------------------------------------------------------------
\* connectloop

At(pc, c) == loop' = [pc |-> pc, client |-> c]

\* Mutant: the loop never looks whether the peer was closed.
CheckNothing ==
    /\ loop.pc = "top"
    /\ At("dial", NoConn)
    /\ UNCHANGED <<server, watcher, conn, stream, failed, serve, remotes>>

CheckFailed ==
    /\ loop.pc = "top"
    /\ At(IF failed THEN "done" ELSE "dial", NoConn)
    /\ UNCHANGED <<server, watcher, conn, stream, failed, serve, remotes>>

Dial ==
    /\ loop.pc = "dial"
    /\ \E c \in Conn :
          /\ conn[c] = "unused" /\ \A b \in 1 .. c - 1 : conn[b] # "unused"
          /\ conn' = [conn EXCEPT ![c] = "up"]
          /\ At("attach", c)
    /\ UNCHANGED <<server, watcher, stream, failed, serve, remotes>>

DialFails ==
    /\ loop.pc = "dial"
    /\ At("sleep", NoConn)
    /\ UNCHANGED <<server, watcher, conn, stream, failed, serve, remotes>>

Sleep ==
    /\ loop.pc = "sleep"
    /\ At("top", NoConn) \/ (failed /\ At("done", NoConn))
    /\ UNCHANGED <<server, watcher, conn, stream, failed, serve, remotes>>

AttachClient ==
    /\ loop.pc = "attach"
    /\ At("wait", loop.client)
    /\ Update([mirror EXCEPT !.client = loop.client]) /\ dropped' = {}
    /\ serve' = [serve EXCEPT ![loop.client].pc = "start"]
    /\ UNCHANGED <<server, watcher, conn, stream, failed>>

\* The goroutine that closes the client when the peer is closed.
CloseOnFailure ==
    /\ loop.pc = "wait" /\ failed /\ conn[loop.client] = "up"
    /\ conn' = [conn EXCEPT ![loop.client] = "closed"]
    /\ UNCHANGED <<server, watcher, stream, failed, loop, serve, remotes>>

ClientDone ==
    /\ loop.pc = "wait" /\ conn[loop.client] = "closed"
    /\ Update(Detach(mirror, loop.client)) /\ UNCHANGED dropped
    /\ At("top", NoConn)
    /\ UNCHANGED <<server, watcher, conn, stream, failed, serve>>

\* The server of the peer is closed: closeWithErrorLocked.
ClosePeer ==
    /\ ~failed /\ failed' = TRUE
    /\ UNCHANGED <<server, watcher, conn, stream, loop, serve, remotes>>

-----------------------------------------------------------------------------
\* serveClient of connection c

Serving(c, pc, batch) ==
    serve' = [serve EXCEPT ![c] = [pc |-> pc, batch |-> batch]]

AskChanges(c) ==
    /\ serve[c].pc = "start"
    /\ \/ /\ conn[c] = "up"
          /\ Serving(c, "read", NoBatch)
          /\ watcher' = [watcher EXCEPT ![c].state = "asked"]
       \/ /\ conn[c] = "closed"
          /\ Serving(c, "detach", NoBatch)
          /\ UNCHANGED watcher
    /\ UNCHANGED <<server, conn, stream, failed, loop, remotes>>

\* What arrived before the connection ended is still read, the rest is lost.
ReadChanges(c) ==
    /\ serve[c].pc = "read"
    /\ \/ /\ stream[c] # <<>>
          /\ Serving(c, "got", Head(stream[c]))
          /\ stream' = [stream EXCEPT ![c] = Tail(@)]
       \/ /\ conn[c] = "closed"
          /\ Serving(c, "detach", NoBatch)
          /\ stream' = [stream EXCEPT ![c] = <<>>]
    /\ UNCHANGED <<server, watcher, conn, failed, loop, remotes>>

\* Mutant: the client is not compared.
WrongClientUnchecked(c) == failed

\* These changes may be from the wrong client.
WrongClient(c) == mirror.client # c \/ failed

ProcessChanges(c) ==
    /\ serve[c].pc = "got"
    /\ IF WrongClient(c)
       THEN Serving(c, "detach", NoBatch) /\ UNCHANGED remotes
       ELSE /\ Serving(c, "read", NoBatch)
            /\ Update(ApplyChanges(mirror, serve[c].batch))
            /\ dropped' = dropped \ DOMAIN serve[c].batch.changed
    /\ UNCHANGED <<server, watcher, conn, stream, failed, loop>>

DetachClient(c) ==
    /\ serve[c].pc = "detach"
    /\ Update(Detach(mirror, c)) /\ UNCHANGED dropped
    /\ Serving(c, "close", NoBatch)
    /\ UNCHANGED <<server, watcher, conn, stream, failed, loop>>

CloseClient(c) ==
    /\ serve[c].pc = "close"
    /\ Serving(c, "done", NoBatch)
    /\ conn' = [conn EXCEPT ![c] = "closed"]
    /\ stream' = [stream EXCEPT ![c] = <<>>]
    /\ UNCHANGED <<server, watcher, failed, loop, remotes>>

-----------------------------------------------------------------------------
\* Requests of the subscription that go to a remote: handleRequestRLocked

Best(S) == {x \in S : \A y \in S : x.priority <= y.priority}

\* A remote of the best priority is chosen and the server's lock released.
Choose(r) ==
    /\ request[r].pc = "idle"
    /\ \E x \in Best(mirror.listed) :
          request' = [request EXCEPT ![r] =
                         [pc |-> "open", remote |-> x, gone |-> FALSE]]
    /\ UNCHANGED <<mirror, dropped>>
    /\ UNCHANGED <<server, watcher, conn, stream, failed, loop, serve>>

\* The request was cancelled; or a stream is opened and the request served; or
\* that fails, because the connection has ended or takes no more streams.
OpenStream(r) ==
    /\ request[r].pc = "open"
    /\ \/ request' = [request EXCEPT ![r] = NoRequest]
       \/ request' = [request EXCEPT ![r].pc = "failed"]
    /\ UNCHANGED <<mirror, dropped>>
    /\ UNCHANGED <<server, watcher, conn, stream, failed, loop, serve>>

\* With the lock taken again the remote is removed.  A removed remote does
\* nothing more: its peer is nil.
ForceRemove(r) ==
    /\ request[r].pc = "failed"
    /\ LET t == request[r].remote.target
           m == IF request[r].gone THEN mirror ELSE RemoveRemotes(mirror, {t})
           lost == Range(mirror.remotes) \ Range(m.remotes)
       IN /\ mirror' = m
          /\ dropped' = dropped \cup {x.target : x \in lost}
          /\ request' = [q \in Request |->
                [request[q] EXCEPT !.gone = @ \/ request[q].remote \in lost,
                                   !.pc = IF q = r THEN "retry" ELSE @]]
    /\ UNCHANGED <<server, watcher, conn, stream, failed, loop, serve>>

Retry(r) ==
    /\ request[r].pc = "retry"
    /\ request' = [request EXCEPT ![r] = NoRequest]
    /\ UNCHANGED <<mirror, dropped>>
    /\ UNCHANGED <<server, watcher, conn, stream, failed, loop, serve>>

-----------------------------------------------------------------------------
Applications ==
    \E e \in Endpoint :
       \/ Unpublish(e)
       \/ \E n \in Name, p \in Priority, d \in Distance : Publish(e, n, p, d)

ConnectLoop ==
    \/ CheckFailed \/ Dial \/ DialFails \/ Sleep \/ AttachClient \/ ClientDone

Watch(c) == StreamServices(c) \/ SendChanges(c) \/ StopWatcher(c)

ServeClient(c) ==
    \/ AskChanges(c) \/ ReadChanges(c) \/ ProcessChanges(c) \/ DetachClient(c)
    \/ CloseClient(c)

Serve(r) == OpenStream(r) \/ ForceRemove(r) \/ Retry(r)

Next ==
    \/ Applications \/ Restart \/ ClosePeer
    \/ ConnectLoop \/ CloseOnFailure
    \/ \E c \in Conn : Break(c) \/ Watch(c) \/ ServeClient(c)
    \/ \E r \in Request : Choose(r) \/ Serve(r)

\* Goroutines that can run do run.  Nothing is assumed of applications, of the
\* network, or of how often dialling succeeds.
Fairness ==
    /\ WF_vars(ConnectLoop) /\ WF_vars(CloseOnFailure)
    /\ \A c \in Conn : WF_vars(Watch(c)) /\ WF_vars(ServeClient(c))
    /\ \A r \in Request : WF_vars(Serve(r))

Spec == Init /\ [][Next]_vars
FairSpec == Spec /\ Fairness

-----------------------------------------------------------------------------
ServiceRecord == [name : Name, priority : Priority, maxDistance : Distance]
Remote == [target : 1 .. MaxTarget, name : Name, priority : Priority,
           client : Conn]

IsBatch(b) ==
    /\ b.removed \subseteq 1 .. MaxTarget
    /\ DOMAIN b.changed \subseteq 1 .. MaxTarget
    /\ Range(b.changed) \subseteq ServiceRecord

TypeOK ==
    /\ lastTargetID \in 0 .. MaxTarget
    /\ DOMAIN pub \subseteq 1 .. lastTargetID
    /\ Range(pub) \subseteq [name : Name, priority : Priority]
    /\ DOMAIN endpoint \subseteq Endpoint
    /\ Range(endpoint) \subseteq [target : DOMAIN pub, distance : Distance]
    /\ \A c \in Conn :
          /\ watcher[c].state \in {"none", "asked", "open", "closed"}
          /\ conn[c] \in {"unused", "up", "closed"}
          /\ Len(stream[c]) <= StreamRoom
          /\ \A i \in DOMAIN stream[c] : IsBatch(stream[c][i])
          /\ serve[c].pc \in {"none", "start", "read", "got", "detach", "close",
                              "done"}
    /\ failed \in BOOLEAN
    /\ loop.pc \in {"top", "dial", "sleep", "attach", "wait", "done"}
    /\ loop.client \in Conn \cup {NoConn}
    /\ mirror.client \in Conn \cup {NoConn}
    /\ mirror.listed \subseteq Remote
    /\ \A r \in Request : request[r].remote \in Remote \cup {NoRemote}
    /\ dropped \subseteq 1 .. MaxTarget

\* However connections come and go, and whoever notices first that one ended,
\* the peer knows only remotes that the client it has now announced, each under
\* its own target id, and the subscription lists exactly those: a late batch of
\* an old connection never enters, detachClient leaves nothing behind, and no
\* request is sent to a remote of an earlier life of the server.
MirrorCurrent ==
    /\ \A t \in DOMAIN mirror.remotes :
          /\ mirror.remotes[t].client = mirror.client
          /\ mirror.remotes[t].target = t
    /\ mirror.listed = Range(mirror.remotes)

\* Publications the peer is near enough to reach.
Reachable == {t \in DOMAIN pub : Service(t).maxDistance >= PeerDistance}

\* What f knows of target t is what is published: nothing if the peer may not
\* reach it.
IsTrueOf(f, t) ==
    /\ t \in DOMAIN f <=> t \in Reachable
    /\ t \in Reachable => /\ f[t].name = pub[t].name
                          /\ f[t].priority = pub[t].priority

\* A remote that a request removed by force is missing until its publication
\* changes again.
Mirrored == \A t \in 1 .. MaxTarget : t \in dropped \/ IsTrueOf(mirror.remotes, t)

\* The peer has its client c, which hears of changes.
Connected(c) ==
    /\ c = mirror.client /\ ~failed
    /\ conn[c] = "up" /\ watcher[c].state = "open"

\* The batches the client has yet to process, and what would be sent next.
UnderWay(c) ==
    (IF serve[c].pc = "got" THEN <<serve[c].batch>> ELSE <<>>)
    \o stream[c]
    \o <<[removed |-> watcher[c].removed,
          changed |-> [t \in watcher[c].changed |-> Service(t)]]>>

Mentions(batch, t) == t \in batch.removed \cup DOMAIN batch.changed

\* The places in u of the batches that mention t.
Mentioned(u, t) == {i \in DOMAIN u : Mentions(u[i], t)}

\* No change is lost: as long as the connection lives, the last thing under way
\* that the peer will be told of a target is true, and of a target it will be
\* told nothing it knows the truth already, in whatever order publications came,
\* changed and went while batches were cut short (maxChangedServicesBatch) and
\* delayed.
NoChangeLost ==
    \A c \in Conn : Connected(c) =>
       LET u == UnderWay(c)
       IN \A t \in 1 .. MaxTarget :
             /\ Mentioned(u, t) = {} =>
                   t \in dropped \/ IsTrueOf(mirror.remotes, t)
             /\ \A i \in Mentioned(u, t) :
                   (\A j \in Mentioned(u, t) : j <= i)
                   => IsTrueOf(Near(u[i].changed), t)

\* "It is mandatory that something had been removed before returning this
\* status" (server.go, handleRequestStatusRetry): when a request could not open
\* a stream and is told to try again, the remote it used is removed, also when
\* the peer has another client by then.
RetryAfterRemoval ==
    \A r \in Request : request[r].pc = "retry" => request[r].gone

\* While the peer stays connected to a server whose applications do nothing
\* more, it comes to know exactly the publications it may reach.
Converges ==
    /\ <>[](mirror.client # NoConn /\ conn[mirror.client] = "up" /\ ~failed)
    /\ <>[][UNCHANGED server]_vars
    => <>[]Mirrored

\* Once the peer is closed its goroutines end, its remotes are removed and its
\* connections closed, at whatever point of connecting it was.
PeerEnds ==
    []<>(failed => /\ loop.pc = "done" /\ mirror = NoMirror
                   /\ \A c \in Conn :
                         conn[c] # "up" /\ serve[c].pc \in {"none", "done"})
=============================================================================
