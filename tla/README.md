# Formal model of copper

copper is a node that lets applications publish services and talk to each other over multiplexed
streams. This directory holds TLA+ models of its core, the TLC configurations that check them, and
TLAPS proofs. Source files are named relative to `src/`.

## The system

Two layers. The lower one is the raw protocol: a network connection carries frames of many streams.
The upper one is the server: it keeps the services that clients publish and routes incoming streams
to them.

| Part | State | Operations that change it |
| --- | --- | --- |
| Raw stream (`rawstream.go`) | flags, read and write error, read buffer and credit, write buffer, window and wired bytes, membership in the two outgoing queues, closed channels | Read, Discard, Write, Flush, Acknowledge, Close and its variants, deadlines; DATA, RESET and WINDOW frames; writeCtrl and writeData |
| Raw connection (`rawconn.go`) | failure, shutdown channel, read loop, write loop | NewStream, Close, Shutdown, frame handling, loop exit |
| Outgoing queues (`rawconn_outgoing.go`, `rawstream_queue.go`) | ctrl and data queue, ping queues, settings acks, error | addCtrl, addData, fail, addPing, writeFrames |
| Stream ids (`rawconn_streams.go`) | live streams, next id | allocate, add, remove, failLocked |
| Pings, settings (`rawconn_pings.go`, `rawconn_settings.go`) | callbacks per ping, window sizes | addPing, handleAck, fail, handleSettings |
| Publications (`server_pubs.go`) | endpoints, settings, ready set, queue of waiters | publish, unpublish, handleRequest |
| Subscriptions, routes (`server_subs.go`, `server_routes.go`) | options with local and remote candidates, active option, weighted cases | subscribe, unsubscribe, setRoute, notifications |
| Peers, service changes (`server_peers.go`, `server_changes.go`) | mirror of a remote server's services, sent/changed/removed sets | connect loop, processChanges, Read, Stop |
| Server clients (`server_client.go`, `server.go`) | per-client publications, subscriptions and watchers | the calls above, teardown |
| Passthru (`passthru.go`) | copy loops between two streams | copy, close propagation |
| Buffer, deadlines (`buffer.go`, `cond.go`) | ring buffer, timers | read, write, discard; setDeadline, Wait |
| RPC, client, handlers, HTTP, frames | no protocol state of their own | encoding and dispatch |

How they interact. Each connection has a read loop and a write loop, and applications call streams
from their own goroutines. `stream.mu` protects a stream, `conn.mu` the connection and
`outgoing.mu` the queues; writeCtrl, writeData and failLocked release a lock in the middle, and the
read loop looks a stream up under one lock and handles the frame under another. In the server,
requests hold `owner.mu` for reading and `pub.mu` for short sections, and give `owner.mu` back while
they wait or are served; publish and unpublish hold `owner.mu` for writing. A peer has a connect loop
and one reading goroutine per connection, which may outlive the connection, so that two of them can be
about when the peer reconnects.

What makes this hard: closing from both ends at once in two directions; EOF and RESET that race
with data; a window update that races with the last byte; lost wakeups and forgotten scheduling;
failures of the connection in the middle of everything; endpoints that disappear while they are
handed over. `PROJECT.json` lists each hazard at its line.

What correctness means: the bytes of a direction arrive in order and complete before a clean EOF; no
end ever causes a protocol error at the other; a stream that was removed prepares no further frame;
everybody who waits is woken up; streams are removed and connections end; an endpoint never gets
more requests than it asked for and no capacity is lost; a peer knows what the other server publishes
and nothing of its past; a subscription sends requests to the best there is.

## Modules

| Module | Models |
| --- | --- |
| `RawStream` | one end of a stream as a record, the methods of `rawStream` as operators |
| `RawConn` | two connections, the network between them and one stream; an action per critical section |
| `ByteStream` | abstract: what one direction of a stream promises |
| `Publication` | the life of one `serverPublication` |
| `StreamIDs` | `allocateLocked` and removal |
| `StreamQueue` | the ring of `rawStreamQueue` |
| `Multiplex` | what the streams of one connection share: ids, queues, pings, answers, failure; composes `StreamIDs` and `StreamQueue` |
| `RingBuffer` | the ring buffer of `buffer.go`, slot by slot |
| `Passthru` | one direction of a forwarded request, from the read buffer of one stream to the write buffer of another |
| `Discovery` | a `serverPeer` and the `serverServiceChangesStream`s of the server it watches |
| `Registry` | subscriptions, routes, publications and remotes of a server, and its clients |
| `MCRawConn`, `MCPublication`, `MCRegistry`, `MCMultiplex`, `MCPassthru` | constants for TLC |
| `RawConnProperties` | fairness and properties of a connection and its stream |
| `RawConnInvariant` | the inductive invariant of RawConn, what methods, frames and the write loop's steps preserve |
| `RawConnLocalProofs` | credit, channels, wakeups and scheduling of each end |
| `RawConnOrderProofs` | order, clean EOF and the steps of `ByteStream` |
| `RawConnProofs` | the read loop's steps, and the theorems about RawConn |
| `MultiplexProofs` | write loop, rings, answers, pings and ids, for any number of streams and pings |
| `PublicationProofs` | capacity, queue and retries, for any endpoints and requests |
| `DiscoveryProofs` | where the goroutines of Discovery are, nothing is lost, and what the peer knows is current, for any publications and connections |
| `PassthruProofs` | rings, slices, conservation of bytes and refinement of `ByteStream` by Passthru, for any sizes and number of bytes |

### RawStream and RawConn

A stream end is a record whose fields are those of `rawStream`, `rawStreamRead` and
`rawStreamWrite`. Bytes are their positions: `(rlo, rhi]` is the read buffer, `(wlo, whi]` the write
buffer, a payload is `(pos, pos+len]`. So a byte that is lost, repeated or misplaced shows as a
position that does not fit. Closed channels are counted, because closing twice panics. A goroutine
that is parked on a condition variable is a flag that Broadcast clears, and a woken goroutine tries
again. `got` and `sent` are history counters.

In RawConn, `st[x]` is the end of the stream at side `x`, `conn[x]` its connection and `net[x]` the
frames under way from `x`, which TCP keeps in order. `wpc` says where the write loop stands. Each
time the code releases a lock there is a point where the other goroutines may run: `ctrl` and `data`
(the stream was taken off its queue and is not locked yet), `loop` (a control frame is written),
`ctrlWrite` and `dataWrite` (a payload is written and its bytes are still wired). `rpc = "proc"` is
the point between looking a stream up and locking it, and `refuse` the point between making a stream
during shutdown and closing it. `marks` has `closing` while failLocked has yet to close the stream.
A frame is in `net` from the moment the lock is released for the write, and `writing[x]` says that its
last frame is still being written: the read loop and the applications may change the stream meanwhile, and
the other end cannot read it before `WriteFrame`. Only the write loop writes, so the order is that of
the code. A RESET of stream 0 is handled in two steps, as in `processResetFrame` and `processFrame`: the
write loop is told with `outgoing.fail` (`rpc = "told"`), and then the connection fails.

`WireErr` is the conversion of errors in `WriteReset`: a protocol error is a `copperError` value,
whose `ErrorCode` method is defined on the pointer, so that it goes over the wire as EINTERNAL.

The client opens the stream. Each side may make the calls its `Calls` lists, write up to `MaxBytes`
and close with any of `CloseErrs`; `Faults` allows a local close of a connection, a Shutdown of the
accepting side and a broken network. `CloseNetwork` may come at any time after the write loop
returned, which covers the grace period of 250 ms and its early end.

### Publication

The twelve actions are the critical sections of `handleRequestRLocked`, `publishLocked` and
`unpublishLocked`. `chan[r]` is what the waiter's channel holds: empty, an endpoint, or nil when it
was closed. `CanRLock` and `CanLock` say when `owner.mu` can be had; only a request between missing
an endpoint and queueing, or between two attempts, holds it across a step. Settings are added modulo
`Modulus`, as uint32. A publication that loses its last endpoint is forgotten by the server, and
requests that still know it find no route. Telling watchers and subscriptions is in Discovery and
Registry.

### StreamIDs, StreamQueue and Multiplex

One step of StreamIDs is one turn of the loop in `allocateLocked`. `MaxStreamID` is any odd number of
at least 3. StreamQueue keeps the slots of the ring, because its growth while it wraps around is what
can go wrong.

Multiplex is one end of a connection. `out` is `rawConnOutgoing`, `loop` where `writeFrames` and the
write loop stand, `reader` the read loop, `pings` the map of callbacks. A stream is its number; what
RawStream says of it is reduced to that it may ask for the write loop at any time while it is open, and
leaves the map when it is fully closed. The other end is reduced to what this end can see of it: it
pings, it sends SETTINGS, and it answers the pings it got in their order. A keep-alive wakes the
write loop when nothing was written for a while. When the error of the other end arrives, `outgoing.fail` and
the `closeWithError` that follows are two steps (`ArriveConnError`, `ReadFail`): a call of Ping in between is
registered and not queued. `failLocked` closes the streams one at a time while
the read loop goes on, which allows a little more than the locks of the code do; the flush of the buffered
writer goes with the writes. `load` is chosen in `Init` and bounds what may happen, so that one run
covers several mixes of streams, pings, answers and failures that would be too many together.

### RingBuffer and Passthru

RawStream abstracts a buffer to an interval of positions. RingBuffer keeps its memory, because `peek`
hands out a slice that is used after the lock is released. `Put` writes to the slots after the data,
`Contiguous` is what peek does to data that wraps around, and `Reallocate` moves the data to new memory and
leaves the old slice to whoever holds it.

Passthru is `passthru` for one direction: the copy loop with its peek, write and discard, the goroutine
that waits for dst's write side to be closed, and the one that waits for src's acknowledgement. The
write loop of dst's connection peeks at the same ring that the copy loop writes to. Frames are on no
wire and credit comes back at once: what happens on the way is the subject of RawConn. Bytes are compared
when the slice is read, so that a byte overwritten in between shows. The connection of either stream may
end with an error or with io.EOF; the latter closes its streams with ECLOSED, and `sender = "cut"` remembers that
the sender did not close the stream. `waitack` is false in every call and its branch is left out.

### Discovery

Two servers. Of the watched one there are its publications (`pub`, `endpoint`), and for every connection
the `sent`, `removed` and `changed` sets of its change stream (`watcher`). `Read` and the write of the
answer are one step, `SendChanges`, which takes any batch of the right size because Go iterates over a map
in any order. `stream[c]` holds the batches between that write and `stream.Read`, the buffer of the client's
reader included. `Restart` is a close of the watched server and the start of a new one: target ids start
over. Of the watching server there is one peer: `loop` is connectloop, `serve[c]` the goroutine of
connection `c`, `mirror` has `peer.client`, `remotesByTarget` and the list of a subscription that accepts
all of the peer's remotes. `conn[c]` is closed by either end, or by the network, at any time. `request[r]`
follows `handleRequestRLocked` of a remote through the moment where it has given the lock back. `gone`
stands for `remote.peer == nil`; it is kept with the request, since only who holds a removed remote can
see it. `dropped` is a history variable: a remote that was removed by force is not announced again until
its publication changes, which `NoChangeLost` takes into account.

### Registry

`reg` is everything under `server.mu` that subscriptions depend on. A route, publication or remote is a
record, and `reg.refs` maps those that are registered to their `subscriptions` sets. Every operation holds
`server.mu` to its end, so that it is one action, built from operators with the names of the methods:
`Register` and `Withdraw` tell subscriptions, `SubAdd` and `SubRemove` change their options and caches,
`SubscribeLocked` and `UnsubscribeLocked` fill and clear them. `HandleRequest`, `GetEndpoints` and
`FindEndpoint` are what the read-only methods may return; `Expected`, `BestOf` and `FirstBest` define the
right answer from the registered services alone. A client has at most one endpoint here, and calls that are
refused (no permission to change, no such target) change nothing and are left out.

`RegistryParameters` assumes that every route has an option. This is a precondition of `setRouteLocked` that the
code does not establish: `rpcProtoToRoutes` (`rpc_conv.go`, 74 to 83) converts a route without options as it is,
`subscribeLocked` refuses it, and `setRouteLocked` panics on that error (`server_routes.go`, 112 to 114), which
ends the server. What the Registry run shows holds for requests that respect the precondition.

## Runs

All sizes are small, and the boundaries are where the interesting cases are: a window of 1 or 2 bytes
is exhausted by every exchange, a write buffer of the same size blocks the writer, and payloads of 1
byte split what is buffered.

| Run | Bounds | What it shows |
| --- | --- | --- |
| `upload` | window and buffer 2, payload 1, 3 bytes | credit, order, scheduling and wakeups while the client writes, flushes, closes and times out and the server reads, acknowledges and times out; with a reader that keeps reading everything arrives and no writer stays blocked |
| `closing` | sizes 1, 1 byte, two close errors, shutdown; the client writes and calls Close, the server CloseRead and CloseWrite | the two ends close against each other, one both directions at once and the other one by one: no protocol error, EOF only after all bytes, control frames scheduled, channels closed once, nothing prepared after removal, and both directions implement `ByteStream`. Other pairs of calls (Close against Close, CloseRead of the client) are left to `upload`, `faults`, `shutdown` and the proofs |
| `faults` | sizes 1, 1 byte, close and break of connections | under fairness a stream closed at both ends is removed at both, a failure reaches every stream and both loops return |
| `publication` | 3 endpoints with different settings, 3 requests, uint32 modulo 4 | every unit of concurrency is accounted for, waiters are queued once, retries follow removals, settings add up; the third endpoint is refused while the other two are there because the sums wrap around |
| `multiplex` | ids up to 3, 2 pings with the same data; loads: 3 streams; 2 streams and a failure; 1 stream, 2 pings, 1 incoming ping and a failure; 2 pings, 2 incoming, 1 SETTINGS and a failure | no work is forgotten, `writeready` and the queue flags agree with the queues, the two rings are first-in first-out queues, every PING and SETTINGS is answered once, every callback runs once, ids keep their parity; under fairness pings complete, no stream starves, and a failure closes every stream |
| `reconnect` | 1 endpoint, 1 target id, 2 connections, 1 request, batches of 2 | remotes are those of the present connection; none is lost; a retry finds its remote removed; under fairness the peer converges while connected, and ends when closed |
| `registry` | 2 names, 2 clients, priorities 0 and the largest, distances 0 to 2, 2 remotes, 3 subscriptions | references, teardown, choice of endpoint and weights |
| `passthru` | window 3, write buffer 2, payload 2; loads: 6 bytes; 3 bytes and a receiver that closes; 2 bytes with acknowledgement and errors | two joined streams implement one `ByteStream`, memory is bounded, acknowledgements and errors are passed on; under fairness everything is delivered and all three goroutines return |
| `shutdown`, `publication_queue`, `stream_id_range`, `cut_source` | | disagreements, see below |

Two ends with one stream are enough for what the RawConn runs say, because streams share nothing but what
is in Multiplex. One byte in the closing and fault runs separates an empty buffer, a buffered byte, a wired
byte and a byte on the network. Requests are symmetric in `publication`. Three streams in `multiplex` make
the ring grow from 2 to 4 slots while it wraps around, and exhaust the two ids there are; two pings with the same
data share an entry of the callback map. Six bytes in `passthru` let both rings wrap around, move and grow. A
restarted server reuses target id 1 at once in `reconnect`, with another priority; several publications, and
batches that leave changes over, are too many states together with reconnects and liveness, and are covered by the
proof of `NoChangeLost`, which holds for any of them. Three
subscriptions in `registry` are a client's and the two cases of a route, or two clients' and a case; clients
are symmetric. Deadlock is not checked where an exchange may simply be over.

Fairness. `FairSpec` says that a read loop, a write loop or a failLocked that can go on does, as the
Go scheduler guarantees for runnable goroutines; applications need not do anything. `ReaderSpec`
adds that applications keep reading, without which flow control rightly stops the writer. In
Publication, requests that can go on do, and an endpoint finishes what it serves. In Multiplex, the
goroutines of this end run and the other end answers pings; nothing is assumed of applications. In
Passthru, the three goroutines and the write loop run, and the receiver reads. In Discovery, connectloop,
the reading goroutines, the goroutine that closes the client, the handlers of change requests and failed
requests go on; nothing is assumed of applications, the network or the outcome of dialling. `Converges`
supposes that the peer stays connected and the applications of the watched server come to rest, without
which there is nothing to converge to.

### Where the code disagrees with its documentation or tests

* `publication_queue`: taking an endpoint and joining the queue are separate critical sections
  (`server_pubs.go`, 157 and 163). A release in between puts the endpoint back into the ready set, and
  the request then waits although nobody will hand it over. TestSubscribeQueueWorks expects the
  queued request to be served.
* `shutdown`: a stream refused during Shutdown does not process its opening frame (`rawconn.go`, 258
  to 263). If that frame carries EOF, the stream is never removed before the connection ends.
* `stream_id_range`: after ErrNoFreeStreamID, `next` stays beyond MaxStreamID and the following
  allocation returns it (`rawconn_streams.go`, 58 to 60).
* `cut_source`: when the connection of src ends with io.EOF, `failLocked` closes its streams with it and
  `closeWithErrorLocked` turns it into ECLOSED (`rawstream.go`, 554 to 556), which `errors.go`, 26 says is for a
  stream that was closed normally. passthru forwards it with `CloseWriteWithError` (`passthru.go`, 60), and the
  receiver is told EOF after whatever had arrived. `ProxyIsByteStream` therefore counts such a sender as
  one that closed, and `EOFMeansClosed` is what fails.

Also seen while reading, not checked by a run: `writeCtrl` decides on a WINDOW or RESET with `stream.mu` held and
writes it after releasing the lock (`rawstream.go`, 354 to 391). If the stream has sent its EOF and the EOF of
the other end removes it in between, the frame is written for a stream that is fully closed, for which
`doc/PROTOCOL.md`, 155 says "MUST NOT send additional frames". `RemovedIsQuiet` allows exactly the frame that is being
written; the other end ignores it unless the id is in use again. Furthermore, nothing closes the channel that `Server.Closed` returns
(`server.go`, 125 and 450), which `interface.go`, 165 says is closed when the server is; `SettingsFrame.Value`
(`frame.go`, 453) never returns `ok = true`, so settings have no effect; a `Wait` whose timer has expired and
was not replaced by `setDeadline` parks once more before it reports the timeout (`cond.go`, 62 to 75); the
reader of a change stream (`rpc_client.go`, 247) stays blocked when its results are no longer read.

## Proofs

The proofs hold for every value of the constants; for RawConn these are the window, buffer and payload
sizes, the number of bytes, the calls, close errors and faults. The assumptions are the `ASSUME`s of the
modules (`SizesArePositive`, `RawConnParameters`, `StreamIDParameters`, `LoadsAssumption`,
`PublicationParameters`, `DiscoveryParameters`, `PassthruSizes`), which give the constants their types and the sizes their lower bounds.

### RawConn

* `TypeCorrect`: `Spec => []TypeOK`; in particular the window counters stay natural numbers.
* `ProtocolRespected`: `Spec => []NoProtocolError`; no DATA frame is ever refused.
* `QuietOnceRemoved`: `Spec => RemovedIsQuiet`; a removed stream prepares nothing, and a DATA frame that was
  being written when it was removed is the one with its EOF. This needs `HeldInv` in addition, about the frame that is
  being written: it is the last one in `net`, and if it is DATA without EOF, its end has not sent EOF yet and so
  cannot have been removed.

They follow from `Invariance`, `Spec => []Inv`. `NoProtocolError` is not inductive: that a DATA frame
fits the window depends on every frame under way in both directions. `Inv` has four parts.

1. `EndsTypeOK`, which is `TypeOK` but for `writing`; `HeldInv` adds that.
2. `EndOK`, each end by itself: the write buffer starts right after the bytes already sent unless a
   RESET cleared it; bytes are wired only during a payload write; an end that sent EOF has nothing
   pending; nothing is owed on a read side that has ended; an end that was never made is untouched.
3. `ChannelOK`, the frames under way from one end against both ends: payloads are disjoint, in order and
   lie between what the receiver got and the sender sent; window grants likewise between what the one
   end was credited and the other granted; nothing of type DATA follows an end of the stream; a
   connection error is the last frame. Since positions bound sums, no induction over the channel
   is needed to conclude that a payload fits the window.
4. `OpenOK`: the OPEN frame is the client's first frame and is there until the server made its
   end, so that DATA never meets an unknown or reopened stream.

`RawConnInvariant` first shows what each method of a stream preserves. Then `ChannelAppend` and `ChannelTail`
say what sending and handling a frame does to a channel, and `StepInv` and `LocalStep` what is left to show of
a step. One lemma per action (or group of like actions) shows that the invariant is preserved: those of the
write loop are there, those of the read loop in `RawConnProofs`, where `NextInv` puts them together. The
proof is in several modules because `tlapm` gets slower with every obligation of a module.

`RawConnLocalProofs` adds two invariants about each end by itself.

* `LocalInv` gives `CreditIsConserved`, `NoSecondClose` and `WakeupsAreNotLost`. Most methods leave what it
  talks about alone (`Alike`), so that only discarding, closing, EOF, RESET and the waits need an argument.
* `ScheduledInv` gives `DataIsScheduled` and `CtrlIsScheduled`. `Enqueues` relates a stream before and after a
  method: whatever there is to send afterwards was to be sent before, or the stream is now in its queue. The
  write loop, which takes streams off their queues, is shown to queue them again or to have nothing left.

`RawConnOrderProofs` adds `FlowInv`, about the bytes of a direction. `ChannelOK` says that payloads are
ordered; `Chain` says that they have no gap: each begins where the one before it ended, the first where the
receiver stopped and the last ends where the sender stopped. This can only hold while the receiver accepts
data (`Tracking`). A frame that ends a stream cleanly (`CleanEnd`) comes from an end that was closed with
ECLOSED and has sent everything. Steps that change neither the positions nor the channel are `Quiet`. From it
follow `BytesInOrder`, `EOFIsClean` and `StreamIsByteStream`: `Spec => ImplementsByteStream`. For the
latter, `DirectionStep` shows that every step is a step of `ByteStream` or a stutter in each direction.

### Multiplex, StreamQueue and StreamIDs

`WorkIsNotForgotten` proves `NoWorkForgotten` for any number of streams, pings and answers. `Calls` says that
each method of `rawConnOutgoing` sets `writeready` when it adds something, and `TurnKeeps` that a turn of
`writeFrames` which leaves something to write has the loop go on.

`ConnectionScansIDs`, `Spec => IDSpec`, is the composition: to the ids every step of a connection is one of
StreamIDs or a stutter. With `IDInv` (ids and `next` have the parity of their side and are at most
`MaxStreamID + 2`) this gives `IDsAreOwn` and `IDsAreNear` for every odd `MaxStreamID`, through any number of
wraparounds. `stream_id_range` shows that the bound of `IDsAreNear` is reached.

The rest follows from `ConnInv`.

* `QueueInv`, from which `FlagsAreRight` and `NoStreamOvertakes`: the slots of a ring that are in use hold
  different streams, exactly those whose flag is set. `PushOK` and `TakeOK` say what the two methods do to the
  sequence of streams in a ring. A ring grows to `MinPow2`, the least power of two that has room, so its
  existence must be shown: `Pow2Exists`, by the least number for which there is none. `NoStreamOvertakes` is an
  action property: a step takes the oldest stream, adds one behind the others, or leaves the queue as it is.
* `AnswerInv` and `PingInv`, from which `AnswersAreConserved`: until `outgoing.fail` tells the write loop to stop, of
  each datum there are as many callbacks as pings
  queued, in the batch of the write loop, on the wire or answered. That no callback is called twice needs both
  the count and the order in which callbacks of the same datum were added.
* `StreamInv`, from which `TypeCorrect` and `IDsAreUnique`: the map has the streams that did not leave it, under
  ids that are all different, also when a wrapped counter passes ids that are still in use.

### Publication

`PubInvariance` proves `PubInv`, from which `CapacityIsExact`, `WaitersAreQueuedOnce` and `RetriesFollowRemovals`
follow. None of these is inductive alone: that a release may lower `active` needs that `active` counts the
requests which hold the endpoint, those included whose channel has it already (`CapacityOK`); that these are
counted once needs to know who is in the queue and whose channel is full (`PlaceOK`, `QueueOK`); and that a
retry follows a removal needs that a request never has an endpoint that was gone before it began (`AgeOK`).
`ReleaseStep` covers the three places where an endpoint is given back.

### Discovery

`Places` proves `PlaceInv`: what each goroutine may be doing given what the others do. The peer has a client only
while connectloop waits for it and has no remotes without one, so that a new client finds nothing of an old
one, although the goroutine of the old one may still hold a batch. From it follow `TypeCorrect`,
`MirrorIsCurrentAlways` and `RetriesFollowRemovals`.

`NothingIsLost` needs in addition `ToldInv` (`WordsAddUp`), which says of every connection and target that three
records of it fit: what the change stream has noted as sent, removed and changed; the last batch under way that
mentions it (`LastWord`), be it on the stream or in the hands of the reading goroutine; and what the peer knows. A
target that is not in `sent` was last announced as removed or never, which is why `removed` need not have it. The
cases are who mentions the target last: nobody, the goroutine, or a batch on the stream. That there is a last one
is shown by induction, as for `Pow2Exists`.

### Passthru and RingBuffer

`PassInvariance` proves `PassInv`, from which `BytesAreConserved`, `AckIsForwarded`, `ReturnsClosed` and
`ProxyRefines` follow. The bytes that arrived are cut in four: what the receiver got, the write buffer of dst, what
the copy loop has yet to write of its slice, and the rest of the read buffer of src. Each is a run of successive
positions, and `PassInv` says where each begins.

* The rings: `Holds(b, lo)` says that a buffer has the bytes from position `lo` on, slot by slot. There is a lemma
  for each operation of RingBuffer: what writing, discarding, rotating (`Contiguous`) and growing do to the slots.
  As in MultiplexProofs, that memory of a sufficient size exists is `Pow2Exists`.
* The slices: a slice is a view of memory. `SliceOK` says that it is the old memory, which nobody writes any more, or
  that of the buffer with the data still in front, so that what is read is what was peeked. It has to survive the
  writes of the other goroutine between peek and use: `SliceKept` when the buffer is written or moved, `SliceTaken`
  when it is discarded.
* `SrcInv` and `SinkInv`: credit and bytes add up on both sides. The credit for a byte is given back when dst has taken
  it, which bounds what the server buffers.
* `CopyInv` and `EndInv`: which errors the goroutines may have seen. While the receiver is not broken, dst is closed
  only by the copy loop, after all of src and its acknowledgement were passed on; without this an EOF could overtake
  data. The sender has closed, or was cut off by io.EOF, exactly if src has EOF or ECLOSED.

For `ProxyRefines` every step is shown to be a step of `ByteStream` or a stutter, where the writer is closed if the
sender is closed or cut off.

### Only model-checked

Liveness under fairness, which is out of the prover's reach. Registry: its operations fold over sets of
subscriptions, and what a fold computes is defined by recursion, of which the provers prove nothing.
`SettingsCumulative` of Publication, which is a sum over a set of endpoints, again a fold. Induction itself is
available for facts about numbers in the form of a least counterexample (`LeastNumber`).

## Not modelled

Byte encodings, logging, HTTP, RPC message conversion, generated code, command line tools and the
Python client have no protocol state. `read`, `readbyte` and `writebyte` of `buffer.go` serve Read,
ReadByte and WriteByte, where RawStream has a buffer as an interval; RingBuffer has the operations that
Passthru uses. Deadlines expire at any time; moving
one while a call waits is not modelled. Settings have no effect to model. The components of `PROJECT.json`
say for each part what is left out and why.

## Plan

1. Deadlines with their timers, and a `setDeadline` while calls wait.
2. The reader goroutine of a change stream as a process of its own in Discovery.
3. Both directions of Passthru, composed with RawConn on either side.
4. Proofs: `ReferencesExact` of Registry, for which the folds over subscriptions would have to become
   functions of one subscription.
