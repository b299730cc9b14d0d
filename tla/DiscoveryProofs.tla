--------------------------- MODULE DiscoveryProofs ---------------------------
(***************************************************************************)
(* What a peer knows is current and complete, for any number of endpoints, *)
(* publications, connections and requests, any batch size and any room on  *)
(* the streams.                                                            *)
(*                                                                         *)
(* First, where the goroutines are and what they know of each other: the   *)
(* peer has a client only while connectloop waits for it, and has no       *)
(* remotes without one; so a new client finds nothing of an old one.       *)
(*                                                                         *)
(* To know that nothing is lost takes more: the changes stream remembers   *)
(* in sent what it told the other side.  Of a target that is not there,    *)
(* the last word was that it is gone, so that its removal need not be      *)
(* told.                                                                   *)
(***************************************************************************)
EXTENDS Discovery, WellFoundedInduction, TLAPS

Target == 1 .. MaxTarget
ChangesOf == UNION {[T -> ServiceRecord] : T \in SUBSET Target}
Batches == [removed : SUBSET Target, changed : ChangesOf]

ServerOK ==
    /\ lastTargetID \in 0 .. MaxTarget
    /\ pub \in [DOMAIN pub -> [name : Name, priority : Priority]]
    /\ DOMAIN pub \subseteq 1 .. lastTargetID
    /\ endpoint \in [DOMAIN endpoint -> [target : DOMAIN pub, distance : Distance]]
    /\ DOMAIN endpoint \subseteq Endpoint
    /\ \A t \in DOMAIN pub : EndpointsOf(t) # {}

Watcher == [state : {"none", "asked", "open", "closed"},
            sent : SUBSET Target, removed : SUBSET Target,
            changed : SUBSET Target]

WatcherOK ==
    /\ watcher \in [Conn -> Watcher]
    /\ \A c \in Conn : /\ watcher[c].changed \subseteq DOMAIN pub
                       /\ watcher[c].state # "open" =>
                             watcher[c].changed = {} /\ watcher[c].removed = {}

StreamOK ==
    /\ stream \in [Conn -> Seq(Batches)]
    /\ \A c \in Conn : Len(stream[c]) <= StreamRoom

\* Where the goroutines of the peer stand, one by one and together.
PeerOK ==
    /\ conn \in [Conn -> {"unused", "up", "closed"}]
    /\ failed \in BOOLEAN
    /\ loop \in [pc : {"top", "dial", "sleep", "attach", "wait", "done"},
                 client : Conn \cup {NoConn}]
    /\ DOMAIN serve = Conn
    /\ \A c \in Conn :
          /\ DOMAIN serve[c] = {"pc", "batch"}
          /\ serve[c].pc \in {"none", "start", "read", "got", "detach", "close",
                              "done"}
          /\ serve[c].pc = "got" => serve[c].batch \in Batches
          /\ conn[c] = "unused" => serve[c].pc = "none"
          /\ serve[c].pc \in {"none", "start"} => watcher[c].state = "none"
          /\ watcher[c].state \in {"none", "asked"} =>
                stream[c] = <<>> /\ serve[c].pc # "got"
    /\ loop.pc \in {"attach", "wait"} =>
          loop.client \in Conn /\ conn[loop.client] # "unused"
    /\ loop.pc = "attach" => serve[loop.client].pc = "none"

MirrorOK ==
    /\ DOMAIN mirror = {"client", "remotes", "listed"}
    /\ mirror.client \in Conn \cup {NoConn}
    /\ mirror.remotes \in [DOMAIN mirror.remotes -> Remote]
    /\ DOMAIN mirror.remotes \subseteq Target
    /\ dropped \subseteq Target
    /\ mirror.client # NoConn => loop.pc = "wait" /\ loop.client = mirror.client
    /\ mirror.client = NoConn => DOMAIN mirror.remotes = {}
    /\ \A c \in Conn :
          mirror.client = c /\ watcher[c].state \in {"none", "asked"} =>
             DOMAIN mirror.remotes = {}
    /\ MirrorCurrent

\* A request that may still use its remote knows whether it is there.
RequestOK ==
    /\ request \in [Request -> [pc : {"idle", "open", "failed", "retry"},
                                remote : Remote \cup {NoRemote},
                                gone : BOOLEAN]]
    /\ \A r \in Request :
          /\ request[r].pc \in {"open", "failed"} /\ ~request[r].gone =>
                request[r].remote \in Range(mirror.remotes)
          /\ request[r].pc = "retry" => request[r].gone

PlaceInv == ServerOK /\ WatcherOK /\ StreamOK /\ PeerOK /\ MirrorOK /\ RequestOK

-----------------------------------------------------------------------------
\* Distances

Less == {p \in Nat \X Nat : p[1] < p[2]}

\* A set of natural numbers has a least element.
LEMMA LeastNumber ==
    ASSUME NEW T, T \subseteq Nat, T # {}
    PROVE  \E x \in T : \A y \in T : x <= y
<1>1. IsWellFoundedOn(OpToRel(<, Nat), Nat)
  BY NatLessThanWellFounded
<1>2. Less = OpToRel(<, Nat)
  BY DEF Less, OpToRel
<1>3. \E x \in T : \A y \in T : ~(<<y, x>> \in Less)
  BY <1>1, <1>2, WFMin
<1>4. PICK x \in T : \A y \in T : ~(<<y, x>> \in Less)
  BY <1>3
<1>5. ASSUME NEW y \in T PROVE x <= y
  <2>1. <<y, x>> \in Nat \X Nat /\ <<y, x>>[1] = y /\ <<y, x>>[2] = x
    BY <1>4
  <2>2. ~(y < x)
    BY <1>4, <2>1 DEF Less
  <2> QED BY <2>2
<1> QED BY <1>4, <1>5

\* Max finds the largest of some distances.
LEMMA MaxDistanceOK ==
    ASSUME NEW D \in SUBSET Distance, D # {}
    PROVE  Max(D) \in D
<1>1. PICK b \in Distance : \A d \in Distance : d <= b
  BY DiscoveryParameters
<1> DEFINE Below == {n \in Nat : \E d \in D : n = b - d}
<1>2. b \in Nat /\ \A d \in D : d \in Nat /\ d <= b
  BY <1>1, DiscoveryParameters
<1>3. \A d \in D : b - d \in Below
  BY <1>2
<1>4. Below \subseteq Nat /\ Below # {}
  BY <1>3
<1>5. PICK n \in Below : \A m \in Below : n <= m
  <2> HIDE DEF Below
  <2> QED BY <1>4, LeastNumber, ZenonT(30)
<1>6. PICK d \in D : n = b - d
  BY <1>5
<1>7. \A e \in D : b - d <= b - e
  BY <1>3, <1>5, <1>6
<1>8. \A e \in D : d >= e
  BY <1>2, <1>6, <1>7
<1> QED BY <1>6, <1>8 DEF Max

\* What is said of a publication has its type.
LEMMA ServiceOK ==
    ASSUME ServerOK, NEW t \in DOMAIN pub
    PROVE  Service(t) \in ServiceRecord
<1> DEFINE D == {endpoint[e].distance : e \in EndpointsOf(t)}
<1>1. D \in SUBSET Distance /\ D # {}
  BY DEF ServerOK, EndpointsOf
<1>2. Max(D) \in Distance
  <2> HIDE DEF D
  <2> QED BY <1>1, MaxDistanceOK
<1>3. pub[t].name \in Name /\ pub[t].priority \in Priority
  BY DEF ServerOK
<1> HIDE DEF D
<1>4. Service(t) = [name |-> pub[t].name, priority |-> pub[t].priority,
                    maxDistance |-> Max(D)]
  BY DEF Service, D
<1> QED BY <1>2, <1>3, <1>4 DEF ServiceRecord

-----------------------------------------------------------------------------
\* The remotes of the peer

\* The remotes are those of the client, and listed.
Current(m) ==
    /\ DOMAIN m = {"client", "remotes", "listed"}
    /\ m.remotes = [t \in DOMAIN m.remotes |-> m.remotes[t]]
    /\ \A t \in DOMAIN m.remotes :
          m.remotes[t].client = m.client /\ m.remotes[t].target = t
    /\ m.listed = Range(m.remotes)

\* removeLocked
LEMMA RemoveOK ==
    ASSUME NEW m, Current(m), NEW T
    PROVE  LET n == RemoveRemotes(m, T)
           IN /\ Current(n) /\ n.client = m.client
              /\ DOMAIN n.remotes = DOMAIN m.remotes \ T
              /\ \A t \in DOMAIN n.remotes : n.remotes[t] = m.remotes[t]
<1> DEFINE n == RemoveRemotes(m, T)
           gone == {t \in T \cap DOMAIN m.remotes : m.remotes[t].client = m.client}
<1>1. gone = T \cap DOMAIN m.remotes
  BY DEF Current
<1>2. /\ DOMAIN n = DOMAIN m /\ n.client = m.client
      /\ n.remotes = Restrict(m.remotes, DOMAIN m.remotes \ gone)
      /\ n.listed = m.listed \ {m.remotes[t] : t \in gone}
  BY DEF RemoveRemotes, Current
<1> HIDE DEF n, gone
<1>3. /\ n.remotes = [t \in DOMAIN n.remotes |-> n.remotes[t]]
      /\ DOMAIN n.remotes = DOMAIN m.remotes \ T
      /\ \A t \in DOMAIN n.remotes : n.remotes[t] = m.remotes[t]
  BY <1>1, <1>2 DEF Restrict
<1>4. \A s, t \in DOMAIN m.remotes : m.remotes[s] = m.remotes[t] => s = t
  BY DEF Current
<1>5. n.listed = Range(n.remotes)
  <2>1. m.listed = {m.remotes[t] : t \in DOMAIN m.remotes}
    BY DEF Current, Range
  <2>2. n.listed = {m.remotes[t] : t \in DOMAIN m.remotes \ T}
    BY <1>1, <1>2, <1>4, <2>1
  <2> QED BY <1>3, <2>2 DEF Range
<1>6. Current(n)
  BY <1>2, <1>3, <1>5, Zenon DEF Current
<1> QED BY <1>2, <1>3, <1>6 DEF n

\* addRemoteLocked for all changes of a batch
LEMMA AddOK ==
    ASSUME NEW m, Current(m), NEW changed
    PROVE  LET n == AddRemotes(m, changed)
               near == Near(changed)
           IN /\ Current(n) /\ n.client = m.client
              /\ DOMAIN n.remotes = (DOMAIN m.remotes \ DOMAIN changed)
                                    \cup DOMAIN near
              /\ \A t \in DOMAIN m.remotes \ DOMAIN changed :
                    n.remotes[t] = m.remotes[t]
              /\ \A t \in DOMAIN near :
                    /\ n.remotes[t].name = near[t].name
                    /\ n.remotes[t].priority = near[t].priority
                    /\ \/ t \in DOMAIN m.remotes /\ n.remotes[t] = m.remotes[t]
                       \/ n.remotes[t] = [target |-> t, name |-> near[t].name,
                                          priority |-> near[t].priority,
                                          client |-> m.client]
<1> DEFINE n == AddRemotes(m, changed)
           near == Near(changed)
           same == {t \in DOMAIN near \cap DOMAIN m.remotes :
                       /\ m.remotes[t].name = near[t].name
                       /\ m.remotes[t].priority = near[t].priority}
           cut  == RemoveRemotes(m, DOMAIN changed \ same)
           new  == [t \in DOMAIN near \ same |->
                       [target |-> t, name |-> near[t].name,
                        priority |-> near[t].priority, client |-> m.client]]
<1>1. DOMAIN near \subseteq DOMAIN changed
  BY ZenonT(30) DEF Near, Restrict
<1>2. /\ Current(cut) /\ cut.client = m.client
      /\ DOMAIN cut.remotes = DOMAIN m.remotes \ (DOMAIN changed \ same)
      /\ \A t \in DOMAIN cut.remotes : cut.remotes[t] = m.remotes[t]
  BY RemoveOK
<1>3. n = [cut EXCEPT !.remotes = Over(new, @), !.listed = @ \cup Range(new)]
  BY DEF AddRemotes
<1>4. /\ same \subseteq DOMAIN near /\ same \subseteq DOMAIN m.remotes
      /\ \A t \in same : /\ m.remotes[t].name = near[t].name
                         /\ m.remotes[t].priority = near[t].priority
  BY ZenonT(30)
<1>5. /\ DOMAIN new = DOMAIN near \ same
      /\ \A t \in DOMAIN new :
            /\ new[t].target = t /\ new[t].client = m.client
            /\ new[t].name = near[t].name /\ new[t].priority = near[t].priority
            /\ new[t] = [target |-> t, name |-> near[t].name,
                         priority |-> near[t].priority, client |-> m.client]
  OBVIOUS
<1> HIDE DEF n, near, same, cut, new
<1>6. /\ DOMAIN n = DOMAIN cut /\ n.client = m.client
      /\ n.remotes = Over(new, cut.remotes)
      /\ n.listed = cut.listed \cup Range(new)
  BY <1>2, <1>3 DEF Current
<1>7. /\ n.remotes = [t \in DOMAIN n.remotes |-> n.remotes[t]]
      /\ DOMAIN n.remotes = DOMAIN new \cup DOMAIN cut.remotes
      /\ \A t \in DOMAIN new : n.remotes[t] = new[t]
      /\ \A t \in DOMAIN cut.remotes \ DOMAIN new : n.remotes[t] = m.remotes[t]
  BY <1>2, <1>6 DEF Over
<1>8. DOMAIN new \cap DOMAIN cut.remotes = {}
  BY <1>1, <1>2, <1>5
<1>9. n.listed = Range(n.remotes)
  BY <1>2, <1>6, <1>7, <1>8 DEF Current, Range
<1>10. Current(n)
  BY <1>2, <1>5, <1>6, <1>7, <1>9 DEF Current
<1>11. DOMAIN n.remotes = (DOMAIN m.remotes \ DOMAIN changed) \cup DOMAIN near
  BY <1>1, <1>2, <1>4, <1>5, <1>7
<1>12. \A t \in DOMAIN m.remotes \ DOMAIN changed : n.remotes[t] = m.remotes[t]
  BY <1>1, <1>2, <1>5, <1>7
<1>13. \A t \in DOMAIN near :
          \/ t \in DOMAIN new /\ n.remotes[t] = new[t]
          \/ t \in same /\ n.remotes[t] = m.remotes[t]
  BY <1>2, <1>4, <1>5, <1>7
<1>14. \A t \in DOMAIN near :
          /\ n.remotes[t].name = near[t].name
          /\ n.remotes[t].priority = near[t].priority
          /\ \/ t \in DOMAIN m.remotes /\ n.remotes[t] = m.remotes[t]
             \/ n.remotes[t] = [target |-> t, name |-> near[t].name,
                                priority |-> near[t].priority,
                                client |-> m.client]
  BY <1>4, <1>5, <1>13
<1> QED BY <1>6, <1>10, <1>11, <1>12, <1>14 DEF n, near

\* processChanges: what a batch does to the remotes of the client it came from
Applied(m, n, b) ==
    LET near == Near(b.changed)
        rest == DOMAIN m.remotes \ (b.removed \cup DOMAIN b.changed)
    IN /\ Current(n) /\ n.client = m.client
       /\ DOMAIN n.remotes = rest \cup DOMAIN near
       /\ \A t \in rest : n.remotes[t] = m.remotes[t]
       /\ \A t \in DOMAIN near :
             /\ n.remotes[t].name = near[t].name
             /\ n.remotes[t].priority = near[t].priority
             /\ \/ t \in DOMAIN m.remotes /\ n.remotes[t] = m.remotes[t]
                \/ n.remotes[t] = [target |-> t, name |-> near[t].name,
                                   priority |-> near[t].priority,
                                   client |-> m.client]

\* processChanges applies a batch to the remotes of the peer.
LEMMA ApplyOK ==
    ASSUME NEW m, Current(m), NEW b
    PROVE  Applied(m, ApplyChanges(m, b), b)
<1> DEFINE k == RemoveRemotes(m, b.removed)
           n == ApplyChanges(m, b)
<1>1. /\ Current(k) /\ k.client = m.client
      /\ DOMAIN k.remotes = DOMAIN m.remotes \ b.removed
      /\ \A t \in DOMAIN k.remotes : k.remotes[t] = m.remotes[t]
  BY RemoveOK
<1>2. n = AddRemotes(k, b.changed)
  BY ZenonT(30) DEF ApplyChanges
<1> HIDE DEF k, n
<1>3. /\ Current(n) /\ n.client = k.client
      /\ DOMAIN n.remotes = (DOMAIN k.remotes \ DOMAIN b.changed)
                            \cup DOMAIN Near(b.changed)
      /\ \A t \in DOMAIN k.remotes \ DOMAIN b.changed :
            n.remotes[t] = k.remotes[t]
      /\ \A t \in DOMAIN Near(b.changed) :
            /\ n.remotes[t].name = Near(b.changed)[t].name
            /\ n.remotes[t].priority = Near(b.changed)[t].priority
            /\ \/ t \in DOMAIN k.remotes /\ n.remotes[t] = k.remotes[t]
               \/ n.remotes[t] = [target |-> t, name |-> Near(b.changed)[t].name,
                                  priority |-> Near(b.changed)[t].priority,
                                  client |-> k.client]
  BY <1>1, <1>2, AddOK
<1>4. Applied(m, n, b)
  BY <1>1, <1>3 DEF Applied
<1> QED BY <1>4 DEF n

\* detachClient
LEMMA DetachOK ==
    ASSUME NEW m, Current(m), NEW c
    PROVE  LET n == Detach(m, c)
           IN /\ m.client # c => n = m
              /\ m.client = c => /\ DOMAIN n = {"client", "remotes", "listed"}
                                 /\ n.client = NoConn
                                 /\ n.remotes \in [{} -> Remote] /\ n.listed = {}
<1> DEFINE n == RemoveRemotes(m, DOMAIN m.remotes)
<1>1. Current(n) /\ DOMAIN n.remotes = {}
  BY RemoveOK
<1> HIDE DEF n
<1>2. n.remotes \in [{} -> Remote] /\ n.listed = {} /\ DOMAIN n = {"client", "remotes", "listed"}
  BY <1>1, ZenonT(30) DEF Current, Range
<1>3. m.client = c => Detach(m, c) = [n EXCEPT !.client = NoConn]
  BY DEF Detach, n
<1>4. m.client # c => Detach(m, c) = m
  BY DEF Detach
<1> QED BY <1>2, <1>3, <1>4

\* Whoever holds a remote that the mirror loses learns of it.
LEMMA UpdateOK ==
    ASSUME RequestOK, NEW m, Update(m)
    PROVE  RequestOK'
<1> DEFINE lost == Range(mirror.remotes) \ Range(m.remotes)
<1>1. mirror' = m /\ request' = [r \in Request |->
         [request[r] EXCEPT !.gone = @ \/ request[r].remote \in lost]]
  BY DEF Update
<1> HIDE DEF lost
<1>2. \A r \in Request :
         /\ request'[r].pc = request[r].pc
         /\ request'[r].remote = request[r].remote
         /\ request'[r].gone = (request[r].gone \/ request[r].remote \in lost)
         /\ request'[r] \in [pc : {"idle", "open", "failed", "retry"},
                             remote : Remote \cup {NoRemote}, gone : BOOLEAN]
  BY <1>1, Zenon DEF RequestOK
<1>3. request' \in [Request -> [pc : {"idle", "open", "failed", "retry"},
                                remote : Remote \cup {NoRemote},
                                gone : BOOLEAN]]
  BY <1>1, <1>2
<1>4. ASSUME NEW r \in Request
      PROVE  /\ request'[r].pc \in {"open", "failed"} /\ ~request'[r].gone =>
                   request'[r].remote \in Range(mirror'.remotes)
             /\ request'[r].pc = "retry" => request'[r].gone
  <2>1. /\ request[r].pc \in {"open", "failed"} /\ ~request[r].gone =>
              request[r].remote \in Range(mirror.remotes)
        /\ request[r].pc = "retry" => request[r].gone
    BY Zenon DEF RequestOK
  <2>2. request[r].remote \in lost \/ request[r].remote \notin Range(mirror.remotes)
           \/ request[r].remote \in Range(m.remotes)
    BY Zenon DEF lost
  <2>3. Range(mirror'.remotes) = Range(m.remotes)
    BY <1>1
  <2> QED BY <1>2, <2>1, <2>2, <2>3, Zenon
<1> QED BY <1>3, <1>4 DEF RequestOK

\* n is m without the remote of t, which m may not have any more.
Without(m, t, gone, n) ==
    /\ Current(n) /\ n.client = m.client
    /\ DOMAIN n.remotes \subseteq DOMAIN m.remotes
    /\ \A s \in DOMAIN n.remotes : n.remotes[s] = m.remotes[s]
    /\ ~gone => t \notin DOMAIN n.remotes

\* A remote is removed, unless it is gone already.
LEMMA ForcedOK ==
    ASSUME NEW m, Current(m), NEW gone, NEW t
    PROVE  Without(m, t, gone, IF gone THEN m ELSE RemoveRemotes(m, {t}))
<1>1. CASE gone
  BY <1>1, Zenon DEF Without
<1>2. CASE ~gone
  <2>1. LET n == RemoveRemotes(m, {t})
        IN /\ Current(n) /\ n.client = m.client
           /\ DOMAIN n.remotes = DOMAIN m.remotes \ {t}
           /\ \A s \in DOMAIN n.remotes : n.remotes[s] = m.remotes[s]
    BY RemoveOK, Zenon
  <2> QED BY <1>2, <2>1, Zenon DEF Without
<1> QED BY <1>1, <1>2, Zenon

\* The mirror as the invariant has it is current.
LEMMA MirrorIsCurrent == MirrorOK => Current(mirror)
  BY DEF MirrorOK, Current, MirrorCurrent

-----------------------------------------------------------------------------
\* Every action keeps PlaceInv

\* What PeerOK says of the goroutine of one connection.
GoroutineOK(g, cn, w, batches) ==
    /\ DOMAIN g = {"pc", "batch"}
    /\ g.pc \in {"none", "start", "read", "got", "detach", "close", "done"}
    /\ g.pc = "got" => g.batch \in Batches
    /\ cn = "unused" => g.pc = "none"
    /\ g.pc \in {"none", "start"} => w.state = "none"
    /\ w.state \in {"none", "asked"} => batches = <<>> /\ g.pc # "got"

\* The changes that are near are changes.
LEMMA NearOK ==
    ASSUME NEW b \in Batches
    PROVE  \A t \in DOMAIN Near(b.changed) :
              t \in Target /\ Near(b.changed)[t] \in ServiceRecord
  BY DEF Near, Restrict, Batches, ChangesOf

\* What a changes stream notes.
LEMMA AddChangedOK ==
    ASSUME NEW w \in Watcher, NEW t \in Target
    PROVE  LET v == AddChanged(w, t)
           IN /\ v \in Watcher /\ v.state = w.state /\ v.sent = w.sent
              /\ w.state # "open" => v = w
              /\ w.state = "open" => /\ v.removed = w.removed \ {t}
                                     /\ v.changed = w.changed \cup {t}
  BY Zenon DEF AddChanged, Watcher

\* What a changes stream notes when a target is withdrawn.
LEMMA AddRemovedOK ==
    ASSUME NEW w \in Watcher, NEW t \in Target
    PROVE  LET v == AddRemoved(w, t)
           IN /\ v \in Watcher /\ v.state = w.state /\ v.sent = w.sent
              /\ w.state # "open" => v = w
              /\ w.state = "open" =>
                    /\ v.changed = w.changed \ {t}
                    /\ w.removed \subseteq v.removed
                    /\ v.removed \subseteq w.removed \cup {t}
                    /\ t \in w.sent => t \in v.removed
  BY Zenon DEF AddRemoved, Watcher

\* What Publish does: the publication of endpoint e has target t.
Published(e, n, p, d, t) ==
    /\ t \in DOMAIN pub => pub[t] = [name |-> n, priority |-> p]
    /\ t <= lastTargetID' /\ lastTargetID <= lastTargetID'
    /\ lastTargetID' \in 0 .. MaxTarget
    /\ pub' = Over([s \in {t} |-> [name |-> n, priority |-> p]], pub)
    /\ endpoint' = Over([f \in {e} |-> [target |-> t, distance |-> d]], endpoint)
    /\ watcher' = [c \in Conn |-> AddChanged(watcher[c], t)]

\* A publication of the same name and priority is joined, or a new target is allocated.
LEMMA PublishOK ==
    ASSUME ServerOK, NEW e \in Endpoint, NEW n \in Name, NEW p \in Priority,
           NEW d \in Distance, Publish(e, n, p, d)
    PROVE  \E t \in Target : Published(e, n, p, d, t)
<1> DEFINE svc  == [name |-> n, priority |-> p]
           same == {t \in DOMAIN pub : pub[t] = svc}
           t    == IF same = {} THEN lastTargetID + 1
                                ELSE CHOOSE s \in same : TRUE
<1>1. /\ t <= MaxTarget /\ lastTargetID' = Max({lastTargetID, t})
      /\ pub' = Over([s \in {t} |-> svc], pub)
      /\ endpoint' = Over([f \in {e} |-> [target |-> t, distance |-> d]], endpoint)
      /\ watcher' = [c \in Conn |-> AddChanged(watcher[c], t)]
  BY DEF Publish
<1>2. CASE same = {}
  <2>1. t = lastTargetID + 1
    BY <1>2
  <2> HIDE DEF same, t
  <2>2. lastTargetID \in Nat /\ t \in Nat /\ t \notin DOMAIN pub
    BY <2>1, DiscoveryParameters DEF ServerOK
  <2>3. lastTargetID' = t
    BY <1>1, <2>1, <2>2 DEF Max
  <2>4. t \in Target /\ t <= lastTargetID' /\ lastTargetID <= lastTargetID'
        /\ lastTargetID' \in 0 .. MaxTarget
    BY <1>1, <2>1, <2>2, <2>3, DiscoveryParameters DEF Target
  <2> QED BY <1>1, <2>2, <2>4, Zenon DEF Published
<1>3. CASE same # {}
  <2>1. t \in same
    BY <1>3
  <2>2. t \in DOMAIN pub /\ pub[t] = svc
    BY <2>1
  <2> HIDE DEF same, t
  <2>3. lastTargetID \in Nat /\ t \in Nat /\ 1 <= t /\ t <= lastTargetID
    BY <2>2, DiscoveryParameters DEF ServerOK
  <2>4. lastTargetID' = lastTargetID
    BY <1>1, <2>3 DEF Max
  <2>5. t \in Target /\ t <= lastTargetID' /\ lastTargetID <= lastTargetID'
        /\ lastTargetID' \in 0 .. MaxTarget
    BY <1>1, <2>3, <2>4, DiscoveryParameters DEF Target, ServerOK
  <2> QED BY <1>1, <2>2, <2>5, ZenonT(30) DEF Published
<1> QED BY <1>2, <1>3

\* A step that leaves the publications, the watchers and the streams alone leaves
\* what is said of them alone.
LEMMA ServerFrame ==
    ASSUME ServerOK, WatcherOK, StreamOK,
           UNCHANGED <<lastTargetID, pub, endpoint, watcher, stream>>
    PROVE  ServerOK' /\ WatcherOK' /\ StreamOK'
<1>1. lastTargetID' = lastTargetID /\ pub' = pub /\ endpoint' = endpoint
      /\ watcher' = watcher /\ stream' = stream
  BY Zenon
<1>2. \A t \in DOMAIN pub' : EndpointsOf(t)' # {}
  BY <1>1, Zenon DEF ServerOK, EndpointsOf
<1>3. ServerOK'
  BY <1>1, <1>2, Zenon DEF ServerOK
<1>4. WatcherOK'
  BY <1>1, Zenon DEF WatcherOK
<1>5. StreamOK'
  BY <1>1, Zenon DEF StreamOK
<1> QED BY <1>3, <1>4, <1>5, Zenon

\* Likewise for the requests and the remotes that they may hold.
LEMMA RequestFrame ==
    ASSUME RequestOK, UNCHANGED <<mirror, request>>
    PROVE  RequestOK'
<1>1. mirror' = mirror /\ request' = request
  BY Zenon
<1>2. ASSUME NEW r \in Request
      PROVE  /\ request'[r].pc \in {"open", "failed"} /\ ~request'[r].gone =>
                   request'[r].remote \in Range(mirror'.remotes)
             /\ request'[r].pc = "retry" => request'[r].gone
  BY <1>1 DEF RequestOK
<1>3. request' \in [Request -> [pc : {"idle", "open", "failed", "retry"},
                                remote : Remote \cup {NoRemote},
                                gone : BOOLEAN]]
  BY <1>1, Zenon DEF RequestOK
<1> QED BY <1>2, <1>3, Zenon DEF RequestOK

\* The goroutines of the peer stay in their places when only the watchers and the
\* streams of subscriptions that are open change, and no watcher's state does.
LEMMA PeerFrame ==
    ASSUME PeerOK, UNCHANGED <<conn, failed, loop, serve>>,
           \A c \in Conn : /\ watcher'[c].state = watcher[c].state
                           /\ watcher[c].state \in {"none", "asked"} =>
                                 stream'[c] = stream[c]
    PROVE  PeerOK'
<1>1. conn' = conn /\ failed' = failed /\ loop' = loop /\ serve' = serve
  BY Zenon
<1>2. /\ conn' \in [Conn -> {"unused", "up", "closed"}]
      /\ failed' \in BOOLEAN
      /\ loop' \in [pc : {"top", "dial", "sleep", "attach", "wait", "done"},
                    client : Conn \cup {NoConn}]
      /\ DOMAIN serve' = Conn
      /\ loop'.pc \in {"attach", "wait"} =>
            loop'.client \in Conn /\ conn'[loop'.client] # "unused"
      /\ loop'.pc = "attach" => serve'[loop'.client].pc = "none"
  BY <1>1, Zenon DEF PeerOK
<1>3. ASSUME NEW c \in Conn
      PROVE  /\ DOMAIN serve'[c] = {"pc", "batch"}
             /\ serve'[c].pc \in {"none", "start", "read", "got", "detach",
                                  "close", "done"}
             /\ serve'[c].pc = "got" => serve'[c].batch \in Batches
             /\ conn'[c] = "unused" => serve'[c].pc = "none"
  BY <1>1, Zenon DEF PeerOK
<1>4. ASSUME NEW c \in Conn
      PROVE  /\ serve'[c].pc \in {"none", "start"} => watcher'[c].state = "none"
             /\ watcher'[c].state \in {"none", "asked"} =>
                   stream'[c] = <<>> /\ serve'[c].pc # "got"
  <2>1. /\ serve[c].pc \in {"none", "start"} => watcher[c].state = "none"
        /\ watcher[c].state \in {"none", "asked"} =>
              stream[c] = <<>> /\ serve[c].pc # "got"
    BY Zenon DEF PeerOK
  <2>2. /\ serve'[c] = serve[c] /\ watcher'[c].state = watcher[c].state
        /\ watcher[c].state \in {"none", "asked"} => stream'[c] = stream[c]
    BY <1>1, Zenon
  <2> QED BY <2>1, <2>2, Zenon
<1> QED BY <1>2, <1>3, <1>4, Zenon DEF PeerOK

\* Publishing keeps everything in its place
LEMMA PublishPlace ==
    ASSUME PlaceInv, NEW e \in Endpoint, NEW n \in Name, NEW p \in Priority,
           NEW d \in Distance, Publish(e, n, p, d)
    PROVE  PlaceInv'
<1>0. PICK t \in Target : Published(e, n, p, d, t)
  BY PublishOK DEF PlaceInv
<1>1. /\ t \in DOMAIN pub => pub[t] = [name |-> n, priority |-> p]
      /\ t <= lastTargetID' /\ lastTargetID <= lastTargetID'
      /\ lastTargetID' \in 0 .. MaxTarget
      /\ pub' = Over([s \in {t} |-> [name |-> n, priority |-> p]], pub)
      /\ endpoint' = Over([f \in {e} |-> [target |-> t, distance |-> d]],
                          endpoint)
      /\ watcher' = [c \in Conn |-> AddChanged(watcher[c], t)]
  BY <1>0 DEF Published
<1>2. e \notin DOMAIN endpoint
      /\ UNCHANGED <<conn, stream, failed, loop, serve, mirror, request, dropped>>
  BY DEF Publish, remotes
<1>3. /\ DOMAIN pub' = DOMAIN pub \cup {t}
      /\ pub' \in [DOMAIN pub' -> [name : Name, priority : Priority]]
  BY <1>1 DEF Over, PlaceInv, ServerOK
<1>4. /\ DOMAIN endpoint' = DOMAIN endpoint \cup {e}
      /\ endpoint'[e].target = t
      /\ \A f \in DOMAIN endpoint : endpoint'[f] = endpoint[f]
      /\ endpoint' \in [DOMAIN endpoint' ->
                           [target : DOMAIN pub', distance : Distance]]
  BY <1>1, <1>2, <1>3 DEF Over, PlaceInv, ServerOK
<1>5. \A s \in DOMAIN pub' : EndpointsOf(s)' # {}
  BY <1>3, <1>4 DEF PlaceInv, ServerOK, EndpointsOf
<1>6. DOMAIN pub' \subseteq 1 .. lastTargetID'
  BY <1>1, <1>3, DiscoveryParameters DEF PlaceInv, ServerOK, Target
<1>7. ServerOK'
  BY <1>1, <1>3, <1>4, <1>5, <1>6 DEF PlaceInv, ServerOK
<1>8. \A c \in Conn : /\ watcher'[c] = AddChanged(watcher[c], t)
                      /\ watcher'[c].state = watcher[c].state
                      /\ watcher'[c] \in Watcher
                      /\ watcher'[c].changed \subseteq watcher[c].changed \cup {t}
                      /\ watcher[c].state # "open" => watcher'[c] = watcher[c]
  BY <1>1, AddChangedOK DEF PlaceInv, WatcherOK
<1>9. WatcherOK'
  BY <1>1, <1>3, <1>8 DEF PlaceInv, WatcherOK
<1>10. StreamOK' /\ RequestOK'
  BY <1>2 DEF PlaceInv, StreamOK, RequestOK
<1>11. PeerOK'
  BY <1>2, <1>8, PeerFrame, Zenon DEF PlaceInv
<1>12. MirrorOK'
  BY <1>2, <1>8 DEF PlaceInv, MirrorOK, MirrorCurrent
<1> QED BY <1>7, <1>9, <1>10, <1>11, <1>12 DEF PlaceInv

\* and so does withdrawing an endpoint.
LEMMA UnpublishPlace ==
    ASSUME PlaceInv, NEW e \in Endpoint, Unpublish(e)
    PROVE  PlaceInv'
<1> DEFINE t == endpoint[e].target
<1>1. /\ e \in DOMAIN endpoint
      /\ endpoint' = Restrict(endpoint, DOMAIN endpoint \ {e})
      /\ UNCHANGED <<lastTargetID, conn, stream, failed, loop, serve, mirror,
                     request, dropped>>
  BY DEF Unpublish, remotes
<1>2. \/ /\ EndpointsOf(t) = {e}
         /\ pub' = Restrict(pub, DOMAIN pub \ {t})
         /\ watcher' = [c \in Conn |-> AddRemoved(watcher[c], t)]
      \/ /\ EndpointsOf(t) # {e}
         /\ pub' = pub
         /\ watcher' = [c \in Conn |-> AddChanged(watcher[c], t)]
  BY DEF Unpublish
<1>3. t \in DOMAIN pub /\ t \in Target
  BY <1>1, DiscoveryParameters DEF PlaceInv, ServerOK, Target
<1>4. /\ DOMAIN endpoint' = DOMAIN endpoint \ {e}
      /\ \A f \in DOMAIN endpoint' : endpoint'[f] = endpoint[f]
      /\ endpoint' = [f \in DOMAIN endpoint' |-> endpoint[f]]
  BY <1>1 DEF Restrict
<1> HIDE DEF t
<1>5. /\ pub' \in [DOMAIN pub' -> [name : Name, priority : Priority]]
      /\ DOMAIN pub' \subseteq DOMAIN pub
      /\ DOMAIN pub \subseteq DOMAIN pub' \cup {t}
      /\ EndpointsOf(t) # {e} => pub' = pub
      /\ EndpointsOf(t) = {e} => t \notin DOMAIN pub'
  BY <1>2 DEF Restrict, PlaceInv, ServerOK
<1>6. \A f \in DOMAIN endpoint' : endpoint[f].target \in DOMAIN pub'
  BY <1>4, <1>5 DEF PlaceInv, ServerOK, EndpointsOf
<1>7. \A s \in DOMAIN pub' : EndpointsOf(s)' # {}
  <2> SUFFICES ASSUME NEW s \in DOMAIN pub' PROVE EndpointsOf(s)' # {}
    OBVIOUS
  <2>1. EndpointsOf(s) # {} /\ EndpointsOf(s) # {e}
    BY <1>1, <1>5 DEF PlaceInv, ServerOK, EndpointsOf, t
  <2>2. EndpointsOf(s)' = EndpointsOf(s) \ {e}
    BY <1>4 DEF EndpointsOf
  <2> QED BY <2>1, <2>2
<1>8. ServerOK'
  <2>1. endpoint' \in [DOMAIN endpoint' ->
                          [target : DOMAIN pub', distance : Distance]]
    BY <1>4, <1>6 DEF PlaceInv, ServerOK
  <2> QED BY <1>1, <1>4, <1>5, <1>7, <2>1, Zenon DEF PlaceInv, ServerOK
<1>9. \A c \in Conn : /\ watcher'[c].state = watcher[c].state
                      /\ watcher'[c] \in Watcher
                      /\ watcher[c].state # "open" => watcher'[c] = watcher[c]
                      /\ watcher[c].state = "open" =>
                            watcher'[c].changed \subseteq DOMAIN pub'
  <2>1. CASE EndpointsOf(t) = {e}
    BY <1>2, <1>3, <2>1, AddRemovedOK DEF Restrict, PlaceInv, WatcherOK
  <2>2. CASE EndpointsOf(t) # {e}
    BY <1>2, <1>3, <2>2, AddChangedOK DEF PlaceInv, WatcherOK
  <2> QED BY <2>1, <2>2
<1>10. WatcherOK'
  <2>1. watcher' = [c \in Conn |-> watcher'[c]]
    BY <1>2
  <2>2. \A c \in Conn : watcher'[c].changed \subseteq DOMAIN pub'
    BY <1>9 DEF PlaceInv, WatcherOK
  <2> QED BY <1>9, <2>1, <2>2 DEF PlaceInv, WatcherOK
<1>11. StreamOK' /\ RequestOK'
  BY <1>1, ZenonT(30) DEF PlaceInv, StreamOK, RequestOK
<1>12. PeerOK'
  BY <1>1, <1>9, ZenonT(30) DEF PlaceInv, PeerOK
<1>13. MirrorOK'
  BY <1>1, <1>9 DEF PlaceInv, MirrorOK, MirrorCurrent
<1> QED BY <1>8, <1>10, <1>11, <1>12, <1>13 DEF PlaceInv

\* The watched server's other steps, and the network's
LEMMA WatchPlace ==
    ASSUME PlaceInv, NEW c \in Conn,
           StreamServices(c) \/ StopWatcher(c) \/ Break(c)
    PROVE  PlaceInv'
<1> USE DEF PlaceInv
<1>1. CASE StreamServices(c)
  <2>1. /\ watcher[c].state = "asked"
        /\ watcher' = [watcher EXCEPT ![c] =
                          [@ EXCEPT !.state = "open", !.changed = DOMAIN pub]]
        /\ UNCHANGED <<lastTargetID, pub, endpoint, conn, stream, failed, loop,
                       serve, mirror, request, dropped>>
    BY <1>1 DEF StreamServices, server, remotes
  <2>2. DOMAIN pub \subseteq Target
    BY DiscoveryParameters DEF ServerOK, Target
  <2>3. WatcherOK'
    BY <2>1, <2>2, ZenonT(30) DEF WatcherOK, Watcher
  <2>4. \A b \in Conn : /\ b # c => watcher'[b] = watcher[b]
                        /\ watcher'[c].state = "open"
    BY <2>1 DEF WatcherOK, Watcher
  <2>5. ServerOK' /\ StreamOK' /\ RequestOK'
    BY <2>1 DEF ServerOK, StreamOK, RequestOK, EndpointsOf
  <2>6. PeerOK'
    BY <2>1, <2>4 DEF PeerOK
  <2>7. MirrorOK'
    BY <2>1, <2>4 DEF MirrorOK, MirrorCurrent
  <2> QED BY <2>3, <2>5, <2>6, <2>7
<1>2. CASE StopWatcher(c)
  <2>1. /\ watcher[c].state \in {"asked", "open"}
        /\ watcher' = [watcher EXCEPT ![c] = [NoWatcher EXCEPT !.state = "closed"]]
        /\ UNCHANGED <<lastTargetID, pub, endpoint, conn, stream, failed, loop,
                       serve, mirror, request, dropped>>
    BY <1>2 DEF StopWatcher, server, remotes
  <2>2. WatcherOK'
    BY <2>1 DEF WatcherOK, Watcher, NoWatcher
  <2>3. \A b \in Conn : /\ b # c => watcher'[b] = watcher[b]
                        /\ watcher'[c].state = "closed"
    BY <2>1 DEF WatcherOK, Watcher, NoWatcher
  <2>4. ServerOK' /\ StreamOK' /\ RequestOK'
    BY <2>1 DEF ServerOK, StreamOK, RequestOK, EndpointsOf
  <2>5. PeerOK'
    BY <2>1, <2>3 DEF PeerOK
  <2>6. MirrorOK'
    BY <2>1, <2>3 DEF MirrorOK, MirrorCurrent
  <2> QED BY <2>2, <2>4, <2>5, <2>6
<1>3. CASE Break(c)
  <2>1. /\ conn[c] = "up" /\ conn' = [conn EXCEPT ![c] = "closed"]
        /\ UNCHANGED <<lastTargetID, pub, endpoint, watcher, stream, failed, loop,
                       serve, mirror, request, dropped>>
    BY <1>3 DEF Break, server, remotes
  <2>2. ServerOK' /\ WatcherOK' /\ StreamOK' /\ RequestOK'
    BY <2>1, ServerFrame, RequestFrame, Zenon
  <2>3. PeerOK'
    BY <2>1, Zenon DEF PeerOK
  <2>4. MirrorOK'
    BY <2>1, ZenonT(30) DEF MirrorOK, MirrorCurrent
  <2> QED BY <2>2, <2>3, <2>4
<1> QED BY <1>1, <1>2, <1>3

\* A server that restarts has published nothing and watches nothing.
LEMMA RestartPlace ==
    ASSUME PlaceInv, Restart
    PROVE  PlaceInv'
<1> USE DEF PlaceInv
<1>1. /\ lastTargetID' = 0 /\ pub' = <<>> /\ endpoint' = <<>>
      /\ watcher' = [b \in Conn |->
            IF watcher[b].state \in {"asked", "open"}
            THEN [NoWatcher EXCEPT !.state = "closed"] ELSE watcher[b]]
      /\ conn' = [b \in Conn |-> IF conn[b] = "up" THEN "closed" ELSE conn[b]]
      /\ UNCHANGED <<stream, failed, loop, serve, mirror, request, dropped>>
  BY DEF Restart, remotes
<1>2. ServerOK'
  BY <1>1, DiscoveryParameters DEF ServerOK, EndpointsOf
<1>3. \A b \in Conn :
         /\ watcher'[b] \in Watcher
         /\ watcher'[b].changed = {} /\ watcher'[b].removed = {}
         /\ watcher[b].state \in {"asked", "open"} =>
               watcher'[b].state = "closed"
         /\ watcher[b].state \in {"none", "closed"} =>
               watcher'[b].state = watcher[b].state
  BY <1>1 DEF WatcherOK, Watcher, NoWatcher
<1>4. WatcherOK'
  BY <1>1, <1>3 DEF WatcherOK
<1>5. StreamOK' /\ RequestOK'
  BY <1>1 DEF StreamOK, RequestOK
<1>6. \A b \in Conn : /\ conn'[b] \in {"unused", "up", "closed"}
                      /\ conn'[b] = "unused" <=> conn[b] = "unused"
  BY <1>1 DEF PeerOK
<1>7. \A b \in Conn : watcher[b].state \in {"none", "asked", "open", "closed"}
  BY DEF WatcherOK, Watcher
<1>8. PeerOK'
  BY <1>1, <1>3, <1>6, <1>7 DEF PeerOK
<1>9. MirrorOK'
  BY <1>1, <1>3, <1>7 DEF MirrorOK, MirrorCurrent
<1> QED BY <1>2, <1>4, <1>5, <1>8, <1>9

\* A batch that is sent has its type.
LEMMA SendPlace ==
    ASSUME PlaceInv, NEW c \in Conn, SendChanges(c)
    PROVE  PlaceInv'
<1> USE DEF PlaceInv
<1> DEFINE w == watcher[c]
<1>1. PICK S \in SUBSET w.changed :
         /\ watcher' = [watcher EXCEPT ![c] =
                           [w EXCEPT !.sent = (@ \ w.removed) \cup S,
                                     !.removed = {}, !.changed = @ \ S]]
         /\ stream' = [stream EXCEPT ![c] =
                          Append(@, [removed |-> w.removed,
                                     changed |-> [t \in S |-> Service(t)]])]
  BY Zenon DEF SendChanges, kSubset
<1>2. /\ w.state = "open" /\ Len(stream[c]) < StreamRoom
      /\ UNCHANGED <<lastTargetID, pub, endpoint, conn, failed, loop, serve,
                     mirror, request, dropped>>
  BY DEF SendChanges, server, remotes
<1>3. WatcherOK'
  BY <1>1, <1>2, ZenonT(30) DEF WatcherOK, Watcher
<1>4. \A b \in Conn : watcher'[b].state = watcher[b].state
  BY <1>1, <1>2 DEF WatcherOK, Watcher
<1>5. [removed |-> w.removed, changed |-> [t \in S |-> Service(t)]] \in Batches
  <2>1. S \in SUBSET Target /\ S \subseteq DOMAIN pub /\ w.removed \in SUBSET Target
    BY <1>1 DEF WatcherOK, Watcher
  <2>2. [t \in S |-> Service(t)] \in [S -> ServiceRecord]
    BY <2>1, ServiceOK
  <2>3. [t \in S |-> Service(t)] \in ChangesOf
    BY <2>1, <2>2 DEF ChangesOf
  <2> QED BY <2>1, <2>3 DEF Batches
<1>6. StreamOK'
  <2> DEFINE b == [removed |-> w.removed, changed |-> [t \in S |-> Service(t)]]
  <2>1. stream' = [stream EXCEPT ![c] = Append(@, b)] /\ b \in Batches
    BY <1>1, <1>5
  <2> HIDE DEF b
  <2>2. Append(stream[c], b) \in Seq(Batches)
        /\ Len(Append(stream[c], b)) = Len(stream[c]) + 1
    BY <2>1 DEF StreamOK
  <2> QED BY <1>2, <2>1, <2>2, DiscoveryParameters DEF StreamOK
<1>7. ServerOK' /\ RequestOK'
  BY <1>2 DEF ServerOK, RequestOK, EndpointsOf
<1>8. PeerOK'
  <2>1. ASSUME NEW b \in Conn, watcher[b].state \in {"none", "asked"}
        PROVE  stream'[b] = stream[b]
    <3>1. b # c
      BY <1>2, <2>1
    <3> QED BY <1>1, <3>1, Zenon DEF StreamOK
  <2> QED BY <1>2, <1>4, <2>1, PeerFrame, Zenon
<1>9. MirrorOK'
  BY <1>2, <1>4 DEF MirrorOK, MirrorCurrent
<1> QED BY <1>3, <1>6, <1>7, <1>8, <1>9

\* A client that is detached leaves nothing.
LEMMA DetachPlace ==
    ASSUME MirrorOK, NEW c \in Conn, mirror' = Detach(mirror, c),
           UNCHANGED <<watcher, dropped>>,
           \/ mirror.client = c
           \/ mirror.client = NoConn
           \/ UNCHANGED loop
    PROVE  MirrorOK'
<1>0. Current(mirror)
  BY MirrorIsCurrent
<1>1. /\ mirror.client # c => mirror' = mirror
      /\ mirror.client = c => /\ DOMAIN mirror' = {"client", "remotes", "listed"}
                              /\ mirror'.client = NoConn
                              /\ mirror'.remotes \in [{} -> Remote]
                              /\ mirror'.listed = {}
  BY <1>0, DetachOK
<1>2. CASE mirror.client # c
  BY <1>1, <1>2 DEF MirrorOK, MirrorCurrent
<1>3. CASE mirror.client = c
  <2>1. mirror'.remotes \in [DOMAIN mirror'.remotes -> Remote]
        /\ DOMAIN mirror'.remotes = {}
    BY <1>1, <1>3
  <2>2. MirrorCurrent'
    BY <1>1, <1>3, <2>1 DEF MirrorCurrent, Range
  <2> QED BY <1>1, <1>3, <2>1, <2>2 DEF MirrorOK
<1> QED BY <1>2, <1>3

\* connectloop, and closing the peer
LEMMA LoopPlace ==
    ASSUME PlaceInv, ConnectLoop \/ CloseOnFailure \/ ClosePeer
    PROVE  PlaceInv'
<1> USE DEF PlaceInv
<1>1. CASE CheckFailed \/ DialFails \/ Sleep
  <2>1. /\ loop.pc # "wait"
        /\ loop'.pc \in {"done", "dial", "sleep", "top"} /\ loop'.client = NoConn
        /\ loop' \in [pc : {"top", "dial", "sleep", "attach", "wait", "done"},
                      client : Conn \cup {NoConn}]
        /\ UNCHANGED <<lastTargetID, pub, endpoint, watcher, conn, stream, failed,
                       serve, mirror, request, dropped>>
    BY <1>1 DEF CheckFailed, DialFails, Sleep, At, server, remotes
  <2>2. ServerOK' /\ WatcherOK' /\ StreamOK' /\ RequestOK'
    BY <2>1, ServerFrame, RequestFrame, Zenon
  <2>3. PeerOK'
    BY <2>1 DEF PeerOK
  <2>4. MirrorOK'
    BY <2>1 DEF MirrorOK, MirrorCurrent
  <2> QED BY <2>2, <2>3, <2>4
<1>2. CASE Dial
  <2>1. PICK c \in Conn : /\ conn[c] = "unused"
                          /\ conn' = [conn EXCEPT ![c] = "up"]
                          /\ loop' = [pc |-> "attach", client |-> c]
    BY <1>2, Zenon DEF Dial, At
  <2>2. /\ loop.pc = "dial"
        /\ UNCHANGED <<lastTargetID, pub, endpoint, watcher, stream, failed, serve,
                       mirror, request, dropped>>
    BY <1>2 DEF Dial, server, remotes
  <2>3. ServerOK' /\ WatcherOK' /\ StreamOK' /\ RequestOK'
    BY <2>2, ServerFrame, RequestFrame, Zenon
  <2>4. PeerOK'
    BY <2>1, <2>2, Zenon DEF PeerOK
  <2>5. MirrorOK'
    BY <2>1, <2>2 DEF MirrorOK, MirrorCurrent
  <2> QED BY <2>3, <2>4, <2>5
<1>3. CASE AttachClient
  <2> DEFINE c == loop.client
  <2>1. /\ loop.pc = "attach" /\ loop' = [pc |-> "wait", client |-> c]
        /\ Update([mirror EXCEPT !.client = c]) /\ dropped' = {}
        /\ serve' = [serve EXCEPT ![c].pc = "start"]
        /\ UNCHANGED <<lastTargetID, pub, endpoint, watcher, conn, stream, failed>>
    BY <1>3 DEF AttachClient, At, server
  <2>2. c \in Conn /\ conn[c] # "unused" /\ serve[c].pc = "none"
    BY <2>1 DEF PeerOK
  <2>3. mirror.client = NoConn /\ DOMAIN mirror.remotes = {}
    BY <2>1 DEF MirrorOK
  <2>4. mirror' = [mirror EXCEPT !.client = c]
    BY <2>1 DEF Update
  <2>5. RequestOK'
    BY <2>1, UpdateOK
  <2>6. ServerOK' /\ WatcherOK' /\ StreamOK'
    BY <2>1, ServerFrame, Zenon
  <2> HIDE DEF c
  <2>7. PeerOK'
    BY <2>1, <2>2 DEF PeerOK
  <2>8. MirrorOK'
    BY <2>1, <2>2, <2>3, <2>4 DEF MirrorOK, MirrorCurrent
  <2> QED BY <2>5, <2>6, <2>7, <2>8
<1>4. CASE ClientDone
  <2> DEFINE c == loop.client
             m == Detach(mirror, c)
  <2>1. /\ loop.pc = "wait" /\ loop' = [pc |-> "top", client |-> NoConn]
        /\ Update(m)
        /\ UNCHANGED <<lastTargetID, pub, endpoint, watcher, conn, stream, failed,
                       serve, dropped>>
    BY <1>4 DEF ClientDone, At, server
  <2>2. mirror' = m
    BY <2>1 DEF Update
  <2>3. RequestOK'
    BY <2>1, UpdateOK, Zenon
  <2>4. c \in Conn /\ (mirror.client = c \/ mirror.client = NoConn)
    BY <2>1 DEF MirrorOK, PeerOK
  <2>5. MirrorOK'
    BY <2>1, <2>2, <2>4, DetachPlace
  <2> HIDE DEF m, c
  <2>6. ServerOK' /\ WatcherOK' /\ StreamOK'
    BY <2>1, ServerFrame, Zenon
  <2>7. PeerOK'
    BY <2>1 DEF PeerOK
  <2> QED BY <2>3, <2>5, <2>6, <2>7
<1>5. CASE CloseOnFailure
  <2>1. /\ loop.pc = "wait" /\ conn' = [conn EXCEPT ![loop.client] = "closed"]
        /\ UNCHANGED <<lastTargetID, pub, endpoint, watcher, stream, failed, loop,
                       serve, mirror, request, dropped>>
    BY <1>5 DEF CloseOnFailure, server, remotes
  <2>2. ServerOK' /\ WatcherOK' /\ StreamOK' /\ RequestOK'
    BY <2>1, ServerFrame, RequestFrame, Zenon
  <2>3. PeerOK'
    BY <2>1, Zenon DEF PeerOK
  <2>4. MirrorOK'
    BY <2>1 DEF MirrorOK, MirrorCurrent
  <2> QED BY <2>2, <2>3, <2>4
<1>6. CASE ClosePeer
  <2>1. /\ failed' = TRUE
        /\ UNCHANGED <<lastTargetID, pub, endpoint, watcher, conn, stream, loop,
                       serve, mirror, request, dropped>>
    BY <1>6, ZenonT(30) DEF ClosePeer, server, remotes
  <2>2. ServerOK' /\ WatcherOK' /\ StreamOK' /\ RequestOK'
    BY <2>1, ServerFrame, RequestFrame, Zenon
  <2>3. PeerOK'
    BY <2>1, ZenonT(30) DEF PeerOK
  <2>4. MirrorOK'
    BY <2>1 DEF MirrorOK, MirrorCurrent
  <2> QED BY <2>2, <2>3, <2>4
<1> QED BY <1>1, <1>2, <1>3, <1>4, <1>5, <1>6 DEF ConnectLoop

\* serveClient
LEMMA ServePlace ==
    ASSUME PlaceInv, NEW c \in Conn, ServeClient(c)
    PROVE  PlaceInv'
<1> USE DEF PlaceInv
<1>1. CASE AskChanges(c)
  <2>1. /\ serve[c].pc = "start"
        /\ UNCHANGED <<lastTargetID, pub, endpoint, conn, stream, failed, loop,
                       mirror, request, dropped>>
    BY <1>1, Zenon DEF AskChanges, server, remotes
  <2>2. watcher[c].state = "none"
    BY <2>1 DEF PeerOK
  <2>3. \/ /\ serve' = [serve EXCEPT ![c] = [pc |-> "read", batch |-> NoBatch]]
           /\ watcher' = [watcher EXCEPT ![c].state = "asked"]
        \/ /\ serve' = [serve EXCEPT ![c] = [pc |-> "detach", batch |-> NoBatch]]
           /\ watcher' = watcher
    BY <1>1 DEF AskChanges, Serving
  <2>4. /\ \A b \in Conn : b # c => watcher'[b] = watcher[b]
        /\ watcher'[c].state \in {"none", "asked"}
        /\ watcher'[c].changed = {} /\ watcher'[c].removed = {}
        /\ watcher' \in [Conn -> Watcher]
    BY <2>2, <2>3 DEF WatcherOK, Watcher
  <2>9. /\ \A b \in Conn : b # c => serve'[b] = serve[b]
        /\ DOMAIN serve' = Conn /\ DOMAIN serve'[c] = {"pc", "batch"}
        /\ serve'[c].pc \in {"read", "detach"}
    BY <2>3 DEF PeerOK
  <2>5. WatcherOK'
    BY <2>1, <2>4, ZenonT(30) DEF WatcherOK
  <2>6. ServerOK' /\ StreamOK' /\ RequestOK'
    BY <2>1 DEF ServerOK, StreamOK, RequestOK, EndpointsOf
  <2>7. PeerOK'
    <3>1. /\ conn' = conn /\ failed' = failed /\ loop' = loop
          /\ stream' = stream /\ serve[c].pc = "start"
      BY <2>1, Zenon
    <3>2. conn[c] # "unused" /\ stream[c] = <<>>
      BY <2>2, <3>1, Zenon DEF PeerOK
    <3>3. /\ serve'[c].pc \notin {"none", "start", "got"}
          /\ serve'[c].pc \in {"none", "start", "read", "got", "detach", "close",
                               "done"}
      BY <2>9, Zenon
    <3>4. ASSUME NEW b \in Conn PROVE GoroutineOK(serve[b], conn[b], watcher[b], stream[b])'
      <4>1. CASE b = c
        BY <2>9, <3>1, <3>2, <3>3, <4>1, Zenon DEF GoroutineOK
      <4>2. CASE b # c
        <5>1. GoroutineOK(serve[b], conn[b], watcher[b], stream[b])
          BY Zenon DEF PeerOK, GoroutineOK
        <5> QED BY <2>4, <2>9, <3>1, <4>2, <5>1, Zenon
      <4> QED BY <4>1, <4>2, Zenon
    <3>5. loop.pc = "attach" => serve'[loop.client].pc = "none"
      <4>1. loop.pc = "attach" => loop.client \in Conn /\ serve[loop.client].pc = "none"
        BY Zenon DEF PeerOK
      <4>2. loop.pc = "attach" => loop.client # c
        BY <3>1, <4>1, Zenon
      <4> QED BY <2>9, <4>1, <4>2, Zenon
    <3> QED BY <2>9, <3>1, <3>4, <3>5, ZenonT(30) DEF PeerOK, GoroutineOK
  <2>8. MirrorOK'
    BY <2>1, <2>2, <2>4, ZenonT(30) DEF MirrorOK, MirrorCurrent
  <2> QED BY <2>5, <2>6, <2>7, <2>8
<1>2. CASE ReadChanges(c)
  <2>1. /\ serve[c].pc = "read"
        /\ UNCHANGED <<lastTargetID, pub, endpoint, watcher, conn, failed, loop,
                       mirror, request, dropped>>
    BY <1>2, ZenonT(30) DEF ReadChanges, server, remotes
  <2>2. \/ /\ stream[c] # <<>>
           /\ serve' = [serve EXCEPT ![c] = [pc |-> "got", batch |-> Head(stream[c])]]
           /\ stream' = [stream EXCEPT ![c] = Tail(@)]
        \/ /\ serve' = [serve EXCEPT ![c] = [pc |-> "detach", batch |-> NoBatch]]
           /\ stream' = [stream EXCEPT ![c] = <<>>]
    BY <1>2 DEF ReadChanges, Serving
  <2>3. stream[c] \in Seq(Batches) /\ Len(stream[c]) <= StreamRoom
    BY DEF StreamOK
  <2>4. stream[c] # <<>> => /\ Head(stream[c]) \in Batches
                            /\ Tail(stream[c]) \in Seq(Batches)
                            /\ Len(Tail(stream[c])) <= StreamRoom
    BY <2>3, DiscoveryParameters
  <2>5. StreamOK'
    <3>1. <<>> \in Seq(Batches) /\ Len(<<>>) <= StreamRoom
      BY DiscoveryParameters
    <3>2. PICK s \in Seq(Batches) : /\ stream' = [stream EXCEPT ![c] = s]
                                    /\ Len(s) <= StreamRoom
      BY <2>2, <2>4, <3>1, Zenon
    <3> QED BY <3>2 DEF StreamOK
  <2>6. /\ \A b \in Conn : b # c => stream'[b] = stream[b] /\ serve'[b] = serve[b]
        /\ DOMAIN serve' = Conn /\ DOMAIN serve'[c] = {"pc", "batch"}
        /\ serve'[c].pc \in {"got", "detach"}
        /\ serve'[c].pc = "got" => serve'[c].batch \in Batches /\ stream[c] # <<>>
        /\ serve'[c].pc = "detach" => stream'[c] = <<>>
    <3>1. PICK g, s : /\ serve' = [serve EXCEPT ![c] = g]
                      /\ stream' = [stream EXCEPT ![c] = s]
                      /\ \/ /\ stream[c] # <<>>
                            /\ g = [pc |-> "got", batch |-> Head(stream[c])]
                         \/ g = [pc |-> "detach", batch |-> NoBatch] /\ s = <<>>
      BY <2>2, Zenon
    <3>2. /\ DOMAIN g = {"pc", "batch"} /\ g.pc \in {"got", "detach"}
          /\ g.pc = "got" => g.batch \in Batches /\ stream[c] # <<>>
          /\ g.pc = "detach" => s = <<>>
      BY <2>4, <3>1
    <3>3. DOMAIN serve = Conn /\ DOMAIN stream = Conn
      BY Zenon DEF PeerOK, StreamOK
    <3>4. /\ serve'[c] = g /\ stream'[c] = s /\ DOMAIN serve' = Conn
          /\ \A b \in Conn : b # c => stream'[b] = stream[b] /\ serve'[b] = serve[b]
      BY <3>1, <3>3, Zenon
    <3> QED BY <3>2, <3>4, Zenon
  <2>7. ServerOK' /\ WatcherOK' /\ RequestOK'
    BY <2>1 DEF ServerOK, WatcherOK, RequestOK, EndpointsOf
  <2>8. PeerOK'
    <3>1. /\ conn' = conn /\ failed' = failed /\ loop' = loop
          /\ watcher' = watcher /\ serve[c].pc = "read"
      BY <2>1, Zenon
    <3>2. /\ conn[c] # "unused"
          /\ watcher[c].state = "none" => serve'[c].pc = "detach"
          /\ watcher[c].state = "asked" => serve'[c].pc = "detach"
      BY <2>6, <3>1, Zenon DEF PeerOK
    <3>3. ASSUME NEW b \in Conn, b # c
          PROVE  /\ serve'[b] = serve[b] /\ stream'[b] = stream[b]
                 /\ conn'[b] = conn[b] /\ watcher'[b] = watcher[b]
      BY <2>6, <3>1, <3>3, Zenon
    <3>4. /\ serve'[c].pc \notin {"none", "start"} /\ conn'[c] # "unused"
          /\ serve'[c].pc \in {"got", "detach"}
          /\ watcher'[c].state \in {"none", "asked"} =>
                stream'[c] = <<>> /\ serve'[c].pc # "got"
      BY <2>6, <3>1, <3>2, Zenon
    <3>5. ASSUME NEW b \in Conn PROVE GoroutineOK(serve[b], conn[b], watcher[b], stream[b])'
      <4>1. CASE b = c
        BY <2>6, <3>4, <4>1, Zenon DEF GoroutineOK
      <4>2. CASE b # c
        <5>1. GoroutineOK(serve[b], conn[b], watcher[b], stream[b])
          BY Zenon DEF PeerOK, GoroutineOK
        <5> QED BY <3>3, <4>2, <5>1, Zenon
      <4> QED BY <4>1, <4>2, Zenon
    <3> QED BY <2>6, <3>1, <3>5, Zenon DEF PeerOK, GoroutineOK
  <2>9. MirrorOK'
    BY <2>1, ZenonT(30) DEF MirrorOK, MirrorCurrent
  <2> QED BY <2>5, <2>7, <2>8, <2>9, ZenonT(30)
<1>3. CASE DetachClient(c)
  <2>1. /\ serve[c].pc = "detach" /\ Update(Detach(mirror, c))
        /\ serve' = [serve EXCEPT ![c] = [pc |-> "close", batch |-> NoBatch]]
        /\ UNCHANGED <<lastTargetID, pub, endpoint, watcher, conn, stream, failed,
                       loop, dropped>>
    BY <1>3 DEF DetachClient, Serving, server
  <2>2. RequestOK'
    BY <2>1, UpdateOK
  <2>3. mirror' = Detach(mirror, c)
    BY <2>1 DEF Update
  <2>4. MirrorOK'
    BY <2>1, <2>3, DetachPlace
  <2>5. ServerOK' /\ WatcherOK' /\ StreamOK'
    BY <2>1, ServerFrame, Zenon
  <2>6. PeerOK'
    BY <2>1, ZenonT(30) DEF PeerOK
  <2> QED BY <2>2, <2>4, <2>5, <2>6
<1>4. CASE CloseClient(c)
  <2>1. /\ serve[c].pc = "close"
        /\ serve' = [serve EXCEPT ![c] = [pc |-> "done", batch |-> NoBatch]]
        /\ conn' = [conn EXCEPT ![c] = "closed"]
        /\ stream' = [stream EXCEPT ![c] = <<>>]
        /\ UNCHANGED <<lastTargetID, pub, endpoint, watcher, failed, loop, mirror,
                       request, dropped>>
    BY <1>4, Zenon DEF CloseClient, Serving, server, remotes
  <2>2. ServerOK' /\ WatcherOK' /\ RequestOK'
    BY <2>1 DEF ServerOK, WatcherOK, RequestOK, EndpointsOf
  <2>3. StreamOK'
    <3>1. <<>> \in Seq(Batches) /\ Len(<<>>) <= StreamRoom
      BY DiscoveryParameters
    <3>2. stream' = [stream EXCEPT ![c] = <<>>]
      BY <2>1, Zenon
    <3> QED BY <3>1, <3>2, Zenon DEF StreamOK
  <2>4. PeerOK'
    BY <2>1 DEF PeerOK, StreamOK
  <2>5. MirrorOK'
    BY <2>1, Zenon DEF MirrorOK, MirrorCurrent
  <2> QED BY <2>2, <2>3, <2>4, <2>5
<1>5. CASE ProcessChanges(c) /\ WrongClient(c)
  <2>1. /\ serve[c].pc = "got"
        /\ serve' = [serve EXCEPT ![c] = [pc |-> "detach", batch |-> NoBatch]]
        /\ UNCHANGED <<lastTargetID, pub, endpoint, watcher, conn, stream, failed,
                       loop, mirror, request, dropped>>
    BY <1>5, Zenon DEF ProcessChanges, Serving, server, remotes
  <2>2. ServerOK' /\ WatcherOK' /\ StreamOK' /\ RequestOK'
    BY <2>1, ServerFrame, RequestFrame, Zenon
  <2>3. PeerOK'
    BY <2>1, Zenon DEF PeerOK
  <2>4. MirrorOK'
    BY <2>1, Zenon DEF MirrorOK, MirrorCurrent
  <2> QED BY <2>2, <2>3, <2>4
<1>6. CASE ProcessChanges(c) /\ ~WrongClient(c)
  <2> DEFINE b == serve[c].batch
             m == ApplyChanges(mirror, b)
             near == Near(b.changed)
  <2>1. /\ serve[c].pc = "got" /\ mirror.client = c
        /\ serve' = [serve EXCEPT ![c] = [pc |-> "read", batch |-> NoBatch]]
        /\ Update(m) /\ dropped' = dropped \ DOMAIN b.changed
        /\ UNCHANGED <<lastTargetID, pub, endpoint, watcher, conn, stream, failed,
                       loop>>
    BY <1>6 DEF ProcessChanges, WrongClient, Serving, server
  <2>2. RequestOK'
    BY <2>1, UpdateOK
  <2>3. mirror' = m
    BY <2>1, Zenon DEF Update
  <2>4. b \in Batches /\ watcher[c].state \notin {"none", "asked"}
    BY <2>1, Zenon DEF PeerOK
  <2>0. Current(mirror)
    BY MirrorIsCurrent
  <2>5. /\ Current(m) /\ m.client = mirror.client
        /\ \A t \in DOMAIN m.remotes :
              \/ t \in DOMAIN mirror.remotes /\ m.remotes[t] = mirror.remotes[t]
              \/ /\ t \in DOMAIN near
                 /\ m.remotes[t] = [target |-> t, name |-> near[t].name,
                                    priority |-> near[t].priority,
                                    client |-> mirror.client]
    <3>1. Applied(mirror, m, b)
      BY <2>0, ApplyOK, Zenon
    <3> HIDE DEF m, b, PlaceInv
    <3> QED BY <3>1, Zenon DEF Applied
  <2>6. \A t \in DOMAIN near : t \in Target /\ near[t] \in ServiceRecord
    BY <2>4, NearOK, Zenon
  <2> HIDE DEF b, m, near
  <2>7. \A t \in DOMAIN m.remotes : m.remotes[t] \in Remote /\ t \in Target
    <3>1. \A t \in DOMAIN near :
             [target |-> t, name |-> near[t].name, priority |-> near[t].priority,
              client |-> mirror.client] \in Remote
      BY <2>1, <2>6, ZenonT(30) DEF Remote, ServiceRecord, Target
    <3>2. \A t \in DOMAIN mirror.remotes :
             mirror.remotes[t] \in Remote /\ t \in Target
      BY Zenon DEF MirrorOK
    <3> HIDE DEF PlaceInv
    <3> QED BY <2>5, <2>6, <3>1, <3>2, Zenon
  <2>8. m.remotes \in [DOMAIN m.remotes -> Remote] /\ DOMAIN m.remotes \subseteq Target
    BY <2>5, <2>7, Zenon DEF Current
  <2>9. MirrorCurrent'
    BY <2>3, <2>5 DEF Current, MirrorCurrent
  <2>10. c # NoConn
    BY DEF Conn, NoConn
  <2>11. MirrorOK'
    BY <2>1, <2>3, <2>4, <2>5, <2>8, <2>9, <2>10, Zenon DEF MirrorOK, Current
  <2>12. ServerOK' /\ WatcherOK' /\ StreamOK'
    BY <2>1, ServerFrame, Zenon
  <2>13. PeerOK'
    BY <2>1, Zenon DEF PeerOK
  <2> QED BY <2>2, <2>11, <2>12, <2>13
<1> QED BY <1>1, <1>2, <1>3, <1>4, <1>5, <1>6 DEF ServeClient

\* Requests
LEMMA RequestPlace ==
    ASSUME PlaceInv, NEW r \in Request, Choose(r) \/ Serve(r)
    PROVE  PlaceInv'
<1> USE DEF PlaceInv
<1> DEFINE Req == [pc : {"idle", "open", "failed", "retry"},
                   remote : Remote \cup {NoRemote}, gone : BOOLEAN]
<1>1. /\ UNCHANGED <<lastTargetID, pub, endpoint, watcher, conn, stream, failed,
                     loop, serve>>
  BY Zenon DEF Choose, Serve, OpenStream, ForceRemove, Retry, server
<1>2. ServerOK' /\ WatcherOK' /\ StreamOK'
  BY <1>1, ServerFrame, Zenon
<1>3. PeerOK'
  BY <1>1, Zenon DEF PeerOK
<1>4. CASE Choose(r) \/ OpenStream(r) \/ Retry(r)
  <2>1. UNCHANGED <<mirror, dropped>>
    BY <1>4, Zenon DEF Choose, OpenStream, Retry
  <2>2. MirrorOK'
    BY <1>1, <2>1, Zenon DEF MirrorOK, MirrorCurrent
  <2>3. \A x \in Best(mirror.listed) : x \in Range(mirror.remotes) /\ x \in Remote
    <3>1. /\ mirror.listed = Range(mirror.remotes)
          /\ mirror.remotes \in [DOMAIN mirror.remotes -> Remote]
      BY Zenon DEF MirrorOK, MirrorCurrent
    <3>2. \A x \in Range(mirror.remotes) : x \in Remote
      BY <3>1, Zenon DEF Range
    <3> QED BY <3>1, <3>2, Zenon DEF Best
  <2>4. PICK q : /\ request' = [request EXCEPT ![r] = q] /\ q \in Req
                 /\ q.pc \in {"open", "failed"} /\ ~q.gone =>
                       q.remote \in Range(mirror.remotes)
                 /\ q.pc # "retry"
    <3>1. CASE Choose(r)
      <4>1. PICK x \in Best(mirror.listed) :
               request' = [request EXCEPT ![r] =
                              [pc |-> "open", remote |-> x, gone |-> FALSE]]
        BY <3>1, Zenon DEF Choose
      <4> DEFINE q == [pc |-> "open", remote |-> x, gone |-> FALSE]
      <4>2. q \in Req /\ q.pc = "open" /\ q.remote = x
        BY <2>3
      <4>3. request' = [request EXCEPT ![r] = q]
        BY <4>1
      <4> HIDE DEF q, Req
      <4> QED BY <2>3, <4>2, <4>3, Zenon
    <3>2. CASE request' = [request EXCEPT ![r] = NoRequest]
      <4>1. NoRequest \in Req /\ NoRequest.pc = "idle"
        BY DEF NoRequest
      <4> QED BY <3>2, <4>1, Zenon
    <3>3. CASE /\ request[r].pc = "open"
               /\ request' = [request EXCEPT ![r].pc = "failed"]
      <4> DEFINE q == [request[r] EXCEPT !.pc = "failed"]
      <4>1. /\ request' = [request EXCEPT ![r] = q] /\ q \in Req
            /\ q.pc = "failed" /\ q.gone = request[r].gone
            /\ q.remote = request[r].remote
        BY <3>3 DEF RequestOK
      <4> HIDE DEF q
      <4>2. ~q.gone => q.remote \in Range(mirror.remotes)
        BY <3>3, <4>1 DEF RequestOK
      <4> QED BY <4>1, <4>2, Zenon
    <3> QED BY <1>4, <3>1, <3>2, <3>3 DEF OpenStream, Retry
  <2> HIDE DEF Req
  <2>5. request' \in [Request -> Req]
    BY <2>4, ZenonT(30) DEF RequestOK, Req
  <2>6. RequestOK'
    BY <2>1, <2>4, <2>5 DEF RequestOK, Req
  <2> QED BY <1>2, <1>3, <2>2, <2>6
<1>5. CASE ForceRemove(r)
  <2> DEFINE t == request[r].remote.target
             m == IF request[r].gone THEN mirror ELSE RemoveRemotes(mirror, {t})
             lost == Range(mirror.remotes) \ Range(m.remotes)
  <2>1. /\ request[r].pc = "failed" /\ mirror' = m
        /\ dropped' = dropped \cup {x.target : x \in lost}
        /\ request' = [q \in Request |->
              [request[q] EXCEPT !.gone = @ \/ request[q].remote \in lost,
                                 !.pc = IF q = r THEN "retry" ELSE @]]
    BY <1>5, Zenon DEF ForceRemove
  <2>2. Current(mirror)
    BY MirrorIsCurrent, Zenon
  <2>3. /\ Current(m) /\ m.client = mirror.client
        /\ DOMAIN m.remotes \subseteq DOMAIN mirror.remotes
        /\ \A s \in DOMAIN m.remotes : m.remotes[s] = mirror.remotes[s]
        /\ ~request[r].gone => t \notin DOMAIN m.remotes
    <3>1. Without(mirror, t, request[r].gone, m)
      BY <2>2, ForcedOK, Zenon
    <3> HIDE DEF m, t
    <3> QED BY <3>1, Zenon DEF Without
  <2> HIDE DEF m
  <2>4. \A x \in lost : x \in Remote
    BY Zenon DEF MirrorOK, Range
  <2>5. ~request[r].gone => request[r].remote \in lost
    <3>1. SUFFICES ASSUME ~request[r].gone, request[r].remote \in Range(m.remotes)
                   PROVE  FALSE
      BY <2>1, Zenon DEF RequestOK
    <3>2. PICK s \in DOMAIN m.remotes : request[r].remote = m.remotes[s]
      BY <3>1 DEF Range
    <3>3. s = t
      BY <2>3, <3>2 DEF Current
    <3> QED BY <2>3, <3>1, <3>2, <3>3
  <2> HIDE DEF t, lost
  <2>6. MirrorOK'
    <3>1. m.remotes \in [DOMAIN m.remotes -> Remote]
      BY <2>3 DEF Current, MirrorOK
    <3>2. {x.target : x \in lost} \subseteq Target
      BY <2>4 DEF Remote, Target
    <3>3. MirrorCurrent'
      BY <2>1, <2>3, Zenon DEF Current, MirrorCurrent
    <3> QED BY <1>1, <2>1, <2>3, <3>1, <3>2, <3>3, Zenon DEF MirrorOK, Current
  <2>7. \A q \in Request :
           /\ request'[q] \in Req
           /\ request'[q].gone = (request[q].gone \/ request[q].remote \in lost)
           /\ request'[q].remote = request[q].remote
           /\ q # r => request'[q].pc = request[q].pc
           /\ q = r => request'[q].pc = "retry"
    BY <2>1, Zenon DEF RequestOK
  <2> HIDE DEF Req
  <2>8. request' \in [Request -> Req]
    BY <2>1, <2>7, Zenon
  <2>9. RequestOK'
    BY <2>1, <2>5, <2>7, <2>8, Zenon DEF RequestOK, Req, lost
  <2> QED BY <1>2, <1>3, <2>6, <2>9
<1> QED BY <1>4, <1>5 DEF Serve

\* What the goroutines know of each other holds in every state.
THEOREM Places == Spec => []PlaceInv
<1>1. Init => PlaceInv
  <2> SUFFICES ASSUME Init PROVE PlaceInv
    OBVIOUS
  <2> USE DiscoveryParameters DEF Init
  <2>1. ServerOK
    BY DEF ServerOK, EndpointsOf
  <2>2. WatcherOK
    BY ZenonT(30) DEF WatcherOK, Watcher, NoWatcher
  <2>3. StreamOK
    BY DEF StreamOK
  <2>4. PeerOK
    BY Zenon DEF PeerOK, NoServe, NoWatcher, NoConn, NoBatch
  <2>5. MirrorOK
    BY DEF MirrorOK, MirrorCurrent, NoMirror, Range, Conn, NoConn
  <2>6. RequestOK
    BY DEF RequestOK, NoRequest
  <2> QED BY <2>1, <2>2, <2>3, <2>4, <2>5, <2>6 DEF PlaceInv
<1>2. PlaceInv /\ [Next]_vars => PlaceInv'
  <2> SUFFICES ASSUME PlaceInv, [Next]_vars PROVE PlaceInv'
    OBVIOUS
  <2>1. CASE Applications
    BY <2>1, PublishPlace, UnpublishPlace DEF Applications
  <2>2. CASE \E c \in Conn : Break(c) \/ StreamServices(c) \/ StopWatcher(c)
    BY <2>2, WatchPlace
  <2>8. CASE Restart
    BY <2>8, RestartPlace
  <2>3. CASE \E c \in Conn : SendChanges(c)
    BY <2>3, SendPlace
  <2>4. CASE ConnectLoop \/ CloseOnFailure \/ ClosePeer
    BY <2>4, LoopPlace
  <2>5. CASE \E c \in Conn : ServeClient(c)
    BY <2>5, ServePlace
  <2>6. CASE \E r \in Request : Choose(r) \/ Serve(r)
    BY <2>6, RequestPlace
  <2>7. CASE UNCHANGED vars
    <3>1. /\ lastTargetID' = lastTargetID /\ pub' = pub /\ endpoint' = endpoint
          /\ watcher' = watcher /\ conn' = conn /\ stream' = stream
          /\ failed' = failed /\ loop' = loop /\ serve' = serve
          /\ mirror' = mirror /\ request' = request /\ dropped' = dropped
      BY <2>7 DEF vars, server, remotes
    <3>2. ServerOK' = ServerOK /\ WatcherOK' = WatcherOK /\ StreamOK' = StreamOK
      BY <3>1, Zenon DEF ServerOK, WatcherOK, StreamOK, EndpointsOf
    <3>3. PeerOK' = PeerOK
      BY <3>1, Zenon DEF PeerOK
    <3>4. MirrorOK' = MirrorOK
      BY <3>1, Zenon DEF MirrorOK, MirrorCurrent, EndpointsOf
    <3>5. RequestOK' = RequestOK
      BY <3>1, Zenon DEF RequestOK
    <3> QED BY <3>2, <3>3, <3>4, <3>5 DEF PlaceInv
  <2> QED BY <2>1, <2>2, <2>3, <2>4, <2>5, <2>6, <2>7, <2>8 DEF Next, Watch
<1> QED BY <1>1, <1>2, PTL DEF Spec

-----------------------------------------------------------------------------
\* Words about a target


\* No batch of s mentions t; the i-th is the last one that does.
Silent(s, t) == \A j \in 1 .. Len(s) : ~Mentions(s[j], t)
LastWord(s, t, i) ==
    /\ i \in 1 .. Len(s) /\ Mentions(s[i], t)
    /\ \A j \in 1 .. Len(s) : j > i => ~Mentions(s[j], t)

\* The stream will say nothing more of t.
Settled(c, t) == t \notin watcher[c].removed \cup watcher[c].changed

\* What the last batch that mentions t says of it.
WordOK(c, batch, t) ==
    /\ t \notin watcher[c].sent => t \notin DOMAIN batch.changed
    /\ Settled(c, t) => IsTrueOf(Near(batch.changed), t)

\* What the peer knows of t when no batch mentions it.
KnownOK(c, t) ==
    /\ t \notin watcher[c].sent => t \notin DOMAIN mirror.remotes
    /\ Settled(c, t) => t \in dropped \/ IsTrueOf(mirror.remotes, t)

GotWord(c, t) == serve[c].pc = "got" /\ Mentions(serve[c].batch, t)

ToldOK(c, t) ==
    /\ t \in watcher[c].removed => t \notin Reachable
    /\ \A i \in 1 .. Len(stream[c]) :
          LastWord(stream[c], t, i) => WordOK(c, stream[c][i], t)
    /\ Silent(stream[c], t) /\ GotWord(c, t) => WordOK(c, serve[c].batch, t)
    /\ Silent(stream[c], t) /\ ~GotWord(c, t) => KnownOK(c, t)

ToldInv == \A c \in Conn : Connected(c) => \A t \in Target : ToldOK(c, t)

-----------------------------------------------------------------------------
\* Every action keeps ToldInv

\* u is s with the batch b behind: what it says of t, and where it said it last.
Appended(s, u, b, t) ==
    /\ Silent(u, t) <=> Silent(s, t) /\ ~Mentions(b, t)
    /\ \A i \in 1 .. Len(u) :
          LastWord(u, t, i) =>
             \/ Mentions(b, t) /\ u[i] = b
             \/ /\ ~Mentions(b, t) /\ i \in 1 .. Len(s)
                /\ u[i] = s[i] /\ LastWord(s, t, i)

\* A batch at the end of a stream
LEMMA AppendWords ==
    ASSUME NEW s \in Seq(Batches), NEW b \in Batches, NEW t
    PROVE  Appended(s, Append(s, b), b, t)
<1> DEFINE u == Append(s, b)
           n == Len(s)
<1>1. /\ n \in Nat /\ Len(u) = n + 1 /\ u[n + 1] = b
      /\ \A i \in 1 .. n : u[i] = s[i]
  OBVIOUS
<1> HIDE DEF u
<1>2. \A i \in 1 .. Len(u) : i = n + 1 \/ i \in 1 .. n
  BY <1>1
<1>3. n + 1 \in 1 .. Len(u) /\ \A i \in 1 .. n : i \in 1 .. Len(u) /\ n + 1 > i
  BY <1>1
<1>4. Silent(u, t) <=> Silent(s, t) /\ ~Mentions(b, t)
  BY <1>1, <1>2, <1>3, ZenonT(30) DEF Silent
<1>5. ASSUME NEW i \in 1 .. Len(u), LastWord(u, t, i)
      PROVE  \/ Mentions(b, t) /\ u[i] = b
             \/ /\ ~Mentions(b, t) /\ i \in 1 .. Len(s)
                /\ u[i] = s[i] /\ LastWord(s, t, i)
  <2>1. CASE i = n + 1
    BY <1>1, <1>5, <2>1 DEF LastWord
  <2>2. CASE i \in 1 .. n
    BY <1>1, <1>3, <1>5, <2>2 DEF LastWord
  <2> QED BY <1>2, <2>1, <2>2
<1> QED BY <1>4, <1>5, Zenon DEF u, Appended

\* A batch that is read from a stream
LEMMA TailWords ==
    ASSUME NEW s \in Seq(Batches), s # <<>>, NEW t
    PROVE  LET u == Tail(s)
           IN /\ Silent(s, t) <=> Silent(u, t) /\ ~Mentions(Head(s), t)
              /\ Silent(u, t) /\ Mentions(Head(s), t) =>
                    /\ 1 \in 1 .. Len(s) /\ Head(s) = s[1]
                    /\ LastWord(s, t, 1)
              /\ \A i \in 1 .. Len(u) :
                    LastWord(u, t, i) => /\ i + 1 \in 1 .. Len(s) /\ u[i] = s[i + 1]
                                         /\ LastWord(s, t, i + 1)
<1> DEFINE u == Tail(s)
           n == Len(u)
<1>1. /\ n \in Nat /\ Len(s) = n + 1 /\ s[1] = Head(s)
      /\ \A i \in 1 .. n : u[i] = s[i + 1]
  OBVIOUS
<1> HIDE DEF u
<1>2. \A i \in 1 .. Len(s) : i = 1 \/ (i > 1 /\ i - 1 \in 1 .. n /\ s[i] = u[i - 1])
  BY <1>1
<1>3. 1 \in 1 .. Len(s) /\ \A i \in 1 .. n : i + 1 \in 1 .. Len(s) /\ i + 1 > 1
  BY <1>1
<1>4. Silent(s, t) <=> Silent(u, t) /\ ~Mentions(Head(s), t)
  BY <1>1, <1>2, <1>3 DEF Silent
<1>5. Silent(u, t) /\ Mentions(Head(s), t) => LastWord(s, t, 1)
  BY <1>1, <1>2, <1>3 DEF Silent, LastWord
<1>6. ASSUME NEW i \in 1 .. n, LastWord(u, t, i)
      PROVE  /\ i + 1 \in 1 .. Len(s) /\ u[i] = s[i + 1]
             /\ LastWord(s, t, i + 1)
  <2>1. Mentions(s[i + 1], t)
    BY <1>1, <1>6 DEF LastWord
  <2>2. ASSUME NEW j \in 1 .. Len(s), j > i + 1 PROVE ~Mentions(s[j], t)
    BY <1>1, <1>2, <1>6, <2>2 DEF LastWord
  <2> QED BY <1>1, <1>3, <2>1, <2>2 DEF LastWord
<1> QED BY <1>1, <1>3, <1>4, <1>5, <1>6, Zenon DEF u, n

\* Nothing is said or done about what the peer is told.
LEMMA ToldFrame ==
    ASSUME ToldInv, UNCHANGED <<pub, endpoint, dropped>>,
           mirror'.remotes = mirror.remotes,
           \A c \in Conn : Connected(c)' => /\ Connected(c)
                                            /\ watcher'[c] = watcher[c]
                                            /\ stream'[c] = stream[c]
                                            /\ serve'[c] = serve[c]
    PROVE  ToldInv'
<1> SUFFICES ASSUME NEW c \in Conn, Connected(c)', NEW t \in Target
             PROVE  ToldOK(c, t)'
  BY Zenon DEF ToldInv
<1>1. /\ Connected(c) /\ watcher'[c] = watcher[c]
      /\ stream'[c] = stream[c] /\ serve'[c] = serve[c]
  BY Zenon
<1>2. ToldOK(c, t)
  BY <1>1, Zenon DEF ToldInv
<1>3. Reachable' = Reachable
  <2>1. ASSUME NEW s PROVE EndpointsOf(s)' = EndpointsOf(s)
    BY Zenon DEF EndpointsOf
  <2>2. ASSUME NEW s PROVE Service(s)' = Service(s)
    BY <2>1, Zenon DEF Service
  <2> QED BY <2>2, Zenon DEF Reachable
<1>4. IsTrueOf(mirror.remotes, t)' <=> IsTrueOf(mirror.remotes, t)
  BY <1>3, Zenon DEF IsTrueOf
<1>5. KnownOK(c, t)' <=> KnownOK(c, t)
  BY <1>1, <1>4, ZenonT(30) DEF KnownOK, Settled
<1> QED BY <1>1, <1>2, <1>3, <1>5, Zenon DEF ToldOK, WordOK, Settled, IsTrueOf, GotWord

\* Steps after which a client hears nothing, or nothing of what it hears changed
LEMMA LoopTold ==
    ASSUME PlaceInv, ToldInv,
           ConnectLoop \/ CloseOnFailure \/ ClosePeer \/ Restart
    PROVE  ToldInv'
<1> USE DEF PlaceInv
<1>1. CASE CheckFailed \/ DialFails \/ Sleep
  <2>1. UNCHANGED <<pub, endpoint, dropped, mirror, watcher, stream, serve, conn,
                    failed>>
    BY <1>1, Zenon DEF CheckFailed, DialFails, Sleep, server, remotes
  <2> QED BY <2>1, ToldFrame, Zenon DEF Connected
<1>2. CASE Dial
  <2>1. /\ loop.pc = "dial"
        /\ UNCHANGED <<pub, endpoint, watcher, stream, failed, serve, mirror, dropped>>
    BY <1>2, Zenon DEF Dial, server, remotes
  <2>2. mirror'.client = NoConn
    BY <2>1, Zenon DEF MirrorOK
  <2>3. \A c \in Conn : ~Connected(c)'
    BY <2>2 DEF Connected, Conn, NoConn
  <2> QED BY <2>3 DEF ToldInv
<1>3. CASE AttachClient
  <2>1. /\ loop.pc = "attach" /\ UNCHANGED watcher
        /\ mirror' = [mirror EXCEPT !.client = loop.client]
    BY <1>3 DEF AttachClient, Update
  <2>2. loop.client \in Conn /\ watcher[loop.client].state = "none"
    BY <2>1 DEF PeerOK
  <2>3. mirror'.client = loop.client
    BY <2>1 DEF MirrorOK
  <2>4. \A c \in Conn : ~Connected(c)'
    BY <2>1, <2>2, <2>3 DEF Connected
  <2> QED BY <2>4 DEF ToldInv
<1>4. CASE ClientDone
  <2>1. loop.pc = "wait" /\ mirror' = Detach(mirror, loop.client)
    BY <1>4, Zenon DEF ClientDone, Update
  <2>2. Current(mirror) /\ (mirror.client = loop.client \/ mirror.client = NoConn)
    BY <2>1, MirrorIsCurrent, ZenonT(30) DEF MirrorOK
  <2>3. mirror'.client = NoConn
    BY <2>1, <2>2, DetachOK
  <2>4. \A c \in Conn : ~Connected(c)'
    BY <2>3 DEF Connected, Conn, NoConn
  <2> QED BY <2>4 DEF ToldInv
<1>5. CASE CloseOnFailure
  <2>1. /\ failed /\ UNCHANGED failed
    BY <1>5, ZenonT(30) DEF CloseOnFailure
  <2> QED BY <2>1 DEF ToldInv, Connected
<1>6. CASE ClosePeer
  BY <1>6 DEF ClosePeer, ToldInv, Connected
<1>7. CASE Restart
  <2>1. \A c \in Conn : conn'[c] # "up"
    BY <1>7 DEF Restart
  <2> QED BY <2>1 DEF ToldInv, Connected
<1> QED BY <1>1, <1>2, <1>3, <1>4, <1>5, <1>6, <1>7, Zenon DEF ConnectLoop

\* Steps of a connection that say nothing to the peer.
LEMMA ServeTold ==
    ASSUME PlaceInv, ToldInv, NEW c \in Conn,
           \/ StopWatcher(c) \/ Break(c) \/ AskChanges(c) \/ DetachClient(c)
           \/ CloseClient(c) \/ (ProcessChanges(c) /\ WrongClient(c))
    PROVE  ToldInv'
<1> USE DEF PlaceInv
<1>1. CASE StopWatcher(c)
  <2>1. /\ watcher' = [watcher EXCEPT ![c] = [NoWatcher EXCEPT !.state = "closed"]]
        /\ UNCHANGED <<pub, endpoint, conn, stream, failed, serve, mirror, dropped>>
    BY <1>1 DEF StopWatcher, server, remotes
  <2>2. watcher'[c].state = "closed" /\ \A b \in Conn : b # c => watcher'[b] = watcher[b]
    BY <2>1 DEF WatcherOK, NoWatcher
  <2> QED BY <2>1, <2>2, ToldFrame DEF Connected
<1>2. CASE Break(c)
  <2>1. /\ conn' = [conn EXCEPT ![c] = "closed"]
        /\ UNCHANGED <<pub, endpoint, watcher, stream, failed, serve, mirror, dropped>>
    BY <1>2 DEF Break, server, remotes
  <2> QED BY <2>1, ToldFrame, Zenon DEF Connected, PeerOK
<1>3. CASE AskChanges(c)
  <2>1. /\ serve[c].pc = "start"
        /\ UNCHANGED <<pub, endpoint, conn, stream, failed, mirror, dropped>>
    BY <1>3, Zenon DEF AskChanges, server, remotes
  <2>2. watcher[c].state = "none"
    BY <2>1, ZenonT(30) DEF PeerOK
  <2>3. /\ watcher'[c].state # "open"
        /\ \A b \in Conn : b # c => watcher'[b] = watcher[b] /\ serve'[b] = serve[b]
    BY <1>3, <2>2 DEF AskChanges, Serving, WatcherOK, Watcher, PeerOK
  <2> QED BY <2>1, <2>3, ToldFrame, Zenon DEF Connected
<1>4. CASE DetachClient(c)
  <2>1. /\ mirror' = Detach(mirror, c)
        /\ serve' = [serve EXCEPT ![c] = [pc |-> "close", batch |-> NoBatch]]
        /\ UNCHANGED <<pub, endpoint, watcher, conn, stream, failed, dropped>>
    BY <1>4 DEF DetachClient, Update, Serving, server
  <2>2. Current(mirror)
    BY MirrorIsCurrent
  <2>3. CASE mirror.client = c
    <3>1. mirror'.client = NoConn
      BY <2>1, <2>2, <2>3, DetachOK
    <3>2. \A b \in Conn : b # NoConn
      BY DEF Conn, NoConn
    <3> QED BY <3>1, <3>2, Zenon DEF ToldInv, Connected
  <2>4. CASE mirror.client # c
    <3>1. mirror' = mirror
      BY <2>1, <2>4 DEF Detach
    <3> QED BY <2>1, <2>4, <3>1, ToldFrame, Zenon DEF Connected, PeerOK
  <2> QED BY <2>3, <2>4
<1>5. CASE CloseClient(c)
  <2>1. /\ serve' = [serve EXCEPT ![c] = [pc |-> "done", batch |-> NoBatch]]
        /\ conn' = [conn EXCEPT ![c] = "closed"]
        /\ stream' = [stream EXCEPT ![c] = <<>>]
        /\ UNCHANGED <<pub, endpoint, watcher, failed, mirror, dropped>>
    BY <1>5 DEF CloseClient, Serving, server, remotes
  <2> QED BY <2>1, ToldFrame, Zenon DEF Connected, PeerOK, StreamOK
<1>6. CASE ProcessChanges(c) /\ WrongClient(c)
  <2>1. /\ serve' = [serve EXCEPT ![c] = [pc |-> "detach", batch |-> NoBatch]]
        /\ UNCHANGED <<pub, endpoint, watcher, conn, stream, failed, mirror, dropped>>
    BY <1>6 DEF ProcessChanges, Serving, server, remotes
  <2> QED BY <1>6, <2>1, ToldFrame, Zenon DEF Connected, WrongClient, PeerOK
<1> QED BY <1>1, <1>2, <1>3, <1>4, <1>5, <1>6

\* The stream begins with everything that is published.
LEMMA StreamServicesTold ==
    ASSUME PlaceInv, ToldInv, NEW b \in Conn, StreamServices(b)
    PROVE  ToldInv'
<1> USE DEF PlaceInv
<1>1. /\ watcher[b].state = "asked"
      /\ watcher' = [watcher EXCEPT ![b] =
                        [@ EXCEPT !.state = "open", !.changed = DOMAIN pub]]
      /\ UNCHANGED <<pub, endpoint, conn, stream, failed, serve, mirror, dropped>>
  BY DEF StreamServices, server, remotes
<1>2. CASE mirror.client # b
  BY <1>1, <1>2, ToldFrame DEF Connected, WatcherOK
<1>3. CASE mirror.client = b
  <2> SUFFICES ASSUME NEW t \in Target PROVE ToldOK(b, t)'
    BY <1>1, <1>3 DEF ToldInv, Connected
  <2>1. watcher'[b].changed = DOMAIN pub /\ watcher'[b].removed = {}
    BY <1>1 DEF WatcherOK, Watcher
  <2>2. /\ stream'[b] = <<>> /\ serve'[b].pc # "got"
        /\ DOMAIN mirror'.remotes = {}
    BY <1>1, <1>3 DEF PeerOK, MirrorOK
  <2>3. t \in Reachable' => t \in watcher'[b].changed
    BY <1>1, <2>1, Zenon DEF Reachable
  <2>4. KnownOK(b, t)'
    BY <2>2, <2>3, Zenon DEF KnownOK, Settled, IsTrueOf
  <2>5. \A i \in 1 .. Len(stream'[b]) : FALSE
    BY <2>2
  <2> QED BY <2>1, <2>2, <2>4, <2>5, Zenon DEF ToldOK, GotWord
<1> QED BY <1>2, <1>3

\* What is sent is true when it is sent.
LEMMA SendTold ==
    ASSUME PlaceInv, ToldInv, NEW b \in Conn, SendChanges(b), PlaceInv'
    PROVE  ToldInv'
<1> DEFINE w == watcher[b]
<1>1. PICK S \in SUBSET w.changed :
         /\ watcher' = [watcher EXCEPT ![b] =
                           [w EXCEPT !.sent = (@ \ w.removed) \cup S,
                                     !.removed = {}, !.changed = @ \ S]]
         /\ stream' = [stream EXCEPT ![b] =
                          Append(@, [removed |-> w.removed,
                                     changed |-> [t \in S |-> Service(t)]])]
  BY Zenon DEF SendChanges, kSubset
<1>2. UNCHANGED <<pub, endpoint, conn, failed, serve, mirror, dropped>>
  BY Zenon DEF SendChanges, server, remotes
<1>0. PICK batch : batch = [removed |-> w.removed,
                            changed |-> [t \in S |-> Service(t)]]
  BY Zenon
<1>3. /\ \A c \in Conn : c # b => watcher'[c] = watcher[c] /\ stream'[c] = stream[c]
      /\ watcher'[b].sent = (w.sent \ w.removed) \cup S
      /\ watcher'[b].removed = {} /\ watcher'[b].changed = w.changed \ S
      /\ watcher'[b].state = w.state
      /\ stream'[b] = Append(stream[b], batch)
  <2>1. /\ watcher \in [Conn -> Watcher] /\ DOMAIN stream = Conn
        /\ DOMAIN w = {"state", "sent", "removed", "changed"}
    BY DEF PlaceInv, WatcherOK, Watcher, StreamOK
  <2>2. /\ \A c \in Conn : c # b => watcher'[c] = watcher[c]
        /\ watcher'[b] = [w EXCEPT !.sent = (@ \ w.removed) \cup S,
                                   !.removed = {}, !.changed = @ \ S]
    BY <1>1, <2>1, Zenon
  <2>3. /\ \A c \in Conn : c # b => stream'[c] = stream[c]
        /\ stream'[b] = Append(stream[b], batch)
    BY <1>0, <1>1, <2>1, Zenon
  <2>4. /\ watcher'[b].sent = (w.sent \ w.removed) \cup S
        /\ watcher'[b].removed = {} /\ watcher'[b].changed = w.changed \ S
        /\ watcher'[b].state = w.state
    BY <2>1, <2>2, Zenon
  <2> QED BY <2>2, <2>3, <2>4, Zenon
<1>4. CASE ~Connected(b)
  BY <1>2, <1>3, <1>4, ToldFrame DEF Connected
<1>5. CASE Connected(b)
  <2> SUFFICES ASSUME NEW t \in Target PROVE ToldOK(b, t)'
    <3>1. \A c \in Conn : Connected(c)' => c = b
      BY <1>2, <1>5, ZenonT(30) DEF Connected
    <3> QED BY <3>1, ZenonT(30) DEF ToldInv
  <2>1. ToldOK(b, t)
    BY <1>5, Zenon DEF ToldInv
  <2>2. stream[b] \in Seq(Batches) /\ S \subseteq DOMAIN pub
    BY Zenon DEF PlaceInv, StreamOK, WatcherOK
  <2>3. batch \in Batches
    <3>1. S \in SUBSET Target /\ w.removed \in SUBSET Target
      BY Zenon DEF PlaceInv, WatcherOK, Watcher
    <3>2. [s \in S |-> Service(s)] \in [S -> ServiceRecord]
      BY <2>2, ServiceOK DEF PlaceInv
    <3>3. [s \in S |-> Service(s)] \in ChangesOf
      BY <3>1, <3>2, Zenon DEF ChangesOf
    <3> QED BY <1>0, <3>1, <3>3, Zenon DEF Batches
  <2>4. /\ Mentions(batch, t) <=> t \in w.removed \cup S
        /\ t \in DOMAIN batch.changed <=> t \in S
        /\ t \in S => batch.changed[t] = Service(t)
    BY <1>0, Zenon DEF Mentions
  <2>5. Reachable' = Reachable
    BY <1>2, Zenon DEF Reachable, Service, EndpointsOf
  <2>6. LET u == stream'[b]
            s == stream[b]
        IN /\ Silent(u, t) <=> Silent(s, t) /\ ~Mentions(batch, t)
           /\ \A i \in 1 .. Len(u) :
                 LastWord(u, t, i) =>
                    \/ Mentions(batch, t) /\ u[i] = batch
                    \/ /\ ~Mentions(batch, t) /\ i \in 1 .. Len(s)
                       /\ u[i] = s[i] /\ LastWord(s, t, i)
    <3>1. Appended(stream[b], stream'[b], batch, t)
      <4>1. Appended(stream[b], Append(stream[b], batch), batch, t)
        BY <2>2, <2>3, AppendWords, Zenon
      <4>2. stream'[b] = Append(stream[b], batch)
        BY <1>3, Zenon
      <4> QED BY <4>1, <4>2
    <3> QED BY <3>1, Zenon DEF Appended
  <2>7. CASE Mentions(batch, t)
    <3>1. t \in Reachable => t \in DOMAIN pub /\ Service(t).maxDistance >= PeerDistance
      BY Zenon DEF Reachable
    <3>2. t \in S => (t \in DOMAIN Near(batch.changed) <=> t \in Reachable)
      BY <2>2, <2>4 DEF Near, Restrict, Reachable
    <3>3. t \notin S => t \notin DOMAIN Near(batch.changed) /\ t \notin Reachable
      BY <2>1, <2>4, <2>7, Zenon DEF Near, Restrict, ToldOK
    <3>4. t \in DOMAIN Near(batch.changed) =>
             /\ Near(batch.changed)[t].name = pub[t].name
             /\ Near(batch.changed)[t].priority = pub[t].priority
      <4>1. t \in DOMAIN Near(batch.changed) =>
               Near(batch.changed)[t] = batch.changed[t]
        BY Zenon DEF Near, Restrict
      <4>2. Service(t).name = pub[t].name /\ Service(t).priority = pub[t].priority
        BY Zenon DEF Service
      <4> QED BY <2>4, <3>3, <4>1, <4>2, Zenon
    <3>5. IsTrueOf(Near(batch.changed), t)'
      BY <1>2, <2>5, <3>2, <3>3, <3>4, ZenonT(30) DEF IsTrueOf, Near
    <3>6. WordOK(b, batch, t)'
      BY <1>3, <2>4, <3>5, Zenon DEF WordOK
    <3> QED BY <1>3, <2>6, <2>7, <3>6, Zenon DEF ToldOK
  <2>8. CASE ~Mentions(batch, t)
    <3>1. /\ t \in watcher'[b].sent <=> t \in w.sent
          /\ Settled(b, t)' <=> Settled(b, t)
      BY <1>3, <2>4, <2>8, Zenon DEF Settled
    <3>2. KnownOK(b, t) => KnownOK(b, t)'
      BY <1>2, <2>5, <3>1 DEF KnownOK, IsTrueOf
    <3> QED BY <1>2, <1>3, <2>1, <2>5, <2>6, <2>8, <3>1, <3>2, ZenonT(30)
            DEF ToldOK, WordOK, IsTrueOf, GotWord
  <2> QED BY <2>7, <2>8, ZenonT(30)
<1> QED BY <1>4, <1>5

\* A batch that is read is still the first of what is to come.
LEMMA ReadTold ==
    ASSUME PlaceInv, ToldInv, NEW c \in Conn, ReadChanges(c)
    PROVE  ToldInv'
<1>1. /\ serve[c].pc = "read"
      /\ UNCHANGED <<pub, endpoint, watcher, conn, failed, mirror, dropped>>
  BY Zenon DEF ReadChanges, server, remotes
<1>2. \A b \in Conn : b # c => serve'[b] = serve[b] /\ stream'[b] = stream[b]
  BY ZenonT(30) DEF ReadChanges, Serving, PlaceInv, PeerOK, StreamOK
<1>3. CASE ~Connected(c)
  BY <1>1, <1>2, <1>3, ToldFrame, Zenon DEF Connected
<1>4. CASE Connected(c)
  <2> SUFFICES ASSUME NEW t \in Target PROVE ToldOK(c, t)'
    <3>1. \A b \in Conn : Connected(b)' => b = c
      BY <1>1, <1>4 DEF Connected
    <3> QED BY <3>1, Zenon DEF ToldInv
  <2>1. ToldOK(c, t)
    BY <1>4, Zenon DEF ToldInv
  <2>2. /\ stream[c] # <<>> /\ stream[c] \in Seq(Batches)
        /\ stream'[c] = Tail(stream[c])
        /\ serve'[c].pc = "got" /\ serve'[c].batch = Head(stream[c])
    <3>1. conn[c] = "up" /\ DOMAIN serve = Conn /\ stream \in [Conn -> Seq(Batches)]
      BY <1>4, Zenon DEF Connected, PlaceInv, PeerOK, StreamOK
    <3>2. /\ stream[c] # <<>>
          /\ serve' = [serve EXCEPT ![c] = [pc |-> "got", batch |-> Head(stream[c])]]
          /\ stream' = [stream EXCEPT ![c] = Tail(stream[c])]
      BY <3>1, Zenon DEF ReadChanges, Serving
    <3> QED BY <3>1, <3>2, Zenon
  <2>3. Reachable' = Reachable
    BY <1>1, Zenon DEF Reachable, Service, EndpointsOf
  <2>4. LET u == stream'[c]
            s == stream[c]
        IN /\ Silent(s, t) <=> Silent(u, t) /\ ~Mentions(Head(s), t)
           /\ Silent(u, t) /\ Mentions(Head(s), t) =>
                 /\ 1 \in 1 .. Len(s) /\ Head(s) = s[1]
                 /\ LastWord(s, t, 1)
           /\ \A i \in 1 .. Len(u) :
                 LastWord(u, t, i) => /\ i + 1 \in 1 .. Len(s) /\ u[i] = s[i + 1]
                                      /\ LastWord(s, t, i + 1)
    BY <2>2, TailWords, Zenon
  <2>5. \A i \in 1 .. Len(stream'[c]) : LastWord(stream'[c], t, i) =>
           WordOK(c, stream[c][i + 1], t)
    BY <2>1, <2>4, Zenon DEF ToldOK
  <2>6. \A i \in 1 .. Len(stream'[c]) : LastWord(stream'[c], t, i) =>
           WordOK(c, stream[c][i], t)'
    BY <1>1, <2>3, <2>4, <2>5, Zenon DEF WordOK, Settled, IsTrueOf
  <2>7. Silent(stream'[c], t) /\ GotWord(c, t)' => WordOK(c, serve[c].batch, t)'
    <3>1. Silent(stream'[c], t) /\ GotWord(c, t)' =>
             /\ 1 \in 1 .. Len(stream[c]) /\ Head(stream[c]) = stream[c][1]
             /\ LastWord(stream[c], t, 1)
      BY <2>2, <2>4, Zenon DEF GotWord
    <3>2. Silent(stream'[c], t) /\ GotWord(c, t)' => WordOK(c, Head(stream[c]), t)
      BY <2>1, <3>1, Zenon DEF ToldOK
    <3> QED BY <1>1, <2>2, <2>3, <3>2, Zenon DEF WordOK, Settled, IsTrueOf
  <2>8. Silent(stream'[c], t) /\ ~GotWord(c, t)' => KnownOK(c, t)'
    <3>1. Silent(stream'[c], t) /\ ~GotWord(c, t)' => KnownOK(c, t)
      BY <1>1, <2>1, <2>2, <2>4, Zenon DEF ToldOK, GotWord
    <3> QED BY <1>1, <2>3, <3>1, Zenon DEF KnownOK, Settled, IsTrueOf
  <2>9. t \in watcher'[c].removed => t \notin Reachable'
    BY <1>1, <2>1, <2>3, Zenon DEF ToldOK
  <2> QED BY <2>6, <2>7, <2>8, <2>9, Zenon DEF ToldOK
<1> QED BY <1>3, <1>4

\* The peer believes what it is told.
LEMMA ProcessTold ==
    ASSUME PlaceInv, ToldInv, NEW c \in Conn, ProcessChanges(c), ~WrongClient(c)
    PROVE  ToldInv'
<1>0. PICK b : b = serve[c].batch
  OBVIOUS
<1>1. /\ serve[c].pc = "got" /\ mirror.client = c
      /\ serve' = [serve EXCEPT ![c] = [pc |-> "read", batch |-> NoBatch]]
      /\ mirror' = ApplyChanges(mirror, b) /\ dropped' = dropped \ DOMAIN b.changed
      /\ UNCHANGED <<pub, endpoint, watcher, conn, stream, failed>>
  BY <1>0, Zenon DEF ProcessChanges, WrongClient, Update, Serving, server
<1>2. Applied(mirror, mirror', b)
  BY <1>1, ApplyOK, MirrorIsCurrent DEF PlaceInv
<1>3. mirror'.client = c /\ serve'[c].pc = "read"
  BY <1>1, <1>2, Zenon DEF Applied, PlaceInv, PeerOK
<1> SUFFICES ASSUME Connected(c), NEW t \in Target PROVE ToldOK(c, t)'
  BY <1>1, <1>3, Zenon DEF ToldInv, Connected
<1>4. ToldOK(c, t)
  BY Zenon DEF ToldInv
<1>5. Reachable' = Reachable
  BY <1>1, Zenon DEF Reachable, Service, EndpointsOf
<1>6. Silent(stream[c], t) => KnownOK(c, t)'
  <2>1. CASE Mentions(b, t)
    <3>1. /\ t \in DOMAIN mirror'.remotes <=> t \in DOMAIN Near(b.changed)
          /\ t \in DOMAIN Near(b.changed) =>
                /\ mirror'.remotes[t].name = Near(b.changed)[t].name
                /\ mirror'.remotes[t].priority = Near(b.changed)[t].priority
      BY <1>2, <2>1, Zenon DEF Applied, Mentions
    <3>2. Silent(stream[c], t) => WordOK(c, b, t)
      BY <1>0, <1>1, <1>4, <2>1, Zenon DEF ToldOK, GotWord
    <3>3. t \notin DOMAIN b.changed => t \notin DOMAIN Near(b.changed)
      BY Zenon DEF Near, Restrict
    <3> QED BY <1>1, <1>5, <3>1, <3>2, <3>3, Zenon DEF KnownOK, WordOK, Settled, IsTrueOf
  <2>2. CASE ~Mentions(b, t)
    <3>1. t \notin DOMAIN Near(b.changed) /\ t \notin DOMAIN b.changed
      BY <2>2, Zenon DEF Near, Restrict, Mentions
    <3>2. /\ t \in DOMAIN mirror'.remotes <=> t \in DOMAIN mirror.remotes
          /\ t \in DOMAIN mirror.remotes => mirror'.remotes[t] = mirror.remotes[t]
      BY <1>2, <2>2, <3>1, Zenon DEF Applied, Mentions
    <3>3. Silent(stream[c], t) => KnownOK(c, t)
      BY <1>0, <1>4, <2>2, Zenon DEF ToldOK, GotWord
    <3> QED BY <1>1, <1>5, <3>1, <3>2, <3>3, Zenon DEF KnownOK, Settled, IsTrueOf
  <2> QED BY <2>1, <2>2
<1>7. \A i \in 1 .. Len(stream'[c]) : LastWord(stream'[c], t, i) =>
         WordOK(c, stream[c][i], t)'
  BY <1>1, <1>4, <1>5, Zenon DEF ToldOK, WordOK, Settled, IsTrueOf
<1> QED BY <1>1, <1>3, <1>4, <1>5, <1>6, <1>7, Zenon DEF ToldOK, GotWord

\* A remote that is removed by force is missing from then on.
LEMMA RequestTold ==
    ASSUME PlaceInv, ToldInv, NEW r \in Request, Choose(r) \/ Serve(r)
    PROVE  ToldInv'
<1>1. UNCHANGED <<pub, endpoint, watcher, conn, stream, failed, serve>>
  BY Zenon DEF Choose, Serve, OpenStream, ForceRemove, Retry, server
<1>2. CASE UNCHANGED <<mirror, dropped>>
  BY <1>1, <1>2, ToldFrame, Zenon DEF Connected
<1>3. CASE ForceRemove(r)
  <2> DEFINE s == request[r].remote.target
             m == IF request[r].gone THEN mirror ELSE RemoveRemotes(mirror, {s})
             lost == Range(mirror.remotes) \ Range(m.remotes)
  <2>1. mirror' = m /\ dropped' = dropped \cup {x.target : x \in lost}
    BY <1>3, Zenon DEF ForceRemove
  <2>2. Current(mirror)
    BY MirrorIsCurrent, Zenon DEF PlaceInv
  <2>3. /\ Current(m) /\ m.client = mirror.client
        /\ DOMAIN m.remotes \subseteq DOMAIN mirror.remotes
        /\ \A t \in DOMAIN m.remotes : m.remotes[t] = mirror.remotes[t]
    <3>1. Without(mirror, s, request[r].gone, m)
      BY <2>2, ForcedOK, Zenon
    <3> HIDE DEF m
    <3> QED BY <3>1, Zenon DEF Without
  <2> HIDE DEF m
  <2>4. \A t \in DOMAIN mirror.remotes \ DOMAIN m.remotes : t \in dropped'
    <3> SUFFICES ASSUME NEW t \in DOMAIN mirror.remotes, t \notin DOMAIN m.remotes
                 PROVE  t \in dropped'
      BY Zenon
    <3>1. \A x \in DOMAIN m.remotes : m.remotes[x] # mirror.remotes[t]
      BY <2>2, <2>3 DEF Current
    <3>2. mirror.remotes[t] \in lost /\ mirror.remotes[t].target = t
      BY <2>2, <3>1, Zenon DEF Current, Range
    <3> HIDE DEF lost
    <3> QED BY <2>1, <3>2, Zenon
  <2>5. dropped \subseteq dropped'
    BY <2>1
  <2> SUFFICES ASSUME NEW c \in Conn, Connected(c), NEW t \in Target
               PROVE  ToldOK(c, t)'
    BY <1>1, <2>1, <2>3, Zenon DEF ToldInv, Connected
  <2>6. ToldOK(c, t)
    BY DEF ToldInv
  <2>7. Reachable' = Reachable
    BY <1>1, Zenon DEF Reachable, Service, EndpointsOf
  <2>8. KnownOK(c, t) => KnownOK(c, t)'
    BY <1>1, <2>1, <2>3, <2>4, <2>5, <2>7, Zenon DEF KnownOK, Settled, IsTrueOf
  <2> QED BY <1>1, <2>6, <2>7, <2>8, Zenon DEF ToldOK, WordOK, Settled, IsTrueOf, GotWord
<1> QED BY <1>2, <1>3 DEF Choose, Serve, OpenStream, Retry

\* Publication t is as it was.
AsBefore(t) ==
    /\ t \in DOMAIN pub' <=> t \in DOMAIN pub
    /\ t \in DOMAIN pub => pub'[t] = pub[t]
    /\ EndpointsOf(t)' = EndpointsOf(t)
    /\ \A e \in EndpointsOf(t) : endpoint'[e] = endpoint[e]

\* Then the peer can reach the target as before.
LEMMA AsBeforeOK ==
    ASSUME NEW t, AsBefore(t)
    PROVE  /\ t \in Reachable' <=> t \in Reachable
           /\ t \in Reachable => pub'[t] = pub[t]
<1>1. {endpoint'[e].distance : e \in EndpointsOf(t)'}
      = {endpoint[e].distance : e \in EndpointsOf(t)}
  BY DEF AsBefore
<1>2. t \in DOMAIN pub => Service(t)' = Service(t)
  BY <1>1, Zenon DEF AsBefore, Service
<1> QED BY <1>2, Zenon DEF AsBefore, Reachable

\* v is what w has noted, and what came to be noted of t.
Notes(w, t, v) == v.state = "open" /\ (v = AddChanged(w, t) \/ v = AddRemoved(w, t))
OthersKept(w, t, v) ==
    /\ w.state = "open" /\ v.sent = w.sent
    /\ \A s : s # t =>
          /\ s \in v.removed <=> s \in w.removed
          /\ s \in v.changed <=> s \in w.changed

\* Nothing changes of what was noted of another target.
LEMMA Noted ==
    ASSUME NEW w \in Watcher, NEW t \in Target, NEW v, Notes(w, t, v)
    PROVE  OthersKept(w, t, v)
<1>1. CASE v = AddChanged(w, t)
  BY <1>1, AddChangedOK DEF Notes, OthersKept
<1>2. CASE v = AddRemoved(w, t)
  BY <1>2, AddRemovedOK DEF Notes, OthersKept
<1> QED BY <1>1, <1>2, Zenon DEF Notes

\* A publication that came, changed or went is noted, if there is anything to
\* tell.
LEMMA PublicationTold ==
    ASSUME PlaceInv, ToldInv, NEW t0 \in Target,
           UNCHANGED <<conn, stream, failed, serve, mirror, dropped>>,
           \A t \in Target \ {t0} : AsBefore(t),
           \/ watcher' = [c \in Conn |-> AddChanged(watcher[c], t0)]
           \/ /\ watcher' = [c \in Conn |-> AddRemoved(watcher[c], t0)]
              /\ t0 \notin DOMAIN pub'
    PROVE  ToldInv'
<1> SUFFICES ASSUME NEW c \in Conn, Connected(c)', NEW t \in Target
             PROVE  ToldOK(c, t)'
  BY Zenon DEF ToldInv
<1>1. watcher[c] \in Watcher /\ watcher'[c].state = "open"
  BY Zenon DEF PlaceInv, WatcherOK, Connected
<1>0. /\ watcher[c].state = "open" /\ watcher'[c].sent = watcher[c].sent
      /\ \A s : s # t0 =>
            /\ s \in watcher'[c].removed <=> s \in watcher[c].removed
            /\ s \in watcher'[c].changed <=> s \in watcher[c].changed
  <2>1. Notes(watcher[c], t0, watcher'[c])
    BY <1>1, Zenon DEF Notes
  <2>2. OthersKept(watcher[c], t0, watcher'[c])
    BY <1>1, <2>1, Noted, Zenon
  <2> QED BY <2>2, Zenon DEF OthersKept
<1>2. watcher[c].state = "open" /\ watcher'[c].sent = watcher[c].sent
  BY <1>0, Zenon
<1>3. Connected(c) /\ ToldOK(c, t)
  BY <1>2, Zenon DEF ToldInv, Connected
<1>4. CASE t # t0
  <2>1. /\ t \in watcher'[c].removed <=> t \in watcher[c].removed
        /\ Settled(c, t)' <=> Settled(c, t)
    BY <1>0, <1>4 DEF Settled
  <2>2. /\ t \in Reachable' <=> t \in Reachable
        /\ t \in Reachable => pub'[t] = pub[t]
    BY <1>4, AsBeforeOK, Zenon
  <2>3. KnownOK(c, t) => KnownOK(c, t)'
    BY <1>2, <2>1, <2>2, Zenon DEF KnownOK, IsTrueOf
  <2> QED BY <1>2, <1>3, <2>1, <2>2, <2>3, Zenon DEF ToldOK, WordOK, IsTrueOf, GotWord
<1>5. CASE t = t0 /\ watcher' = [b \in Conn |-> AddChanged(watcher[b], t0)]
  <2>1. t \notin watcher'[c].removed /\ ~Settled(c, t)'
    <3>1. watcher'[c] = AddChanged(watcher[c], t)
      BY <1>5, Zenon
    <3>2. /\ watcher'[c].removed = watcher[c].removed \ {t}
          /\ watcher'[c].changed = watcher[c].changed \cup {t}
      <4>1. /\ AddChanged(watcher[c], t).removed = watcher[c].removed \ {t}
            /\ AddChanged(watcher[c], t).changed = watcher[c].changed \cup {t}
        BY <1>1, <1>2, AddChangedOK
      <4> QED BY <3>1, <4>1, Zenon
    <3> QED BY <3>2, Zenon DEF Settled
  <2>2. KnownOK(c, t) => KnownOK(c, t)'
    BY <1>2, <2>1, Zenon DEF KnownOK
  <2> QED BY <1>2, <1>3, <2>1, <2>2, Zenon DEF ToldOK, WordOK, GotWord
<1>6. CASE /\ t = t0 /\ t0 \notin DOMAIN pub'
           /\ watcher' = [b \in Conn |-> AddRemoved(watcher[b], t0)]
  <2>1. t \notin Reachable'
    BY <1>6, Zenon DEF Reachable
  <2>2. Settled(c, t)' => t \notin watcher[c].sent
    BY <1>1, <1>2, <1>6, AddRemovedOK, Zenon DEF Settled
  <2>3. KnownOK(c, t) => KnownOK(c, t)'
    BY <1>2, <2>1, <2>2, Zenon DEF KnownOK, IsTrueOf
  <2>4. \A b : t \notin DOMAIN b.changed => t \notin DOMAIN Near(b.changed)
    BY Zenon DEF Near, Restrict
  <2>6. \A i \in 1 .. Len(stream[c]) :
           LastWord(stream[c], t, i) => WordOK(c, stream[c][i], t)'
    BY <1>2, <1>3, <2>1, <2>2, <2>4, Zenon DEF ToldOK, WordOK, IsTrueOf
  <2>7. Silent(stream[c], t) /\ GotWord(c, t) => WordOK(c, serve[c].batch, t)'
    BY <1>2, <1>3, <2>1, <2>2, <2>4, Zenon DEF ToldOK, WordOK, IsTrueOf
  <2> QED BY <1>3, <2>1, <2>3, <2>6, <2>7, Zenon DEF ToldOK, GotWord
<1> QED BY <1>4, <1>5, <1>6

\* What the applications of the server publish and withdraw is noted for the peer.
LEMMA ApplicationsTold ==
    ASSUME PlaceInv, ToldInv, Applications
    PROVE  ToldInv'
<1>1. ASSUME NEW e \in Endpoint, NEW n \in Name, NEW p \in Priority,
             NEW d \in Distance, Publish(e, n, p, d)
      PROVE  ToldInv'
  <2>1. PICK t \in Target : Published(e, n, p, d, t)
    BY <1>1, PublishOK, Zenon DEF PlaceInv
  <2>2. /\ e \notin DOMAIN endpoint
        /\ UNCHANGED <<conn, stream, failed, serve, mirror, dropped>>
    BY <1>1, Zenon DEF Publish, remotes
  <2>3. /\ DOMAIN pub' = DOMAIN pub \cup {t}
        /\ \A s \in DOMAIN pub : s # t => pub'[s] = pub[s]
    BY <2>1, Zenon DEF Published, Over
  <2>4. /\ DOMAIN endpoint' = DOMAIN endpoint \cup {e} /\ endpoint'[e].target = t
        /\ \A f \in DOMAIN endpoint : endpoint'[f] = endpoint[f]
    BY <2>1, <2>2, Zenon DEF Published, Over
  <2>5. \A s \in Target \ {t} : AsBefore(s)
    BY <2>2, <2>3, <2>4, Zenon DEF AsBefore, EndpointsOf
  <2> QED BY <2>1, <2>2, <2>5, PublicationTold, Zenon DEF Published
<1>2. ASSUME NEW e \in Endpoint, Unpublish(e) PROVE ToldInv'
  <2>0. PICK t : t = endpoint[e].target
    BY Zenon
  <2>1. /\ e \in DOMAIN endpoint
        /\ endpoint' = Restrict(endpoint, DOMAIN endpoint \ {e})
        /\ UNCHANGED <<conn, stream, failed, serve, mirror, dropped>>
    BY <1>2, Zenon DEF Unpublish, remotes
  <2>2. \/ /\ pub' = Restrict(pub, DOMAIN pub \ {t})
           /\ watcher' = [c \in Conn |-> AddRemoved(watcher[c], t)]
        \/ /\ pub' = pub
           /\ watcher' = [c \in Conn |-> AddChanged(watcher[c], t)]
    BY <1>2, <2>0 DEF Unpublish
  <2>3. t \in Target
    BY <2>0, <2>1, DiscoveryParameters DEF PlaceInv, ServerOK, Target
  <2>4. \A s \in Target \ {t} : AsBefore(s)
    <3>1. \A s \in Target \ {t} : /\ s \in DOMAIN pub' <=> s \in DOMAIN pub
                                  /\ s \in DOMAIN pub => pub'[s] = pub[s]
      BY <2>2 DEF Restrict
    <3>2. /\ DOMAIN endpoint' = DOMAIN endpoint \ {e}
          /\ \A f \in DOMAIN endpoint' : endpoint'[f] = endpoint[f]
      BY <2>1 DEF Restrict
    <3> QED BY <2>0, <3>1, <3>2 DEF AsBefore, EndpointsOf
  <2>5. \/ watcher' = [c \in Conn |-> AddChanged(watcher[c], t)]
        \/ /\ watcher' = [c \in Conn |-> AddRemoved(watcher[c], t)]
           /\ t \notin DOMAIN pub'
    BY <2>2 DEF Restrict
  <2> QED BY <2>1, <2>3, <2>4, <2>5, PublicationTold
<1> QED BY <1>1, <1>2, Zenon DEF Applications

-----------------------------------------------------------------------------
\* The properties

\* Every variable of the peer and of the watched server keeps its type: batches
\* say what a publication can say, remotes are of a connection, and a request
\* holds a remote or none.
THEOREM TypeCorrect == Spec => []TypeOK
<1>1. PlaceInv => TypeOK
  <2> SUFFICES ASSUME PlaceInv PROVE TypeOK
    BY ZenonT(30)
  <2> USE DEF PlaceInv
  <2>1. \A c \in Conn : \A i \in DOMAIN stream[c] : IsBatch(stream[c][i])
    <3> SUFFICES ASSUME NEW c \in Conn, NEW i \in DOMAIN stream[c]
                 PROVE  IsBatch(stream[c][i])
      OBVIOUS
    <3>1. stream[c][i] \in Batches
      BY DEF StreamOK
    <3> QED BY <3>1 DEF Batches, ChangesOf, IsBatch, Range, Target
  <2>2. /\ lastTargetID \in 0 .. MaxTarget /\ DOMAIN pub \subseteq 1 .. lastTargetID
        /\ Range(pub) \subseteq [name : Name, priority : Priority]
        /\ DOMAIN endpoint \subseteq Endpoint
        /\ Range(endpoint) \subseteq [target : DOMAIN pub, distance : Distance]
    BY DEF ServerOK, Range
  <2>3. \A c \in Conn : /\ watcher[c].state \in {"none", "asked", "open", "closed"}
                        /\ Len(stream[c]) <= StreamRoom
    BY Zenon DEF WatcherOK, Watcher, StreamOK
  <2>4. /\ failed \in BOOLEAN
        /\ loop.pc \in {"top", "dial", "sleep", "attach", "wait", "done"}
        /\ loop.client \in Conn \cup {NoConn}
        /\ \A c \in Conn : /\ conn[c] \in {"unused", "up", "closed"}
                           /\ serve[c].pc \in {"none", "start", "read", "got",
                                               "detach", "close", "done"}
    BY Zenon DEF PeerOK
  <2>5. /\ mirror.client \in Conn \cup {NoConn} /\ mirror.listed \subseteq Remote
        /\ dropped \subseteq 1 .. MaxTarget
    BY DEF MirrorOK, MirrorCurrent, Range, Target
  <2>6. \A r \in Request : request[r].remote \in Remote \cup {NoRemote}
    BY DEF RequestOK
  <2> QED BY <2>1, <2>2, <2>3, <2>4, <2>5, <2>6, ZenonT(30) DEF TypeOK
<1> QED BY <1>1, Places, PTL

\* processChanges, detachClient and removeLocked leave the peer with remotes of
\* the client it has now and no others, and the subscription with the same.
THEOREM MirrorIsCurrentAlways == Spec => []MirrorCurrent
<1>1. PlaceInv => MirrorCurrent
  BY DEF PlaceInv, MirrorOK
<1> QED BY <1>1, Places, PTL

\* handleRequestRLocked asks for another try only after the remote is removed.
THEOREM RetriesFollowRemovals == Spec => []RetryAfterRemoval
<1>1. PlaceInv => RetryAfterRemoval
  BY DEF PlaceInv, RequestOK, RetryAfterRemoval
<1> QED BY <1>1, Places, PTL

\* What the peer was told, is told and will be told of a target adds up.
THEOREM WordsAddUp == Spec => []ToldInv
<1>1. Init => ToldInv
  BY DEF Init, ToldInv, Connected, NoWatcher
<1>2. PlaceInv /\ PlaceInv' /\ ToldInv /\ [Next]_vars => ToldInv'
  <2> SUFFICES ASSUME PlaceInv, PlaceInv', ToldInv, [Next]_vars PROVE ToldInv'
    OBVIOUS
  <2>1. CASE Applications
    BY <2>1, ApplicationsTold
  <2>2. CASE ConnectLoop \/ CloseOnFailure \/ ClosePeer \/ Restart
    BY <2>2, LoopTold
  <2>3. ASSUME NEW c \in Conn, Break(c) \/ Watch(c) \/ ServeClient(c)
        PROVE  ToldInv'
    <3>1. CASE StreamServices(c)
      BY <3>1, StreamServicesTold
    <3>2. CASE SendChanges(c)
      BY <3>2, SendTold
    <3>3. CASE ReadChanges(c)
      BY <3>3, ReadTold
    <3>4. CASE ProcessChanges(c) /\ ~WrongClient(c)
      BY <3>4, ProcessTold
    <3>5. CASE \/ StopWatcher(c) \/ Break(c) \/ AskChanges(c) \/ DetachClient(c)
               \/ CloseClient(c) \/ (ProcessChanges(c) /\ WrongClient(c))
      BY <3>5, ServeTold
    <3> QED BY <2>3, <3>1, <3>2, <3>3, <3>4, <3>5 DEF Watch, ServeClient
  <2>4. CASE \E r \in Request : Choose(r) \/ Serve(r)
    BY <2>4, RequestTold, Zenon
  <2>5. CASE UNCHANGED vars
    BY <2>5, ToldFrame DEF vars, server, remotes, Connected
  <2> QED BY <2>1, <2>2, <2>3, <2>4, <2>5 DEF Next
<1> QED BY <1>1, <1>2, Places, PTL DEF Spec

\* Batches p + 1 to p + n of u are those of s.
Embeds(u, s, p, n) == Len(s) = n /\ \A j \in 1 .. n : u[p + j] = s[j]

\* Batch i of the m of u is the last that mentions t.
LastOf(u, t, i, m) ==
    /\ i \in 1 .. m /\ Mentions(u[i], t)
    /\ \A j \in 1 .. m : j > i => ~Mentions(u[j], t)

\* If the batch that is still to be sent is not the last that mentions t, it does
\* not mention t, and the last one is on the stream s or was read from it (p = 1).
LEMMA LastUnderWay ==
    ASSUME NEW u, NEW s, NEW t, NEW p \in {0, 1}, NEW n \in Nat, NEW i,
           Embeds(u, s, p, n), LastOf(u, t, i, p + n + 1), i # p + n + 1
    PROVE  /\ ~Mentions(u[p + n + 1], t)
           /\ \/ i - p \in 1 .. n /\ u[i] = s[i - p] /\ LastWord(s, t, i - p)
              \/ i = 1 /\ p = 1 /\ Silent(s, t)
<1>1. p \in Nat /\ i \in Nat /\ (p = 0 \/ p = 1) /\ i >= 1 /\ i <= p + n
  BY DEF LastOf
<1>2. ~Mentions(u[p + n + 1], t)
  <2>1. p + n + 1 \in 1 .. p + n + 1 /\ p + n + 1 > i
    BY <1>1
  <2> QED BY <2>1, Zenon DEF LastOf
<1>3. \A j \in 1 .. n : p + j > i => ~Mentions(s[j], t)
  <2>1. \A j \in 1 .. n : p + j \in 1 .. p + n + 1
    BY <1>1
  <2> QED BY <2>1, Zenon DEF LastOf, Embeds
<1>4. CASE i > p
  <2>1. /\ i - p \in 1 .. n /\ p + (i - p) = i
        /\ \A j \in 1 .. n : j > i - p => p + j > i
    BY <1>1, <1>4
  <2>2. u[i] = s[i - p] /\ Len(s) = n
    BY <2>1, Zenon DEF Embeds
  <2> QED BY <1>2, <1>3, <2>1, <2>2, Zenon DEF LastOf, LastWord
<1>5. CASE ~(i > p)
  <2>1. i = 1 /\ p = 1 /\ \A j \in 1 .. n : p + j > i
    BY <1>1, <1>5
  <2> QED BY <1>2, <1>3, <2>1, Zenon DEF Embeds, Silent
<1> QED BY <1>4, <1>5, Zenon

\* Nothing of u mentions t, so nothing of s does.
LEMMA SilentUnderWay ==
    ASSUME NEW u, NEW s, NEW t, NEW p \in {0, 1}, NEW n \in Nat, Embeds(u, s, p, n),
           \A i \in 1 .. p + n + 1 : ~Mentions(u[i], t)
    PROVE  Silent(s, t)
<1>1. \A j \in 1 .. n : p + j \in 1 .. p + n + 1
  OBVIOUS
<1> QED BY <1>1, Zenon DEF Embeds, Silent

\* Where the first and the last batch under way are.
LEMMA PlacesUnderWay ==
    ASSUME NEW p \in {0, 1}, NEW n \in Nat
    PROVE  p + n + 1 \in 1 .. p + n + 1 /\ (p = 1 => 1 \in 1 .. p + n + 1)
  OBVIOUS

\* u is a batch that was read, if there is one, the stream s and the batch b.
Joins(first, s, b, u) ==
    LET p == Len(first)
        n == Len(s)
    IN /\ Len(u) = p + n + 1 /\ DOMAIN u = 1 .. p + n + 1
       /\ u[p + n + 1] = b
       /\ \A i \in 1 .. n : u[p + i] = s[i]
       /\ p = 1 => u[1] = first[1]

\* What is under way is these.
LEMMA JoinUnderWay ==
    ASSUME NEW S, NEW first \in Seq(S), NEW s \in Seq(S), NEW b \in S
    PROVE  Joins(first, s, b, first \o s \o <<b>>)
  BY DEF Joins

\* However publications come, change and go while batches are cut short and
\* delayed, the last batch under way that mentions a target tells the truth,
\* and what is not mentioned is known.
THEOREM NothingIsLost == Spec => []NoChangeLost
<1>1. PlaceInv /\ ToldInv => NoChangeLost
  <2> SUFFICES ASSUME PlaceInv, ToldInv, NEW c \in Conn, Connected(c),
                      NEW t \in Target
               PROVE  LET u == UnderWay(c)
                      IN /\ Mentioned(u, t) = {} =>
                               t \in dropped \/ IsTrueOf(mirror.remotes, t)
                         /\ \A i \in Mentioned(u, t) :
                               (\A j \in Mentioned(u, t) : j <= i)
                               => IsTrueOf(Near(u[i].changed), t)
    BY DEF NoChangeLost, Target
  <2> DEFINE first == IF serve[c].pc = "got" THEN <<serve[c].batch>> ELSE <<>>
             s == stream[c]
             next == [removed |-> watcher[c].removed,
                      changed |-> [x \in watcher[c].changed |-> Service(x)]]
             u == UnderWay(c)
             p == Len(first)
             n == Len(s)
  <2>1. ToldOK(c, t)
    BY DEF ToldInv
  <2>2. s \in Seq(Batches) /\ n \in Nat
    BY DEF PlaceInv, StreamOK
  <2>3. /\ p \in {0, 1} /\ (p = 1 <=> serve[c].pc = "got")
        /\ p = 1 => first[1] = serve[c].batch
    OBVIOUS
  <2>4. next \in Batches
    <3>1. /\ watcher[c].changed \in SUBSET Target
          /\ watcher[c].removed \in SUBSET Target
          /\ watcher[c].changed \subseteq DOMAIN pub
      BY Zenon DEF PlaceInv, WatcherOK, Watcher
    <3>2. [x \in watcher[c].changed |-> Service(x)]
             \in [watcher[c].changed -> ServiceRecord]
      BY <3>1, ServiceOK, Zenon DEF PlaceInv
    <3>3. [x \in watcher[c].changed |-> Service(x)] \in ChangesOf
      BY <3>1, <3>2, Zenon DEF ChangesOf
    <3> QED BY <3>1, <3>3 DEF Batches
  <2>5. first \in Seq(Batches)
    BY DEF PlaceInv, PeerOK
  <2>6. u = first \o s \o <<next>>
    BY Zenon DEF UnderWay
  <2>7. IsTrueOf(Near(next.changed), t) \/ Settled(c, t)
    <3>1. watcher[c].changed \subseteq DOMAIN pub
      BY DEF PlaceInv, WatcherOK
    <3>2. CASE t \in watcher[c].changed
      <4>1. /\ t \in DOMAIN next.changed /\ next.changed[t] = Service(t)
            /\ t \in DOMAIN pub
        BY <3>1, <3>2, Zenon
      <4>2. t \in DOMAIN Near(next.changed) <=> t \in Reachable
        BY <4>1, Zenon DEF Near, Restrict, Reachable
      <4>3. t \in DOMAIN Near(next.changed) => Near(next.changed)[t] = Service(t)
        BY <4>1, Zenon DEF Near, Restrict
      <4>4. Service(t).name = pub[t].name /\ Service(t).priority = pub[t].priority
        BY Zenon DEF Service
      <4> QED BY <4>2, <4>3, <4>4, Zenon DEF IsTrueOf
    <3>3. CASE t \in watcher[c].removed /\ t \notin watcher[c].changed
      <4>1. t \notin Reachable
        BY <2>1, <3>3, Zenon DEF ToldOK
      <4>2. t \notin DOMAIN Near(next.changed)
        BY <3>3, Zenon DEF Near, Restrict
      <4> QED BY <4>1, <4>2, Zenon DEF IsTrueOf
    <3> QED BY <3>2, <3>3, Zenon DEF Settled
  <2>8. Settled(c, t) <=> ~Mentions(next, t)
    BY Zenon DEF Settled, Mentions
  <2> HIDE DEF first, s, next, u
  <2>9. /\ Len(u) = p + n + 1 /\ DOMAIN u = 1 .. p + n + 1
        /\ u[p + n + 1] = next
        /\ \A i \in 1 .. n : u[p + i] = s[i]
        /\ p = 1 => u[1] = first[1]
    <3>1. Joins(first, s, next, first \o s \o <<next>>)
      BY <2>2, <2>4, <2>5, JoinUnderWay, Zenon
    <3>2. Joins(first, s, next, u)
      BY <2>6, <3>1, Zenon
    <3> QED BY <3>2, Zenon DEF Joins
  <2> HIDE DEF p, n
  <2>10. GotWord(c, t) <=> p = 1 /\ Mentions(u[1], t)
    BY <2>3, <2>9 DEF GotWord
  <2>11. Mentioned(u, t) = {} => t \in dropped \/ IsTrueOf(mirror.remotes, t)
    <3> SUFFICES ASSUME Mentioned(u, t) = {}
                 PROVE  t \in dropped \/ IsTrueOf(mirror.remotes, t)
      OBVIOUS
    <3>1. \A i \in 1 .. p + n + 1 : ~Mentions(u[i], t)
      BY <2>9, Zenon DEF Mentioned
    <3>2. Settled(c, t) /\ ~GotWord(c, t)
      <4>1. p + n + 1 \in 1 .. p + n + 1 /\ (p = 1 => 1 \in 1 .. p + n + 1)
        BY <2>2, <2>3, PlacesUnderWay, Zenon
      <4> QED BY <2>8, <2>9, <2>10, <3>1, <4>1, Zenon
    <3>3. Silent(stream[c], t)
      <4>1. Embeds(u, s, p, n)
        BY <2>9, Zenon DEF Embeds, n
      <4>2. Silent(s, t)
        BY <2>2, <2>3, <3>1, <4>1, SilentUnderWay, Zenon
      <4> QED BY <4>2, Zenon DEF s
    <3> QED BY <2>1, <3>2, <3>3, Zenon DEF ToldOK, KnownOK
  <2>12. ASSUME NEW i \in Mentioned(u, t), \A j \in Mentioned(u, t) : j <= i
         PROVE  IsTrueOf(Near(u[i].changed), t)
    <3>1. /\ i \in 1 .. p + n + 1 /\ Mentions(u[i], t)
          /\ \A j \in 1 .. p + n + 1 : j > i => ~Mentions(u[j], t)
      <4>1. i \in 1 .. p + n + 1 /\ Mentions(u[i], t)
        BY <2>9, <2>12, Zenon DEF Mentioned
      <4>2. ASSUME NEW j \in 1 .. p + n + 1, j > i, Mentions(u[j], t) PROVE FALSE
        <5>1. j <= i
          BY <2>9, <2>12, <4>2, Zenon DEF Mentioned
        <5>2. i \in Int /\ j \in Int
          BY <4>1
        <5> QED BY <4>2, <5>1, <5>2
      <4> QED BY <4>1, <4>2, Zenon
    <3>2. CASE i = p + n + 1
      BY <2>7, <2>8, <2>9, <3>1, <3>2, Zenon
    <3>3. CASE i # p + n + 1
      <4>1. /\ ~Mentions(u[p + n + 1], t)
            /\ \/ i - p \in 1 .. n /\ u[i] = s[i - p] /\ LastWord(s, t, i - p)
               \/ i = 1 /\ p = 1 /\ Silent(s, t)
        <5>1. Embeds(u, s, p, n)
          BY <2>9, Zenon DEF Embeds, n
        <5>2. LastOf(u, t, i, p + n + 1)
          BY <3>1, Zenon DEF LastOf
        <5> QED BY <2>2, <2>3, <3>3, <5>1, <5>2, LastUnderWay, Zenon
      <4>2. Settled(c, t)
        BY <2>8, <2>9, <4>1, Zenon
      <4>3. CASE i - p \in 1 .. n /\ u[i] = s[i - p] /\ LastWord(s, t, i - p)
        BY <2>1, <4>2, <4>3, Zenon DEF ToldOK, WordOK, s, n
      <4>4. CASE i = 1 /\ p = 1 /\ Silent(s, t)
        <5>1. GotWord(c, t) /\ u[i] = serve[c].batch
          BY <2>3, <2>9, <2>10, <3>1, <4>4, Zenon
        <5> QED BY <2>1, <4>2, <4>4, <5>1, Zenon DEF ToldOK, WordOK, s
      <4> QED BY <4>1, <4>3, <4>4, Zenon
    <3> QED BY <3>2, <3>3
  <2> QED BY <2>11, <2>12, ZenonT(30) DEF u
<1> QED BY <1>1, Places, WordsAddUp, PTL
=============================================================================
