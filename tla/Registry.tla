------------------------------ MODULE Registry ------------------------------
(***************************************************************************)
(* What a copper server knows of services and who is interested in them:   *)
(* publications of its clients, remotes announced by its peers, routes,    *)
(* and subscriptions (server.go, server_subs.go, server_routes.go,         *)
(* server_client.go).                                                      *)
(*                                                                         *)
(* A subscription is a list of options.  Every option keeps the route,     *)
(* publications and remotes that match it, in order of priority, and       *)
(* caches what a request needs; every one of these keeps the set of        *)
(* subscriptions that hold it.  All of this is updated step by step with   *)
(* server.mu held, so that an action is one whole operation.               *)
(*                                                                         *)
(* A route, publication or remote is a record here, which stands for the   *)
(* Go object while it is registered.  Its set of subscriptions is in refs. *)
(***************************************************************************)
EXTENDS Naturals, Sequences, FiniteSets, FiniteSetsExt, SequencesExt,
        Functions, TLC

CONSTANTS Name, Client, Priority,
          MaxPriority,     \* 0xffffffff
          Distance,
          Announced,       \* remotes that the peers may announce
          Options,         \* lists of options that clients subscribe with
          Routes,          \* lists of routes that clients set
          MaxSub           \* bound: subscriptions at a time

ASSUME RegistryParameters ==
    /\ Priority \subseteq 0 .. MaxPriority /\ Distance \subseteq Nat
    /\ \A x \in Announced : /\ x.kind = "remote" /\ x.name \in Name
                            /\ x.priority \in Priority
                            /\ x.distance \in Distance
    /\ <<>> \in Routes
    /\ \A routes \in Routes : \A i \in DOMAIN routes : routes[i].options # <<>>

VARIABLES reg,         \* subscriptions, routes, refs: all under server.mu
          published,   \* published[c]: what the endpoint of client c serves
          owned,       \* owned[c]: serverClient.subscriptions
          open,        \* clients whose failure is nil
          closed       \* server.failure # nil

vars == <<reg, published, owned, open, closed>>

NoRoute == [kind |-> "none"]
NoPub == [kind |-> "none"]
RouteTo(n) == [kind |-> "route", name |-> n]
Pub(n, p) == [kind |-> "pub", name |-> n, priority |-> p]

Init ==
    /\ reg = [sub |-> <<>>, route |-> <<>>, refs |-> <<>>,
              subsByName |-> [n \in Name |-> {}]]
    /\ published = [c \in Client |-> NoPub]
    /\ owned = [c \in Client |-> {}]
    /\ open = {}
    /\ closed = FALSE

-----------------------------------------------------------------------------
\* Options of a subscription

SortByPriority(s) == SortSeq(s, LAMBDA x, y : x.priority < y.priority)

UpdateLocalPriority(o) ==
    [o EXCEPT !.localPriority =
        IF o.local = <<>> THEN MaxPriority ELSE o.local[1].priority]

\* remoteCount remotes at the head of the list share the best priority.
UpdateRemotePriority(o) ==
    [o EXCEPT !.remoteCount =
                 Max({k \in 0 .. Len(o.remote) :
                         \A i \in 1 .. k :
                            o.remote[i].priority = o.remote[1].priority}),
              !.remotePriority =
                 IF o.remote = <<>> THEN MaxPriority ELSE o.remote[1].priority]

\* The filter of the option, which its add and remove methods check.
Accepts(s, i, x) ==
    LET o == s.options[i]
    IN /\ o.service = x.name
       /\ CASE x.kind = "route"  -> ~s.disableRoutes
            [] x.kind = "pub"    -> o.minDistance = 0
            [] x.kind = "remote" -> /\ o.minDistance <= x.distance
                                    /\ x.distance <= o.maxDistance

AddTo(o, x) ==
    CASE x.kind = "route"  -> [o EXCEPT !.route = x]
      [] x.kind = "pub"    ->
            UpdateLocalPriority(
               [o EXCEPT !.local = SortByPriority(Append(@, x))])
      [] x.kind = "remote" ->
            UpdateRemotePriority(
               [o EXCEPT !.remote = SortByPriority(Append(@, x))])

RemoveFrom(o, x) ==
    CASE x.kind = "route"  ->
            [o EXCEPT !.route = IF @ = x THEN NoRoute ELSE @]
      [] x.kind = "pub"    ->
            UpdateLocalPriority([o EXCEPT !.local = RemoveFirst(@, x)])
      [] x.kind = "remote" ->
            UpdateRemotePriority([o EXCEPT !.remote = RemoveFirst(@, x)])

IsActive(o) == o.route # NoRoute \/ o.local # <<>> \/ o.remote # <<>>

\* active is the first option that has something, or beyond the last one.
UpdateActiveIndex(s) ==
    [s EXCEPT !.active =
        Min({i \in DOMAIN s.options : IsActive(s.options[i])}
               \cup {Len(s.options) + 1})]

-----------------------------------------------------------------------------
\* Subscriptions and what they refer to

\* What the options of s hold.
Held(s) ==
    UNION {({o.route} \ {NoRoute}) \cup Range(o.local) \cup Range(o.remote) :
              o \in Range(s.options)}

Takes(s, x) == \E i \in DOMAIN s.options : Accepts(s, i, x)

\* Mutant: the active option is updated only when something is removed.
SubAddSilently(s, x) ==
    [s EXCEPT !.options =
        [i \in DOMAIN @ |-> IF Accepts(s, i, x) THEN AddTo(@[i], x) ELSE @[i]]]

\* serverSubscription.addRouteLocked, addPublicationLocked, addRemoteLocked
SubAdd(s, x) ==
    IF Takes(s, x)
    THEN UpdateActiveIndex([s EXCEPT !.options =
            [i \in DOMAIN @ |->
                IF Accepts(s, i, x) THEN AddTo(@[i], x) ELSE @[i]]])
    ELSE s

\* serverSubscription.removeRouteLocked, removePublicationLocked,
\* removeRemoteLocked
SubRemove(s, x) ==
    IF Takes(s, x)
    THEN UpdateActiveIndex([s EXCEPT !.options =
            [i \in DOMAIN @ |->
                IF Accepts(s, i, x) THEN RemoveFrom(@[i], x) ELSE @[i]]])
    ELSE s

\* x is registered: every subscription with an interest in its name is told.
Register(R, x) ==
    LET told == {id \in R.subsByName[x.name] : Takes(R.sub[id], x)}
    IN [R EXCEPT !.refs = (x :> told) @@ @,
                 !.sub = [id \in DOMAIN @ |->
                             IF id \in told THEN SubAdd(@[id], x) ELSE @[id]]]

\* x goes away: every subscription that holds it is told.
Withdraw(R, x) ==
    [R EXCEPT !.refs = Restrict(@, DOMAIN @ \ {x}),
              !.sub = [id \in DOMAIN @ |->
                          IF id \in R.refs[x] THEN SubRemove(@[id], x)
                          ELSE @[id]]]

\* An option of a new subscription, filled from what is registered.  The order
\* of equal priorities is arbitrary in the code and matters to nothing here.
NewOption(s, i, S) ==
    LET of(kind) == {x \in S : x.kind = kind /\ Accepts(s, i, x)}
        option   == [route |-> NoRoute, local |-> <<>>, remote |-> <<>>,
                     localPriority |-> 0, remoteCount |-> 0,
                     remotePriority |-> 0] @@ s.options[i]
    IN UpdateLocalPriority(UpdateRemotePriority(
          [option EXCEPT
              !.route = IF of("route") = {} THEN NoRoute
                        ELSE CHOOSE x \in of("route") : TRUE,
              !.local = SortByPriority(SetToSeq(of("pub"))),
              !.remote = SortByPriority(SetToSeq(of("remote")))]))

SubscribeLocked(R, id, options, disableRoutes) ==
    LET s   == [options |-> options, disableRoutes |-> disableRoutes,
                active |-> Len(options) + 1]
        new == UpdateActiveIndex([s EXCEPT !.options =
                  [i \in DOMAIN options |-> NewOption(s, i, DOMAIN R.refs)]])
    IN [R EXCEPT
           !.sub = (id :> new) @@ @,
           !.subsByName = [n \in Name |->
               IF \E i \in DOMAIN options : options[i].service = n
               THEN @[n] \cup {id} ELSE @[n]],
           !.refs = [x \in DOMAIN @ |->
               IF Takes(s, x) THEN @[x] \cup {id} ELSE @[x]]]

\* Mutant: publications and remotes keep the subscription.
UnsubscribeRoutes(R, id) ==
    [R EXCEPT
        !.sub = Restrict(@, DOMAIN @ \ {id}),
        !.subsByName = [n \in Name |-> @[n] \ {id}],
        !.refs = [x \in DOMAIN @ |->
            IF x \in Held(R.sub[id]) /\ x.kind = "route"
            THEN @[x] \ {id} ELSE @[x]]]

UnsubscribeLocked(R, id) ==
    [R EXCEPT
        !.sub = Restrict(@, DOMAIN @ \ {id}),
        !.subsByName = [n \in Name |-> @[n] \ {id}],
        !.refs = [x \in DOMAIN @ |->
            IF x \in Held(R.sub[id]) THEN @[x] \ {id} ELSE @[x]]]

FreeIDs(R) == 1 .. MaxSub \ DOMAIN R.sub

-----------------------------------------------------------------------------
\* Routes

DropCases(R, n) ==
    [FoldSet(LAMBDA id, Q : UnsubscribeLocked(Q, id), R,
             {c.sub : c \in Range(R.route[n].cases)})
        EXCEPT !.route[n].cases = <<>>]

\* One subscription per route, which follows no routes itself.
BuildCases(R, n, routes) ==
    FoldLeft(LAMBDA Q, r :
                LET id == Min(FreeIDs(Q))
                IN [SubscribeLocked(Q, id, r.options, TRUE) EXCEPT
                       !.route[n].cases =
                          Append(@, [sub |-> id, weight |-> r.weight])],
             [R EXCEPT !.route =
                          (n :> [routes |-> routes, cases |-> <<>>]) @@ @],
             routes)

SetRouteLocked(R, n, routes) ==
    IF n \notin DOMAIN R.route
    THEN IF routes = <<>> THEN R
         ELSE BuildCases(Register(R, RouteTo(n)), n, routes)
    ELSE IF routes = <<>>
         THEN LET Q == DropCases(Withdraw(R, RouteTo(n)), n)
              IN [Q EXCEPT !.route = Restrict(@, DOMAIN @ \ {n})]
    ELSE IF R.route[n].routes = routes THEN R
    ELSE BuildCases(DropCases(R, n), n, routes)

-----------------------------------------------------------------------------
\* Operations of clients and peers

Connect(c) ==
    /\ ~closed /\ c \notin open
    /\ open' = open \cup {c}
    /\ UNCHANGED <<reg, published, owned, closed>>

Subscribe(c, options) ==
    /\ c \in open /\ options # <<>> /\ FreeIDs(reg) # {}
    /\ LET id == Min(FreeIDs(reg))
       IN /\ reg' = SubscribeLocked(reg, id, options, FALSE)
          /\ owned' = [owned EXCEPT ![c] = @ \cup {id}]
    /\ UNCHANGED <<published, open, closed>>

Unsubscribe(c, id) ==
    /\ c \in open /\ id \in owned[c]
    /\ reg' = UnsubscribeLocked(reg, id)
    /\ owned' = [owned EXCEPT ![c] = @ \ {id}]
    /\ UNCHANGED <<published, open, closed>>

\* The first endpoint of a name and priority makes the publication.
Publish(c, n, p) ==
    /\ c \in open /\ published[c] = NoPub
    /\ published' = [published EXCEPT ![c] = Pub(n, p)]
    /\ reg' = IF Pub(n, p) \in DOMAIN reg.refs THEN reg
              ELSE Register(reg, Pub(n, p))
    /\ UNCHANGED <<owned, open, closed>>

\* The publication goes with its last endpoint.  others are the endpoints
\* that stay.
Unpublished(R, x, others) ==
    IF x = NoPub \/ x \in others THEN R ELSE Withdraw(R, x)

\* By its client, or by force after a failed request.
Unpublish(c) ==
    /\ c \in open /\ published[c] # NoPub
    /\ published' = [published EXCEPT ![c] = NoPub]
    /\ reg' = Unpublished(reg, published[c], Range(published'))
    /\ UNCHANGED <<owned, open, closed>>

SetRoute(c, n, routes) ==
    LET old == IF n \in DOMAIN reg.route THEN Len(reg.route[n].cases) ELSE 0
    IN /\ c \in open
       /\ Len(routes) <= Cardinality(FreeIDs(reg)) + old
       /\ reg' = SetRouteLocked(reg, n, routes)
       /\ UNCHANGED <<published, owned, open, closed>>

\* serverClient.closeWithErrorLocked for every client in S.
CloseClients(S) ==
    LET R == FoldSet(LAMBDA id, Q : UnsubscribeLocked(Q, id), reg,
                     UNION {owned[c] : c \in S})
    IN /\ owned' = [c \in Client |-> IF c \in S THEN {} ELSE owned[c]]
       /\ published' = [c \in Client |->
                           IF c \in S THEN NoPub ELSE published[c]]
       /\ reg' = FoldSet(LAMBDA x, Q : Unpublished(Q, x, Range(published')),
                         R, Range(published))
       /\ open' = open \ S

\* The connection of the client is done.
ClientDone(c) ==
    /\ c \in open
    /\ CloseClients({c})
    /\ UNCHANGED closed

CloseServer ==
    /\ ~closed
    /\ closed' = TRUE
    /\ CloseClients(open)

\* A peer announces a remote; another one under its target id makes way.
AddRemote(x) ==
    LET old == {y \in DOMAIN reg.refs : y.kind = "remote" /\ y.id = x.id}
    IN /\ ~closed /\ x \notin old
       /\ reg' = Register(FoldSet(LAMBDA y, Q : Withdraw(Q, y), reg, old), x)
       /\ UNCHANGED <<published, owned, open, closed>>

RemoveRemote(x) ==
    /\ x \in DOMAIN reg.refs
    /\ reg' = Withdraw(reg, x)
    /\ UNCHANGED <<published, owned, open, closed>>

Next ==
    \/ \E c \in Client :
          \/ Connect(c) \/ Unpublish(c) \/ ClientDone(c)
          \/ \E options \in Options : Subscribe(c, options)
          \/ \E id \in 1 .. MaxSub : Unsubscribe(c, id)
          \/ \E n \in Name, p \in Priority : Publish(c, n, p)
          \/ \E n \in Name, routes \in Routes : SetRoute(c, n, routes)
    \/ \E x \in Announced : AddRemote(x) \/ RemoveRemote(x)
    \/ CloseServer

Spec == Init /\ [][Next]_vars

-----------------------------------------------------------------------------
\* Where a request goes, and the endpoints that a client is told

\* An option without a route serves from its best publication, or from any
\* remote of the best priority.
Direct(o) ==
    IF o.local # <<>> /\ o.localPriority <= o.remotePriority
    THEN {o.local[1]}
    ELSE {o.remote[i] : i \in 1 .. o.remoteCount}

DirectEndpoints(o) ==
    IF o.local # <<>> /\ o.localPriority <= o.remotePriority
    THEN {o.local[1]}
    ELSE {x \in Range(o.remote) : x.priority = o.remotePriority}

HasActive(s) == s.active <= Len(s.options)

ActiveCases(R, n) ==
    SelectSeq(R.route[n].cases,
              LAMBDA c : c.weight > 0 /\ HasActive(R.sub[c.sub]))

SumWeights(cases) == FoldLeft(LAMBDA n, c : n + c.weight, 0, cases)

\* The values of globalRandom.Int63n(sum).
Bins(cases) == {b \in 0 .. SumWeights(cases) : b < SumWeights(cases)}

\* Mutant: one bin too many for a case.
PickOneMore(cases, bin) ==
    FoldLeft(LAMBDA p, c : IF p.sub # 0 THEN p
                           ELSE IF p.bin <= c.weight
                                THEN [p EXCEPT !.sub = c.sub]
                           ELSE [p EXCEPT !.bin = @ - c.weight],
             [bin |-> bin, sub |-> 0], cases).sub

\* The case that random number bin selects; 0 stands for the panic.
Pick(cases, bin) ==
    FoldLeft(LAMBDA p, c : IF p.sub # 0 THEN p
                           ELSE IF p.bin < c.weight
                                THEN [p EXCEPT !.sub = c.sub]
                           ELSE [p EXCEPT !.bin = @ - c.weight],
             [bin |-> bin, sub |-> 0], cases).sub

ActiveOption(s) == s.options[s.active]

\* What handleRequestRLocked of the subscription may hand a request to.
HandleRequest(R, s) ==
    IF ~HasActive(s) THEN {}
    ELSE LET o  == ActiveOption(s)
             cs == ActiveCases(R, o.route.name)
         IN IF o.route = NoRoute THEN Direct(o)
            ELSE UNION {Direct(ActiveOption(R.sub[Pick(cs, bin)])) :
                           bin \in Bins(cs)}

GetEndpoints(R, s) ==
    IF ~HasActive(s) THEN {}
    ELSE LET o == ActiveOption(s)
         IN IF o.route = NoRoute THEN DirectEndpoints(o)
            ELSE UNION {DirectEndpoints(ActiveOption(R.sub[c.sub])) :
                           c \in Range(ActiveCases(R, o.route.name))}

\* Mutant: a smaller distance is always better.
IsNearerEndpoint(priority, found, distance, foundDistance) ==
    priority < found \/ distance < foundDistance

\* (priority, distance) is better than what was found
IsBetterEndpoint(priority, found, distance, foundDistance) ==
    \/ priority < found
    \/ priority = found /\ foundDistance >= 2 /\ distance < foundDistance

NoEndpoint == [kind |-> "none", priority |-> MaxPriority, distance |-> 0]

\* One scan of the publications and remotes, in the order of lists P and M.
Scan(P, M) ==
    LET local  == FoldLeft(LAMBDA f, x :
                      IF f = NoEndpoint \/ x.priority < f.priority
                      THEN x @@ [distance |-> 0] ELSE f, NoEndpoint, P)
        either == FoldLeft(LAMBDA f, x :
                      IF f = NoEndpoint
                         \/ IsBetterEndpoint(x.priority, f.priority,
                                             x.distance, f.distance)
                      THEN x ELSE f, local, M)
    IN IF local # NoEndpoint /\ local.priority = 0 THEN local ELSE either

\* What findEndpointRLocked may find: Go iterates over a map in any order.
FindEndpoint(n, min, max) ==
    LET S == {x \in DOMAIN reg.refs : x.name = n}
        pubs == IF min = 0 THEN {x \in S : x.kind = "pub"} ELSE {}
        remotes == {x \in S : /\ x.kind = "remote"
                              /\ min <= x.distance /\ x.distance <= max}
    IN IF n \in DOMAIN reg.route THEN {RouteTo(n)}
       ELSE {Scan(P, M) : P \in SetToSeqs(pubs), M \in SetToSeqs(remotes)}

-----------------------------------------------------------------------------
CaseSubs(n) == {c.sub : c \in Range(reg.route[n].cases)}

TypeOK ==
    /\ DOMAIN reg.sub \subseteq 1 .. MaxSub
    /\ \A id \in DOMAIN reg.sub :
          reg.sub[id].active \in 1 .. Len(reg.sub[id].options) + 1
    /\ DOMAIN reg.route \subseteq Name
    /\ reg.subsByName \in [Name -> SUBSET (DOMAIN reg.sub)]
    /\ \A x \in DOMAIN reg.refs :
          /\ x \in Announced \cup {RouteTo(n) : n \in Name}
                   \cup {Pub(n, p) : n \in Name, p \in Priority}
          /\ reg.refs[x] \subseteq DOMAIN reg.sub
    /\ \A c \in Client : owned[c] \subseteq DOMAIN reg.sub
    /\ open \subseteq Client
    /\ closed \in BOOLEAN

\* Nothing is left behind and nothing dangles: every subscription belongs to one
\* client that is still open or is a case of one route that is still set, a
\* route has the cases of its routes, and a publication has an endpoint.
NothingLeftBehind ==
    /\ \A c \in Client \ open : owned[c] = {} /\ published[c] = NoPub
    /\ DOMAIN reg.sub = UNION (Range(owned) \cup
                               {CaseSubs(n) : n \in DOMAIN reg.route})
    /\ \A c \in Client, n \in DOMAIN reg.route : owned[c] \cap CaseSubs(n) = {}
    /\ \A n \in DOMAIN reg.route :
          LET r == reg.route[n]
          IN /\ Len(r.cases) = Len(r.routes) /\ r.cases # <<>>
             /\ \A i \in DOMAIN r.cases :
                   /\ r.cases[i].weight = r.routes[i].weight
                   /\ reg.sub[r.cases[i].sub].disableRoutes
    /\ {x \in DOMAIN reg.refs : x.kind = "pub"} = Range(published) \ {NoPub}
    /\ {x \in DOMAIN reg.refs : x.kind = "route"} =
          {RouteTo(n) : n \in DOMAIN reg.route}

\* The set of subscriptions kept by every route, publication and remote is
\* exactly the set of those that list it, and these are exactly the ones whose
\* options accept it; subsByName has the subscriptions that name a service.
\* The sets are kept by add, remove, subscribe and unsubscribe separately.
\* Nothing is left behind, whoever leaves in whatever order.
ReferencesExact ==
    /\ TypeOK
    /\ \A x \in DOMAIN reg.refs, id \in DOMAIN reg.sub :
          /\ id \in reg.refs[x] <=> Takes(reg.sub[id], x)
          /\ id \in reg.refs[x] <=> x \in Held(reg.sub[id])
    /\ \A id \in DOMAIN reg.sub :
          /\ Held(reg.sub[id]) \subseteq DOMAIN reg.refs
          /\ \A n \in Name :
                id \in reg.subsByName[n] <=>
                   \E i \in DOMAIN reg.sub[id].options :
                      reg.sub[id].options[i].service = n
    /\ NothingLeftBehind

\* From the registry alone: the publications and remotes an option may use,
\* and the best of them.
Usable(o) ==
    {x \in DOMAIN reg.refs :
        \/ x.kind = "pub" /\ x.name = o.service /\ o.minDistance = 0
        \/ /\ x.kind = "remote" /\ x.name = o.service
           /\ x.distance \in o.minDistance .. o.maxDistance}

BestOf(S) ==
    LET best == {x \in S : \A y \in S : x.priority <= y.priority}
        local == {x \in best : x.kind = "pub"}
    IN IF local # {} THEN local ELSE best

\* The best of the first option in the list that has any.
FirstBest(options) ==
    LET some == {i \in DOMAIN options : Usable(options[i]) # {}}
    IN IF some = {} THEN {} ELSE BestOf(Usable(options[Min(some)]))

Expected(options) ==
    LET routed(i) == options[i].service \in DOMAIN reg.route
        some == {i \in DOMAIN options : routed(i) \/ Usable(options[i]) # {}}
        first == Min(some)
    IN IF some = {} THEN {}
       ELSE IF routed(first)
            THEN LET r == reg.route[options[first].service]
                 IN UNION {FirstBest(q.options) :
                              q \in {x \in Range(r.routes) : x.weight > 0}}
       ELSE BestOf(Usable(options[first]))

\* A request of a client goes to the best there is: by the first option that has
\* a route, publication or remote; by a route that weighs something; to the
\* lowest priority, and to a local publication before a remote.  The cached
\* priorities, counts and active indexes are right after any sequence of
\* operations, and the endpoints a client is told are those its requests reach.
RequestsReachBest ==
    \A c \in Client : \A id \in owned[c] :
       LET s == reg.sub[id]
       IN /\ HandleRequest(reg, s) = Expected(s.options)
          /\ GetEndpoints(reg, s) = HandleRequest(reg, s)

\* Every random number selects a case ("this should never happen!", the panic
\* after the loop), and a case is selected in proportion to its weight.
WeightsRespected ==
    \A n \in DOMAIN reg.route :
       LET cs == ActiveCases(reg, n)
           bins == Bins(cs)
       IN /\ \A b \in bins : Pick(cs, b) # 0
          /\ \A i \in DOMAIN cs :
                Cardinality({b \in bins : Pick(cs, b) = cs[i].sub})
                   = cs[i].weight

\* Where no route has the name, "Endpoints with lower priority are preferred",
\* then "distance in [0, 1]", then "the lowest distance >= 2" (the comment of
\* findEndpointRLocked), in whatever order the maps are scanned.
FindsBest ==
    \A n \in Name \ DOMAIN reg.route, min \in Distance, max \in Distance :
       LET S == Usable([service |-> n,
                        minDistance |-> min, maxDistance |-> max])
           far(x) == IF x.kind = "pub" THEN 1 ELSE Max({1, x.distance})
       IN \A f \in FindEndpoint(n, min, max) :
             IF f = NoEndpoint THEN S = {}
             ELSE \A x \in S : /\ f.priority <= x.priority
                               /\ f.priority = x.priority => far(f) <= far(x)
=============================================================================
