---------------------------- MODULE RoutingSync ----------------------------
(***************************************************************************)
(* How the routing table follows the two buses.  Multiplexer::new fills it *)
(* from ListNames and only then subscribes to NameOwnerChanged; the event  *)
(* loop applies the signals one by one, each bus' signals in order, the    *)
(* two buses in any interleaving.                                          *)
(*                                                                         *)
(* The buses are external: peers with a unique name connect, acquire names *)
(* (from nobody or from another peer), release them, and disconnect once   *)
(* they own none, as the daemon announces lost names before the peer.      *)
(***************************************************************************)
EXTENDS Routing, Sequences, Naturals

CONSTANTS Peers,         \* Peers[r]: the unique names that may appear on bus r
          InitialPeers,  \* those that may be there before the mux starts
          MaxInFlight,   \* bound: signals a bus has sent and the mux not read
          QuietStartup   \* TRUE: no bus changes while the mux starts

ASSUME SyncAssumption ==
    /\ Peers \in [Route -> SUBSET Unique]
    /\ Peers["Container"] \cap Peers["Host"] = {}
    /\ InitialPeers \subseteq Unique
    /\ MaxInFlight \in Nat \ {0}
    /\ QuietStartup \in BOOLEAN

VARIABLES table,       \* the RoutingTable
          phase,       \* how far Multiplexer::new and run have come
          connected,   \* connected[r]: unique names on bus r
          owner,       \* owner[r][w]: unique name that owns w on bus r
          stream       \* stream[r]: signals sent by bus r and not yet handled

vars == <<table, phase, connected, owner, stream>>

Phases == <<"list_container", "list_host", "list_activatable",
            "subscribe_container", "subscribe_host", "running">>

At(p) == phase = p

Reached(p) == \E i, j \in 1..6 : Phases[i] = p /\ Phases[j] = phase /\ i <= j

Subscribed(r) ==
    Reached(IF r = "Container" THEN "subscribe_host" ELSE "running")

Signal == [name : WellKnown \cup Unique, old : Unique \cup {NoOwner},
           new : Unique \cup {NoOwner}]

OwnedOn(r) == {w \in WellKnown : owner[r][w] # NoOwner}

Init ==
    /\ table = NewTable
    /\ phase = "list_container"
    /\ connected \in [Route -> SUBSET InitialPeers]
    /\ \A r \in Route : connected[r] \subseteq Peers[r]
    /\ owner \in [Route -> [WellKnown -> Unique \cup {NoOwner}]]
    /\ \A r \in Route, w \in WellKnown : owner[r][w] \in connected[r] \cup {NoOwner}
    /\ stream = [r \in Route |-> <<>>]

-----------------------------------------------------------------------------
(* Multiplexer::new and sync_routing_table.                                  *)

ListNames(r) ==
    /\ At(IF r = "Container" THEN "list_container" ELSE "list_host")
    /\ table' = SetNames(table, r, OwnedOn(r))
    /\ phase' = IF r = "Container" THEN "list_host" ELSE "list_activatable"
    /\ UNCHANGED <<connected, owner, stream>>

ListActivatable ==
    /\ At("list_activatable")
    /\ \E names \in SUBSET WellKnown : table' = SetActivatable(table, names)
    /\ phase' = "subscribe_container"
    /\ UNCHANGED <<connected, owner, stream>>

Subscribe(r) ==
    /\ At(IF r = "Container" THEN "subscribe_container" ELSE "subscribe_host")
    /\ phase' = IF r = "Container" THEN "subscribe_host" ELSE "running"
    /\ UNCHANGED <<table, connected, owner, stream>>

\* The NameOwnerChanged branch of handle_bus_message.
HandleNameOwnerChanged(r) ==
    /\ At("running")
    /\ stream[r] # <<>>
    /\ LET s == Head(stream[r])
       IN  table' = OnNameChange(table, r, s.name, s.old, s.new)
    /\ stream' = [stream EXCEPT ![r] = Tail(@)]
    /\ UNCHANGED <<phase, connected, owner>>

-----------------------------------------------------------------------------
(* The buses.                                                                *)

Announce(r, name, old, new) ==
    /\ QuietStartup => At("running")
    /\ Len(stream[r]) < MaxInFlight
    /\ stream' = IF Subscribed(r)
                 THEN [stream EXCEPT ![r] =
                         Append(@, [name |-> name, old |-> old, new |-> new])]
                 ELSE stream
    /\ UNCHANGED <<table, phase>>

PeerConnects(r, u) ==
    /\ u \notin connected[r]
    /\ connected' = [connected EXCEPT ![r] = @ \cup {u}]
    /\ Announce(r, u, NoOwner, u)
    /\ UNCHANGED owner

PeerDisconnects(r, u) ==
    /\ u \in connected[r]
    /\ \A w \in WellKnown : owner[r][w] # u
    /\ connected' = [connected EXCEPT ![r] = @ \ {u}]
    /\ Announce(r, u, u, NoOwner)
    /\ UNCHANGED owner

NameMoves(r, w, new) ==
    /\ new \in connected[r] \cup {NoOwner}
    /\ owner[r][w] # new
    /\ owner' = [owner EXCEPT ![r][w] = new]
    /\ Announce(r, w, owner[r][w], new)
    /\ UNCHANGED connected

Bus(r) ==
    \/ \E u \in Peers[r] : PeerConnects(r, u) \/ PeerDisconnects(r, u)
    \/ \E w \in WellKnown, new \in Peers[r] \cup {NoOwner} : NameMoves(r, w, new)

Startup == ListActivatable \/ \E r \in Route : ListNames(r) \/ Subscribe(r)

Next == Startup \/ \E r \in Route : HandleNameOwnerChanged(r) \/ Bus(r)

\* The event loop's select! keeps serving a bus that has a message ready.
Fairness == WF_vars(Startup) /\ \A r \in Route : WF_vars(HandleNameOwnerChanged(r))

Spec == Init /\ [][Next]_vars
FairSpec == Spec /\ Fairness

-----------------------------------------------------------------------------
TypeOK ==
    /\ table \in RoutingTable
    /\ phase \in {Phases[i] : i \in 1..6}
    /\ connected \in [Route -> SUBSET Unique]
    /\ owner \in [Route -> [WellKnown -> Unique \cup {NoOwner}]]
    /\ stream \in [Route -> Seq(Signal)]

\* For every name, the table and the signals still under way together tell the
\* state of the bus: if a signal about the name is pending, the last one names
\* the bus' owner, and if none is, the table has the name exactly when it is
\* owned.  So out of date answers are only ever a matter of unread signals.
LastSignalDecides ==
    At("running") => \A r \in Route, w \in WellKnown :
        LET about == {i \in 1..Len(stream[r]) : stream[r][i].name = w}
        IN  IF about = {} THEN w \in table.names[r] <=> owner[r][w] # NoOwner
            ELSE \E i \in about : /\ \A j \in about : j <= i
                                  /\ stream[r][i].new = owner[r][w]

\* Once both streams are read, a well-known name is routed to the container
\* exactly when the container owns it ("Container-owned names (always route to
\* container)"), whatever happens to the name on the host.
ContainerFirst ==
    At("running") /\ (\A r \in Route : stream[r] = <<>>) =>
        \A w \in WellKnown :
            RouteFor(table, w) = "Container" <=> owner["Container"][w] # NoOwner

\* The registry keeps no unique name of a peer that has left: once bus r's
\* stream is read, a name registered for r is connected to r.
RegistryHasNoLeavers ==
    \A r \in Route, u \in Unique :
        At("running") /\ stream[r] = <<>> /\ table.unique_names[u] = r
        => u \in connected[r]

\* A name the container keeps owning is in the end always routed there.
RouteCatchesUp ==
    \A w \in WellKnown :
        <>[](owner["Container"][w] # NoOwner) => <>[](RouteFor(table, w) = "Container")

\* "Maps unique names (":1.xxx") to their originating bus": once the stream is
\* read, a peer of the container is reached on the container.
PeerReachedByUniqueName ==
    At("running") /\ stream["Container"] = <<>> =>
        \A u \in connected["Container"] : RouteFor(table, u) = "Container"
=============================================================================
