------------------------- MODULE RoutingSyncProofs -------------------------
(***************************************************************************)
(* Theorems about RoutingSync, for any sets of names and peers and any     *)
(* number of signals under way.                                            *)
(***************************************************************************)
EXTENDS RoutingSync, TLAPS

-----------------------------------------------------------------------------
(* Phases of the start-up.                                                 *)

PhaseSet == {"list_container", "list_host", "list_activatable",
             "subscribe_container", "subscribe_host", "running"}

\* The phases of start-up by name.
LEMMA PhaseNames == {Phases[i] : i \in 1..6} = PhaseSet
<1>1. /\ Phases[1] = "list_container" /\ Phases[2] = "list_host"
      /\ Phases[3] = "list_activatable" /\ Phases[4] = "subscribe_container"
      /\ Phases[5] = "subscribe_host" /\ Phases[6] = "running"
  BY Zenon DEF Phases
<1>2. 1..6 = {1, 2, 3, 4, 5, 6}
  OBVIOUS
<1>3. QED
  BY <1>1, <1>2, ZenonT(40) DEF PhaseSet

\* A phase that comes no earlier than the last or the last but one.
LEMMA PhaseOrder ==
    ASSUME NEW p \in PhaseSet
    PROVE  /\ (\E i, j \in 1..6 : Phases[i] = "running" /\ Phases[j] = p /\ i <= j)
                 <=> p = "running"
           /\ (\E i, j \in 1..6 : Phases[i] = "subscribe_host" /\ Phases[j] = p /\ i <= j)
                 <=> p \in {"subscribe_host", "running"}
<1>1. /\ Phases[1] = "list_container" /\ Phases[2] = "list_host"
      /\ Phases[3] = "list_activatable" /\ Phases[4] = "subscribe_container"
      /\ Phases[5] = "subscribe_host" /\ Phases[6] = "running"
  BY Zenon DEF Phases
<1>2. \A i \in 1..6 : i = 1 \/ i = 2 \/ i = 3 \/ i = 4 \/ i = 5 \/ i = 6
  OBVIOUS
<1>3. 5 \in 1..6 /\ 6 \in 1..6 /\ 5 <= 5 /\ 5 <= 6 /\ 6 <= 6
  OBVIOUS
<1>4. ASSUME NEW i \in 1..6, NEW j \in 1..6, Phases[i] = "running", Phases[j] = p, i <= j
      PROVE  p = "running"
  <2>1. i = 6
    BY <1>1, <1>2, <1>4, Zenon
  <2>2. j = 6
    BY <1>4, <2>1
  <2>3. QED
    BY <1>1, <1>4, <2>2, Zenon
<1>5. ASSUME NEW i \in 1..6, NEW j \in 1..6, Phases[i] = "subscribe_host", Phases[j] = p, i <= j
      PROVE  p \in {"subscribe_host", "running"}
  <2>1. i = 5
    BY <1>1, <1>2, <1>5, Zenon
  <2>2. j = 5 \/ j = 6
    BY <1>5, <2>1
  <2>3. QED
    BY <1>1, <1>5, <2>2, Zenon
<1>6. QED
  BY <1>1, <1>3, <1>4, <1>5, Zenon

\* Which bus is listened to in which phase, before and after a step.
LEMMA SubscribedWhen ==
    /\ phase \in PhaseSet =>
          /\ Subscribed("Container") <=> phase \in {"subscribe_host", "running"}
          /\ Subscribed("Host") <=> phase = "running"
    /\ phase' \in PhaseSet =>
          /\ Subscribed("Container")' <=> phase' \in {"subscribe_host", "running"}
          /\ Subscribed("Host")' <=> phase' = "running"
<1>1. /\ Subscribed("Container") <=> Reached("subscribe_host")
      /\ Subscribed("Host") <=> Reached("running")
      /\ Subscribed("Container")' <=> Reached("subscribe_host")'
      /\ Subscribed("Host")' <=> Reached("running")'
  BY Zenon DEF Subscribed
<1>2. QED
  BY <1>1, PhaseOrder, Zenon DEF Reached

-----------------------------------------------------------------------------
(* One signal applied to the table.                                        *)

\* on_container_name_change and on_host_name_change: the name is there exactly
\* if it has a new owner, who is registered; the old owner no longer is.
LEMMA NameChangeEffect ==
    ASSUME NEW t \in RoutingTable, NEW r \in Route, NEW s \in Signal,
           NEW t1, t1 = OnNameChange(t, r, s.name, s.old, s.new)
    PROVE  /\ t1 \in RoutingTable
           /\ \A r1 \in Route, n \in WellKnown \cup Unique :
                 n \in t1.names[r1] <=> IF r1 = r /\ n = s.name THEN s.new # NoOwner
                                        ELSE n \in t.names[r1]
           /\ \A u \in Unique :
                 t1.unique_names[u] = IF u = s.new THEN r
                                      ELSE IF u = s.old THEN NoOwner ELSE t.unique_names[u]
<1> DEFINE left == Unregister(t.unique_names, s.old)
<1>1. /\ t.names \in [Route -> SUBSET (WellKnown \cup Unique)]
      /\ t.host_activatable \in SUBSET WellKnown
      /\ t.unique_names \in [Unique -> Route \cup {NoOwner}]
      /\ t = [names |-> t.names, host_activatable |-> t.host_activatable,
              unique_names |-> t.unique_names]
  BY Zenon DEF RoutingTable
<1>2. /\ s.name \in WellKnown \cup Unique /\ s.old \in Unique \cup {NoOwner}
      /\ s.new \in Unique \cup {NoOwner}
  BY Zenon DEF Signal
<1>3. NoOwner \notin Unique
  BY NamesAssumption, Zenon
<1>4. /\ left \in [Unique -> Route \cup {NoOwner}]
      /\ \A u \in Unique : left[u] = IF u = s.old THEN NoOwner ELSE t.unique_names[u]
  BY <1>1, <1>2, <1>3, Zenon DEF Unregister
<1>5. CASE s.new = NoOwner
  <2>1. t1 = [t EXCEPT !.names[r] = @ \ {s.name}, !.unique_names = left]
    BY <1>5, Zenon DEF OnNameChange
  <2> HIDE DEF left
  <2>2. /\ t1.names = [t.names EXCEPT ![r] = @ \ {s.name}] /\ t1.unique_names = left
        /\ t1 = [names |-> t1.names, host_activatable |-> t.host_activatable,
                 unique_names |-> t1.unique_names]
    BY <1>1, <2>1, Zenon
  <2>3. t1.names \in [Route -> SUBSET (WellKnown \cup Unique)]
    BY <1>1, <2>2, Zenon
  <2>4. QED
    BY <1>1, <1>2, <1>3, <1>4, <1>5, <2>2, <2>3 DEF RoutingTable
<1>6. CASE s.new # NoOwner
  <2>1. t1 = [t EXCEPT !.names[r] = @ \cup {s.name}, !.unique_names = [left EXCEPT ![s.new] = r]]
    BY <1>6, Zenon DEF OnNameChange
  <2> HIDE DEF left
  <2>2. /\ t1.names = [t.names EXCEPT ![r] = @ \cup {s.name}]
        /\ t1.unique_names = [left EXCEPT ![s.new] = r]
        /\ t1 = [names |-> t1.names, host_activatable |-> t.host_activatable,
                 unique_names |-> t1.unique_names]
    BY <1>1, <2>1, Zenon
  <2>3. t1.names \in [Route -> SUBSET (WellKnown \cup Unique)]
    BY <1>1, <1>2, <2>2
  <2>4. t1.unique_names \in [Unique -> Route \cup {NoOwner}]
    BY <1>4, <2>2, Zenon
  <2>5. t1 \in RoutingTable
    BY <1>1, <2>2, <2>3, <2>4 DEF RoutingTable
  <2>6. \A r1 \in Route, n \in WellKnown \cup Unique :
            n \in t1.names[r1] <=> IF r1 = r /\ n = s.name THEN s.new # NoOwner
                                   ELSE n \in t.names[r1]
    BY <1>1, <1>6, <2>2
  <2>7. \A u \in Unique :
            t1.unique_names[u] = IF u = s.new THEN r
                                 ELSE IF u = s.old THEN NoOwner ELSE t.unique_names[u]
    BY <1>2, <1>4, <1>6, <2>2, Zenon
  <2>8. QED
    BY <2>5, <2>6, <2>7, Zenon
<1>7. QED
  BY <1>5, <1>6, Zenon

-----------------------------------------------------------------------------
(* Types.                                                                  *)

\* What the buses' steps have in common: one signal, if anybody listens, that
\* tells what has changed.
Announces(r, s) ==
    /\ stream' = IF Subscribed(r) THEN [stream EXCEPT ![r] = Append(@, s)] ELSE stream
    /\ table' = table /\ phase' = phase
    /\ connected' \in [Route -> SUBSET Unique]
    /\ owner' \in [Route -> [WellKnown -> Unique \cup {NoOwner}]]
    /\ QuietStartup => phase = "running"
    /\ s.name \in WellKnown => owner'[r][s.name] = s.new
    /\ \A r1 \in Route, w \in WellKnown :
          r1 # r \/ w # s.name => owner'[r1][w] = owner[r1][w]
    /\ s.new \in connected'[r] \cup {NoOwner}
    /\ \A r1 \in Route, u \in Unique :
          u \in connected[r1] /\ (r1 # r \/ u # s.old) => u \in connected'[r1]

\* Whatever happens on a bus is one signal for those who listen.
LEMMA Announced ==
    ASSUME TypeOK, NEW r \in Route, Bus(r)
    PROVE  \E s \in Signal : Announces(r, s)
<1>0. /\ Peers[r] \subseteq Unique /\ connected \in [Route -> SUBSET Unique]
      /\ owner \in [Route -> [WellKnown -> Unique \cup {NoOwner}]]
      /\ WellKnown \cap Unique = {}
  BY SyncAssumption, NamesAssumption, Zenon DEF TypeOK
<1>1. ASSUME NEW u \in Peers[r], PeerConnects(r, u)
      PROVE  Announces(r, [name |-> u, old |-> NoOwner, new |-> u])
  BY <1>0, <1>1, Zenon DEF PeerConnects, Announce, At, Announces
<1>2. ASSUME NEW u \in Peers[r], PeerDisconnects(r, u)
      PROVE  Announces(r, [name |-> u, old |-> u, new |-> NoOwner])
  BY <1>0, <1>2, Zenon DEF PeerDisconnects, Announce, At, Announces
<1>3. ASSUME NEW w \in WellKnown, NEW new \in Peers[r] \cup {NoOwner}, NameMoves(r, w, new)
      PROVE  Announces(r, [name |-> w, old |-> owner[r][w], new |-> new])
  <2> DEFINE s == [name |-> w, old |-> owner[r][w], new |-> new]
  <2>1. /\ stream' = IF Subscribed(r) THEN [stream EXCEPT ![r] = Append(@, s)] ELSE stream
        /\ table' = table /\ phase' = phase /\ connected' = connected
        /\ owner' = [owner EXCEPT ![r][w] = new]
        /\ QuietStartup => phase = "running"
        /\ new \in connected[r] \cup {NoOwner}
    BY <1>3, Zenon DEF NameMoves, Announce, At
  <2>2. /\ owner' \in [Route -> [WellKnown -> Unique \cup {NoOwner}]]
        /\ owner'[r][w] = new
        /\ \A r1 \in Route, w1 \in WellKnown :
               r1 # r \/ w1 # w => owner'[r1][w1] = owner[r1][w1]
    BY <1>0, <2>1, Zenon
  <2>3. s.name = w /\ s.new = new
    BY Zenon
  <2> HIDE DEF s
  <2>4. Announces(r, s)
    BY <1>0, <2>1, <2>2, <2>3, Zenon DEF Announces
  <2>5. QED
    BY <2>4, Zenon DEF s
<1>4. QED
  <2>1. /\ \A u \in Peers[r] : /\ [name |-> u, old |-> NoOwner, new |-> u] \in Signal
                               /\ [name |-> u, old |-> u, new |-> NoOwner] \in Signal
        /\ \A w \in WellKnown, new \in Peers[r] \cup {NoOwner} :
               [name |-> w, old |-> owner[r][w], new |-> new] \in Signal
    BY <1>0, ZenonT(40) DEF Signal
  <2>2. CASE \E u \in Peers[r] : PeerConnects(r, u) \/ PeerDisconnects(r, u)
    BY <1>1, <1>2, <2>1, <2>2, Zenon
  <2>3. CASE \E w \in WellKnown, new \in Peers[r] \cup {NoOwner} : NameMoves(r, w, new)
    BY <1>3, <2>1, <2>3, Zenon
  <2>4. QED
    BY <2>2, <2>3, Zenon DEF Bus

\* Every step leaves the state well typed.
LEMMA TypeStep ==
    ASSUME TypeOK, Next
    PROVE  TypeOK'
<1>0. /\ table \in RoutingTable /\ phase \in PhaseSet
      /\ connected \in [Route -> SUBSET Unique]
      /\ owner \in [Route -> [WellKnown -> Unique \cup {NoOwner}]]
      /\ stream \in [Route -> Seq(Signal)]
  BY PhaseNames, Zenon DEF TypeOK
<1> SUFFICES /\ table' \in RoutingTable /\ phase' \in PhaseSet
             /\ connected' \in [Route -> SUBSET Unique]
             /\ owner' \in [Route -> [WellKnown -> Unique \cup {NoOwner}]]
             /\ stream' \in [Route -> Seq(Signal)]
  BY PhaseNames, Zenon DEF TypeOK
<1>1. ASSUME NEW r \in Route, ListNames(r)
      PROVE  table' \in RoutingTable /\ phase' \in PhaseSet /\ UNCHANGED <<connected, owner, stream>>
  <2>1. OwnedOn(r) \in SUBSET (WellKnown \cup Unique)
    BY Zenon DEF OwnedOn
  <2>2. table' \in RoutingTable
    BY <1>0, <1>1, <2>1, Zenon DEF ListNames, SetNames, RoutingTable
  <2>3. QED
    BY <1>1, <2>2, Zenon DEF ListNames, PhaseSet
<1>2. CASE ListActivatable
  <2>1. table' \in RoutingTable
    BY <1>0, <1>2, Zenon DEF ListActivatable, SetActivatable, RoutingTable
  <2>2. QED
    BY <1>0, <1>2, <2>1, Zenon DEF ListActivatable, PhaseSet
<1>3. ASSUME NEW r \in Route, Subscribe(r)
      PROVE  phase' \in PhaseSet /\ UNCHANGED <<table, connected, owner, stream>>
  BY <1>3, Zenon DEF Subscribe, PhaseSet
<1>4. ASSUME NEW r \in Route, HandleNameOwnerChanged(r)
      PROVE  /\ table' \in RoutingTable /\ stream' \in [Route -> Seq(Signal)]
             /\ UNCHANGED <<phase, connected, owner>>
  <2>1. stream[r] \in Seq(Signal) /\ stream[r] # <<>>
    BY <1>0, <1>4, Zenon DEF HandleNameOwnerChanged
  <2>2. Head(stream[r]) \in Signal /\ Tail(stream[r]) \in Seq(Signal)
    BY <2>1
  <2>3. table' \in RoutingTable
    BY <1>0, <1>4, <2>2, NameChangeEffect DEF HandleNameOwnerChanged
  <2>4. stream' \in [Route -> Seq(Signal)]
    BY <1>0, <1>4, <2>2, Zenon DEF HandleNameOwnerChanged
  <2>5. QED
    BY <1>4, <2>3, <2>4, Zenon DEF HandleNameOwnerChanged
<1>5. ASSUME NEW r \in Route, Bus(r)
      PROVE  /\ stream' \in [Route -> Seq(Signal)] /\ UNCHANGED <<table, phase>>
             /\ connected' \in [Route -> SUBSET Unique]
             /\ owner' \in [Route -> [WellKnown -> Unique \cup {NoOwner}]]
  <2>1. PICK s \in Signal : Announces(r, s)
    BY <1>5, Announced, Zenon
  <2>2. Append(stream[r], s) \in Seq(Signal)
    BY <1>0
  <2>3. stream' \in [Route -> Seq(Signal)]
    BY <1>0, <2>1, <2>2, Zenon DEF Announces
  <2>4. QED
    BY <2>1, <2>3, Zenon DEF Announces
<1>6. QED
  BY <1>0, <1>1, <1>2, <1>3, <1>4, <1>5, Zenon DEF Next, Startup

-----------------------------------------------------------------------------
(* The registry of unique names.                                           *)

\* Nothing is heard before the subscription, and nobody registered before the
\* event loop runs.
Unheard ==
    /\ \A r \in Route : ~ Subscribed(r) => stream[r] = <<>>
    /\ phase # "running" => \A u \in Unique : table.unique_names[u] = NoOwner

\* A unique name that is registered for bus r once the signals under way are
\* applied: the last one about it makes it an owner, or it is registered already
\* and no signal about it follows.
WillBeRegistered(r, u) ==
    \/ \E i \in 1..Len(stream[r]) :
          /\ stream[r][i].new = u
          /\ \A j \in 1..Len(stream[r]) : j > i => stream[r][j].old # u
    \/ /\ table.unique_names[u] = r
       /\ \A j \in 1..Len(stream[r]) : stream[r][j].old # u

RegistryFollows == \A r \in Route, u \in Unique : WillBeRegistered(r, u) => u \in connected[r]

RInv == TypeOK /\ Unheard /\ RegistryFollows

\* A bus has sent nothing before Multiplexer::new subscribes to it.
LEMMA UnheardStep ==
    ASSUME TypeOK, TypeOK', Unheard, Next
    PROVE  Unheard'
<1>0. phase \in PhaseSet /\ phase' \in PhaseSet /\ stream \in [Route -> Seq(Signal)]
  BY PhaseNames, Zenon DEF TypeOK
<1>1. /\ Subscribed("Container") <=> phase \in {"subscribe_host", "running"}
      /\ Subscribed("Host") <=> phase = "running"
  BY <1>0, SubscribedWhen, Zenon
<1>2. /\ Subscribed("Container")' <=> phase' \in {"subscribe_host", "running"}
      /\ Subscribed("Host")' <=> phase' = "running"
  BY <1>0, SubscribedWhen, Zenon
<1>3. CASE Startup
  <2>1. stream' = stream /\ (\A r \in Route : Subscribed(r) => Subscribed(r)')
    BY <1>1, <1>2, <1>3, Zenon DEF Startup, ListNames, ListActivatable, Subscribe, At, Route
  <2>2. phase # "running" /\ (\A u \in Unique : table'.unique_names[u] = table.unique_names[u])
    <3>1. table.unique_names = table'.unique_names /\ phase # "running"
      BY <1>3, Zenon DEF Startup, ListNames, ListActivatable, Subscribe, At, SetNames, SetActivatable,
                  TypeOK, RoutingTable, Route
    <3>2. QED
      BY <3>1, Zenon
  <2>3. QED
    BY <2>1, <2>2, Zenon DEF Unheard
<1>4. ASSUME NEW r \in Route, HandleNameOwnerChanged(r)
      PROVE  Unheard'
  BY <1>2, <1>4, Zenon DEF HandleNameOwnerChanged, At, Unheard, Route
<1>5. ASSUME NEW r \in Route, Bus(r)
      PROVE  Unheard'
  <2>1. PICK s \in Signal : Announces(r, s)
    BY <1>5, Announced, Zenon
  <2>2. phase' = phase /\ table' = table /\ (\A r1 \in Route : Subscribed(r1)' <=> Subscribed(r1))
    BY <1>1, <1>2, <2>1, Zenon DEF Announces, Route
  <2>3. \A r1 \in Route : ~ Subscribed(r1) => stream'[r1] = stream[r1]
    BY <1>0, <2>1, Zenon DEF Announces
  <2>4. QED
    BY <2>2, <2>3, Zenon DEF Unheard
<1>6. QED
  BY <1>3, <1>4, <1>5, Zenon DEF Next

\* A queue of signals one shorter or one longer, element by element.
LEMMA QueueSteps ==
    ASSUME NEW q \in Seq(Signal), NEW s \in Signal
    PROVE  /\ Len(Append(q, s)) = Len(q) + 1 /\ Append(q, s)[Len(q) + 1] = s
           /\ \A i \in 1..Len(q) : Append(q, s)[i] = q[i]
           /\ q # <<>> => /\ Len(q) >= 1 /\ Head(q) = q[1] /\ Head(q) \in Signal
                          /\ Len(Tail(q)) = Len(q) - 1
                          /\ \A i \in 1..(Len(q) - 1) : Tail(q)[i] = q[i + 1]
  OBVIOUS

\* Handling a signal takes it from the stream and does to the registry what was
\* to become of it.
LEMMA RegistryHandle ==
    ASSUME RInv, NEW r \in Route, HandleNameOwnerChanged(r)
    PROVE  RegistryFollows'
<1> DEFINE q == stream[r]
           s == Head(q)
<1>0. /\ q \in Seq(Signal) /\ q # <<>> /\ stream' = [stream EXCEPT ![r] = Tail(q)]
      /\ stream \in [Route -> Seq(Signal)] /\ connected' = connected
      /\ table \in RoutingTable /\ table' = OnNameChange(table, r, s.name, s.old, s.new)
  BY Zenon DEF RInv, TypeOK, HandleNameOwnerChanged
<1>1. /\ Len(q) \in Nat /\ Len(q) >= 1 /\ s = q[1] /\ s \in Signal
      /\ Len(Tail(q)) = Len(q) - 1 /\ \A i \in 1..(Len(q) - 1) : Tail(q)[i] = q[i + 1]
  BY <1>0, QueueSteps
<1>2. \A u \in Unique :
          table'.unique_names[u] = IF u = s.new THEN r
                                   ELSE IF u = s.old THEN NoOwner ELSE table.unique_names[u]
  BY <1>0, <1>1, NameChangeEffect
<1> HIDE DEF s, q
<1>3. SUFFICES ASSUME NEW r1 \in Route, NEW u \in Unique, WillBeRegistered(r1, u)'
               PROVE  WillBeRegistered(r1, u)
  BY <1>0, Zenon DEF RegistryFollows, RInv
<1>4. NoOwner # r1
  BY NamesAssumption, Zenon DEF Route
<1>5. CASE r1 # r
  <2>1. stream'[r1] = stream[r1]
    BY <1>0, <1>5, Zenon
  <2>2. table'.unique_names[u] = r1 => table.unique_names[u] = r1
    BY <1>2, <1>4, <1>5, Zenon
  <2>3. QED
    BY <1>3, <2>1, <2>2, Zenon DEF WillBeRegistered
<1>6. CASE r1 = r
  <2>0. stream'[r] = Tail(q) /\ stream[r] = q
    BY <1>0, Zenon DEF q
  <2>1. CASE \E i \in 1..Len(Tail(q)) :
                /\ Tail(q)[i].new = u
                /\ \A j \in 1..Len(Tail(q)) : j > i => Tail(q)[j].old # u
    <3>1. PICK i \in 1..Len(Tail(q)) :
              /\ Tail(q)[i].new = u
              /\ \A j \in 1..Len(Tail(q)) : j > i => Tail(q)[j].old # u
      BY <2>1, Zenon
    <3>2. i + 1 \in 1..Len(q) /\ q[i + 1].new = u
      BY <1>1, <3>1
    <3>3. ASSUME NEW j \in 1..Len(q), j > i + 1
          PROVE  q[j].old # u
      <4>1. j - 1 \in 1..Len(Tail(q)) /\ j - 1 > i /\ Tail(q)[j - 1] = q[(j - 1) + 1]
        BY <1>1, <3>1, <3>3
      <4>2. (j - 1) + 1 = j
        BY <3>3
      <4>3. QED
        BY <3>1, <4>1, <4>2, Zenon
    <3>4. QED
      BY <1>6, <2>0, <3>2, <3>3, Zenon DEF WillBeRegistered
  <2>2. CASE /\ table'.unique_names[u] = r
             /\ \A j \in 1..Len(Tail(q)) : Tail(q)[j].old # u
    <3>1. \A j \in 1..Len(q) : j > 1 => q[j].old # u
      <4>1. ASSUME NEW j \in 1..Len(q), j > 1
            PROVE  q[j].old # u
        <5>1. j - 1 \in 1..Len(Tail(q)) /\ Tail(q)[j - 1] = q[(j - 1) + 1] /\ (j - 1) + 1 = j
          BY <1>1, <4>1
        <5>2. QED
          BY <2>2, <5>1, Zenon
      <4>2. QED
        BY <4>1, Zenon
    <3>2. CASE u = s.new
      <4>1. 1 \in 1..Len(q) /\ q[1].new = u
        BY <1>1, <3>2
      <4>2. QED
        BY <1>6, <2>0, <3>1, <4>1, Zenon DEF WillBeRegistered
    <3>3. CASE u # s.new
      <4>1. u # s.old /\ table.unique_names[u] = r
        BY <1>2, <1>4, <1>6, <2>2, <3>3, Zenon
      <4>2. \A j \in 1..Len(q) : j = 1 \/ j > 1
        BY <1>1
      <4>3. \A j \in 1..Len(q) : q[j].old # u
        BY <1>1, <3>1, <4>1, <4>2, Zenon
      <4>4. QED
        BY <1>6, <2>0, <4>1, <4>3, Zenon DEF WillBeRegistered
    <3>4. QED
      BY <3>2, <3>3, Zenon
  <2>3. QED
    BY <1>3, <1>6, <2>0, <2>1, <2>2 DEF WillBeRegistered
<1>7. QED
  BY <1>5, <1>6, Zenon

\* A peer that comes or goes is registered or forgotten once its signal is read.
LEMMA RegistryBus ==
    ASSUME RInv, NEW r \in Route, Bus(r)
    PROVE  RegistryFollows'
<1>1. PICK s \in Signal : Announces(r, s)
  BY Announced, Zenon DEF RInv
<1>2. stream \in [Route -> Seq(Signal)] /\ table' = table
  BY <1>1, Zenon DEF RInv, TypeOK, Announces
<1>3. SUFFICES ASSUME NEW r1 \in Route, NEW u \in Unique, WillBeRegistered(r1, u)'
               PROVE  u \in connected'[r1]
  BY Zenon DEF RegistryFollows
<1>4. CASE r1 = r /\ Subscribed(r)
  <2> DEFINE q == stream[r]
  <2>0. stream'[r1] = Append(q, s) /\ q \in Seq(Signal)
    BY <1>1, <1>2, <1>4, Zenon DEF Announces
  <2>1. /\ Len(q) \in Nat /\ Len(Append(q, s)) = Len(q) + 1 /\ Append(q, s)[Len(q) + 1] = s
        /\ \A i \in 1..Len(q) : Append(q, s)[i] = q[i]
    BY <2>0, QueueSteps
  <2> HIDE DEF q
  <2>2. Len(q) + 1 \in 1..Len(Append(q, s)) /\ \A i \in 1..Len(q) : i \in 1..Len(Append(q, s))
    BY <2>1
  <2>3. CASE s.new = u
    <3>1. u # NoOwner
      BY NamesAssumption, Zenon
    <3>2. QED
      BY <1>1, <1>4, <2>3, <3>1, Zenon DEF Announces
  <2>4. CASE s.new # u /\ s.old = u
    <3>1. ~ \A j \in 1..Len(Append(q, s)) : Append(q, s)[j].old # u
      BY <2>1, <2>2, <2>4, Zenon
    <3>2. ASSUME NEW i \in 1..Len(Append(q, s)), Append(q, s)[i].new = u,
                 \A j \in 1..Len(Append(q, s)) : j > i => Append(q, s)[j].old # u
          PROVE  FALSE
      <4>1. CASE i = Len(q) + 1
        BY <2>1, <2>4, <3>2, <4>1, Zenon
      <4>2. CASE i < Len(q) + 1
        BY <2>1, <2>2, <2>4, <3>2, <4>2, Zenon
      <4>3. QED
        BY <2>1, <3>2, <4>1, <4>2
    <3>3. QED
      BY <1>3, <2>0, <3>1, <3>2, Zenon DEF WillBeRegistered
  <2>5. CASE s.new # u /\ s.old # u
    <3>1. WillBeRegistered(r, u)
      <4>1. ASSUME NEW i \in 1..Len(Append(q, s)), Append(q, s)[i].new = u,
                   \A j \in 1..Len(Append(q, s)) : j > i => Append(q, s)[j].old # u
            PROVE  /\ i \in 1..Len(q) /\ q[i].new = u
                   /\ \A j \in 1..Len(q) : j > i => q[j].old # u
        <5>1. i # Len(q) + 1
          BY <2>1, <2>5, <4>1, Zenon
        <5>2. i \in 1..Len(q)
          BY <2>1, <4>1, <5>1
        <5>3. QED
          BY <2>1, <2>2, <4>1, <5>2, Zenon
      <4>2. (\A j \in 1..Len(Append(q, s)) : Append(q, s)[j].old # u) =>
                \A j \in 1..Len(q) : q[j].old # u
        BY <2>1, <2>2, Zenon
      <4>3. QED
        BY <1>2, <1>3, <1>4, <2>0, <4>1, <4>2 DEF WillBeRegistered, q
    <3>2. u \in connected[r]
      BY <3>1, Zenon DEF RInv, RegistryFollows
    <3>3. QED
      BY <1>1, <1>4, <2>5, <3>2, Zenon DEF Announces
  <2>6. QED
    BY <2>3, <2>4, <2>5, Zenon
<1>5. CASE r1 # r
  <2>1. stream'[r1] = stream[r1]
    BY <1>1, <1>2, <1>5, Zenon DEF Announces
  <2>2. u \in connected[r1]
    BY <1>2, <1>3, <2>1, ZenonT(40) DEF WillBeRegistered, RInv, RegistryFollows
  <2>3. QED
    BY <1>1, <1>5, <2>2, Zenon DEF Announces
<1>6. CASE r1 = r /\ ~ Subscribed(r)
  <2>1. stream'[r] = <<>>
    BY <1>1, <1>6, Zenon DEF Announces, RInv, Unheard
  <2>2. phase # "running"
    BY <1>6, SubscribedWhen, PhaseNames, Zenon DEF RInv, TypeOK, Route
  <2>3. table.unique_names[u] = NoOwner /\ NoOwner # r
    BY <2>2, NamesAssumption, Zenon DEF RInv, Unheard, Route
  <2>4. 1..Len(stream'[r]) = {}
    BY <2>1
  <2>5. QED
    BY <1>2, <1>3, <1>6, <2>3, <2>4, Zenon DEF WillBeRegistered
<1>7. QED
  BY <1>4, <1>5, <1>6, Zenon

\* The registry is empty at the start.
LEMMA RegistryInit == Init => RInv
<1> SUFFICES ASSUME Init PROVE RInv
  BY Zenon
<1>1. TypeOK
  <2>1. NewTable \in RoutingTable
    BY Zenon DEF NewTable, RoutingTable, Route
  <2>2. connected \in [Route -> SUBSET Unique]
    BY SyncAssumption, Zenon DEF Init
  <2>3. phase \in PhaseSet /\ stream \in [Route -> Seq(Signal)]
    BY DEF Init, PhaseSet
  <2>4. QED
    BY <2>1, <2>2, <2>3, PhaseNames, Zenon DEF Init, TypeOK
<1>2. \A r \in Route : stream[r] = <<>>
  BY Zenon DEF Init
<1>3. \A u \in Unique : table.unique_names[u] = NoOwner
  BY Zenon DEF Init, NewTable
<1>4. ~ \E r \in Route, u \in Unique : WillBeRegistered(r, u)
  BY <1>2, <1>3, NamesAssumption DEF WillBeRegistered, Route
<1>5. QED
  BY <1>1, <1>2, <1>3, <1>4, Zenon DEF RInv, Unheard, RegistryFollows

\* Every step keeps the invariant of the registry.
LEMMA RegistryStep == RInv /\ [Next]_vars => RInv'
<1> SUFFICES ASSUME RInv, [Next]_vars PROVE RInv'
  BY Zenon
<1>1. CASE Next
  <2>1. TypeOK' /\ Unheard'
    BY <1>1, TypeStep, UnheardStep, Zenon DEF RInv
  <2>2. CASE Startup
    <3>1. stream' = stream /\ connected' = connected /\ table'.unique_names = table.unique_names
      BY <2>2, Zenon DEF Startup, ListNames, ListActivatable, Subscribe, SetNames, SetActivatable,
                  RInv, TypeOK, RoutingTable, Route
    <3>2. RegistryFollows'
      BY <3>1 DEF RInv, RegistryFollows, WillBeRegistered
    <3>3. QED
      BY <2>1, <3>2, Zenon DEF RInv
  <2>3. QED
    BY <1>1, <2>1, <2>2, RegistryHandle, RegistryBus, Zenon DEF Next, RInv
<1>2. CASE UNCHANGED vars
  BY <1>2, ZenonT(40) DEF vars, RInv, TypeOK, Unheard, Subscribed, Reached, RegistryFollows, WillBeRegistered
<1>3. QED
  BY <1>1, <1>2, Zenon

\* The inductive invariant about types, subscriptions and the registry.
THEOREM RegistryInvariant == Spec => []RInv
  BY RegistryInit, RegistryStep, PTL DEF Spec

\* For any peers and any changes, also during start-up: once a bus' signals are
\* read, on_container_name_change and on_host_name_change have left no unique
\* name registered whose peer has gone.
THEOREM NoLeaversRegistered == Spec => []RegistryHasNoLeavers
<1>1. RInv => RegistryHasNoLeavers
  <2> SUFFICES ASSUME RInv, NEW r \in Route, NEW u \in Unique,
                      stream[r] = <<>>, table.unique_names[u] = r
               PROVE  u \in connected[r]
    BY Zenon DEF RegistryHasNoLeavers
  <2>1. 1..Len(stream[r]) = {}
    OBVIOUS
  <2>2. WillBeRegistered(r, u)
    BY <2>1, Zenon DEF WillBeRegistered
  <2>3. QED
    BY <2>2, Zenon DEF RInv, RegistryFollows
<1>2. QED
  BY <1>1, RegistryInvariant, PTL

-----------------------------------------------------------------------------
(* Names, with buses that are quiet during start-up.                       *)

About(r, w) == {i \in 1..Len(stream[r]) : stream[r][i].name = w}

\* LastSignalDecides for one name.
Told(r, w) ==
    /\ About(r, w) = {} => (w \in table.names[r] <=> owner[r][w] # NoOwner)
    /\ About(r, w) # {} => \E i \in About(r, w) : /\ \A j \in About(r, w) : j <= i
                                                  /\ stream[r][i].new = owner[r][w]

\* From the listing of a bus on, until signals are read, the table has what the
\* bus has.
Listed(r) ==
    \/ phase = "list_container"
    \/ r = "Host" /\ phase = "list_host"
    \/ phase # "running" /\ table.names[r] = OwnedOn(r) /\ stream[r] = <<>>
    \/ phase = "running"

QInv ==
    /\ RInv
    /\ \A r \in Route : Listed(r)
    /\ phase = "running" => \A r \in Route, w \in WellKnown : Told(r, w)

\* A signal is read: the table has what it says, and the rest is still to come.
LEMMA ToldHandle ==
    ASSUME TypeOK, NEW r \in Route, NEW w \in WellKnown, Told(r, w), HandleNameOwnerChanged(r)
    PROVE  Told(r, w)'
<1> DEFINE q == stream[r]
           s == Head(q)
<1>0. /\ q \in Seq(Signal) /\ q # <<>> /\ stream'[r] = Tail(q) /\ owner' = owner
      /\ table \in RoutingTable /\ table' = OnNameChange(table, r, s.name, s.old, s.new)
  BY Zenon DEF TypeOK, HandleNameOwnerChanged
<1>1. /\ Len(q) \in Nat /\ Len(q) >= 1 /\ s = q[1] /\ s \in Signal
      /\ Len(Tail(q)) = Len(q) - 1 /\ \A i \in 1..(Len(q) - 1) : Tail(q)[i] = q[i + 1]
  BY <1>0, QueueSteps
<1>2. w \in table'.names[r] <=> IF w = s.name THEN s.new # NoOwner ELSE w \in table.names[r]
  BY <1>0, <1>1, NameChangeEffect
<1> HIDE DEF s, q
<1>3. /\ About(r, w) = {i \in 1..Len(q) : q[i].name = w}
      /\ About(r, w)' = {i \in 1..(Len(q) - 1) : q[i + 1].name = w}
  BY <1>0, <1>1, Zenon DEF About, q
<1>4. /\ \A i \in About(r, w) : i \in Nat /\ (i = 1 \/ (i > 1 /\ i - 1 \in About(r, w)'))
      /\ \A i \in About(r, w)' : i \in Nat \ {0} /\ i + 1 \in About(r, w)
  BY <1>1, <1>3
<1>5. CASE About(r, w)' # {}
  <2>1. PICK i \in About(r, w) : /\ \A j \in About(r, w) : j <= i
                                 /\ stream[r][i].new = owner[r][w]
    BY <1>4, <1>5, Zenon DEF Told
  <2>2. PICK k \in About(r, w)' : k + 1 \in About(r, w)
    BY <1>4, <1>5, Zenon
  <2>3. i > 1
    BY <1>4, <2>1, <2>2
  <2>4. i - 1 \in About(r, w)'
    BY <1>4, <2>1, <2>3
  <2>5. \A j \in About(r, w)' : j <= i - 1
    BY <1>4, <2>1
  <2>6. stream'[r][i - 1].new = owner'[r][w]
    <3>1. i - 1 \in 1..(Len(q) - 1) /\ (i - 1) + 1 = i
      BY <1>1, <1>3, <2>1, <2>3, SMTT(40)
    <3>2. Tail(q)[i - 1] = q[i]
      BY <1>1, <3>1, Zenon
    <3>3. QED
      BY <1>0, <2>1, <3>2, Zenon DEF q
  <2>7. QED
    BY <1>5, <2>4, <2>5, <2>6, Zenon DEF Told
<1>6. CASE About(r, w)' = {}
  <2>1. CASE s.name = w
    <3>1. 1 \in About(r, w)
      BY <1>1, <1>3, <2>1
    <3>2. PICK i \in About(r, w) : stream[r][i].new = owner[r][w]
      BY <3>1, Zenon DEF Told
    <3>3. i = 1
      BY <1>4, <1>6, <3>2, Zenon
    <3>4. s.new = owner[r][w]
      BY <1>1, <3>2, <3>3, Zenon DEF q
    <3>5. QED
      BY <1>0, <1>2, <1>6, <2>1, <3>4, Zenon DEF Told
  <2>2. CASE s.name # w
    <3>1. 1 \notin About(r, w)
      BY <1>1, <1>3, <2>2, Zenon
    <3>2. About(r, w) = {}
      BY <1>4, <1>6, <3>1, Zenon
    <3>3. QED
      BY <1>0, <1>2, <1>6, <2>2, <3>2, Zenon DEF Told
  <2>3. QED
    BY <2>1, <2>2, Zenon
<1>7. QED
  BY <1>5, <1>6, Zenon

\* A signal is sent: the last one about its name tells the new owner.
LEMMA ToldBus ==
    ASSUME TypeOK, NEW r \in Route, NEW r1 \in Route, NEW w \in WellKnown, Told(r1, w),
           NEW s \in Signal, Announces(r, s), Subscribed(r)
    PROVE  Told(r1, w)'
<1>0. stream \in [Route -> Seq(Signal)] /\ table' = table
  BY Zenon DEF TypeOK, Announces
<1>1. CASE r1 # r
  <2>1. stream'[r1] = stream[r1] /\ owner'[r1][w] = owner[r1][w]
    BY <1>0, <1>1, Zenon DEF Announces
  <2>2. About(r1, w)' = About(r1, w)
    BY <2>1, Zenon DEF About
  <2>3. QED
    BY <1>0, <2>1, <2>2, Zenon DEF Told
<1>2. CASE r1 = r
  <2> DEFINE q == stream[r]
  <2>0. stream'[r1] = Append(q, s) /\ q \in Seq(Signal)
    BY <1>0, <1>2, Zenon DEF Announces
  <2>1. /\ Len(q) \in Nat /\ Len(Append(q, s)) = Len(q) + 1 /\ Append(q, s)[Len(q) + 1] = s
        /\ \A i \in 1..Len(q) : Append(q, s)[i] = q[i]
    BY <2>0, QueueSteps
  <2> HIDE DEF q
  <2>2. /\ About(r1, w) = {i \in 1..Len(q) : q[i].name = w}
        /\ About(r1, w)' = {i \in 1..(Len(q) + 1) : Append(q, s)[i].name = w}
    BY <1>2, <2>0, <2>1, Zenon DEF About, q
  <2>3. CASE s.name = w
    <3>1. Len(q) + 1 \in About(r1, w)' /\ \A j \in About(r1, w)' : j <= Len(q) + 1
      BY <2>1, <2>2, <2>3
    <3>2. stream'[r1][Len(q) + 1].new = owner'[r1][w]
      BY <1>2, <2>0, <2>1, <2>3, Zenon DEF Announces
    <3>3. QED
      BY <3>1, <3>2, Zenon DEF Told
  <2>4. CASE s.name # w
    <3>1. About(r1, w)' = About(r1, w)
      BY <2>1, <2>2, <2>4
    <3>2. owner'[r1][w] = owner[r1][w]
      BY <2>4, Zenon DEF Announces
    <3>3. \A i \in About(r1, w) : stream'[r1][i] = stream[r1][i]
      BY <1>2, <2>0, <2>1, <2>2, Zenon DEF q
    <3>4. QED
      BY <1>0, <3>1, <3>2, <3>3, Zenon DEF Told
  <2>5. QED
    BY <2>3, <2>4, Zenon
<1>3. QED
  BY <1>1, <1>2, Zenon

\* Every step keeps table, signals under way and buses together.
LEMMA NamesStep ==
    ASSUME QuietStartup, QInv, Next
    PROVE  QInv'
<1>0. /\ TypeOK /\ RInv /\ RInv' /\ table \in RoutingTable
      /\ phase \in PhaseSet
  BY RegistryStep, PhaseNames, Zenon DEF QInv, RInv, TypeOK
<1>1. ASSUME NEW r \in Route, ListNames(r)
      PROVE  QInv'
  <2>1. /\ phase = (IF r = "Container" THEN "list_container" ELSE "list_host")
        /\ phase' = (IF r = "Container" THEN "list_host" ELSE "list_activatable")
        /\ stream' = stream /\ owner' = owner /\ table' = SetNames(table, r, OwnedOn(r))
    BY <1>1, Zenon DEF ListNames, At
  <2>2. /\ table'.names[r] = OwnedOn(r)
        /\ \A r1 \in Route \ {r} : table'.names[r1] = table.names[r1]
    BY <1>0, <2>1, Zenon DEF SetNames, RoutingTable
  <2>3. OwnedOn("Container")' = OwnedOn("Container") /\ OwnedOn("Host")' = OwnedOn("Host")
    BY <2>1, Zenon DEF OwnedOn
  <2>4. \A r1 \in Route : stream[r1] = <<>>
    BY <1>0, <2>1, SubscribedWhen, Zenon DEF RInv, Unheard, Route
  <2>5. \A r1 \in Route : Listed(r1)'
    BY <2>1, <2>2, <2>3, <2>4, Zenon DEF QInv, Listed, Route
  <2>6. QED
    BY <1>0, <2>1, <2>5, Zenon DEF QInv
<1>2. CASE ListActivatable
  <2>1. /\ phase = "list_activatable" /\ phase' = "subscribe_container"
        /\ stream' = stream /\ owner' = owner /\ table'.names = table.names
    BY <1>0, <1>2, Zenon DEF ListActivatable, At, SetActivatable, RoutingTable
  <2>2. \A r \in Route : OwnedOn(r)' = OwnedOn(r)
    BY <2>1, Zenon DEF OwnedOn
  <2>3. \A r \in Route : Listed(r)'
    BY <2>1, <2>2, Zenon DEF QInv, Listed
  <2>4. QED
    BY <1>0, <2>1, <2>3, Zenon DEF QInv
<1>3. ASSUME NEW r \in Route, Subscribe(r)
      PROVE  QInv'
  <2>1. /\ phase = (IF r = "Container" THEN "subscribe_container" ELSE "subscribe_host")
        /\ phase' = (IF r = "Container" THEN "subscribe_host" ELSE "running")
        /\ stream' = stream /\ owner' = owner /\ table' = table
    BY <1>3, Zenon DEF Subscribe, At
  <2>2. \A r1 \in Route : table.names[r1] = OwnedOn(r1) /\ stream[r1] = <<>>
    BY <2>1, Zenon DEF QInv, Listed
  <2>3. \A r1 \in Route : Listed(r1)'
    <3>1. \A r1 \in Route : OwnedOn(r1)' = OwnedOn(r1)
      BY <2>1, Zenon DEF OwnedOn
    <3>2. QED
      BY <2>1, <2>2, <3>1, Zenon DEF Listed
  <2>4. \A r1 \in Route, w \in WellKnown : Told(r1, w)'
    <3> TAKE r1 \in Route, w \in WellKnown
    <3>1. About(r1, w)' = {}
      BY <2>1, <2>2 DEF About
    <3>2. w \in table'.names[r1] <=> owner'[r1][w] # NoOwner
      BY <2>1, <2>2, Zenon DEF OwnedOn
    <3>3. QED
      BY <3>1, <3>2, Zenon DEF Told
  <2>5. QED
    BY <1>0, <2>3, <2>4, Zenon DEF QInv
<1>4. ASSUME NEW r \in Route, HandleNameOwnerChanged(r)
      PROVE  QInv'
  <2>1. phase = "running" /\ phase' = phase
    BY <1>4, Zenon DEF HandleNameOwnerChanged, At
  <2>2. ASSUME NEW r1 \in Route, NEW w \in WellKnown
        PROVE  Told(r1, w)'
    <3>1. Told(r1, w)
      BY <2>1, Zenon DEF QInv
    <3>2. CASE r1 = r
      BY <1>0, <1>4, <3>1, <3>2, ToldHandle, Zenon
    <3>3. CASE r1 # r
      <4>1. stream'[r1] = stream[r1] /\ owner' = owner
        BY <1>0, <1>4, <3>3, Zenon DEF HandleNameOwnerChanged, TypeOK
      <4>2. w \in table'.names[r1] <=> w \in table.names[r1]
        <5>1. Head(stream[r]) \in Signal
          BY <1>0, <1>4, QueueSteps DEF HandleNameOwnerChanged, TypeOK
        <5>2. QED
          BY <1>0, <1>4, <3>3, <5>1, NameChangeEffect, SMTT(40) DEF HandleNameOwnerChanged
      <4>3. About(r1, w)' = About(r1, w)
        BY <4>1, Zenon DEF About
      <4>4. QED
        BY <3>1, <4>1, <4>2, <4>3, Zenon DEF Told
    <3>4. QED
      BY <3>2, <3>3, Zenon
  <2>3. QED
    BY <1>0, <2>1, <2>2, Zenon DEF QInv, Listed
<1>5. ASSUME NEW r \in Route, Bus(r)
      PROVE  QInv'
  <2>1. PICK s \in Signal : Announces(r, s)
    BY <1>0, <1>5, Announced, Zenon
  <2>2. phase = "running" /\ phase' = phase
    BY <2>1, Zenon DEF Announces
  <2>3. Subscribed(r)
    BY <1>0, <2>2, SubscribedWhen, Zenon DEF Route
  <2>4. \A r1 \in Route, w \in WellKnown : Told(r1, w)'
    BY <1>0, <2>1, <2>2, <2>3, ToldBus, Zenon DEF QInv
  <2>5. QED
    BY <1>0, <2>2, <2>4, Zenon DEF QInv, Listed
<1>6. QED
  BY <1>1, <1>2, <1>3, <1>4, <1>5, Zenon DEF Next, Startup

\* The inductive invariant about names.
THEOREM NamesInvariant == QuietStartup => (Spec => []QInv)
<1> SUFFICES ASSUME QuietStartup PROVE Spec => []QInv
  BY Zenon
<1>1. Init => QInv
  BY RegistryInit, Zenon DEF Init, QInv, Listed
<1>2. QInv /\ [Next]_vars => QInv'
  <2> SUFFICES ASSUME QInv, [Next]_vars PROVE QInv'
    BY Zenon
  <2>1. CASE UNCHANGED vars
    <3>1. RInv'
      BY <2>1, RegistryStep, Zenon DEF QInv
    <3>2. \A r \in Route : Listed(r)'
      BY <2>1, Zenon DEF vars, QInv, Listed, OwnedOn
    <3>3. phase' = "running" => \A r \in Route, w \in WellKnown : Told(r, w)'
      BY <2>1 DEF vars, QInv, Told, About
    <3>4. QED
      BY <3>1, <3>2, <3>3, Zenon DEF QInv
  <2>2. QED
    BY <2>1, NamesStep, Zenon
<1>3. QED
  BY <1>1, <1>2, PTL DEF Spec

\* What the last signal about a name says is what the bus has.
LEMMA ToldIsLastSignal == QInv => LastSignalDecides
  BY Zenon DEF QInv, LastSignalDecides, Told, About, At

\* If no bus changes while the multiplexer starts, table and unread signals
\* together always tell which names are owned, for any number of names, peers
\* and signals under way.
THEOREM SignalsDecide == QuietStartup => (Spec => []LastSignalDecides)
<1> SUFFICES ASSUME QuietStartup PROVE Spec => []LastSignalDecides
  BY Zenon
<1>1. Spec => []QInv
  BY NamesInvariant, Zenon
<1>2. QED
  BY <1>1, ToldIsLastSignal, PTL

\* And once the signals are read, route_for sends a well-known name to the
\* container exactly when the container owns it.
THEOREM ContainerAlwaysFirst == QuietStartup => (Spec => []ContainerFirst)
<1> SUFFICES ASSUME QuietStartup PROVE Spec => []ContainerFirst
  BY Zenon
<1>1. Spec => []QInv
  BY NamesInvariant, Zenon
<1>2. QInv => ContainerFirst
  <2> SUFFICES ASSUME QInv, phase = "running", \A r \in Route : stream[r] = <<>>,
                      NEW w \in WellKnown
               PROVE  RouteFor(table, w) = "Container" <=> owner["Container"][w] # NoOwner
    BY Zenon DEF ContainerFirst, At
  <2>1. "Container" \in Route /\ w \notin Unique
    BY NamesAssumption, Zenon DEF Route
  <2>2. About("Container", w) = {}
    BY <2>1 DEF About
  <2>3. w \in table.names["Container"] <=> owner["Container"][w] # NoOwner
    BY <2>1, <2>2, Zenon DEF QInv, Told
  <2>4. QED
    BY <2>1, <2>3, Zenon DEF RouteFor
<1>3. QED
  BY <1>1, <1>2, PTL
=============================================================================
