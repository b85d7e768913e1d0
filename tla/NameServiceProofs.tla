------------------------- MODULE NameServiceProofs -------------------------
(***************************************************************************)
(* The theorems on NameService.tla.  The first part has the invariants on  *)
(* the bus, its signals and the routing table.  The second part identifies *)
(* the operations of the handlers with those of NameQueueProofs.tla, so    *)
(* that what is proved of the NameQueueManager holds of the service, and   *)
(* derives the theorems about what the queues, the bus, the routing table  *)
(* and owned_names say of each other.                                      *)
(***************************************************************************)
EXTENDS NameServiceSteps

-----------------------------------------------------------------------------
(* The multiplexer has on the bus the names that have a settled owner, and   *)
(* those it is about to give up.                                             *)

Freeing(n) == main.pc \in {"release_look", "release_bus", "release_bus_unknown"} /\ main.name = n

BusInv ==
    \A n \in Names :
        /\ SettledOwner(n) # None => bus[n] = <<Mux>>
        /\ bus[n] # <<>> => SettledOwner(n) # None \/ Freeing(n) \/ Handed(n, None) \/ Forgetting(n)

\* One name changes on the bus.
LEMMA BusChanges ==
    ASSUME OneBus, NEW m \in Names
    PROVE  /\ Takes(m) => bus'[m] = <<Mux>> /\ \A n \in Names : n # m => bus'[n] = bus[n]
           /\ Gives(m) => bus'[m] = <<>> /\ \A n \in Names : n # m => bus'[n] = bus[n]
BY DEF OneBus, Takes, Gives

\* The event loop keeps the bus in step.
LEMMA BusLoop ==
    ASSUME Services = {}, "ReleaseName" \notin Failing, ManagerLaws, QueuesProper, Shaped, Orderly,
           OneBus, BusInv, LoopStep
    PROVE  BusInv'
<1>0. MainKnows /\ None \notin Clients /\ task' = task
  BY LoopLeavesTasks, ValuesAssumption, Zenon DEF Orderly, NQ!NoneAssumption
<1>1. /\ \A n, c : Handed(n, c)' <=> Handed(n, c)
      /\ \A n : Forgetting(n)' <=> Forgetting(n)
  BY <1>0, LoopHands, Zenon
<1>2. ASSUME \A n \in Names : SettledOwner(n)' = SettledOwner(n), bus' = bus,
             \A n : Freeing(n) => Freeing(n)'
      PROVE  BusInv'
  BY <1>1, <1>2, Zenon DEF BusInv
<1>3. CASE RequestBus
  <2>1. /\ main.name \in Names /\ main.client \in Clients /\ main.pc = "request_bus"
        /\ main'.name = main.name
        /\ \A n \in Names : n # main.name \/ main'.pc = "request_revert"
                            => SettledOwner(n)' = SettledOwner(n)
        /\ main'.pc # "request_revert" => SettledOwner(main.name)' = main.client
    BY <1>0, <1>3, BusSettles, Zenon
  <2>2. \A n : ~ Freeing(n)
    BY <2>1, SMTT(40) DEF Freeing
  <2>3. CASE Takes(main.name) /\ main'.pc = "request_record"
    <3>1. bus'[main.name] = <<Mux>> /\ \A n \in Names : n # main.name => bus'[n] = bus[n]
      BY <2>1, <2>3, BusChanges, Zenon
    <3>2. ASSUME NEW n \in Names, n = main.name PROVE SettledOwner(n)' # None
      <4>1. main'.pc # "request_revert"
        BY <2>3
      <4>2. SettledOwner(n)' = main.client
        BY <2>1, <3>2, <4>1, Zenon
      <4> QED BY <1>0, <2>1, <4>2, Zenon
    <3>3. ASSUME NEW n \in Names, n # main.name
          PROVE  SettledOwner(n)' = SettledOwner(n) /\ bus'[n] = bus[n]
      BY <2>1, <3>1, <3>3, Zenon
    <3> QED BY <1>1, <2>2, <3>1, <3>2, <3>3, Zenon DEF BusInv
  <2>4. CASE bus' = bus /\ main'.pc = "request_revert"
    BY <1>2, <2>1, <2>2, <2>4, Zenon
  <2> QED BY <1>3, <2>3, <2>4, RequestEnds, Zenon
<1>4. ASSUME NEW d \in Clients, NEW m \in Names, ReleaseQueue(d, m) PROVE BusInv'
  <2>1. /\ main = Idle /\ main'.name = m
        /\ \A n \in Names : n # m \/ SettledOwner(m) # d => SettledOwner(n)' = SettledOwner(n)
        /\ SettledOwner(m) = d => /\ SettledOwner(m)' = main'.new_owner
                                  /\ main'.new_owner = None => main'.pc = "release_look"
    BY <1>4, ReleaseSettles, Zenon
  <2>2. bus' = bus
    BY <1>4, Zenon DEF ReleaseQueue
  <2>3. \A n : ~ Freeing(n)
    BY <2>1, SMTT(40) DEF Idle, Freeing
  <2>4. SettledOwner(m) = d /\ SettledOwner(m)' = None => Freeing(m)'
    BY <2>1, Zenon DEF Freeing
  <2> QED BY <1>0, <1>1, <2>1, <2>2, <2>3, <2>4, Zenon DEF BusInv
<1>5. CASE ReleaseBus
  <2>1. main.pc \in {"release_bus", "release_bus_unknown"} /\ main.name \in Names /\ Gives(main.name)
    BY <1>5, ReleaseEnds, Zenon
  <2>2. bus'[main.name] = <<>> /\ \A n \in Names : n # main.name => bus'[n] = bus[n]
    BY <2>1, BusChanges, Zenon
  <2>3. \A n \in Names : SettledOwner(n)' = SettledOwner(n)
    BY <1>5, QuietSteps, Zenon
  <2>4. main.pc \in EmptyPcs /\ main.pc \notin RevertPcs
    BY <2>1 DEF EmptyPcs, RevertPcs
  <2>5. SettledOwner(main.name) = None
    BY <1>0, <2>4, PlainSettled, Zenon DEF MainKnows, NQ!OwnerOf
  <2> QED BY <1>1, <2>1, <2>2, <2>3, <2>5, Zenon DEF BusInv, Freeing
<1>6. CASE RequestRecord \/ ReleasePromote \/ ReleaseLocal
  <2>1. \A n : ~ Freeing(n)
    BY <1>6 DEF Freeing, RequestRecord, ReleasePromote, ReleaseLocal, MainAt
  <2> QED BY <1>0, <1>2, <1>6, <2>1, RecordSteps, Zenon
<1>7. CASE ReleaseLook
  <2>1. main.pc = "release_look" /\ main.pc \notin {"idle", "request_queue"} /\ bus' = bus
    BY <1>7 DEF ReleaseLook, MainAt
  <2>2. Moves("release_bus") \/ Moves("release_bus_unknown")
    BY <1>7, <2>1, GotoMoves, Zenon DEF ReleaseLook
  <2>3. \A n : Freeing(n) => Freeing(n)'
    BY <2>2, Zenon DEF Freeing, Moves
  <2> QED BY <1>2, <1>7, <2>1, <2>3, QuietSteps, Zenon
<1>8. CASE \/ RequestQueue \/ RequestRevert \/ ReleaseRoute \/ Reply
           \/ HandleNameOwnerChanged \/ Rest \/ UNCHANGED vars
           \/ \E c \in Clients, n \in Names, flags \in SUBSET NQ!RequestFlags : RequestStart(c, n, flags)
  <2>1. Rest \/ UNCHANGED vars => bus' = bus /\ main' = main
    BY DEF Rest, vars
  <2>2. bus' = bus
    BY <1>8, <2>1, Zenon DEF RequestQueue, RequestRevert, ReleaseRoute, Reply,
       HandleNameOwnerChanged, RequestStart
  <2>3. main' = main \/ main.pc \in {"request_queue", "request_revert", "release_route", "reply"}
        \/ main = Idle
    BY <1>8, <2>1, Zenon DEF RequestQueue, RequestRevert, ReleaseRoute, Reply,
       HandleNameOwnerChanged, RequestStart, Take, MainAt
  <2>4. \A n : Freeing(n) => Freeing(n)'
    BY <2>3 DEF Freeing, Idle
  <2> QED BY <1>2, <1>8, <2>2, <2>4, QuietSteps, Zenon
<1> QED BY <1>3, <1>4, <1>5, <1>6, <1>7, <1>8, Zenon DEF LoopStep, MainStep

\* A task leaves a name on the bus only until it has called it.
LEMMA TaskForgets ==
    ASSUME ManagerLaws, QueuesProper, Shaped, TasksKnow, NEW c \in Clients,
           Connect(c) \/ Unregister(c) \/ CleanupStep(c)
    PROVE  /\ \A n : Handed(n, None) => Handed(n, None)' \/ Forgetting(n)'
           /\ \A r \in Results : Forget(c, r) => Forgetting(r.name)'
           /\ \A n : ForgetOwned(c) /\ n = task[c].name => Forgetting(n)'
<1>1. ASSUME NEW name, NEW names, NEW results, TaskMoves(c, "release", name, names, results)
      PROVE  Forgetting(name)'
  <2>1. task'[c].pc = "release" /\ task'[c].name = name
    BY <1>1 DEF TaskMoves
  <2> QED BY <2>1, Zenon DEF Forgetting
<1>2. ASSUME NEW r \in Results, Forget(c, r) PROVE Forgetting(r.name)'
  BY <1>1, <1>2, TaskSteps, Zenon
<1>3. ASSUME NEW n, ForgetOwned(c), n = task[c].name PROVE Forgetting(n)'
  BY <1>1, <1>3, TaskSteps, Zenon
<1>4. ASSUME NEW n, Handed(n, None) PROVE Handed(n, None)' \/ Forgetting(n)'
  <2>1. ASSUME NEW r \in Results, Transfer(c, r) \/ Forget(c, r), r = [name |-> n, new_owner |-> None]
        PROVE  Forgetting(n)'
    <3>1. r.name = n /\ r.new_owner = None
      BY <2>1
    <3> QED BY <1>2, <2>1, <3>1, Zenon DEF Transfer
  <2> QED BY <1>4, <2>1, TaskHands, Zenon
<1> QED BY <1>2, <1>3, <1>4, Zenon

\* So the tasks keep the bus in step.
LEMMA BusTasks ==
    ASSUME Sequential, "ReleaseName" \notin Failing, ManagerLaws, QueuesProper, Shaped, Orderly,
           OneBus, BusInv, NEW c \in Clients, Connect(c) \/ Unregister(c) \/ CleanupStep(c)
    PROVE  BusInv'
<1>0. OneAtATime /\ TasksKnow /\ main' = main /\ None \notin Clients
  BY OthersLeaveMain, ValuesAssumption, Zenon DEF Orderly, NQ!NoneAssumption
<1>1. /\ \A n : Freeing(n)' <=> Freeing(n)
      /\ \A n : Handed(n, None) => Handed(n, None)' \/ Forgetting(n)'
      /\ \A n : Forgetting(n) => Forgetting(n)' \/ (ReleaseOnBus(c) /\ n = task[c].name)
  <2>1. \A n : Freeing(n)' <=> Freeing(n)
    BY <1>0 DEF Freeing
  <2> QED BY <1>0, <2>1, TaskHands, TaskForgets, Zenon
<1>2. CASE LeaveQueues(c)
  <2>1. /\ \A n \in Names : SettledOwner(n) # c => SettledOwner(n)' = SettledOwner(n)
        /\ \A n \in Names : SettledOwner(n) = NQ!OwnerOf(queues[n]) /\ SettledOwner(n)' = NQ!OwnerOf(queues'[n])
    BY <1>0, <1>2, LeaveSettles, Zenon
  <2>2. PICK results \in SUBSET Results : Leaves(c, results)
    BY <1>2, LeaveStep, Zenon
  <2>3. task'[c].results = results
    BY <2>2 DEF Leaves, TaskMoves
  <2>4. ASSUME NEW n \in Names, SettledOwner(n) = c, SettledOwner(n)' = None
        PROVE  Handed(n, None)'
    <3>1. [name |-> n, new_owner |-> None] \in results
      BY <2>1, <2>2, <2>4, Zenon DEF Leaves
    <3> QED BY <2>3, <3>1, Zenon DEF Handed
  <2>5. bus' = bus /\ ~ ReleaseOnBus(c)
    BY <1>2, SMTT(40) DEF LeaveQueues, ReleaseOnBus, TaskAt
  <2> QED BY <1>0, <1>1, <2>1, <2>4, <2>5, Zenon DEF BusInv
<1>3. CASE ReleaseOnBus(c)
  <2> DEFINE m == task[c].name
  <2>1. m \in Names /\ queues[m] = None /\ queues' = queues /\ Busy(c)
    BY <1>0, <1>3, Zenon DEF ReleaseOnBus, TaskAt, TasksKnow, Knows, Busy
  <2>2. Gives(m)
    BY <1>3, <2>1, ReleaseGives, Zenon DEF ReleaseOnBus
  <2>3. main.pc \notin RevertPcs
    <3>1. main = Idle
      BY <1>0, <2>1, Zenon DEF OneAtATime
    <3> QED BY <3>1, SMTT(40) DEF Idle, RevertPcs
  <2>4. SettledOwner(m) = None /\ \A n \in Names : SettledOwner(n)' = SettledOwner(n)
    BY <1>0, <2>1, <2>3, PlainSettled, SameSettled, Zenon DEF NQ!OwnerOf
  <2>5. bus'[m] = <<>> /\ \A n \in Names : n # m => bus'[n] = bus[n]
    BY <2>1, <2>2, BusChanges, Zenon
  <2> QED BY <1>1, <2>4, <2>5, Zenon DEF BusInv
<1>4. CASE ~ LeaveQueues(c) /\ ~ ReleaseOnBus(c)
  <2>1. queues' = queues /\ bus' = bus
    BY <1>4, Zenon DEF Connect, Unregister, CleanupStep, ForgetOwned, Finish, CheckOwned, Transfer, Forget
  <2>2. \A n \in Names : SettledOwner(n)' = SettledOwner(n)
    BY <1>0, <2>1, SameSettled, Zenon
  <2> QED BY <1>1, <1>4, <2>1, <2>2, Zenon DEF BusInv
<1> QED BY <1>2, <1>3, <1>4, Zenon

-----------------------------------------------------------------------------
(* Signals say what is still true of the bus.                                *)

Signals == [name : Names, old : {None, Mux}, new : {None, Mux}]
Announced == {stream[i] : i \in 1..Len(stream)}
Told(n) == \E s \in Announced : s.name = n

\* Places of a handler before it has changed anything on the bus.
EarlyPcs == {"request_queue", "request_bus", "request_revert", "release_promote",
             "release_look", "release_bus", "release_bus_unknown"}

StreamInv ==
    /\ stream \in Seq(Signals)
    /\ main.pc \in EarlyPcs => stream = <<>>
    /\ \A s \in Announced : s.new = BusOwner(bus[s.name])
    /\ \A c \in Clients : Busy(c) => \A s \in Announced : s.new = None

\* The signals after one has come, or has been taken.
LEMMA SignalSets ==
    ASSUME stream \in Seq(Signals)
    PROVE  /\ stream = <<>> => Announced = {}
           /\ \A x \in Signals : stream' = Append(stream, x) =>
                 stream' \in Seq(Signals) /\ Announced' = Announced \cup {x}
           /\ stream # <<>> /\ stream' = Tail(stream) =>
                 /\ stream' \in Seq(Signals) /\ Head(stream) \in Announced
                 /\ Announced' \subseteq Announced
                 /\ Announced \subseteq Announced' \cup {Head(stream)}
<1>1. stream = <<>> => Announced = {}
  BY DEF Announced
<1>2. ASSUME NEW x \in Signals, stream' = Append(stream, x)
      PROVE  stream' \in Seq(Signals) /\ Announced' = Announced \cup {x}
  BY <1>2 DEF Announced
<1>3. ASSUME stream # <<>>, stream' = Tail(stream)
      PROVE  /\ stream' \in Seq(Signals) /\ Head(stream) \in Announced
             /\ Announced' \subseteq Announced
             /\ Announced \subseteq Announced' \cup {Head(stream)}
  <2>1. /\ stream' \in Seq(Signals) /\ Len(stream) \in Nat \ {0} /\ Len(stream') = Len(stream) - 1
        /\ \A i \in 1..Len(stream') : stream'[i] = stream[i + 1] /\ i + 1 \in 1..Len(stream)
        /\ Head(stream) = stream[1]
    BY <1>3, SMTT(40)
  <2>2. \A i \in 1..Len(stream) : i = 1 \/ (i - 1 \in 1..Len(stream') /\ stream'[i - 1] = stream[i])
    BY <2>1, SMTT(40)
  <2>3. 1 \in 1..Len(stream)
    BY <2>1, SMTT(40)
  <2>4. Head(stream) \in Announced /\ Announced' \subseteq Announced
    <3>1. Head(stream) \in Announced
      BY <2>1, <2>3, Zenon DEF Announced
    <3>2. ASSUME NEW i \in 1..Len(stream') PROVE stream'[i] \in Announced
      <4>1. i + 1 \in 1..Len(stream) /\ stream'[i] = stream[i + 1]
        BY <2>1, Zenon
      <4> QED BY <4>1, Zenon DEF Announced
    <3> QED BY <3>1, <3>2, Zenon DEF Announced
  <2>5. ASSUME NEW i \in 1..Len(stream) PROVE stream[i] \in Announced' \cup {Head(stream)}
    BY <2>1, <2>2, Zenon DEF Announced
  <2>6. Announced \subseteq Announced' \cup {Head(stream)}
    BY <2>5, Zenon DEF Announced
  <2> QED BY <2>1, <2>4, <2>6, Zenon
<1> QED BY <1>1, <1>2, <1>3, Zenon

\* What changes on the bus is announced, once, with its new owner.
LEMMA BusTells ==
    ASSUME OneBus, stream \in Seq(Signals), NEW m \in Names, Takes(m) \/ Gives(m)
    PROVE  /\ stream' \in Seq(Signals)
           /\ Announced \subseteq Announced'
           /\ \A s \in Announced' : s \in Announced \/ (s.name = m /\ s.new = BusOwner(bus'[m]))
           /\ \A n \in Names : Told(n)' \/ bus'[n] = bus[n]
<1> DEFINE x == [name |-> m, old |-> None, new |-> Mux]
           y == [name |-> m, old |-> Mux, new |-> None]
<1>1. x \in Signals /\ y \in Signals /\ x.name = m /\ y.name = m /\ x.new = Mux /\ y.new = None
  BY DEF Signals
<1> HIDE DEF x, y
<1>2. \A n \in Names : n # m => bus'[n] = bus[n]
  BY BusChanges, Zenon
<1>3. CASE stream' = stream /\ bus'[m] = bus[m]
  BY <1>2, <1>3, SMTT(40) DEF Announced
<1>4. CASE Takes(m) /\ stream' = Append(stream, x)
  <2>1. BusOwner(bus'[m]) = Mux
    BY <1>4, BusChanges, LineOfOne, ZenonT(40)
  <2>2. stream' \in Seq(Signals) /\ Announced' = Announced \cup {x}
    BY <1>1, <1>4, SignalSets, Zenon
  <2> QED BY <1>1, <1>2, <2>1, <2>2, Zenon DEF Told
<1>5. CASE Gives(m) /\ stream' = Append(stream, y)
  <2>1. BusOwner(bus'[m]) = None
    BY <1>5, BusChanges, LineOfOne, SMTT(40)
  <2>2. stream' \in Seq(Signals) /\ Announced' = Announced \cup {y}
    BY <1>1, <1>5, SignalSets, Zenon
  <2> QED BY <1>1, <1>2, <2>1, <2>2, Zenon DEF Told
<1>6. Takes(m) => stream' = Append(stream, x) \/ (stream' = stream /\ bus'[m] = bus[m])
  BY BusChanges, Zenon DEF Takes, x
<1>7. Gives(m) => stream' = Append(stream, y) \/ (stream' = stream /\ bus'[m] = bus[m])
  BY BusChanges, Zenon DEF Gives, y
<1> QED BY <1>3, <1>4, <1>5, <1>6, <1>7, Zenon


\* The signals stay true.
LEMMA StreamStays ==
    ASSUME Sequential, Services = {}, ManagerLaws, QueuesProper, Shaped, Orderly, OneBus, StreamInv,
           [Next]_vars
    PROVE  StreamInv'
<1>0. /\ OneAtATime /\ TasksKnow /\ stream \in Seq(Signals)
      /\ main.pc \in EarlyPcs => stream = <<>>
      /\ \A s \in Announced : s.new = BusOwner(bus[s.name])
      /\ \A c \in Clients : Busy(c) => \A s \in Announced : s.new = None
  BY Zenon DEF Orderly, StreamInv
<1>1. ASSUME bus' = bus, stream' = stream, main'.pc \in EarlyPcs => stream = <<>>,
             \A c \in Clients : Busy(c)' => Busy(c) \/ stream = <<>>
      PROVE  StreamInv'
  <2>1. Announced' = Announced /\ (stream = <<>> => Announced = {})
    BY <1>1, SMTT(40) DEF Announced
  <2> QED BY <1>0, <1>1, <2>1, Zenon DEF StreamInv
<1>2. ASSUME NEW m \in Names, Takes(m) \/ Gives(m), stream = <<>>, main'.pc \notin EarlyPcs,
             \A c \in Clients : ~ Busy(c)'
      PROVE  StreamInv'
  <2>1. /\ stream' \in Seq(Signals) /\ Announced = {}
        /\ \A s \in Announced' : s \in Announced \/ (s.name = m /\ s.new = BusOwner(bus'[m]))
    BY <1>0, <1>2, BusTells, SignalSets, Zenon
  <2> QED BY <1>2, <2>1, Zenon DEF StreamInv
<1>3. CASE LoopStep
  <2>1. \A c \in Clients : Busy(c)' <=> Busy(c)
    BY <1>3, LoopLeavesTasks DEF Busy
  <2>2. main.pc # "idle" => \A c \in Clients : ~ Busy(c)
    BY <1>0, MainFields, Zenon DEF OneAtATime
  <2>3. CASE RequestBus
    <3>1. main.pc = "request_bus" /\ main.pc \in EarlyPcs /\ main.pc # "idle"
      BY <2>3 DEF RequestBus, MainAt, EarlyPcs
    <3>2. "request_record" \notin EarlyPcs /\ main.name \in Names
      BY <3>1, MainFields, SMTT(40) DEF EarlyPcs
    <3> QED BY <1>0, <1>1, <1>2, <2>1, <2>2, <2>3, <3>1, <3>2, RequestEnds, Zenon
  <2>4. CASE ReleaseBus
    <3>1. main.pc \in {"release_bus", "release_bus_unknown"} /\ main.name \in Names
      BY <2>4, ReleaseEnds, Zenon
    <3>2. main.pc \in EarlyPcs /\ main.pc # "idle"
      BY <3>1 DEF EarlyPcs
    <3>3. "release_route" \notin EarlyPcs /\ "release_local" \notin EarlyPcs
      BY DEF EarlyPcs
    <3> QED BY <1>0, <1>1, <1>2, <2>1, <2>2, <2>4, <3>1, <3>2, <3>3, ReleaseEnds, Zenon
  <2>5. CASE HandleNameOwnerChanged
    <3>1. stream # <<>> /\ stream' = Tail(stream) /\ main' = main /\ main = Idle /\ bus' = bus
      BY <2>5, Zenon DEF HandleNameOwnerChanged
    <3>2. main'.pc \notin EarlyPcs
      BY <3>1 DEF Idle, EarlyPcs
    <3>3. stream' \in Seq(Signals) /\ Announced' \subseteq Announced
      BY <1>0, <3>1, SignalSets, Zenon
    <3> QED BY <1>0, <2>1, <3>1, <3>2, <3>3, Zenon DEF StreamInv
  <2>6. CASE \/ RequestQueue \/ RequestRecord \/ RequestRevert \/ ReleasePromote \/ ReleaseLook
             \/ ReleaseRoute \/ ReleaseLocal \/ Reply
    <3>1. bus' = bus /\ stream' = stream
      BY <2>6, Zenon DEF RequestQueue, RequestRecord, RequestRevert, ReleasePromote, ReleaseLook,
         ReleaseRoute, ReleaseLocal, Reply
    <3>2. main.pc \in EarlyPcs \/ main'.pc \in {"reply", "release_local", "idle"}
      <4>1. CASE RequestQueue \/ ReleaseLook
        BY <4>1 DEF RequestQueue, ReleaseLook, MainAt, EarlyPcs
      <4>2. CASE RequestRevert \/ Reply
        BY <4>2 DEF RequestRevert, Reply, Idle
      <4>3. CASE RequestRecord \/ ReleasePromote \/ ReleaseRoute \/ ReleaseLocal
        <5>1. /\ main.pc \notin {"idle", "request_queue"}
              /\ Goto("reply") \/ Goto("release_local")
          BY <4>3 DEF RequestRecord, ReleasePromote, ReleaseRoute, ReleaseLocal, MainAt
        <5> QED BY <5>1, GotoMoves, ZenonT(30) DEF Moves
      <4> QED BY <2>6, <4>1, <4>2, <4>3, Zenon
    <3>3. main'.pc \in {"reply", "release_local", "idle"} => main'.pc \notin EarlyPcs
      BY DEF EarlyPcs
    <3> QED BY <1>0, <1>1, <2>1, <3>1, <3>2, <3>3, Zenon
  <2>7. ASSUME NEW c \in Clients, NEW n \in Names,
               ReleaseQueue(c, n) \/ \E flags \in SUBSET NQ!RequestFlags : RequestStart(c, n, flags)
        PROVE  bus' = bus /\ stream' = stream /\ stream = <<>>
    BY <2>7, Zenon DEF ReleaseQueue, RequestStart, Take, AtRest
  <2>8. Rest \/ UNCHANGED vars => bus' = bus /\ stream' = stream /\ main' = main
    BY DEF Rest, vars
  <2> QED BY <1>0, <1>1, <1>3, <2>1, <2>3, <2>4, <2>5, <2>6, <2>7, <2>8, Zenon DEF LoopStep, MainStep
<1>4. ASSUME NEW c \in Clients, Connect(c) \/ Unregister(c) \/ CleanupStep(c)
      PROVE  StreamInv'
  <2>1. main' = main /\ \A d \in Clients : d # c => (Busy(d)' <=> Busy(d))
    BY <1>4, OthersLeaveMain, TaskAlone, Zenon DEF Busy
  <2>2. ~ Busy(c)' \/ Busy(c) \/ stream = <<>>
    BY <1>4, TaskAlone, Zenon DEF AtRest
  <2>3. CASE ReleaseOnBus(c)
    <3> DEFINE m == task[c].name
    <3>1. m \in Names /\ Busy(c)
      BY <1>0, <2>3, Zenon DEF ReleaseOnBus, TaskAt, TasksKnow, Knows, Busy
    <3>2. Gives(m) \/ (bus' = bus /\ stream' = stream)
      BY <2>3, <3>1, ReleaseGives, Zenon DEF ReleaseOnBus
    <3>3. CASE Gives(m)
      <4>1. bus'[m] = <<>> /\ \A n \in Names : n # m => bus'[n] = bus[n]
        BY <3>1, <3>3, BusChanges, Zenon
      <4>2. /\ stream' \in Seq(Signals)
            /\ \A s \in Announced' : s \in Announced \/ (s.name = m /\ s.new = BusOwner(bus'[m]))
        BY <1>0, <3>1, <3>3, BusTells, Zenon
      <4>3. \A s \in Announced : s.name \in Names
        <5>1. \A i \in 1..Len(stream) : stream[i] \in Signals
          BY <1>0
        <5>2. \A s \in Signals : s.name \in Names
          BY DEF Signals
        <5> QED BY <5>1, <5>2, Zenon DEF Announced
      <4>4. \A s \in Announced' : s.new = None /\ s.new = BusOwner(bus'[s.name])
        BY <1>0, <3>1, <4>1, <4>2, <4>3, LineOfOne, Zenon
      <4>5. main'.pc \notin EarlyPcs
        <5>1. main' = Idle
          BY <1>0, <2>1, <3>1, Zenon DEF OneAtATime
        <5> QED BY <5>1 DEF Idle, EarlyPcs
      <4> QED BY <4>2, <4>4, <4>5, Zenon DEF StreamInv
    <3> QED BY <1>0, <1>1, <2>1, <2>2, <3>2, <3>3, Zenon
  <2>4. CASE ~ ReleaseOnBus(c)
    <3>1. bus' = bus /\ stream' = stream
      BY <1>4, <2>4, Zenon DEF Connect, Unregister, CleanupStep, LeaveQueues, ForgetOwned, Finish,
         CheckOwned, Transfer, Forget
    <3> QED BY <1>0, <1>1, <2>1, <2>2, <3>1, Zenon
  <2> QED BY <2>3, <2>4, Zenon
<1> QED BY <1>3, <1>4, NextCases, Zenon

-----------------------------------------------------------------------------
(* The routing table holds what is on the bus, but for what it has still to  *)
(* be told and what a clean-up has taken out ahead of the bus.               *)

Tables == [names : [RT!Route -> SUBSET Names], host_activatable : SUBSET Names,
           unique_names : [Clients \cup {Mux, Other} -> RT!Route \cup {None}]]
Held == table.names["Container"]

TableInv ==
    /\ table \in Tables /\ table.names["Host"] = {}
    /\ \A n \in Names : \/ Told(n)
                        \/ Forgetting(n) /\ n \notin Held
                        \/ n \in Held <=> bus[n] # <<>>

\* on_container_name_change adds one name, or takes it out.
LEMMA Routes ==
    ASSUME table \in Tables, NEW m \in Names, NEW old, NEW new, Route(m, old, new)
    PROVE  /\ table' \in Tables /\ table'.names["Host"] = table.names["Host"]
           /\ Held' = IF new = None THEN Held \ {m} ELSE Held \cup {m}
<1> DEFINE U == [Clients \cup {Mux, Other} -> RT!Route \cup {None}]
           left == RT!Unregister(table.unique_names, old)
           held == IF new = None THEN Held \ {m} ELSE Held \cup {m}
           known == IF new = None THEN left ELSE [left EXCEPT ![new] = "Container"]
<1>1. /\ table.names \in [RT!Route -> SUBSET Names] /\ table.unique_names \in U
      /\ "Container" \in RT!Route /\ "Host" \in RT!Route /\ "Container" # "Host"
  BY DEF Tables, RT!Route
<1>2. table' = [table EXCEPT !.names["Container"] = held, !.unique_names = known]
  BY Zenon DEF Route, RT!OnNameChange, Held
<1>3. left \in U
  BY <1>1, Zenon DEF RT!Unregister
<1>4. known \in U
  BY <1>1, <1>3, Zenon
<1>5. held \in SUBSET Names
  BY <1>1 DEF Held
<1> HIDE DEF held, known, left, U
<1>6. table' = [names |-> [table.names EXCEPT !["Container"] = held],
                host_activatable |-> table.host_activatable, unique_names |-> known]
  BY <1>2, Zenon DEF Tables
<1>7. table' \in Tables
  BY <1>1, <1>4, <1>5, <1>6, SMTT(30) DEF Tables, U
<1>8. table'.names = [table.names EXCEPT !["Container"] = held]
  BY <1>6
<1>9. table'.names["Container"] = held /\ table'.names["Host"] = table.names["Host"]
  BY <1>1, <1>8, Zenon
<1> QED BY <1>7, <1>9, Zenon DEF Held, held


\* A step that routes one name by what is on the bus.
LEMMA RouteRight ==
    ASSUME TableInv, NEW m \in Names, NEW old, NEW new, Route(m, old, new), bus' = bus,
           \A n : Told(n) => Told(n)' \/ n = m, \A n : Forgetting(n) => Forgetting(n)',
           IF new = None THEN bus[m] = <<>> \/ Forgetting(m)' ELSE bus[m] # <<>>
    PROVE  TableInv'
<1>1. /\ table' \in Tables /\ table'.names["Host"] = {}
      /\ Held' = IF new = None THEN Held \ {m} ELSE Held \cup {m}
  BY Routes, Zenon DEF TableInv
<1>2. \A n : n # m => (n \in Held' <=> n \in Held)
  BY <1>1, Zenon
<1>3. m \in Held' <=> new # None
  BY <1>1, Zenon
<1> QED BY <1>1, <1>2, <1>3, Zenon DEF TableInv

\* A step that leaves the routing table alone.
LEMMA TableLeft ==
    ASSUME TableInv, table' = table, \A n : Told(n) => Told(n)',
           \A n \in Names : Told(n)' \/ bus'[n] = bus[n],
           \A n \in Names : Forgetting(n) => Forgetting(n)' \/ bus'[n] = <<>>
    PROVE  TableInv'
BY Zenon DEF TableInv, Held

\* The event loop keeps the table in step.
LEMMA TableLoop ==
    ASSUME Services = {}, "ReleaseName" \notin Failing, ManagerLaws, QueuesProper, Shaped, Orderly,
           OneBus, BusInv, StreamInv, TableInv, LoopStep
    PROVE  TableInv'
<1>0. MainKnows /\ OneAtATime /\ TasksKnow /\ None \notin Clients /\ stream \in Seq(Signals) /\ <<Mux>> # <<>>
  BY LineOfOne, ValuesAssumption, Zenon DEF Orderly, StreamInv, NQ!NoneAssumption
<1>1. \A n : Forgetting(n) => Forgetting(n)'
  BY LoopLeavesTasks, LoopHands, Zenon
<1>2. stream' = stream => \A n : Told(n) => Told(n)'
  BY DEF Told, Announced
<1>3. table' = table /\ bus' = bus /\ stream' = stream => TableInv'
  BY <1>1, <1>2, TableLeft, Zenon
<1>4. ASSUME NEW m \in Names, Takes(m) \/ Gives(m), table' = table PROVE TableInv'
  <2>1. Announced \subseteq Announced' /\ \A n \in Names : Told(n)' \/ bus'[n] = bus[n]
    BY <1>0, <1>4, BusTells, Zenon
  <2>2. \A n : Told(n) => Told(n)'
    BY <2>1, Zenon DEF Told
  <2> QED BY <1>1, <1>4, <2>1, <2>2, TableLeft, Zenon
<1>5. CASE RequestBus
  <2>1. main.name \in Names /\ table' = table
    BY <1>0, <1>5, BusSettles, Zenon DEF RequestBus
  <2> QED BY <1>3, <1>4, <1>5, <2>1, RequestEnds, Zenon
<1>6. CASE ReleaseBus
  <2>1. table' = table
    BY <1>6, Zenon DEF ReleaseBus
  <2> QED BY <1>3, <1>4, <1>6, <2>1, ReleaseEnds, Zenon
<1>7. CASE RequestRecord
  <2>1. /\ main.name \in Names /\ main.client \in Clients /\ bus' = bus /\ stream' = stream
        /\ SettledOwner(main.name) = main.client
    BY <1>0, <1>7, RecordSteps, Zenon
  <2>2. Route(main.name, None, main.client) /\ main.client # None
    BY <1>0, <1>7, <2>1, Zenon DEF RequestRecord
  <2>3. bus[main.name] # <<>>
    BY <1>0, <2>1, <2>2, Zenon DEF BusInv
  <2> QED BY <1>1, <1>2, <2>1, <2>2, <2>3, RouteRight, Zenon
<1>8. CASE ReleasePromote
  <2>1. /\ main.name \in Names /\ bus' = bus /\ stream' = stream
        /\ SettledOwner(main.name) = main.new_owner /\ main.pc = "release_promote"
    BY <1>0, <1>8, RecordSteps, Zenon
  <2>2. Route(main.name, None, main.new_owner) /\ main.new_owner # None
    BY <1>0, <1>8, <2>1, Zenon DEF ReleasePromote, MainKnows
  <2>3. bus[main.name] # <<>>
    BY <1>0, <2>1, <2>2, Zenon DEF BusInv
  <2> QED BY <1>1, <1>2, <2>1, <2>2, <2>3, RouteRight, Zenon
<1>9. CASE ReleaseRoute
  <2>1. /\ main.pc = "release_route" /\ main.pc \in EmptyPcs /\ main.pc \notin RevertPcs
        /\ main.pc # "idle" /\ ~ Freeing(main.name)
    BY <1>9 DEF ReleaseRoute, MainAt, EmptyPcs, RevertPcs, Freeing
  <2>2. main.name \in Names /\ \A c \in Clients : ~ Busy(c)
    BY <1>0, <2>1, MainFields, Zenon DEF OneAtATime
  <2>3. ~ Forgetting(main.name) /\ ~ Handed(main.name, None)
    BY <1>0, <2>2, NothingHanded, Zenon
  <2>4. SettledOwner(main.name) = None
    BY <1>0, <2>1, PlainSettled, Zenon DEF MainKnows, NQ!OwnerOf
  <2>5. bus[main.name] = <<>>
    BY <2>1, <2>2, <2>3, <2>4, Zenon DEF BusInv
  <2>6. Route(main.name, main.client, None) /\ bus' = bus /\ stream' = stream
    BY <1>9, Zenon DEF ReleaseRoute
  <2> QED BY <1>1, <1>2, <2>2, <2>5, <2>6, RouteRight, Zenon
<1>10. CASE HandleNameOwnerChanged
  <2> DEFINE s == Head(stream)
  <2>1. stream # <<>> /\ stream' = Tail(stream) /\ bus' = bus /\ Route(s.name, s.old, s.new)
    BY <1>10, Zenon DEF HandleNameOwnerChanged
  <2>2. s \in Announced /\ Announced \subseteq Announced' \cup {s}
    BY <1>0, <2>1, SignalSets, Zenon
  <2>3. s \in Signals
    BY <1>0, <2>1
  <2> HIDE DEF s
  <2>4. s.name \in Names
    BY <2>3 DEF Signals
  <2>5. \A n : Told(n) => Told(n)' \/ n = s.name
    BY <2>2, Zenon DEF Told
  <2>6. IF s.new = None THEN bus[s.name] = <<>> ELSE bus[s.name] # <<>>
    <3>1. s.new = BusOwner(bus[s.name])
      BY <2>2, Zenon DEF StreamInv
    <3>2. bus[s.name] = <<>> \/ bus[s.name] = <<Mux>>
      BY <2>4, Zenon DEF OneBus
    <3> QED BY <3>1, <3>2, LineOfOne, Zenon
  <2> QED BY <1>1, <2>1, <2>4, <2>5, <2>6, RouteRight, Zenon
<1>11. RequestQueue \/ RequestRevert \/ ReleaseLook \/ ReleaseLocal \/ Reply => TableInv'
  BY <1>3, Zenon DEF RequestQueue, RequestRevert, ReleaseLook, ReleaseLocal, Reply
<1>12. ASSUME NEW c \in Clients, NEW n \in Names,
              ReleaseQueue(c, n) \/ \E flags \in SUBSET NQ!RequestFlags : RequestStart(c, n, flags)
       PROVE  TableInv'
  BY <1>3, <1>12, Zenon DEF ReleaseQueue, RequestStart
<1>13. Rest \/ UNCHANGED vars => table' = table /\ bus' = bus /\ stream' = stream
  BY DEF Rest, vars
<1> QED BY <1>3, <1>5, <1>6, <1>7, <1>8, <1>9, <1>10, <1>11, <1>12, <1>13, Zenon
        DEF LoopStep, MainStep

\* So do the tasks.
LEMMA TableTasks ==
    ASSUME "ReleaseName" \notin Failing, ManagerLaws, QueuesProper, Shaped, Orderly, OneBus, BusInv,
           StreamInv, TableInv, NEW c \in Clients, Connect(c) \/ Unregister(c) \/ CleanupStep(c)
    PROVE  TableInv'
<1>0. /\ OneAtATime /\ TasksKnow /\ stream \in Seq(Signals) /\ <<Mux>> # <<>>
  BY LineOfOne, Zenon DEF Orderly, StreamInv
<1>1. \A n : Forgetting(n) => Forgetting(n)' \/ (ReleaseOnBus(c) /\ n = task[c].name)
  BY <1>0, TaskHands, Zenon
<1>2. stream' = stream => \A n : Told(n) => Told(n)'
  BY DEF Told, Announced
<1>3. ~ ReleaseOnBus(c) /\ table' = table /\ bus' = bus /\ stream' = stream => TableInv'
  BY <1>1, <1>2, TableLeft, Zenon
<1>4. CASE ReleaseOnBus(c)
  <2> DEFINE m == task[c].name
  <2>1. m \in Names /\ table' = table
    BY <1>0, <1>4, Zenon DEF ReleaseOnBus, TaskAt, TasksKnow, Knows
  <2>2. Gives(m)
    BY <1>4, <2>1, ReleaseGives, Zenon DEF ReleaseOnBus
  <2>3. Announced \subseteq Announced' /\ (\A n \in Names : Told(n)' \/ bus'[n] = bus[n]) /\ bus'[m] = <<>>
    BY <1>0, <2>1, <2>2, BusTells, BusChanges, Zenon
  <2>4. \A n : Told(n) => Told(n)'
    BY <2>3, Zenon DEF Told
  <2> QED BY <1>1, <2>1, <2>3, <2>4, TableLeft, Zenon
<1>5. ASSUME NEW r \in Results, Transfer(c, r) PROVE TableInv'
  <2>1. /\ Route(r.name, c, r.new_owner) /\ bus' = bus /\ stream' = stream /\ r.new_owner # None
        /\ r \in task[c].results /\ task[c].pc = "results" /\ r.name \in Names
    BY <1>5 DEF Transfer, TaskAt, Results
  <2>2. ~ ReleaseOnBus(c) /\ Busy(c)
    BY <2>1 DEF ReleaseOnBus, TaskAt, Busy
  <2>3. main.pc \notin RevertPcs
    <3>1. main = Idle
      BY <1>0, <2>2, Zenon DEF OneAtATime
    <3> QED BY <3>1 DEF Idle, RevertPcs
  <2>4. SettledOwner(r.name) = r.new_owner
    BY <1>0, <2>1, <2>3, PlainSettled, Zenon DEF TasksKnow, Knows
  <2>5. bus[r.name] # <<>>
    BY <1>0, <2>1, <2>4, Zenon DEF BusInv
  <2> QED BY <1>1, <1>2, <2>1, <2>2, <2>5, RouteRight, Zenon
<1>6. ASSUME NEW r \in Results, Forget(c, r) PROVE TableInv'
  <2>1. /\ Route(r.name, c, None) /\ bus' = bus /\ stream' = stream /\ r.name \in Names
        /\ ~ ReleaseOnBus(c)
    BY <1>6 DEF Forget, ReleaseOnBus, TaskAt, Results
  <2>2. Forgetting(r.name)'
    BY <1>0, <1>6, TaskForgets, Zenon
  <2> QED BY <1>1, <1>2, <2>1, <2>2, RouteRight, Zenon
<1>7. CASE ForgetOwned(c)
  <2>1. /\ Route(task[c].name, c, None) /\ bus' = bus /\ stream' = stream /\ task[c].name \in Names
        /\ ~ ReleaseOnBus(c)
    <3>1. task[c].pc = "forget" /\ task[c].pc # "release"
      BY <1>7 DEF ForgetOwned, TaskAt
    <3> QED BY <1>0, <1>7, <3>1, Zenon DEF ForgetOwned, ReleaseOnBus, TaskAt, TasksKnow, Knows
  <2>2. PICK m : m = task[c].name
    OBVIOUS
  <2>3. Forgetting(m)'
    BY <1>0, <1>7, <2>2, TaskForgets, Zenon
  <2>4. m \in Names /\ Route(m, c, None)
    BY <2>1, <2>2, Zenon
  <2> QED BY <1>1, <1>2, <2>1, <2>3, <2>4, RouteRight, Zenon
<1>8. CASE \/ Connect(c) \/ Unregister(c) \/ LeaveQueues(c) \/ Finish(c)
           \/ \E n \in Names : CheckOwned(c, n)
  <2>1. ~ ReleaseOnBus(c)
    <3>1. \E pc \in {"absent", "running", "queue", "results"} : task[c].pc = pc
      BY <1>8, Zenon DEF Connect, Unregister, LeaveQueues, Finish, CheckOwned, TaskAt
    <3> QED BY <3>1 DEF ReleaseOnBus, TaskAt
  <2> QED BY <1>3, <1>8, <2>1, Zenon DEF Connect, Unregister, LeaveQueues, Finish, CheckOwned
<1> QED BY <1>4, <1>5, <1>6, <1>7, <1>8, Zenon DEF CleanupStep, Results

\* At rest that is BusFollowsQueue and RoutingFollowsBus.
LEMMA BusMeans ==
    ASSUME ManagerLaws, QueuesProper, Shaped, Orderly, OneBus, BusInv, StreamInv, TableInv
    PROVE  BusFollowsQueue /\ RoutingFollowsBus
<1> SUFFICES ASSUME AtRest
             PROVE  /\ \A n \in Names : /\ BusOwner(bus[n]) = Mux <=> NQ!NameHasOwner(queues[n])
                                        /\ GetNameOwner(n) = None <=> ListQueuedOwners(n) = <<>>
                    /\ ListNames = {n \in Names : bus[n] # <<>>}
                    /\ \A n \in Names : NameHasOwner(n) <=> GetNameOwner(n) # None
  BY Zenon DEF BusFollowsQueue, RoutingFollowsBus
<1>1. \A n : ~ Told(n) /\ ~ Freeing(n) /\ main.pc \notin RevertPcs
  <2>1. Announced = {} /\ main = Idle
    BY SignalSets, Zenon DEF AtRest, StreamInv
  <2>2. main.pc \notin RevertPcs /\ \A n : ~ Freeing(n)
    BY <2>1 DEF Idle, RevertPcs, Freeing
  <2> QED BY <2>1, <2>2, Zenon DEF Told
<1>2. \A n : ~ Forgetting(n) /\ ~ Handed(n, None)
  BY NothingHanded, RestIsIdle, Zenon DEF Orderly
<1>3. \A n \in Names : n \in Held <=> bus[n] # <<>>
  BY <1>1, <1>2, Zenon DEF TableInv
<1>4. ASSUME NEW n \in Names
      PROVE  /\ bus[n] = <<Mux>> \/ bus[n] = <<>>
             /\ bus[n] # <<>> <=> queues[n] # None
             /\ NQ!NameHasOwner(queues[n]) <=> queues[n] # None
             /\ NQ!AllOwners(queues[n]) = <<>> <=> queues[n] = None
  <2>1. SettledOwner(n) = NQ!OwnerOf(queues[n])
    BY <1>1, PlainSettled, Zenon
  <2>2. NQ!QueueFacts(queues[n]) /\ None \notin Clients
    BY Laws, ValuesAssumption, Zenon DEF QueuesProper, NQ!NoneAssumption
  <2>3. SettledOwner(n) # None <=> queues[n] # None
    BY <2>1, <2>2, Zenon DEF NQ!QueueFacts
  <2>4. bus[n] = <<Mux>> \/ bus[n] = <<>>
    BY Zenon DEF OneBus
  <2>5. bus[n] # <<>> <=> queues[n] # None
    BY <1>1, <1>2, <2>3, LineOfOne, Zenon DEF BusInv
  <2> QED BY <2>2, <2>4, <2>5, Zenon DEF NQ!QueueFacts
<1>5. \A n \in Names : BusOwner(bus[n]) = IF bus[n] = <<>> THEN None ELSE Mux
  BY <1>4, LineOfOne, Zenon
<1>6. ASSUME NEW n \in Names PROVE GetNameOwner(n) = BusOwner(bus[n])
  <2>1. CASE n \in Held
    BY <2>1, Zenon DEF GetNameOwner, RT!OwnerRoute, Held
  <2>2. CASE n \notin Held
    BY <1>3, <1>5, <2>2, Zenon DEF GetNameOwner
  <2> QED BY <2>1, <2>2, Zenon
<1>7. ListNames = Held /\ Held \subseteq Names
  <2>1. table.names["Host"] = {} /\ table.names["Container"] \in SUBSET Names
    BY DEF TableInv, Tables, RT!Route
  <2> QED BY <2>1, Zenon DEF ListNames, RT!AllNames, Held
<1>8. \A n \in Names : NameHasOwner(n) <=> n \in Held
  BY <1>7, Zenon DEF NameHasOwner, RT!HasOwner, ListNames
<1>9. ListNames = {n \in Names : bus[n] # <<>>}
  BY <1>3, <1>7, Zenon
<1> QED BY <1>3, <1>4, <1>5, <1>6, <1>8, <1>9, LineOfOne, Zenon DEF ListQueuedOwners

-----------------------------------------------------------------------------
(* The invariants together.                                                  *)

\* One activity at a time, and what it knows.
LEMMA OrderlyStays ==
    ASSUME Sequential, ManagerLaws, QueuesProper, Shaped, Orderly, [Next]_vars
    PROVE  Orderly'
BY OneAtATimeStays, LinesStay, MainKnowsStays, TasksKnowStays, Zenon DEF Orderly

\* owned_names against the queues.
LEMMA CredStays ==
    ASSUME Sequential, "ReleaseName" \notin Failing, ManagerLaws, QueuesProper, Shaped, Orderly,
           CredInv, [Next]_vars
    PROVE  CredInv'
BY CredLoop, CredTasks, NextCases, Zenon

\* The queues against owned_names.
LEMMA OwnedStays ==
    ASSUME Sequential, Services = {}, ManagerLaws, QueuesProper, Shaped, Orderly, OneBus, OwnedInv,
           [Next]_vars
    PROVE  OneBus' /\ OwnedInv'
BY OneBusStays, OwnedLoop, OwnedTasks, NextCases, Zenon DEF Orderly

\* The queues, the bus, the signals and the routing table.
LEMMA BusStays ==
    ASSUME Sequential, Services = {}, "ReleaseName" \notin Failing, ManagerLaws, QueuesProper, Shaped,
           Orderly, OneBus, BusInv, StreamInv, TableInv, [Next]_vars
    PROVE  OneBus' /\ BusInv' /\ StreamInv' /\ TableInv'
BY OneBusStays, BusLoop, BusTasks, StreamStays, TableLoop, TableTasks, NextCases, Zenon DEF Orderly

\* At first there is nothing to disagree about.
LEMMA InitOrderly ==
    Init => /\ Orderly /\ CredInv /\ OwnedInv
            /\ OneBus /\ BusInv /\ StreamInv /\ TableInv
<1> SUFFICES ASSUME Init
             PROVE  /\ Orderly /\ CredInv /\ OwnedInv
                    /\ OneBus /\ BusInv /\ StreamInv /\ TableInv
  BY Zenon
<1>1. /\ main = Idle /\ clients = {} /\ stream = <<>> /\ table = RT!NewTable
      /\ queues = [n \in Names |-> None] /\ bus = [n \in Names |-> <<>>]
      /\ task = [c \in Clients |-> NewTask]
  BY Zenon DEF Init
<1>2. /\ main.pc \notin RevertPcs /\ main.pc \notin RequestPcs \cup {"request_queue"}
      /\ main.pc \notin ReleasePcs /\ main.pc \notin EmptyPcs /\ main.pc # "release_promote"
      /\ main.pc \notin EarlyPcs
  BY <1>1 DEF Idle, RevertPcs, RequestPcs, ReleasePcs, EmptyPcs, EarlyPcs
<1>3. \A c \in Clients : task[c].pc = "absent" /\ task[c].results = {}
  BY <1>1 DEF NewTask
<1>4. \A n \in Names : queues[n] = None /\ bus[n] = <<>>
  BY <1>1, Zenon
<1>5. \A c \in Clients : ~ Busy(c) /\ task[c].pc \notin {"release", "forget"}
  BY <1>3 DEF Busy
<1>6. Orderly
  <2>1. OneAtATime
    BY <1>5, Zenon DEF OneAtATime
  <2>2. LinesInv
    BY <1>2, <1>4, Zenon DEF LinesInv, NQ!Member
  <2>3. MainKnows
    BY <1>2, Zenon DEF MainKnows, RequestPcs
  <2>4. TasksKnow
    BY <1>3, <1>5, Zenon DEF TasksKnow, Knows
  <2> QED BY <2>1, <2>2, <2>3, <2>4, Zenon DEF Orderly
<1>7. CredInv /\ OwnedInv
  BY <1>1, <1>2, Zenon DEF CredInv, RevertReplaced, OwnedInv
<1>8. OneBus
  BY <1>1 DEF OneBus
<1>9. BusInv
  <2>1. \A n \in Names : SettledOwner(n) = None
    BY <1>2, <1>4, PlainSettled, Zenon DEF NQ!OwnerOf
  <2> QED BY <1>4, <2>1, Zenon DEF BusInv
<1>10. StreamInv
  <2>1. stream \in Seq(Signals) /\ Announced = {}
    BY <1>1 DEF Announced
  <2> QED BY <1>2, <2>1, Zenon DEF StreamInv
<1>11. TableInv
  <2>1. table \in Tables
    BY <1>1 DEF Tables, RT!NewTable
  <2>2. table.names["Host"] = {} /\ Held = {}
    BY <1>1, SMTT(30) DEF RT!NewTable, RT!Route, Held
  <2> QED BY <1>4, <2>1, <2>2, Zenon DEF TableInv
<1> QED BY <1>6, <1>7, <1>8, <1>9, <1>10, <1>11, Zenon

-----------------------------------------------------------------------------
(* The manager.                                                              *)

\* The manager again, with its theorems.  Its definitions have to be identified
\* with those of NQ, the instance that the handlers use.
QP == INSTANCE NameQueueProofs

-----------------------------------------------------------------------------
(* Both instances define the same operations and the same lines.             *)

\* The assumption of the manager's theorems.
LEMMA ManagerValues == QP!NoneAssumption
BY ValuesAssumption, ZenonT(30) DEF NQ!NoneAssumption, QP!NoneAssumption, NQ!QueueEntry,
   QP!QueueEntry, NQ!QueueRecord, QP!QueueRecord

\* request_name.
LEMMA SameRequest ==
  ASSUME NEW q, NEW c, NEW flags
  PROVE  QP!RequestName(q, c, flags) = NQ!RequestName(q, c, flags)
  BY ZenonT(30) DEF QP!RequestName, NQ!RequestName, QP!EmptyQueue, NQ!EmptyQueue, QP!IsPrimaryOwner,
         NQ!IsPrimaryOwner, QP!ContainsClient, NQ!ContainsClient, QP!Waits, NQ!Waits,
         QP!RequestResult, NQ!RequestResult, QP!Replace, NQ!Replace, QP!Enqueue, NQ!Enqueue

\* VecDeque::retain.
LEMMA SameRetain ==
  ASSUME NEW s, NEW c
  PROVE  QP!Retain(s, c) = NQ!Retain(s, c)
  BY ZenonT(30) DEF QP!Retain, NQ!Retain, QP!Cardinality, NQ!Cardinality

\* release_name.
LEMMA SameRelease ==
  ASSUME NEW q, NEW c
  PROVE  QP!ReleaseName(q, c) = NQ!ReleaseName(q, c)
  BY SameRetain, ZenonT(30) DEF QP!ReleaseName, NQ!ReleaseName, QP!IsPrimaryOwner,
         NQ!IsPrimaryOwner, QP!Waits, NQ!Waits, QP!ReleaseResult, NQ!ReleaseResult,
         QP!ReleaseOwner, NQ!ReleaseOwner, QP!Promote, NQ!Promote, QP!NewOwner, NQ!NewOwner

\* remove_client, on one queue.
LEMMA SameWithout ==
  ASSUME NEW q, NEW c
  PROVE  QP!WithoutClient(q, c) = NQ!WithoutClient(q, c)
  BY SameRetain, ZenonT(30) DEF QP!WithoutClient, NQ!WithoutClient, QP!IsPrimaryOwner,
         NQ!IsPrimaryOwner, QP!Promote, NQ!Promote, QP!EmptyQueue, NQ!EmptyQueue

\* A queue as a line, owner first.
LEMMA SameEntries ==
  ASSUME NEW q
  PROVE  QP!Entries(q) = NQ!Entries(q)
  BY ZenonT(30) DEF QP!Entries, NQ!Entries

\* The places of a client in a line.
LEMMA SameClaims ==
  ASSUME NEW n, NEW c
  PROVE  QP!Ownership!Claims(n, c) = NQ!Ownership!Claims(n, c)
  BY SameEntries, ZenonT(30) DEF QP!Ownership!Claims, NQ!Ownership!Claims

\* Both see the same empty lines at first ...
LEMMA SameOwnershipInit == QP!Ownership!Init => NQ!Ownership!Init
  BY SameEntries, ZenonT(30) DEF QP!Ownership!Init, NQ!Ownership!Init

\* ... and call the same changes of a line fair.
LEMMA SameOwnershipNext ==
  [QP!Ownership!Next]_([n \in Names |-> QP!Entries(queues[n])])
  => [NQ!Ownership!Next]_([n \in Names |-> NQ!Entries(queues[n])])
<1> DEFINE qline == [n \in Names |-> QP!Entries(queues[n])]
           line  == [n \in Names |-> NQ!Entries(queues[n])]
<1>1. qline = line /\ qline' = line'
  BY SameEntries, ZenonT(30)
<1>2. ASSUME NEW n \in Names, NEW e \in QP!Ownership!QueueEntry, QP!Ownership!Join(n, e)
      PROVE  NQ!Ownership!Join(n, e) /\ e \in NQ!Ownership!QueueEntry
  BY <1>1, <1>2, SameClaims, ZenonT(30) DEF QP!Ownership!Join, NQ!Ownership!Join,
     QP!Ownership!QueueEntry, NQ!Ownership!QueueEntry
<1>3. ASSUME NEW n \in Names, NEW e \in QP!Ownership!QueueEntry, QP!Ownership!Overtake(n, e)
      PROVE  NQ!Ownership!Overtake(n, e) /\ e \in NQ!Ownership!QueueEntry
  BY <1>1, <1>3, SameClaims, ZenonT(30) DEF QP!Ownership!Overtake, NQ!Ownership!Overtake,
     QP!Ownership!QueueEntry, NQ!Ownership!QueueEntry
<1>4. ASSUME NEW n \in Names, NEW c \in Clients, QP!Ownership!Leave(n, c)
      PROVE  NQ!Ownership!Leave(n, c)
  <2>1. \A s, i : QP!Ownership!Without(s, i) = NQ!Ownership!Without(s, i)
    BY ZenonT(30) DEF QP!Ownership!Without, NQ!Ownership!Without
  <2>2. PICK i \in QP!Ownership!Claims(n, c) :
           qline' = [qline EXCEPT ![n] = QP!Ownership!Without(qline[n], i)]
    BY <1>4, ZenonT(30) DEF QP!Ownership!Leave
  <2>3. i \in NQ!Ownership!Claims(n, c)
    BY SameClaims, ZenonT(30)
  <2> HIDE DEF qline, line
  <2>4. line' = [line EXCEPT ![n] = NQ!Ownership!Without(line[n], i)]
    BY <1>1, <2>1, <2>2, ZenonT(30)
  <2> QED BY <2>3, <2>4, ZenonT(30) DEF NQ!Ownership!Leave, line
<1>5. ASSUME NEW c \in Clients, QP!Ownership!LeaveAll(c)
      PROVE  NQ!Ownership!LeaveAll(c)
  BY <1>1, <1>5, SameClaims, SMTT(30) DEF QP!Ownership!LeaveAll, NQ!Ownership!LeaveAll,
     QP!Ownership!Without, NQ!Ownership!Without
<1> HIDE DEF qline, line
<1>6. QP!Ownership!Next => NQ!Ownership!Next
  BY <1>2, <1>3, <1>4, <1>5, ZenonT(30) DEF QP!Ownership!Next, NQ!Ownership!Next
<1> QED BY <1>1, <1>6, ZenonT(30) DEF qline, line

-----------------------------------------------------------------------------
(* What the handlers and the clean-ups may rely on.                          *)

\* The words of NameLines.tla mean the same in both instances.
LEMMA SameWords ==
  ASSUME NEW q
  PROVE  /\ NQ!Proper(q) <=> QP!Proper(q)
         /\ NQ!NameHasOwner(q) <=> QP!NameHasOwner(q)
         /\ NQ!NewOwner(q) = QP!NewOwner(q)
         /\ NQ!AllOwners(q) = QP!AllOwners(q)
         /\ NQ!OwnerOf(q) = QP!OwnerOf(q)
         /\ \A c : /\ NQ!IsPrimaryOwner(q, c) <=> QP!IsPrimaryOwner(q, c)
                   /\ NQ!Member(q, c) <=> QP!Member(q, c)
<1>1. NQ!Proper(q) <=> QP!Proper(q)
  BY ZenonT(30) DEF NQ!Proper, QP!Proper, NQ!ProperQueue, QP!ProperQueue, NQ!QueueRecord,
     QP!QueueRecord, NQ!QueueEntry, QP!QueueEntry, NQ!Distinct, QP!Distinct, NQ!Waits, QP!Waits
<1>2. NQ!NameHasOwner(q) <=> QP!NameHasOwner(q)
  BY ZenonT(30) DEF NQ!NameHasOwner, QP!NameHasOwner
<1>3. NQ!NewOwner(q) = QP!NewOwner(q)
  BY ZenonT(30) DEF NQ!NewOwner, QP!NewOwner
<1>4. NQ!AllOwners(q) = QP!AllOwners(q)
  BY SameEntries, ZenonT(30) DEF NQ!AllOwners, QP!AllOwners
<1>5. NQ!OwnerOf(q) = QP!OwnerOf(q)
  BY ZenonT(30) DEF NQ!OwnerOf, QP!OwnerOf
<1>6. \A c : NQ!IsPrimaryOwner(q, c) <=> QP!IsPrimaryOwner(q, c)
  BY ZenonT(30) DEF NQ!IsPrimaryOwner, QP!IsPrimaryOwner
<1>7. \A c : NQ!Member(q, c) <=> QP!Member(q, c)
  BY <1>6, ZenonT(30) DEF NQ!Member, QP!Member, NQ!ContainsClient, QP!ContainsClient, NQ!Waits, QP!Waits
<1> QED BY <1>1, <1>2, <1>3, <1>4, <1>5, <1>6, <1>7, ZenonT(30)

\* And so do the words about lines.
LEMMA SameLines ==
  /\ \A s, c : NQ!In(s, c) <=> QP!In(s, c)
  /\ \A s, t, c : NQ!Follows(s, t, c) <=> QP!Follows(s, t, c)
<1>1. \A s, c : NQ!In(s, c) <=> QP!In(s, c)
  BY ZenonT(30) DEF NQ!In, QP!In
<1>2. \A s, t : NQ!SameOrder(s, t) <=> QP!SameOrder(s, t)
  BY ZenonT(30) DEF NQ!SameOrder, QP!SameOrder
<1> QED BY <1>1, <1>2, ZenonT(30) DEF NQ!Follows, QP!Follows

\* What the proofs of the steps take from the manager holds of it.
LEMMA ManagerLawsHold == ManagerLaws
<1> SUFFICES ASSUME NEW q, NQ!Proper(q)
             PROVE  /\ NQ!QueueFacts(q)
                    /\ \A c \in Clients : NQ!ReleaseEffect(q, c, NQ!ReleaseName(q, c))
                    /\ \A c \in Clients, flags \in SUBSET NQ!RequestFlags :
                          NQ!RequestEffect(q, c, NQ!RequestName(q, c, flags))
  BY ZenonT(30) DEF ManagerLaws
<1>0. QP!Proper(q)
  BY SameWords, ZenonT(30)
<1>1. NQ!QueueFacts(q)
  <2>1. QP!QueueFacts(q)
    BY <1>0, ManagerValues, QP!QueueAnswers, ZenonT(30)
  <2> QED BY <2>1, SameWords, SameLines, ZenonT(30) DEF NQ!QueueFacts, QP!QueueFacts
<1>2. ASSUME NEW c \in Clients PROVE NQ!ReleaseEffect(q, c, NQ!ReleaseName(q, c))
  <2> DEFINE r == NQ!ReleaseName(q, c)
  <2>1. QP!ReleaseEffect(q, c, QP!ReleaseName(q, c))
    BY <1>0, ManagerValues, QP!ReleaseEffects, ZenonT(30)
  <2>2. QP!ReleaseEffect(q, c, r)
    BY <2>1, SameRelease, ZenonT(30)
  <2> HIDE DEF r
  <2>3. NQ!WithoutClient(q, c) = r.queue
    BY <2>2, SameWithout, ZenonT(30) DEF QP!ReleaseEffect
  <2>4. NQ!ReleaseEffect(q, c, r)
    BY <2>2, <2>3, SameWords, SameLines, ZenonT(30) DEF NQ!ReleaseEffect, QP!ReleaseEffect
  <2> QED BY <2>4, ZenonT(30) DEF r
<1>3. ASSUME NEW c \in Clients, NEW flags
      PROVE  NQ!RequestEffect(q, c, NQ!RequestName(q, c, flags))
  <2> DEFINE r == NQ!RequestName(q, c, flags)
  <2>1. QP!RequestEffect(q, c, QP!RequestName(q, c, flags))
    BY <1>0, ManagerValues, QP!RequestEffects, ZenonT(30)
  <2>2. QP!RequestEffect(q, c, r)
    BY <2>1, SameRequest, ZenonT(30)
  <2> HIDE DEF r
  <2>3. r.forward_to_bus => NQ!ReleaseName(r.queue, c).queue = q
    BY <2>2, SameRelease, ZenonT(30) DEF QP!RequestEffect
  <2>4. NQ!RequestEffect(q, c, r)
    BY <2>2, <2>3, SameWords, SameLines, ZenonT(30) DEF NQ!RequestEffect, QP!RequestEffect
  <2> QED BY <2>4, ZenonT(30) DEF r
<1> QED BY <1>1, <1>2, <1>3, ZenonT(30)

-----------------------------------------------------------------------------
(* Handlers and clean-ups that interleave at will, with any calls failing.   *)

\* The queues are proper, and the handlers and tasks are where their fields say they
\* are, between any two steps of the service.
LEMMA AlwaysShaped == Spec => [](QueuesProper /\ Shaped)
<1>1. Init => QueuesProper /\ Shaped
  BY InitShaped, ZenonT(30) DEF Init, QueuesProper, NQ!TypeOK, NQ!Proper
<1>2. QueuesProper /\ Shaped /\ [Next]_vars => (QueuesProper /\ Shaped)'
  BY ManagerLawsHold, QueuesStayProper, ShapedStays, ZenonT(30)
<1> QED BY <1>1, <1>2, PTL DEF Spec

\* Seen from the queues, the handlers of the event loop and the clean-ups of all
\* clients are a run of the NameQueueManager: what is proved of every such run
\* (lines are proper, replies true, a revert exact) holds between any two awaits.
THEOREM ServiceRunsQueue == Spec => NQ!Spec
<1>1. Init => NQ!Init
  BY ZenonT(30) DEF Init, NQ!Init
<1>2. Shaped /\ [Next]_vars => [NQ!Next]_queues
  BY StepsAreOperations, ZenonT(30)
<1> QED BY <1>1, <1>2, AlwaysShaped, PTL DEF Spec, NQ!Spec

\* Both instances make the same steps.
LEMMA SameNext == NQ!Next => QP!Next
<1>1. \A n, c, flags : NQ!Request(n, c, flags) => QP!Request(n, c, flags)
  BY SameRequest, ZenonT(30) DEF NQ!Request, QP!Request
<1>2. \A n, c : NQ!Release(n, c) => QP!Release(n, c)
  BY SameRelease, ZenonT(30) DEF NQ!Release, QP!Release
<1>3. \A c : NQ!RemoveClient(c) => QP!RemoveClient(c)
  BY SameWithout, ZenonT(30) DEF NQ!RemoveClient, QP!RemoveClient
<1>4. NQ!RequestFlags = QP!RequestFlags
  BY ZenonT(30) DEF NQ!RequestFlags, QP!RequestFlags
<1> QED BY <1>1, <1>2, <1>3, <1>4, ZenonT(30) DEF NQ!Next, QP!Next

\* Whatever handle_request_name, handle_release_name and the clean-ups do to the lines
\* between their awaits, refused bus calls and their reverts included: a claim joins at
\* the end, overtakes an owner that allows it, or leaves.
THEOREM LinesAlwaysFair == Spec => LinesAreFair
<1>1. QP!Spec => QP!ImplementsOwnership
  BY ManagerValues, QP!Refinement, ZenonT(30)
<1>2. NQ!Init => QP!Init
  BY ZenonT(30) DEF NQ!Init, QP!Init
<1>3. NQ!Spec => QP!Spec
  BY <1>2, SameNext, PTL DEF NQ!Spec, QP!Spec
<1> QED BY <1>1, <1>3, ServiceRunsQueue, SameOwnershipInit, SameOwnershipNext, PTL
        DEF LinesAreFair, NQ!ImplementsOwnership, QP!ImplementsOwnership,
            NQ!Ownership!Spec, QP!Ownership!Spec

\* A RequestName reply that was worked out before the bus call is true of the queue
\* when it is sent after it, if its caller is still connected.
THEOREM RepliesStayTrue == Spec => []ReplyStillTrue
<1>1. Init => AnswerInv
  BY DEF Init, Idle, AnswerInv, Answering, RequestPcs, RevertPcs
<1>2. QueuesProper /\ Shaped /\ AnswerInv /\ [Next]_vars => AnswerInv'
  BY ManagerLawsHold, AnswerStays, ZenonT(30)
<1>3. QueuesProper /\ Shaped /\ AnswerInv => ReplyStillTrue
  BY ManagerLawsHold, AnswerMeans, ZenonT(30)
<1> QED BY <1>1, <1>2, <1>3, AlwaysShaped, PTL DEF Spec

\* A RequestName that the bus refuses leaves the line as it was before the call, but
\* for the clients whose clean-up took them out of it meanwhile.
THEOREM RefusalsRestore == Spec => RefusalRestoresLine
<1>1. Init => LineInv
  BY SMTT(40) DEF Init, Idle, LineInv, RevertPcs
<1>2. QueuesProper /\ Shaped /\ LineInv /\ [Next]_vars => LineInv'
  BY ManagerLawsHold, LineStays, ZenonT(30)
<1>3. QueuesProper /\ Shaped /\ LineInv /\ [Next]_vars =>
        [main.pc = "request_revert" /\ main' = Idle =>
           LET n == main.name
           IN  Restores(NQ!AllOwners(queues'[n]), main.before, {c \in Clients : InLine(n, c)})]_vars
  BY ManagerLawsHold, RefusalRestores, ZenonT(30)
<1> QED BY <1>1, <1>2, <1>3, AlwaysShaped, PTL DEF Spec, RefusalRestoresLine

-----------------------------------------------------------------------------
(* Calls and disconnects that arrive when nothing is under way.              *)

\* One handler or clean-up works at a time, and the queues are as it left them.
LEMMA AlwaysOrderly ==
  ASSUME Sequential
  PROVE  Spec => [](QueuesProper /\ Shaped /\ Orderly)
<1>1. Init => Orderly
  BY InitOrderly, ZenonT(30)
<1>2. QueuesProper /\ Shaped /\ Orderly /\ [Next]_vars => Orderly'
  BY ManagerLawsHold, OrderlyStays, ZenonT(30)
<1> QED BY <1>1, <1>2, AlwaysShaped, PTL DEF Spec

\* Whatever calls fail and whatever services do on the bus, a clean-up leaves no trace
\* of its client in any line.
THEOREM LinesOfConnected ==
  ASSUME Sequential
  PROVE  Spec => []OnlyConnectedInLine
<1>1. Orderly => OnlyConnectedInLine
  BY LinesMean, ZenonT(30) DEF Orderly
<1> QED BY <1>1, AlwaysOrderly, PTL

\* If ReleaseName does not fail, find_client_credentials finds for a name its owner or
\* one that was replaced, for any calls, refused requests and services on the bus.
THEOREM CredentialsAreOwners ==
  ASSUME Sequential, "ReleaseName" \notin Failing
  PROVE  Spec => []CredentialsOfOwner
<1>1. Init => CredInv
  BY InitOrderly, ZenonT(30)
<1>2. QueuesProper /\ Shaped /\ Orderly /\ CredInv /\ [Next]_vars => CredInv'
  BY ManagerLawsHold, CredStays, ZenonT(30)
<1>3. QueuesProper /\ Shaped /\ Orderly /\ CredInv => CredentialsOfOwner
  BY ManagerLawsHold, CredMeans, ZenonT(30)
<1> QED BY <1>1, <1>2, <1>3, AlwaysOrderly, PTL DEF Spec

\* On a bus that nobody else uses, owned_names hold what the queue says a client owns,
\* for any calls and whichever of the bus calls fail.
THEOREM OwnersAreRecorded ==
  ASSUME Sequential, Services = {}
  PROVE  Spec => []OwnedCoversQueue
<1>1. Init => OneBus /\ OwnedInv
  BY InitOrderly, ZenonT(30)
<1>2. QueuesProper /\ Shaped /\ Orderly /\ (OneBus /\ OwnedInv) /\ [Next]_vars => (OneBus /\ OwnedInv)'
  BY ManagerLawsHold, OwnedStays, ZenonT(30)
<1>3. QueuesProper /\ Shaped /\ Orderly /\ (OneBus /\ OwnedInv) => OwnedCoversQueue
  BY ManagerLawsHold, OwnedMeans, ZenonT(30)
<1> QED BY <1>1, <1>2, <1>3, AlwaysOrderly, PTL DEF Spec

\* The bus, the signals and the routing table, on a bus that nobody else uses and that
\* answers every ReleaseName.
LEMMA AlwaysInStep ==
  ASSUME Sequential, Services = {}, "ReleaseName" \notin Failing
  PROVE  Spec => [](BusFollowsQueue /\ RoutingFollowsBus)
<1> DEFINE I == OneBus /\ BusInv /\ StreamInv /\ TableInv
<1>1. Init => I
  BY InitOrderly, ZenonT(30)
<1>2. QueuesProper /\ Shaped /\ Orderly /\ I /\ [Next]_vars => I'
  BY ManagerLawsHold, BusStays, ZenonT(30)
<1>3. QueuesProper /\ Shaped /\ Orderly /\ I => BusFollowsQueue /\ RoutingFollowsBus
  BY ManagerLawsHold, BusMeans, ZenonT(30)
<1> HIDE DEF I
<1> QED BY <1>1, <1>2, <1>3, AlwaysOrderly, PTL DEF Spec

\* There the multiplexer has on the bus exactly the names its clients own in the queue,
\* whichever RequestName calls are refused.
THEOREM BusAlwaysFollows ==
  ASSUME Sequential, Services = {}, "ReleaseName" \notin Failing
  PROVE  Spec => []BusFollowsQueue
BY AlwaysInStep, PTL

\* And the routing table holds exactly the names that are owned on the bus.
THEOREM RoutingAlwaysFollows ==
  ASSUME Sequential, Services = {}, "ReleaseName" \notin Failing
  PROVE  Spec => []RoutingFollowsBus
BY AlwaysInStep, PTL
=============================================================================
