-------------------------- MODULE NameServiceSteps --------------------------
(***************************************************************************)
(* What every step of the handlers, the clean-ups and the bus of           *)
(* NameService.tla does to the queues, to the tasks and to owned_names,    *)
(* and the inductive invariants on these.  What the steps need to know of  *)
(* the NameQueueManager is stated as ManagerLaws; NameServiceProofs.tla    *)
(* derives the laws from the manager's theorems.                           *)
(***************************************************************************)
EXTENDS NameService, TLAPS

ManagerLaws ==
    \A q : NQ!Proper(q) =>
        /\ NQ!QueueFacts(q)
        /\ \A c \in Clients : NQ!ReleaseEffect(q, c, NQ!ReleaseName(q, c))
        /\ \A c \in Clients, flags \in SUBSET NQ!RequestFlags :
              NQ!RequestEffect(q, c, NQ!RequestName(q, c, flags))

QueuesProper == NQ!TypeOK /\ \A n \in Names : NQ!Proper(queues[n])

\* The manager on one proper queue.
LEMMA Laws ==
    ASSUME ManagerLaws, NEW q, NQ!Proper(q)
    PROVE  /\ NQ!QueueFacts(q)
           /\ \A c \in Clients : NQ!ReleaseEffect(q, c, NQ!ReleaseName(q, c))
           /\ \A c \in Clients, flags \in SUBSET NQ!RequestFlags :
                 NQ!RequestEffect(q, c, NQ!RequestName(q, c, flags))
BY Zenon DEF ManagerLaws

-----------------------------------------------------------------------------
(* Shapes.                                                                   *)

RevertPcs == {"request_bus", "request_revert"}
RequestPcs == RevertPcs \cup {"request_record"}
ReleasePcs == {"release_promote", "release_look", "release_bus", "release_bus_unknown",
               "release_route", "release_local"}
RequestCodes == {"PRIMARY_OWNER", "ALREADY_OWNER", "IN_QUEUE", "EXISTS"}
ReleaseCodes == {"RELEASED", "NON_EXISTENT", "NOT_OWNER"}

NewRequests == [pc : {"request_queue"}, client : Clients, name : Names,
                flags : SUBSET NQ!RequestFlags]
Requests == [pc : RequestPcs \cup {"reply"}, call : {"RequestName"}, client : Clients,
             name : Names, flags : SUBSET NQ!RequestFlags, code : RequestCodes,
             before : Seq(Clients)]
Releases == [pc : ReleasePcs \cup {"reply"}, call : {"ReleaseName"}, client : Clients,
             name : Names, code : ReleaseCodes, new_owner : Clients \cup {None}]

TaskPcs == {"absent", "running", "queue", "results", "release", "forget", "done"}
Tasks == [pc : TaskPcs, name : Names \cup {None}, names : SUBSET Names,
          results : SUBSET Results]

Shaped ==
    /\ main \in {Idle} \cup NewRequests \cup Requests \cup Releases
    /\ task \in [Clients -> Tasks]
    /\ owned \in [Clients -> SUBSET Names]
    /\ clients = {c \in Clients : task[c].pc = "running"}
    /\ main.pc # "idle" => task[main.client].pc # "absent"

\* At first nobody is connected and no handler runs.
LEMMA InitShaped == Init => Shaped
<1> SUFFICES ASSUME Init PROVE Shaped
  BY Zenon
<1>1. /\ main = Idle /\ task = [c \in Clients |-> NewTask] /\ clients = {}
      /\ owned = [c \in Clients |-> {}] /\ main.pc = "idle"
  BY DEF Init, Idle
<1>2. NewTask \in Tasks /\ NewTask.pc # "running"
  BY DEF NewTask, Tasks, TaskPcs
<1>3. task \in [Clients -> Tasks] /\ clients = {c \in Clients : task[c].pc = "running"}
  BY <1>1, <1>2
<1>4. owned \in [Clients -> SUBSET Names]
  BY <1>1
<1> QED BY <1>1, <1>3, <1>4, Zenon DEF Shaped

\* A handler that moves on keeps the call it is in.
Moves(pc) ==
    /\ main'.pc = pc /\ main'.client = main.client /\ main'.name = main.name
    /\ main'.call = main.call
    /\ main.call = "RequestName" => main'.code = main.code /\ main'.before = main.before
    /\ main.call = "ReleaseName" => main'.new_owner = main.new_owner

\* Goto changes the place in the handler and nothing else.
LEMMA GotoMoves ==
    ASSUME Shaped, NEW pc, Goto(pc), main.pc \notin {"idle", "request_queue"}
    PROVE  Moves(pc)
<1>1. main \in Requests \cup Releases
  BY DEF Shaped, NewRequests, Idle
<1>2. CASE main \in Requests
  BY <1>2, Zenon DEF Requests, Goto, Moves
<1>3. CASE main \in Releases
  BY <1>3, Zenon DEF Releases, Goto, Moves
<1> QED BY <1>1, <1>2, <1>3, Zenon

\* Where the event loop is tells which call it is in.
LEMMA MainFields ==
    ASSUME Shaped
    PROVE  /\ main = Idle <=> main.pc = "idle"
           /\ main.pc # "idle" => main.client \in Clients /\ main.name \in Names
           /\ main.pc = "request_queue" => main.flags \in SUBSET NQ!RequestFlags
           /\ main.pc \in RequestPcs => main.call = "RequestName"
           /\ main.pc \in ReleasePcs => main.call = "ReleaseName"
           /\ main.pc \in {"idle", "request_queue", "reply"} \cup RequestPcs \cup ReleasePcs
           /\ main.pc = "reply" => main.call \in {"RequestName", "ReleaseName"}
           /\ main.pc \notin {"idle", "request_queue"} /\ main.call = "RequestName"
              => main.code \in RequestCodes
           /\ main.pc \notin {"idle", "request_queue"} /\ main.call = "ReleaseName"
              => main.new_owner \in Clients \cup {None}
<1>1. CASE main = Idle
  BY <1>1, Zenon DEF Idle, RequestPcs, RevertPcs, ReleasePcs
<1>2. CASE main \in NewRequests
  BY <1>2 DEF NewRequests, Idle, RequestPcs, RevertPcs, ReleasePcs
<1>3. CASE main \in Requests
  BY <1>3 DEF Requests, Idle, RequestPcs, RevertPcs, ReleasePcs
<1>4. CASE main \in Releases
  BY <1>4 DEF Releases, Idle, RequestPcs, RevertPcs, ReleasePcs
<1> QED BY <1>1, <1>2, <1>3, <1>4, Zenon DEF Shaped

\* One task moves, and the others stay where they are.
TaskMoves(c, pc, name, names, results) ==
    /\ task'[c] = [pc |-> pc, name |-> name, names |-> names, results |-> results]
    /\ \A d \in Clients : d # c => task'[d] = task[d]
    /\ task' = [d \in Clients |-> task'[d]]

\* The fields of a task after each of its steps.
LEMMA TaskSteps ==
    ASSUME Shaped, NEW c \in Clients
    PROVE  /\ Connect(c) =>
                TaskMoves(c, "running", task[c].name, task[c].names, task[c].results)
           /\ Unregister(c) =>
                TaskMoves(c, "queue", task[c].name, owned[c], task[c].results)
           /\ ForgetOwned(c) =>
                TaskMoves(c, "release", task[c].name, task[c].names, task[c].results)
           /\ Finish(c) =>
                TaskMoves(c, "done", task[c].name, task[c].names, task[c].results)
           /\ ReleaseOnBus(c) =>
                TaskMoves(c, "results", None, task[c].names, task[c].results)
           /\ \A n : CheckOwned(c, n) =>
                \/ /\ NQ!NameHasOwner(queues[n])
                   /\ TaskMoves(c, "results", task[c].name, task[c].names \ {n}, task[c].results)
                \/ /\ ~ NQ!NameHasOwner(queues[n])
                   /\ TaskMoves(c, "forget", n, task[c].names \ {n}, task[c].results)
           /\ \A r : Transfer(c, r) =>
                TaskMoves(c, "results", task[c].name, task[c].names, task[c].results \ {r})
           /\ \A r : Forget(c, r) =>
                TaskMoves(c, "release", r.name, task[c].names, task[c].results \ {r})
<1> DEFINE t == task[c]
<1>1. task \in [Clients -> Tasks]
  BY Zenon DEF Shaped
<1>2. \A pc : TaskGoto(c, pc) => TaskMoves(c, pc, t.name, t.names, t.results)
  BY <1>1, Zenon DEF TaskGoto, TaskMoves, Tasks
<1>3. ASSUME Unregister(c) PROVE TaskMoves(c, "queue", t.name, owned[c], t.results)
  <2>1. task' = [task EXCEPT ![c].pc = "queue", ![c].names = owned[c]]
    BY <1>3, Zenon DEF Unregister
  <2> QED BY <1>1, <2>1, Zenon DEF TaskMoves, Tasks
<1>4. ASSUME ReleaseOnBus(c) PROVE TaskMoves(c, "results", None, t.names, t.results)
  <2>1. task' = [task EXCEPT ![c].pc = "results", ![c].name = None]
    BY <1>4, Zenon DEF ReleaseOnBus
  <2> QED BY <1>1, <2>1, Zenon DEF TaskMoves, Tasks
<1>5. ASSUME NEW n, CheckOwned(c, n)
      PROVE  \/ /\ NQ!NameHasOwner(queues[n])
                /\ TaskMoves(c, "results", t.name, t.names \ {n}, t.results)
             \/ /\ ~ NQ!NameHasOwner(queues[n])
                /\ TaskMoves(c, "forget", n, t.names \ {n}, t.results)
  <2>1. CASE NQ!NameHasOwner(queues[n])
    <3>1. task' = [task EXCEPT ![c].names = @ \ {n}] /\ t.pc = "results"
      BY <1>5, <2>1, Zenon DEF CheckOwned, TaskAt
    <3>2. TaskMoves(c, "results", t.name, t.names \ {n}, t.results)
      BY <1>1, <3>1, Zenon DEF TaskMoves, Tasks
    <3> QED BY <2>1, <3>2, Zenon
  <2>2. CASE ~ NQ!NameHasOwner(queues[n])
    <3>1. task' = [task EXCEPT ![c].pc = "forget", ![c].name = n, ![c].names = @ \ {n}]
      BY <1>5, <2>2, Zenon DEF CheckOwned
    <3>2. TaskMoves(c, "forget", n, t.names \ {n}, t.results)
      BY <1>1, <3>1, ZenonT(40) DEF TaskMoves, Tasks
    <3> QED BY <2>2, <3>2, Zenon
  <2> QED BY <2>1, <2>2, Zenon
<1>6. ASSUME NEW r, Transfer(c, r)
      PROVE  TaskMoves(c, "results", t.name, t.names, t.results \ {r})
  <2>1. task' = [task EXCEPT ![c].results = @ \ {r}] /\ t.pc = "results"
    BY <1>6, Zenon DEF Transfer, TaskAt
  <2> QED BY <1>1, <2>1, Zenon DEF TaskMoves, Tasks
<1>7. ASSUME NEW r, Forget(c, r)
      PROVE  TaskMoves(c, "release", r.name, t.names, t.results \ {r})
  <2>1. task' = [task EXCEPT ![c].pc = "release", ![c].name = r.name, ![c].results = @ \ {r}]
    BY <1>7, Zenon DEF Forget
  <2> QED BY <1>1, <2>1, Zenon DEF TaskMoves, Tasks
<1> QED BY <1>2, <1>3, <1>4, <1>5, <1>6, <1>7, Zenon DEF Connect, ForgetOwned, Finish

\* What release_name hands on: a client, or nothing.
LEMMA NewOwnerIs ==
    ASSUME ManagerLaws, NEW q, NQ!Proper(q), NEW c \in Clients
    PROVE  NQ!ReleaseName(q, c).new_owner \in Clients \cup {None}
<1> DEFINE r == NQ!ReleaseName(q, c)
<1>1. NQ!ReleaseEffect(q, c, r)
  BY Laws, Zenon
<1> HIDE DEF r
<1>2. r.new_owner = None \/ r.new_owner = NQ!OwnerOf(r.queue)
  BY <1>1, Zenon DEF NQ!ReleaseEffect
<1>3. NQ!QueueFacts(r.queue)
  BY <1>1, Laws, Zenon DEF NQ!ReleaseEffect
<1>4. NQ!OwnerOf(r.queue) \in Clients \cup {None}
  BY <1>3, Zenon DEF NQ!QueueFacts
<1> QED BY <1>2, <1>4, Zenon DEF r

\* remove_client: each name that c owned is in the results, with its next owner.
Leaves(c, results) ==
    /\ TaskMoves(c, "results", task[c].name, task[c].names, results)
    /\ \A n \in Names : queues'[n] = NQ!ReleaseName(queues[n], c).queue
    /\ \A r \in results : /\ r.name \in Names /\ NQ!OwnerOf(queues[r.name]) = c
                          /\ NQ!OwnerOf(queues'[r.name]) = r.new_owner
    /\ \A n \in Names : NQ!OwnerOf(queues[n]) = c =>
          [name |-> n, new_owner |-> NQ!OwnerOf(queues'[n])] \in results

\* LeaveQueues does that.
LEMMA LeaveStep ==
    ASSUME ManagerLaws, QueuesProper, Shaped, NEW c \in Clients, LeaveQueues(c)
    PROVE  \E results \in SUBSET Results : Leaves(c, results)
<1> DEFINE lost == {n \in Names : queues[n] # None /\ NQ!IsPrimaryOwner(queues[n], c)}
           results == {[name |-> n, new_owner |-> NQ!NewOwner(queues[n])] : n \in lost}
<1>1. /\ queues' = [n \in Names |-> NQ!WithoutClient(queues[n], c)]
      /\ task' = [task EXCEPT ![c].pc = "results", ![c].results = results]
  BY Zenon DEF LeaveQueues
<1>2. task \in [Clients -> Tasks]
  BY Zenon DEF Shaped
<1>3. TaskMoves(c, "results", task[c].name, task[c].names, results)
  <2> HIDE DEF results
  <2> QED BY <1>1, <1>2, Zenon DEF TaskMoves, Tasks
<1>4. ASSUME NEW n \in Names
      PROVE  /\ NQ!QueueFacts(queues[n])
             /\ NQ!ReleaseEffect(queues[n], c, NQ!ReleaseName(queues[n], c))
  BY Laws, Zenon DEF QueuesProper
<1>5. \A n \in Names : queues'[n] = NQ!ReleaseName(queues[n], c).queue
  BY <1>1, <1>4, Zenon DEF NQ!ReleaseEffect
<1>6. c # None
  BY ValuesAssumption, Zenon DEF NQ!NoneAssumption
<1>7. \A n \in Names : n \in lost <=> NQ!OwnerOf(queues[n]) = c
  <2>1. ASSUME NEW n \in Names PROVE n \in lost <=> NQ!OwnerOf(queues[n]) = c
    BY <1>4, <1>6, Zenon DEF NQ!QueueFacts
  <2> QED BY <2>1, Zenon
<1>8. \A n \in lost : NQ!NewOwner(queues[n]) = NQ!OwnerOf(queues'[n])
  <2>1. ASSUME NEW n \in lost PROVE NQ!NewOwner(queues[n]) = NQ!OwnerOf(queues'[n])
    BY <1>4, <1>5, <1>7, Zenon DEF NQ!ReleaseEffect
  <2> QED BY <2>1, Zenon
<1>9. \A n \in Names : NQ!OwnerOf(queues'[n]) \in Clients \cup {None}
  <2>1. ASSUME NEW n \in Names PROVE NQ!OwnerOf(queues'[n]) \in Clients \cup {None}
    <3>1. NQ!Proper(queues'[n])
      BY <1>4, <1>5, Zenon DEF NQ!ReleaseEffect
    <3>2. NQ!QueueFacts(queues'[n])
      BY <3>1, Laws, Zenon
    <3> QED BY <3>2, Zenon DEF NQ!QueueFacts
  <2> QED BY <2>1, Zenon
<1> HIDE DEF lost
<1>10. results \in SUBSET Results
  <2> SUFFICES ASSUME NEW r \in results PROVE r \in Results
    BY Zenon
  <2>1. PICK n \in lost : r = [name |-> n, new_owner |-> NQ!NewOwner(queues[n])]
    BY Zenon
  <2>2. n \in Names /\ NQ!NewOwner(queues[n]) \in Clients \cup {None}
    BY <1>8, <1>9, Zenon DEF lost
  <2> QED BY <2>1, <2>2, Zenon DEF Results
<1>11. ASSUME NEW r \in results
       PROVE  /\ r.name \in Names /\ NQ!OwnerOf(queues[r.name]) = c
              /\ NQ!OwnerOf(queues'[r.name]) = r.new_owner
  <2>1. PICK n \in lost : r = [name |-> n, new_owner |-> NQ!NewOwner(queues[n])]
    BY Zenon
  <2>2. n \in Names /\ r.name = n /\ r.new_owner = NQ!NewOwner(queues[n])
    BY <2>1, Zenon DEF lost
  <2> QED BY <1>7, <1>8, <2>2, Zenon
<1>12. ASSUME NEW n \in Names, NQ!OwnerOf(queues[n]) = c
       PROVE  [name |-> n, new_owner |-> NQ!OwnerOf(queues'[n])] \in results
  <2>1. n \in lost
    BY <1>7, <1>12, Zenon
  <2>2. [name |-> n, new_owner |-> NQ!NewOwner(queues[n])] \in results
    BY <2>1, Zenon
  <2> QED BY <1>8, <2>1, <2>2, Zenon
<1>13. Leaves(c, results)
  <2> HIDE DEF results
  <2> QED BY <1>3, <1>5, <1>11, <1>12, Zenon DEF Leaves
<1> QED BY <1>10, <1>13, Zenon

\* Clean-ups, signals and the bus do not touch a handler that is under way.
LEMMA OthersLeaveMain ==
    /\ \A c \in Clients : Connect(c) \/ Unregister(c) \/ CleanupStep(c) => main' = main
    /\ \A p \in Services, n \in Names : ServiceMoves(p, n) => main' = main
    /\ HandleNameOwnerChanged \/ Rest \/ UNCHANGED vars => main' = main
<1>1. ASSUME NEW c \in Clients, Connect(c) \/ Unregister(c) \/ CleanupStep(c)
      PROVE  main' = main
  BY <1>1, Zenon DEF Connect, Unregister, CleanupStep, LeaveQueues, ReleaseOnBus, ForgetOwned,
     Finish, CheckOwned, Transfer, Forget
<1>2. ASSUME NEW p \in Services, NEW n \in Names, ServiceMoves(p, n) PROVE main' = main
  BY <1>2, Zenon DEF ServiceMoves
<1>3. HandleNameOwnerChanged \/ Rest \/ UNCHANGED vars => main' = main
  BY DEF HandleNameOwnerChanged, Rest, vars
<1> QED BY <1>1, <1>2, <1>3, Zenon

\* The event loop after each kind of step.
LEMMA MainShapedStays ==
    ASSUME ManagerLaws, QueuesProper, Shaped, [Next]_vars
    PROVE  main' \in {Idle} \cup NewRequests \cup Requests \cup Releases
<1> DEFINE Mains == {Idle} \cup NewRequests \cup Requests \cup Releases
<1> SUFFICES main' \in Mains
  BY Zenon
<1>0. main \in Mains
  BY Zenon DEF Shaped
<1>1. ASSUME main' = main PROVE main' \in Mains
  BY <1>0, <1>1, Zenon
<1>2. ASSUME main' = Idle PROVE main' \in Mains
  BY <1>2, Zenon
<1>3. ASSUME NEW pc \in RequestPcs \cup {"reply"}, Goto(pc), main.pc \in RequestPcs
      PROVE  main' \in Mains
  <2>1. main \in Requests
    BY <1>0, <1>3 DEF NewRequests, Releases, Idle, RequestPcs, RevertPcs, ReleasePcs
  <2>2. main' \in Requests
    <3> DEFINE P == RequestPcs \cup {"reply"}
    <3> HIDE DEF P
    <3>1. pc \in P
      BY <1>3, Zenon DEF P
    <3> QED BY <1>3, <2>1, <3>1 DEF Goto, Requests, P
  <2> QED BY <2>2, Zenon
<1>4. ASSUME NEW pc \in ReleasePcs \cup {"reply"}, Goto(pc), main.pc \in ReleasePcs
      PROVE  main' \in Mains
  <2>1. main \in Releases
    BY <1>0, <1>4 DEF NewRequests, Requests, Idle, RequestPcs, RevertPcs, ReleasePcs
  <2>2. main' \in Releases
    BY <1>4, <2>1 DEF Goto, Releases
  <2> QED BY <2>2, Zenon
<1>5. CASE RequestQueue
  <2> DEFINE r == NQ!RequestName(queues[main.name], main.client, main.flags)
             s == NQ!AllOwners(queues[main.name])
  <2>1. /\ main.client \in Clients /\ main.name \in Names
        /\ main.flags \in SUBSET NQ!RequestFlags
    BY <1>5, MainFields, Zenon DEF RequestQueue, MainAt
  <2>2. /\ NQ!QueueFacts(queues[main.name])
        /\ NQ!RequestEffect(queues[main.name], main.client, r)
    BY <2>1, Laws, Zenon DEF QueuesProper
  <2>3. main' = [pc |-> IF r.forward_to_bus THEN "request_bus" ELSE "reply",
                 call |-> "RequestName", client |-> main.client,
                 name |-> main.name, flags |-> main.flags,
                 code |-> r.reply_code, before |-> s]
    BY <1>5, Zenon DEF RequestQueue
  <2> HIDE DEF r, s
  <2>4. s \in Seq(Clients)
    BY <2>2, Zenon DEF NQ!QueueFacts, s
  <2>5. r.reply_code \in RequestCodes
    BY <2>2, Zenon DEF NQ!RequestEffect, RequestCodes
  <2>6. (IF r.forward_to_bus THEN "request_bus" ELSE "reply") \in RequestPcs \cup {"reply"}
    BY Zenon DEF RequestPcs, RevertPcs
  <2>7. main' \in Requests
    BY <2>1, <2>3, <2>4, <2>5, <2>6, Zenon DEF Requests
  <2> QED BY <2>7, Zenon
<1>6. CASE RequestBus
  BY <1>3, <1>6, Zenon DEF RequestBus, MainAt, RequestPcs, RevertPcs
<1>7. CASE RequestRecord
  BY <1>3, <1>7, Zenon DEF RequestRecord, MainAt, RequestPcs, RevertPcs
<1>8. CASE ReleasePromote
  BY <1>4, <1>8, Zenon DEF ReleasePromote, MainAt, ReleasePcs
<1>9. CASE ReleaseLook
  BY <1>4, <1>9, Zenon DEF ReleaseLook, MainAt, ReleasePcs
<1>10. CASE ReleaseBus
  BY <1>4, <1>10, Zenon DEF ReleaseBus, MainAt, ReleasePcs
<1>11. CASE ReleaseRoute
  BY <1>4, <1>11, Zenon DEF ReleaseRoute, MainAt, ReleasePcs
<1>12. CASE ReleaseLocal
  BY <1>4, <1>12, Zenon DEF ReleaseLocal, MainAt, ReleasePcs
<1>13. CASE RequestRevert \/ Reply
  BY <1>2, <1>13, Zenon DEF RequestRevert, Reply
<1>14. ASSUME NEW c \in Clients, NEW n \in Names, ReleaseQueue(c, n)
       PROVE  main' \in Mains
  <2> DEFINE r == NQ!ReleaseName(queues[n], c)
  <2>1. NQ!ReleaseEffect(queues[n], c, r) /\ r.new_owner \in Clients \cup {None}
    BY Laws, NewOwnerIs, Zenon DEF QueuesProper
  <2>2. main' = [pc |-> IF r.new_owner # None THEN "release_promote"
                        ELSE IF r.forward_to_bus THEN "release_look"
                        ELSE "release_local",
                 call |-> "ReleaseName", client |-> c, name |-> n,
                 code |-> r.reply_code, new_owner |-> r.new_owner]
    BY <1>14, Zenon DEF ReleaseQueue
  <2> HIDE DEF r
  <2>3. r.reply_code \in ReleaseCodes
    BY <2>1, Zenon DEF NQ!ReleaseEffect, ReleaseCodes
  <2>4. (IF r.new_owner # None THEN "release_promote"
         ELSE IF r.forward_to_bus THEN "release_look" ELSE "release_local")
        \in ReleasePcs \cup {"reply"}
    BY Zenon DEF ReleasePcs
  <2>5. main' \in Releases
    BY <2>1, <2>2, <2>3, <2>4, Zenon DEF Releases
  <2> QED BY <2>5, Zenon
<1>15. ASSUME NEW c \in Clients, NEW n \in Names, NEW flags \in SUBSET NQ!RequestFlags,
              RequestStart(c, n, flags)
       PROVE  main' \in Mains
  <2>1. [pc |-> "request_queue", client |-> c, name |-> n, flags |-> flags] \in NewRequests
    BY Zenon DEF NewRequests
  <2> QED BY <1>15, <2>1, Zenon DEF RequestStart
<1> HIDE DEF Mains
<1>16. ASSUME NEW c \in Clients, Connect(c) \/ Unregister(c) \/ CleanupStep(c)
       PROVE  main' = main
  BY <1>16, OthersLeaveMain, Zenon
<1>17. HandleNameOwnerChanged \/ Rest \/ UNCHANGED vars => main' = main
  BY OthersLeaveMain, Zenon
<1>18. ASSUME NEW p \in Services, NEW n \in Names, ServiceMoves(p, n)
       PROVE  main' = main
  BY <1>18, OthersLeaveMain, Zenon
<1> QED
  BY <1>1, <1>5, <1>6, <1>7, <1>8, <1>9, <1>10, <1>11, <1>12, <1>13, <1>14, <1>15, <1>16,
     <1>17, <1>18, Zenon DEF Next, MainStep

\* A step of the event loop or of the bus.
LoopStep ==
    \/ MainStep \/ Rest \/ UNCHANGED vars
    \/ \E c \in Clients, n \in Names :
          ReleaseQueue(c, n) \/ \E flags \in SUBSET NQ!RequestFlags : RequestStart(c, n, flags)
    \/ \E p \in Services, n \in Names : ServiceMoves(p, n)

\* The event loop and the bus leave the tasks and the map of clients alone.
LEMMA LoopLeavesTasks == LoopStep => task' = task /\ clients' = clients
<1>1. MainStep => task' = task /\ clients' = clients
  BY Zenon DEF MainStep, RequestQueue, RequestBus, RequestRecord, RequestRevert, ReleasePromote,
     ReleaseLook, ReleaseBus, ReleaseRoute, ReleaseLocal, Reply, HandleNameOwnerChanged
<1>2. Rest \/ UNCHANGED vars => task' = task /\ clients' = clients
  BY DEF Rest, vars
<1>3. \A c, n : ReleaseQueue(c, n) => task' = task /\ clients' = clients
  BY Zenon DEF ReleaseQueue
<1>4. \A c, n, flags : RequestStart(c, n, flags) => task' = task /\ clients' = clients
  BY Zenon DEF RequestStart
<1>5. \A p, n : ServiceMoves(p, n) => task' = task /\ clients' = clients
  BY Zenon DEF ServiceMoves
<1> QED BY <1>1, <1>2, <1>3, <1>4, <1>5, Zenon DEF LoopStep

\* owned_names stay sets of names.
LEMMA OwnedTyped ==
    ASSUME Shaped, [Next]_vars
    PROVE  owned' \in [Clients -> SUBSET Names]
<1> DEFINE T == [Clients -> SUBSET Names]
<1>0. owned \in T /\ task \in [Clients -> Tasks]
  BY Zenon DEF Shaped
<1>1. ASSUME owned' = owned PROVE owned' \in T
  BY <1>0, <1>1, Zenon
<1>2. ASSUME NEW c \in Clients, NEW S \in SUBSET Names, owned' = [owned EXCEPT ![c] = S]
      PROVE  owned' \in T
  BY <1>0, <1>2
<1>3. \A c \in Clients : owned[c] \in SUBSET Names
  BY <1>0, Zenon
<1>4. CASE RequestRecord
  <2>1. main.client \in Clients /\ main.name \in Names
    BY <1>4, MainFields, Zenon DEF RequestRecord, MainAt
  <2>2. owned[main.client] \cup {main.name} \in SUBSET Names
    BY <1>3, <2>1, Zenon
  <2>3. owned' = owned \/ owned' = [owned EXCEPT ![main.client] = owned[main.client] \cup {main.name}]
    BY <1>4, Zenon DEF RequestRecord
  <2> QED BY <1>1, <1>2, <2>1, <2>2, <2>3, Zenon
<1>5. CASE ReleaseLocal
  <2>1. main.client \in Clients /\ main.name \in Names
    BY <1>5, MainFields, Zenon DEF ReleaseLocal, MainAt
  <2>2. owned[main.client] \ {main.name} \in SUBSET Names
    BY <1>3, <2>1, Zenon
  <2>3. owned' = owned \/ owned' = [owned EXCEPT ![main.client] = owned[main.client] \ {main.name}]
    BY <1>5, Zenon DEF ReleaseLocal
  <2> QED BY <1>1, <1>2, <2>1, <2>2, <2>3, Zenon
<1>6. CASE ReleasePromote
  <2>1. main.name \in Names
    BY <1>6, MainFields, Zenon DEF ReleasePromote, MainAt
  <2> QED BY <1>3, <1>6, <2>1, Zenon DEF ReleasePromote
<1>7. ASSUME NEW c \in Clients, Connect(c) \/ Unregister(c) PROVE owned' \in T
  <2>1. owned' = [owned EXCEPT ![c] = {}]
    BY <1>7, Zenon DEF Connect, Unregister
  <2> QED BY <1>2, <2>1, Zenon
<1>8. ASSUME NEW c \in Clients, NEW r \in Results, Transfer(c, r) PROVE owned' \in T
  <2>0. r.name \in Names /\ r.new_owner \in Clients
    BY <1>8 DEF Transfer, Results
  <2>1. owned[r.new_owner] \cup {r.name} \in SUBSET Names
    BY <1>3, <2>0, Zenon
  <2>2. owned' = owned \/ owned' = [owned EXCEPT ![r.new_owner] = owned[r.new_owner] \cup {r.name}]
    BY <1>8, Zenon DEF Transfer
  <2> QED BY <1>1, <1>2, <2>0, <2>1, <2>2, Zenon
<1>9. ASSUME NEW c \in Clients,
             \/ LeaveQueues(c) \/ ReleaseOnBus(c) \/ ForgetOwned(c) \/ Finish(c)
             \/ \E n \in Names : CheckOwned(c, n)
             \/ \E r \in Results : Forget(c, r)
      PROVE  owned' = owned
  BY <1>9, Zenon DEF LeaveQueues, ReleaseOnBus, ForgetOwned, Finish, CheckOwned, Forget
<1>10. \/ RequestQueue \/ RequestBus \/ RequestRevert \/ ReleaseLook \/ ReleaseBus
       \/ ReleaseRoute \/ Reply \/ HandleNameOwnerChanged
       => owned' = owned
  BY Zenon DEF RequestQueue, RequestBus, RequestRevert, ReleaseLook, ReleaseBus, ReleaseRoute,
     Reply, HandleNameOwnerChanged
<1>11. Rest \/ UNCHANGED vars => owned' = owned
  BY DEF Rest, vars
<1>12. /\ \A c, n : ReleaseQueue(c, n) => owned' = owned
       /\ \A c, n, flags : RequestStart(c, n, flags) => owned' = owned
       /\ \A p, n : ServiceMoves(p, n) => owned' = owned
  BY Zenon DEF ReleaseQueue, RequestStart, ServiceMoves
<1> HIDE DEF T
<1>13. owned' \in T
  BY <1>1, <1>4, <1>5, <1>6, <1>7, <1>8, <1>9, <1>10, <1>11, <1>12, Zenon
     DEF Next, MainStep, CleanupStep, Results, T
<1> QED BY <1>13, Zenon DEF T

\* A task moves on to another place of handle_new_client.
TaskGoes(c, pc) ==
    \E name \in Names \cup {None}, names \in SUBSET Names, results \in SUBSET Results :
        TaskMoves(c, pc, name, names, results)

\* It is there afterwards, and the others are where they were.
LEMMA TaskGone ==
    ASSUME NEW c, NEW pc, TaskGoes(c, pc)
    PROVE  task'[c].pc = pc /\ \A d \in Clients : d # c => task'[d] = task[d]
<1>1. PICK name \in Names \cup {None}, names \in SUBSET Names, results \in SUBSET Results :
         TaskMoves(c, pc, name, names, results)
  BY Zenon DEF TaskGoes
<1>2. task'[c].pc = pc
  BY <1>1 DEF TaskMoves
<1> QED BY <1>1, <1>2, Zenon DEF TaskMoves

\* Where the steps of a task lead, none of them back to the start.
LEMMA TaskLeads ==
    ASSUME ManagerLaws, QueuesProper, Shaped, NEW c \in Clients
    PROVE  /\ Connect(c) => TaskGoes(c, "running") /\ clients' = clients \cup {c}
           /\ Unregister(c) => TaskGoes(c, "queue") /\ clients' = clients \ {c}
           /\ CleanupStep(c) => /\ task[c].pc \notin {"absent", "running"}
                                /\ clients' = clients
                                /\ \E pc \in TaskPcs \ {"absent", "running"} : TaskGoes(c, pc)
<1> DEFINE t == task[c]
<1>0. t \in Tasks /\ owned[c] \in SUBSET Names
  BY Zenon DEF Shaped
<1>1. t.name \in Names \cup {None} /\ t.names \in SUBSET Names /\ t.results \in SUBSET Results
  BY <1>0 DEF Tasks
<1>2. ASSUME Connect(c) PROVE TaskGoes(c, "running") /\ clients' = clients \cup {c}
  BY <1>1, <1>2, TaskSteps, Zenon DEF TaskGoes, Connect
<1>3. ASSUME Unregister(c) PROVE TaskGoes(c, "queue") /\ clients' = clients \ {c}
  BY <1>0, <1>1, <1>3, TaskSteps, Zenon DEF TaskGoes, Unregister
<1> DEFINE Goal == /\ t.pc \notin {"absent", "running"} /\ clients' = clients
                   /\ \E pc \in TaskPcs \ {"absent", "running"} : TaskGoes(c, pc)
<1>4. /\ "results" \in TaskPcs \ {"absent", "running"}
      /\ "release" \in TaskPcs \ {"absent", "running"}
      /\ "forget" \in TaskPcs \ {"absent", "running"}
      /\ "done" \in TaskPcs \ {"absent", "running"}
  BY DEF TaskPcs
<1>5. ASSUME LeaveQueues(c) PROVE Goal
  <2>1. t.pc \notin {"absent", "running"} /\ clients' = clients
    BY <1>5 DEF LeaveQueues, TaskAt
  <2>2. PICK results \in SUBSET Results : Leaves(c, results)
    BY <1>5, LeaveStep, Zenon
  <2>3. TaskGoes(c, "results")
    BY <1>1, <2>2, Zenon DEF Leaves, TaskGoes
  <2> QED BY <1>4, <2>1, <2>3, Zenon
<1>6. ASSUME ReleaseOnBus(c) PROVE Goal
  <2>1. t.pc \notin {"absent", "running"} /\ clients' = clients
    BY <1>6 DEF ReleaseOnBus, TaskAt
  <2>2. TaskGoes(c, "results")
    BY <1>1, <1>6, TaskSteps, Zenon DEF TaskGoes
  <2> QED BY <1>4, <2>1, <2>2, Zenon
<1>7. ASSUME ForgetOwned(c) PROVE Goal
  <2>1. t.pc \notin {"absent", "running"} /\ clients' = clients
    BY <1>7 DEF ForgetOwned, TaskAt
  <2>2. TaskGoes(c, "release")
    BY <1>1, <1>7, TaskSteps, Zenon DEF TaskGoes
  <2> QED BY <1>4, <2>1, <2>2, Zenon
<1>8. ASSUME Finish(c) PROVE Goal
  <2>1. t.pc \notin {"absent", "running"} /\ clients' = clients
    BY <1>8 DEF Finish, TaskAt
  <2>2. TaskGoes(c, "done")
    BY <1>1, <1>8, TaskSteps, Zenon DEF TaskGoes
  <2> QED BY <1>4, <2>1, <2>2, Zenon
<1>9. ASSUME NEW n \in Names, CheckOwned(c, n) PROVE Goal
  <2>1. t.pc \notin {"absent", "running"} /\ clients' = clients
    BY <1>9 DEF CheckOwned, TaskAt
  <2>2. t.names \ {n} \in SUBSET Names /\ n \in Names \cup {None}
    BY <1>1, Zenon
  <2>3. TaskGoes(c, "results") \/ TaskGoes(c, "forget")
    BY <1>1, <1>9, <2>2, TaskSteps, Zenon DEF TaskGoes
  <2> QED BY <1>4, <2>1, <2>3, Zenon
<1>10. ASSUME NEW r \in Results, Transfer(c, r) \/ Forget(c, r) PROVE Goal
  <2>1. t.pc \notin {"absent", "running"} /\ clients' = clients
    BY <1>10 DEF Transfer, Forget, TaskAt
  <2>2. t.results \ {r} \in SUBSET Results /\ r.name \in Names \cup {None}
    BY <1>1 DEF Results
  <2>3. TaskGoes(c, "results") \/ TaskGoes(c, "release")
    BY <1>1, <1>10, <2>2, TaskSteps, Zenon DEF TaskGoes
  <2> QED BY <1>4, <2>1, <2>3, Zenon
<1> HIDE DEF Goal
<1>11. CleanupStep(c) => Goal
  BY <1>5, <1>6, <1>7, <1>8, <1>9, <1>10, Zenon DEF CleanupStep, Results
<1> QED BY <1>2, <1>3, <1>11, Zenon DEF Goal

\* A step is one of the loop or the bus, or of the task of one client.
LEMMA NextCases ==
    ASSUME [Next]_vars
    PROVE  LoopStep \/ \E c \in Clients : Connect(c) \/ Unregister(c) \/ CleanupStep(c)
BY Zenon DEF Next, LoopStep

\* Where in a handler an await may lead.
EmptyPcs == {"release_look", "release_bus", "release_bus_unknown", "release_route"}

Leads(from, to) ==
    /\ to \in {"request_revert", "request_record"} => from = "request_bus"
    /\ to \in ReleasePcs => from \in ReleasePcs
    /\ to \in EmptyPcs => from \in EmptyPcs
    /\ to # "release_promote"

\* What a step of the event loop or of the bus may do to the handler and the queues.
LoopCase ==
    \/ main' = main /\ queues' = queues
    \/ /\ main.pc \notin {"idle", "request_queue"} /\ queues' = queues
       /\ \E pc \in {"request_revert", "request_record", "reply"} \cup ReleasePcs :
             Moves(pc) /\ Leads(main.pc, pc)
    \/ RequestQueue
    \/ main' = Idle /\ (RequestRevert \/ queues' = queues)
    \/ \E c \in Clients, n \in Names :
          task[c].pc # "absent" /\ (ReleaseQueue(c, n) \/ \E flags : RequestStart(c, n, flags))

\* Every such step is one of these.
LEMMA LoopCases ==
    ASSUME Shaped, LoopStep
    PROVE  LoopCase
<1>1. ASSUME NEW pc \in {"request_revert", "request_record", "reply"} \cup ReleasePcs, Goto(pc),
             main.pc \notin {"idle", "request_queue"}, queues' = queues, Leads(main.pc, pc)
      PROVE  LoopCase
  BY <1>1, GotoMoves, Zenon DEF LoopCase
<1>2. CASE RequestBus
  <2>1. main.pc = "request_bus" /\ main.pc \notin {"idle", "request_queue"} /\ queues' = queues
    BY <1>2 DEF RequestBus, MainAt
  <2>2. Goto("request_record") \/ Goto("reply") \/ Goto("request_revert")
    BY <1>2, Zenon DEF RequestBus
  <2>3. Leads(main.pc, "request_record") /\ Leads(main.pc, "reply") /\ Leads(main.pc, "request_revert")
    BY <2>1 DEF Leads, ReleasePcs, EmptyPcs
  <2> QED BY <1>1, <2>1, <2>2, <2>3, Zenon
<1>3. CASE RequestRecord \/ ReleasePromote \/ ReleaseLook \/ ReleaseBus \/ ReleaseRoute \/ ReleaseLocal
  <2>1. main.pc \notin {"idle", "request_queue"} /\ queues' = queues
    BY <1>3 DEF RequestRecord, ReleasePromote, ReleaseLook, ReleaseBus, ReleaseRoute,
                ReleaseLocal, MainAt
  <2>2. \/ Goto("reply")
        \/ main.pc = "release_look" /\ Goto("release_bus")
        \/ main.pc = "release_look" /\ Goto("release_bus_unknown")
        \/ main.pc = "release_bus" /\ Goto("release_route")
        \/ main.pc \in EmptyPcs /\ Goto("release_local")
    BY <1>3, Zenon DEF RequestRecord, ReleasePromote, ReleaseLook, ReleaseBus, ReleaseRoute,
                       ReleaseLocal, MainAt, EmptyPcs
  <2>3. /\ Leads(main.pc, "reply")
        /\ main.pc = "release_look" => Leads(main.pc, "release_bus")
        /\ main.pc = "release_look" => Leads(main.pc, "release_bus_unknown")
        /\ main.pc = "release_bus" => Leads(main.pc, "release_route")
        /\ main.pc \in EmptyPcs => Leads(main.pc, "release_local")
    BY DEF Leads, ReleasePcs, EmptyPcs
  <2>4. {"release_bus", "release_bus_unknown", "release_route", "release_local"} \subseteq ReleasePcs
    BY DEF ReleasePcs
  <2> QED BY <1>1, <2>1, <2>2, <2>3, <2>4, Zenon
<1>4. CASE RequestRevert \/ Reply
  BY <1>4, Zenon DEF RequestRevert, Reply, LoopCase
<1>5. ASSUME NEW c \in Clients, NEW n \in Names, ReleaseQueue(c, n) PROVE LoopCase
  BY <1>5, Zenon DEF ReleaseQueue, LoopCase
<1>6. ASSUME NEW c \in Clients, NEW n \in Names, NEW flags, RequestStart(c, n, flags) PROVE LoopCase
  BY <1>6, Zenon DEF RequestStart, LoopCase
<1>7. HandleNameOwnerChanged => LoopCase
  BY Zenon DEF HandleNameOwnerChanged, LoopCase
<1>8. Rest \/ UNCHANGED vars => main' = main /\ queues' = queues
  BY DEF Rest, vars
<1>9. ASSUME NEW p \in Services, NEW n \in Names, ServiceMoves(p, n) PROVE LoopCase
  BY <1>9, Zenon DEF ServiceMoves, LoopCase
<1>10. (main' = main /\ queues' = queues) \/ RequestQueue => LoopCase
  BY Zenon DEF LoopCase
<1> QED BY <1>2, <1>3, <1>4, <1>5, <1>6, <1>7, <1>8, <1>9, <1>10, Zenon DEF LoopStep, MainStep

\* The client of a handler does not change while it is under way.
LEMMA MainKeepsClient ==
    ASSUME Shaped, LoopStep
    PROVE  \/ main'.pc = "idle"
           \/ main'.client = main.client /\ main.pc # "idle"
           \/ main'.client \in Clients /\ task[main'.client].pc # "absent"
           \/ main' = main
<1>1. CASE RequestQueue
  BY <1>1 DEF RequestQueue, MainAt
<1>2. ASSUME NEW pc, main.pc \notin {"idle", "request_queue"}, Moves(pc)
      PROVE  main'.client = main.client /\ main.pc # "idle"
  BY <1>2, Zenon DEF Moves
<1>3. CASE main' = Idle
  BY <1>3 DEF Idle
<1>4. ASSUME NEW c \in Clients, NEW n \in Names, ReleaseQueue(c, n)
      PROVE  main'.client = c /\ task[c].pc # "absent"
  BY <1>4, Zenon DEF ReleaseQueue
<1>5. ASSUME NEW c \in Clients, NEW n \in Names, NEW flags, RequestStart(c, n, flags)
      PROVE  main'.pc = "idle" \/ (main'.client = c /\ task[c].pc # "absent")
  BY <1>5, Zenon DEF RequestStart, Idle
<1> QED BY <1>1, <1>2, <1>3, <1>4, <1>5, LoopCases, Zenon DEF LoopCase

\* Shapes are kept by every step.
LEMMA ShapedStays ==
    ASSUME ManagerLaws, QueuesProper, Shaped, [Next]_vars
    PROVE  Shaped'
<1>1. /\ main' \in {Idle} \cup NewRequests \cup Requests \cup Releases
      /\ owned' \in [Clients -> SUBSET Names]
  BY MainShapedStays, OwnedTyped, Zenon
<1>2. /\ task \in [Clients -> Tasks] /\ clients = {c \in Clients : task[c].pc = "running"}
      /\ main.pc # "idle" => main.client \in Clients /\ task[main.client].pc # "absent"
  BY MainFields, Zenon DEF Shaped
<1>3. CASE LoopStep
  <2>1. task' = task /\ clients' = clients
    BY <1>3, LoopLeavesTasks, Zenon
  <2>2. main'.pc # "idle" => task[main'.client].pc # "absent"
    <3>1. CASE main' = main
      BY <1>2, <3>1
    <3> QED BY <1>2, <1>3, <3>1, MainKeepsClient, Zenon
  <2> QED BY <1>1, <1>2, <2>1, <2>2, Zenon DEF Shaped
<1>4. ASSUME NEW c \in Clients, NEW pc \in TaskPcs, TaskGoes(c, pc)
      PROVE  /\ task' \in [Clients -> Tasks] /\ task'[c].pc = pc
             /\ \A d \in Clients : d # c => task'[d] = task[d]
  <2>1. PICK name \in Names \cup {None}, names \in SUBSET Names, results \in SUBSET Results :
           TaskMoves(c, pc, name, names, results)
    BY <1>4, Zenon DEF TaskGoes
  <2> DEFINE t == [pc |-> pc, name |-> name, names |-> names, results |-> results]
  <2>2. t \in Tasks /\ t.pc = pc
    BY Zenon DEF Tasks
  <2>3. task'[c] = t /\ \A d \in Clients : d # c => task'[d] = task[d]
    BY <2>1, Zenon DEF TaskMoves
  <2>4. \A d \in Clients : task'[d] \in Tasks
    BY <1>2, <2>2, <2>3, Zenon
  <2>5. task' = [d \in Clients |-> task'[d]]
    BY <2>1, Zenon DEF TaskMoves
  <2> QED BY <2>2, <2>3, <2>4, <2>5, Zenon
<1>5. ASSUME NEW c \in Clients, Connect(c) \/ Unregister(c) \/ CleanupStep(c)
      PROVE  Shaped'
  <2>1. main' = main
    BY <1>5, OthersLeaveMain, Zenon
  <2>2. \E pc \in TaskPcs \ {"absent"} :
           /\ TaskGoes(c, pc)
           /\ clients' = IF pc = "running" THEN clients \cup {c} ELSE clients \ {c}
    <3>1. CASE Connect(c)
      BY <3>1, TaskLeads DEF TaskPcs
    <3>2. CASE Unregister(c)
      BY <3>2, TaskLeads DEF TaskPcs
    <3>3. CASE CleanupStep(c)
      <4>1. clients' = clients /\ c \notin clients
        BY <1>2, <3>3, TaskLeads, Zenon
      <4>2. PICK pc \in TaskPcs \ {"absent", "running"} : TaskGoes(c, pc)
        BY <3>3, TaskLeads, Zenon
      <4> QED BY <4>1, <4>2, Zenon
    <3> QED BY <1>5, <3>1, <3>2, <3>3, Zenon
  <2>3. PICK pc \in TaskPcs \ {"absent"} :
           /\ TaskGoes(c, pc)
           /\ clients' = IF pc = "running" THEN clients \cup {c} ELSE clients \ {c}
    BY <2>2, Zenon
  <2>4. /\ task' \in [Clients -> Tasks] /\ task'[c].pc = pc
        /\ \A d \in Clients : d # c => task'[d] = task[d]
    BY <1>4, <2>3, Zenon
  <2>5. pc # "absent"
    BY <2>3, Zenon
  <2>6. main'.pc # "idle" => task'[main'.client].pc # "absent"
    BY <1>2, <2>1, <2>4, <2>5, Zenon
  <2>7. clients' = {d \in Clients : task'[d].pc = "running"}
    BY <1>2, <2>3, <2>4, Zenon
  <2> QED BY <1>1, <2>4, <2>6, <2>7, Zenon DEF Shaped
<1> QED BY <1>3, <1>5, NextCases, Zenon

\* Of the steps of a task only remove_client touches the queues.
LEMMA TasksAndQueues ==
    ASSUME NEW c \in Clients, Connect(c) \/ Unregister(c) \/ CleanupStep(c)
    PROVE  queues' = queues \/ LeaveQueues(c)
BY Zenon DEF Connect, Unregister, CleanupStep, LeaveQueues, ReleaseOnBus, ForgetOwned, Finish,
   CheckOwned, Transfer, Forget

\* The queues stay proper.
LEMMA QueuesStayProper ==
    ASSUME ManagerLaws, QueuesProper, Shaped, [Next]_vars
    PROVE  QueuesProper'
<1>0. queues \in [Names -> NQ!QueueRecord \cup {None}] /\ \A n \in Names : NQ!Proper(queues[n])
  BY Zenon DEF QueuesProper, NQ!TypeOK
<1>1. \A q : NQ!Proper(q) => q \in NQ!QueueRecord \cup {None}
  BY Zenon DEF NQ!Proper, NQ!ProperQueue
<1>2. ASSUME NEW n \in Names, NEW q, NQ!Proper(q), queues' = [queues EXCEPT ![n] = q]
      PROVE  QueuesProper'
  BY <1>0, <1>1, <1>2, Zenon DEF QueuesProper, NQ!TypeOK
<1>3. CASE queues' = queues
  BY <1>0, <1>3, Zenon DEF QueuesProper, NQ!TypeOK
<1>4. \A q, c : NQ!Proper(q) /\ c \in Clients =>
          NQ!Proper(NQ!ReleaseName(q, c).queue) /\ NQ!Proper(NQ!WithoutClient(q, c))
  BY Laws, Zenon DEF NQ!ReleaseEffect
<1>5. CASE RequestQueue
  <2> DEFINE r == NQ!RequestName(queues[main.name], main.client, main.flags)
  <2>1. main.client \in Clients /\ main.name \in Names /\ main.flags \in SUBSET NQ!RequestFlags
    BY <1>5, MainFields, Zenon DEF RequestQueue, MainAt
  <2>2. NQ!Proper(r.queue)
    BY <1>0, <2>1, Laws, Zenon DEF NQ!RequestEffect
  <2>3. queues' = [queues EXCEPT ![main.name] = r.queue]
    BY <1>5, Zenon DEF RequestQueue
  <2> HIDE DEF r
  <2> QED BY <1>2, <2>1, <2>2, <2>3, Zenon
<1>6. ASSUME NEW n \in Names, NEW c \in Clients,
             queues' = [queues EXCEPT ![n] = NQ!ReleaseName(queues[n], c).queue]
      PROVE  QueuesProper'
  BY <1>0, <1>2, <1>4, <1>6, Zenon
<1>7. CASE RequestRevert
  <2>1. main.client \in Clients /\ main.name \in Names
    BY <1>7, MainFields, Zenon DEF RequestRevert, MainAt
  <2>2. queues' = [queues EXCEPT ![main.name] = NQ!ReleaseName(queues[main.name], main.client).queue]
    BY <1>7, Zenon DEF RequestRevert
  <2> QED BY <1>6, <2>1, <2>2, Zenon
<1>8. ASSUME NEW c \in Clients, NEW n \in Names, ReleaseQueue(c, n) PROVE QueuesProper'
  BY <1>6, <1>8, Zenon DEF ReleaseQueue
<1>9. ASSUME NEW c \in Clients, NEW n \in Names, NEW flags, RequestStart(c, n, flags)
      PROVE  queues' = queues
  BY <1>9, Zenon DEF RequestStart
<1>10. ASSUME NEW c \in Clients, LeaveQueues(c) PROVE QueuesProper'
  <2>1. queues' = [n \in Names |-> NQ!WithoutClient(queues[n], c)]
    BY <1>10, Zenon DEF LeaveQueues
  <2>2. \A n \in Names : NQ!Proper(NQ!WithoutClient(queues[n], c))
    BY <1>0, <1>4, Zenon
  <2> QED BY <1>1, <2>1, <2>2, Zenon DEF QueuesProper, NQ!TypeOK
<1>11. LoopStep => QueuesProper'
  BY <1>3, <1>5, <1>7, <1>8, <1>9, LoopCases, Zenon DEF LoopCase
<1> QED BY <1>3, <1>10, <1>11, TasksAndQueues, NextCases, Zenon

\* A step that changes the queues is request_name, release_name or remove_client.
LEMMA StepsAreOperations ==
    ASSUME Shaped, [Next]_vars
    PROVE  [NQ!Next]_queues
<1> SUFFICES ASSUME queues' # queues PROVE NQ!Next
  BY Zenon
<1>1. CASE RequestQueue
  <2>1. main.client \in Clients /\ main.name \in Names /\ main.flags \in SUBSET NQ!RequestFlags
    BY <1>1, MainFields, Zenon DEF RequestQueue, MainAt
  <2>2. NQ!Request(main.name, main.client, main.flags)
    BY <1>1, Zenon DEF RequestQueue, NQ!Request
  <2> QED BY <2>1, <2>2, Zenon DEF NQ!Next
<1>2. CASE RequestRevert
  <2>1. main.client \in Clients /\ main.name \in Names
    BY <1>2, MainFields, Zenon DEF RequestRevert, MainAt
  <2>2. NQ!Release(main.name, main.client)
    BY <1>2, Zenon DEF RequestRevert, NQ!Release
  <2> QED BY <2>1, <2>2, Zenon DEF NQ!Next
<1>3. ASSUME NEW c \in Clients, NEW n \in Names, ReleaseQueue(c, n) PROVE NQ!Next
  BY <1>3, Zenon DEF ReleaseQueue, NQ!Release, NQ!Next
<1>4. ASSUME NEW c \in Clients, NEW n \in Names, NEW flags, RequestStart(c, n, flags) PROVE FALSE
  BY <1>4, Zenon DEF RequestStart
<1>5. ASSUME NEW c \in Clients, LeaveQueues(c) PROVE NQ!Next
  BY <1>5, Zenon DEF LeaveQueues, NQ!RemoveClient, NQ!Next
<1>6. LoopStep => NQ!Next
  BY <1>1, <1>2, <1>3, <1>4, LoopCases, Zenon DEF LoopCase
<1> QED BY <1>5, <1>6, TasksAndQueues, NextCases, Zenon

-----------------------------------------------------------------------------
(* What a RequestName handler still knows while other tasks run.             *)

\* A reply code says what is so in the queue.
CodeTrue(q, c, code) ==
    /\ code \in {"PRIMARY_OWNER", "ALREADY_OWNER"} => NQ!OwnerOf(q) = c
    /\ code = "IN_QUEUE" => NQ!Member(q, c)
    /\ code = "EXISTS" => ~ NQ!Member(q, c)

Answering == main.pc \in RequestPcs \cup {"reply"} /\ main.call = "RequestName"

AnswerInv ==
    Answering /\ main.client \in clients
    => CodeTrue(queues[main.name], main.client, main.code)

\* Until the bus has answered, the line is the one before the call, with the
\* caller added and whoever has left since taken out.
LineInv ==
    main.pc \in RevertPcs
    => NQ!Follows(NQ!AllOwners(queues[main.name]), main.before, main.client)

\* What remove_client leaves of one queue.
LEMMA LeftQueue ==
    ASSUME ManagerLaws, QueuesProper, Shaped, NEW c \in Clients, LeaveQueues(c), NEW n \in Names
    PROVE  /\ queues'[n] = NQ!ReleaseName(queues[n], c).queue
           /\ NQ!ReleaseEffect(queues[n], c, NQ!ReleaseName(queues[n], c))
           /\ NQ!QueueFacts(queues[n]) /\ NQ!QueueFacts(queues'[n])
<1>1. queues'[n] = NQ!ReleaseName(queues[n], c).queue
  BY LeaveStep, Zenon DEF Leaves
<1>2. NQ!ReleaseEffect(queues[n], c, NQ!ReleaseName(queues[n], c)) /\ NQ!QueueFacts(queues[n])
  BY Laws, Zenon DEF QueuesProper
<1>3. NQ!QueueFacts(queues'[n])
  BY <1>1, <1>2, Laws, Zenon DEF NQ!ReleaseEffect
<1> QED BY <1>1, <1>2, <1>3, Zenon

\* What request_name makes of the queue of the call, and how the handler goes on.
LEMMA RequestedQueue ==
    ASSUME ManagerLaws, QueuesProper, Shaped, RequestQueue
    PROVE  /\ main.client \in Clients /\ main.name \in Names
           /\ main'.client = main.client /\ main'.name = main.name
           /\ main'.call = "RequestName" /\ main'.before = NQ!AllOwners(queues[main.name])
           /\ \A n \in Names : n # main.name => queues'[n] = queues[n]
           /\ \E r : /\ NQ!RequestEffect(queues[main.name], main.client, r)
                     /\ queues'[main.name] = r.queue /\ main'.code = r.reply_code
                     /\ main'.pc = IF r.forward_to_bus THEN "request_bus" ELSE "reply"
           /\ NQ!QueueFacts(queues[main.name]) /\ NQ!QueueFacts(queues'[main.name])
<1> DEFINE r == NQ!RequestName(queues[main.name], main.client, main.flags)
           s == NQ!AllOwners(queues[main.name])
<1>1. main.client \in Clients /\ main.name \in Names /\ main.flags \in SUBSET NQ!RequestFlags
  BY MainFields, Zenon DEF RequestQueue, MainAt
<1>2. NQ!QueueFacts(queues[main.name]) /\ NQ!RequestEffect(queues[main.name], main.client, r)
  BY <1>1, Laws, Zenon DEF QueuesProper
<1>3. DOMAIN queues = Names
  BY DEF QueuesProper, NQ!TypeOK
<1>4. /\ queues' = [queues EXCEPT ![main.name] = r.queue]
      /\ main' = [pc |-> IF r.forward_to_bus THEN "request_bus" ELSE "reply",
                  call |-> "RequestName", client |-> main.client,
                  name |-> main.name, flags |-> main.flags,
                  code |-> r.reply_code, before |-> s]
  BY Zenon DEF RequestQueue
<1> HIDE DEF r, s
<1>5. queues'[main.name] = r.queue /\ \A n \in Names : n # main.name => queues'[n] = queues[n]
  BY <1>1, <1>3, <1>4, Zenon
<1>6. NQ!QueueFacts(queues'[main.name])
  BY <1>2, <1>5, Laws, Zenon DEF NQ!RequestEffect
<1>7. /\ main'.client = main.client /\ main'.name = main.name
      /\ main'.call = "RequestName" /\ main'.before = s /\ main'.code = r.reply_code
      /\ main'.pc = IF r.forward_to_bus THEN "request_bus" ELSE "reply"
  BY <1>4, Zenon
<1> QED BY <1>1, <1>2, <1>5, <1>6, <1>7, Zenon DEF s

\* A reply code stays true of a queue that somebody else leaves.
LEMMA CodeStaysTrue ==
    ASSUME NEW q, NEW c, NEW d, c # d, NEW r, NQ!ReleaseEffect(q, d, r), NEW code,
           c # None, NQ!QueueFacts(q), CodeTrue(q, c, code)
    PROVE  CodeTrue(r.queue, c, code)
<1>1. NQ!Member(r.queue, c) <=> NQ!Member(q, c)
  BY Zenon DEF NQ!ReleaseEffect
<1>2. NQ!OwnerOf(q) = c => NQ!OwnerOf(r.queue) = c
  BY Zenon DEF NQ!ReleaseEffect
<1> QED BY <1>1, <1>2, Zenon DEF CodeTrue

\* The reply stays true.
LEMMA AnswerStays ==
    ASSUME ManagerLaws, QueuesProper, Shaped, AnswerInv, [Next]_vars
    PROVE  AnswerInv'
<1> SUFFICES ASSUME Answering', main'.client \in clients'
             PROVE  CodeTrue(queues'[main'.name], main'.client, main'.code)
  BY Zenon DEF AnswerInv
<1>0. main'.pc \in RequestPcs \cup {"reply"} /\ main'.call = "RequestName"
  BY Zenon DEF Answering
<1>1. main'.pc # "idle" /\ main'.pc # "request_queue"
  BY <1>0 DEF RequestPcs, RevertPcs
<1>2. clients = {d \in Clients : task[d].pc = "running"}
  BY Zenon DEF Shaped
<1>3. CASE LoopStep
  <2>1. clients' = clients
    BY <1>3, LoopLeavesTasks, Zenon
  <2>2. CASE main' = main /\ queues' = queues
    BY <2>1, <2>2 DEF AnswerInv, Answering
  <2>3. ASSUME main.pc \notin {"idle", "request_queue"}, queues' = queues, NEW pc, Moves(pc)
        PROVE  CodeTrue(queues'[main'.name], main'.client, main'.code)
    <3>1. /\ main'.client = main.client /\ main'.name = main.name /\ main.call = "RequestName"
          /\ main'.code = main.code
      BY <1>0, <2>3, Zenon DEF Moves
    <3>2. main.pc \notin ReleasePcs
      <4>1. main.call # "ReleaseName"
        BY <3>1
      <4> QED BY <4>1, MainFields, Zenon
    <3>3. Answering
      BY <2>3, <3>1, <3>2, MainFields, Zenon DEF Answering
    <3> QED BY <2>1, <2>3, <3>1, <3>3, Zenon DEF AnswerInv
  <2>4. CASE RequestQueue
    <3>1. PICK r : /\ NQ!RequestEffect(queues[main.name], main.client, r)
                   /\ queues'[main.name] = r.queue /\ main'.code = r.reply_code
      BY <2>4, RequestedQueue, Zenon
    <3>2. CodeTrue(r.queue, main.client, r.reply_code)
      BY <3>1, Zenon DEF NQ!RequestEffect, CodeTrue
    <3> QED BY <2>4, <3>1, <3>2, RequestedQueue, Zenon
  <2>5. main' # Idle
    BY <1>1 DEF Idle
  <2>6. ASSUME NEW c \in Clients, NEW n \in Names, ReleaseQueue(c, n) PROVE FALSE
    <3>1. main'.call = "ReleaseName"
      BY <2>6, Zenon DEF ReleaseQueue
    <3> QED BY <1>0, <3>1
  <2>7. ASSUME NEW c, NEW n, NEW flags, RequestStart(c, n, flags) PROVE FALSE
    <3>1. main'.pc = "request_queue"
      BY <2>5, <2>7, Zenon DEF RequestStart
    <3> QED BY <1>1, <3>1
  <2> QED BY <1>3, <2>2, <2>3, <2>4, <2>5, <2>6, <2>7, LoopCases, Zenon DEF LoopCase
<1>4. ASSUME NEW c \in Clients, Connect(c) \/ Unregister(c) \/ CleanupStep(c)
      PROVE  CodeTrue(queues'[main'.name], main'.client, main'.code)
  <2>1. main' = main
    BY <1>4, OthersLeaveMain, Zenon
  <2>2. /\ main.client \in Clients /\ main.name \in Names /\ task[main.client].pc # "absent"
        /\ Answering
    BY <1>0, <1>1, <2>1, MainFields, Zenon DEF Shaped, Answering
  <2>3. main.client \in clients
    <3>1. CASE Connect(c)
      BY <2>1, <2>2, <3>1, Zenon DEF Connect, TaskAt
    <3>2. CASE Unregister(c)
      BY <2>1, <3>2, Zenon DEF Unregister
    <3>3. CASE CleanupStep(c)
      BY <2>1, <3>3, TaskLeads, Zenon
    <3> QED BY <1>4, <3>1, <3>2, <3>3, Zenon
  <2>4. CodeTrue(queues[main.name], main.client, main.code)
    BY <2>2, <2>3, Zenon DEF AnswerInv
  <2>5. CASE queues' = queues
    BY <2>1, <2>4, <2>5
  <2>6. CASE LeaveQueues(c)
    <3>1. main.client # c /\ main.client # None
      BY <1>2, <2>2, <2>3, <2>6, ValuesAssumption DEF LeaveQueues, TaskAt, NQ!NoneAssumption
    <3> DEFINE r == NQ!ReleaseName(queues[main.name], c)
    <3>2. /\ queues'[main.name] = r.queue /\ NQ!ReleaseEffect(queues[main.name], c, r)
          /\ NQ!QueueFacts(queues[main.name])
      BY <2>2, <2>6, LeftQueue, Zenon
    <3> HIDE DEF r
    <3>3. CodeTrue(r.queue, main.client, main.code)
      BY <2>4, <3>1, <3>2, CodeStaysTrue, Zenon
    <3> QED BY <2>1, <3>2, <3>3, Zenon
  <2> QED BY <1>4, <2>5, <2>6, TasksAndQueues, Zenon
<1> QED BY <1>3, <1>4, NextCases, Zenon

\* AnswerInv is what ReplyStillTrue says at the reply.
LEMMA AnswerMeans ==
    ASSUME ManagerLaws, QueuesProper, Shaped, AnswerInv
    PROVE  ReplyStillTrue
<1> SUFFICES ASSUME main.pc = "reply", main.call = "RequestName", main.client \in clients
             PROVE  CASE main.code \in {"PRIMARY_OWNER", "ALREADY_OWNER"} -> Owns(main.name, main.client)
                      [] main.code = "IN_QUEUE" -> InLine(main.name, main.client)
                      [] main.code = "EXISTS" -> ~ InLine(main.name, main.client)
  BY Zenon DEF ReplyStillTrue
<1>1. /\ main.client \in Clients /\ main.name \in Names
      /\ main.code \in RequestCodes /\ main.client # None
  BY MainFields, ValuesAssumption DEF NQ!NoneAssumption
<1>2. NQ!QueueFacts(queues[main.name])
  BY <1>1, Laws, Zenon DEF QueuesProper
<1>3. CodeTrue(queues[main.name], main.client, main.code)
  BY Zenon DEF AnswerInv, Answering
<1>4. NQ!OwnerOf(queues[main.name]) = main.client => Owns(main.name, main.client)
  BY <1>1, <1>2, Zenon DEF NQ!QueueFacts, Owns
<1> DEFINE Owner == Owns(main.name, main.client)
           Line == InLine(main.name, main.client)
<1>5. /\ main.code \in {"PRIMARY_OWNER", "ALREADY_OWNER"} => Owner
      /\ main.code = "IN_QUEUE" => Line
      /\ main.code = "EXISTS" => ~ Line
  BY <1>3, <1>4, Zenon DEF CodeTrue, InLine
<1> HIDE DEF Owner, Line
<1>6. (CASE main.code \in {"PRIMARY_OWNER", "ALREADY_OWNER"} -> Owner
         [] main.code = "IN_QUEUE" -> Line
         [] main.code = "EXISTS" -> ~ Line)
  BY <1>1, <1>5, Zenon DEF RequestCodes
<1> QED BY <1>6, Zenon DEF Owner, Line

\* The line of a call that waits for the bus stays the line before it.
LEMMA LineStays ==
    ASSUME ManagerLaws, QueuesProper, Shaped, LineInv, [Next]_vars
    PROVE  LineInv'
<1> SUFFICES ASSUME main'.pc \in RevertPcs
             PROVE  NQ!Follows(NQ!AllOwners(queues'[main'.name]), main'.before, main'.client)
  BY Zenon DEF LineInv
<1>1. main'.pc \in {"request_bus", "request_revert"}
  BY Zenon DEF RevertPcs
<1>2. CASE LoopStep
  <2>1. CASE main' = main /\ queues' = queues
    BY <2>1 DEF LineInv
  <2>2. ASSUME main.pc \notin {"idle", "request_queue"}, queues' = queues,
               NEW pc \in {"request_revert", "request_record", "reply"} \cup ReleasePcs,
               Moves(pc), Leads(main.pc, pc)
        PROVE  NQ!Follows(NQ!AllOwners(queues'[main'.name]), main'.before, main'.client)
    <3>1. pc = "request_revert"
      BY <1>1, <2>2 DEF Moves, ReleasePcs
    <3>2. main.pc \in RevertPcs /\ main.call = "RequestName"
      BY <2>2, <3>1, MainFields, Zenon DEF RevertPcs, RequestPcs, Leads
    <3>3. main'.before = main.before /\ main'.client = main.client /\ main'.name = main.name
      BY <2>2, <3>2, Zenon DEF Moves
    <3> QED BY <2>2, <3>2, <3>3, Zenon DEF LineInv
  <2>3. CASE RequestQueue
    <3>1. PICK r : /\ NQ!RequestEffect(queues[main.name], main.client, r)
                   /\ queues'[main.name] = r.queue
                   /\ main'.pc = IF r.forward_to_bus THEN "request_bus" ELSE "reply"
      BY <2>3, RequestedQueue, Zenon
    <3>2. r.forward_to_bus
      BY <1>1, <3>1
    <3>3. NQ!Follows(NQ!AllOwners(r.queue), NQ!AllOwners(queues[main.name]), main.client)
      BY <3>1, <3>2, Zenon DEF NQ!RequestEffect
    <3> QED BY <2>3, <3>1, <3>3, RequestedQueue, Zenon
  <2>4. main' # Idle
    BY <1>1 DEF Idle
  <2>5. ASSUME NEW c \in Clients, NEW n \in Names, ReleaseQueue(c, n) PROVE FALSE
    <3>1. main'.pc \in {"release_promote", "release_look", "release_local"}
      BY <2>5, Zenon DEF ReleaseQueue
    <3> QED BY <1>1, <3>1
  <2>6. ASSUME NEW c, NEW n, NEW flags, RequestStart(c, n, flags) PROVE FALSE
    <3>1. main'.pc = "request_queue"
      BY <2>4, <2>6, Zenon DEF RequestStart
    <3> QED BY <1>1, <3>1
  <2> QED BY <1>2, <2>1, <2>2, <2>3, <2>4, <2>5, <2>6, LoopCases, Zenon DEF LoopCase
<1>3. ASSUME NEW c \in Clients, Connect(c) \/ Unregister(c) \/ CleanupStep(c)
      PROVE  NQ!Follows(NQ!AllOwners(queues'[main'.name]), main'.before, main'.client)
  <2>1. main' = main
    BY <1>3, OthersLeaveMain, Zenon
  <2>2. main.pc \in RevertPcs /\ NQ!Follows(NQ!AllOwners(queues[main.name]), main.before, main.client)
    BY <2>1, Zenon DEF LineInv
  <2>3. main.name \in Names
    BY <1>1, <2>1, MainFields
  <2>4. CASE queues' = queues
    BY <2>1, <2>2, <2>4
  <2>5. CASE LeaveQueues(c)
    <3> DEFINE r == NQ!ReleaseName(queues[main.name], c)
    <3>1. queues'[main.name] = r.queue /\ NQ!ReleaseEffect(queues[main.name], c, r)
      BY <2>3, <2>5, LeftQueue, Zenon
    <3> HIDE DEF r
    <3>2. NQ!Follows(NQ!AllOwners(r.queue), main.before, main.client)
      BY <2>2, <3>1, Zenon DEF NQ!ReleaseEffect
    <3> QED BY <2>1, <3>1, <3>2, Zenon
  <2> QED BY <1>3, <2>4, <2>5, TasksAndQueues, Zenon
<1> QED BY <1>2, <1>3, NextCases, Zenon

\* A step that ends a refused RequestName is the one that reverts the queue.
LEMMA RefusalEnds ==
    ASSUME Shaped, [Next]_vars, main.pc = "request_revert", main' = Idle
    PROVE  RequestRevert
<1>1. main # Idle /\ main' # main
  BY SMTT(40) DEF Idle
<1>2. CASE LoopStep
  <2>1. MainStep
    BY <1>1, <1>2, OthersLeaveMain, Zenon DEF LoopStep, ReleaseQueue, RequestStart, Take
  <2> QED BY <1>1, <2>1 DEF MainStep, RequestQueue, RequestBus, RequestRecord, ReleasePromote,
             ReleaseLook, ReleaseBus, ReleaseRoute, ReleaseLocal, Reply, HandleNameOwnerChanged, MainAt
<1> QED BY <1>1, <1>2, NextCases, OthersLeaveMain, Zenon

\* That step leaves the line that was there before the call.
LEMMA RefusalRestores ==
    ASSUME ManagerLaws, QueuesProper, Shaped, LineInv, [Next]_vars,
           main.pc = "request_revert", main' = Idle
    PROVE  Restores(NQ!AllOwners(queues'[main.name]), main.before,
                    {c \in Clients : InLine(main.name, c)})
<1> DEFINE q == queues[main.name]
           c == main.client
           r == NQ!ReleaseName(q, c)
           now == NQ!AllOwners(r.queue)
           before == main.before
<1>1. c \in Clients /\ main.name \in Names
  BY MainFields
<1>2. queues'[main.name] = r.queue
  <2>1. DOMAIN queues = Names
    BY DEF QueuesProper, NQ!TypeOK
  <2> QED BY <1>1, <2>1, RefusalEnds, Zenon DEF RequestRevert
<1>3. NQ!ReleaseEffect(q, c, r)
  BY <1>1, Laws, Zenon DEF QueuesProper
<1>4. NQ!QueueFacts(r.queue)
  BY <1>3, Laws, Zenon DEF NQ!ReleaseEffect
<1>5. NQ!Follows(NQ!AllOwners(q), before, c)
  BY DEF LineInv, RevertPcs
<1> HIDE DEF q, c, r, before
<1>6. NQ!Follows(now, before, c)
  BY <1>3, <1>5, Zenon DEF NQ!ReleaseEffect
<1>7. \A d : NQ!In(now, d) <=> NQ!Member(r.queue, d)
  BY <1>4, Zenon DEF NQ!QueueFacts
<1>8. \A d : NQ!Member(r.queue, d) <=> NQ!Member(q, d) /\ d # c
  BY <1>3, Zenon DEF NQ!ReleaseEffect
<1> HIDE DEF now
<1>9. \A d : NQ!In(now, d) => d = c \/ NQ!In(before, d)
  BY <1>6, Zenon DEF NQ!Follows, NQ!In
<1>10. ~ NQ!In(before, c) /\ NQ!SameOrder(now, before)
  BY <1>6, Zenon DEF NQ!Follows
<1>11. \A d : NQ!In(now, d) <=> NQ!Member(q, d) /\ NQ!In(before, d)
  BY <1>7, <1>8, <1>9, <1>10, Zenon
<1>12. {d \in Clients : NQ!In(now, d)} = {d \in {e \in Clients : NQ!Member(q, e)} : NQ!In(before, d)}
  BY <1>11, Zenon
<1>13. Restores(now, before, {d \in Clients : NQ!Member(q, d)})
  BY <1>10, <1>12, Zenon DEF Restores
<1> QED BY <1>2, <1>13, Zenon DEF now, q, before, InLine

-----------------------------------------------------------------------------
(* When calls and disconnects arrive at rest: one activity at a time.        *)

Busy(c) == task[c].pc \notin {"absent", "running", "done"}

OneAtATime ==
    /\ main # Idle => \A c \in Clients : ~ Busy(c)
    /\ \A c, d \in Clients : Busy(c) /\ Busy(d) => c = d

\* Nobody stands in a line but connected clients and the one about to be taken out.
LinesInv ==
    /\ \A n \in Names, c \in Clients :
          NQ!Member(queues[n], c) => c \in clients \/ task[c].pc = "queue"
    /\ main.pc \in RequestPcs \cup {"request_queue"} => main.client \in clients

\* What a task at work does.
LEMMA CleanupAt ==
    ASSUME NEW c \in Clients, CleanupStep(c)
    PROVE  /\ Busy(c)
           /\ LeaveQueues(c) \/ (queues' = queues /\ task[c].pc \in {"results", "release", "forget"})
<1>1. LeaveQueues(c) => Busy(c)
  BY DEF LeaveQueues, TaskAt, Busy
<1>2. ASSUME ~ LeaveQueues(c)
      PROVE  queues' = queues /\ task[c].pc \in {"results", "release", "forget"}
  BY <1>2, Zenon DEF CleanupStep, ReleaseOnBus, ForgetOwned, Finish, CheckOwned, Transfer,
     Forget, TaskAt
<1>3. task[c].pc \in {"results", "release", "forget"} => Busy(c)
  BY DEF Busy
<1> QED BY <1>1, <1>2, <1>3, Zenon

\* A handler starts at rest.
LEMMA StartsAtRest ==
    ASSUME Sequential, Shaped, LoopStep, main = Idle
    PROVE  \/ AtRest
           \/ main' = Idle /\ queues' = queues
<1>1. main.pc = "idle"
  BY DEF Idle
<1>2. ~ RequestQueue /\ ~ RequestRevert
  BY <1>1 DEF RequestQueue, RequestRevert, MainAt
<1> QED BY <1>1, <1>2, LoopCases, Zenon DEF LoopCase, ReleaseQueue, RequestStart, Take

\* At rest nobody is busy.
LEMMA RestIsIdle == AtRest => \A c \in Clients : ~ Busy(c)
BY Zenon DEF AtRest, Busy

\* A step of a task leaves the other tasks where they are, and makes its own busy
\* only when it was or when everything is at rest.
LEMMA TaskAlone ==
    ASSUME Sequential, ManagerLaws, QueuesProper, Shaped, NEW c \in Clients,
           Connect(c) \/ Unregister(c) \/ CleanupStep(c)
    PROVE  /\ \A d \in Clients : d # c => task'[d] = task[d]
           /\ \/ Connect(c) /\ ~ Busy(c)' /\ task[c].pc = "absent"
              \/ Unregister(c) /\ AtRest
              \/ CleanupStep(c) /\ Busy(c)
<1>1. \A pc : TaskGoes(c, pc) => task'[c].pc = pc /\ \A d \in Clients : d # c => task'[d] = task[d]
  BY TaskGone, Zenon
<1>2. CASE Connect(c)
  <2>1. task'[c].pc = "running" /\ \A d \in Clients : d # c => task'[d] = task[d]
    BY <1>1, <1>2, TaskLeads, Zenon
  <2> QED BY <1>2, <2>1, Zenon DEF Busy, Connect, TaskAt
<1>3. CASE Unregister(c)
  BY <1>1, <1>3, TaskLeads, Zenon DEF Unregister
<1>4. CASE CleanupStep(c)
  <2>1. PICK pc : TaskGoes(c, pc)
    BY <1>4, TaskLeads, Zenon
  <2> QED BY <1>1, <1>4, <2>1, CleanupAt, Zenon
<1> QED BY <1>2, <1>3, <1>4, Zenon

\* One activity at a time stays so.
LEMMA OneAtATimeStays ==
    ASSUME Sequential, ManagerLaws, QueuesProper, Shaped, OneAtATime, [Next]_vars
    PROVE  OneAtATime'
<1>1. CASE LoopStep
  <2>1. task' = task
    BY <1>1, LoopLeavesTasks, Zenon
  <2>2. \A c \in Clients : Busy(c)' <=> Busy(c)
    BY <2>1 DEF Busy
  <2>3. main' # Idle => \A c \in Clients : ~ Busy(c)
    BY <1>1, StartsAtRest, RestIsIdle, Zenon DEF OneAtATime
  <2> QED BY <2>2, <2>3, Zenon DEF OneAtATime
<1>2. ASSUME NEW c \in Clients, Connect(c) \/ Unregister(c) \/ CleanupStep(c)
      PROVE  OneAtATime'
  <2>1. main' = main
    BY <1>2, OthersLeaveMain, Zenon
  <2>2. \A d \in Clients : d # c => (Busy(d)' <=> Busy(d))
    BY <1>2, TaskAlone, Zenon DEF Busy
  <2>3. CASE ~ Busy(c)'
    BY <2>1, <2>2, <2>3, Zenon DEF OneAtATime
  <2>4. CASE AtRest
    BY <2>1, <2>2, <2>4, RestIsIdle, Zenon DEF OneAtATime, AtRest
  <2>5. CASE Busy(c)
    BY <2>1, <2>2, <2>5, Zenon DEF OneAtATime
  <2> QED BY <1>2, <2>3, <2>4, <2>5, TaskAlone, Zenon
<1> QED BY <1>1, <1>2, NextCases, Zenon

\* What release_name does to the queues, as ReleaseQueue and RequestRevert call it.
Released(n, c, r) ==
    /\ NQ!ReleaseEffect(queues[n], c, r) /\ queues'[n] = r.queue
    /\ \A m \in Names : m # n => queues'[m] = queues[m]
    /\ NQ!QueueFacts(queues[n]) /\ NQ!QueueFacts(queues'[n])

\* The revert releases the name of the call.
LEMMA RevertReleases ==
    ASSUME ManagerLaws, QueuesProper, Shaped, RequestRevert
    PROVE  /\ main.client \in Clients /\ main.name \in Names
           /\ Released(main.name, main.client, NQ!ReleaseName(queues[main.name], main.client))
<1> DEFINE r == NQ!ReleaseName(queues[main.name], main.client)
<1>1. main.client \in Clients /\ main.name \in Names
  BY MainFields, Zenon DEF RequestRevert, MainAt
<1>2. NQ!ReleaseEffect(queues[main.name], main.client, r) /\ NQ!QueueFacts(queues[main.name])
  BY <1>1, Laws, Zenon DEF QueuesProper
<1>3. DOMAIN queues = Names
  BY DEF QueuesProper, NQ!TypeOK
<1>4. queues' = [queues EXCEPT ![main.name] = r.queue]
  BY Zenon DEF RequestRevert
<1> HIDE DEF r
<1>5. queues'[main.name] = r.queue /\ \A m \in Names : m # main.name => queues'[m] = queues[m]
  BY <1>1, <1>3, <1>4, Zenon
<1>6. NQ!QueueFacts(queues'[main.name])
  BY <1>2, <1>5, Laws, Zenon DEF NQ!ReleaseEffect
<1> QED BY <1>1, <1>2, <1>5, <1>6, Zenon DEF Released, r

\* So does ReleaseQueue, which goes on by what it was told.
LEMMA ReleaseReleases ==
    ASSUME ManagerLaws, QueuesProper, Shaped, NEW c \in Clients, NEW n \in Names, ReleaseQueue(c, n)
    PROVE  /\ main = Idle /\ main'.client = c /\ main'.name = n /\ main'.call = "ReleaseName"
           /\ \E r : /\ Released(n, c, r) /\ main'.new_owner = r.new_owner
                     /\ r.new_owner \in Clients \cup {None}
                     /\ main'.pc = IF r.new_owner # None THEN "release_promote"
                                   ELSE IF r.forward_to_bus THEN "release_look"
                                   ELSE "release_local"
<1> DEFINE r == NQ!ReleaseName(queues[n], c)
<1>1. NQ!ReleaseEffect(queues[n], c, r) /\ NQ!QueueFacts(queues[n]) /\ r.new_owner \in Clients \cup {None}
  BY Laws, NewOwnerIs, Zenon DEF QueuesProper
<1>2. DOMAIN queues = Names
  BY DEF QueuesProper, NQ!TypeOK
<1>3. /\ queues' = [queues EXCEPT ![n] = r.queue] /\ main = Idle
      /\ main' = [pc |-> IF r.new_owner # None THEN "release_promote"
                         ELSE IF r.forward_to_bus THEN "release_look"
                         ELSE "release_local",
                  call |-> "ReleaseName", client |-> c, name |-> n,
                  code |-> r.reply_code, new_owner |-> r.new_owner]
  BY Zenon DEF ReleaseQueue, Take
<1> HIDE DEF r
<1>4. queues'[n] = r.queue /\ \A m \in Names : m # n => queues'[m] = queues[m]
  BY <1>2, <1>3, Zenon
<1>5. NQ!QueueFacts(queues'[n])
  BY <1>1, <1>4, Laws, Zenon DEF NQ!ReleaseEffect
<1>6. Released(n, c, r)
  BY <1>1, <1>4, <1>5, Zenon DEF Released
<1> QED BY <1>1, <1>3, <1>6, Zenon

\* A release brings nobody into a line.
LEMMA ReleaseBringsNobody ==
    ASSUME NEW n \in Names, NEW c, NEW r, Released(n, c, r), NEW m \in Names, NEW d
    PROVE  NQ!Member(queues'[m], d) => NQ!Member(queues[m], d)
BY Zenon DEF Released, NQ!ReleaseEffect

\* Lines stay with the connected.
LEMMA LinesStay ==
    ASSUME Sequential, ManagerLaws, QueuesProper, Shaped, LinesInv, [Next]_vars
    PROVE  LinesInv'
<1> DEFINE P == \A n \in Names, c \in Clients :
                   NQ!Member(queues[n], c) => c \in clients \/ task[c].pc = "queue"
           R == main.pc \in RequestPcs \cup {"request_queue"} => main.client \in clients
<1>0. P /\ R
  BY Zenon DEF LinesInv
<1>1. CASE LoopStep
  <2>1. task' = task /\ clients' = clients
    BY <1>1, LoopLeavesTasks, Zenon
  <2>2. ASSUME NEW n \in Names, NEW c \in Clients, NQ!Member(queues'[n], c)
        PROVE  NQ!Member(queues[n], c) \/ c \in clients
    <3>1. CASE queues' = queues
      BY <2>2, <3>1
    <3>2. CASE RequestQueue
      <4>1. main.client \in clients
        BY <1>0, <3>2, Zenon DEF RequestQueue, MainAt
      <4>2. CASE n # main.name
        BY <2>2, <3>2, <4>2, RequestedQueue, Zenon
      <4>3. CASE n = main.name
        <5>1. PICK r : /\ NQ!RequestEffect(queues[main.name], main.client, r)
                       /\ queues'[main.name] = r.queue
          BY <3>2, RequestedQueue, Zenon
        <5>2. \A d : d # main.client => (NQ!Member(r.queue, d) <=> NQ!Member(queues[main.name], d))
          BY <5>1, Zenon DEF NQ!RequestEffect
        <5> QED BY <2>2, <4>1, <4>3, <5>1, <5>2, Zenon
      <4> QED BY <4>2, <4>3, Zenon
    <3>3. CASE RequestRevert
      BY <2>2, <3>3, RevertReleases, ReleaseBringsNobody, Zenon
    <3>4. ASSUME NEW d \in Clients, NEW m \in Names, ReleaseQueue(d, m)
          PROVE  NQ!Member(queues[n], c)
      BY <2>2, <3>4, ReleaseReleases, ReleaseBringsNobody, Zenon
    <3>5. ASSUME NEW d, NEW m, NEW flags, RequestStart(d, m, flags) PROVE queues' = queues
      BY <3>5, Zenon DEF RequestStart
    <3> QED BY <1>1, <3>1, <3>2, <3>3, <3>4, <3>5, LoopCases, Zenon DEF LoopCase
  <2>3. P'
    BY <1>0, <2>1, <2>2, Zenon
  <2>4. ASSUME main'.pc \in RequestPcs \cup {"request_queue"} PROVE main'.client \in clients
    <3>0. /\ main'.pc \in {"request_bus", "request_revert", "request_record", "request_queue"}
          /\ main' # Idle
      BY <2>4 DEF RequestPcs, RevertPcs, Idle
    <3>1. CASE main' = main
      BY <1>0, <2>4, <3>1
    <3>2. ASSUME NEW pc \in {"request_revert", "request_record", "reply"} \cup ReleasePcs,
                 Moves(pc), Leads(main.pc, pc)
          PROVE  main'.client \in clients
      <4>1. pc \in {"request_revert", "request_record"}
        BY <3>0, <3>2 DEF Moves, ReleasePcs
      <4>2. main.pc = "request_bus"
        BY <3>2, <4>1, Zenon DEF Leads
      <4> QED BY <1>0, <3>2, <4>2, Zenon DEF Moves, RequestPcs, RevertPcs
    <3>3. CASE RequestQueue
      BY <1>0, <3>3, RequestedQueue, Zenon DEF RequestQueue, MainAt
    <3>4. ASSUME NEW d \in Clients, NEW m \in Names, ReleaseQueue(d, m) PROVE FALSE
      <4>1. main'.pc \in {"release_promote", "release_look", "release_local"}
        BY <3>4, Zenon DEF ReleaseQueue
      <4> QED BY <3>0, <4>1
    <3>5. ASSUME NEW d, NEW m, NEW flags, RequestStart(d, m, flags) PROVE main'.client \in clients
      BY <3>0, <3>5, Zenon DEF RequestStart
    <3> QED BY <1>1, <3>0, <3>1, <3>2, <3>3, <3>4, <3>5, LoopCases, Zenon DEF LoopCase
  <2> QED BY <2>1, <2>3, <2>4, Zenon DEF LinesInv
<1>2. ASSUME NEW c \in Clients, Connect(c) \/ Unregister(c) \/ CleanupStep(c)
      PROVE  LinesInv'
  <2>1. main' = main /\ \A d \in Clients : d # c => task'[d] = task[d]
    BY <1>2, OthersLeaveMain, TaskAlone, Zenon
  <2>2. CASE Connect(c)
    <3>1. queues' = queues /\ clients' = clients \cup {c}
      BY <2>2, Zenon DEF Connect
    <3> QED BY <1>0, <2>1, <3>1, Zenon DEF LinesInv
  <2>3. CASE Unregister(c)
    <3>1. queues' = queues /\ clients' = clients \ {c} /\ AtRest
      BY <2>3, Zenon DEF Unregister
    <3>2. task'[c].pc = "queue"
      BY <2>3, TaskLeads, TaskGone, Zenon
    <3>3. main'.pc \notin RequestPcs \cup {"request_queue"}
      BY <2>1, <3>1 DEF AtRest, Idle, RequestPcs, RevertPcs
    <3> QED BY <1>0, <2>1, <3>1, <3>2, <3>3, Zenon DEF LinesInv
  <2>4. CASE CleanupStep(c)
    <3>1. clients' = clients /\ c \notin clients
      BY <2>4, TaskLeads, Zenon DEF Shaped
    <3>2. CASE LeaveQueues(c)
      <4>1. \A n \in Names, d \in Clients :
               NQ!Member(queues'[n], d) => d # c /\ NQ!Member(queues[n], d)
        BY <3>2, LeftQueue, Zenon DEF NQ!ReleaseEffect
      <4> QED BY <1>0, <2>1, <3>1, <4>1, Zenon DEF LinesInv
    <3>3. CASE queues' = queues /\ task[c].pc \in {"results", "release", "forget"}
      <4>1. task[c].pc # "queue"
        BY <3>3
      <4> QED BY <1>0, <2>1, <3>1, <3>3, <4>1, Zenon DEF LinesInv
    <3> QED BY <2>4, <3>2, <3>3, CleanupAt, Zenon
  <2> QED BY <1>2, <2>2, <2>3, <2>4, Zenon
<1> QED BY <1>1, <1>2, NextCases, Zenon

\* At rest that is OnlyConnectedInLine.
LEMMA LinesMean ==
    ASSUME LinesInv
    PROVE  OnlyConnectedInLine
<1> SUFFICES ASSUME AtRest, NEW n \in Names, NEW c \in Clients, InLine(n, c) PROVE c \in clients
  BY Zenon DEF OnlyConnectedInLine
<1>1. task[c].pc # "queue"
  BY DEF AtRest
<1> QED BY <1>1, Zenon DEF LinesInv, InLine

\* What a handler under way knows of the queue it has changed.
MainKnows ==
    /\ main.pc \in RequestPcs => NQ!OwnerOf(queues[main.name]) = main.client
    /\ main.pc \in ReleasePcs => ~ NQ!Member(queues[main.name], main.client)
    /\ main.pc = "release_promote" => /\ main.new_owner \in Clients
                                      /\ NQ!OwnerOf(queues[main.name]) = main.new_owner
    /\ main.pc \in EmptyPcs => queues[main.name] = None

\* What a clean-up at t knows of the queues qs.
Knows(t, qs) ==
    /\ t.pc \notin {"results", "release"} => t.results = {}
    /\ \A r \in t.results : NQ!OwnerOf(qs[r.name]) = r.new_owner
    /\ t.pc \in {"release", "forget"} => t.name \in Names /\ qs[t.name] = None

TasksKnow == \A c \in Clients : Knows(task[c], queues)

\* What is not busy knows nothing.
LEMMA IdleKnows ==
    ASSUME NEW c \in Clients, ~ Busy(c), Knows(task[c], queues), NEW qs
    PROVE  Knows(task[c], qs)
<1>1. task[c].pc \notin {"results", "release"} /\ task[c].pc \notin {"release", "forget"}
  BY DEF Busy
<1> QED BY <1>1, Zenon DEF Knows

\* A handler knows its queue at each of its awaits.
LEMMA MainKnowsStays ==
    ASSUME Sequential, ManagerLaws, QueuesProper, Shaped, OneAtATime, MainKnows, [Next]_vars
    PROVE  MainKnows'
<1>0. /\ "idle" \notin RequestPcs \cup ReleasePcs \cup EmptyPcs \cup {"release_promote"}
      /\ "request_queue" \notin RequestPcs \cup ReleasePcs \cup EmptyPcs \cup {"release_promote"}
      /\ RequestPcs = {"request_bus", "request_revert", "request_record"}
      /\ "reply" \notin RequestPcs \cup ReleasePcs \cup EmptyPcs \cup {"release_promote"}
  BY DEF RequestPcs, RevertPcs, ReleasePcs, EmptyPcs
<1>1. CASE main' = main /\ queues' = queues
  BY <1>1 DEF MainKnows
<1>2. CASE main'.pc \in {"idle", "request_queue", "reply"}
  BY <1>0, <1>2, Zenon DEF MainKnows
<1>3. ASSUME queues' = queues, NEW pc \in {"request_revert", "request_record", "reply"} \cup ReleasePcs,
             Moves(pc), Leads(main.pc, pc), main.pc \notin {"idle", "request_queue"}
      PROVE  MainKnows'
  <2>1. main'.pc = pc /\ main'.client = main.client /\ main'.name = main.name
    BY <1>3, Zenon DEF Moves
  <2>2. pc \in RequestPcs => main.pc \in RequestPcs
    <3>1. pc \in RequestPcs => pc \in {"request_revert", "request_record"}
      BY <1>3 DEF RequestPcs, RevertPcs, ReleasePcs
    <3> QED BY <1>0, <1>3, <3>1, Zenon DEF Leads
  <2>3. /\ pc \in ReleasePcs => main.pc \in ReleasePcs
        /\ pc \in EmptyPcs => main.pc \in EmptyPcs
        /\ pc # "release_promote"
    BY <1>3, Zenon DEF Leads
  <2> QED BY <1>3, <2>1, <2>2, <2>3, Zenon DEF MainKnows
<1>4. CASE RequestQueue
  <2>1. PICK r : /\ NQ!RequestEffect(queues[main.name], main.client, r)
                 /\ queues'[main.name] = r.queue
                 /\ main'.pc = IF r.forward_to_bus THEN "request_bus" ELSE "reply"
    BY <1>4, RequestedQueue, Zenon
  <2>2. main'.client = main.client /\ main'.name = main.name
    BY <1>4, RequestedQueue, Zenon
  <2>3. CASE main'.pc = "reply"
    BY <1>2, <2>3, Zenon
  <2>4. CASE main'.pc = "request_bus"
    <3>1. r.forward_to_bus
      BY <2>1, <2>4
    <3>2. NQ!OwnerOf(r.queue) = main.client
      BY <2>1, <3>1, Zenon DEF NQ!RequestEffect
    <3>3. main'.pc \notin ReleasePcs /\ main'.pc # "release_promote" /\ main'.pc \notin EmptyPcs
      BY <2>4 DEF ReleasePcs, EmptyPcs
    <3> QED BY <2>1, <2>2, <3>2, <3>3, Zenon DEF MainKnows
  <2> QED BY <2>1, <2>3, <2>4, Zenon
<1>5. ASSUME NEW c \in Clients, NEW n \in Names, ReleaseQueue(c, n) PROVE MainKnows'
  <2>1. main'.client = c /\ main'.name = n
    BY <1>5, ReleaseReleases, Zenon
  <2>2. PICK r : /\ Released(n, c, r) /\ main'.new_owner = r.new_owner
                 /\ r.new_owner \in Clients \cup {None}
                 /\ main'.pc = IF r.new_owner # None THEN "release_promote"
                               ELSE IF r.forward_to_bus THEN "release_look"
                               ELSE "release_local"
    BY <1>5, ReleaseReleases, Zenon
  <2>3. queues'[n] = r.queue /\ ~ NQ!Member(r.queue, c)
    BY <2>2, Zenon DEF Released, NQ!ReleaseEffect
  <2>4. main'.pc \notin RequestPcs
    BY <2>2 DEF RequestPcs, RevertPcs
  <2>5. main'.pc = "release_promote" => r.new_owner \in Clients /\ NQ!OwnerOf(r.queue) = r.new_owner
    <3> SUFFICES ASSUME main'.pc = "release_promote"
                 PROVE  r.new_owner \in Clients /\ NQ!OwnerOf(r.queue) = r.new_owner
      BY Zenon
    <3>1. r.new_owner # None
      BY <2>2
    <3> QED BY <2>2, <3>1, Zenon DEF Released, NQ!ReleaseEffect
  <2>6. main'.pc \in EmptyPcs => r.queue = None
    <3> SUFFICES ASSUME main'.pc \in EmptyPcs PROVE r.queue = None
      BY Zenon
    <3>1. r.forward_to_bus
      BY <2>2 DEF EmptyPcs
    <3> QED BY <2>2, <3>1, Zenon DEF Released, NQ!ReleaseEffect
  <2> QED BY <2>1, <2>2, <2>3, <2>4, <2>5, <2>6, Zenon DEF MainKnows
<1>6. ASSUME NEW c, NEW n, NEW flags, RequestStart(c, n, flags)
      PROVE  main'.pc \in {"idle", "request_queue"}
  BY <1>6, Zenon DEF RequestStart, Idle
<1>7. main' = Idle => main'.pc = "idle"
  BY DEF Idle
<1>8. LoopStep => MainKnows'
  BY <1>1, <1>2, <1>3, <1>4, <1>5, <1>6, <1>7, LoopCases, Zenon DEF LoopCase
<1>9. ASSUME NEW c \in Clients, Connect(c) \/ Unregister(c) \/ CleanupStep(c)
      PROVE  MainKnows'
  <2>1. main' = main
    BY <1>9, OthersLeaveMain, Zenon
  <2>2. CASE LeaveQueues(c)
    <3>1. Busy(c)
      BY <2>2 DEF LeaveQueues, TaskAt, Busy
    <3>2. main' = Idle
      BY <2>1, <3>1, Zenon DEF OneAtATime
    <3> QED BY <1>2, <1>7, <3>2, Zenon
  <2> QED BY <1>1, <1>9, <2>1, <2>2, TasksAndQueues, Zenon
<1> QED BY <1>8, <1>9, NextCases, Zenon

\* Whoever changes the queues in the event loop does so while no clean-up runs.
LEMMA QuietQueues ==
    ASSUME Sequential, Shaped, OneAtATime, LoopStep, queues' # queues
    PROVE  \A c \in Clients : ~ Busy(c)
<1>1. CASE main # Idle
  BY <1>1, Zenon DEF OneAtATime
<1> QED BY <1>1, StartsAtRest, RestIsIdle, Zenon

\* A task that moves on knows what it needs to know there.
LEMMA MoveKnows ==
    ASSUME NEW c \in Clients, NEW pc, NEW name, NEW names, NEW results,
           TaskMoves(c, pc, name, names, results), queues' = queues, TasksKnow,
           pc \notin {"results", "release"} => results = {},
           \A r \in results : NQ!OwnerOf(queues[r.name]) = r.new_owner,
           pc \in {"release", "forget"} => name \in Names /\ queues[name] = None
    PROVE  TasksKnow'
<1> DEFINE t == [pc |-> pc, name |-> name, names |-> names, results |-> results]
<1>1. t.pc = pc /\ t.name = name /\ t.results = results
  OBVIOUS
<1>2. task'[c] = t /\ \A d \in Clients : d # c => task'[d] = task[d]
  BY Zenon DEF TaskMoves
<1> HIDE DEF t
<1>3. Knows(t, queues)
  BY <1>1, Zenon DEF Knows
<1> QED BY <1>2, <1>3, Zenon DEF TasksKnow

\* A clean-up knows its queues at each of its awaits.
LEMMA TasksKnowStays ==
    ASSUME Sequential, ManagerLaws, QueuesProper, Shaped, OneAtATime, TasksKnow, [Next]_vars
    PROVE  TasksKnow'
<1>1. CASE LoopStep
  <2>1. task' = task
    BY <1>1, LoopLeavesTasks, Zenon
  <2>2. CASE queues' = queues
    BY <2>1, <2>2 DEF TasksKnow
  <2>3. CASE queues' # queues
    BY <1>1, <2>1, <2>3, QuietQueues, IdleKnows, Zenon DEF TasksKnow
  <2> QED BY <2>2, <2>3, Zenon
<1>2. ASSUME NEW c \in Clients, Connect(c) \/ Unregister(c) \/ CleanupStep(c)
      PROVE  TasksKnow'
  <2> DEFINE t == task[c]
  <2>0. Knows(t, queues)
    BY Zenon DEF TasksKnow
  <2>1. /\ t.pc \notin {"results", "release"} => t.results = {}
        /\ \A r \in t.results : NQ!OwnerOf(queues[r.name]) = r.new_owner
        /\ t.pc \in {"release", "forget"} => t.name \in Names /\ queues[t.name] = None
    BY <2>0, Zenon DEF Knows
  <2>2. /\ "running" \notin {"results", "release", "forget"} /\ "queue" \notin {"results", "release", "forget"}
        /\ "results" \notin {"release", "forget"} /\ "done" \notin {"results", "release", "forget"}
        /\ "absent" \notin {"results", "release"} /\ "forget" \notin {"results", "release"}
    OBVIOUS
  <2>3. CASE Connect(c)
    <3>1. t.pc = "absent" /\ queues' = queues
      BY <2>3, Zenon DEF Connect, TaskAt
    <3>2. t.results = {}
      BY <2>1, <2>2, <3>1, Zenon
    <3>3. TaskMoves(c, "running", t.name, t.names, t.results)
      BY <2>3, TaskSteps, Zenon
    <3> QED BY <2>1, <2>2, <3>1, <3>2, <3>3, MoveKnows, Zenon
  <2>4. CASE Unregister(c)
    <3>1. t.pc = "running" /\ queues' = queues
      BY <2>4, Zenon DEF Unregister, TaskAt
    <3>2. t.results = {}
      BY <2>1, <2>2, <3>1, Zenon
    <3>3. TaskMoves(c, "queue", t.name, owned[c], t.results)
      BY <2>4, TaskSteps, Zenon
    <3> QED BY <2>1, <2>2, <3>1, <3>2, <3>3, MoveKnows, Zenon
  <2>5. CASE LeaveQueues(c)
    <3>1. PICK results \in SUBSET Results : Leaves(c, results)
      BY <2>5, LeaveStep, Zenon
    <3> DEFINE u == [pc |-> "results", name |-> t.name, names |-> t.names, results |-> results]
    <3>2. u.pc = "results" /\ u.results = results
      OBVIOUS
    <3>3. task'[c] = u /\ \A d \in Clients : d # c => task'[d] = task[d]
      BY <3>1, Zenon DEF Leaves, TaskMoves
    <3> HIDE DEF u
    <3>4. Knows(u, queues')
      BY <2>2, <3>1, <3>2, Zenon DEF Knows, Leaves
    <3>5. \A d \in Clients : d # c => ~ Busy(d)
      <4>1. Busy(c)
        BY <2>5 DEF LeaveQueues, TaskAt, Busy
      <4> QED BY <4>1, Zenon DEF OneAtATime
    <3>6. \A d \in Clients : d # c => Knows(task[d], queues')
      BY <3>5, IdleKnows, Zenon DEF TasksKnow
    <3> QED BY <3>3, <3>4, <3>6, Zenon DEF TasksKnow
  <2>6. CASE ReleaseOnBus(c)
    <3>1. queues' = queues
      BY <2>6, Zenon DEF ReleaseOnBus
    <3>2. TaskMoves(c, "results", None, t.names, t.results)
      BY <2>6, TaskSteps, Zenon
    <3> QED BY <2>1, <2>2, <3>1, <3>2, MoveKnows, Zenon
  <2>7. CASE ForgetOwned(c)
    <3>1. t.pc = "forget" /\ queues' = queues
      BY <2>7, Zenon DEF ForgetOwned, TaskAt
    <3>2. TaskMoves(c, "release", t.name, t.names, t.results)
      BY <2>7, TaskSteps, Zenon
    <3> QED BY <2>1, <3>1, <3>2, MoveKnows, Zenon
  <2>8. CASE Finish(c)
    <3>1. t.results = {} /\ queues' = queues
      BY <2>8, Zenon DEF Finish
    <3>2. TaskMoves(c, "done", t.name, t.names, t.results)
      BY <2>8, TaskSteps, Zenon
    <3> QED BY <2>1, <2>2, <3>1, <3>2, MoveKnows, Zenon
  <2>9. ASSUME NEW n \in Names, CheckOwned(c, n) PROVE TasksKnow'
    <3>1. queues' = queues /\ t.results = {}
      BY <2>9, Zenon DEF CheckOwned
    <3>2. CASE TaskMoves(c, "results", t.name, t.names \ {n}, t.results)
      BY <2>1, <2>2, <3>1, <3>2, MoveKnows, Zenon
    <3>3. CASE ~ NQ!NameHasOwner(queues[n]) /\ TaskMoves(c, "forget", n, t.names \ {n}, t.results)
      <4>1. queues[n] = None
        BY <3>3, Laws, Zenon DEF QueuesProper, NQ!QueueFacts
      <4> QED BY <2>1, <2>2, <3>1, <3>3, <4>1, MoveKnows, Zenon
    <3> QED BY <2>9, <3>2, <3>3, TaskSteps, Zenon
  <2>10. ASSUME NEW r \in Results, Transfer(c, r) PROVE TasksKnow'
    <3>1. queues' = queues
      BY <2>10, Zenon DEF Transfer
    <3>2. TaskMoves(c, "results", t.name, t.names, t.results \ {r})
      BY <2>10, TaskSteps, Zenon
    <3>3. \A x \in t.results \ {r} : NQ!OwnerOf(queues[x.name]) = x.new_owner
      BY <2>1, Zenon
    <3> QED BY <2>2, <3>1, <3>2, <3>3, MoveKnows, Zenon
  <2>11. ASSUME NEW r \in Results, Forget(c, r) PROVE TasksKnow'
    <3>1. queues' = queues /\ r \in t.results /\ r.new_owner = None
      BY <2>11, Zenon DEF Forget
    <3>2. TaskMoves(c, "release", r.name, t.names, t.results \ {r})
      BY <2>11, TaskSteps, Zenon
    <3>3. \A x \in t.results \ {r} : NQ!OwnerOf(queues[x.name]) = x.new_owner
      BY <2>1, Zenon
    <3>4. r.name \in Names
      BY DEF Results
    <3>5. queues[r.name] = None
      <4>1. NQ!OwnerOf(queues[r.name]) = None /\ None \notin Clients
        BY <2>1, <3>1, ValuesAssumption, Zenon DEF NQ!NoneAssumption
      <4>2. NQ!QueueFacts(queues[r.name])
        BY <3>4, Laws, Zenon DEF QueuesProper
      <4> QED BY <4>1, <4>2, Zenon DEF NQ!QueueFacts
    <3> QED BY <2>2, <3>1, <3>2, <3>3, <3>4, <3>5, MoveKnows, Zenon
  <2> QED BY <1>2, <2>3, <2>4, <2>5, <2>6, <2>7, <2>8, <2>9, <2>10, <2>11, Zenon
          DEF CleanupStep, Results
<1> QED BY <1>1, <1>2, NextCases, Zenon

-----------------------------------------------------------------------------
(* The owner of a name once the call under way has been decided: a request   *)
(* that still waits for the bus counts for nothing.                          *)

Orderly == OneAtATime /\ LinesInv /\ MainKnows /\ TasksKnow

Settled(n) ==
    IF main.pc \in RevertPcs /\ main.name = n
    THEN NQ!ReleaseName(queues[n], main.client).queue ELSE queues[n]

SettledOwner(n) == NQ!OwnerOf(Settled(n))

\* Where no request waits for the bus, it is the owner in the queue.
LEMMA PlainSettled ==
    ASSUME NEW n
    PROVE  /\ main.pc \notin RevertPcs \/ main.name # n => SettledOwner(n) = NQ!OwnerOf(queues[n])
           /\ main'.pc \notin RevertPcs \/ main'.name # n => SettledOwner(n)' = NQ!OwnerOf(queues'[n])
BY Zenon DEF SettledOwner, Settled

\* A settled owner is a client, and in the line.
LEMMA SettledIsClient ==
    ASSUME ManagerLaws, QueuesProper, Shaped, NEW n \in Names
    PROVE  /\ SettledOwner(n) \in Clients \cup {None}
           /\ SettledOwner(n) # None => NQ!Member(queues[n], SettledOwner(n))
           /\ SettledOwner(n) = None <=> Settled(n) = None
<1>1. NQ!Proper(Settled(n)) /\ \A c : NQ!Member(Settled(n), c) => NQ!Member(queues[n], c)
  <2>1. CASE main.pc \in RevertPcs /\ main.name = n
    <3>1. main.client \in Clients
      BY <2>1, MainFields DEF RevertPcs
    <3> DEFINE r == NQ!ReleaseName(queues[n], main.client)
    <3>2. NQ!ReleaseEffect(queues[n], main.client, r)
      BY <3>1, Laws, Zenon DEF QueuesProper
    <3>3. Settled(n) = r.queue
      BY <2>1, Zenon DEF Settled
    <3> HIDE DEF r
    <3> QED BY <3>2, <3>3, Zenon DEF NQ!ReleaseEffect
  <2>2. CASE ~ (main.pc \in RevertPcs /\ main.name = n)
    BY <2>2, Zenon DEF Settled, QueuesProper
  <2> QED BY <2>1, <2>2, Zenon
<1>2. NQ!QueueFacts(Settled(n)) /\ None \notin Clients
  BY <1>1, Laws, ValuesAssumption, Zenon DEF NQ!NoneAssumption
<1> QED BY <1>1, <1>2, Zenon DEF SettledOwner, NQ!QueueFacts

\* Steps that leave the queue and the waiting request alone.
LEMMA SameSettled ==
    ASSUME NEW n \in Names, queues'[n] = queues[n],
           main' = main \/ (main.pc \notin RevertPcs /\ main'.pc \notin RevertPcs)
    PROVE  SettledOwner(n)' = SettledOwner(n)
<1>1. CASE main' = main
  <2>1. Settled(n)' = Settled(n)
    BY <1>1 DEF Settled
  <2> QED BY <2>1, Zenon DEF SettledOwner
<1> QED BY <1>1, PlainSettled, Zenon

\* request_name decides nothing while the bus has not been asked.
LEMMA RequestSettles ==
    ASSUME ManagerLaws, QueuesProper, Shaped, RequestQueue, NEW n \in Names
    PROVE  SettledOwner(n)' = SettledOwner(n)
<1>1. main.pc \notin RevertPcs
  BY DEF RequestQueue, MainAt, RevertPcs
<1>2. main'.client = main.client /\ main'.name = main.name
  BY RequestedQueue, Zenon
<1>3. CASE n # main.name
  BY <1>1, <1>2, <1>3, RequestedQueue, PlainSettled, ZenonT(40)
<1>4. CASE n = main.name
  <2>1. PICK r : /\ NQ!RequestEffect(queues[main.name], main.client, r)
                 /\ queues'[main.name] = r.queue
                 /\ main'.pc = IF r.forward_to_bus THEN "request_bus" ELSE "reply"
    BY RequestedQueue, Zenon
  <2>2. CASE r.forward_to_bus
    <3>1. main'.pc \in RevertPcs
      BY <2>1, <2>2 DEF RevertPcs
    <3>2. NQ!ReleaseName(r.queue, main.client).queue = queues[main.name]
      BY <2>1, <2>2, Zenon DEF NQ!RequestEffect
    <3>3. Settled(n)' = queues[n]
      BY <1>2, <1>4, <2>1, <3>1, <3>2, Zenon DEF Settled
    <3> QED BY <1>1, <3>3, PlainSettled, Zenon DEF SettledOwner
  <2>3. CASE ~ r.forward_to_bus
    <3>1. main'.pc \notin RevertPcs
      BY <2>1, <2>3 DEF RevertPcs
    <3>2. NQ!OwnerOf(r.queue) = NQ!OwnerOf(queues[main.name])
      BY <2>1, <2>3, Zenon DEF NQ!RequestEffect
    <3> QED BY <1>1, <1>4, <2>1, <3>1, <3>2, PlainSettled, Zenon
  <2> QED BY <2>2, <2>3, Zenon
<1> QED BY <1>3, <1>4, Zenon

\* The revert does what had been settled.
LEMMA RevertSettles ==
    ASSUME ManagerLaws, QueuesProper, Shaped, RequestRevert, NEW n \in Names
    PROVE  SettledOwner(n)' = SettledOwner(n)
<1>1. main.pc \in RevertPcs /\ main'.pc \notin RevertPcs
  BY DEF RequestRevert, MainAt, RevertPcs, Idle
<1>2. Released(main.name, main.client, NQ!ReleaseName(queues[main.name], main.client))
  BY RevertReleases, Zenon
<1>3. CASE n # main.name
  BY <1>1, <1>2, <1>3, PlainSettled, Zenon DEF Released
<1>4. CASE n = main.name
  <2>1. queues'[n] = NQ!ReleaseName(queues[main.name], main.client).queue
    BY <1>2, <1>4, Zenon DEF Released
  <2>2. Settled(n) = NQ!ReleaseName(queues[main.name], main.client).queue
    BY <1>1, <1>4, Zenon DEF Settled
  <2> QED BY <1>1, <2>1, <2>2, PlainSettled, Zenon DEF SettledOwner
<1> QED BY <1>3, <1>4, Zenon

\* The answer of the bus decides for the caller, unless it is a refusal.
LEMMA BusSettles ==
    ASSUME Shaped, MainKnows, RequestBus
    PROVE  /\ main.name \in Names /\ main.client \in Clients /\ main.pc = "request_bus"
           /\ main'.name = main.name /\ main'.client = main.client
           /\ main'.pc \in {"request_record", "reply", "request_revert"}
           /\ queues' = queues
           /\ \A n \in Names : n # main.name \/ main'.pc = "request_revert"
                               => SettledOwner(n)' = SettledOwner(n)
           /\ main'.pc # "request_revert" => SettledOwner(main.name)' = main.client
<1>1. main.pc = "request_bus" /\ main.pc \notin {"idle", "request_queue"} /\ queues' = queues
  BY DEF RequestBus, MainAt
<1>2. main.name \in Names /\ main.client \in Clients
  BY <1>1, MainFields, Zenon
<1>3. Goto("request_record") \/ Goto("reply") \/ Goto("request_revert")
  BY Zenon DEF RequestBus
<1>4. /\ main'.name = main.name /\ main'.client = main.client
      /\ main'.pc \in {"request_record", "reply", "request_revert"}
  BY <1>1, <1>3, GotoMoves, Zenon DEF Moves
<1>5. ASSUME NEW n \in Names, n # main.name PROVE SettledOwner(n)' = SettledOwner(n)
  BY <1>1, <1>4, <1>5, PlainSettled, Zenon
<1>6. ASSUME main'.pc = "request_revert" PROVE SettledOwner(main.name)' = SettledOwner(main.name)
  <2>1. Settled(main.name)' = Settled(main.name)
    BY <1>1, <1>4, <1>6 DEF Settled, RevertPcs
  <2> QED BY <1>4, <2>1, Zenon DEF SettledOwner
<1>7. ASSUME main'.pc # "request_revert" PROVE SettledOwner(main.name)' = main.client
  <2>1. main'.pc \notin RevertPcs /\ main.pc \in RequestPcs
    BY <1>1, <1>4, <1>7 DEF RevertPcs, RequestPcs
  <2> QED BY <1>1, <1>4, <2>1, PlainSettled, Zenon DEF MainKnows
<1> QED BY <1>1, <1>2, <1>4, <1>5, <1>6, <1>7, Zenon

\* release_name passes the name on when the owner calls it, and only then.
LEMMA ReleaseSettles ==
    ASSUME ManagerLaws, QueuesProper, Shaped, NEW c \in Clients, NEW n \in Names, ReleaseQueue(c, n)
    PROVE  /\ main = Idle /\ main'.client = c /\ main'.name = n
           /\ main'.pc \in {"release_promote", "release_look", "release_local"}
           /\ \A m \in Names : m # n \/ SettledOwner(n) # c => SettledOwner(m)' = SettledOwner(m)
           /\ SettledOwner(n) = c => /\ SettledOwner(n)' = main'.new_owner
                                     /\ main'.new_owner # None => main'.pc = "release_promote"
                                     /\ main'.new_owner = None => main'.pc = "release_look"
<1>1. main = Idle /\ main'.client = c /\ main'.name = n
  BY ReleaseReleases, Zenon
<1>2. PICK r : /\ Released(n, c, r) /\ main'.new_owner = r.new_owner
               /\ r.new_owner \in Clients \cup {None}
               /\ main'.pc = IF r.new_owner # None THEN "release_promote"
                             ELSE IF r.forward_to_bus THEN "release_look"
                             ELSE "release_local"
  BY ReleaseReleases, Zenon
<1>3. main'.pc \in {"release_promote", "release_look", "release_local"}
  BY <1>2, Zenon
<1>4. main.pc \notin RevertPcs /\ main'.pc \notin RevertPcs
  BY <1>1, <1>3 DEF RevertPcs, Idle
<1>5. \A m \in Names : SettledOwner(m) = NQ!OwnerOf(queues[m]) /\ SettledOwner(m)' = NQ!OwnerOf(queues'[m])
  BY <1>4, PlainSettled, Zenon
<1>6. \A m \in Names : m # n => queues'[m] = queues[m]
  BY <1>2, Zenon DEF Released
<1>7. NQ!OwnerOf(queues[n]) # c => NQ!OwnerOf(queues'[n]) = NQ!OwnerOf(queues[n])
  BY <1>2, Zenon DEF Released, NQ!ReleaseEffect
<1>8. ASSUME NQ!OwnerOf(queues[n]) = c
      PROVE  /\ NQ!OwnerOf(queues'[n]) = main'.new_owner
             /\ r.forward_to_bus <=> r.queue = None
  BY <1>2, <1>8, Zenon DEF Released, NQ!ReleaseEffect
<1>9. ASSUME NQ!OwnerOf(queues[n]) = c, main'.new_owner = None
      PROVE  r.forward_to_bus
  <2>1. NQ!OwnerOf(r.queue) = None /\ NQ!QueueFacts(r.queue) /\ None \notin Clients
    BY <1>2, <1>8, <1>9, ValuesAssumption, Zenon DEF Released, NQ!NoneAssumption
  <2> QED BY <1>8, <1>9, <2>1, Zenon DEF NQ!QueueFacts
<1>10. ASSUME NQ!OwnerOf(queues[n]) = c
       PROVE  /\ main'.new_owner # None => main'.pc = "release_promote"
              /\ main'.new_owner = None => main'.pc = "release_look"
  BY <1>2, <1>9, <1>10, Zenon
<1> QED BY <1>1, <1>3, <1>5, <1>6, <1>7, <1>8, <1>10, Zenon

\* remove_client takes from nobody but the client that leaves.
LEMMA LeaveSettles ==
    ASSUME ManagerLaws, QueuesProper, Shaped, OneAtATime, NEW c \in Clients, LeaveQueues(c)
    PROVE  /\ main = Idle /\ main' = Idle
           /\ \A n \in Names : SettledOwner(n) # c => SettledOwner(n)' = SettledOwner(n)
           /\ \A n \in Names : SettledOwner(n) = NQ!OwnerOf(queues[n]) /\ SettledOwner(n)' = NQ!OwnerOf(queues'[n])
<1>1. main = Idle
  <2>1. Busy(c)
    BY DEF LeaveQueues, TaskAt, Busy
  <2> QED BY <2>1, Zenon DEF OneAtATime
<1>2. main' = Idle
  BY <1>1, Zenon DEF LeaveQueues
<1>3. main.pc \notin RevertPcs /\ main'.pc \notin RevertPcs
  BY <1>1, <1>2 DEF RevertPcs, Idle
<1>4. \A m \in Names : SettledOwner(m) = NQ!OwnerOf(queues[m]) /\ SettledOwner(m)' = NQ!OwnerOf(queues'[m])
  BY <1>3, PlainSettled, Zenon
<1>5. ASSUME NEW n \in Names, NQ!OwnerOf(queues[n]) # c
      PROVE  NQ!OwnerOf(queues'[n]) = NQ!OwnerOf(queues[n])
  <2> DEFINE r == NQ!ReleaseName(queues[n], c)
  <2>1. queues'[n] = r.queue /\ NQ!ReleaseEffect(queues[n], c, r)
    BY LeftQueue, Zenon
  <2> HIDE DEF r
  <2>2. NQ!OwnerOf(r.queue) = NQ!OwnerOf(queues[n])
    BY <1>5, <2>1, Zenon DEF NQ!ReleaseEffect
  <2> QED BY <2>1, <2>2, Zenon
<1> QED BY <1>1, <1>2, <1>4, <1>5, Zenon

\* Steps that leave the records about clients alone.
SameRecords == owned' = owned /\ clients' = clients /\ replaced' = replaced

\* These do.
LEMMA RecordsStay ==
    /\ \/ RequestBus \/ RequestRevert \/ ReleaseLook \/ ReleaseBus \/ ReleaseRoute \/ Reply
       \/ HandleNameOwnerChanged \/ Rest \/ UNCHANGED vars
       => SameRecords
    /\ \A c, n : ReleaseQueue(c, n) => SameRecords
    /\ \A c, n, flags : RequestStart(c, n, flags) => SameRecords
    /\ \A p, n : ServiceMoves(p, n) => SameRecords
    /\ \A c : LeaveQueues(c) \/ ReleaseOnBus(c) \/ ForgetOwned(c) \/ Finish(c) => SameRecords
    /\ \A c, n : CheckOwned(c, n) => SameRecords
    /\ \A c, r : Forget(c, r) => SameRecords
<1>1. RequestBus \/ RequestRevert \/ ReleaseLook \/ ReleaseBus \/ ReleaseRoute \/ Reply
      \/ HandleNameOwnerChanged => SameRecords
  BY Zenon DEF RequestBus, RequestRevert, ReleaseLook, ReleaseBus, ReleaseRoute, Reply,
     HandleNameOwnerChanged, SameRecords
<1>2. Rest \/ UNCHANGED vars => SameRecords
  BY DEF Rest, vars, SameRecords
<1>3. /\ \A c, n : ReleaseQueue(c, n) => SameRecords
      /\ \A c, n, flags : RequestStart(c, n, flags) => SameRecords
      /\ \A p, n : ServiceMoves(p, n) => SameRecords
  BY Zenon DEF ReleaseQueue, RequestStart, ServiceMoves, SameRecords
<1>4. /\ \A c : LeaveQueues(c) \/ ReleaseOnBus(c) \/ ForgetOwned(c) \/ Finish(c) => SameRecords
      /\ \A c, n : CheckOwned(c, n) => SameRecords
      /\ \A c, r : Forget(c, r) => SameRecords
  BY Zenon DEF LeaveQueues, ReleaseOnBus, ForgetOwned, Finish, CheckOwned, Forget, SameRecords
<1> QED BY <1>1, <1>2, <1>3, <1>4, Zenon

-----------------------------------------------------------------------------
(* Names in owned_names are owned, lost by replacement, or being released.   *)

Frees(n, c) == main.pc \in ReleasePcs /\ main.name = n /\ main.client = c

Justified(n, c) == SettledOwner(n) = c \/ <<c, n>> \in replaced \/ Frees(n, c)

\* An owner that a waiting request is about to replace is on record.
RevertReplaced ==
    main.pc \in RevertPcs /\ SettledOwner(main.name) # None
    => <<SettledOwner(main.name), main.name>> \in replaced

CredInv ==
    /\ \A n \in Names, c \in clients : n \in owned[c] => Justified(n, c)
    /\ RevertReplaced

\* Most steps leave owned_names alone and justify what was justified.
LEMMA CredFrame ==
    ASSUME CredInv, RevertReplaced', clients' \subseteq clients,
           \A c \in clients' : owned'[c] = owned[c],
           \A n \in Names, c \in clients' : Justified(n, c) => Justified(n, c)'
    PROVE  CredInv'
BY Zenon DEF CredInv

\* A step of something else justifies what was justified.
LEMMA CredSame ==
    ASSUME Shaped, CredInv, main' = main, queues' = queues, SameRecords
    PROVE  CredInv'
<1>1. \A n \in Names : SettledOwner(n)' = SettledOwner(n)
  BY SameSettled, Zenon
<1>2. RevertReplaced'
  <2> SUFFICES ASSUME main.pc \in RevertPcs, SettledOwner(main.name)' # None
               PROVE  <<SettledOwner(main.name)', main.name>> \in replaced
    BY DEF RevertReplaced, SameRecords
  <2>1. main.name \in Names
    BY MainFields DEF RevertPcs
  <2>2. SettledOwner(main.name)' = SettledOwner(main.name)
    BY <1>1, <2>1, Zenon
  <2> QED BY <2>2, Zenon DEF CredInv, RevertReplaced
<1>3. \A n \in Names, c \in clients' : Justified(n, c) => Justified(n, c)'
  BY <1>1, Zenon DEF Justified, Frees, SameRecords
<1> QED BY <1>2, <1>3, CredFrame, Zenon DEF SameRecords

\* The event loop justifies what is in owned_names.
LEMMA CredLoop ==
    ASSUME "ReleaseName" \notin Failing, ManagerLaws, QueuesProper, Shaped, Orderly, CredInv, LoopStep
    PROVE  CredInv'
<1>0. /\ MainKnows /\ OneAtATime /\ clients \subseteq Clients /\ None \notin Clients
      /\ owned \in [Clients -> SUBSET Names] /\ clients' = clients
  BY LoopLeavesTasks, ValuesAssumption, Zenon DEF Orderly, Shaped, NQ!NoneAssumption
<1>1. main'.pc \notin RevertPcs => RevertReplaced'
  BY Zenon DEF RevertReplaced
<1>2. main' = main /\ queues' = queues /\ SameRecords => CredInv'
  BY CredSame, Zenon
<1>3. ASSUME main.pc \notin RevertPcs \cup ReleasePcs, main'.pc \notin RevertPcs,
             queues' = queues, SameRecords
      PROVE  CredInv'
  <2>1. \A n \in Names : SettledOwner(n)' = SettledOwner(n)
    BY <1>3, SameSettled, Zenon
  <2>2. \A n \in Names, c \in clients' : Justified(n, c) => Justified(n, c)'
    BY <1>3, <2>1, Zenon DEF Justified, Frees, SameRecords
  <2> QED BY <1>1, <1>3, <2>2, CredFrame, Zenon DEF SameRecords
<1>4. ASSUME main.pc \in ReleasePcs, main'.pc \in ReleasePcs, queues' = queues, SameRecords,
             main'.name = main.name, main'.client = main.client
      PROVE  CredInv'
  <2>0. main.pc \notin RevertPcs /\ main'.pc \notin RevertPcs
    BY <1>4 DEF ReleasePcs, RevertPcs
  <2>1. \A n \in Names : SettledOwner(n)' = SettledOwner(n)
    BY <1>4, <2>0, SameSettled, Zenon
  <2>2. \A n \in Names, c \in clients' : Justified(n, c) => Justified(n, c)'
    BY <1>4, <2>1, Zenon DEF Justified, Frees, SameRecords
  <2> QED BY <1>1, <1>4, <2>0, <2>2, CredFrame, Zenon DEF SameRecords
<1>5. CASE RequestQueue
  <2>1. main.pc \notin ReleasePcs /\ main.pc \notin RevertPcs
    BY <1>5 DEF RequestQueue, MainAt, ReleasePcs, RevertPcs
  <2>2. \A n \in Names : SettledOwner(n)' = SettledOwner(n)
    BY <1>5, RequestSettles, Zenon
  <2>3. replaced \subseteq replaced' /\ owned' = owned
    BY <1>5, Zenon DEF RequestQueue
  <2>4. \A n \in Names, c \in clients' : Justified(n, c) => Justified(n, c)'
    BY <2>1, <2>2, <2>3, Zenon DEF Justified, Frees
  <2>5. RevertReplaced'
    <3>0. main'.name = main.name /\ main.name \in Names /\ main.client \in Clients
      BY <1>5, RequestedQueue, Zenon
    <3> DEFINE o == NQ!OwnerOf(queues[main.name])
               r == NQ!RequestName(queues[main.name], main.client, main.flags)
    <3>1. SettledOwner(main.name)' = o
      BY <2>1, <2>2, <3>0, PlainSettled, Zenon
    <3> SUFFICES ASSUME main'.pc \in RevertPcs, o # None PROVE <<o, main.name>> \in replaced'
      BY <3>0, <3>1, Zenon DEF RevertReplaced
    <3>2. main.flags \in SUBSET NQ!RequestFlags
      BY <1>5, MainFields, Zenon DEF RequestQueue, MainAt
    <3>3. /\ NQ!RequestEffect(queues[main.name], main.client, r)
          /\ NQ!QueueFacts(queues[main.name])
      BY <3>0, <3>2, Laws, Zenon DEF QueuesProper
    <3>4. /\ main'.pc = IF r.forward_to_bus THEN "request_bus" ELSE "reply"
          /\ replaced' = replaced \cup {<<c, main.name>> : c \in
                            {c \in Clients \ {main.client} : Owns(main.name, c)
                                 /\ NQ!IsPrimaryOwner(r.queue, main.client)}}
      BY <1>5, Zenon DEF RequestQueue
    <3> HIDE DEF o, r
    <3>5. r.forward_to_bus
      BY <3>4 DEF RevertPcs
    <3>6. /\ NQ!OwnerOf(r.queue) = main.client /\ ~ NQ!Member(queues[main.name], main.client)
          /\ NQ!Proper(r.queue) /\ r.queue # None
      BY <3>3, <3>5, Zenon DEF NQ!RequestEffect
    <3>7. NQ!QueueFacts(r.queue)
      BY <3>6, Laws, Zenon
    <3>8. NQ!IsPrimaryOwner(r.queue, main.client)
      BY <3>6, <3>7, Zenon DEF NQ!QueueFacts
    <3>9. o \in Clients \ {main.client} /\ Owns(main.name, o)
      BY <3>3, <3>6, Zenon DEF NQ!QueueFacts, Owns, o
    <3> QED BY <3>4, <3>8, <3>9, Zenon
  <2> QED BY <1>0, <2>3, <2>4, <2>5, CredFrame, ZenonT(30)
<1>6. CASE RequestBus
  <2>1. SameRecords /\ main.pc = "request_bus"
    BY <1>0, <1>6, RecordsStay, BusSettles, Zenon
  <2>2. main.pc \in RevertPcs /\ main.pc \notin ReleasePcs
    BY <2>1 DEF RevertPcs, ReleasePcs
  <2>3. main.name \in Names /\ main'.name = main.name
    BY <1>0, <1>6, BusSettles, Zenon
  <2>4. ASSUME NEW n \in Names, NEW c \in clients, Justified(n, c) PROVE Justified(n, c)'
    <3>1. ~ Frees(n, c)
      BY <2>2, Zenon DEF Frees
    <3>2. CASE n # main.name \/ main'.pc = "request_revert"
      BY <1>0, <1>6, <2>1, <2>4, <3>1, <3>2, BusSettles, Zenon DEF Justified, SameRecords
    <3>3. CASE n = main.name
      <4>1. SettledOwner(n) = c => <<c, n>> \in replaced
        BY <1>0, <2>2, <3>3, Zenon DEF CredInv, RevertReplaced
      <4> QED BY <2>1, <2>4, <3>1, <4>1, Zenon DEF Justified, SameRecords
    <3> QED BY <3>2, <3>3, Zenon
  <2>5. RevertReplaced'
    <3>1. CASE main'.pc = "request_revert"
      <4>1. SettledOwner(main.name)' = SettledOwner(main.name)
        BY <1>0, <1>6, <2>3, <3>1, BusSettles, Zenon
      <4> QED BY <2>1, <2>2, <2>3, <4>1, Zenon DEF RevertReplaced, CredInv, SameRecords
    <3>2. CASE main'.pc # "request_revert"
      <4>1. main'.pc \in {"request_record", "reply", "request_revert"}
        BY <1>0, <1>6, BusSettles, Zenon
      <4>2. main'.pc \notin RevertPcs
        BY <3>2, <4>1 DEF RevertPcs
      <4> QED BY <1>1, <4>2, Zenon
    <3> QED BY <3>1, <3>2, Zenon
  <2> QED BY <1>0, <2>1, <2>4, <2>5, CredFrame, Zenon DEF SameRecords
<1>7. CASE RequestRevert
  <2>1. main.pc \notin ReleasePcs /\ main'.pc \notin RevertPcs
    BY <1>7 DEF RequestRevert, MainAt, ReleasePcs, RevertPcs, Idle
  <2>2. SameRecords /\ \A n \in Names : SettledOwner(n)' = SettledOwner(n)
    BY <1>7, RecordsStay, RevertSettles, Zenon
  <2>3. \A n \in Names, c \in clients' : Justified(n, c) => Justified(n, c)'
    BY <2>1, <2>2, Zenon DEF Justified, Frees, SameRecords
  <2> QED BY <1>1, <2>1, <2>2, <2>3, CredFrame, Zenon DEF SameRecords
<1>8. ASSUME main.pc \notin RevertPcs, main'.pc \notin RevertPcs, queues' = queues,
             \A n \in Names, c \in clients : n \in owned'[c] =>
                \/ SettledOwner(n) = c
                \/ n \in owned[c] /\ ~ Frees(n, c) /\ (<<c, n>> \in replaced => <<c, n>> \in replaced')
      PROVE  CredInv'
  <2>1. \A n \in Names : SettledOwner(n)' = SettledOwner(n)
    BY <1>8, SameSettled, Zenon
  <2>2. \A n \in Names, c \in clients : n \in owned'[c] => Justified(n, c)'
    BY <1>8, <2>1, Zenon DEF Justified, CredInv
  <2> QED BY <1>0, <1>1, <1>8, <2>2, Zenon DEF CredInv
<1>9. CASE RequestRecord
  <2>1. main.pc = "request_record" /\ main.pc \in RequestPcs /\ main.pc \notin RevertPcs \cup ReleasePcs
    BY <1>9 DEF RequestRecord, MainAt, RequestPcs, ReleasePcs, RevertPcs
  <2>2. main'.pc = "reply" /\ main.name \in Names /\ main.client \in Clients
    BY <1>9, <2>1, GotoMoves, MainFields DEF RequestRecord, Moves
  <2>3. main'.pc \notin RevertPcs
    BY <2>2 DEF RevertPcs
  <2>4. SettledOwner(main.name) = main.client
    BY <1>0, <2>1, PlainSettled, Zenon DEF MainKnows
  <2>5. queues' = queues /\ replaced' = replaced
    BY <1>9, Zenon DEF RequestRecord
  <2>6. \A c \in Clients : \/ owned'[c] = owned[c]
                           \/ c = main.client /\ owned'[c] = owned[c] \cup {main.name}
    <3>1. owned' = owned \/ owned' = [owned EXCEPT ![main.client] = owned[main.client] \cup {main.name}]
      BY <1>9, Zenon DEF RequestRecord
    <3>2. CASE owned' = owned
      BY <3>2, Zenon
    <3>3. CASE owned' = [owned EXCEPT ![main.client] = owned[main.client] \cup {main.name}]
      BY <1>0, <2>2, <3>3, Zenon
    <3> QED BY <3>1, <3>2, <3>3, Zenon
  <2>7. \A n, c : ~ Frees(n, c)
    BY <2>1, Zenon DEF Frees
  <2>8. \A n \in Names, c \in clients : n \in owned'[c] => n \in owned[c] \/ SettledOwner(n) = c
    BY <1>0, <2>4, <2>6, Zenon
  <2> QED BY <1>8, <2>1, <2>3, <2>5, <2>7, <2>8, Zenon
<1>10. ASSUME main.pc \in ReleasePcs, main'.pc = "reply", queues' = queues,
              replaced' = replaced \ {<<main.client, main.name>>},
              main.name \notin owned'[main.client] \/ main.client \notin clients,
              \A n \in Names, c \in clients :
                 n \in owned'[c] => n \in owned[c] \/ SettledOwner(n) = c
       PROVE  CredInv'
  <2>1. main.pc \notin RevertPcs /\ main'.pc \notin RevertPcs
    BY <1>10 DEF ReleasePcs, RevertPcs
  <2>2. ASSUME NEW n \in Names, NEW c \in clients, n \in owned'[c], SettledOwner(n) # c
        PROVE  n \in owned[c] /\ ~ Frees(n, c) /\ (<<c, n>> \in replaced => <<c, n>> \in replaced')
    <3>1. ~ (c = main.client /\ n = main.name)
      BY <1>10, <2>2, Zenon
    <3>2. <<c, n>> # <<main.client, main.name>>
      BY <3>1
    <3> QED BY <1>10, <2>2, <3>1, <3>2, Zenon DEF Frees
  <2> QED BY <1>8, <1>10, <2>1, <2>2, Zenon
<1>11. CASE ReleasePromote
  <2>1. main.pc = "release_promote" /\ main.pc \in ReleasePcs /\ main.pc \notin RevertPcs
    BY <1>11 DEF ReleasePromote, MainAt, ReleasePcs, RevertPcs
  <2>2. main'.pc = "reply" /\ main.name \in Names /\ main.client \in Clients
    BY <1>11, <2>1, GotoMoves, MainFields DEF ReleasePromote, Moves
  <2>3. /\ SettledOwner(main.name) = main.new_owner /\ main.new_owner \in Clients
        /\ NQ!OwnerOf(queues[main.name]) = main.new_owner
        /\ ~ NQ!Member(queues[main.name], main.client)
    BY <1>0, <2>1, PlainSettled, Zenon DEF MainKnows
  <2>4. main.client # main.new_owner
    <3>1. NQ!QueueFacts(queues[main.name])
      BY <2>2, Laws, Zenon DEF QueuesProper
    <3>2. NQ!Member(queues[main.name], main.new_owner)
      BY <1>0, <2>3, <3>1, Zenon DEF NQ!QueueFacts
    <3> QED BY <2>3, <3>2, Zenon
  <2>5. /\ queues' = queues /\ replaced' = replaced \ {<<main.client, main.name>>}
        /\ owned' = [c \in Clients |->
                       IF c \notin clients THEN owned[c]
                       ELSE IF c = main.new_owner THEN owned[c] \cup {main.name}
                       ELSE IF c = main.client THEN owned[c] \ {main.name}
                       ELSE owned[c]]
    BY <1>11, Zenon DEF ReleasePromote
  <2>6. main.name \notin owned'[main.client] \/ main.client \notin clients
    BY <2>2, <2>4, <2>5, Zenon
  <2>7. \A n \in Names, c \in clients :
           n \in owned'[c] => n \in owned[c] \/ (n = main.name /\ c = main.new_owner)
    BY <1>0, <2>5, Zenon
  <2> QED BY <1>10, <2>1, <2>2, <2>3, <2>5, <2>6, <2>7, Zenon
<1>12. CASE ReleaseLocal
  <2>1. main.pc \in ReleasePcs /\ main.pc \notin {"idle", "request_queue"}
    BY <1>12 DEF ReleaseLocal, MainAt, ReleasePcs
  <2>2. main'.pc = "reply" /\ main.name \in Names /\ main.client \in Clients
    BY <1>12, <2>1, GotoMoves, MainFields DEF ReleaseLocal, Moves
  <2>3. /\ queues' = queues /\ replaced' = replaced \ {<<main.client, main.name>>}
        /\ owned' = IF main.client \in clients
                    THEN [owned EXCEPT ![main.client] = @ \ {main.name}] ELSE owned
    BY <1>12, Zenon DEF ReleaseLocal
  <2>4. main.name \notin owned'[main.client] \/ main.client \notin clients
    BY <1>0, <2>2, <2>3, Zenon
  <2>5. \A n \in Names, c \in clients : n \in owned'[c] => n \in owned[c]
    BY <1>0, <2>2, <2>3, Zenon
  <2> QED BY <1>10, <2>1, <2>2, <2>3, <2>4, <2>5, Zenon
<1>13. CASE ReleaseLook \/ ReleaseBus \/ ReleaseRoute
  <2>1. SameRecords /\ main.pc \in ReleasePcs /\ main.pc \notin {"idle", "request_queue"} /\ queues' = queues
    <3>1. SameRecords /\ queues' = queues
      BY <1>13, RecordsStay, Zenon DEF ReleaseLook, ReleaseBus, ReleaseRoute
    <3> QED BY <1>13, <3>1 DEF ReleaseLook, ReleaseBus, ReleaseRoute, MainAt, ReleasePcs
  <2>2. Goto("release_bus") \/ Goto("release_bus_unknown") \/ Goto("release_route") \/ Goto("release_local")
    BY <1>13, Zenon DEF ReleaseLook, ReleaseBus, ReleaseRoute
  <2>3. /\ main'.name = main.name /\ main'.client = main.client
        /\ main'.pc \in {"release_bus", "release_bus_unknown", "release_route", "release_local"}
    BY <2>1, <2>2, GotoMoves, Zenon DEF Moves
  <2>4. main'.pc \in ReleasePcs
    BY <2>3 DEF ReleasePcs
  <2> QED BY <1>4, <2>1, <2>3, <2>4, Zenon
<1>14. CASE Reply
  <2>1. /\ main.pc \notin RevertPcs \cup ReleasePcs /\ main'.pc \notin RevertPcs /\ queues' = queues
    BY <1>14 DEF Reply, MainAt, RevertPcs, ReleasePcs, Idle
  <2> QED BY <1>3, <1>14, <2>1, RecordsStay, Zenon
<1>15. ASSUME NEW c \in Clients, NEW n \in Names, NEW flags, RequestStart(c, n, flags)
       PROVE  CredInv'
  <2>1. main = Idle /\ main'.pc \in {"idle", "request_queue"} /\ queues' = queues
    BY <1>15, Zenon DEF RequestStart, Take, Idle
  <2>2. main.pc \notin RevertPcs \cup ReleasePcs /\ main'.pc \notin RevertPcs
    BY <2>1 DEF Idle, RevertPcs, ReleasePcs
  <2> QED BY <1>3, <1>15, <2>1, <2>2, RecordsStay, Zenon
<1>16. ASSUME NEW c \in Clients, NEW n \in Names, ReleaseQueue(c, n)
       PROVE  CredInv'
  <2>1. /\ main = Idle /\ main'.client = c /\ main'.name = n /\ SameRecords
        /\ main'.pc \in {"release_promote", "release_look", "release_local"}
        /\ \A m \in Names : m # n \/ SettledOwner(n) # c => SettledOwner(m)' = SettledOwner(m)
    BY <1>16, RecordsStay, ReleaseSettles, Zenon
  <2>2. main.pc \notin ReleasePcs /\ main'.pc \in ReleasePcs /\ main'.pc \notin RevertPcs
    BY <2>1 DEF Idle, RevertPcs, ReleasePcs
  <2>3. \A m \in Names, d \in clients : Justified(m, d) => Justified(m, d)'
    BY <2>1, <2>2, Zenon DEF Justified, Frees, SameRecords
  <2> QED BY <1>0, <1>1, <2>1, <2>2, <2>3, CredFrame, Zenon DEF SameRecords
<1>17. CASE HandleNameOwnerChanged \/ Rest \/ UNCHANGED vars
  <2>1. main' = main /\ SameRecords
    BY <1>17, OthersLeaveMain, RecordsStay, Zenon
  <2>2. queues' = queues
    BY <1>17 DEF HandleNameOwnerChanged, Rest, vars
  <2> QED BY <1>2, <2>1, <2>2, Zenon
<1>18. ASSUME NEW p \in Services, NEW n \in Names, ServiceMoves(p, n) PROVE CredInv'
  <2>1. main' = main /\ SameRecords /\ queues' = queues
    BY <1>18, RecordsStay, Zenon DEF ServiceMoves
  <2> QED BY <1>2, <2>1, Zenon
<1> QED BY <1>5, <1>6, <1>7, <1>9, <1>11, <1>12, <1>13, <1>14, <1>15, <1>16, <1>17, <1>18, Zenon
        DEF LoopStep, MainStep

\* So do the tasks.
LEMMA CredTasks ==
    ASSUME Sequential, ManagerLaws, QueuesProper, Shaped, Orderly, CredInv, NEW c \in Clients,
           Connect(c) \/ Unregister(c) \/ CleanupStep(c)
    PROVE  CredInv'
<1>0. /\ OneAtATime /\ TasksKnow /\ main' = main
      /\ owned \in [Clients -> SUBSET Names] /\ clients = {d \in Clients : task[d].pc = "running"}
  BY OthersLeaveMain, Zenon DEF Orderly, Shaped
<1>1. main = Idle => main'.pc \notin RevertPcs /\ main.pc \notin RevertPcs
  BY <1>0 DEF Idle, RevertPcs
<1>2. main = Idle => RevertReplaced'
  BY <1>1, Zenon DEF RevertReplaced
<1>3. CASE Connect(c)
  <2>1. queues' = queues /\ clients' = clients \cup {c} /\ replaced' = replaced
    BY <1>3, Zenon DEF Connect
  <2>2. c \notin clients
    BY <1>0, <1>3 DEF Connect, TaskAt
  <2>3. owned'[c] = {} /\ \A d \in clients : owned'[d] = owned[d]
    <3>1. owned' = [owned EXCEPT ![c] = {}]
      BY <1>3, Zenon DEF Connect
    <3> QED BY <1>0, <2>2, <3>1, Zenon
  <2>4. \A n \in Names : SettledOwner(n)' = SettledOwner(n)
    BY <1>0, <2>1, SameSettled, Zenon
  <2>5. \A n \in Names, d \in clients : Justified(n, d) => Justified(n, d)'
    BY <1>0, <2>1, <2>4, Zenon DEF Justified, Frees
  <2>6. RevertReplaced'
    <3> SUFFICES ASSUME main.pc \in RevertPcs, SettledOwner(main.name)' # None
                 PROVE  <<SettledOwner(main.name)', main.name>> \in replaced
      BY <1>0, <2>1 DEF RevertReplaced
    <3>1. main.name \in Names
      BY MainFields DEF RevertPcs
    <3>2. SettledOwner(main.name)' = SettledOwner(main.name)
      BY <1>0, <2>4, <3>1, Zenon
    <3> QED BY <3>2, Zenon DEF CredInv, RevertReplaced
  <2> QED BY <2>1, <2>3, <2>5, <2>6, Zenon DEF CredInv
<1>4. CASE Unregister(c)
  <2>1. /\ queues' = queues /\ clients' = clients \ {c} /\ replaced' = replaced \ ({c} \X Names)
        /\ main = Idle /\ owned' = [owned EXCEPT ![c] = {}]
    BY <1>4, Zenon DEF Unregister, AtRest
  <2>2. \A d \in clients' : owned'[d] = owned[d]
    BY <1>0, <2>1, Zenon
  <2>3. \A n \in Names : SettledOwner(n)' = SettledOwner(n)
    BY <1>0, <2>1, SameSettled, Zenon
  <2>4. ASSUME NEW n \in Names, NEW d \in clients', Justified(n, d) PROVE Justified(n, d)'
    <3>1. <<d, n>> \notin {c} \X Names
      BY <2>1
    <3> QED BY <1>0, <2>1, <2>3, <2>4, <3>1, Zenon DEF Justified, Frees
  <2> QED BY <1>2, <2>1, <2>2, <2>4, CredFrame, Zenon
<1>5. CASE LeaveQueues(c)
  <2>1. SameRecords /\ main = Idle /\ \A n \in Names : SettledOwner(n) # c => SettledOwner(n)' = SettledOwner(n)
    BY <1>0, <1>5, LeaveSettles, RecordsStay, Zenon
  <2>2. c \notin clients
    BY <1>0, <1>5 DEF LeaveQueues, TaskAt
  <2>3. \A n \in Names, d \in clients' : Justified(n, d) => Justified(n, d)'
    BY <1>0, <2>1, <2>2, Zenon DEF Justified, Frees, SameRecords
  <2> QED BY <1>2, <2>1, <2>3, CredFrame, Zenon DEF SameRecords
<1>6. ASSUME NEW r \in Results, Transfer(c, r) PROVE CredInv'
  <2>1. /\ queues' = queues /\ clients' = clients /\ replaced' = replaced
        /\ r \in task[c].results /\ TaskAt(c, "results")
    BY <1>6, Zenon DEF Transfer
  <2>2. main = Idle
    <3>1. Busy(c)
      BY <2>1 DEF TaskAt, Busy
    <3> QED BY <1>0, <3>1, Zenon DEF OneAtATime
  <2>3. r.name \in Names /\ r.new_owner \in Clients
    BY <1>6 DEF Transfer, Results
  <2>4. \A n \in Names : SettledOwner(n)' = SettledOwner(n)
    BY <1>0, <2>1, SameSettled, Zenon
  <2>5. SettledOwner(r.name) = r.new_owner
    BY <1>0, <1>1, <2>1, <2>2, PlainSettled, Zenon DEF TasksKnow, Knows
  <2>6. \A n, d : ~ Frees(n, d)
    BY <2>2 DEF Frees, Idle, ReleasePcs
  <2>7. \A d \in clients : \/ owned'[d] = owned[d]
                           \/ d = r.new_owner /\ owned'[d] = owned[d] \cup {r.name}
    <3>1. owned' = owned \/ owned' = [owned EXCEPT ![r.new_owner] = owned[r.new_owner] \cup {r.name}]
      BY <1>6, Zenon DEF Transfer
    <3>2. CASE owned' = owned
      BY <3>2, Zenon
    <3>3. CASE owned' = [owned EXCEPT ![r.new_owner] = owned[r.new_owner] \cup {r.name}]
      BY <1>0, <2>3, <3>3, Zenon
    <3> QED BY <3>1, <3>2, <3>3, Zenon
  <2>8. \A n \in Names, d \in clients' : n \in owned'[d] => Justified(n, d)'
    BY <2>1, <2>4, <2>5, <2>6, <2>7, ZenonT(30) DEF Justified, CredInv
  <2> QED BY <1>2, <2>2, <2>8, Zenon DEF CredInv
<1>7. ASSUME SameRecords, queues' = queues PROVE CredInv'
  BY <1>0, <1>7, CredSame, Zenon
<1>8. ASSUME \/ ReleaseOnBus(c) \/ ForgetOwned(c) \/ Finish(c)
             \/ \E n \in Names : CheckOwned(c, n)
             \/ \E r \in Results : Forget(c, r)
      PROVE  SameRecords /\ queues' = queues
  <2>1. SameRecords
    BY <1>8, RecordsStay, Zenon
  <2> QED BY <1>8, <2>1, Zenon DEF ReleaseOnBus, ForgetOwned, Finish, CheckOwned, Forget
<1> QED BY <1>3, <1>4, <1>5, <1>6, <1>7, <1>8, Zenon DEF CleanupStep, Results

\* At rest that is CredentialsOfOwner.
LEMMA CredMeans ==
    ASSUME ManagerLaws, QueuesProper, Shaped, CredInv
    PROVE  CredentialsOfOwner
<1> SUFFICES ASSUME AtRest, NEW n \in Names, NEW c \in FindClientCredentials(n)
             PROVE  Owns(n, c) \/ <<c, n>> \in replaced
  BY Zenon DEF CredentialsOfOwner
<1>1. main.pc \notin RevertPcs /\ main.pc \notin ReleasePcs
  BY DEF AtRest, Idle, RevertPcs, ReleasePcs
<1>2. c \in clients /\ c \in Clients /\ n \in owned[c] /\ None \notin Clients
  BY ValuesAssumption, Zenon DEF FindClientCredentials, Shaped, NQ!NoneAssumption
<1>3. SettledOwner(n) = c \/ <<c, n>> \in replaced
  BY <1>1, <1>2, Zenon DEF CredInv, Justified, Frees
<1>4. NQ!OwnerOf(queues[n]) = c \/ <<c, n>> \in replaced
  BY <1>1, <1>3, PlainSettled, Zenon
<1>5. NQ!QueueFacts(queues[n])
  BY Laws, Zenon DEF QueuesProper
<1>6. NQ!OwnerOf(queues[n]) = c => Owns(n, c)
  BY <1>2, <1>5, Zenon DEF NQ!QueueFacts, Owns
<1> QED BY <1>4, <1>6, Zenon


-----------------------------------------------------------------------------
(* A container bus that nobody else uses.                                    *)

OneBus == bus \in [Names -> {<<>>, <<Mux>>}]

\* The multiplexer has n, and has not, after a call on such a bus.
Takes(n) ==
    /\ bus' = [bus EXCEPT ![n] = <<Mux>>]
    /\ stream' = IF bus[n] = <<Mux>> THEN stream
                 ELSE Append(stream, [name |-> n, old |-> None, new |-> Mux])
Gives(n) ==
    /\ bus' = [bus EXCEPT ![n] = <<>>]
    /\ stream' = IF bus[n] = <<>> THEN stream
                 ELSE Append(stream, [name |-> n, old |-> Mux, new |-> None])

\* Lines of at most one.
LEMMA LineOfOne ==
    /\ BusOwner(<<>>) = None /\ BusOwner(<<Mux>>) = Mux /\ Mux # None /\ <<Mux>> # <<>>
    /\ Drop(<<>>, Mux) = <<>> /\ Drop(<<Mux>>, Mux) = <<>>
    /\ Append(<<>>, Mux) = <<Mux>> /\ ~ Queued(<<>>, Mux) /\ Queued(<<Mux>>, Mux)
    /\ Head(<<Mux>>) = Mux
<1>1. /\ BusOwner(<<>>) = None /\ BusOwner(<<Mux>>) = Mux /\ Mux # None /\ <<Mux>> # <<>>
      /\ Append(<<>>, Mux) = <<Mux>> /\ Head(<<Mux>>) = Mux
  BY ServiceAssumption DEF BusOwner
<1>2. ~ Queued(<<>>, Mux) /\ Queued(<<Mux>>, Mux)
  BY DEF Queued
<1>3. Drop(<<>>, Mux) = <<>>
  BY <1>2, Zenon DEF Drop
<1>4. Drop(<<Mux>>, Mux) = <<>>
  <2> DEFINE i == CHOOSE i \in 1..Len(<<Mux>>) : <<Mux>>[i] = Mux
  <2>1. i = 1
    <3>1. \E j \in 1..Len(<<Mux>>) : <<Mux>>[j] = Mux
      BY <1>2, Zenon DEF Queued
    <3>2. i \in 1..Len(<<Mux>>)
      BY <3>1, Zenon
    <3> HIDE DEF i
    <3> QED BY <3>2
  <2>2. Drop(<<Mux>>, Mux) = SubSeq(<<Mux>>, 1, i - 1) \o SubSeq(<<Mux>>, i + 1, Len(<<Mux>>))
    BY <1>2, Zenon DEF Drop
  <2> HIDE DEF i
  <2>3. ASSUME NEW q \in Seq({Mux}), Len(q) = 1
        PROVE  SubSeq(q, 1, i - 1) = <<>> /\ SubSeq(q, i + 1, Len(q)) = <<>>
    BY <2>1, <2>3
  <2>4. <<Mux>> \in Seq({Mux}) /\ Len(<<Mux>>) = 1
    OBVIOUS
  <2>5. SubSeq(<<Mux>>, 1, i - 1) = <<>> /\ SubSeq(<<Mux>>, i + 1, Len(<<Mux>>)) = <<>>
    BY <2>3, <2>4, Zenon
  <2>6. <<>> \o <<>> = <<>>
    OBVIOUS
  <2> QED BY <2>2, <2>5, <2>6, Zenon
<1> QED BY <1>1, <1>2, <1>3, <1>4, Zenon

\* A RequestName that the bus answers gets the name.
LEMMA RequestTakes ==
    ASSUME OneBus, NEW n \in Names, NEW flags, BusRequest(n, flags)
    PROVE  Takes(n) /\ BusReply(n, flags) \in {"PRIMARY_OWNER", "ALREADY_OWNER"}
<1>1. bus[n] = <<>> \/ bus[n] = <<Mux>>
  BY Zenon DEF OneBus
<1>2. CASE bus[n] = <<>>
  <2>1. BusMove(n, <<Mux>>)
    BY <1>2, LineOfOne, Zenon DEF BusRequest
  <2> QED BY <1>2, <2>1, LineOfOne, Zenon DEF BusMove, Takes, BusReply
<1>3. CASE bus[n] = <<Mux>>
  <2>1. BusMove(n, <<Mux>>)
    BY <1>3, LineOfOne, Zenon DEF BusRequest
  <2> QED BY <1>3, <2>1, LineOfOne, Zenon DEF BusMove, Takes, BusReply
<1> QED BY <1>1, <1>2, <1>3, Zenon

\* A ReleaseName that the bus answers gives it up.
LEMMA ReleaseGives ==
    ASSUME OneBus, NEW n \in Names, BusRelease(n)
    PROVE  Gives(n)
<1>1. bus[n] = <<>> \/ bus[n] = <<Mux>>
  BY Zenon DEF OneBus
<1>2. BusMove(n, <<>>)
  BY <1>1, LineOfOne, Zenon DEF BusRelease
<1> QED BY <1>1, <1>2, LineOfOne, Zenon DEF BusMove, Gives

\* How the bus call of a request ends.
LEMMA RequestEnds ==
    ASSUME OneBus, Shaped, RequestBus
    PROVE  \/ Takes(main.name) /\ main'.pc = "request_record"
           \/ bus' = bus /\ stream' = stream /\ main'.pc = "request_revert"
<1>1. main.pc = "request_bus" /\ main.pc \notin {"idle", "request_queue"}
  BY DEF RequestBus, MainAt
<1>2. main.name \in Names /\ \A pc : Goto(pc) => main'.pc = pc
  BY <1>1, MainFields, GotoMoves, Zenon DEF Moves
<1>3. CASE BusRequest(main.name, main.flags)
           /\ Goto(IF BusReply(main.name, main.flags) \in {"PRIMARY_OWNER", "ALREADY_OWNER"}
                   THEN "request_record" ELSE "reply")
  BY <1>2, <1>3, RequestTakes, Zenon
<1> QED BY <1>2, <1>3, Zenon DEF RequestBus

\* How that of a release ends.
LEMMA ReleaseEnds ==
    ASSUME OneBus, Shaped, ReleaseBus
    PROVE  /\ main.pc \in {"release_bus", "release_bus_unknown"} /\ main.name \in Names
           /\ \/ Gives(main.name) /\ main'.pc \in {"release_route", "release_local"}
              \/ bus' = bus /\ stream' = stream /\ main'.pc = "reply" /\ "ReleaseName" \in Failing
<1>1. main.pc \in {"release_bus", "release_bus_unknown"} /\ main.pc \notin {"idle", "request_queue"}
  BY DEF ReleaseBus, MainAt
<1>2. main.name \in Names /\ \A pc : Goto(pc) => main'.pc = pc
  BY <1>1, MainFields, GotoMoves, Zenon DEF Moves
<1> QED BY <1>1, <1>2, ReleaseGives, Zenon DEF ReleaseBus

\* The calls the multiplexer makes are all that happens on the bus.
LEMMA OneBusStays ==
    ASSUME Services = {}, Shaped, TasksKnow, OneBus, [Next]_vars
    PROVE  OneBus'
<1>1. \A n : Takes(n) \/ Gives(n) => OneBus'
  BY DEF OneBus, Takes, Gives
<1>2. bus' = bus => OneBus'
  BY DEF OneBus
<1>3. RequestBus => OneBus'
  BY <1>1, <1>2, RequestEnds, Zenon
<1>4. ReleaseBus => OneBus'
  BY <1>1, <1>2, ReleaseEnds, Zenon
<1>5. ASSUME NEW c \in Clients, ReleaseOnBus(c) PROVE OneBus'
  <2>1. task[c].name \in Names
    BY <1>5, Zenon DEF ReleaseOnBus, TaskAt, TasksKnow, Knows
  <2> QED BY <1>1, <1>2, <1>5, <2>1, ReleaseGives, Zenon DEF ReleaseOnBus
<1>6. ASSUME LoopStep, ~ RequestBus, ~ ReleaseBus PROVE bus' = bus
  <2>1. MainStep => bus' = bus
    BY <1>6, Zenon DEF MainStep, RequestQueue, RequestRecord, RequestRevert, ReleasePromote,
       ReleaseLook, ReleaseRoute, ReleaseLocal, Reply, HandleNameOwnerChanged
  <2>2. Rest \/ UNCHANGED vars => bus' = bus
    BY DEF Rest, vars
  <2> QED BY <1>6, <2>1, <2>2, Zenon DEF LoopStep, ReleaseQueue, RequestStart
<1>7. ASSUME NEW c \in Clients, Connect(c) \/ Unregister(c) \/ CleanupStep(c)
      PROVE  bus' = bus \/ ReleaseOnBus(c)
  BY <1>7, Zenon DEF Connect, Unregister, CleanupStep, LeaveQueues, ForgetOwned, Finish,
     CheckOwned, Transfer, Forget
<1> QED BY <1>2, <1>3, <1>4, <1>5, <1>6, <1>7, NextCases, Zenon


-----------------------------------------------------------------------------
(* What a clean-up has still to hand on.                                     *)

Handed(n, c) == \E d \in Clients : [name |-> n, new_owner |-> c] \in task[d].results
Forgetting(n) == \E d \in Clients : task[d].pc = "release" /\ task[d].name = n

\* The event loop hands nothing on.
LEMMA LoopHands ==
    ASSUME task' = task
    PROVE  /\ \A n, c : Handed(n, c)' <=> Handed(n, c)
           /\ \A n : Forgetting(n)' <=> Forgetting(n)
BY DEF Handed, Forgetting

\* A task drops a result only when it acts on it, and stops forgetting a name only
\* when it has called the bus.
LEMMA TaskHands ==
    ASSUME ManagerLaws, QueuesProper, Shaped, TasksKnow, NEW c \in Clients,
           Connect(c) \/ Unregister(c) \/ CleanupStep(c)
    PROVE  /\ \A n, o : Handed(n, o) => \/ Handed(n, o)'
                                        \/ \E r \in Results : /\ Transfer(c, r) \/ Forget(c, r)
                                                              /\ r = [name |-> n, new_owner |-> o]
           /\ \A n : Forgetting(n) => Forgetting(n)' \/ (ReleaseOnBus(c) /\ n = task[c].name)
<1> DEFINE t == task[c]
           Same == \A d \in Clients : d # c => task'[d] = task[d]
           Kept(results) == Same /\ task'[c].results = results
<1>1. \A pc, name, names, results : TaskMoves(c, pc, name, names, results) => Kept(results)
  BY DEF TaskMoves
<1>2. ASSUME Same, \A x \in t.results : x \in task'[c].results PROVE \A n, o : Handed(n, o) => Handed(n, o)'
  BY <1>2, Zenon DEF Handed
<1>3. ASSUME Same, t.pc # "release" PROVE \A n : Forgetting(n) => Forgetting(n)'
  BY <1>3, Zenon DEF Forgetting
<1> HIDE DEF Same, Kept
<1>4. CASE Connect(c) \/ Unregister(c) \/ ForgetOwned(c) \/ Finish(c) \/ \E n \in Names : CheckOwned(c, n)
  <2>0. Kept(t.results)
    BY <1>1, <1>4, TaskSteps, Zenon
  <2>1. Same /\ task'[c].results = t.results
    BY <2>0, Zenon DEF Kept
  <2>2. t.pc # "release"
    <3>1. t.pc = "absent" \/ t.pc = "running" \/ t.pc = "forget" \/ t.pc = "results"
      BY <1>4, Zenon DEF Connect, Unregister, ForgetOwned, Finish, CheckOwned, TaskAt
    <3> QED BY <3>1
  <2> QED BY <1>2, <1>3, <2>1, <2>2, Zenon
<1>5. CASE ReleaseOnBus(c)
  <2>0. Kept(t.results)
    BY <1>1, <1>5, TaskSteps, Zenon
  <2>1. Same /\ task'[c].results = t.results
    BY <2>0, Zenon DEF Kept
  <2>2. \A n : Forgetting(n) => Forgetting(n)' \/ n = t.name
    BY <2>1, Zenon DEF Forgetting, Same
  <2> QED BY <1>2, <1>5, <2>1, <2>2, Zenon
<1>6. CASE LeaveQueues(c)
  <2>1. t.pc # "release" /\ t.results = {}
    <3>1. t.pc = "queue" /\ t.pc \notin {"results", "release"}
      BY <1>6 DEF LeaveQueues, TaskAt
    <3> QED BY <3>1, Zenon DEF TasksKnow, Knows
  <2>2. Same
    <3>1. PICK results \in SUBSET Results : Leaves(c, results)
      BY <1>6, LeaveStep, Zenon
    <3> QED BY <1>1, <3>1, Zenon DEF Leaves, Kept
  <2> QED BY <1>2, <1>3, <2>1, <2>2, Zenon
<1>7. ASSUME NEW r \in Results, Transfer(c, r) \/ Forget(c, r)
      PROVE  /\ \A n, o : Handed(n, o) => Handed(n, o)' \/ r = [name |-> n, new_owner |-> o]
             /\ \A n : Forgetting(n) => Forgetting(n)'
  <2>0. Kept(t.results \ {r})
    BY <1>1, <1>7, TaskSteps, Zenon
  <2>1. Same /\ task'[c].results = t.results \ {r}
    BY <2>0, Zenon DEF Kept
  <2>2. t.pc # "release"
    BY <1>7 DEF Transfer, Forget, TaskAt
  <2>3. \A n, o : Handed(n, o) => Handed(n, o)' \/ r = [name |-> n, new_owner |-> o]
    BY <2>1, Zenon DEF Handed, Same
  <2> QED BY <1>3, <2>1, <2>2, <2>3, Zenon
<1> QED BY <1>4, <1>5, <1>6, <1>7, Zenon DEF CleanupStep, Results

\* Nothing is handed on while nobody is busy.
LEMMA NothingHanded ==
    ASSUME TasksKnow, \A c \in Clients : ~ Busy(c)
    PROVE  \A n : ~ Forgetting(n) /\ \A c : ~ Handed(n, c)
<1>1. \A c \in Clients : task[c].pc \notin {"results", "release"} /\ task[c].pc # "release"
  BY DEF Busy
<1>2. \A c \in Clients : task[c].results = {}
  BY <1>1, Zenon DEF TasksKnow, Knows
<1> QED BY <1>1, <1>2, Zenon DEF Forgetting, Handed

-----------------------------------------------------------------------------
(* Steps that decide nothing about owners.                                   *)

\* They leave the settled owners alone, and owned_names.
LEMMA QuietSteps ==
    ASSUME ManagerLaws, QueuesProper, Shaped,
           \/ RequestQueue \/ RequestRevert \/ ReleaseLook \/ ReleaseBus \/ ReleaseRoute \/ Reply
           \/ HandleNameOwnerChanged \/ Rest \/ UNCHANGED vars
           \/ \E c \in Clients, n \in Names, flags \in SUBSET NQ!RequestFlags : RequestStart(c, n, flags)
    PROVE  /\ \A n \in Names : SettledOwner(n)' = SettledOwner(n)
           /\ owned' = owned
           /\ main' = main \/ main.pc \notin {"request_record", "release_promote"}
<1>1. RequestQueue => main.pc = "request_queue" /\ owned' = owned
  BY Zenon DEF RequestQueue, MainAt
<1>2. owned' = owned
  BY <1>1, RecordsStay, Zenon DEF SameRecords
<1>3. CASE RequestQueue
  BY <1>1, <1>2, <1>3, RequestSettles, SMTT(40)
<1>4. CASE RequestRevert
  BY <1>2, <1>4, RevertSettles DEF RequestRevert, MainAt
<1>5. CASE ReleaseLook \/ ReleaseBus \/ ReleaseRoute \/ Reply
  <2>1. main.pc \in {"release_look", "release_bus", "release_bus_unknown", "release_route", "reply"}
    BY <1>5 DEF ReleaseLook, ReleaseBus, ReleaseRoute, Reply, MainAt
  <2>2. main.pc \notin RevertPcs /\ main.pc \notin {"request_record", "release_promote", "idle", "request_queue"}
    BY <2>1 DEF RevertPcs
  <2>3. queues' = queues
    BY <1>5, Zenon DEF ReleaseLook, ReleaseBus, ReleaseRoute, Reply
  <2>4. \E pc \in {"release_bus", "release_bus_unknown", "release_route", "release_local", "reply", "idle"} : main'.pc = pc
    <3>1. Goto("release_bus") \/ Goto("release_bus_unknown") \/ Goto("release_route")
          \/ Goto("release_local") \/ Goto("reply") \/ main' = Idle
      BY <1>5, Zenon DEF ReleaseLook, ReleaseBus, ReleaseRoute, Reply
    <3>2. main' = Idle => main'.pc = "idle"
      BY DEF Idle
    <3> QED BY <2>2, <3>1, <3>2, GotoMoves, Zenon DEF Moves
  <2>5. main'.pc \notin RevertPcs
    BY <2>4 DEF RevertPcs
  <2> QED BY <1>2, <2>2, <2>3, <2>5, SameSettled, Zenon
<1>6. CASE HandleNameOwnerChanged \/ Rest \/ UNCHANGED vars
  <2>1. main' = main /\ queues' = queues
    BY <1>6, ZenonT(40) DEF HandleNameOwnerChanged, Rest, vars
  <2> QED BY <1>2, <2>1, SameSettled, ZenonT(30)
<1>7. ASSUME NEW c \in Clients, NEW n \in Names, NEW flags, RequestStart(c, n, flags)
      PROVE  /\ \A m \in Names : SettledOwner(m)' = SettledOwner(m)
             /\ main.pc \notin {"request_record", "release_promote"}
  <2>1. main = Idle /\ main'.pc \in {"request_queue", "idle"} /\ queues' = queues
    BY <1>7 DEF RequestStart, Take, Idle
  <2>2. /\ main.pc \notin RevertPcs /\ main'.pc \notin RevertPcs
        /\ main.pc \notin {"request_record", "release_promote"}
    BY <2>1 DEF Idle, RevertPcs
  <2> QED BY <2>1, <2>2, SameSettled, Zenon
<1> QED BY <1>2, <1>3, <1>4, <1>5, <1>6, <1>7, Zenon

\* So do those that record a decision, at the end of a handler.
LEMMA RecordSteps ==
    ASSUME ManagerLaws, QueuesProper, Shaped, MainKnows, RequestRecord \/ ReleasePromote \/ ReleaseLocal
    PROVE  /\ main.name \in Names /\ main.client \in Clients /\ main'.pc = "reply"
           /\ \A n \in Names : SettledOwner(n)' = SettledOwner(n)
           /\ RequestRecord => main.pc = "request_record" /\ SettledOwner(main.name) = main.client
           /\ ReleasePromote => main.pc = "release_promote" /\ SettledOwner(main.name) = main.new_owner
           /\ ReleaseLocal => main.pc = "release_local" /\ SettledOwner(main.name) # main.client
           /\ bus' = bus /\ stream' = stream
<1>1. main.pc \in {"request_record", "release_promote", "release_local"}
  BY DEF RequestRecord, ReleasePromote, ReleaseLocal, MainAt
<1>2. main.pc \notin RevertPcs /\ main.pc \notin {"idle", "request_queue"} /\ "reply" \notin RevertPcs
  BY <1>1 DEF RevertPcs
<1>3. queues' = queues /\ Goto("reply") /\ bus' = bus /\ stream' = stream
  BY Zenon DEF RequestRecord, ReleasePromote, ReleaseLocal
<1>4. main'.pc = "reply" /\ main.name \in Names /\ main.client \in Clients
  BY <1>2, <1>3, GotoMoves, MainFields, Zenon DEF Moves
<1>5. \A n \in Names : SettledOwner(n)' = SettledOwner(n)
  BY <1>2, <1>3, <1>4, SameSettled, Zenon
<1>6. SettledOwner(main.name) = NQ!OwnerOf(queues[main.name])
  BY <1>2, PlainSettled, Zenon
<1>7. RequestRecord => main.pc = "request_record" /\ SettledOwner(main.name) = main.client
  BY <1>6, Zenon DEF RequestRecord, MainAt, MainKnows, RequestPcs
<1>8. ReleasePromote => main.pc = "release_promote" /\ SettledOwner(main.name) = main.new_owner
  BY <1>6, Zenon DEF ReleasePromote, MainAt, MainKnows
<1>9. ASSUME ReleaseLocal PROVE main.pc = "release_local" /\ SettledOwner(main.name) # main.client
  <2>1. main.pc = "release_local" /\ main.pc \in ReleasePcs
    BY <1>9 DEF ReleaseLocal, MainAt, ReleasePcs
  <2>2. ~ NQ!Member(queues[main.name], main.client) /\ None \notin Clients
    BY <2>1, ValuesAssumption, Zenon DEF MainKnows, NQ!NoneAssumption
  <2> QED BY <1>4, <2>1, <2>2, SettledIsClient, Zenon
<1> QED BY <1>3, <1>4, <1>5, <1>7, <1>8, <1>9, Zenon


-----------------------------------------------------------------------------
(* An owner has its name in owned_names, or is about to get it there.        *)

Recording(n) == main.pc \in {"request_record", "release_promote"} /\ main.name = n

OwnedInv ==
    \A n \in Names, c \in clients :
        SettledOwner(n) = c => n \in owned[c] \/ Recording(n) \/ Handed(n, c)

\* The event loop keeps it so.
LEMMA OwnedLoop ==
    ASSUME Services = {}, ManagerLaws, QueuesProper, Shaped, Orderly, OneBus, OwnedInv, LoopStep
    PROVE  OwnedInv'
<1>0. /\ MainKnows /\ LinesInv /\ clients \subseteq Clients /\ None \notin Clients
      /\ owned \in [Clients -> SUBSET Names] /\ clients' = clients /\ task' = task
  BY LoopLeavesTasks, ValuesAssumption, Zenon DEF Orderly, Shaped, NQ!NoneAssumption
<1>1. \A n, c : Handed(n, c)' <=> Handed(n, c)
  BY <1>0, LoopHands, Zenon
<1>2. ASSUME \A n \in Names : SettledOwner(n)' = SettledOwner(n), owned' = owned,
             main' = main \/ main.pc \notin {"request_record", "release_promote"}
      PROVE  OwnedInv'
  BY <1>0, <1>1, <1>2, Zenon DEF OwnedInv, Recording
<1>3. CASE RequestBus
  <2>1. /\ main.pc = "request_bus" /\ main'.name = main.name
        /\ \A n \in Names : n # main.name \/ main'.pc = "request_revert"
                            => SettledOwner(n)' = SettledOwner(n)
        /\ owned' = owned
    BY <1>0, <1>3, BusSettles, RecordsStay, Zenon DEF SameRecords
  <2>2. main'.pc \in {"request_record", "request_revert"}
    BY <1>3, RequestEnds, Zenon
  <2>3. main.pc \notin {"request_record", "release_promote"}
    BY <2>1
  <2> QED BY <1>0, <1>1, <2>1, <2>2, <2>3, Zenon DEF OwnedInv, Recording
<1>4. CASE RequestRecord
  <2>1. /\ main.client \in clients /\ SettledOwner(main.name) = main.client
        /\ \A n \in Names : SettledOwner(n)' = SettledOwner(n)
    BY <1>0, <1>4, RecordSteps, Zenon DEF LinesInv, RequestPcs
  <2>2. owned' = [owned EXCEPT ![main.client] = @ \cup {main.name}]
    BY <1>4, <2>1, Zenon DEF RequestRecord
  <2>3. main.name \in owned'[main.client] /\ \A c \in clients : owned[c] \subseteq owned'[c]
    BY <1>0, <2>1, <2>2, Zenon
  <2> QED BY <1>0, <1>1, <2>1, <2>3, Zenon DEF OwnedInv, Recording
<1>5. CASE ReleasePromote
  <2>1. /\ SettledOwner(main.name) = main.new_owner
        /\ \A n \in Names : SettledOwner(n)' = SettledOwner(n)
    BY <1>0, <1>5, RecordSteps, Zenon
  <2>2. \A c \in clients : owned'[c] = IF c = main.new_owner THEN owned[c] \cup {main.name}
                                       ELSE IF c = main.client THEN owned[c] \ {main.name}
                                       ELSE owned[c]
    BY <1>0, <1>5, Zenon DEF ReleasePromote
  <2>3. \A n \in Names, c \in clients : n # main.name /\ n \in owned[c] => n \in owned'[c]
    BY <2>2, Zenon
  <2>4. \A c \in clients : c = main.new_owner => main.name \in owned'[c]
    BY <2>2, Zenon
  <2> QED BY <1>0, <1>1, <2>1, <2>3, <2>4, Zenon DEF OwnedInv, Recording
<1>6. CASE ReleaseLocal
  <2>1. /\ SettledOwner(main.name) # main.client /\ main.pc = "release_local"
        /\ \A n \in Names : SettledOwner(n)' = SettledOwner(n)
    BY <1>0, <1>6, RecordSteps, Zenon
  <2>2. main.pc \notin {"request_record", "release_promote"}
    BY <2>1
  <2>3. owned' = owned \/ owned' = [owned EXCEPT ![main.client] = owned[main.client] \ {main.name}]
    BY <1>6, Zenon DEF ReleaseLocal
  <2>4. ASSUME NEW n \in Names, NEW c \in clients, n # main.name \/ c # main.client, n \in owned[c]
        PROVE  n \in owned'[c]
    BY <1>0, <2>3, <2>4
  <2> QED BY <1>0, <1>1, <2>1, <2>2, <2>4, Zenon DEF OwnedInv, Recording
<1>7. ASSUME NEW d \in Clients, NEW m \in Names, ReleaseQueue(d, m) PROVE OwnedInv'
  <2>1. /\ main = Idle /\ main'.name = m
        /\ \A n \in Names : n # m \/ SettledOwner(m) # d => SettledOwner(n)' = SettledOwner(n)
        /\ SettledOwner(m) = d => /\ SettledOwner(m)' = main'.new_owner
                                  /\ main'.new_owner # None => main'.pc = "release_promote"
    BY <1>7, ReleaseSettles, Zenon
  <2>2. owned' = owned
    BY <1>7, RecordsStay, Zenon DEF SameRecords
  <2>3. \A n : ~ Recording(n)
    BY <2>1 DEF Idle, Recording
  <2>4. SettledOwner(m) = d /\ SettledOwner(m)' \in clients => Recording(m)'
    BY <1>0, <2>1, Zenon DEF Recording
  <2> QED BY <1>0, <1>1, <2>1, <2>2, <2>3, <2>4, Zenon DEF OwnedInv
<1>8. CASE \/ RequestQueue \/ RequestRevert \/ ReleaseLook \/ ReleaseBus \/ ReleaseRoute \/ Reply
           \/ HandleNameOwnerChanged \/ Rest \/ UNCHANGED vars
           \/ \E c \in Clients, n \in Names, flags \in SUBSET NQ!RequestFlags : RequestStart(c, n, flags)
  BY <1>2, <1>8, QuietSteps, Zenon
<1> QED BY <1>3, <1>4, <1>5, <1>6, <1>7, <1>8, Zenon DEF LoopStep, MainStep

\* So do the tasks.
LEMMA OwnedTasks ==
    ASSUME Sequential, ManagerLaws, QueuesProper, Shaped, Orderly, OwnedInv, NEW c \in Clients,
           Connect(c) \/ Unregister(c) \/ CleanupStep(c)
    PROVE  OwnedInv'
<1>0. /\ OneAtATime /\ LinesInv /\ TasksKnow /\ main' = main /\ None \notin Clients
      /\ owned \in [Clients -> SUBSET Names] /\ clients = {d \in Clients : task[d].pc = "running"}
  BY OthersLeaveMain, ValuesAssumption, Zenon DEF Orderly, Shaped, NQ!NoneAssumption
<1>1. \A n : Recording(n)' <=> Recording(n)
  BY <1>0 DEF Recording
<1>2. \A n, o : Handed(n, o) => Handed(n, o)' \/ \E r \in Results :
         (Transfer(c, r) \/ Forget(c, r)) /\ r = [name |-> n, new_owner |-> o]
  BY <1>0, TaskHands, Zenon
<1>3. queues' = queues => \A n \in Names : SettledOwner(n)' = SettledOwner(n)
  BY <1>0, SameSettled, Zenon
<1>4. ASSUME clients' \subseteq clients, \A d \in clients' : owned[d] \subseteq owned'[d],
             queues' = queues,
             \A n \in Names, o \in clients' : Handed(n, o) => Handed(n, o)' \/ n \in owned'[o]
      PROVE  OwnedInv'
  BY <1>1, <1>3, <1>4, Zenon DEF OwnedInv
<1>5. CASE Connect(c) \/ Unregister(c)
  <2>1. ASSUME NEW n \in Names, NEW o PROVE Handed(n, o) => Handed(n, o)'
    <3>1. task[c].pc # "results"
      BY <1>5 DEF Connect, Unregister, TaskAt
    <3> QED BY <1>2, <3>1, Zenon DEF Transfer, Forget, TaskAt
  <2>2. queues' = queues /\ owned' = [owned EXCEPT ![c] = {}]
    BY <1>5, Zenon DEF Connect, Unregister
  <2>3. \A d \in clients : d # c => owned'[d] = owned[d]
    BY <1>0, <2>2, Zenon
  <2>4. CASE Connect(c)
    <3>1. clients' = clients \cup {c} /\ c \notin clients /\ task[c].pc # "queue"
      BY <1>0, <2>4 DEF Connect, TaskAt
    <3>2. \A n \in Names : SettledOwner(n) # c
      BY <1>0, <3>1, SettledIsClient, Zenon DEF LinesInv
    <3> QED BY <1>1, <1>3, <2>1, <2>2, <2>3, <3>1, <3>2, Zenon DEF OwnedInv
  <2>5. CASE Unregister(c)
    <3>1. clients' = clients \ {c}
      BY <2>5, Zenon DEF Unregister
    <3> QED BY <1>4, <2>1, <2>2, <2>3, <3>1, Zenon
  <2> QED BY <1>5, <2>4, <2>5, Zenon
<1>6. CASE LeaveQueues(c)
  <2>1. /\ \A n \in Names : SettledOwner(n) # c => SettledOwner(n)' = SettledOwner(n)
        /\ \A n \in Names : SettledOwner(n) = NQ!OwnerOf(queues[n]) /\ SettledOwner(n)' = NQ!OwnerOf(queues'[n])
        /\ owned' = owned /\ clients' = clients
    BY <1>0, <1>6, LeaveSettles, RecordsStay, Zenon DEF SameRecords
  <2>2. PICK results \in SUBSET Results : Leaves(c, results)
    BY <1>6, LeaveStep, Zenon
  <2>3. task'[c].results = results
    BY <2>2 DEF Leaves, TaskMoves
  <2>4. ASSUME NEW n \in Names, NEW o, SettledOwner(n) = c, SettledOwner(n)' = o
        PROVE  Handed(n, o)'
    <3>1. [name |-> n, new_owner |-> o] \in results
      BY <2>1, <2>2, <2>4, Zenon DEF Leaves
    <3> QED BY <2>3, <3>1, Zenon DEF Handed
  <2>5. ASSUME NEW n, NEW o PROVE Handed(n, o) => Handed(n, o)'
    <3>1. task[c].pc # "results"
      BY <1>6 DEF LeaveQueues, TaskAt
    <3> QED BY <1>2, <3>1, Zenon DEF Transfer, Forget, TaskAt
  <2> QED BY <1>1, <2>1, <2>4, <2>5, Zenon DEF OwnedInv
<1>7. ASSUME NEW r \in Results, Transfer(c, r)
      PROVE  /\ queues' = queues /\ clients' = clients
             /\ \A d \in clients : owned[d] \subseteq owned'[d]
             /\ r.new_owner \in clients => r.name \in owned'[r.new_owner]
  <2>1. queues' = queues /\ clients' = clients
    BY <1>7, Zenon DEF Transfer
  <2>2. owned' = IF r.new_owner \in clients
                 THEN [owned EXCEPT ![r.new_owner] = owned[r.new_owner] \cup {r.name}] ELSE owned
    BY <1>7, Zenon DEF Transfer
  <2>3. CASE r.new_owner \in clients
    BY <1>0, <2>1, <2>2, <2>3, Zenon
  <2> QED BY <2>1, <2>2, <2>3, Zenon
<1>8. ASSUME NEW n \in Names, NEW o \in clients, Handed(n, o) PROVE Handed(n, o)' \/ n \in owned'[o]
  <2>1. ASSUME NEW r \in Results, Transfer(c, r) \/ Forget(c, r), r = [name |-> n, new_owner |-> o]
        PROVE  n \in owned'[o]
    <3>1. r.name = n /\ r.new_owner = o /\ o # None
      BY <1>0, <2>1
    <3> QED BY <1>7, <2>1, <3>1, ZenonT(30) DEF Forget
  <2> QED BY <1>2, <1>8, <2>1, Zenon
<1>9. CASE \/ ReleaseOnBus(c) \/ ForgetOwned(c) \/ Finish(c)
           \/ \E n \in Names : CheckOwned(c, n) \/ \E r \in Results : Forget(c, r)
  <2>1. SameRecords
    BY <1>9, RecordsStay, Zenon
  <2>2. queues' = queues
    BY <1>9, Zenon DEF ReleaseOnBus, ForgetOwned, Finish, CheckOwned, Forget
  <2> QED BY <1>4, <1>8, <2>1, <2>2, Zenon DEF SameRecords
<1>10. ASSUME NEW r \in Results, Transfer(c, r) PROVE OwnedInv'
  BY <1>4, <1>7, <1>8, <1>10, Zenon
<1> QED BY <1>5, <1>6, <1>9, <1>10, Zenon DEF CleanupStep, Results

\* At rest that is OwnedCoversQueue.
LEMMA OwnedMeans ==
    ASSUME ManagerLaws, QueuesProper, Shaped, Orderly, OwnedInv
    PROVE  OwnedCoversQueue
<1> SUFFICES ASSUME AtRest, NEW n \in Names, NEW c \in clients, Owns(n, c) PROVE n \in owned[c]
  BY Zenon DEF OwnedCoversQueue
<1>1. main.pc \notin RevertPcs /\ ~ Recording(n)
  BY DEF AtRest, Idle, RevertPcs, Recording
<1>2. ~ Handed(n, c)
  BY NothingHanded, RestIsIdle, Zenon DEF Orderly
<1>3. SettledOwner(n) = c
  BY <1>1, PlainSettled, Laws, Zenon DEF QueuesProper, NQ!QueueFacts, Owns
<1> QED BY <1>1, <1>2, <1>3, Zenon DEF OwnedInv
=============================================================================
