---------------------------- MODULE NameService ----------------------------
(***************************************************************************)
(* Name ownership end to end: the RequestName and ReleaseName handlers of  *)
(* the event loop, the clean-up that each client's own task runs when the  *)
(* client disconnects, the container bus both of them call, and the        *)
(* NameOwnerChanged signals that come back (src/multiplexer.rs).           *)
(*                                                                         *)
(* The event loop runs one handler at a time, but a handler and the tasks  *)
(* interleave at every await.  A step is what happens between two awaits   *)
(* under one lock; two sections are one step only where the first lock is  *)
(* still held and nothing in between can be observed under it.             *)
(***************************************************************************)
EXTENDS Naturals, Sequences, FiniteSets

CONSTANTS Names, Clients, None,
          Mux,           \* the multiplexer's unique name on the container bus
          Other,         \* the unique name of a container service
          Services,      \* {Other}, or {} for a bus nobody else uses
          Failing,       \* the calls that the bus may answer with an error
          MaxCalls,      \* bound: RequestName and ReleaseName calls in all
          MaxMoves,      \* bound: requests and releases by the container service
          Sequential     \* TRUE: calls and disconnects arrive only at rest

ASSUME ServiceAssumption ==
    /\ Mux \notin Clients \cup {None, Other} /\ Other \notin Clients \cup {None}
    /\ Services \subseteq {Other} /\ Failing \subseteq {"RequestName", "ReleaseName"}
    /\ MaxCalls \in Nat /\ MaxMoves \in Nat /\ Sequential \in BOOLEAN

VARIABLES queues,    \* name_queue
          table,     \* routing_table
          clients,   \* keys of the clients map
          owned,     \* ClientInfo::owned_names
          main,      \* the handler the event loop is in
          task,      \* task[c]: the task of client c
          bus,       \* bus[n]: who owns n on the container bus, and who waits
          stream,    \* NameOwnerChanged signals not yet handled
          replaced,  \* history: <<c, n>> when c lost n to a client that replaced it
          calls, moves

vars == <<queues, table, clients, owned, main, task, bus, stream, replaced, calls, moves>>

NQ == INSTANCE NameLines
RT == INSTANCE Routing WITH WellKnown <- Names,
                            Unique <- Clients \cup {Mux, Other},
                            NoOwner <- None

ASSUME ValuesAssumption == NQ!NoneAssumption /\ RT!NamesAssumption

Idle == [pc |-> "idle"]
NewTask == [pc |-> "absent", name |-> None, names |-> {}, results |-> {}]

Init ==
    /\ queues = [n \in Names |-> None]
    /\ table = RT!NewTable
    /\ clients = {}
    /\ owned = [c \in Clients |-> {}]
    /\ main = Idle
    /\ task = [c \in Clients |-> NewTask]
    /\ bus = [n \in Names |-> <<>>]
    /\ stream = <<>>
    /\ replaced = {}
    /\ calls = 0 /\ moves = 0

AtRest ==
    /\ main = Idle /\ stream = <<>>
    /\ \A c \in Clients : task[c].pc \in {"absent", "running", "done"}

InLine(n, c) == NQ!Member(queues[n], c)
Owns(n, c) == queues[n] # None /\ NQ!IsPrimaryOwner(queues[n], c)

\* The container side of the routing table, on_container_name_change.
Route(name, old, new) == table' = RT!OnNameChange(table, "Container", name, old, new)

-----------------------------------------------------------------------------
(* The container bus (external), and the calls the multiplexer makes on it.  *)

BusOwner(b) == IF b = <<>> THEN None ELSE Head(b)
Queued(b, p) == \E i \in 1..Len(b) : b[i] = p

\* Nobody is in the line of a name twice.
Drop(b, p) ==
    IF Queued(b, p)
    THEN LET i == CHOOSE i \in 1..Len(b) : b[i] = p
         IN  SubSeq(b, 1, i - 1) \o SubSeq(b, i + 1, Len(b))
    ELSE b

\* The line for n becomes b; a change of owner is announced.
BusMove(n, b) ==
    /\ bus' = [bus EXCEPT ![n] = b]
    /\ stream' = IF BusOwner(b) = BusOwner(bus[n]) THEN stream
                 ELSE Append(stream, [name |-> n, old |-> BusOwner(bus[n]),
                                      new |-> BusOwner(b)])

BusRequest(n, flags) ==
    BusMove(n, IF BusOwner(bus[n]) \notin {Mux, None} /\ "DO_NOT_QUEUE" \in flags
               THEN Drop(bus[n], Mux)
               ELSE IF Queued(bus[n], Mux) THEN bus[n] ELSE Append(bus[n], Mux))

BusReply(n, flags) ==
    IF bus[n] = <<>> THEN "PRIMARY_OWNER"
    ELSE IF Head(bus[n]) = Mux THEN "ALREADY_OWNER"
    ELSE IF "DO_NOT_QUEUE" \in flags THEN "EXISTS" ELSE "IN_QUEUE"

BusRelease(n) == BusMove(n, Drop(bus[n], Mux))

ServiceMoves(p, n) ==
    /\ moves < MaxMoves /\ moves' = moves + 1
    /\ BusMove(n, IF Queued(bus[n], p) THEN Drop(bus[n], p) ELSE Append(bus[n], p))
    /\ UNCHANGED <<queues, table, clients, owned, main, task, calls, replaced>>

-----------------------------------------------------------------------------
(* The event loop.  A call may still be in the channel after its client has  *)
(* gone, so any client that ever connected may be the caller.                *)

Take ==
    /\ main = Idle
    /\ Sequential => AtRest
    /\ calls < MaxCalls /\ calls' = calls + 1

MainAt(pc) == main.pc = pc
Goto(pc) == main' = [main EXCEPT !.pc = pc]

\* handle_request_name up to the end of its clients.read() block.
RequestStart(c, n, flags) ==
    /\ Take
    /\ task[c].pc # "absent"
    /\ main' = IF c \in clients
               THEN [pc |-> "request_queue", client |-> c, name |-> n, flags |-> flags]
               ELSE Idle
    /\ UNCHANGED <<queues, table, clients, owned, task, bus, stream, replaced, moves>>

RequestQueue ==
    /\ MainAt("request_queue")
    /\ LET r == NQ!RequestName(queues[main.name], main.client, main.flags)
       IN  /\ queues' = [queues EXCEPT ![main.name] = r.queue]
           /\ replaced' = replaced \cup {<<c, main.name>> : c \in
                              {c \in Clients \ {main.client} : Owns(main.name, c)
                                 /\ NQ!IsPrimaryOwner(r.queue, main.client)}}
           /\ main' = [pc |-> IF r.forward_to_bus THEN "request_bus" ELSE "reply",
                       call |-> "RequestName", client |-> main.client,
                       name |-> main.name, flags |-> main.flags,
                       code |-> r.reply_code,
                       before |-> NQ!AllOwners(queues[main.name])]
    /\ UNCHANGED <<table, clients, owned, task, bus, stream, calls, moves>>

RequestBus ==
    /\ MainAt("request_bus")
    /\ \/ /\ BusRequest(main.name, main.flags)
          /\ Goto(IF BusReply(main.name, main.flags) \in {"PRIMARY_OWNER", "ALREADY_OWNER"}
                  THEN "request_record" ELSE "reply")
       \/ /\ "RequestName" \in Failing
          /\ Goto("request_revert")
          /\ UNCHANGED <<bus, stream>>
    /\ UNCHANGED <<queues, table, clients, owned, task, calls, moves, replaced>>

\* The routing table stays locked while owned_names is updated.
RequestRecord ==
    /\ MainAt("request_record")
    /\ Route(main.name, None, main.client)
    /\ owned' = IF main.client \in clients
                THEN [owned EXCEPT ![main.client] = @ \cup {main.name}] ELSE owned
    /\ Goto("reply")
    /\ UNCHANGED <<queues, clients, task, bus, stream, replaced, calls, moves>>

\* Slips: the queue is left as it is; it is removed altogether.
RequestRevertNothing ==
    /\ MainAt("request_revert")
    /\ main' = Idle
    /\ UNCHANGED <<queues, table, clients, owned, task, bus, stream, replaced, calls, moves>>
RequestRevertAll ==
    /\ MainAt("request_revert")
    /\ queues' = [queues EXCEPT ![main.name] = None]
    /\ main' = Idle
    /\ UNCHANGED <<table, clients, owned, task, bus, stream, replaced, calls, moves>>

RequestRevert ==
    /\ MainAt("request_revert")
    /\ queues' = [queues EXCEPT ![main.name] = NQ!ReleaseName(@, main.client).queue]
    /\ main' = Idle
    /\ UNCHANGED <<table, clients, owned, task, bus, stream, replaced, calls, moves>>

\* handle_release_name; unlike a request it does not look the caller up first.
ReleaseQueue(c, n) ==
    /\ Take
    /\ task[c].pc # "absent"
    /\ LET r == NQ!ReleaseName(queues[n], c)
       IN  /\ queues' = [queues EXCEPT ![n] = r.queue]
           /\ main' = [pc |-> IF r.new_owner # None THEN "release_promote"
                              ELSE IF r.forward_to_bus THEN "release_look"
                              ELSE "release_local",
                       call |-> "ReleaseName", client |-> c, name |-> n,
                       code |-> r.reply_code, new_owner |-> r.new_owner]
    /\ UNCHANGED <<table, clients, owned, task, bus, stream, replaced, moves>>

\* Slip: the promoted client's owned_names are not updated.
ReleasePromoteRouteOnly ==
    /\ MainAt("release_promote")
    /\ Route(main.name, None, main.new_owner)
    /\ Goto("reply")
    /\ UNCHANGED <<queues, clients, owned, task, bus, stream, replaced, calls, moves>>

ReleasePromote ==
    /\ MainAt("release_promote")
    /\ Route(main.name, None, main.new_owner)
    /\ owned' = [c \in Clients |->
                   IF c \notin clients THEN owned[c]
                   ELSE IF c = main.new_owner THEN owned[c] \cup {main.name}
                   ELSE IF c = main.client THEN owned[c] \ {main.name}
                   ELSE owned[c]]
    /\ replaced' = replaced \ {<<main.client, main.name>>}
    /\ Goto("reply")
    /\ UNCHANGED <<queues, clients, task, bus, stream, calls, moves>>

ReleaseLook ==
    /\ MainAt("release_look")
    /\ Goto(IF main.client \in clients THEN "release_bus" ELSE "release_bus_unknown")
    /\ UNCHANGED <<queues, table, clients, owned, task, bus, stream, replaced, calls, moves>>

\* A caller that was not found leaves the routing table alone; after an error
\* "name still released locally", with nothing else recorded.
ReleaseBus ==
    /\ MainAt("release_bus") \/ MainAt("release_bus_unknown")
    /\ \/ /\ BusRelease(main.name)
          /\ Goto(IF MainAt("release_bus") THEN "release_route" ELSE "release_local")
       \/ /\ "ReleaseName" \in Failing
          /\ Goto("reply")
          /\ UNCHANGED <<bus, stream>>
    /\ UNCHANGED <<queues, table, clients, owned, task, calls, moves, replaced>>

ReleaseRoute ==
    /\ MainAt("release_route")
    /\ Route(main.name, main.client, None)
    /\ Goto("release_local")
    /\ UNCHANGED <<queues, clients, owned, task, bus, stream, replaced, calls, moves>>

\* Slip: the released name stays in the caller's owned_names.
ReleaseLocalKeeping ==
    /\ MainAt("release_local")
    /\ replaced' = replaced \ {<<main.client, main.name>>}
    /\ Goto("reply")
    /\ UNCHANGED <<queues, table, clients, owned, task, bus, stream, calls, moves>>

ReleaseLocal ==
    /\ MainAt("release_local")
    /\ owned' = IF main.client \in clients
                THEN [owned EXCEPT ![main.client] = @ \ {main.name}] ELSE owned
    /\ replaced' = replaced \ {<<main.client, main.name>>}
    /\ Goto("reply")
    /\ UNCHANGED <<queues, table, clients, task, bus, stream, calls, moves>>

Reply ==
    /\ MainAt("reply")
    /\ main' = Idle
    /\ UNCHANGED <<queues, table, clients, owned, task, bus, stream, replaced, calls, moves>>

\* Slip: the two owners of the signal are mixed up.
HandleNameOwnerChangedSwapped ==
    /\ main = Idle /\ stream # <<>>
    /\ LET s == Head(stream) IN Route(s.name, s.new, s.old)
    /\ stream' = Tail(stream)
    /\ UNCHANGED <<queues, clients, owned, main, task, bus, calls, moves, replaced>>

HandleNameOwnerChanged ==
    /\ main = Idle /\ stream # <<>>
    /\ LET s == Head(stream) IN Route(s.name, s.old, s.new)
    /\ stream' = Tail(stream)
    /\ UNCHANGED <<queues, clients, owned, main, task, bus, calls, moves, replaced>>

-----------------------------------------------------------------------------
(* The task of a client: handle_new_client.                                  *)

TaskAt(c, pc) == task[c].pc = pc
TaskGoto(c, pc) == task' = [task EXCEPT ![c].pc = pc]

Connect(c) ==
    /\ TaskAt(c, "absent")
    /\ TaskGoto(c, "running")
    /\ clients' = clients \cup {c}
    /\ owned' = [owned EXCEPT ![c] = {}]
    /\ UNCHANGED <<queues, table, main, bus, stream, replaced, calls, moves>>

\* handler.run() has returned: the entry is removed, its names are kept aside.
Unregister(c) ==
    /\ TaskAt(c, "running")
    /\ Sequential => AtRest
    /\ clients' = clients \ {c}
    /\ task' = [task EXCEPT ![c].pc = "queue", ![c].names = owned[c]]
    /\ owned' = [owned EXCEPT ![c] = {}]
    /\ replaced' = replaced \ ({c} \X Names)
    /\ UNCHANGED <<queues, table, main, bus, stream, calls, moves>>

\* Slips: only names the client owns are looked at; their queues are deleted.
LeaveQueuesOwned(c) ==
    /\ TaskAt(c, "queue")
    /\ queues' = [n \in Names |-> IF n \in task[c].names
                                  THEN NQ!WithoutClient(queues[n], c) ELSE queues[n]]
    /\ TaskGoto(c, "results")
    /\ UNCHANGED <<table, clients, owned, main, bus, stream, replaced, calls, moves>>
LeaveQueuesDeleting(c) ==
    /\ TaskAt(c, "queue")
    /\ queues' = [n \in Names |-> IF queues[n] # None /\ NQ!IsPrimaryOwner(queues[n], c)
                                  THEN None ELSE NQ!WithoutClient(queues[n], c)]
    /\ TaskGoto(c, "results")
    /\ UNCHANGED <<table, clients, owned, main, bus, stream, replaced, calls, moves>>

\* remove_client on every queue, and the results it returns.
LeaveQueues(c) ==
    /\ TaskAt(c, "queue")
    /\ queues' = [n \in Names |-> NQ!WithoutClient(queues[n], c)]
    /\ LET lost == {n \in Names : queues[n] # None /\ NQ!IsPrimaryOwner(queues[n], c)}
       IN  task' = [task EXCEPT ![c].pc = "results",
                                ![c].results = {[name |-> n,
                                                 new_owner |-> NQ!NewOwner(queues[n])] :
                                                n \in lost}]
    /\ UNCHANGED <<table, clients, owned, main, bus, stream, replaced, calls, moves>>

\* One result with a new owner; the routing table stays locked throughout.
Transfer(c, r) ==
    /\ TaskAt(c, "results") /\ r \in task[c].results /\ r.new_owner # None
    /\ Route(r.name, c, r.new_owner)
    /\ owned' = IF r.new_owner \in clients
                THEN [owned EXCEPT ![r.new_owner] = @ \cup {r.name}] ELSE owned
    /\ task' = [task EXCEPT ![c].results = @ \ {r}]
    /\ UNCHANGED <<queues, clients, main, bus, stream, replaced, calls, moves>>

\* One result without: first the route goes, then the bus is told.
Forget(c, r) ==
    /\ TaskAt(c, "results") /\ r \in task[c].results /\ r.new_owner = None
    /\ Route(r.name, c, None)
    /\ task' = [task EXCEPT ![c].pc = "release", ![c].name = r.name,
                            ![c].results = @ \ {r}]
    /\ UNCHANGED <<queues, clients, owned, main, bus, stream, replaced, calls, moves>>

ReleaseOnBus(c) ==
    /\ TaskAt(c, "release")
    /\ \/ BusRelease(task[c].name)
       \/ "ReleaseName" \in Failing /\ UNCHANGED <<bus, stream>>
    /\ task' = [task EXCEPT ![c].pc = "results", ![c].name = None]
    /\ UNCHANGED <<queues, table, clients, owned, main, calls, moves, replaced>>

\* Slip: a name that is skipped stays in the list.
CheckOwnedAgain(c, n) ==
    /\ TaskAt(c, "results") /\ task[c].results = {} /\ n \in task[c].names
    /\ ~ NQ!NameHasOwner(queues[n])
    /\ task' = [task EXCEPT ![c].pc = "forget", ![c].name = n, ![c].names = @ \ {n}]
    /\ UNCHANGED <<queues, table, clients, owned, main, bus, stream, replaced, calls, moves>>

\* The second loop, over the names kept aside: names with an owner are skipped.
CheckOwned(c, n) ==
    /\ TaskAt(c, "results") /\ task[c].results = {} /\ n \in task[c].names
    /\ task' = IF NQ!NameHasOwner(queues[n])
               THEN [task EXCEPT ![c].names = @ \ {n}]
               ELSE [task EXCEPT ![c].pc = "forget", ![c].name = n, ![c].names = @ \ {n}]
    /\ UNCHANGED <<queues, table, clients, owned, main, bus, stream, replaced, calls, moves>>

ForgetOwned(c) ==
    /\ TaskAt(c, "forget")
    /\ Route(task[c].name, c, None)
    /\ TaskGoto(c, "release")
    /\ UNCHANGED <<queues, clients, owned, main, bus, stream, replaced, calls, moves>>

Finish(c) ==
    /\ TaskAt(c, "results") /\ task[c].results = {} /\ task[c].names = {}
    /\ TaskGoto(c, "done")
    /\ UNCHANGED <<queues, table, clients, owned, main, bus, stream, replaced, calls, moves>>

-----------------------------------------------------------------------------
(* The queries of the driver, each answered from a place of its own.         *)

\* handle_list_names and handle_name_has_owner: the routing table.
ListNames == RT!AllNames(table)
NameHasOwner(n) == RT!HasOwner(table, n)

\* handle_get_name_owner: the bus the routing table names, the host by default.  The
\* names of this module are not owned on the host bus.
GetNameOwner(n) == IF RT!OwnerRoute(table, n) = "Container" THEN BusOwner(bus[n]) ELSE None

\* handle_list_queued_owners: the queue.
ListQueuedOwners(n) == NQ!AllOwners(queues[n])

\* find_client_credentials, for a well-known name: owned_names of the connected clients,
\* in the order of a hash map, so that any of these may be the one that is found.
FindClientCredentials(n) == {c \in clients : n \in owned[c]}

-----------------------------------------------------------------------------
\* Nothing more need ever arrive; any other state without a step is a deadlock.
Rest == AtRest /\ UNCHANGED vars

MainStep ==
    \/ RequestQueue \/ RequestBus \/ RequestRecord \/ RequestRevert
    \/ ReleasePromote \/ ReleaseLook \/ ReleaseBus \/ ReleaseRoute \/ ReleaseLocal
    \/ Reply \/ HandleNameOwnerChanged

CleanupStep(c) ==
    \/ LeaveQueues(c) \/ ReleaseOnBus(c) \/ ForgetOwned(c) \/ Finish(c)
    \/ \E n \in Names : CheckOwned(c, n)
    \/ \E r \in [name : Names, new_owner : Clients \cup {None}] :
          Transfer(c, r) \/ Forget(c, r)

Next ==
    \/ MainStep
    \/ \E c \in Clients : Connect(c) \/ Unregister(c) \/ CleanupStep(c)
    \/ \E c \in Clients, n \in Names :
          \/ ReleaseQueue(c, n)
          \/ \E flags \in SUBSET NQ!RequestFlags : RequestStart(c, n, flags)
    \/ \E p \in Services, n \in Names : ServiceMoves(p, n)
    \/ Rest

Spec == Init /\ [][Next]_vars

\* The event loop and every task keep being scheduled by the tokio runtime.
FairSpec == Spec /\ WF_vars(MainStep) /\ \A c \in Clients : WF_vars(CleanupStep(c))

-----------------------------------------------------------------------------
Results == [name : Names, new_owner : Clients \cup {None}]

TypeOK ==
    /\ NQ!TypeOK
    /\ table \in RT!RoutingTable
    /\ clients \subseteq Clients
    /\ owned \in [Clients -> SUBSET Names]
    /\ main # Idle => main.client \in Clients /\ main.name \in Names
    /\ \A c \in Clients : /\ task[c].names \subseteq Names
                         /\ task[c].results \subseteq Results
                         /\ task[c].name \in Names \cup {None}
    /\ bus \in [Names -> Seq({Mux, Other})] /\ replaced \subseteq Clients \X Names
    /\ calls \in 0..MaxCalls /\ moves \in 0..MaxMoves

\* The reply to RequestName is worked out before the bus call and sent after
\* it.  Whatever the tasks of other clients did meanwhile, it is still true of
\* the queue when it is sent, as long as the caller is connected: an owner still
\* owns, a waiter is still in the line (or has been promoted), a client told
\* EXISTS is not in it.
ReplyStillTrue ==
    main.pc = "reply" /\ main.call = "RequestName" /\ main.client \in clients =>
        CASE main.code \in {"PRIMARY_OWNER", "ALREADY_OWNER"} -> Owns(main.name, main.client)
          [] main.code = "IN_QUEUE" -> InLine(main.name, main.client)
          [] main.code = "EXISTS" -> ~ InLine(main.name, main.client)

\* The line now is that of before, in its order, without those that are not kept.
Restores(now, before, kept) ==
    /\ {c \in Clients : NQ!In(now, c)} = {c \in kept : NQ!In(before, c)}
    /\ NQ!SameOrder(now, before)

\* "Bus call failed - revert queue state": after a refused RequestName the line
\* of the name is what it was before the call, except for clients that have
\* disconnected during the call.
RefusalRestoresLine ==
    [][main.pc = "request_revert" /\ main' = Idle =>
         LET n == main.name
         IN  Restores(NQ!AllOwners(queues'[n]), main.before, {c \in Clients : InLine(n, c)})]_vars

\* At rest the multiplexer owns on the container bus exactly the names that one
\* of its clients owns: forward_to_bus is neither too rare nor too frequent, and
\* GetNameOwner (asked of the bus) finds an owner when ListQueuedOwners (the queue) does.
BusFollowsQueue ==
    AtRest => \A n \in Names : /\ BusOwner(bus[n]) = Mux <=> NQ!NameHasOwner(queues[n])
                               /\ GetNameOwner(n) = None <=> ListQueuedOwners(n) = <<>>

\* "Caller is now the primary owner of the name": at rest a connected client that
\* the queue calls the owner, and that was told so, has the name on the bus.
OwnersHaveTheName ==
    AtRest => \A n \in Names, c \in clients : Owns(n, c) => BusOwner(bus[n]) = Mux

\* At rest container_names is what it is documented to be, "Names currently
\* owned on the container bus".
RoutingFollowsBus ==
    AtRest => /\ ListNames = {n \in Names : bus[n] # <<>>}
              /\ \A n \in Names : NameHasOwner(n) <=> GetNameOwner(n) # None

\* At rest the owned_names of a connected client hold every name it owns in the
\* queue, so that find_client_credentials and the clean-up can find it.
OwnedCoversQueue ==
    AtRest => \A n \in Names, c \in clients : Owns(n, c) => n \in owned[c]

\* At rest GetConnectionCredentials and its kin answer for the client that owns the
\* name, except that an owner that was replaced keeps the name in its owned_names (the
\* RequestName handler updates the new owner's alone) until it releases it or leaves.
CredentialsOfOwner ==
    AtRest => \A n \in Names : \A c \in FindClientCredentials(n) :
                  Owns(n, c) \/ <<c, n>> \in replaced

\* At rest only connected clients own names or wait for them ("Automatic
\* ownership transfer when primary owner disconnects").
OnlyConnectedInLine ==
    AtRest => \A n \in Names, c \in Clients : InLine(n, c) => c \in clients

\* The lines stay fair whatever handlers and clean-ups do to them between their
\* awaits: every step of the whole system joins, overtakes by permission, or
\* leaves, as NameOwnership says.
LinesAreFair == NQ!ImplementsOwnership

\* A clean-up that has started ends, whatever the event loop does meanwhile.
CleanupEnds == \A c \in Clients : task[c].pc = "queue" ~> task[c].pc = "done"
=============================================================================
