--------------------------- MODULE Subscriptions ---------------------------
(***************************************************************************)
(* Match rules shared by many clients over two bus connections: the        *)
(* AddMatch and RemoveMatch handlers, the clean-up in a client's task, and *)
(* MatchRuleRefCount (src/multiplexer.rs, src/match_rules.rs).             *)
(*                                                                         *)
(* The counter's write lock is taken once per handler and held across the  *)
(* calls to both buses; the client's own list of rules is changed earlier, *)
(* under another lock.  Rule strings are compared and never looked into,   *)
(* so a rule is an element of Rules; MatchRule::parse accepts the ones in  *)
(* Valid (how it decides is the subject of MatchRules).                    *)
(*                                                                         *)
(* Three history variables say how counts and buses may come to differ    *)
(* from what the clients list: leaked counts references nobody will give   *)
(* back, refused and kept hold the rules of bus calls whose failure was    *)
(* thrown away.                                                            *)
(***************************************************************************)
EXTENDS Naturals, FiniteSets

CONSTANTS Rules, Clients,
          Valid,        \* the rules MatchRule::parse accepts
          None,
          MaxCalls,     \* bound: AddMatch and RemoveMatch calls in all
          MaxFaults     \* bound: bus calls that fail

ASSUME SubscriptionsAssumption ==
    /\ IsFiniteSet(Clients)
    /\ Valid \subseteq Rules
    /\ None \notin Clients /\ "main" \notin Clients /\ None # "main"
    /\ None \notin Rules
    /\ MaxCalls \in Nat /\ MaxFaults \in Nat

VARIABLES clients,   \* keys of the clients map
          rules,     \* rules[c]: the ClientMatchRules of c
          counts,    \* counts[b][r]: MatchRuleRefCount, 0 for no entry
          onBus,     \* onBus[b][r]: how often bus b has the rule registered
          lock,      \* who holds match_rule_refcount for writing
          main,      \* the handler the event loop is in
          task,      \* task[c]: the task of client c
          leaked,    \* leaked[b][r]: references no client and no task stands for
          refused,   \* refused[b]: rules whose AddMatch failed when last counted from 0
          kept,      \* kept[b]: rules of which some RemoveMatch has failed
          faults, calls

busVars == <<counts, onBus, leaked, refused, kept, faults>>
vars == <<clients, rules, lock, main, task, calls, busVars>>

Buses == {"container", "host"}

Idle == [pc |-> "idle", call |-> None, client |-> None, rule |-> None]

Init ==
    /\ clients = {}
    /\ rules = [c \in Clients |-> {}]
    /\ counts = [b \in Buses |-> [r \in Rules |-> 0]]
    /\ onBus = [b \in Buses |-> [r \in Rules |-> 0]]
    /\ lock = None
    /\ main = Idle
    /\ task = [c \in Clients |-> [pc |-> "absent", rules |-> {}, host |-> None]]
    /\ leaked = [b \in Buses |-> [r \in Rules |-> 0]]
    /\ refused = [b \in Buses |-> {}]
    /\ kept = [b \in Buses |-> {}]
    /\ faults = 0
    /\ calls = 0

AtRest ==
    /\ main = Idle
    /\ \A c \in Clients : task[c].pc \in {"absent", "running", "done"}

-----------------------------------------------------------------------------
(* MatchRuleRefCount, with the bus call its result asks for.  The results of *)
(* the bus calls are ignored.                                                *)

\* The bus calls of the handlers: a connection that answers with an error.
Fails == faults < MaxFaults /\ faults' = faults + 1
Works == faults' = faults

BusAdd(b, r) ==
    \/ /\ Works
       /\ onBus' = [onBus EXCEPT ![b][r] = @ + 1]
       /\ UNCHANGED refused
    \/ /\ Fails
       /\ refused' = [refused EXCEPT ![b] = @ \cup {r}]
       /\ UNCHANGED onBus

\* The bus has nothing to remove after a refused AddMatch.
BusRemove(b, r) ==
    /\ refused' = [refused EXCEPT ![b] = @ \ {r}]
    /\ \/ /\ Works
          /\ onBus' = [onBus EXCEPT ![b][r] = IF @ = 0 THEN 0 ELSE @ - 1]
          /\ UNCHANGED kept
       \/ /\ Fails
          /\ kept' = [kept EXCEPT ![b] = @ \cup {r}]
          /\ UNCHANGED onBus

\* Slip: every reference is passed on to the bus.
IncrementAlways(b, r) ==
    /\ counts' = [counts EXCEPT ![b][r] = @ + 1]
    /\ BusAdd(b, r)
    /\ UNCHANGED <<leaked, kept>>

Increment(b, r) ==
    /\ counts' = [counts EXCEPT ![b][r] = @ + 1]
    /\ IF counts[b][r] + 1 = 1 THEN BusAdd(b, r) ELSE UNCHANGED <<onBus, refused, faults>>
    /\ UNCHANGED <<leaked, kept>>

\* Slip: the first removal takes the rule away.
DecrementEager(b, r) ==
    /\ counts' = IF counts[b][r] > 0 THEN [counts EXCEPT ![b][r] = @ - 1] ELSE counts
    /\ leaked' = IF counts[b][r] > 0 THEN leaked ELSE [leaked EXCEPT ![b][r] = @ + 1]
    /\ BusRemove(b, r)

\* A task that is faster than the AddMatch of its own client finds no entry and
\* gives nothing back; the reference then counted has nobody left to drop it.
Decrement(b, r) ==
    /\ counts' = IF counts[b][r] > 0 THEN [counts EXCEPT ![b][r] = @ - 1] ELSE counts
    /\ leaked' = IF counts[b][r] > 0 THEN leaked ELSE [leaked EXCEPT ![b][r] = @ + 1]
    /\ IF counts[b][r] = 1 THEN BusRemove(b, r) ELSE UNCHANGED <<onBus, refused, kept, faults>>

-----------------------------------------------------------------------------
(* The event loop.  A call may still be in the channel after its client has  *)
(* gone, so any client that ever connected may be the caller.                *)

Take(c) ==
    /\ main = Idle
    /\ task[c].pc # "absent"
    /\ calls < MaxCalls /\ calls' = calls + 1

Handle(call, c, r) ==
    main' = [pc |-> "container", call |-> call, client |-> c, rule |-> r]

\* handle_add_match: a rule that does not parse is an error reply.
\* ClientMatchRules::add drops a rule the client already has, and an unknown
\* client is passed over; the handler goes on in both cases and counts a
\* reference no list entry stands for.
AddMatch(c, r) ==
    /\ Take(c)
    /\ IF r \in Valid
       THEN /\ rules' = IF c \in clients THEN [rules EXCEPT ![c] = @ \cup {r}] ELSE rules
            /\ leaked' = IF c \in clients /\ r \notin rules[c] THEN leaked
                         ELSE [b \in Buses |-> [leaked[b] EXCEPT ![r] = @ + 1]]
            /\ Handle("AddMatch", c, r)
       ELSE UNCHANGED <<rules, leaked, main>>
    /\ UNCHANGED <<clients, counts, onBus, refused, kept, faults, lock, task>>

\* Slip: the result of ClientMatchRules::remove is not looked at.
RemoveMatchUnchecked(c, r) ==
    /\ Take(c)
    /\ rules' = [rules EXCEPT ![c] = @ \ {r}]
    /\ Handle("RemoveMatch", c, r)
    /\ UNCHANGED <<clients, busVars, lock, task>>

\* handle_remove_match: without the rule the client gets an error and no more.
RemoveMatch(c, r) ==
    /\ Take(c)
    /\ IF c \in clients /\ r \in rules[c]
       THEN /\ rules' = [rules EXCEPT ![c] = @ \ {r}]
            /\ Handle("RemoveMatch", c, r)
       ELSE UNCHANGED <<rules, main>>
    /\ UNCHANGED <<clients, busVars, lock, task>>

Update(b, r) ==
    IF main.call = "AddMatch" THEN Increment(b, r) ELSE Decrement(b, r)

MainContainer ==
    /\ main.pc = "container"
    /\ lock = None /\ lock' = "main"
    /\ Update("container", main.rule)
    /\ main' = [main EXCEPT !.pc = "host"]
    /\ UNCHANGED <<clients, rules, task, calls>>

\* The second bus, the reply, and the end of the handler that frees the lock.
MainHost ==
    /\ main.pc = "host"
    /\ Update("host", main.rule)
    /\ main' = Idle
    /\ lock' = None
    /\ UNCHANGED <<clients, rules, task, calls>>

-----------------------------------------------------------------------------
(* The task of a client: handle_new_client.                                  *)

Connect(c) ==
    /\ task[c].pc = "absent"
    /\ task' = [task EXCEPT ![c].pc = "running"]
    /\ clients' = clients \cup {c}
    /\ UNCHANGED <<rules, busVars, lock, main, calls>>

\* Slip: the entry is removed and its rules are forgotten.
UnregisterOnly(c) ==
    /\ task[c].pc = "running"
    /\ clients' = clients \ {c}
    /\ task' = [task EXCEPT ![c].pc = "done"]
    /\ rules' = [rules EXCEPT ![c] = {}]
    /\ UNCHANGED <<busVars, lock, main, calls>>

\* The entry is removed and its rule strings kept; without any the counter is
\* not even locked.
Unregister(c) ==
    /\ task[c].pc = "running"
    /\ clients' = clients \ {c}
    /\ task' = [task EXCEPT ![c].pc = IF rules[c] = {} THEN "done" ELSE "lock",
                            ![c].rules = rules[c]]
    /\ rules' = [rules EXCEPT ![c] = {}]
    /\ UNCHANGED <<busVars, lock, main, calls>>

Lock(c) ==
    /\ task[c].pc = "lock"
    /\ lock = None /\ lock' = c
    /\ task' = [task EXCEPT ![c].pc = "rules"]
    /\ UNCHANGED <<clients, rules, busVars, main, calls>>

TaskContainer(c, r) ==
    /\ task[c].pc = "rules" /\ task[c].host = None /\ r \in task[c].rules
    /\ Decrement("container", r)
    /\ task' = [task EXCEPT ![c].host = r, ![c].rules = @ \ {r}]
    /\ UNCHANGED <<clients, rules, lock, main, calls>>

TaskHost(c) ==
    /\ task[c].pc = "rules" /\ task[c].host # None
    /\ Decrement("host", task[c].host)
    /\ task' = [task EXCEPT ![c].host = None]
    /\ UNCHANGED <<clients, rules, lock, main, calls>>

\* Slip: the guard is taken anew for each look at the list, and nothing ends it.
UnlockAgain(c) ==
    /\ task[c].pc = "rules" /\ task[c].host = None /\ task[c].rules = {}
    /\ task' = [task EXCEPT ![c].pc = "lock"]
    /\ lock' = None
    /\ UNCHANGED <<clients, rules, busVars, main, calls>>

Unlock(c) ==
    /\ task[c].pc = "rules" /\ task[c].host = None /\ task[c].rules = {}
    /\ task' = [task EXCEPT ![c].pc = "done"]
    /\ lock' = None
    /\ UNCHANGED <<clients, rules, busVars, main, calls>>

-----------------------------------------------------------------------------
\* Nothing more need ever arrive; any other state without a step is a deadlock.
Rest == AtRest /\ UNCHANGED vars

CleanupStep(c) == Lock(c) \/ TaskHost(c) \/ Unlock(c) \/ \E r \in Rules : TaskContainer(c, r)

Next ==
    \/ MainContainer \/ MainHost \/ Rest
    \/ \E c \in Clients :
          \/ Connect(c) \/ Unregister(c) \/ CleanupStep(c)
          \/ \E r \in Rules : AddMatch(c, r) \/ RemoveMatch(c, r)

Spec == Init /\ [][Next]_vars

\* The runtime keeps scheduling the event loop and the tasks, and tokio's
\* RwLock is fair: who waits for the counter gets it.
FairSpec ==
    /\ Spec
    /\ SF_vars(MainContainer) /\ WF_vars(MainHost)
    /\ \A c \in Clients : SF_vars(Lock(c)) /\ WF_vars(CleanupStep(c))

-----------------------------------------------------------------------------
TypeOK ==
    /\ clients \subseteq Clients
    /\ rules \in [Clients -> SUBSET Rules]
    /\ counts \in [Buses -> [Rules -> Nat]]
    /\ onBus \in [Buses -> [Rules -> Nat]]
    /\ lock \in Clients \cup {None, "main"}
    /\ main \in [pc : {"idle", "container", "host"},
                 call : {None, "AddMatch", "RemoveMatch"},
                 client : Clients \cup {None}, rule : Rules \cup {None}]
    /\ task \in [Clients -> [pc : {"absent", "running", "lock", "rules", "done"},
                             rules : SUBSET Rules, host : Rules \cup {None}]]
    /\ leaked \in [Buses -> [Rules -> Nat]]
    /\ refused \in [Buses -> SUBSET Rules]
    /\ kept \in [Buses -> SUBSET Rules]
    /\ faults \in 0..MaxFaults
    /\ calls \in 0..MaxCalls

\* A rule is registered on a bus once while its count is positive and not at all
\* otherwise: "we only forward it to the upstream bus once".  Only a discarded
\* failure excuses a difference: after a refused AddMatch the rule is missing
\* until its count is back at 0, after a failed RemoveMatch it may stay.
BusMatchesCount ==
    \A b \in Buses, r \in Rules :
        /\ counts[b][r] > 0 /\ r \notin refused[b] => onBus[b][r] >= 1
        /\ counts[b][r] = 0 /\ r \notin kept[b] => onBus[b][r] = 0
        /\ r \notin kept[b] => onBus[b][r] <= 1

\* Who stands for a reference to rule r on bus b: clients that list it, tasks
\* and a RemoveMatch handler that have yet to take their reference back.
Listing(r) == {c \in clients : r \in rules[c]}
Leaving(b, r) == {c \in Clients : r \in task[c].rules \/ (b = "host" /\ task[c].host = r)}
MainAbout(call, b, r) ==
    /\ main.call = call /\ main.rule = r
    /\ main.pc = "container" \/ (b = "host" /\ main.pc = "host")
Removing(b, r) == IF MainAbout("RemoveMatch", b, r) THEN 1 ELSE 0
Adding(b, r) == IF MainAbout("AddMatch", b, r) THEN 1 ELSE 0

\* The reference count is exact in every interleaving of handlers and tasks:
\* with the increment of an AddMatch under way it is the number of clients that
\* have the rule and of references not yet given back, plus the leaked ones.
CountIsExact ==
    \A b \in Buses, r \in Rules :
        counts[b][r] + Adding(b, r) =
            Cardinality(Listing(r)) + Cardinality(Leaving(b, r)) + Removing(b, r) + leaked[b][r]

\* "When all clients remove the rule (or disconnect), it's removed from the
\* buses": at rest a rule that no client has is on no bus, unless a reference
\* was leaked or a RemoveMatch has failed.
UnusedRulesGone ==
    AtRest => \A b \in Buses, r \in Rules :
        Listing(r) = {} /\ leaked[b][r] = 0 /\ r \notin kept[b] => onBus[b][r] = 0

\* "When all clients remove the rule, we remove it from the upstream bus", and
\* not before: a rule a client has stays on both buses, whatever the others do
\* and however they leave, except while an AddMatch of that very rule is between
\* its two halves, listed and not yet counted, and after a refused AddMatch.
HeldRulesStay ==
    \A c \in clients : \A r \in rules[c], b \in Buses :
        Adding(b, r) = 0 /\ r \notin refused[b] => onBus[b][r] >= 1

\* Every clean-up that starts comes to its end and frees the counter, although
\* it competes with the event loop and with other clean-ups for the lock.
CleanupEnds == \A c \in Clients : task[c].pc = "lock" ~> task[c].pc = "done"

\* "When all clients remove the rule (or disconnect), it's removed from the
\* buses", without the exceptions above, while every client is connected.  A
\* client that adds a rule twice and removes it once breaks it.
RemovedRulesGone ==
    AtRest /\ clients = Clients =>
        \A b \in Buses, r \in Rules : Listing(r) = {} => onBus[b][r] = 0
=============================================================================
