------------------------ MODULE SubscriptionsProofs ------------------------
(***************************************************************************)
(* Theorems about Subscriptions, for any finite set of clients, any set of *)
(* rules and any number of calls and failures.                             *)
(***************************************************************************)
EXTENDS Subscriptions, FiniteSetTheorems, TLAPS

-----------------------------------------------------------------------------
(* The inductive invariant.                                                *)

\* A client is in the clients map exactly while its task runs, only then it has
\* rules; a task holds rules to give back only while it cleans up, and never the
\* one it is giving back to the host.
TasksProper ==
    \A c \in Clients :
        /\ c \in clients <=> task[c].pc = "running"
        /\ c \notin clients => rules[c] = {}
        /\ task[c].pc \notin {"lock", "rules"} => task[c].rules = {}
        /\ task[c].pc # "rules" => task[c].host = None
        /\ task[c].host \notin task[c].rules

\* A handler that has begun is about a rule.
MainProper ==
    main.pc # "idle" => main.call \in {"AddMatch", "RemoveMatch"} /\ main.rule \in Rules

Inv == TypeOK /\ TasksProper /\ MainProper /\ BusMatchesCount /\ CountIsExact

Counter == [Buses -> [Rules -> Nat]]
RuleSets == [Buses -> SUBSET Rules]

-----------------------------------------------------------------------------
(* What the operations on the shared count do.                             *)

\* The counter's variables are well typed.
CountersTyped ==
    /\ counts \in Counter /\ onBus \in Counter /\ leaked \in Counter
    /\ refused \in RuleSets /\ kept \in RuleSets
    /\ faults \in 0..MaxFaults

\* Of the counts and of the leaks only those of rule r on bus b have changed.
OnlyAt(b, r) ==
    \A b1 \in Buses, r1 \in Rules : b1 # b \/ r1 # r =>
        counts'[b1][r1] = counts[b1][r1] /\ leaked'[b1][r1] = leaked[b1][r1]

\* A bus call, whether it works or fails, keeps the types.
LEMMA BusAddTyped ==
    ASSUME CountersTyped, NEW b \in Buses, NEW r \in Rules, BusAdd(b, r)
    PROVE  onBus' \in Counter /\ refused' \in RuleSets /\ faults' \in 0..MaxFaults
<1>1. CASE Works /\ onBus' = [onBus EXCEPT ![b][r] = @ + 1] /\ UNCHANGED refused
  BY <1>1 DEF CountersTyped, Counter, RuleSets, Works
<1>2. CASE Fails /\ refused' = [refused EXCEPT ![b] = @ \cup {r}] /\ UNCHANGED onBus
  <2>1. faults' \in 0..MaxFaults
    BY <1>2, SubscriptionsAssumption DEF CountersTyped, Fails
  <2>2. QED
    BY <1>2, <2>1, Zenon DEF CountersTyped, Counter, RuleSets
<1>3. QED
  BY <1>1, <1>2, Zenon DEF BusAdd

\* What RemoveMatch on a bus leaves behind is well typed, whether it works or fails.
LEMMA BusRemoveTyped ==
    ASSUME CountersTyped, NEW b \in Buses, NEW r \in Rules, BusRemove(b, r)
    PROVE  /\ onBus' \in Counter /\ refused' \in RuleSets /\ kept' \in RuleSets
           /\ faults' \in 0..MaxFaults
<1>0. refused' \in RuleSets
  BY Zenon DEF BusRemove, CountersTyped, RuleSets
<1>1. CASE /\ Works
           /\ onBus' = [onBus EXCEPT ![b][r] = IF @ = 0 THEN 0 ELSE @ - 1]
           /\ UNCHANGED kept
  <2>1. (IF onBus[b][r] = 0 THEN 0 ELSE onBus[b][r] - 1) \in Nat
    BY DEF CountersTyped, Counter
  <2>2. onBus' = [onBus EXCEPT ![b] = [onBus[b] EXCEPT ![r] =
                     IF onBus[b][r] = 0 THEN 0 ELSE onBus[b][r] - 1]]
    BY <1>1, Zenon
  <2>3. QED
    BY <1>0, <1>1, <2>1, <2>2 DEF CountersTyped, Counter, RuleSets, Works
<1>2. CASE Fails /\ kept' = [kept EXCEPT ![b] = @ \cup {r}] /\ UNCHANGED onBus
  <2>1. faults' \in 0..MaxFaults
    BY <1>2, SubscriptionsAssumption DEF CountersTyped, Fails
  <2>2. QED
    BY <1>0, <1>2, <2>1, Zenon DEF CountersTyped, Counter, RuleSets
<1>3. QED
  BY <1>1, <1>2, Zenon DEF BusRemove

\* increment: one more reference, and nothing else about it.
LEMMA IncrementEffect ==
    ASSUME CountersTyped, NEW b \in Buses, NEW r \in Rules, Increment(b, r)
    PROVE  /\ CountersTyped' /\ OnlyAt(b, r)
           /\ counts'[b][r] = counts[b][r] + 1 /\ leaked' = leaked
<1>1. counts' \in Counter /\ counts'[b][r] = counts[b][r] + 1 /\ OnlyAt(b, r)
  BY DEF Increment, CountersTyped, Counter, OnlyAt
<1>2. onBus' \in Counter /\ refused' \in RuleSets /\ faults' \in 0..MaxFaults
  BY BusAddTyped, Zenon DEF Increment, CountersTyped
<1>3. QED
  BY <1>1, <1>2, Zenon DEF Increment, CountersTyped

\* decrement: a reference is given back, or noted as leaked where there is none.
LEMMA DecrementEffect ==
    ASSUME CountersTyped, NEW b \in Buses, NEW r \in Rules, Decrement(b, r)
    PROVE  /\ CountersTyped' /\ OnlyAt(b, r)
           /\ counts'[b][r] + leaked[b][r] + 1 = counts[b][r] + leaked'[b][r]
<1>1. onBus' \in Counter /\ refused' \in RuleSets /\ kept' \in RuleSets /\ faults' \in 0..MaxFaults
  BY BusRemoveTyped, Zenon DEF Decrement, CountersTyped
<1>2. CASE counts[b][r] > 0
  <2>1. counts[b][r] - 1 \in Nat
    BY <1>2 DEF CountersTyped, Counter
  <2>2. counts' = [counts EXCEPT ![b] = [counts[b] EXCEPT ![r] = counts[b][r] - 1]]
        /\ leaked' = leaked
    BY <1>2, Zenon DEF Decrement
  <2>3. counts' \in Counter /\ counts'[b][r] = counts[b][r] - 1
    BY <2>1, <2>2, Zenon DEF CountersTyped, Counter
  <2>4. OnlyAt(b, r)
    BY <2>2, Zenon DEF CountersTyped, Counter, OnlyAt
  <2>5. counts'[b][r] + leaked[b][r] + 1 = counts[b][r] + leaked'[b][r]
    BY <2>2, <2>3 DEF CountersTyped, Counter
  <2>6. CountersTyped'
    BY <1>1, <2>2, <2>3, Zenon DEF CountersTyped
  <2>7. QED
    BY <2>4, <2>5, <2>6, Zenon
<1>3. CASE ~ (counts[b][r] > 0)
  <2>1. leaked' = [leaked EXCEPT ![b] = [leaked[b] EXCEPT ![r] = leaked[b][r] + 1]]
        /\ counts' = counts
    BY <1>3, Zenon DEF Decrement
  <2>2. leaked' \in Counter /\ leaked'[b][r] = leaked[b][r] + 1
    BY <2>1 DEF CountersTyped, Counter
  <2>3. OnlyAt(b, r)
    BY <2>1, Zenon DEF CountersTyped, Counter, OnlyAt
  <2>4. counts'[b][r] + leaked[b][r] + 1 = counts[b][r] + leaked'[b][r]
    BY <2>1, <2>2 DEF CountersTyped, Counter
  <2>5. CountersTyped'
    BY <1>1, <2>1, <2>2, Zenon DEF CountersTyped
  <2>6. QED
    BY <2>3, <2>4, <2>5, Zenon
<1>4. QED
  BY <1>2, <1>3, Zenon

\* Registration on a bus follows the count through both operations: only the
\* step from 0 to 1 and the one from 1 to 0 reach the bus.
LEMMA IncrementBus ==
    ASSUME CountersTyped, BusMatchesCount, NEW b \in Buses, NEW r \in Rules, Increment(b, r)
    PROVE  BusMatchesCount'
<1> SUFFICES ASSUME NEW b1 \in Buses, NEW r1 \in Rules
             PROVE  /\ counts'[b1][r1] > 0 /\ r1 \notin refused'[b1] => onBus'[b1][r1] >= 1
                    /\ counts'[b1][r1] = 0 /\ r1 \notin kept'[b1] => onBus'[b1][r1] = 0
                    /\ r1 \notin kept'[b1] => onBus'[b1][r1] <= 1
  BY Zenon DEF BusMatchesCount
<1>0. /\ counts[b1][r1] > 0 /\ r1 \notin refused[b1] => onBus[b1][r1] >= 1
      /\ counts[b1][r1] = 0 /\ r1 \notin kept[b1] => onBus[b1][r1] = 0
      /\ r1 \notin kept[b1] => onBus[b1][r1] <= 1
      /\ counts[b1][r1] \in Nat /\ onBus[b1][r1] \in Nat
      /\ kept' = kept
  BY Zenon DEF BusMatchesCount, CountersTyped, Counter, Increment
<1>1. CASE b1 = b /\ r1 = r
  <2>1. counts'[b1][r1] = counts[b1][r1] + 1
    BY <1>1, IncrementEffect, Zenon
  <2>2. CASE counts[b][r] # 0
    <3>1. onBus' = onBus /\ refused' = refused
      BY <2>2 DEF Increment, CountersTyped, Counter
    <3>2. QED
      BY <1>0, <1>1, <2>1, <2>2, <3>1
  <2>3. CASE counts[b][r] = 0 /\ onBus' = [onBus EXCEPT ![b][r] = @ + 1] /\ UNCHANGED refused
    <3>1. onBus'[b1][r1] = onBus[b1][r1] + 1
      BY <1>1, <2>3, Zenon DEF CountersTyped, Counter
    <3>2. QED
      BY <1>0, <1>1, <2>1, <2>3, <3>1
  <2>4. CASE counts[b][r] = 0 /\ refused' = [refused EXCEPT ![b] = @ \cup {r}] /\ UNCHANGED onBus
    <3>1. r1 \in refused'[b1] /\ onBus'[b1][r1] = onBus[b1][r1]
      BY <1>1, <2>4, Zenon DEF CountersTyped, RuleSets
    <3>2. QED
      BY <1>0, <1>1, <2>1, <2>4, <3>1, Zenon
  <2>5. QED
    BY <2>2, <2>3, <2>4 DEF Increment, BusAdd
<1>2. CASE b1 # b \/ r1 # r
  <2>1. counts'[b1][r1] = counts[b1][r1]
    BY <1>2, IncrementEffect DEF OnlyAt
  <2>2. onBus'[b1][r1] = onBus[b1][r1] /\ (r1 \in refused'[b1] <=> r1 \in refused[b1])
    <3>1. onBus'[b1][r1] = onBus[b1][r1]
      BY <1>2 DEF Increment, BusAdd, CountersTyped, Counter
    <3>2. r1 \in refused'[b1] <=> r1 \in refused[b1]
      BY <1>2, Zenon DEF Increment, BusAdd, CountersTyped, RuleSets
    <3>3. QED
      BY <3>1, <3>2, Zenon
  <2>3. QED
    BY <1>0, <2>1, <2>2, Zenon
<1>3. QED
  BY <1>1, <1>2, Zenon

\* Taking a reference away keeps bus and count together: the bus hears of it when
\* the last one goes.
LEMMA DecrementBus ==
    ASSUME CountersTyped, BusMatchesCount, NEW b \in Buses, NEW r \in Rules, Decrement(b, r)
    PROVE  BusMatchesCount'
<1> SUFFICES ASSUME NEW b1 \in Buses, NEW r1 \in Rules
             PROVE  /\ counts'[b1][r1] > 0 /\ r1 \notin refused'[b1] => onBus'[b1][r1] >= 1
                    /\ counts'[b1][r1] = 0 /\ r1 \notin kept'[b1] => onBus'[b1][r1] = 0
                    /\ r1 \notin kept'[b1] => onBus'[b1][r1] <= 1
  BY Zenon DEF BusMatchesCount
<1>0. /\ counts[b1][r1] > 0 /\ r1 \notin refused[b1] => onBus[b1][r1] >= 1
      /\ counts[b1][r1] = 0 /\ r1 \notin kept[b1] => onBus[b1][r1] = 0
      /\ r1 \notin kept[b1] => onBus[b1][r1] <= 1
      /\ counts[b1][r1] \in Nat /\ onBus[b1][r1] \in Nat
  BY Zenon DEF BusMatchesCount, CountersTyped, Counter
<1>1. CASE b1 = b /\ r1 = r
  <2>1. CASE counts[b][r] # 1
    <3>1. onBus' = onBus /\ refused' = refused /\ kept' = kept
      BY <2>1, Zenon DEF Decrement
    <3>2. counts'[b1][r1] = IF counts[b1][r1] > 0 THEN counts[b1][r1] - 1 ELSE counts[b1][r1]
      BY <1>1, Zenon DEF Decrement, CountersTyped, Counter
    <3>3. QED
      BY <1>0, <1>1, <2>1, <3>1, <3>2
  <2>2. CASE counts[b][r] = 1
    <3>1. counts'[b1][r1] = 0
      BY <1>1, <2>2 DEF Decrement, CountersTyped, Counter
    <3>2. CASE onBus' = [onBus EXCEPT ![b][r] = IF @ = 0 THEN 0 ELSE @ - 1] /\ UNCHANGED kept
      <4>1. onBus'[b1][r1] = IF onBus[b1][r1] = 0 THEN 0 ELSE onBus[b1][r1] - 1
        BY <1>1, <3>2, Zenon DEF CountersTyped, Counter
      <4>2. kept' = kept
        BY <3>2, Zenon
      <4>3. QED
        BY <1>0, <3>1, <4>1, <4>2
    <3>3. CASE kept' = [kept EXCEPT ![b] = @ \cup {r}]
      <4>1. r1 \in kept'[b1]
        BY <1>1, <3>3, Zenon DEF CountersTyped, RuleSets
      <4>2. QED
        BY <3>1, <4>1
    <3>4. QED
      BY <2>2, <3>2, <3>3, Zenon DEF Decrement, BusRemove
  <2>3. QED
    BY <2>1, <2>2, Zenon
<1>2. CASE b1 # b \/ r1 # r
  <2>1. counts'[b1][r1] = counts[b1][r1]
    BY <1>2, DecrementEffect, ZenonT(40) DEF OnlyAt
  <2>2. onBus'[b1][r1] = onBus[b1][r1]
    BY <1>2 DEF Decrement, BusRemove, CountersTyped, Counter
  <2>3. r1 \in refused'[b1] <=> r1 \in refused[b1]
    BY <1>2, Zenon DEF Decrement, BusRemove, CountersTyped, RuleSets
  <2>4. r1 \in kept'[b1] <=> r1 \in kept[b1]
    BY <1>2 DEF Decrement, BusRemove, CountersTyped, RuleSets
  <2>5. QED
    BY <1>0, <2>1, <2>2, <2>3, <2>4, Zenon
<1>3. QED
  BY <1>1, <1>2, Zenon

-----------------------------------------------------------------------------
(* Types, and the invariants of handlers and tasks.                        *)

\* The variables the counter does not change are well typed.
OthersTyped ==
    /\ clients \subseteq Clients
    /\ rules \in [Clients -> SUBSET Rules]
    /\ lock \in Clients \cup {None, "main"}
    /\ main \in [pc : {"idle", "container", "host"},
                 call : {None, "AddMatch", "RemoveMatch"},
                 client : Clients \cup {None}, rule : Rules \cup {None}]
    /\ task \in [Clients -> [pc : {"absent", "running", "lock", "rules", "done"},
                             rules : SUBSET Rules, host : Rules \cup {None}]]
    /\ calls \in 0..MaxCalls

\* The type invariant is that of the counters and that of the rest.
LEMMA TypeParts == TypeOK <=> CountersTyped /\ OthersTyped
  BY Zenon DEF TypeOK, CountersTyped, OthersTyped, Counter, RuleSets

\* The same after a step.
LEMMA TypePartsNext == TypeOK' <=> CountersTyped' /\ OthersTyped'
  BY Zenon DEF TypeOK, CountersTyped, OthersTyped, Counter, RuleSets

\* An update by the event loop, whichever of the two it is.
LEMMA UpdateTyped ==
    ASSUME CountersTyped, NEW b \in Buses, NEW r \in Rules, Update(b, r)
    PROVE  CountersTyped'
  BY IncrementEffect, DecrementEffect, Zenon DEF Update

\* Every step leaves the counters well typed.
LEMMA CountersStep ==
    ASSUME TypeOK, TasksProper, MainProper, Next
    PROVE  CountersTyped'
<1>0. CountersTyped /\ OthersTyped
  BY TypeParts, Zenon
<1>1. CASE MainContainer
  BY <1>0, <1>1, UpdateTyped, Zenon DEF MainContainer, MainProper, Buses
<1>2. CASE MainHost
  BY <1>0, <1>2, UpdateTyped, Zenon DEF MainHost, MainProper, Buses
<1>3. CASE Rest
  BY <1>0, <1>3, Zenon DEF Rest, CountersTyped, vars, busVars
<1>4. ASSUME NEW c \in Clients, Connect(c) \/ Unregister(c) \/ Lock(c) \/ Unlock(c)
      PROVE  CountersTyped'
  BY <1>0, <1>4, Zenon DEF Connect, Unregister, Lock, Unlock, CountersTyped, busVars
<1>5. ASSUME NEW c \in Clients, NEW r \in Rules, TaskContainer(c, r)
      PROVE  CountersTyped'
  BY <1>0, <1>5, DecrementEffect, Zenon DEF TaskContainer, Buses
<1>6. ASSUME NEW c \in Clients, TaskHost(c)
      PROVE  CountersTyped'
  <2>1. task[c].host \in Rules
    BY <1>0, <1>6, Zenon DEF TaskHost, OthersTyped
  <2>2. QED
    BY <1>0, <1>6, <2>1, DecrementEffect, Zenon DEF TaskHost, Buses
<1>7. ASSUME NEW c \in Clients, NEW r \in Rules, AddMatch(c, r)
      PROVE  CountersTyped'
  <2>1. leaked' \in Counter
    <3>1. CASE leaked' = leaked
      BY <1>0, <3>1, Zenon DEF CountersTyped
    <3>2. CASE leaked' = [b \in Buses |-> [leaked[b] EXCEPT ![r] = @ + 1]]
      BY <1>0, <3>2 DEF CountersTyped, Counter
    <3>3. QED
      BY <1>7, <3>1, <3>2, Zenon DEF AddMatch
  <2>2. QED
    BY <1>0, <1>7, <2>1, Zenon DEF AddMatch, CountersTyped
<1>8. ASSUME NEW c \in Clients, NEW r \in Rules, RemoveMatch(c, r)
      PROVE  CountersTyped'
  BY <1>0, <1>8, Zenon DEF RemoveMatch, CountersTyped, busVars
<1>9. QED
  BY <1>1, <1>2, <1>3, <1>4, <1>5, <1>6, <1>7, <1>8, Zenon DEF Next, CleanupStep

\* Every step leaves everything but the counters well typed.
LEMMA OthersStep ==
    ASSUME TypeOK, Next
    PROVE  OthersTyped'
<1>0. OthersTyped
  BY TypeParts, Zenon
<1>1. CASE MainContainer
  BY <1>0, <1>1, Zenon DEF MainContainer, OthersTyped
<1>2. CASE MainHost
  BY <1>0, <1>2, Zenon DEF MainHost, OthersTyped, Idle
<1>3. CASE Rest
  BY <1>0, <1>3, Zenon DEF Rest, OthersTyped, vars
<1>4. ASSUME NEW c \in Clients, Connect(c)
      PROVE  OthersTyped'
  BY <1>0, <1>4, ZenonT(30) DEF Connect, OthersTyped
<1>5. ASSUME NEW c \in Clients, Unregister(c)
      PROVE  OthersTyped'
  <2>1. rules[c] \in SUBSET Rules
    BY <1>0, Zenon DEF OthersTyped
  <2>2. task' \in [Clients -> [pc : {"absent", "running", "lock", "rules", "done"},
                               rules : SUBSET Rules, host : Rules \cup {None}]]
    <3>1. PICK p \in {"done", "lock"} :
              task' = [task EXCEPT ![c].pc = p, ![c].rules = rules[c]]
      BY <1>5, Zenon DEF Unregister
    <3> DEFINE Task == [pc : {"absent", "running", "lock", "rules", "done"},
                        rules : SUBSET Rules, host : Rules \cup {None}]
               new == [task[c] EXCEPT !.pc = p, !.rules = rules[c]]
    <3>2. task \in [Clients -> Task]
      BY <1>0, Zenon DEF OthersTyped
    <3>3. new \in Task
      BY <2>1, <3>2, Zenon
    <3>4. task' = [task EXCEPT ![c] = new]
      BY <3>1, <3>2, Zenon
    <3> HIDE DEF Task, new
    <3>5. task' \in [Clients -> Task]
      BY <3>2, <3>3, <3>4, Zenon
    <3>6. QED
      BY <3>5, Zenon DEF Task
  <2>3. QED
    BY <1>0, <1>5, <2>2, Zenon DEF Unregister, OthersTyped
<1>6. ASSUME NEW c \in Clients, Lock(c) \/ Unlock(c)
      PROVE  OthersTyped'
  BY <1>0, <1>6 DEF Lock, Unlock, OthersTyped
<1>7. ASSUME NEW c \in Clients, NEW r \in Rules, TaskContainer(c, r)
      PROVE  OthersTyped'
  BY <1>0, <1>7 DEF TaskContainer, OthersTyped
<1>8. ASSUME NEW c \in Clients, TaskHost(c)
      PROVE  OthersTyped'
  BY <1>0, <1>8, ZenonT(30) DEF TaskHost, OthersTyped
<1>9. ASSUME NEW c \in Clients, NEW r \in Rules, AddMatch(c, r) \/ RemoveMatch(c, r)
      PROVE  OthersTyped'
  <2>1. calls' \in 0..MaxCalls
    BY <1>0, <1>9, SubscriptionsAssumption DEF AddMatch, RemoveMatch, Take, OthersTyped
  <2>2. rules' \in [Clients -> SUBSET Rules]
    BY <1>0, <1>9 DEF AddMatch, RemoveMatch, OthersTyped
  <2>3. main' \in [pc : {"idle", "container", "host"},
                   call : {None, "AddMatch", "RemoveMatch"},
                   client : Clients \cup {None}, rule : Rules \cup {None}]
    BY <1>0, <1>9 DEF AddMatch, RemoveMatch, Handle, OthersTyped
  <2>4. QED
    BY <1>0, <1>9, <2>1, <2>2, <2>3, Zenon DEF AddMatch, RemoveMatch, OthersTyped
<1>10. QED
  BY <1>1, <1>2, <1>3, <1>4, <1>5, <1>6, <1>7, <1>8, <1>9, Zenon DEF Next, CleanupStep

\* The tasks' part of the invariant is about clients, rules and task alone.
LEMMA TasksStep ==
    ASSUME TypeOK, TasksProper, Next
    PROVE  TasksProper'
<1>0. OthersTyped
  BY TypeParts, Zenon
<1>1. CASE MainContainer \/ MainHost \/ Rest
  BY <1>1, Zenon DEF MainContainer, MainHost, Rest, vars, TasksProper
<1>2. ASSUME NEW c \in Clients, Connect(c)
      PROVE  TasksProper'
  <2>1. task'[c].pc = "running" /\ task'[c].rules = {} /\ task'[c].host = None /\ c \in clients'
    BY <1>0, <1>2, ZenonT(40) DEF Connect, OthersTyped, TasksProper
  <2>2. \A c1 \in Clients \ {c} : task'[c1] = task[c1] /\ (c1 \in clients' <=> c1 \in clients)
    BY <1>0, <1>2, Zenon DEF Connect, OthersTyped
  <2>3. rules' = rules
    BY <1>2, Zenon DEF Connect
  <2>4. QED
    BY <2>1, <2>2, <2>3, Zenon DEF TasksProper
<1>3. ASSUME NEW c \in Clients, Unregister(c)
      PROVE  TasksProper'
  <2>1. task[c].host = None /\ rules[c] \in SUBSET Rules
    BY <1>0, <1>3, Zenon DEF Unregister, OthersTyped, TasksProper
  <2>2. PICK p \in {"done", "lock"} :
            /\ task' = [task EXCEPT ![c].pc = p, ![c].rules = rules[c]]
            /\ p = "done" => rules[c] = {}
    BY <1>3, Zenon DEF Unregister
  <2>3. /\ task'[c].pc = p /\ task'[c].rules = rules[c] /\ task'[c].host = None
        /\ rules'[c] = {} /\ c \notin clients'
    BY <1>0, <1>3, <2>1, <2>2 DEF Unregister, OthersTyped
  <2>4. \A c1 \in Clients \ {c} :
            task'[c1] = task[c1] /\ rules'[c1] = rules[c1] /\ (c1 \in clients' <=> c1 \in clients)
    BY <1>0, <1>3, <2>2, Zenon DEF Unregister, OthersTyped
  <2>5. None \notin rules[c]
    BY <2>1, SubscriptionsAssumption, Zenon
  <2>6. SUFFICES ASSUME NEW c1 \in Clients
        PROVE  /\ c1 \in clients' <=> task'[c1].pc = "running"
               /\ c1 \notin clients' => rules'[c1] = {}
               /\ task'[c1].pc \notin {"lock", "rules"} => task'[c1].rules = {}
               /\ task'[c1].pc # "rules" => task'[c1].host = None
               /\ task'[c1].host \notin task'[c1].rules
    BY Zenon DEF TasksProper
  <2>7. CASE c1 = c
    BY <2>2, <2>3, <2>5, <2>7, Zenon
  <2>8. CASE c1 # c
    BY <2>4, <2>8, Zenon DEF TasksProper
  <2>9. QED
    BY <2>7, <2>8, Zenon
<1>4. ASSUME NEW c \in Clients, Lock(c) \/ Unlock(c) \/ TaskHost(c)
      PROVE  TasksProper'
  <2>1. /\ task[c].pc \in {"lock", "rules"} /\ task'[c].pc \in {"rules", "done"}
        /\ task'[c].rules = task[c].rules /\ task'[c].host = None
        /\ task'[c].pc = "done" => task[c].rules = {}
    BY <1>0, <1>4 DEF Lock, Unlock, TaskHost, OthersTyped, TasksProper
  <2>2. \A c1 \in Clients \ {c} : task'[c1] = task[c1]
    BY <1>0, <1>4, Zenon DEF Lock, Unlock, TaskHost, OthersTyped
  <2>3. None \notin task[c].rules
    BY <1>0, SubscriptionsAssumption, Zenon DEF OthersTyped
  <2>4. rules' = rules /\ clients' = clients
    BY <1>4, Zenon DEF Lock, Unlock, TaskHost
  <2>5. QED
    BY <2>1, <2>2, <2>3, <2>4, ZenonT(40) DEF TasksProper
<1>5. ASSUME NEW c \in Clients, NEW r \in Rules, TaskContainer(c, r)
      PROVE  TasksProper'
  <2>1. /\ task[c].pc = "rules" /\ task'[c].pc = "rules"
        /\ task'[c].rules = task[c].rules \ {r} /\ task'[c].host = r
    BY <1>0, <1>5, Zenon DEF TaskContainer, OthersTyped
  <2>2. \A c1 \in Clients \ {c} : task'[c1] = task[c1]
    BY <1>0, <1>5, Zenon DEF TaskContainer, OthersTyped
  <2>3. rules' = rules /\ clients' = clients
    BY <1>5, Zenon DEF TaskContainer
  <2>4. QED
    BY <2>1, <2>2, <2>3, ZenonT(40) DEF TasksProper
<1>6. ASSUME NEW c \in Clients, NEW r \in Rules, AddMatch(c, r) \/ RemoveMatch(c, r)
      PROVE  TasksProper'
  <2>1. task' = task /\ clients' = clients
    BY <1>6, Zenon DEF AddMatch, RemoveMatch
  <2>2. \A c1 \in Clients : c1 \notin clients => rules'[c1] = rules[c1]
    BY <1>0, <1>6, Zenon DEF AddMatch, RemoveMatch, OthersTyped
  <2>3. QED
    BY <2>1, <2>2, Zenon DEF TasksProper
<1>7. QED
  BY <1>1, <1>2, <1>3, <1>4, <1>5, <1>6, Zenon DEF Next, CleanupStep

\* The event loop always holds a rule whose update is under way, or none.
LEMMA MainStep ==
    ASSUME TypeOK, MainProper, Next
    PROVE  MainProper'
<1>1. CASE MainContainer
  BY <1>1, Zenon DEF MainContainer, MainProper, TypeOK
<1>2. CASE MainHost
  BY <1>2, Zenon DEF MainHost, MainProper, Idle
<1>3. ASSUME NEW c \in Clients, NEW r \in Rules, AddMatch(c, r) \/ RemoveMatch(c, r)
      PROVE  MainProper'
  BY <1>3 DEF AddMatch, RemoveMatch, Handle, MainProper
<1>4. CASE main' = main
  BY <1>4, Zenon DEF MainProper
<1>5. QED
  BY <1>1, <1>2, <1>3, <1>4, Zenon
  DEF Next, CleanupStep, Rest, vars, Connect, Unregister, Lock, Unlock, TaskHost, TaskContainer

\* Only Increment and Decrement touch what BusMatchesCount is about.
LEMMA BusStep ==
    ASSUME TypeOK, MainProper, BusMatchesCount, Next
    PROVE  BusMatchesCount'
<1>0. CountersTyped /\ OthersTyped
  BY TypeParts, Zenon
<1>1. CASE MainContainer
  <2>1. main.rule \in Rules /\ "container" \in Buses
    BY <1>1, Zenon DEF MainContainer, MainProper, Buses
  <2>2. QED
    BY <1>0, <1>1, <2>1, IncrementBus, DecrementBus, Zenon DEF MainContainer, Update
<1>2. CASE MainHost
  <2>1. main.rule \in Rules /\ "host" \in Buses
    BY <1>2, Zenon DEF MainHost, MainProper, Buses
  <2>2. QED
    BY <1>0, <1>2, <2>1, IncrementBus, DecrementBus, Zenon DEF MainHost, Update
<1>3. ASSUME NEW c \in Clients, NEW r \in Rules, TaskContainer(c, r)
      PROVE  BusMatchesCount'
  BY <1>0, <1>3, DecrementBus, Zenon DEF TaskContainer, Buses
<1>4. ASSUME NEW c \in Clients, TaskHost(c)
      PROVE  BusMatchesCount'
  <2>1. task[c].host \in Rules /\ "host" \in Buses
    BY <1>0, <1>4, Zenon DEF TaskHost, OthersTyped, Buses
  <2>2. QED
    BY <1>0, <1>4, <2>1, DecrementBus, Zenon DEF TaskHost
<1>5. CASE counts' = counts /\ onBus' = onBus /\ refused' = refused /\ kept' = kept
  BY <1>5, Zenon DEF BusMatchesCount
<1>6. QED
  BY <1>1, <1>2, <1>3, <1>4, <1>5, Zenon
  DEF Next, CleanupStep, Rest, vars, busVars, Connect, Unregister, Lock, Unlock, AddMatch, RemoveMatch

-----------------------------------------------------------------------------
(* The count is exact.                                                     *)

\* The equation of CountIsExact, and that its parts are numbers.
LEMMA CountFacts ==
    ASSUME TypeOK, CountIsExact, NEW b \in Buses, NEW r \in Rules
    PROVE  /\ counts[b][r] \in Nat /\ leaked[b][r] \in Nat
           /\ Adding(b, r) \in {0, 1} /\ Removing(b, r) \in {0, 1}
           /\ IsFiniteSet(Listing(r)) /\ Cardinality(Listing(r)) \in Nat
           /\ IsFiniteSet(Leaving(b, r)) /\ Cardinality(Leaving(b, r)) \in Nat
           /\ counts[b][r] + Adding(b, r) =
                  Cardinality(Listing(r)) + Cardinality(Leaving(b, r))
                  + Removing(b, r) + leaked[b][r]
<1>1. counts[b][r] \in Nat /\ leaked[b][r] \in Nat
  BY DEF TypeOK
<1>2. Adding(b, r) \in {0, 1} /\ Removing(b, r) \in {0, 1}
  BY Zenon DEF Adding, Removing
<1>3. IsFiniteSet(Listing(r)) /\ IsFiniteSet(Leaving(b, r))
  <2>1. Listing(r) \subseteq Clients /\ Leaving(b, r) \subseteq Clients
    BY Zenon DEF Listing, Leaving, TypeOK
  <2>2. QED
    BY <2>1, FS_Subset, SubscriptionsAssumption, Zenon
<1>4. QED
  BY <1>1, <1>2, <1>3, FS_CardinalityType, Zenon DEF CountIsExact

\* Handlers and clean-ups that leave lists, tasks and handler as they are.
LEMMA SameHolders ==
    ASSUME NEW b \in Buses, NEW r \in Rules
    PROVE  /\ clients' = clients /\ rules' = rules => Listing(r)' = Listing(r)
           /\ task' = task => Leaving(b, r)' = Leaving(b, r)
           /\ main' = main => /\ Adding(b, r)' = Adding(b, r)
                              /\ Removing(b, r)' = Removing(b, r)
  BY Zenon DEF Listing, Leaving, Adding, Removing, MainAbout

\* The first half of a handler: its call counts for the container bus.
LEMMA ExactMainContainer ==
    ASSUME TypeOK, MainProper, CountIsExact, MainContainer
    PROVE  CountIsExact'
<1> SUFFICES ASSUME NEW b \in Buses, NEW r \in Rules
             PROVE  (counts[b][r] + Adding(b, r) =
                        Cardinality(Listing(r)) + Cardinality(Leaving(b, r))
                        + Removing(b, r) + leaked[b][r])'
  BY Zenon DEF CountIsExact
<1>0. CountersTyped /\ main.rule \in Rules /\ main.call \in {"AddMatch", "RemoveMatch"}
  BY TypeParts, Zenon DEF MainProper, MainContainer
<1>1. Listing(r)' = Listing(r) /\ Leaving(b, r)' = Leaving(b, r)
  BY SameHolders, Zenon DEF MainContainer
<1>2. main'.pc = "host" /\ main'.call = main.call /\ main'.rule = main.rule /\ main.pc = "container"
  BY Zenon DEF MainContainer, TypeOK
<1>3. CASE b = "container" /\ r = main.rule
  <2>1. Adding(b, r)' = 0 /\ Removing(b, r)' = 0
    BY <1>2, <1>3, Zenon DEF Adding, Removing, MainAbout
  <2>2. CASE main.call = "AddMatch"
    <3>1. counts'[b][r] = counts[b][r] + 1 /\ leaked'[b][r] = leaked[b][r]
      BY <1>0, <1>3, <2>2, IncrementEffect, Zenon DEF MainContainer, Update
    <3>2. Adding(b, r) = 1 /\ Removing(b, r) = 0
      BY <1>2, <1>3, <2>2, Zenon DEF Adding, Removing, MainAbout
    <3>3. QED
      BY <1>1, <2>1, <3>1, <3>2, CountFacts
  <2>3. CASE main.call = "RemoveMatch"
    <3>1. counts'[b][r] + leaked[b][r] + 1 = counts[b][r] + leaked'[b][r] /\ CountersTyped'
      BY <1>0, <1>3, <2>3, DecrementEffect, Zenon DEF MainContainer, Update
    <3>2. Adding(b, r) = 0 /\ Removing(b, r) = 1
      BY <1>2, <1>3, <2>3, Zenon DEF Adding, Removing, MainAbout
    <3>3. counts'[b][r] \in Nat /\ leaked'[b][r] \in Nat
      BY <3>1, Zenon DEF CountersTyped, Counter
    <3>4. QED
      BY <1>1, <2>1, <3>1, <3>2, <3>3, CountFacts
  <2>4. QED
    BY <1>0, <2>2, <2>3, Zenon
<1>4. CASE b # "container" \/ r # main.rule
  <2>1. counts'[b][r] = counts[b][r] /\ leaked'[b][r] = leaked[b][r]
    BY <1>0, <1>4, IncrementEffect, DecrementEffect DEF MainContainer, Update, OnlyAt, Buses
  <2>2. Adding(b, r)' = Adding(b, r) /\ Removing(b, r)' = Removing(b, r)
    BY <1>2, <1>4, Zenon DEF Adding, Removing, MainAbout, Buses
  <2>3. QED
    BY <1>1, <2>1, <2>2, CountFacts, Zenon
<1>5. QED
  BY <1>3, <1>4, Zenon

\* The second half: its call counts for the host bus too, and the handler ends.
LEMMA ExactMainHost ==
    ASSUME TypeOK, MainProper, CountIsExact, MainHost
    PROVE  CountIsExact'
<1> SUFFICES ASSUME NEW b \in Buses, NEW r \in Rules
             PROVE  (counts[b][r] + Adding(b, r) =
                        Cardinality(Listing(r)) + Cardinality(Leaving(b, r))
                        + Removing(b, r) + leaked[b][r])'
  BY Zenon DEF CountIsExact
<1>0. CountersTyped /\ main.rule \in Rules /\ main.call \in {"AddMatch", "RemoveMatch"}
  BY TypeParts, Zenon DEF MainProper, MainHost
<1>1. Listing(r)' = Listing(r) /\ Leaving(b, r)' = Leaving(b, r)
  BY SameHolders, Zenon DEF MainHost
<1>2. main'.pc = "idle" /\ main.pc = "host"
  BY Zenon DEF MainHost, Idle
<1>3. Adding(b, r)' = 0 /\ Removing(b, r)' = 0
  BY <1>2, Zenon DEF Adding, Removing, MainAbout
<1>4. CASE b = "host" /\ r = main.rule
  <2>1. CASE main.call = "AddMatch"
    <3>1. counts'[b][r] = counts[b][r] + 1 /\ leaked'[b][r] = leaked[b][r]
      BY <1>0, <1>4, <2>1, IncrementEffect, Zenon DEF MainHost, Update
    <3>2. Adding(b, r) = 1 /\ Removing(b, r) = 0
      BY <1>2, <1>4, <2>1, Zenon DEF Adding, Removing, MainAbout
    <3>3. QED
      BY <1>1, <1>3, <3>1, <3>2, CountFacts
  <2>2. CASE main.call = "RemoveMatch"
    <3>1. counts'[b][r] + leaked[b][r] + 1 = counts[b][r] + leaked'[b][r] /\ CountersTyped'
      BY <1>0, <1>4, <2>2, DecrementEffect, Zenon DEF MainHost, Update
    <3>2. Adding(b, r) = 0 /\ Removing(b, r) = 1
      BY <1>2, <1>4, <2>2, Zenon DEF Adding, Removing, MainAbout
    <3>3. counts'[b][r] \in Nat /\ leaked'[b][r] \in Nat
      BY <3>1, Zenon DEF CountersTyped, Counter
    <3>4. QED
      BY <1>1, <1>3, <3>1, <3>2, <3>3, CountFacts
  <2>3. QED
    BY <1>0, <2>1, <2>2, Zenon
<1>5. CASE b # "host" \/ r # main.rule
  <2>1. counts'[b][r] = counts[b][r] /\ leaked'[b][r] = leaked[b][r]
    BY <1>0, <1>5, IncrementEffect, DecrementEffect DEF MainHost, Update, OnlyAt, Buses
  <2>2. Adding(b, r) = 0 /\ Removing(b, r) = 0
    BY <1>2, <1>5, Zenon DEF Adding, Removing, MainAbout
  <2>3. QED
    BY <1>1, <1>3, <2>1, <2>2, CountFacts, Zenon
<1>6. QED
  BY <1>4, <1>5, Zenon

\* AddMatch lists the rule before it is counted, or notes a leak.
LEMMA ExactAddMatch ==
    ASSUME TypeOK, CountIsExact, NEW c \in Clients, NEW r \in Rules, AddMatch(c, r)
    PROVE  CountIsExact'
<1> SUFFICES ASSUME NEW b \in Buses, NEW r1 \in Rules
             PROVE  (counts[b][r1] + Adding(b, r1) =
                        Cardinality(Listing(r1)) + Cardinality(Leaving(b, r1))
                        + Removing(b, r1) + leaked[b][r1])'
  BY Zenon DEF CountIsExact
<1>1. main.pc = "idle" /\ counts' = counts /\ clients' = clients /\ task' = task
  BY Zenon DEF AddMatch, Take, Idle
<1>2. Adding(b, r1) = 0 /\ Removing(b, r1) = 0 /\ Leaving(b, r1)' = Leaving(b, r1)
  BY <1>1, SameHolders, Zenon DEF Adding, Removing, MainAbout
<1>3. CASE r \notin Valid
  <2>1. rules' = rules /\ leaked' = leaked /\ main' = main
    BY <1>3, Zenon DEF AddMatch
  <2>2. QED
    BY <1>1, <1>2, <2>1, SameHolders, CountFacts, Zenon
<1>4. CASE r \in Valid
  <2>1. main'.pc = "container" /\ main'.call = "AddMatch" /\ main'.rule = r
    BY <1>4 DEF AddMatch, Handle
  <2>2. Adding(b, r1)' = (IF r1 = r THEN 1 ELSE 0) /\ Removing(b, r1)' = 0
    BY <2>1, Zenon DEF Adding, Removing, MainAbout
  <2>3. CASE c \in clients /\ r \notin rules[c]
    <3>1. rules' = [rules EXCEPT ![c] = @ \cup {r}] /\ leaked' = leaked
      BY <1>4, <2>3, Zenon DEF AddMatch
    <3>2. r1 = r => Listing(r1)' = Listing(r1) \cup {c} /\ c \notin Listing(r1)
      BY <1>1, <2>3, <3>1, ZenonT(40) DEF Listing, TypeOK
    <3>3. r1 # r => Listing(r1)' = Listing(r1)
      BY <1>1, <2>3, <3>1, Zenon DEF Listing, TypeOK
    <3>4. r1 = r => Cardinality(Listing(r1)') = Cardinality(Listing(r1)) + 1
      BY <3>2, CountFacts, FS_AddElement, SMTT(40)
    <3>5. QED
      BY <1>1, <1>2, <2>2, <3>1, <3>3, <3>4, CountFacts
  <2>4. CASE ~ (c \in clients /\ r \notin rules[c])
    <3>1. leaked' = [b1 \in Buses |-> [leaked[b1] EXCEPT ![r] = @ + 1]]
      BY <1>4, <2>4, Zenon DEF AddMatch
    <3>2. leaked'[b][r1] = IF r1 = r THEN leaked[b][r1] + 1 ELSE leaked[b][r1]
      BY <3>1, Zenon DEF TypeOK
    <3>3. rules' = rules
      <4>1. CASE c \notin clients
        BY <1>4, <4>1, Zenon DEF AddMatch
      <4>2. CASE c \in clients /\ r \in rules[c]
        <5>1. rules' = [rules EXCEPT ![c] = rules[c] \cup {r}] /\ rules[c] \cup {r} = rules[c]
          BY <1>4, <4>2, Zenon DEF AddMatch
        <5>2. QED
          BY <5>1, Zenon DEF TypeOK
      <4>3. QED
        BY <2>4, <4>1, <4>2, Zenon
    <3>4. Listing(r1)' = Listing(r1)
      BY <1>1, <3>3, SameHolders, Zenon
    <3>5. QED
      BY <1>1, <1>2, <2>2, <3>2, <3>4, CountFacts
  <2>5. QED
    BY <2>3, <2>4, Zenon
<1>5. QED
  BY <1>3, <1>4, Zenon

\* RemoveMatch takes the rule off the list before it is counted down.
LEMMA ExactRemoveMatch ==
    ASSUME TypeOK, CountIsExact, NEW c \in Clients, NEW r \in Rules, RemoveMatch(c, r)
    PROVE  CountIsExact'
<1> SUFFICES ASSUME NEW b \in Buses, NEW r1 \in Rules
             PROVE  (counts[b][r1] + Adding(b, r1) =
                        Cardinality(Listing(r1)) + Cardinality(Leaving(b, r1))
                        + Removing(b, r1) + leaked[b][r1])'
  BY Zenon DEF CountIsExact
<1>1. /\ main.pc = "idle" /\ counts' = counts /\ clients' = clients /\ task' = task
      /\ leaked' = leaked
  BY Zenon DEF RemoveMatch, Take, Idle, busVars
<1>2. Adding(b, r1) = 0 /\ Removing(b, r1) = 0 /\ Leaving(b, r1)' = Leaving(b, r1)
  BY <1>1, SameHolders, Zenon DEF Adding, Removing, MainAbout
<1>3. CASE ~ (c \in clients /\ r \in rules[c])
  <2>1. rules' = rules /\ main' = main
    BY <1>3, Zenon DEF RemoveMatch
  <2>2. QED
    BY <1>1, <1>2, <2>1, SameHolders, CountFacts, Zenon
<1>4. CASE c \in clients /\ r \in rules[c]
  <2>1. /\ main'.pc = "container" /\ main'.call = "RemoveMatch" /\ main'.rule = r
        /\ rules' = [rules EXCEPT ![c] = @ \ {r}]
    BY <1>4 DEF RemoveMatch, Handle
  <2>2. Removing(b, r1)' = (IF r1 = r THEN 1 ELSE 0) /\ Adding(b, r1)' = 0
    BY <2>1, Zenon DEF Adding, Removing, MainAbout
  <2>3. r1 = r => Listing(r1)' = Listing(r1) \ {c} /\ c \in Listing(r1)
    BY <1>1, <1>4, <2>1, Zenon DEF Listing, TypeOK
  <2>4. r1 # r => Listing(r1)' = Listing(r1)
    BY <1>1, <1>4, <2>1, Zenon DEF Listing, TypeOK
  <2>5. r1 = r => Cardinality(Listing(r1)') = Cardinality(Listing(r1)) - 1
    BY <2>3, CountFacts, FS_RemoveElement
  <2>6. QED
    BY <1>1, <1>2, <2>2, <2>4, <2>5, CountFacts
<1>5. QED
  BY <1>3, <1>4, Zenon

\* A client comes without rules.
LEMMA ExactConnect ==
    ASSUME TypeOK, TasksProper, CountIsExact, NEW c \in Clients, Connect(c)
    PROVE  CountIsExact'
<1> SUFFICES ASSUME NEW b \in Buses, NEW r1 \in Rules
             PROVE  (counts[b][r1] + Adding(b, r1) =
                        Cardinality(Listing(r1)) + Cardinality(Leaving(b, r1))
                        + Removing(b, r1) + leaked[b][r1])'
  BY Zenon DEF CountIsExact
<1>1. /\ counts' = counts /\ leaked' = leaked /\ main' = main /\ rules' = rules
      /\ clients' = clients \cup {c} /\ rules[c] = {}
  BY Zenon DEF Connect, busVars, TasksProper
<1>2. Listing(r1)' = Listing(r1)
  BY <1>1, Zenon DEF Listing
<1>3. \A c1 \in Clients : task'[c1].rules = task[c1].rules /\ task'[c1].host = task[c1].host
  BY Zenon DEF Connect, TypeOK
<1>4. Leaving(b, r1)' = Leaving(b, r1)
  BY <1>3, Zenon DEF Leaving
<1>5. QED
  BY <1>1, <1>2, <1>4, SameHolders, CountFacts, Zenon

\* A client that leaves hands its references to its task.
LEMMA ExactUnregister ==
    ASSUME TypeOK, TasksProper, CountIsExact, NEW c \in Clients, Unregister(c)
    PROVE  CountIsExact'
<1> SUFFICES ASSUME NEW b \in Buses, NEW r1 \in Rules
             PROVE  (counts[b][r1] + Adding(b, r1) =
                        Cardinality(Listing(r1)) + Cardinality(Leaving(b, r1))
                        + Removing(b, r1) + leaked[b][r1])'
  BY Zenon DEF CountIsExact
<1>1. /\ counts' = counts /\ leaked' = leaked /\ main' = main
      /\ clients' = clients \ {c} /\ rules' = [rules EXCEPT ![c] = {}]
      /\ c \in clients /\ task[c].rules = {} /\ task[c].host = None
  BY Zenon DEF Unregister, busVars, TasksProper
<1>2. Listing(r1)' = Listing(r1) \ {c} /\ (c \in Listing(r1) <=> r1 \in rules[c])
  BY <1>1, Zenon DEF Listing, TypeOK
<1>3. PICK p \in {"done", "lock"} : task' = [task EXCEPT ![c].pc = p, ![c].rules = rules[c]]
  BY Zenon DEF Unregister
<1>4. task'[c].rules = rules[c] /\ task'[c].host = None
  BY <1>1, <1>3 DEF TypeOK
<1>5. \A c1 \in Clients \ {c} : task'[c1] = task[c1]
  BY <1>3, Zenon DEF TypeOK
<1>6. None # r1
  BY SubscriptionsAssumption, Zenon
<1>7. c \notin Leaving(b, r1) /\ (r1 \in rules[c] => Leaving(b, r1)' = Leaving(b, r1) \cup {c})
  BY <1>1, <1>4, <1>5, <1>6, Zenon DEF Leaving
<1>8. r1 \notin rules[c] => Leaving(b, r1)' = Leaving(b, r1)
  BY <1>1, <1>4, <1>5, <1>6, Zenon DEF Leaving
<1>9. CASE r1 \in rules[c]
  <2>1. Cardinality(Listing(r1)') = Cardinality(Listing(r1)) - 1
    <3>1. IsFiniteSet(Listing(r1)) /\ c \in Listing(r1)
      BY <1>2, <1>9, CountFacts, Zenon
    <3>2. QED
      BY <1>2, <3>1, FS_RemoveElement, Zenon
  <2>2. Cardinality(Leaving(b, r1)') = Cardinality(Leaving(b, r1)) + 1
    BY <1>7, <1>9, CountFacts, FS_AddElement
  <2>3. QED
    BY <1>1, <2>1, <2>2, SameHolders, CountFacts
<1>10. CASE r1 \notin rules[c]
  <2>1. Listing(r1)' = Listing(r1)
    BY <1>2, <1>10, Zenon
  <2>2. QED
    BY <1>1, <1>8, <1>10, <2>1, SameHolders, CountFacts, Zenon
<1>11. QED
  BY <1>9, <1>10, Zenon

\* Taking or giving back the counter's lock changes nothing that is counted.
LEMMA ExactLock ==
    ASSUME TypeOK, CountIsExact, NEW c \in Clients, Lock(c) \/ Unlock(c)
    PROVE  CountIsExact'
<1> SUFFICES ASSUME NEW b \in Buses, NEW r1 \in Rules
             PROVE  (counts[b][r1] + Adding(b, r1) =
                        Cardinality(Listing(r1)) + Cardinality(Leaving(b, r1))
                        + Removing(b, r1) + leaked[b][r1])'
  BY Zenon DEF CountIsExact
<1>1. /\ counts' = counts /\ leaked' = leaked /\ main' = main /\ rules' = rules
      /\ clients' = clients
  BY Zenon DEF Lock, Unlock, busVars
<1>2. PICK p \in {"rules", "done"} : task' = [task EXCEPT ![c].pc = p]
  BY Zenon DEF Lock, Unlock
<1>3. \A c1 \in Clients : task'[c1].rules = task[c1].rules /\ task'[c1].host = task[c1].host
  BY <1>2, Zenon DEF TypeOK
<1>4. Leaving(b, r1)' = Leaving(b, r1)
  BY <1>3, Zenon DEF Leaving
<1>5. QED
  BY <1>1, <1>4, SameHolders, CountFacts, Zenon

\* A task gives its reference back to the container bus and still owes the host's.
LEMMA ExactTaskContainer ==
    ASSUME TypeOK, CountIsExact, NEW c \in Clients, NEW r \in Rules, TaskContainer(c, r)
    PROVE  CountIsExact'
<1> SUFFICES ASSUME NEW b \in Buses, NEW r1 \in Rules
             PROVE  (counts[b][r1] + Adding(b, r1) =
                        Cardinality(Listing(r1)) + Cardinality(Leaving(b, r1))
                        + Removing(b, r1) + leaked[b][r1])'
  BY Zenon DEF CountIsExact
<1>1. /\ main' = main /\ rules' = rules /\ clients' = clients /\ CountersTyped
      /\ Decrement("container", r) /\ "container" \in Buses /\ None # r1
      /\ r \in task[c].rules /\ task[c].host = None
  BY TypeParts, SubscriptionsAssumption, Zenon DEF TaskContainer, Buses
<1>2. /\ task'[c].rules = task[c].rules \ {r} /\ task'[c].host = r
      /\ \A c1 \in Clients \ {c} : task'[c1] = task[c1]
  BY Zenon DEF TaskContainer, TypeOK
<1>3. CASE b = "container" /\ r1 = r
  <2>1. Leaving(b, r1)' = Leaving(b, r1) \ {c} /\ c \in Leaving(b, r1)
    BY <1>1, <1>2, <1>3, Zenon DEF Leaving
  <2>2. Cardinality(Leaving(b, r1)') = Cardinality(Leaving(b, r1)) - 1
    BY <2>1, CountFacts, FS_RemoveElement, ZenonT(40)
  <2>3. /\ counts'[b][r1] + leaked[b][r1] + 1 = counts[b][r1] + leaked'[b][r1]
        /\ counts'[b][r1] \in Nat /\ leaked'[b][r1] \in Nat
    BY <1>1, <1>3, DecrementEffect, Zenon DEF CountersTyped, Counter
  <2>4. /\ Listing(r1)' = Listing(r1)
        /\ Adding(b, r1)' = Adding(b, r1) /\ Removing(b, r1)' = Removing(b, r1)
    BY <1>1, SameHolders, Zenon
  <2>5. /\ counts[b][r1] \in Nat /\ leaked[b][r1] \in Nat
        /\ Adding(b, r1) \in Nat /\ Removing(b, r1) \in Nat
        /\ Cardinality(Listing(r1)) \in Nat /\ Cardinality(Leaving(b, r1)) \in Nat
        /\ counts[b][r1] + Adding(b, r1) =
               Cardinality(Listing(r1)) + Cardinality(Leaving(b, r1))
               + Removing(b, r1) + leaked[b][r1]
    BY CountFacts
  <2>6. QED
    BY <2>2, <2>3, <2>4, <2>5
<1>4. CASE b # "container" \/ r1 # r
  <2>1. Leaving(b, r1)' = Leaving(b, r1)
    BY <1>1, <1>2, <1>4, Zenon DEF Leaving, Buses
  <2>2. counts'[b][r1] = counts[b][r1] /\ leaked'[b][r1] = leaked[b][r1]
    BY <1>1, <1>4, DecrementEffect, Zenon DEF OnlyAt
  <2>3. QED
    BY <1>1, <2>1, <2>2, SameHolders, CountFacts, Zenon
<1>5. QED
  BY <1>3, <1>4, Zenon

\* A clean-up gives a reference on the host bus back and is no longer leaving it.
LEMMA ExactTaskHost ==
    ASSUME TypeOK, TasksProper, CountIsExact, NEW c \in Clients, TaskHost(c)
    PROVE  CountIsExact'
<1> SUFFICES ASSUME NEW b \in Buses, NEW r1 \in Rules
             PROVE  (counts[b][r1] + Adding(b, r1) =
                        Cardinality(Listing(r1)) + Cardinality(Leaving(b, r1))
                        + Removing(b, r1) + leaked[b][r1])'
  BY Zenon DEF CountIsExact
<1> DEFINE r == task[c].host
<1>1. /\ main' = main /\ rules' = rules /\ clients' = clients /\ CountersTyped
      /\ Decrement("host", r) /\ "host" \in Buses /\ None # r1
      /\ r \in Rules /\ r \notin task[c].rules
  BY TypeParts, SubscriptionsAssumption, Zenon DEF TaskHost, Buses, TypeOK, TasksProper
<1>2. /\ task'[c].rules = task[c].rules /\ task'[c].host = None
      /\ \A c1 \in Clients \ {c} : task'[c1] = task[c1]
  BY Zenon DEF TaskHost, TypeOK
<1>3. CASE b = "host" /\ r1 = r
  <2>1. Leaving(b, r1)' = Leaving(b, r1) \ {c} /\ c \in Leaving(b, r1)
    BY <1>1, <1>2, <1>3 DEF Leaving
  <2>2. Cardinality(Leaving(b, r1)') = Cardinality(Leaving(b, r1)) - 1
    BY <2>1, CountFacts, FS_RemoveElement, ZenonT(40)
  <2>3. /\ counts'[b][r1] + leaked[b][r1] + 1 = counts[b][r1] + leaked'[b][r1]
        /\ counts'[b][r1] \in Nat /\ leaked'[b][r1] \in Nat
    BY <1>1, <1>3, DecrementEffect DEF CountersTyped, Counter
  <2>4. /\ Listing(r1)' = Listing(r1)
        /\ Adding(b, r1)' = Adding(b, r1) /\ Removing(b, r1)' = Removing(b, r1)
    BY <1>1, SameHolders, Zenon
  <2>5. /\ counts[b][r1] \in Nat /\ leaked[b][r1] \in Nat
        /\ Adding(b, r1) \in Nat /\ Removing(b, r1) \in Nat
        /\ Cardinality(Listing(r1)) \in Nat /\ Cardinality(Leaving(b, r1)) \in Nat
        /\ counts[b][r1] + Adding(b, r1) =
               Cardinality(Listing(r1)) + Cardinality(Leaving(b, r1))
               + Removing(b, r1) + leaked[b][r1]
    BY CountFacts
  <2>6. QED
    BY <2>2, <2>3, <2>4, <2>5
<1>4. CASE b # "host" \/ r1 # r
  <2>1. Leaving(b, r1)' = Leaving(b, r1)
    BY <1>1, <1>2, <1>4, Zenon DEF Leaving
  <2>2. counts'[b][r1] = counts[b][r1] /\ leaked'[b][r1] = leaked[b][r1]
    BY <1>1, <1>4, DecrementEffect, ZenonT(40) DEF OnlyAt
  <2>3. QED
    BY <1>1, <2>1, <2>2, SameHolders, CountFacts, Zenon
<1>5. QED
  BY <1>3, <1>4, Zenon

\* Every step keeps the count exact.
LEMMA ExactStep ==
    ASSUME TypeOK, TasksProper, MainProper, CountIsExact, Next
    PROVE  CountIsExact'
<1>1. CASE Rest
  BY <1>1, SameHolders, Zenon DEF Rest, vars, busVars, CountIsExact
<1>2. QED
  BY <1>1, ExactMainContainer, ExactMainHost, ExactAddMatch, ExactRemoveMatch, ExactConnect,
     ExactUnregister, ExactLock, ExactTaskContainer, ExactTaskHost, Zenon
  DEF Next, CleanupStep

-----------------------------------------------------------------------------
(* The theorems.                                                           *)

\* Nothing is counted and nobody is there at the start.
LEMMA InitInv == Init => Inv
<1> SUFFICES ASSUME Init PROVE Inv
  BY Zenon
<1>1. TypeOK
  BY SubscriptionsAssumption DEF Init, TypeOK, Idle
<1>2. TasksProper /\ MainProper
  BY Zenon DEF Init, TasksProper, MainProper, Idle
<1>3. BusMatchesCount
  BY DEF Init, BusMatchesCount
<1>4. CountIsExact
  <2> SUFFICES ASSUME NEW b \in Buses, NEW r \in Rules
               PROVE  counts[b][r] + Adding(b, r) =
                          Cardinality(Listing(r)) + Cardinality(Leaving(b, r))
                          + Removing(b, r) + leaked[b][r]
    BY Zenon DEF CountIsExact
  <2>1. Listing(r) = {} /\ Leaving(b, r) = {}
    BY SubscriptionsAssumption, Zenon DEF Init, Listing, Leaving
  <2>2. Adding(b, r) = 0 /\ Removing(b, r) = 0 /\ counts[b][r] = 0 /\ leaked[b][r] = 0
    BY Zenon DEF Init, Adding, Removing, MainAbout, Idle
  <2>3. QED
    BY <2>1, <2>2, FS_EmptySet
<1>5. QED
  BY <1>1, <1>2, <1>3, <1>4, Zenon DEF Inv

\* The inductive invariant holds in every reachable state: whatever handlers,
\* clean-ups and failing bus calls are interleaved, handle_add_match,
\* handle_remove_match and the clean-up of handle_new_client keep lists, counts
\* and buses in step.
THEOREM SubscriptionsInvariant == Spec => []Inv
<1>1. Inv /\ [Next]_vars => Inv'
  <2> SUFFICES ASSUME Inv, [Next]_vars PROVE Inv'
    BY Zenon
  <2>1. CASE Next
    <3>1. TypeOK /\ TasksProper /\ MainProper /\ BusMatchesCount /\ CountIsExact
      BY Zenon DEF Inv
    <3>2. TypeOK'
      BY <2>1, <3>1, CountersStep, OthersStep, TypePartsNext, Zenon
    <3>3. TasksProper' /\ MainProper' /\ BusMatchesCount' /\ CountIsExact'
      BY <2>1, <3>1, TasksStep, MainStep, BusStep, ExactStep, Zenon
    <3>4. QED
      BY <3>2, <3>3, Zenon DEF Inv
  <2>2. CASE UNCHANGED vars
    <3>1. TypeOK' /\ TasksProper' /\ MainProper' /\ BusMatchesCount'
      BY <2>2, Zenon DEF vars, busVars, Inv, TypeOK, TasksProper, MainProper, BusMatchesCount
    <3>2. CountIsExact'
      BY <2>2, SameHolders, Zenon DEF vars, busVars, Inv, CountIsExact
    <3>3. QED
      BY <3>1, <3>2, Zenon DEF Inv
  <2>3. QED
    BY <2>1, <2>2, Zenon
<1>2. QED
  BY <1>1, InitInv, PTL DEF Spec

\* The shared count of MatchRuleRefCount is exact for any number of clients:
\* listed, not yet given back, or leaked in one of the two ways leaked records.
THEOREM CountAlwaysExact == Spec => []CountIsExact
<1>1. Inv => CountIsExact
  BY Zenon DEF Inv
<1>2. QED
  BY <1>1, SubscriptionsInvariant, PTL

\* Each bus has a rule once while its count is positive and not otherwise, but
\* for the bus calls whose errors the handlers discard.
THEOREM BusFollowsCount == Spec => []BusMatchesCount
<1>1. Inv => BusMatchesCount
  BY Zenon DEF Inv
<1>2. QED
  BY <1>1, SubscriptionsInvariant, PTL

\* A rule a client has is on both buses once it is counted: no disconnect and no
\* RemoveMatch of another client takes it away.
THEOREM HeldRulesAlwaysStay == Spec => []HeldRulesStay
<1>1. Inv => HeldRulesStay
  <2> SUFFICES ASSUME Inv, NEW c \in clients, NEW r \in rules[c], NEW b \in Buses,
                      Adding(b, r) = 0, r \notin refused[b]
               PROVE  onBus[b][r] >= 1
    BY Zenon DEF HeldRulesStay
  <2>1. r \in Rules /\ c \in Listing(r)
    BY Zenon DEF Inv, TypeOK, Listing
  <2>2. Cardinality(Listing(r)) # 0
    <3>1. IsFiniteSet(Listing(r)) /\ Listing(r) # {}
      BY <2>1, CountFacts, Zenon DEF Inv
    <3>2. QED
      BY <3>1, FS_EmptySet, Zenon
  <2>3. counts[b][r] > 0
    <3>1. /\ counts[b][r] \in Nat /\ leaked[b][r] \in Nat /\ Removing(b, r) \in Nat
          /\ Cardinality(Listing(r)) \in Nat /\ Cardinality(Leaving(b, r)) \in Nat
          /\ counts[b][r] + Adding(b, r) =
                 Cardinality(Listing(r)) + Cardinality(Leaving(b, r))
                 + Removing(b, r) + leaked[b][r]
      BY <2>1, CountFacts DEF Inv
    <3>2. QED
      BY <2>2, <3>1, SMTT(40)
  <2>4. QED
    BY <2>1, <2>3, Zenon DEF Inv, BusMatchesCount
<1>2. QED
  BY <1>1, SubscriptionsInvariant, PTL

\* At rest a rule nobody lists is on no bus, unless a reference was leaked or a
\* RemoveMatch call has failed.
THEOREM UnusedRulesAlwaysGone == Spec => []UnusedRulesGone
<1>1. Inv => UnusedRulesGone
  <2> SUFFICES ASSUME Inv, AtRest, NEW b \in Buses, NEW r \in Rules,
                      Listing(r) = {}, leaked[b][r] = 0, r \notin kept[b]
               PROVE  onBus[b][r] = 0
    BY Zenon DEF UnusedRulesGone
  <2>1. Leaving(b, r) = {}
    BY SubscriptionsAssumption, Zenon DEF Inv, AtRest, TasksProper, Leaving
  <2>2. Adding(b, r) = 0 /\ Removing(b, r) = 0
    BY Zenon DEF AtRest, Idle, Adding, Removing, MainAbout
  <2>3. counts[b][r] = 0
    BY <2>1, <2>2, CountFacts, FS_EmptySet DEF Inv
  <2>4. QED
    BY <2>3, Zenon DEF Inv, BusMatchesCount
<1>2. QED
  BY <1>1, SubscriptionsInvariant, PTL
=============================================================================
