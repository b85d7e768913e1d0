------------------------------- MODULE Router -------------------------------
(***************************************************************************)
(* Method calls of many clients over one connection per bus: serial        *)
(* numbers and the SerialMap (src/serial_map.rs, src/router.rs), the way   *)
(* replies and portal Response signals find back to a client               *)
(* (handle_bus_message in src/multiplexer.rs, src/portal_request.rs).      *)
(*                                                                         *)
(* A call is known by its caller and the serial the caller gave it; the    *)
(* field "call" of a message on a bus is that identity.  The code never    *)
(* reads it: it is there to say which call an answer is really about.      *)
(* Which bus a call is sent to is RoutingTable's business and free here.   *)
(***************************************************************************)
EXTENDS Naturals, Sequences

CONSTANTS Clients, Handles, None,
          Own,           \* stands for the multiplexer's own calls on a bus
          OwnSerials,    \* serials zbus may give to those calls
          Listeners,     \* clients with a match rule for portal Responses
          SerialSpace,   \* 2^32 in the code: serials are 0..SerialSpace-1
          MaxCalls,      \* bound: calls by each client
          MaxOwn,        \* bound: calls by the multiplexer itself
          MaxRequests,   \* bound: portal requests
          MaxFaults,     \* bound: messages that cannot be rewritten
          Expires        \* which tables have entries that reach their timeout

ASSUME RouterAssumption ==
    /\ None \notin Clients \cup Handles
    /\ None \notin Clients \X Nat /\ Own \notin Clients \X Nat
    /\ None \notin [client : Clients, serial : Nat] \cup [client : Clients, call : Clients \X Nat]
    /\ Listeners \subseteq Clients
    /\ SerialSpace \in Nat \ {0, 1} /\ OwnSerials \subseteq Nat \ {0}
    /\ MaxCalls \in Nat /\ MaxOwn \in Nat /\ MaxRequests \in Nat /\ MaxFaults \in Nat
    /\ Expires \subseteq {"calls", "requests"}

VARIABLES counter,    \* counter[r]: SerialGenerator of the connection to r
          pending,    \* pending[r][s]: SerialMap
          requests,   \* requests[h]: PortalRequestTracker
          clients,    \* keys of the clients map
          task,       \* task[c]: the task of client c
          main,       \* the delivery the event loop is about to make
          inbox,      \* inbox[c]: what the client has been sent
          made,       \* made[c]: calls by c, and the last serial it used
          lapsed,     \* history: calls whose entry, or whose request's entry, was removed
          faults,     \* messages that could not be rewritten
          atBus,      \* atBus[r]: calls bus r has not answered
          open,       \* open[h]: portal request that has yet to respond
          stream,     \* stream[r]: messages from bus r not yet handled
          granted,    \* portal requests made
          own         \* calls made by the multiplexer itself

vars == <<counter, pending, requests, clients, task, main, inbox, made, lapsed,
          faults, atBus, open, stream, granted, own>>

Route == {"Container", "Host"}
Serials == 1..(SerialSpace - 1)
Calls == Clients \X (1..MaxCalls)
Idle == [pc |-> "idle"]

Init ==
    /\ counter = [r \in Route |-> 1]
    /\ pending = [r \in Route |-> [s \in Serials \cup OwnSerials |-> None]]
    /\ requests = [h \in Handles |-> None]
    /\ clients = {}
    /\ task = [c \in Clients |-> "absent"]
    /\ main = Idle
    /\ inbox = [c \in Clients |-> <<>>]
    /\ made = [c \in Clients |-> 0]
    /\ lapsed = {}
    /\ faults = 0
    /\ atBus = [r \in Route |-> {}]
    /\ open = [h \in Handles |-> None]
    /\ stream = [r \in Route |-> <<>>]
    /\ granted = 0
    /\ own = 0

busVars == <<atBus, open, stream, granted>>
keptVars == <<lapsed, faults>>
peerVars == <<clients, task, made>>

-----------------------------------------------------------------------------
(* SerialGenerator::next: the value a counter at k hands out (0 is skipped), *)
(* and the counter after it.                                                 *)

NextSerial(k) == IF k = 0 THEN 1 ELSE k
CounterAfter(k) == (NextSerial(k) + 1) % SerialSpace

(* SerialMap and PortalRequestTracker: insert, remove (also the look-up of     *)
(* handle_reply), register, lookup_and_remove, and what retain leaves.       *)

Insert(r, serial, c, clientSerial) ==
    [pending EXCEPT ![r][serial] = [client |-> c, serial |-> clientSerial]]
PendingCall(r, serial) == pending[r][serial]
Remove(r, serial) == [pending EXCEPT ![r][serial] = None]
RetainCalls(old) ==
    [r \in Route |-> [s \in DOMAIN pending[r] |-> IF <<r, s>> \in old THEN None
                                                 ELSE pending[r][s]]]
Register(h, c, call) == [requests EXCEPT ![h] = [client |-> c, call |-> call]]
LookupAndRemove(h) == [requests EXCEPT ![h] = None]
RetainRequests(old) == [h \in Handles |-> IF h \in old THEN None ELSE requests[h]]

Replies(r) == {i \in 1..Len(stream[r]) : stream[r][i].kind = "reply"}

\* Serials of calls of clients that bus r may still answer, or that are recorded.
InUse(r) ==
    {m.serial : m \in {x \in atBus[r] : x.call # Own}}
    \cup {stream[r][i].serial : i \in {j \in Replies(r) : stream[r][j].call # Own}}
    \cup {s \in Serials : pending[r][s] # None}

-----------------------------------------------------------------------------
(* The event loop.                                                           *)

\* The next call of c, who may have gone by now, is taken from the channel.  The
\* serial is new: 2^32 calls are not made while one waits for its answer.
Take(c, r) ==
    /\ main = Idle
    /\ task[c] # "absent" /\ made[c] < MaxCalls
    /\ NextSerial(counter[r]) \notin InUse(r)
    /\ made' = [made EXCEPT ![c] = @ + 1]
    /\ counter' = [counter EXCEPT ![r] = CounterAfter(@)]

\* Slip: the bus is left out of the key.
ForwardMethodCallOneTable(c, r) ==
    LET serial == NextSerial(counter[r])
    IN  /\ Take(c, r)
        /\ atBus' = [atBus EXCEPT ![r] = @ \cup {[serial |-> serial, call |-> <<c, made'[c]>>]}]
        /\ pending' = Insert("Host", serial, c, made'[c])
        /\ UNCHANGED <<requests, clients, task, main, inbox, keptVars, open, stream,
                       granted, own>>

\* handle_client_message and forward_method_call: the call is sent to bus r under
\* the new serial, and then recorded.
ForwardMethodCall(c, r) ==
    LET serial == NextSerial(counter[r])
    IN  /\ Take(c, r)
        /\ atBus' = [atBus EXCEPT ![r] = @ \cup {[serial |-> serial, call |-> <<c, made'[c]>>]}]
        /\ pending' = Insert(r, serial, c, made'[c])
        /\ UNCHANGED <<requests, clients, task, main, inbox, keptVars, open, stream,
                       granted, own>>

Delivery(to, kind, serial, call) ==
    [pc |-> "deliver", to |-> to,
     item |-> [kind |-> kind, serial |-> serial, call |-> call, raw |-> FALSE]]

\* clone_reply_with_serial or clone_portal_response_signal: the message as rewritten or,
\* when that fails (a descriptor cannot be duplicated), the original.
Rewritten(to, kind, serial, m) ==
    \/ main' = Delivery(to, kind, serial, m.call) /\ UNCHANGED faults
    \/ /\ faults < MaxFaults /\ faults' = faults + 1
       /\ main' = [Delivery(to, kind, m.serial, m.call) EXCEPT !.item.raw = TRUE]

\* conn.send failed: nothing is recorded and the client gets an error.
ForwardFails(c, r) ==
    /\ Take(c, r)
    /\ main' = Delivery({c}, "answer", made'[c], <<c, made'[c]>>)
    /\ UNCHANGED <<pending, requests, clients, task, inbox, keptVars, own, busVars>>

\* Slips: the reply keeps the serial of the bus; one without an entry is kept.
HandleReplyOriginal(r) ==
    /\ main = Idle
    /\ stream[r] # <<>> /\ Head(stream[r]).kind = "reply"
    /\ LET m == Head(stream[r])
           p == PendingCall(r, m.serial)
       IN  /\ pending' = Remove(r, m.serial)
           /\ main' = IF p = None THEN Idle
                      ELSE Delivery({p.client}, "answer", m.serial, m.call)
    /\ stream' = [stream EXCEPT ![r] = Tail(@)]
    /\ UNCHANGED <<counter, requests, inbox, keptVars, atBus, open, granted, own, peerVars>>
HandleReplyStuck(r) ==
    /\ main = Idle
    /\ stream[r] # <<>> /\ Head(stream[r]).kind = "reply"
    /\ LET m == Head(stream[r])
           p == PendingCall(r, m.serial)
       IN  /\ p # None
           /\ pending' = Remove(r, m.serial)
           /\ Rewritten({p.client}, "answer", p.serial, m)
    /\ stream' = [stream EXCEPT ![r] = Tail(@)]
    /\ UNCHANGED <<counter, requests, inbox, lapsed, atBus, open, granted, own, peerVars>>

\* Slip: the handle is not registered.
HandleReplyUntracked(r) ==
    /\ main = Idle
    /\ stream[r] # <<>> /\ Head(stream[r]).kind = "reply"
    /\ LET m == Head(stream[r])
           p == PendingCall(r, m.serial)
       IN  /\ pending' = Remove(r, m.serial)
           /\ IF p = None THEN UNCHANGED <<main, faults>>
              ELSE Rewritten({p.client}, "answer", p.serial, m)
    /\ stream' = [stream EXCEPT ![r] = Tail(@)]
    /\ UNCHANGED <<counter, requests, inbox, lapsed, atBus, open, granted, own, peerVars>>

\* The reply branch of handle_bus_message up to its look at the clients map: the
\* entry goes, a request handle in a method return is registered for the caller,
\* and the reply is given the caller's own serial.  Without an entry it is dropped.
HandleReply(r) ==
    /\ main = Idle
    /\ stream[r] # <<>> /\ Head(stream[r]).kind = "reply"
    /\ LET m == Head(stream[r])
           p == PendingCall(r, m.serial)
       IN  /\ pending' = Remove(r, m.serial)
           /\ requests' = IF p # None /\ m.handle # None
                          THEN Register(m.handle, p.client, m.call) ELSE requests
           /\ IF p = None THEN UNCHANGED <<main, faults>>
              ELSE Rewritten({p.client}, "answer", p.serial, m)
    /\ stream' = [stream EXCEPT ![r] = Tail(@)]
    /\ UNCHANGED <<counter, inbox, lapsed, atBus, open, granted, own, peerVars>>

\* Slip: the request stays registered after its Response.
HandleResponseKeeping(r) ==
    /\ main = Idle
    /\ stream[r] # <<>> /\ Head(stream[r]).kind = "response"
    /\ LET m == Head(stream[r])
       IN  IF requests[m.handle] # None
           THEN Rewritten({requests[m.handle].client}, "response", None, m)
           ELSE main' = Delivery(Listeners, "broadcast", None, m.call) /\ UNCHANGED faults
    /\ stream' = [stream EXCEPT ![r] = Tail(@)]
    /\ UNCHANGED <<counter, pending, requests, inbox, lapsed, atBus, open, granted, own,
                   peerVars>>

\* The portal branch: a Response goes to the client its path is registered for,
\* and to the clients whose match rules fit if there is none.
HandleResponse(r) ==
    /\ main = Idle
    /\ stream[r] # <<>> /\ Head(stream[r]).kind = "response"
    /\ LET m == Head(stream[r])
       IN  /\ requests' = LookupAndRemove(m.handle)
           /\ IF requests[m.handle] # None
              THEN Rewritten({requests[m.handle].client}, "response", None, m)
              ELSE main' = Delivery(Listeners, "broadcast", None, m.call) /\ UNCHANGED faults
    /\ stream' = [stream EXCEPT ![r] = Tail(@)]
    /\ UNCHANGED <<counter, pending, inbox, lapsed, atBus, open, granted, own, peerVars>>

\* Under clients.read(): a client that is no longer in the map gets nothing.
Deliver ==
    /\ main.pc = "deliver"
    /\ inbox' = [c \in Clients |-> IF c \in main.to \cap clients
                                   THEN Append(inbox[c], main.item) ELSE inbox[c]]
    /\ main' = Idle
    /\ UNCHANGED <<counter, pending, requests, keptVars, own, peerVars, busVars>>

\* The periodic clean-up.  Timestamps are left out: any entries may be the old
\* ones.
CleanupExpired ==
    /\ main = Idle
    /\ \E old \in SUBSET {k \in Route \X Serials :
                            "calls" \in Expires /\ pending[k[1]][k[2]] # None},
         gone \in SUBSET {h \in Handles : "requests" \in Expires /\ requests[h] # None} :
          /\ pending' = RetainCalls(old)
          /\ requests' = RetainRequests(gone)
          /\ lapsed' = lapsed \cup {requests[h].call : h \in gone}
                        \cup {<<PendingCall(k[1], k[2]).client,
                                PendingCall(k[1], k[2]).serial>> : k \in old}
    /\ UNCHANGED <<counter, main, inbox, faults, own, peerVars, busVars>>

-----------------------------------------------------------------------------
(* The task of a client, and calls the multiplexer makes for itself: their   *)
(* serials are zbus' and their replies reach the event loop's stream too.    *)

Connect(c) ==
    /\ task[c] = "absent"
    /\ task' = [task EXCEPT ![c] = "running"]
    /\ clients' = clients \cup {c}
    /\ UNCHANGED <<counter, pending, requests, main, inbox, made, keptVars, own, busVars>>

Unregister(c) ==
    /\ task[c] = "running"
    /\ task' = [task EXCEPT ![c] = "portal"]
    /\ clients' = clients \ {c}
    /\ UNCHANGED <<counter, pending, requests, main, inbox, made, keptVars, own, busVars>>

RemoveRequests(c) ==
    LET gone == {h \in Handles : requests[h] # None /\ requests[h].client = c}
    IN  /\ task[c] = "portal"
        /\ task' = [task EXCEPT ![c] = "done"]
        /\ requests' = RetainRequests(gone)
        /\ lapsed' = lapsed \cup {requests[h].call : h \in gone}
        /\ UNCHANGED <<counter, pending, clients, main, inbox, made, faults, own, busVars>>

OwnCall(r, s) ==
    /\ own < MaxOwn /\ own' = own + 1
    /\ atBus' = [atBus EXCEPT ![r] = @ \cup {[serial |-> s, call |-> Own]}]
    /\ UNCHANGED <<counter, pending, requests, main, inbox, keptVars, open, stream, granted,
                   peerVars>>

-----------------------------------------------------------------------------
(* A bus (external) answers calls in any order and each at most once.  The   *)
(* desktop portal, on the host bus, may answer with a handle nobody is using *)
(* and responds on it later.                                                 *)

Answer(r, m, h) ==
    /\ atBus' = [atBus EXCEPT ![r] = @ \ {m}]
    /\ stream' = [stream EXCEPT ![r] = Append(@,
                    [kind |-> "reply", serial |-> m.serial, call |-> m.call, handle |-> h])]
    /\ IF h = None THEN UNCHANGED <<open, granted>>
       ELSE /\ r = "Host" /\ m.call # Own /\ open[h] = None /\ granted < MaxRequests
            /\ open' = [open EXCEPT ![h] = m.call]
            /\ granted' = granted + 1
    /\ UNCHANGED <<counter, pending, requests, main, inbox, keptVars, own, peerVars>>

Respond(h) ==
    /\ open[h] # None
    /\ open' = [open EXCEPT ![h] = None]
    /\ stream' = [stream EXCEPT !["Host"] = Append(@,
                    [kind |-> "response", serial |-> None, call |-> open[h], handle |-> h])]
    /\ UNCHANGED <<counter, pending, requests, main, inbox, keptVars, own, atBus, granted,
                   peerVars>>

-----------------------------------------------------------------------------
MainStep == Deliver \/ \E r \in Route : HandleReply(r) \/ HandleResponse(r)

Next ==
    \/ MainStep \/ CleanupExpired
    \/ \E c \in Clients :
          \/ Connect(c) \/ Unregister(c) \/ RemoveRequests(c)
          \/ \E r \in Route : ForwardMethodCall(c, r) \/ ForwardFails(c, r)
    \/ \E r \in Route :
          \/ \E s \in OwnSerials : OwnCall(r, s)
          \/ \E m \in atBus[r], h \in Handles \cup {None} : Answer(r, m, h)
    \/ \E h \in Handles : Respond(h)

Spec == Init /\ [][Next]_vars

\* The event loop keeps being scheduled and select! serves both buses.
FairSpec ==
    /\ Spec /\ WF_vars(Deliver)
    /\ \A r \in Route : SF_vars(HandleReply(r)) /\ SF_vars(HandleResponse(r))

-----------------------------------------------------------------------------
Items == [kind : {"answer", "response", "broadcast"}, serial : 1..MaxCalls \cup Serials \cup {None},
          call : Calls \cup {Own}, raw : BOOLEAN]

TypeOK ==
    /\ counter \in [Route -> 0..(SerialSpace - 1)]
    /\ pending \in [Route -> [Serials \cup OwnSerials ->
                       [client : Clients, serial : 1..MaxCalls] \cup {None}]]
    /\ requests \in [Handles -> [client : Clients, call : Calls] \cup {None}]
    /\ clients \subseteq Clients
    /\ task \in [Clients -> {"absent", "running", "portal", "done"}]
    /\ main \in [pc : {"deliver"}, to : SUBSET Clients, item : Items] \cup {Idle}
    /\ inbox \in [Clients -> Seq(Items)]
    /\ made \in [Clients -> 0..MaxCalls]
    /\ lapsed \subseteq Calls /\ faults \in 0..MaxFaults
    /\ \A r \in Route : atBus[r] \subseteq [serial : Serials \cup OwnSerials,
                                           call : Calls \cup {Own}]

\* What a client receives is about its own call: a reply carries the serial the
\* client gave to the very call it answers (unless it could not be rewritten), and
\* a Response that was tracked goes to the client that made the request, although
\* clients use the same serials and the calls of all of them share two connections.
RightRecipient ==
    \A c \in Clients : \A i \in 1..Len(inbox[c]) :
        LET m == inbox[c][i]
        IN  /\ m.kind = "answer" => m.call = <<c, m.serial>> \/ (m.raw /\ m.call[1] = c)
            /\ m.kind = "response" => m.call # Own /\ m.call[1] = c

\* Where a client's call is: on a bus or on its way back, with an entry that
\* leads to the caller; in the hands of the event loop; answered.
Recorded(r, serial, call) ==
    pending[r][serial] = [client |-> call[1], serial |-> call[2]]

AnswerTo(item, call) == item.kind = "answer" /\ item.call = call

Sites(c, k) ==
    (UNION {{<<"bus", r, m.serial>> :
              m \in {x \in atBus[r] : x.call = <<c, k>> /\ Recorded(r, x.serial, <<c, k>>)}} :
            r \in Route})
    \cup (UNION {{<<"stream", r, i>> :
              i \in {j \in Replies(r) : /\ stream[r][j].call = <<c, k>>
                                        /\ Recorded(r, stream[r][j].serial, <<c, k>>)}} :
            r \in Route})
    \cup {<<"main", "", 0>> :
              m \in {x \in {main} : x # Idle /\ AnswerTo(x.item, <<c, k>>) /\ c \in x.to}}
    \cup {<<"inbox", "", i>> : i \in {j \in 1..Len(inbox[c]) : AnswerTo(inbox[c][j], <<c, k>>)}}

\* No answer is lost and none comes twice: as long as the caller is connected
\* and the entry did not expire, every call is in exactly one place from which
\* its answer reaches the caller, or has reached it.
ExactlyOneAnswer ==
    \A c \in clients : \A k \in 1..made[c] :
        <<c, k>> \in lapsed \/ \E x \in Sites(c, k) : Sites(c, k) = {x}

\* "This module tracks which client made each portal request so Response signals
\* can be delivered to the correct client": nobody else gets a Response, except one
\* whose entry was given up before it came (the call or the request expired, or the
\* client that made it has left), which falls through to the match rules.
ResponsesStayPrivate ==
    \A c \in Clients : \A i \in 1..Len(inbox[c]) :
        inbox[c][i].kind = "broadcast" =>
            inbox[c][i].call[1] = c \/ inbox[c][i].call \in lapsed

\* A reply that has come back is delivered, whatever else keeps arriving, unless
\* its caller leaves or its entry expires first.
RepliesArrive ==
    \A c \in Clients, k \in 1..MaxCalls :
        (\E r \in Route : \E i \in Replies(r) : stream[r][i].call = <<c, k>>)
        ~> \/ c \notin clients \/ <<c, k>> \in lapsed
           \/ \E i \in 1..Len(inbox[c]) : AnswerTo(inbox[c][i], <<c, k>>)
=============================================================================
