------------------------------ MODULE Channels ------------------------------
(***************************************************************************)
(* The bounded queues between the event loop and the client tasks, and the *)
(* lock on the clients map that the loop holds while it waits for room     *)
(* (src/multiplexer.rs, src/client.rs).                                    *)
(*                                                                         *)
(* A request is a call that the multiplexer answers itself (Hello, Ping,   *)
(* GetId and the other driver methods): its number, and the number of the  *)
(* reply to it.  What the answers say is left to the other modules.        *)
(***************************************************************************)
EXTENDS Naturals, Sequences, FiniteSetsExt

CONSTANTS Clients,
          InCap,        \* the channel of all clients to the loop (1024 in the code)
          OutCap,       \* the channel to one client (256 in the code)
          Window,       \* calls the clients together have open
          MaxRequests,  \* bound: requests in all
          MaxSignals    \* bound: signals from the buses

ASSUME ChannelsAssumption ==
    /\ \A n \in {InCap, OutCap, Window} : n \in Nat \ {0}
    /\ \A n \in {MaxRequests, MaxSignals} : n \in Nat

VARIABLES clients,   \* keys of the clients map
          made,      \* made[c]: requests c has written
          unread,    \* unread[c]: those its task has not read
          closed,    \* clients that have closed their socket
          task,      \* task[c]: where the task is, and the message it holds
          inbound,   \* the loop's channel: <<client, request>>
          outbound,  \* outbound[c]: the channel to c
          got,       \* got[c]: number of the last reply and of the last signal c has read
          loop,      \* the handler the event loop is in
          signals

vars == <<clients, made, unread, closed, task, inbound, outbound, got, loop, signals>>

Reply(k) == [kind |-> "reply", n |-> k]
Signal(k) == [kind |-> "signal", n |-> k]
NoItem == [kind |-> "none", n |-> 0]
Idle == [pc |-> "idle", to |-> {}, item |-> NoItem]
At(pc, item) == [pc |-> pc, item |-> item]

Serving == {"select", "hand", "write"}

Init ==
    /\ clients = {} /\ closed = {}
    /\ made = [c \in Clients |-> 0] /\ unread = [c \in Clients |-> 0]
    /\ task = [c \in Clients |-> At("absent", NoItem)]
    /\ inbound = <<>>
    /\ outbound = [c \in Clients |-> <<>>]
    /\ got = [c \in Clients |-> [reply |-> 0, signal |-> 0]]
    /\ loop = Idle /\ signals = 0

-----------------------------------------------------------------------------
(* The client.                                                               *)

Request(c) ==
    /\ task[c].pc \in Serving /\ c \notin closed
    /\ MapThenSumSet(LAMBDA d : made[d], Clients) < MaxRequests
    /\ MapThenSumSet(LAMBDA d : made[d] - got[d].reply, Clients) < Window
    /\ made' = [made EXCEPT ![c] = @ + 1]
    /\ unread' = [unread EXCEPT ![c] = @ + 1]
    /\ UNCHANGED <<clients, closed, task, inbound, outbound, got, loop, signals>>

Close(c) ==
    /\ task[c].pc \in Serving /\ c \notin closed
    /\ closed' = closed \cup {c}
    /\ UNCHANGED <<clients, made, unread, task, inbound, outbound, got, loop, signals>>

-----------------------------------------------------------------------------
(* The task of a client: ClientHandler::run between registration and clean-  *)
(* up.  The clients map can be written when the loop is not reading it.      *)

Writable == loop.pc # "send"

Connect(c) ==
    /\ task[c].pc = "absent" /\ Writable
    /\ task' = [task EXCEPT ![c] = At("select", NoItem)]
    /\ clients' = clients \cup {c}
    /\ UNCHANGED <<made, unread, closed, inbound, outbound, got, loop, signals>>

ReadRequest(c) ==
    /\ task[c].pc = "select" /\ unread[c] > 0
    /\ task' = [task EXCEPT ![c] = At("hand", Reply(made[c] - unread[c] + 1))]
    /\ unread' = [unread EXCEPT ![c] = @ - 1]
    /\ UNCHANGED <<clients, made, closed, inbound, outbound, got, loop, signals>>

\* Slip: the task first waits for its outgoing messages to be gone.
HandOnSpinning(c) ==
    /\ task[c].pc = "hand" /\ Len(inbound) < InCap
    /\ IF outbound[c] = <<>>
       THEN /\ inbound' = Append(inbound, <<c, task[c].item.n>>)
            /\ task' = [task EXCEPT ![c] = At("select", NoItem)]
       ELSE UNCHANGED <<inbound, task>>
    /\ UNCHANGED <<clients, made, unread, closed, outbound, got, loop, signals>>

\* inbound_tx.send waits for room and cannot be interrupted by outgoing messages.
HandOn(c) ==
    /\ task[c].pc = "hand" /\ Len(inbound) < InCap
    /\ inbound' = Append(inbound, <<c, task[c].item.n>>)
    /\ task' = [task EXCEPT ![c] = At("select", NoItem)]
    /\ UNCHANGED <<clients, made, unread, closed, outbound, got, loop, signals>>

RecvOutbound(c) ==
    /\ task[c].pc = "select" /\ outbound[c] # <<>>
    /\ task' = [task EXCEPT ![c] = At("write", Head(outbound[c]))]
    /\ outbound' = [outbound EXCEPT ![c] = Tail(@)]
    /\ UNCHANGED <<clients, made, unread, closed, inbound, got, loop, signals>>

Got(c, item) ==
    got' = [got EXCEPT ![c] = IF item.kind = "reply" THEN [@ EXCEPT !.reply = item.n]
                              ELSE [@ EXCEPT !.signal = item.n]]

\* Slip: a task that cannot write at once gives the message up.
WriteOrDrop(c) ==
    /\ task[c].pc = "write" /\ c \notin closed
    /\ Got(c, task[c].item) \/ UNCHANGED got
    /\ task' = [task EXCEPT ![c] = At("select", NoItem)]
    /\ UNCHANGED <<clients, made, unread, closed, inbound, outbound, loop, signals>>

\* The socket is taken to hold nothing: write_all ends when the client reads.
Write(c) ==
    /\ task[c].pc = "write" /\ c \notin closed
    /\ Got(c, task[c].item)
    /\ task' = [task EXCEPT ![c] = At("select", NoItem)]
    /\ UNCHANGED <<clients, made, unread, closed, inbound, outbound, loop, signals>>

\* Slip: the end of the stream is noted, and read again.
RunGoesOn(c) ==
    /\ c \in closed
    /\ task[c].pc = "write" \/ (task[c].pc = "select" /\ unread[c] = 0)
    /\ UNCHANGED vars

\* The end of the stream, or a failing write: run returns and drops the receiver.
RunReturns(c) ==
    /\ c \in closed
    /\ task[c].pc = "write" \/ (task[c].pc = "select" /\ unread[c] = 0)
    /\ task' = [task EXCEPT ![c] = At("leaving", NoItem)]
    /\ outbound' = [outbound EXCEPT ![c] = <<>>]
    /\ UNCHANGED <<clients, made, unread, closed, inbound, got, loop, signals>>

Unregister(c) ==
    /\ task[c].pc = "leaving" /\ Writable
    /\ task' = [task EXCEPT ![c] = At("gone", NoItem)]
    /\ clients' = clients \ {c}
    /\ UNCHANGED <<made, unread, closed, inbound, outbound, got, loop, signals>>

-----------------------------------------------------------------------------
(* The event loop.                                                           *)

TakeRequest ==
    /\ loop = Idle /\ inbound # <<>>
    /\ loop' = [pc |-> "reply", to |-> {Head(inbound)[1]}, item |-> Reply(Head(inbound)[2])]
    /\ inbound' = Tail(inbound)
    /\ UNCHANGED <<clients, made, unread, closed, task, outbound, got, signals>>

\* send_reply_to_client: the entry is looked up under the read lock, which is
\* kept until the message is in the channel; without an entry there is no reply.
LookUp ==
    /\ loop.pc = "reply"
    /\ loop' = IF loop.to \subseteq clients THEN [loop EXCEPT !.pc = "send"] ELSE Idle
    /\ UNCHANGED <<clients, made, unread, closed, task, inbound, outbound, got, signals>>

\* A signal for the clients whose match rules fit, any set of them.
TakeSignal(to) ==
    /\ loop = Idle /\ signals < MaxSignals
    /\ signals' = signals + 1
    /\ loop' = [pc |-> "send", to |-> to, item |-> Signal(signals + 1)]
    /\ UNCHANGED <<clients, made, unread, closed, task, inbound, outbound, got>>

Done(c) == IF loop.to = {c} THEN Idle ELSE [loop EXCEPT !.to = @ \ {c}]

\* Slip: a send to a busy client is repeated.
SendAgain(c) ==
    /\ loop.pc = "send" /\ c \in loop.to
    /\ \/ /\ task[c].pc \in Serving /\ Len(outbound[c]) < OutCap
          /\ outbound' = [outbound EXCEPT ![c] = Append(@, loop.item)]
          /\ loop' = IF loop.item.kind = "signal" /\ task[c].pc = "write" THEN loop ELSE Done(c)
       \/ task[c].pc \notin Serving /\ UNCHANGED outbound /\ loop' = Done(c)
    /\ UNCHANGED <<clients, made, unread, closed, task, inbound, got, signals>>

\* tx.send: waits for room, and fails when the receiver is gone.
Send(c) ==
    /\ loop.pc = "send" /\ c \in loop.to
    /\ \/ /\ task[c].pc \in Serving /\ Len(outbound[c]) < OutCap
          /\ outbound' = [outbound EXCEPT ![c] = Append(@, loop.item)]
       \/ task[c].pc \notin Serving /\ UNCHANGED outbound
    /\ loop' = Done(c)
    /\ UNCHANGED <<clients, made, unread, closed, task, inbound, got, signals>>

\* A signal that no client wants.
SendNobody ==
    /\ loop.pc = "send" /\ loop.to = {}
    /\ loop' = Idle
    /\ UNCHANGED <<clients, made, unread, closed, task, inbound, outbound, got, signals>>

-----------------------------------------------------------------------------
\* Nothing is under way, and clients may stay silent; any other state without a
\* step is a deadlock.
Quiet ==
    /\ loop = Idle /\ inbound = <<>>
    /\ \A c \in Clients :
          /\ task[c].pc \in {"absent", "select", "gone"}
          /\ task[c].pc = "select" =>
                unread[c] = 0 /\ outbound[c] = <<>> /\ c \notin closed
Rest == Quiet /\ UNCHANGED vars

LoopStep == TakeRequest \/ LookUp \/ SendNobody \/ \E c \in Clients : Send(c)
TaskStep(c) ==
    ReadRequest(c) \/ HandOn(c) \/ RecvOutbound(c) \/ Write(c) \/ RunReturns(c) \/ Unregister(c)

Next ==
    \/ LoopStep \/ \E to \in SUBSET clients : TakeSignal(to)
    \/ \E c \in Clients : Request(c) \/ Close(c) \/ Connect(c) \/ TaskStep(c)
    \/ Rest

Spec == Init /\ [][Next]_vars

\* The runtime keeps running the loop and the tasks, and a client that stays
\* connected reads its socket.
FairSpec ==
    /\ Spec
    /\ WF_vars(LoopStep)
    /\ \A c \in Clients : WF_vars(TaskStep(c))

-----------------------------------------------------------------------------
TypeOK ==
    /\ clients \subseteq Clients /\ closed \subseteq Clients
    /\ \A c \in Clients :
          /\ made[c] \in 0..MaxRequests /\ unread[c] \in 0..made[c]
          /\ task[c].pc \in Serving \cup {"absent", "leaving", "gone"}
          /\ Len(outbound[c]) <= OutCap
    /\ Len(inbound) <= InCap
    /\ loop.pc \in {"idle", "reply", "send"} /\ loop.to \subseteq Clients
    /\ signals \in 0..MaxSignals

\* The requests and replies of a client on their way, oldest first: with its task,
\* in its channel, with the loop, in the loop's channel, and with its task again.
Holding(c, pc) == IF task[c].pc = pc THEN <<task[c].item>> ELSE <<>>
Answering(c) == IF c \in loop.to THEN <<loop.item>> ELSE <<>>
Asked(c) == [i \in DOMAIN inbound |->
                IF inbound[i][1] = c THEN Reply(inbound[i][2]) ELSE NoItem]
Pipe(c) ==
    Holding(c, "write") \o outbound[c] \o Answering(c) \o Asked(c) \o Holding(c, "hand")

Places(s, kind) == {i \in DOMAIN s : s[i].kind = kind}

\* The replies in s are those numbered lo + 1 to hi, each once and in this order.
Consecutive(s, lo, hi) ==
    /\ lo <= hi
    /\ {s[i].n : i \in Places(s, "reply")} = (lo + 1)..hi
    /\ \A i, j \in Places(s, "reply") : i < j => s[i].n < s[j].n

\* Every request a served client has sent is answered, or in exactly one place and
\* in the order of the requests: the queues neither lose nor repeat nor reorder.
EachRequestOnce ==
    \A c \in clients : task[c].pc \in Serving /\ c \notin closed =>
        Consecutive(Pipe(c), got[c].reply, made[c] - unread[c])

\* The signals in s are later than the one numbered k, and one later than the other.
Later(s, k) ==
    \A i \in Places(s, "signal") :
        s[i].n > k /\ \A j \in Places(s, "signal") : j < i => s[j].n < s[i].n

\* Signals reach a client in the order the loop handled them, each once, however
\* they mix with replies.
SignalsInOrder ==
    \A c \in Clients : Later(Holding(c, "write") \o outbound[c], got[c].signal)

\* Open calls are answered, unless their client leaves: no other client's traffic,
\* no full channel and no disconnect stops the loop, as long as clients read their
\* sockets and together have no more than InCap calls open.
OpenCallsEnd ==
    \A c \in Clients : made[c] > got[c].reply ~> made[c] = got[c].reply \/ c \in closed

\* A client that is leaving gets out, although it needs the lock that the loop
\* holds while it waits for room, possibly in this client's own channel.
LeaversLeave == \A c \in Clients : c \in closed ~> task[c].pc = "gone"
=============================================================================
