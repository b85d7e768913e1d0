# A TLA+ model of kapsule-dbus-mux

The multiplexer gives the programs in a container one D-Bus socket and connects
it to two buses, the container's own and the host's session bus. To its clients
it plays the bus driver (names, match rules, credentials); to the buses it is one
peer that speaks for all of them. This directory models the parts of it that hold
state, checks them with TLC and proves theorems about seven of them with TLAPS.
Source paths below are relative to the crate's code, `src/src/`.

## 1. Inventory

One **event loop** (`Multiplexer::run`) selects among new connections, messages of
the two buses, messages of clients and a 30 second tick, and runs one handler at a
time. Each client has a **task** of its own (`handle_new_client`): it reads and
writes the socket, and when the client is gone it cleans up. Loop and tasks share
structures that are each behind an `RwLock` of their own, and bounded channels;
they interleave at every `await`.

| part | state | operations that change it | what is hard about it |
|---|---|---|---|
| name queues, `name_queue.rs` | per name an owner and waiters | `request_name`, `release_name`, `remove_client` | replacement and order, undoing a refused request |
| name handlers, `multiplexer.rs` 597-770, 310-446 | queues, routing table, `owned_names`, the name on the bus | RequestName, ReleaseName, clean-up, NameOwnerChanged | four copies of one truth changed in separate steps by two actors, failing bus calls |
| driver queries, `multiplexer.rs` 548-573, 773-1015 | none of their own | none | each reads another of the four copies |
| routing table, `routing.rs` | names per bus, unique names | name changes, initial lists | signals of two buses, start-up order |
| match rule subscriptions, `match_rules.rs`, `multiplexer.rs` 1098-1262, 324-355 | rules per client, a count per bus and rule | AddMatch, RemoveMatch, clean-up | list and count under different locks, lock held over bus calls, failures thrown away |
| match rule parsing and matching, `match_rules.rs` | the parser's position | one token at a time | quoting, blanks, prefixes and namespaces |
| serials and replies, `serial_map.rs`, `router.rs` | counter per bus, pending calls | forward, reply, expiry | equal serials, wrap-around, late replies |
| portal requests, `portal_request.rs` | handle to client | register, Response, expiry, clean-up | late Responses, reused handles |
| client connection, `client.rs` | read buffer, write position | read, write, end | cancelled reads, partial writes, descriptors |
| authentication, `auth.rs` | position in the SASL dialogue, a buffered reader | one line at a time | retries, early end, bytes read ahead |
| channels, `multiplexer.rs`, `client.rs` | one queue to the loop, one to each task, the clients lock | send, receive | everybody waiting for room |
| message building, `main.rs`, `error.rs`, `lib.rs` | none | none | |

`PROJECT.json` lists the same parts with their status, and the hazards line by line.

## 2. Modules

| module | models | its state and the code |
|---|---|---|
| `NameOwnership` | the promise: a line of claims per name | `line[n]`, owner first |
| `NameQueue` | `NameQueueManager` | `queues[n]` is the `HashMap` entry or `None` |
| `Routing` | `RoutingTable` as a value | `names["Container"]` is `container_names` |
| `RoutingSync` | start-up and NameOwnerChanged of both buses | `table`, `phase`; `stream` is what a bus has sent |
| `NameService` | RequestName, ReleaseName, clean-up, the container bus, the driver's queries | composes `NameQueue` and `Routing` |
| `Subscriptions` | AddMatch, RemoveMatch, clean-up, `MatchRuleRefCount` | `rules`, `counts`, `lock`; `onBus` is what the bus was told |
| `MatchRules` | `MatchRule::parse`, `matches`, `ClientMatchRules`, the forwarding decision | one step per turn of the parser's loop |
| `Router` | serials, `SerialMap`, replies, `PortalRequestTracker` | `counter`, `pending`, `requests` |
| `ClientHandler` | SASL dialogue, `read_message`, `send_message`, `run` of one client | the reader's buffer, the read and the write under way |
| `Channels` | loop, tasks and the bounded channels between them | queues, the `clients` lock, where each actor is |
| `NameLines` | what may be said of a queue as a line, and of the effect of the manager's calls on it | no state; definitions that `NameQueueProofs` proves and `NameService` uses |
| `NameQueueProofs`, `NameServiceProofs`, `RoutingSyncProofs`, `SubscriptionsProofs`, `RouterProofs`, `ChannelsProofs`, `ClientHandlerProofs` | theorems | each begins with its inductive invariant |
| `NameServiceSteps` | lemmas of `NameServiceProofs` | what each step of the name handlers does, and the invariants on queues, tasks and `owned_names` |
| `MC*` | TLC instances: symmetry sets and constants | |

Conventions. A step is what runs between two awaits under one lock. Two sections
are one step only if the first lock is still held in the second, as for the
routing table and `owned_names` in `RequestRecord`. A call may be handled after its
client has gone, because it waits in a channel, so a caller is any client that
ever connected. Malformed arguments, which cause an error reply and no change, are
left out, except for rules that do not parse. Definitions under a comment "Slip" are
wrong variants of the definition below them; no specification uses them. They
record which mistake each property would notice.

History variables (`leaked`, `refused`, `kept` in `Subscriptions`, `lapsed`
in `Router`, `torn` in `ClientHandler`, `replaced` in `NameService`) remember that
something the code gives up or gets wrong has happened. No handler reads them. They
let a property say exactly when it does not hold. `heard`, `said`, `frames` and `handed`
in `ClientHandler` record what was read, answered and handed over; `handed` is the frames
end to end, so that a property can compare it with what the client sent.

Abstractions. A unique name `:mux.N` is its client id, never reused
(`next_client_id`). The flags word is the set of its flags. In `Subscriptions` a rule is
a string that is compared and never looked into; in `MatchRules` it is a sequence of
tokens, so that quotes, blanks and commas are met as the parser meets them. Time is
left out: any entry may be the one that has expired. Which bus a forwarded call
takes is free in `Router`, being the routing table's business. The 32-bit serial
counter counts modulo `SerialSpace`, sizes in `ClientHandler` modulo `Word`. Bytes of a
message are pieces of eight, the alignment of a body. In `Channels` messages are
numbered and nothing else.

The buses are external and modelled by what the code expects of them. A container
service (`Other`) appends itself to the line of a name or leaves it. It neither
replaces the multiplexer nor lets itself be replaced. Signals of one bus arrive in
order. A bus carries out AddMatch and RemoveMatch or answers with an error. zbus
numbers the multiplexer's own calls independently of `SerialGenerator`, and the
replies to them also show up in the message stream. A client sends
lines of the dialogue and messages, in any portions, and may close at any time.

## 3. Runs that pass

| run | instance | what it shows |
|---|---|---|
| `name_queue` | 2 names, 3 clients, every call sequence | lines are proper (`OneLinePerName`), results describe them (`RepliesDescribeQueue`), the bus is called when it should be (`ForwardTracksOwner`), a release undoes a request (`RevertRestores`), refinement of `NameOwnership` (`ImplementsOwnership`) |
| `routing_sync` | 2 container peers, 1 host peer, 1 name, 2 signals in flight per bus | table and unread signals together are the bus (`LastSignalDecides`), `ContainerFirst`, `RegistryHasNoLeavers`, `RouteCatchesUp` |
| `names_at_rest` | 2 names, 3 clients, 5 calls, no overlap, RequestName may fail | queue, bus, routing table and `owned_names` agree between calls, and credentials are those of the owner unless it was replaced |
| `names_racing` | 2 clients, 2 calls, 1 move of a service, all interleavings, both calls may fail | `ReplyStillTrue`, `RefusalRestoresLine`; the interleaved system refines `NameOwnership` too (`LinesAreFair`); clean-ups end |
| `subscriptions` | 2 clients, 2 rules and one that does not parse, 5 calls, 1 failing bus call, all interleavings | the count is exact (`CountIsExact`), the buses follow it (`BusMatchesCount`), rules in use stay and others go (`HeldRulesStay`, `UnusedRulesGone`), clean-ups get the lock and end |
| `replies` | 2 clients, 2 calls each, 3 serial values, 1 failing rewrite | `RightRecipient`, `ExactlyOneAnswer` over wrap-around, expiry, disconnects |
| `portal` | 2 clients, 1 call each, 1 handle granted twice, 1 failing rewrite | a tracked Response goes to the client that asked, nobody else gets one before its entry was given up (`ResponsesStayPrivate`); replies that came back are delivered |
| `client_handler` | 1 client, 4 lines, 2 messages in, 2 out | a client is let in after a complete dialogue only, no byte is lost or moved on its way into a frame unless a read was cut short, output leaves in order, a client is dropped for a cause, messages arrive |
| `channels` | 2 clients, room for 2 messages to the loop and 1 to a task | each request is handled once, signals keep their order, open calls end, a client that leaves is cleaned up |
| `match_rules` | up to 2 rules of up to 2 pairs in 5 spellings | parsing yields the pairs that were written, forwarding does what they ask for |

Why the bounds are enough to be interesting. Three clients are an owner, a waiter
and one that overtakes or leaves. Five calls reach request, wait, replace and
release, with a name left over. Two peers that can take a name from each other give
signals with an old and a new owner. `SerialSpace` 3 makes the counter wrap with two
calls open. One handle and two grants reuse a handle. Five calls on two rules add a
rule twice, remove it, fail and add it again while another client leaves. In
`client_handler` one message has header fields that need padding and a body, the other
is a bare header; the reader's buffer is smaller than what follows BEGIN and the
socket smaller than a message, so every read and write is cut somewhere. Channels of
one and two places are full after one and two messages. The bounds `MaxCalls`,
`MaxMoves`, `MaxOwn`, `MaxRequests`, `MaxSignals`, `MaxFaults`, `MaxLines`, `MaxOut`,
`MaxRules`, `MaxPairs` and `MaxInFlight` are constants of the modules and appear only
in guards of inputs and failures, never in a handler. `MaxSize` bounds the size that
`read_message` finds when it takes the middle of a message for a header; 6 pieces are
more than any message of the instance.

`Sequential` and `QuietStartup` are assumptions on the environment. The runs that
make them show what holds under them; section 4 shows what fails without them.
`OwnSerials` is chosen outside the counter's range, and `Window <= InCap` in `MCChannels`
(the open calls of all clients fit into the loop's channel), for the same reason.

Deadlock is checked in all runs. `Rest` lets a system idle when no handler and no
clean-up is under way, so a deadlock is a handler or a clean-up that is stuck.

The type invariant of every module was checked on the same instances; no run lists
it, being implied by what else is checked or proved (section 5).

Fairness. The tokio runtime keeps polling the loop and the tasks: weak fairness for
their steps. `select!` chooses at random among ready branches, so a branch that keeps
becoming ready is taken: strong fairness for the reply and Response branches in
`Router` and for reading in `ClientHandler`; weak fairness suffices in `RoutingSync`, where
nothing else competes. tokio's `RwLock` queues waiters fairly: strong fairness for
taking the counter's lock in `Subscriptions`, by the loop and by clean-ups. Three liveness
results assume that a client which stays connected reads its socket: `OpenCallsEnd`
and `LeaversLeave` in `Channels`, and `MessagesArrive` in `ClientHandler`. The code needs it:
the loop waits for room in a client's channel with the clients lock held.

## 4. Where the code and its documents disagree

Two runs end in a violation. Each states what a comment of the repository says,
and `PROJECT.json` quotes the line.

| run | property | what happens |
|---|---|---|
| `names_late_release` | `OwnersHaveTheName` | a clean-up's ReleaseName reaches the bus after another client was given the name |
| `client_torn` | `ValidMessageBytes` | `select!` drops a read in the middle of a message, and the next one takes the rest of it for a header |

The same modules show more of them when the constants of a configuration are
changed and the property named is checked. TLC found each of these with the
constants given; they have no run of their own.

| start from | change | property that fails | what happens |
|---|---|---|---|
| `MCNamesLateRelease.cfg` | nothing | `OnlyConnectedInLine` | a client that leaves between the look-up (multiplexer.rs:616) and the queue (:627) is queued after its clean-up, for good |
| `MCNamesLateRelease.cfg` | nothing | `RoutingFollowsBus` | a transfer (:377) is recorded after the new owner has gone |
| `MCNamesLateRelease.cfg` | `Services = {Other}`, `MaxMoves = 1`, `Sequential = TRUE` | `OwnersHaveTheName` | PRIMARY_OWNER is reported (:663) though the bus said IN_QUEUE or EXISTS |
| `MCNamesLateRelease.cfg` | `Services = {Other}`, `MaxMoves = 1`, `Sequential = TRUE` | `RoutingFollowsBus` | a clean-up (:391) deletes the route of a container service |
| `MCNamesAtRest.cfg` | `CredentialsOfOwner` without `replaced` | itself | a replaced owner keeps the name in its `owned_names` (:657), and its credentials are given for it (:552 "A well-known name owned by a client") |
| `MCRoutingSync.cfg` | `QuietStartup = FALSE` | `ContainerFirst` | a change between ListNames and the subscription (:129-133) is missed |
| `MCRoutingSync.cfg` | nothing | `PeerReachedByUniqueName` | peers there before the multiplexer are filtered out of the initial list (:172) |
| `MCRoutingSync.cfg` | `InitialPeers = {}` | `PeerReachedByUniqueName` | a peer that gives up a well-known name is forgotten under its unique name too (routing.rs:176; :32 "Maps unique names (":1.xxx") to their originating bus.") |
| `MCSubs.cfg` | `MaxFaults = 0` | `RemovedRulesGone` | a repeated AddMatch is counted twice and given back once (UNFINISHED_FEATURES.md:44 "When all clients remove the rule (or disconnect), it's removed from the buses.") |
| `MCRouterPortal.cfg` | `OwnSerials = {1}` | `RightRecipient` | the reply to a call of the multiplexer itself is delivered to a client (router.rs:82 "Generate a new unique serial for the upstream bus") |
| `MCMatchRules.cfg` | nothing | `NamespaceHoldsChildren` | `path_namespace='/'` holds the root alone (match_rules.rs:28 "matches path and all children") |
| `MCChannels.cfg`, module `Channels` | `SPECIFICATION Spec`, `InCap = 1`, `Window = 4`, `MaxRequests = 4` | deadlock | the loop waits for room in a client's channel while that client's task waits for room in the loop's |

Further observations, each a consequence of the code as modelled. A clean-up that
gets the counter's lock before the AddMatch of its own client leaks a reference. A
refused AddMatch heals when the count is back at 0, a failed RemoveMatch does not. A
message with descriptors that meets a full socket after a stale readiness drops the
client. A pair without `=`, or a doubled comma, makes the parser take the next key
for part of an unknown one. `sender=` with a well-known name is compared with the
sender's unique name. GetNameOwner answers with the multiplexer's own name for a name
of a client, ListQueuedOwners with `:mux.N`. Signals and replies that clients send are
dropped.

## 5. Theorems

They hold for all values of the constants that satisfy the named assumption of the
module: any names, clients, peers, rules, handles, and any bounds on calls and
failures.

**Name queue** (`NameQueueProofs`, from `NoneAssumption`: `None` is neither a client nor a
queue). `Spec => []TypeOK` and `OneLinePerName` are not inductive by themselves, since
`release_name` promotes whoever is first. The inductive invariant `QueuesProper` says
of every stored queue that it has an owner, that its waiters are pairwise different
clients, and that the owner is not among them (`QueuesAlwaysProper`). It rests on
lemmas about `VecDeque::retain`: it changes nothing if the client is absent, and
drops exactly one position if it is there once. `Retain` has a closed form instead
of a recursion so that it can be proved about; `MCNameQueue` checks the closed form
against `SelectSeq`. From the invariant follow

- `TypeCorrect`, `OneLine`: type and line safety;
- `RevertIsExact`: request then release is the identity on queues whenever the
  request was to be forwarded, which is what the error path of `handle_request_name`
  relies on;
- `RepliesAreTrue`, `BusHearsOwnership`: what the two results say is true of the queue
  afterwards, by cases on the ways through the functions (`RequestCases`);
- `Refinement`: each operation is a `Join`, `Overtake`, `Leave`, `LeaveAll` or a stutter of
  `NameOwnership` under the mapping of a queue to owner followed by waiters.

**Name handlers** (`NameServiceSteps` and `NameServiceProofs`, from `ServiceAssumption` and
`ValuesAssumption`: the multiplexer, the services, the clients and `None` are different
values). `NameServiceSteps` shows what each step does to the queues, the tasks and
`owned_names` and that it preserves the invariants on these; the invariants on the bus, its
signals and the routing table are at the beginning of `NameServiceProofs`. What both
use of the manager is one formula, `ManagerLaws`: on a proper queue `request_name` and
`release_name` have the effects that `NameLines` describes. The second part of `NameServiceProofs` derives the
formula from the theorems on the manager, after identifying the definitions of the two
instances of `NameQueue`, the one of the handlers and the one that comes with the proofs,
and closes the inductions. `Shaped` is the type invariant: a handler under way has its
caller, name and what it has worked out so far, a client is connected exactly while its
task runs.

Three results hold for every interleaving of handlers, clean-ups and services, whichever
bus calls fail:

- `ServiceRunsQueue`: each step is a `Request`, a `Release` (a revert is one too), a
  `RemoveClient`, or leaves the queues alone, so `Spec` of `NameService` implies `Spec` of
  `NameQueue` on the same queues, and `LinesAlwaysFair` the refinement of `NameOwnership`.
- `RepliesStayTrue`: what `handle_request_name` found out before its bus call is so when it
  replies. `AnswerInv` says it for every await in between: others may leave the line, and
  that makes no reply to a connected caller false.
- `RefusalsRestore`: a refused request leaves the line as it was, without whoever has left
  meanwhile. `LineInv` compares the line at every await with the one before the call: the
  same order, the caller added, some perhaps gone. `RevertIsExact` would not do here: it
  speaks of a revert that comes right after the request.

The properties of `names_at_rest` hold when calls and disconnects arrive at rest
(`Sequential`); section 4 shows what overlapping ones do to them. `Orderly`
(`AlwaysOrderly`) says that one handler or clean-up is under way at a time, who may stand in
a line meanwhile (`LinesInv`), and what the handler (`MainKnows`) and the clean-up
(`TasksKnow`) know of the queue that they have changed. The other invariants do not
mention the queue of a name but its settled owner (`SettledOwner`): the one it has, or,
while a request waits for its bus call, the one it will have if the bus refuses. A request
thereby changes its settled owner in the same step as the bus, and a revert changes none.

| theorem | property | also assumed | invariant |
|---|---|---|---|
| `LinesOfConnected` | `OnlyConnectedInLine` | | `Orderly` |
| `CredentialsAreOwners` | `CredentialsOfOwner` | ReleaseName does not fail | `CredInv`: what a client has in `owned_names` it is the settled owner of, or was replaced in, or is giving up |
| `OwnersAreRecorded` | `OwnedCoversQueue` | no services on the bus | `OwnedInv`: a settled owner has its name in `owned_names`, or a handler or clean-up is about to put it there |
| `BusAlwaysFollows` | `BusFollowsQueue` | both | `BusInv`: the multiplexer has on the bus the names with a settled owner and those that a release or clean-up is about to give up |
| `RoutingAlwaysFollows` | `RoutingFollowsBus` | both | `StreamInv`: unread signals say what is still so on the bus; `TableInv`: the table agrees with the bus on every name but those with an unread signal and those that a clean-up has unrouted ahead of its bus call |

The further assumptions are those of the run, which fulfils all of them. After a
ReleaseName that fails, `handle_release_name` logs "name still released locally"
(multiplexer.rs:758) and leaves the name on the bus, in the routing table and in
`owned_names`. With services a request may be told PRIMARY_OWNER
while the bus has it wait, and a clean-up unroutes a service's name (section 4).

**Subscriptions** (`SubscriptionsProofs`, from `SubscriptionsAssumption`: finitely many
clients, `None` apart from them and from the rules). `CountIsExact` is an equation
between a counter and the sizes of two sets. It needs to be known where a task may be
while it still holds rules (`TasksProper`), what the loop holds (`MainProper`), and the
types. With `BusMatchesCount` these form the invariant `Inv` (`SubscriptionsInvariant`).
Each step adds a client to one of the sets or takes one away and changes the counter
or a summand of the other side to match. `CountAlwaysExact` and `BusFollowsCount` are
conjuncts; `HeldRulesAlwaysStay` follows since a client that lists a rule makes the
count positive, `UnusedRulesAlwaysGone` since at rest all summands but the leaked
references are zero.

**Routing** (`RoutingSyncProofs`, from `SyncAssumption` and `NamesAssumption`). The table
lags behind the buses by the unread signals, so the invariants speak of the table as
it will be when they are read. `RInv` says that whoever will be registered on a bus is
connected to it, and that a bus is silent until it is subscribed to; it needs nothing
of the start-up (`RegistryInvariant`, `NoLeaversRegistered`). `QInv` adds that the last
signal about a name tells its owner, and before the subscription that the names listed
are those owned; this holds if no bus changes during start-up, so `SignalsDecide` and
`ContainerAlwaysFirst` have `QuietStartup` as a hypothesis. Section 4 has the run without
it.

**Router** (`RouterProofs`, from `RouterAssumption`). `AlwaysRightRecipient` has the
hypothesis `OwnApart`: the serials of the multiplexer's own calls are none of
`SerialGenerator`'s; section 4 shows that it is needed. The invariant `RouterInv` has
three parts besides the types. Entries: the entry under the serial of a call that a
bus may still answer is the caller's or has been given up (`RouteRight`); a new call
overwrites none, because its serial is not in use. Handles: at each point of the host
bus's stream, reading up to it leaves a handle registered for the client that the last
grant was for, or not at all, and not registered after its Response (`HostRight`,
stated with `Expected` and `Vacant` over the messages read so far). Delivery: what the
loop is about to deliver is for the client it was addressed to.

**Answers and Responses** (`RouterProofs`, under `OwnApart` as well). `RouterInv` says
whom an entry leads to if it is there; `AllAnswersInv` (`AnswersInvariant`) says that it is
there. `AnswersInv`: a call has at most one place, of the four kinds of `Sites` (on a bus, on
its way back, in the hands of the loop, in the client's channel), and exactly one once it
was made and as long as its client is connected and it has not lapsed. Each handler moves
a call from one place to the next, and moves the place of every call behind it in a
stream up by one (`MoveUp`). `LiveInv`: a call under way has an entry unless it lapsed.
`TrackedInv`: a request is registered by the time its Response is first in line, because
the portal answers the call before it responds. From these follow `AlwaysOneAnswer` and,
with `BroadcastInv`, `ResponsesAlwaysPrivate`. `RouterAssumption` says that `None` is no record
of either table, as an absent `HashMap` entry is none.

**Channels** (`ChannelsProofs`, from `ChannelsAssumption`: positive capacities and window).
`EachRequestOnce` reads the places of a client's requests, from its task over the loop and
back, as one sequence (`Pipe`) whose replies are numbered consecutively. A step moves an
item from the end of one queue to the front of the next one, takes the oldest out or
adds a new one; the lemmas on `Consecutive` say what each of these does to a sequence made
of several. The invariant `ChannelsInv` has this for every task that is served or not yet
there (`Ordered`), with what the loop and the tasks may hold at each place (`LoopProper`,
`TaskProper`); `RequestsInPipe` follows. For `SignalsStayInOrder` it says that the signals in a
client's channel lie between the last one taken out and the last one put in (`InTurn`).

**Client handler** (`ClientHandlerProofs`, from `ClientHandlerAssumption`). The invariant
`ClientInv` (`ClientInvariant`) has five parts.

- `SentInv`: what a client sends is a chain of units, lines up to BEGIN and then the
  pieces of its messages, each message whole and one after the other.
- `DialogueInv`: the lines heard have the shape that the place in the dialogue asks for
  (`Shape`), each but BEGIN has one reply, and descriptors were agreed to exactly if the
  client asked. `AlwaysComplete` follows, since a shape that ends the dialogue is one of the
  complete dialogues and no other shape is.
- `StreamInv` with `NoByteLost`: lines, frames, the read under way, the pending data, the
  reader's buffer and the socket are, in this order, what was sent. The read under way
  starts at the beginning of a message (`Boundary`), so the header it reads gives the
  length of that message and the frame ends where the message does (`NothingLost`,
  `AlwaysMessages`).
- `OutInv` with `OutgoingInOrder`: the pieces in the socket and at the client are those of
  the messages taken from the channel, up to the next one to write (`AlwaysInOrder`).
- `EndsInv`: each end of the task has its cause (`AlwaysForCause`).

`NothingLost`, `AlwaysMessages` and `AlwaysForCause` have the hypothesis `Fit`: the lengths of
a message add up to less than `Word`. `read_message` adds two 32-bit numbers of the
header as 32-bit numbers (client.rs:427-430), so `Word` is 2^32; the D-Bus specification
limits a message to 2^27 bytes, which a client that keeps to it satisfies by far. The
code does not enforce that limit. The theorems on the dialogue and on the outgoing half
do not need it.

Only model-checked. Both properties of `MatchRules`: what a parser computes for every
input needs induction over the input, which is out of the prover's reach. Everything
about liveness: fairness is out of its reach too. Every other property of a passing run
is a theorem.

## 6. Not modelled, and why

Message building and cloning reproduce bytes through zbus: data, no control; that a
clone may fail is modelled in `Router`. `main.rs`, `error.rs` and `lib.rs` hold no state. A
lost bus connection or a failure while starting ends the program. How a portal path
is rewritten is formatting; that only the signal's path is rewritten, and the handle
in the reply is not, does not show in the model, where a handle is a value.
Introspect and GetAll answer with constant text. `remove_client_rules` and
`rules_for_bus` have no caller. The logging of statistics reads state and changes none.

## 7. What could follow

A composition of `NameService` with both buses of `RoutingSync`. The two modules share
`Routing`; NameOwnerChanged of the container bus is in both, with the multiplexer's own
names in the one and the peers' in the other. And what the theorems on `names_at_rest`
become with services on the bus: `OwnedInv` and `BusInv` would speak of a place in the line
of the bus where they now speak of having the name.
