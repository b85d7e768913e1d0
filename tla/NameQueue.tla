----------------------------- MODULE NameQueue -----------------------------
(***************************************************************************)
(* src/name_queue.rs: the NameQueueManager, the multiplexer's own book of  *)
(* who owns and who waits for each well-known name.                        *)
(*                                                                         *)
(* A client's unique name ":mux.N" is made from its id and never reused,   *)
(* so an entry carries the id alone.  The flags word is the set of the     *)
(* flags that are set in it.  A name without an entry in the HashMap is    *)
(* mapped to None.                                                         *)
(***************************************************************************)
EXTENDS Naturals, Sequences, FiniteSets

CONSTANTS Names, Clients,
          None      \* Option::None, and "no queue for this name"

VARIABLE queues     \* queues[n]: the NameQueue of n, or None

QueueEntry == [client_id : Clients, allow_replacement : BOOLEAN]
QueueRecord == [primary_owner : QueueEntry \cup {None}, waiters : Seq(QueueEntry)]
RequestFlags == {"ALLOW_REPLACEMENT", "REPLACE_EXISTING", "DO_NOT_QUEUE"}

ASSUME NoneAssumption == None \notin QueueEntry /\ None \notin QueueRecord
                         /\ None \notin Clients

EmptyQueue == [primary_owner |-> None, waiters |-> <<>>]

IsPrimaryOwner(q, c) == q.primary_owner # None /\ q.primary_owner.client_id = c

Waits(q, c) == \E i \in 1..Len(q.waiters) : q.waiters[i].client_id = c

\* Slip: only the owner counts as being in the line.
ContainsClientOwnerOnly(q, c) == IsPrimaryOwner(q, c)

ContainsClient(q, c) == IsPrimaryOwner(q, c) \/ Waits(q, c)

\* The entries of a queue, primary first.
Entries(q) ==
    IF q = None THEN <<>>
    ELSE IF q.primary_owner = None THEN q.waiters
    ELSE <<q.primary_owner>> \o q.waiters

\* list_queued_owners: the same line, as names.
AllOwners(q) == [i \in 1..Len(Entries(q)) |-> Entries(q)[i].client_id]

NameHasOwner(q) == q # None /\ q.primary_owner # None

\* VecDeque::retain: the entries of every client but c, in order.  The j-th of
\* them is the kept position with j - 1 kept positions before it.
Retain(s, c) ==
    LET dropped == {i \in 1..Len(s) : s[i].client_id = c}
        kept    == 1..Len(s) \ dropped
        Rank(i) == i - Cardinality({k \in dropped : k < i})
    IN  [j \in 1..(Len(s) - Cardinality(dropped)) |->
            s[CHOOSE i \in kept : Rank(i) = j]]

\* Slip: the waiter at the end takes the place of the owner.
PromoteLast(q) ==
    IF q.waiters = <<>> THEN None
    ELSE [primary_owner |-> q.waiters[Len(q.waiters)],
          waiters |-> SubSeq(q.waiters, 1, Len(q.waiters) - 1)]

\* The owner is gone: the first waiter takes its place, or the queue is removed.
Promote(q) ==
    IF q.waiters = <<>> THEN None
    ELSE [primary_owner |-> Head(q.waiters), waiters |-> Tail(q.waiters)]

NewOwner(q) == IF q.waiters = <<>> THEN None ELSE Head(q.waiters).client_id

-----------------------------------------------------------------------------
(* The three operations on one queue: the queue they leave behind, and the   *)
(* RequestNameResult or ReleaseNameResult they return.                       *)

RequestResult(q, code, forward, replaced) ==
    [queue |-> q, reply_code |-> code, forward_to_bus |-> forward,
     replaced_owner |-> replaced]

\* Slip: the old owner goes to the end.
ReplaceToBack(q, entry) ==
    [primary_owner |-> entry, waiters |-> Append(q.waiters, q.primary_owner)]

\* The owner gives way and becomes the first waiter.
Replace(q, entry) ==
    [primary_owner |-> entry, waiters |-> <<q.primary_owner>> \o q.waiters]

\* Slip: the client is put in the line before the flag is looked at.
EnqueueFirst(q, entry, flags) ==
    RequestResult([q EXCEPT !.waiters = Append(@, entry)],
                  IF "DO_NOT_QUEUE" \in flags THEN "EXISTS" ELSE "IN_QUEUE", FALSE, None)

Enqueue(q, entry, flags) ==
    IF "DO_NOT_QUEUE" \in flags
    THEN RequestResult(q, "EXISTS", FALSE, None)
    ELSE RequestResult([q EXCEPT !.waiters = Append(@, entry)], "IN_QUEUE", FALSE, None)

RequestName(stored, c, flags) ==
    LET q     == IF stored = None THEN EmptyQueue ELSE stored
        entry == [client_id |-> c,
                  allow_replacement |-> "ALLOW_REPLACEMENT" \in flags]
    IN  IF IsPrimaryOwner(q, c)
        THEN RequestResult(q, "ALREADY_OWNER", FALSE, None)
        ELSE IF ContainsClient(q, c)
        THEN RequestResult(q, "IN_QUEUE", FALSE, None)
        ELSE IF q.primary_owner = None
        THEN RequestResult([q EXCEPT !.primary_owner = entry],
                           "PRIMARY_OWNER", TRUE, None)
        ELSE IF "REPLACE_EXISTING" \in flags /\ q.primary_owner.allow_replacement
        THEN RequestResult(Replace(q, entry), "PRIMARY_OWNER", TRUE,
                           q.primary_owner.client_id)
        ELSE Enqueue(q, entry, flags)

ReleaseResult(q, code, forward, new_owner) ==
    [queue |-> q, reply_code |-> code, forward_to_bus |-> forward,
     new_owner |-> new_owner]

\* Slip: every release by an owner goes to the bus.
ReleaseOwnerToBus(q) == ReleaseResult(Promote(q), "RELEASED", TRUE, NewOwner(q))

ReleaseOwner(q) == ReleaseResult(Promote(q), "RELEASED", q.waiters = <<>>, NewOwner(q))

ReleaseName(q, c) ==
    IF q = None
    THEN ReleaseResult(q, "NON_EXISTENT", FALSE, None)
    ELSE IF IsPrimaryOwner(q, c)
    THEN ReleaseOwner(q)
    ELSE IF Waits(q, c)
    THEN ReleaseResult([q EXCEPT !.waiters = Retain(@, c)],
                       "RELEASED", FALSE, None)
    ELSE ReleaseResult(q, "NOT_OWNER", FALSE, None)

\* What remove_client leaves of one queue.
WithoutClient(q, c) ==
    IF q = None THEN None
    ELSE IF IsPrimaryOwner(q, c) THEN Promote(q)
    ELSE LET rest == [q EXCEPT !.waiters = Retain(@, c)]
         IN  IF rest = EmptyQueue THEN None ELSE rest

-----------------------------------------------------------------------------
Init == queues = [n \in Names |-> None]

Request(n, c, flags) ==
    queues' = [queues EXCEPT ![n] = RequestName(@, c, flags).queue]

Release(n, c) ==
    queues' = [queues EXCEPT ![n] = ReleaseName(@, c).queue]

RemoveClient(c) ==
    queues' = [n \in Names |-> WithoutClient(queues[n], c)]

Next ==
    \/ \E n \in Names, c \in Clients, flags \in SUBSET RequestFlags :
          Request(n, c, flags)
    \/ \E n \in Names, c \in Clients : Release(n, c)
    \/ \E c \in Clients : RemoveClient(c)

Spec == Init /\ [][Next]_queues

-----------------------------------------------------------------------------
TypeOK == queues \in [Names -> QueueRecord \cup {None}]

\* A queue that is kept always has a primary owner (request_name never leaves
\* one without, release_name and remove_client promote or delete), and a client
\* stands in the line of a name at most once, however requests, replacements,
\* releases and disconnects are mixed.
OneLinePerName ==
    \A n \in Names : queues[n] # None =>
        /\ queues[n].primary_owner # None
        /\ \A i, j \in 1..Len(queues[n].waiters) :
              queues[n].waiters[i].client_id = queues[n].waiters[j].client_id
              => i = j
        /\ ~ Waits(queues[n], queues[n].primary_owner.client_id)

\* The reply code request_name returns describes the line it leaves behind:
\* owner codes exactly for the owner, IN_QUEUE exactly for a waiter, EXISTS for
\* a client that is not in the line; release_name's codes likewise.
RepliesDescribeQueue ==
    \A n \in Names, c \in Clients :
        /\ \A flags \in SUBSET RequestFlags :
              LET r == RequestName(queues[n], c, flags)
              IN  /\ r.reply_code \in {"PRIMARY_OWNER", "ALREADY_OWNER"}
                        <=> IsPrimaryOwner(r.queue, c)
                  /\ r.reply_code = "IN_QUEUE" <=> Waits(r.queue, c)
        /\ LET r == ReleaseName(queues[n], c)
           IN  /\ r.queue # None => ~ ContainsClient(r.queue, c)
               /\ r.reply_code = "RELEASED" <=> r.queue # queues[n]

\* The bus hears of a request exactly when the owner changes to the caller, and
\* of a release exactly when the name is left without an owner.
ForwardTracksOwner ==
    \A n \in Names, c \in Clients :
        /\ \A flags \in SUBSET RequestFlags :
              LET r == RequestName(queues[n], c, flags)
              IN  r.forward_to_bus <=>
                    /\ IsPrimaryOwner(r.queue, c)
                    /\ queues[n] = None \/ ~ IsPrimaryOwner(queues[n], c)
        /\ LET r == ReleaseName(queues[n], c)
           IN  r.forward_to_bus <=> NameHasOwner(queues[n]) /\ ~ NameHasOwner(r.queue)

\* handle_request_name reverts a request the bus refused by releasing the name
\* again ("Bus call failed - revert queue state"): that gives back exactly the
\* queue from before the request, a replaced owner and its flag included.
RevertRestores ==
    \A n \in Names, c \in Clients, flags \in SUBSET RequestFlags :
        LET r == RequestName(queues[n], c, flags)
        IN  r.forward_to_bus => ReleaseName(r.queue, c).queue = queues[n]

\* The manager implements the line of claims per name.
Ownership == INSTANCE NameOwnership WITH line <- [n \in Names |-> Entries(queues[n])]

\* Every step of the manager is a step of that line: a claim joins at the end,
\* overtakes an owner that allows it, or leaves and lets the ones behind move up.
ImplementsOwnership == Ownership!Spec
=============================================================================
