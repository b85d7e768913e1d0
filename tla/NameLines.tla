----------------------------- MODULE NameLines ------------------------------
(***************************************************************************)
(* What can be said of a queue of the NameQueueManager, and of what its    *)
(* operations do to the line of a name, without knowing how the queue is   *)
(* kept.  NameService.tla and the theorems about both are stated in these  *)
(* words.                                                                  *)
(***************************************************************************)
EXTENDS NameQueue

Distinct(s) == \A i, j \in 1..Len(s) : s[i].client_id = s[j].client_id => i = j

\* A queue as the manager keeps it: an owner, and nobody in the line twice.
ProperQueue(q) ==
    /\ q \in QueueRecord
    /\ q.primary_owner # None
    /\ Distinct(q.waiters)
    /\ ~ Waits(q, q.primary_owner.client_id)

Proper(q) == q = None \/ ProperQueue(q)

OwnerOf(q) == IF q = None THEN None ELSE q.primary_owner.client_id
Member(q, c) == q # None /\ ContainsClient(q, c)

-----------------------------------------------------------------------------
(* Lines as sequences of clients, as AllOwners gives them.                   *)

In(s, c) == \E i \in 1..Len(s) : s[i] = c

SameOrder(s, t) ==
    \A i, j \in 1..Len(s), k, l \in 1..Len(t) :
        s[i] = t[k] /\ s[j] = t[l] => (i < j <=> k < l)

\* Apart from c, which has come since, the line s holds only clients of the line
\* before, in the order they had there.
Follows(s, before, c) ==
    /\ ~ In(before, c)
    /\ \A i \in 1..Len(s) : s[i] = c \/ In(before, s[i])
    /\ SameOrder(s, before)

-----------------------------------------------------------------------------
(* What a caller of the manager may rely on, for a proper queue q.           *)

\* The questions asked of a queue.
QueueFacts(q) ==
    /\ NameHasOwner(q) <=> q # None
    /\ AllOwners(q) \in Seq(Clients)
    /\ AllOwners(q) = <<>> <=> q = None
    /\ \A c : In(AllOwners(q), c) <=> Member(q, c)
    /\ q = None => OwnerOf(q) = None /\ \A c : ~ Member(q, c)
    /\ q # None => /\ OwnerOf(q) \in Clients /\ Member(q, OwnerOf(q))
                   /\ \A c : IsPrimaryOwner(q, c) <=> OwnerOf(q) = c

\* request_name by c.
RequestEffect(q, c, r) ==
    /\ Proper(r.queue) /\ r.queue # None
    /\ r.forward_to_bus \in BOOLEAN
    /\ r.reply_code \in {"PRIMARY_OWNER", "ALREADY_OWNER", "IN_QUEUE", "EXISTS"}
    /\ r.reply_code \in {"PRIMARY_OWNER", "ALREADY_OWNER"} <=> OwnerOf(r.queue) = c
    /\ r.reply_code = "IN_QUEUE" => Member(r.queue, c)
    /\ r.reply_code = "EXISTS" => ~ Member(r.queue, c)
    /\ \A d : d # c => (Member(r.queue, d) <=> Member(q, d))
    /\ r.forward_to_bus => /\ OwnerOf(r.queue) = c /\ ~ Member(q, c)
                           /\ ReleaseName(r.queue, c).queue = q
                           /\ Follows(AllOwners(r.queue), AllOwners(q), c)
    /\ ~ r.forward_to_bus => q # None /\ OwnerOf(r.queue) = OwnerOf(q)

\* release_name by c, and what remove_client leaves of the queue.
ReleaseEffect(q, c, r) ==
    /\ Proper(r.queue) /\ ~ Member(r.queue, c)
    /\ r.reply_code \in {"RELEASED", "NON_EXISTENT", "NOT_OWNER"}
    /\ \A d : d # c => (Member(r.queue, d) <=> Member(q, d))
    /\ OwnerOf(q) # c => /\ r.new_owner = None /\ ~ r.forward_to_bus
                         /\ OwnerOf(r.queue) = OwnerOf(q)
                         /\ r.queue = None <=> q = None
    /\ OwnerOf(q) = c => /\ r.new_owner = OwnerOf(r.queue)
                         /\ r.new_owner = NewOwner(q)
                         /\ r.forward_to_bus <=> r.queue = None
    /\ \A before, d : Follows(AllOwners(q), before, d)
                      => Follows(AllOwners(r.queue), before, d)
    /\ WithoutClient(q, c) = r.queue
=============================================================================
