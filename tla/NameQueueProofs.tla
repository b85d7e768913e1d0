-------------------------- MODULE NameQueueProofs --------------------------
(***************************************************************************)
(* Proofs about NameQueue for every set of names and clients: its type and *)
(* OneLinePerName are invariant, and from them follow what the handlers of *)
(* the event loop rely on.  The invariant says of each queue on its own    *)
(* what the three operations need and keep, so that the argument is about  *)
(* operators on one queue, and the steps only apply it.                    *)
(***************************************************************************)
EXTENDS NameLines, FiniteSetTheorems, SequenceTheorems, TLAPS

\* The inductive invariant.
QueuesProper == /\ queues \in [Names -> QueueRecord \cup {None}]
                /\ \A n \in Names : Proper(queues[n])

DropAt(s, i) == [j \in 1..(Len(s) - 1) |-> IF j < i THEN s[j] ELSE s[j + 1]]

-----------------------------------------------------------------------------
\* VecDeque::retain of a client that is not in the sequence changes nothing.
LEMMA RetainAbsent ==
    ASSUME NEW s \in Seq(QueueEntry), NEW c,
           \A i \in 1..Len(s) : s[i].client_id # c
    PROVE  Retain(s, c) = s
<1> DEFINE dropped == {i \in 1..Len(s) : s[i].client_id = c}
           kept == 1..Len(s) \ dropped
           Before(i) == {k \in dropped : k < i}
           Rank(i) == i - Cardinality(Before(i))
<1>1. dropped = {} /\ kept = 1..Len(s)
  BY Zenon
<1>2. \A i : Before(i) = {}
  BY <1>1, Zenon
<1>3. Retain(s, c) = [j \in 1..(Len(s) - Cardinality(dropped)) |->
                        s[CHOOSE i \in kept : Rank(i) = j]]
  BY Zenon DEF Retain
<1>4. Cardinality(dropped) = 0
  BY <1>1, FS_EmptySet, Zenon
<1>5. ASSUME NEW i \in 1..Len(s) PROVE Rank(i) = i
  <2>1. Cardinality(Before(i)) = 0
    BY <1>2, FS_EmptySet, Zenon
  <2> HIDE DEF Before
  <2> QED BY <2>1
<1> HIDE DEF Before, dropped
<1> HIDE DEF Rank, kept
<1>6. \A j \in 1..Len(s) : (CHOOSE i \in kept : Rank(i) = j) = j
  BY <1>1, <1>5, Zenon
<1>7. Retain(s, c) = [j \in 1..Len(s) |-> s[j]]
  BY <1>3, <1>4, <1>6, SMTT(40)
<1> QED BY <1>7

\* Of a client that is there once, it takes out that one entry.
LEMMA RetainPresent ==
    ASSUME NEW s \in Seq(QueueEntry), NEW c, Distinct(s),
           NEW p \in 1..Len(s), s[p].client_id = c
    PROVE  Retain(s, c) = DropAt(s, p)
<1> DEFINE dropped == {i \in 1..Len(s) : s[i].client_id = c}
           kept == 1..Len(s) \ dropped
           Before(i) == {k \in dropped : k < i}
           Rank(i) == i - Cardinality(Before(i))
           at(j) == IF j < p THEN j ELSE j + 1
<1>1. dropped = {p} /\ kept = 1..Len(s) \ {p}
  BY Zenon DEF Distinct
<1>2. \A i \in 1..Len(s) : Before(i) = IF p < i THEN {p} ELSE {}
  BY <1>1, Zenon
<1>3. Retain(s, c) = [j \in 1..(Len(s) - Cardinality(dropped)) |->
                        s[CHOOSE i \in kept : Rank(i) = j]]
  BY Zenon DEF Retain
<1>4. Cardinality(dropped) = 1
  BY <1>1, FS_Singleton, Zenon
<1>5. ASSUME NEW i \in 1..Len(s) PROVE Rank(i) = IF p < i THEN i - 1 ELSE i
  <2>1. Cardinality(Before(i)) = IF p < i THEN 1 ELSE 0
    <3>1. Cardinality({p}) = 1 /\ Cardinality({}) = 0
      BY FS_Singleton, FS_EmptySet, Zenon
    <3>2. Before(i) = IF p < i THEN {p} ELSE {}
      BY <1>2, Zenon
    <3> HIDE DEF Before
    <3> QED BY <3>1, <3>2, Zenon
  <2> HIDE DEF Before
  <2> QED BY <2>1
<1> HIDE DEF Before, dropped
<1> HIDE DEF Rank, kept
<1>6. ASSUME NEW j \in 1..(Len(s) - 1)
      PROVE  (CHOOSE i \in kept : Rank(i) = j) = at(j)
  <2>1. at(j) \in kept /\ Rank(at(j)) = j
    BY <1>1, <1>5
  <2>2. \A i \in kept : Rank(i) = j => i = at(j)
    BY <1>1, <1>5
  <2> HIDE DEF at
  <2> QED BY <2>1, <2>2, Zenon
<1>7. Retain(s, c) = [j \in 1..(Len(s) - 1) |-> s[at(j)]]
  <2> HIDE DEF at
  <2> QED BY <1>3, <1>4, <1>6, Zenon
<1> QED BY <1>7, Zenon DEF DropAt

\* Either way what is left is a line without c, in which nobody is new.
LEMMA RetainKeeps ==
    ASSUME NEW s \in Seq(QueueEntry), NEW c, Distinct(s)
    PROVE  /\ Retain(s, c) \in Seq(QueueEntry)
           /\ Distinct(Retain(s, c))
           /\ \A i \in 1..Len(Retain(s, c)) :
                 /\ Retain(s, c)[i].client_id # c
                 /\ \E k \in 1..Len(s) : Retain(s, c)[i] = s[k]
<1>1. CASE \A i \in 1..Len(s) : s[i].client_id # c
  BY <1>1, RetainAbsent, Zenon
<1>2. CASE \E i \in 1..Len(s) : s[i].client_id = c
  <2>1. PICK p \in 1..Len(s) : s[p].client_id = c
    BY <1>2, Zenon
  <2>2. Retain(s, c) = DropAt(s, p)
    BY <2>1, RetainPresent, Zenon
  <2>3. DropAt(s, p) \in Seq(QueueEntry) /\ Len(DropAt(s, p)) = Len(s) - 1
    BY DEF DropAt
  <2>4. \A i \in 1..(Len(s) - 1) : DropAt(s, p)[i] = IF i < p THEN s[i] ELSE s[i + 1]
    BY Zenon DEF DropAt
  <2>5. Distinct(DropAt(s, p))
    BY <2>3, <2>4, SMTT(40) DEF Distinct
  <2>6. \A i \in 1..(Len(s) - 1) : DropAt(s, p)[i].client_id # c
    BY <2>1, <2>4 DEF Distinct
  <2> QED BY <2>2, <2>3, <2>4, <2>5, <2>6, SMTT(40)
<1> QED BY <1>1, <1>2, Zenon

-----------------------------------------------------------------------------
\* pop_front keeps a proper queue proper, and forgets the owner that left.
LEMMA PromoteKeeps ==
    ASSUME NEW q, ProperQueue(q), NEW c, IsPrimaryOwner(q, c)
    PROVE  /\ Proper(Promote(q))
           /\ Promote(q) # None => ~ ContainsClient(Promote(q), c)
<1> USE NoneAssumption DEF ProperQueue, Proper, QueueRecord
<1>1. CASE q.waiters = <<>>
  BY <1>1, Zenon DEF Promote
<1>2. CASE q.waiters # <<>>
  <2> DEFINE w == q.waiters
  <2>1. w \in Seq(QueueEntry) /\ w # <<>> /\ Head(w) \in QueueEntry /\ Head(w) = w[1]
        /\ Tail(w) \in Seq(QueueEntry) /\ Len(Tail(w)) = Len(w) - 1
        /\ \A i \in 1..(Len(w) - 1) : Tail(w)[i] = w[i + 1]
    BY <1>2
  <2>2. Promote(q) = [primary_owner |-> Head(w), waiters |-> Tail(w)]
    BY <1>2, Zenon DEF Promote
  <2>3. Promote(q) \in QueueRecord /\ Promote(q).primary_owner # None
    BY <2>1, <2>2, SMTT(40)
  <2>4. Distinct(Tail(w))
    BY <2>1, SMTT(40) DEF Distinct
  <2>5. ~ Waits(Promote(q), Promote(q).primary_owner.client_id)
    BY <2>1, <2>2 DEF Distinct, Waits
  <2>6. ~ ContainsClient(Promote(q), c)
    BY <2>1, <2>2 DEF ContainsClient, IsPrimaryOwner, Waits
  <2> QED BY <2>2, <2>3, <2>4, <2>5, <2>6, SMTT(40)
<1> QED BY <1>1, <1>2, Zenon

\* retain on the waiters keeps a proper queue proper, and forgets the waiter.
LEMMA RetainInQueue ==
    ASSUME NEW q, ProperQueue(q), NEW c, ~ IsPrimaryOwner(q, c)
    PROVE  LET r == [q EXCEPT !.waiters = Retain(@, c)]
           IN  /\ ProperQueue(r)
               /\ ~ ContainsClient(r, c)
               /\ r.primary_owner = q.primary_owner
<1> DEFINE r == [q EXCEPT !.waiters = Retain(@, c)]
<1>1. q \in QueueRecord /\ q.waiters \in Seq(QueueEntry) /\ Distinct(q.waiters)
  BY Zenon DEF ProperQueue, QueueRecord
<1>2. r = [primary_owner |-> q.primary_owner, waiters |-> Retain(q.waiters, c)]
  BY <1>1 DEF QueueRecord
<1>3. /\ Retain(q.waiters, c) \in Seq(QueueEntry)
      /\ Distinct(Retain(q.waiters, c))
      /\ \A i \in 1..Len(Retain(q.waiters, c)) :
            /\ Retain(q.waiters, c)[i].client_id # c
            /\ \E k \in 1..Len(q.waiters) : Retain(q.waiters, c)[i] = q.waiters[k]
  BY <1>1, RetainKeeps, SMTT(40)
<1> HIDE DEF r
<1>4. r \in QueueRecord /\ r.primary_owner = q.primary_owner /\ r.primary_owner # None
  BY <1>1, <1>2, <1>3, Zenon DEF QueueRecord, ProperQueue
<1>5. ~ Waits(r, r.primary_owner.client_id)
  BY <1>2, <1>3, Zenon DEF Waits, ProperQueue
<1>6. ~ ContainsClient(r, c)
  BY <1>2, <1>3, Zenon DEF Waits, ContainsClient, IsPrimaryOwner
<1>7. Distinct(r.waiters)
  BY <1>2, <1>3, Zenon
<1>8. ProperQueue(r)
  BY <1>4, <1>5, <1>7, Zenon DEF ProperQueue
<1> QED BY <1>4, <1>6, <1>8, Zenon DEF r

\* A new claim, at the end of the line or by replacing the owner.
LEMMA ClaimKeeps ==
    ASSUME NEW q, ProperQueue(q), NEW e \in QueueEntry, ~ ContainsClient(q, e.client_id)
    PROVE  /\ ProperQueue([q EXCEPT !.waiters = Append(@, e)])
           /\ ProperQueue(Replace(q, e))
<1> USE NoneAssumption
<1> DEFINE o == q.primary_owner
           w == q.waiters
<1>1. q \in QueueRecord /\ o \in QueueEntry /\ w \in Seq(QueueEntry) /\ Distinct(w)
  BY Zenon DEF ProperQueue, QueueRecord
<1>2. /\ o.client_id # e.client_id
      /\ \A i \in 1..Len(w) : w[i].client_id # e.client_id /\ w[i].client_id # o.client_id
  BY Zenon DEF ProperQueue, ContainsClient, IsPrimaryOwner, Waits
<1>3. ProperQueue([q EXCEPT !.waiters = Append(@, e)])
  <2> DEFINE r == [primary_owner |-> o, waiters |-> Append(w, e)]
  <2>1. [q EXCEPT !.waiters = Append(@, e)] = r
    <3> DEFINE v == Append(w, e)
    <3> HIDE DEF v
    <3>1. [q EXCEPT !.waiters = v] = [primary_owner |-> o, waiters |-> v]
      BY <1>1 DEF QueueRecord
    <3> QED BY <3>1, Zenon DEF v
  <2>2. /\ Append(w, e) \in Seq(QueueEntry) /\ Len(Append(w, e)) = Len(w) + 1
        /\ \A i \in 1..(Len(w) + 1) :
              Append(w, e)[i] = IF i = Len(w) + 1 THEN e ELSE w[i]
    BY <1>1
  <2>3. Distinct(Append(w, e))
    BY <1>1, <1>2, <2>2 DEF Distinct
  <2>4. ~ Waits(r, o.client_id)
    BY <1>2, <2>2 DEF Waits
  <2>5. r \in QueueRecord /\ o # None
    BY <1>1, <2>2, Zenon DEF QueueRecord
  <2>6. ProperQueue(r)
    BY <2>3, <2>4, <2>5, Zenon DEF ProperQueue
  <2> QED BY <2>1, <2>6, Zenon
<1>4. ProperQueue(Replace(q, e))
  <2> DEFINE r == [primary_owner |-> e, waiters |-> <<o>> \o w]
  <2>2. /\ <<o>> \o w \in Seq(QueueEntry) /\ Len(<<o>> \o w) = Len(w) + 1
        /\ \A i \in 1..(Len(w) + 1) : (<<o>> \o w)[i] = IF i = 1 THEN o ELSE w[i - 1]
    BY <1>1
  <2>3. Distinct(<<o>> \o w)
    <3> DEFINE v == <<o>> \o w
    <3> SUFFICES ASSUME NEW i \in 1..(Len(w) + 1), NEW j \in 1..(Len(w) + 1),
                        v[i].client_id = v[j].client_id, i # j
                 PROVE  FALSE
      BY <2>2, Zenon DEF Distinct
    <3>1. v[i] = (IF i = 1 THEN o ELSE w[i - 1]) /\ v[j] = (IF j = 1 THEN o ELSE w[j - 1])
      BY <2>2, Zenon
    <3> HIDE DEF v, o, w
    <3>2. Len(w) \in Nat
      BY <1>1
    <3>3. CASE i = 1 \/ j = 1
      BY <1>2, <3>1, <3>2, <3>3, SMTT(40)
    <3>4. CASE i # 1 /\ j # 1
      <4>1. i - 1 \in 1..Len(w) /\ j - 1 \in 1..Len(w)
        BY <3>2, <3>4
      <4>2. w[i - 1].client_id = w[j - 1].client_id
        BY <3>1, <3>4, Zenon
      <4>3. i - 1 = j - 1
        BY <1>1, <4>1, <4>2, Zenon DEF Distinct
      <4> QED BY <4>3
    <3> QED BY <3>3, <3>4, Zenon
  <2>4. ~ Waits(r, e.client_id)
    BY <1>2, <2>2 DEF Waits
  <2>5. r \in QueueRecord /\ e # None
    BY <1>1, <2>2, Zenon DEF QueueRecord
  <2>6. ProperQueue(r)
    BY <2>3, <2>4, <2>5, Zenon DEF ProperQueue
  <2> QED BY <2>6, Zenon DEF Replace
<1> QED BY <1>3, <1>4, Zenon

\* request_name leaves a proper queue behind, whatever the flags.
LEMMA RequestKeeps ==
    ASSUME NEW q, Proper(q), NEW c \in Clients, NEW flags
    PROVE  ProperQueue(RequestName(q, c, flags).queue)
<1> DEFINE e == [client_id |-> c, allow_replacement |-> "ALLOW_REPLACEMENT" \in flags]
<1>1. e \in QueueEntry /\ e.client_id = c /\ e # None
  <2>1. ("ALLOW_REPLACEMENT" \in flags) \in BOOLEAN
    OBVIOUS
  <2> DEFINE b == "ALLOW_REPLACEMENT" \in flags
  <2> HIDE DEF b
  <2>2. b \in BOOLEAN
    BY <2>1, Zenon DEF b
  <2>3. e = [client_id |-> c, allow_replacement |-> b]
    BY Zenon DEF b
  <2> HIDE DEF e
  <2>4. e \in QueueEntry /\ e.client_id = c
    BY <2>2, <2>3, Zenon DEF QueueEntry
  <2> QED BY <2>4, NoneAssumption, Zenon
<1> HIDE DEF e
<1>2. CASE q = None
  <2>1. RequestName(q, c, flags).queue = [primary_owner |-> e, waiters |-> <<>>]
    BY <1>2 DEF RequestName, RequestResult, EmptyQueue, IsPrimaryOwner, ContainsClient,
                Waits, e
  <2>2. ProperQueue([primary_owner |-> e, waiters |-> <<>>])
    BY <1>1 DEF ProperQueue, QueueRecord, Distinct, Waits
  <2> QED BY <2>1, <2>2, Zenon
<1>3. CASE q # None
  <2>1. ProperQueue(q) /\ q.primary_owner # None
    BY <1>3, Zenon DEF Proper, ProperQueue
  <2>2. CASE ContainsClient(q, c)
    BY <1>3, <2>1, <2>2, Zenon DEF RequestName, RequestResult
  <2>3. CASE ~ ContainsClient(q, c)
    <3>1. ProperQueue([q EXCEPT !.waiters = Append(@, e)]) /\ ProperQueue(Replace(q, e))
      BY <1>1, <2>1, <2>3, ClaimKeeps, Zenon
    <3>2. RequestName(q, c, flags).queue \in
             {q, Replace(q, e), [q EXCEPT !.waiters = Append(@, e)]}
      BY <1>3, <2>1, <2>3, Zenon DEF RequestName, RequestResult, Enqueue, ContainsClient, e
    <3> QED BY <2>1, <3>1, <3>2, Zenon
  <2> QED BY <2>2, <2>3, Zenon
<1> QED BY <1>2, <1>3, Zenon

\* release_name and remove_client keep a queue proper, and c is in it no more.
LEMMA ReleaseKeeps ==
    ASSUME NEW q, Proper(q), NEW c
    PROVE  /\ Proper(ReleaseName(q, c).queue)
           /\ ReleaseName(q, c).queue # None => ~ ContainsClient(ReleaseName(q, c).queue, c)
<1>1. CASE q = None
  BY <1>1, Zenon DEF ReleaseName, ReleaseResult, Proper
<1>2. CASE q # None /\ IsPrimaryOwner(q, c)
  <2>1. ReleaseName(q, c).queue = Promote(q)
    BY <1>2, Zenon DEF ReleaseName, ReleaseOwner, ReleaseResult
  <2> QED BY <1>2, <2>1, PromoteKeeps, Zenon DEF Proper
<1>3. CASE q # None /\ ~ IsPrimaryOwner(q, c) /\ Waits(q, c)
  <2>1. ReleaseName(q, c).queue = [q EXCEPT !.waiters = Retain(@, c)]
    BY <1>3, Zenon DEF ReleaseName, ReleaseResult
  <2> QED BY <1>3, <2>1, RetainInQueue DEF Proper
<1>4. CASE q # None /\ ~ IsPrimaryOwner(q, c) /\ ~ Waits(q, c)
  BY <1>4, Zenon DEF ReleaseName, ReleaseResult, Proper, ContainsClient
<1> QED BY <1>1, <1>2, <1>3, <1>4, Zenon

\* remove_client keeps every queue proper, and c is in none afterwards.
LEMMA WithoutKeeps ==
    ASSUME NEW q, Proper(q), NEW c
    PROVE  /\ Proper(WithoutClient(q, c))
           /\ WithoutClient(q, c) # None => ~ ContainsClient(WithoutClient(q, c), c)
<1>1. CASE q = None
  BY <1>1, Zenon DEF WithoutClient, Proper
<1>2. CASE q # None /\ IsPrimaryOwner(q, c)
  BY <1>2, PromoteKeeps, Zenon DEF Proper, WithoutClient
<1>3. CASE q # None /\ ~ IsPrimaryOwner(q, c)
  <2> DEFINE r == [q EXCEPT !.waiters = Retain(@, c)]
  <2>1. ProperQueue(r) /\ ~ ContainsClient(r, c)
    BY <1>3, RetainInQueue, Zenon DEF Proper
  <2>2. WithoutClient(q, c) = IF r = EmptyQueue THEN None ELSE r
    BY <1>3, Zenon DEF WithoutClient
  <2> HIDE DEF r
  <2> QED BY <2>1, <2>2, Zenon DEF Proper
<1> QED BY <1>1, <1>2, <1>3, Zenon

-----------------------------------------------------------------------------
\* A proper queue is a well-typed one.
LEMMA ProperTyped ==
    ASSUME NEW q, Proper(q)
    PROVE  q \in QueueRecord \cup {None}
BY Zenon DEF Proper, ProperQueue

\* The invariant: every operation of the manager keeps all queues proper.
THEOREM QueuesAlwaysProper == Spec => []QueuesProper
<1>1. Init => QueuesProper
  BY Zenon DEF Init, QueuesProper, Proper
<1>2. QueuesProper /\ [Next]_queues => QueuesProper'
  <2> SUFFICES ASSUME QueuesProper, [Next]_queues PROVE QueuesProper'
    BY Zenon
  <2> USE DEF QueuesProper
  <2>1. ASSUME NEW n \in Names, NEW c \in Clients, NEW flags \in SUBSET RequestFlags,
               Request(n, c, flags)
        PROVE  QueuesProper'
    <3>1. Proper(RequestName(queues[n], c, flags).queue)
      BY RequestKeeps, Zenon DEF Proper
    <3> QED BY <2>1, <3>1, ProperTyped, Zenon DEF Request
  <2>2. ASSUME NEW n \in Names, NEW c \in Clients, Release(n, c)
        PROVE  QueuesProper'
    <3>1. Proper(ReleaseName(queues[n], c).queue)
      BY ReleaseKeeps, Zenon
    <3> QED BY <2>2, <3>1, ProperTyped, Zenon DEF Release
  <2>3. ASSUME NEW c \in Clients, RemoveClient(c)
        PROVE  QueuesProper'
    <3>1. \A n \in Names : Proper(WithoutClient(queues[n], c))
      BY WithoutKeeps, Zenon
    <3> QED BY <2>3, <3>1, ProperTyped, Zenon DEF RemoveClient
  <2>4. CASE UNCHANGED queues
    BY <2>4, Zenon
  <2> QED BY <2>1, <2>2, <2>3, <2>4, Zenon DEF Next
<1> QED BY <1>1, <1>2, PTL DEF Spec

\* The manager's state is well typed: a queue or nothing for every name.
THEOREM TypeCorrect == Spec => []TypeOK
<1>1. QueuesProper => TypeOK
  BY Zenon DEF QueuesProper, TypeOK
<1> QED BY <1>1, QueuesAlwaysProper, PTL

\* No mix of requests, replacements, releases and disconnects puts a client into
\* a line twice or leaves a queue without an owner.
THEOREM OneLine == Spec => []OneLinePerName
<1>1. QueuesProper => OneLinePerName
  BY Zenon DEF QueuesProper, OneLinePerName, Proper, ProperQueue, Distinct
<1> QED BY <1>1, QueuesAlwaysProper, PTL

-----------------------------------------------------------------------------
\* The six ways through request_name for a proper queue, e being the new entry.
RequestPath(q, c, e, result) ==
    \/ /\ q = None
       /\ result = RequestResult([primary_owner |-> e, waiters |-> <<>>],
                                 "PRIMARY_OWNER", TRUE, None)
    \/ /\ q # None /\ IsPrimaryOwner(q, c)
       /\ result = RequestResult(q, "ALREADY_OWNER", FALSE, None)
    \/ /\ q # None /\ ~ IsPrimaryOwner(q, c) /\ Waits(q, c)
       /\ result = RequestResult(q, "IN_QUEUE", FALSE, None)
    \/ /\ q # None /\ ~ ContainsClient(q, c) /\ q.primary_owner.allow_replacement
       /\ result = RequestResult(Replace(q, e), "PRIMARY_OWNER", TRUE,
                                 q.primary_owner.client_id)
    \/ /\ q # None /\ ~ ContainsClient(q, c)
       /\ result = RequestResult(q, "EXISTS", FALSE, None)
    \/ /\ q # None /\ ~ ContainsClient(q, c)
       /\ result = RequestResult([primary_owner |-> q.primary_owner,
                                  waiters |-> Append(q.waiters, e)],
                                 "IN_QUEUE", FALSE, None)

\* request_name takes exactly one of those ways through its early returns.
LEMMA RequestCases ==
    ASSUME NEW q, Proper(q), NEW c \in Clients, NEW flags
    PROVE  \E e \in QueueEntry :
              e.client_id = c /\ RequestPath(q, c, e, RequestName(q, c, flags))
<1> DEFINE e == [client_id |-> c, allow_replacement |-> "ALLOW_REPLACEMENT" \in flags]
<1>1. e \in QueueEntry /\ e.client_id = c
  <2>1. ("ALLOW_REPLACEMENT" \in flags) \in BOOLEAN
    OBVIOUS
  <2> DEFINE b == "ALLOW_REPLACEMENT" \in flags
  <2> HIDE DEF b
  <2>2. b \in BOOLEAN
    BY <2>1, Zenon DEF b
  <2>3. e = [client_id |-> c, allow_replacement |-> b]
    BY Zenon DEF b
  <2> HIDE DEF e
  <2> QED BY <2>2, <2>3, Zenon DEF QueueEntry
<1> HIDE DEF e
<1> USE <1>1
<1> WITNESS e \in QueueEntry
<1> USE DEF e, RequestPath
<1>2. CASE q = None
  <2>1. [EmptyQueue EXCEPT !.primary_owner = e] = [primary_owner |-> e, waiters |-> <<>>]
    <3> HIDE DEF e
    <3> QED BY DEF EmptyQueue
  <2>2. ~ IsPrimaryOwner(EmptyQueue, c) /\ ~ ContainsClient(EmptyQueue, c)
        /\ EmptyQueue.primary_owner = None
    BY DEF EmptyQueue, IsPrimaryOwner, ContainsClient, Waits
  <2>3. RequestName(q, c, flags) =
           RequestResult([EmptyQueue EXCEPT !.primary_owner = e], "PRIMARY_OWNER", TRUE, None)
    BY <1>2, <2>2, Zenon DEF RequestName
  <2> QED BY <1>1, <1>2, <2>1, <2>3, Zenon
<1>3. CASE q # None
  <2>1. ProperQueue(q) /\ q \in QueueRecord /\ q.primary_owner # None
    BY <1>3, Zenon DEF Proper, ProperQueue
  <2>2. [q EXCEPT !.waiters = Append(@, e)] =
           [primary_owner |-> q.primary_owner, waiters |-> Append(q.waiters, e)]
    <3> DEFINE v == Append(q.waiters, e)
    <3> HIDE DEF v
    <3>1. [q EXCEPT !.waiters = v] = [primary_owner |-> q.primary_owner, waiters |-> v]
      BY <2>1 DEF QueueRecord
    <3> QED BY <3>1, Zenon DEF v
  <2>3. CASE IsPrimaryOwner(q, c)
    BY <1>1, <1>3, <2>3, Zenon DEF RequestName
  <2>4. CASE ~ IsPrimaryOwner(q, c) /\ Waits(q, c)
    BY <1>1, <1>3, <2>4, Zenon DEF RequestName, ContainsClient
  <2>5. CASE ~ ContainsClient(q, c)
    <3>1. ~ IsPrimaryOwner(q, c)
      BY <2>5, Zenon DEF ContainsClient
    <3>2. CASE "REPLACE_EXISTING" \in flags /\ q.primary_owner.allow_replacement
      BY <1>1, <1>3, <2>1, <2>5, <3>1, <3>2, Zenon DEF RequestName
    <3>3. CASE ~ ("REPLACE_EXISTING" \in flags /\ q.primary_owner.allow_replacement)
      <4>1. RequestName(q, c, flags) = Enqueue(q, e, flags)
        BY <1>3, <2>1, <2>5, <3>1, <3>3, Zenon DEF RequestName
      <4>2. \/ Enqueue(q, e, flags) = RequestResult(q, "EXISTS", FALSE, None)
            \/ Enqueue(q, e, flags) =
                  RequestResult([q EXCEPT !.waiters = Append(@, e)], "IN_QUEUE", FALSE, None)
        BY Zenon DEF Enqueue
      <4> QED BY <1>1, <1>3, <2>2, <2>5, <4>1, <4>2, Zenon
    <3> QED BY <3>2, <3>3, Zenon
  <2> QED BY <2>3, <2>4, <2>5, Zenon DEF ContainsClient
<1> QED BY <1>2, <1>3, Zenon

\* Withdrawing the request that forward_to_bus asked for gives back the queue.
LEMMA ReleaseUndoes ==
    ASSUME NEW q, Proper(q), NEW c \in Clients, NEW flags,
           RequestName(q, c, flags).forward_to_bus
    PROVE  ReleaseName(RequestName(q, c, flags).queue, c).queue = q
<1> USE NoneAssumption
<1>1. PICK e \in QueueEntry :
         /\ e.client_id = c
         /\ \/ /\ q = None
               /\ RequestName(q, c, flags).queue = [primary_owner |-> e, waiters |-> <<>>]
            \/ /\ q # None
               /\ RequestName(q, c, flags).queue = Replace(q, e)
  BY RequestCases DEF RequestPath, RequestResult
<1>2. e # None
  BY <1>1, Zenon
<1>3. CASE q = None
  <2> DEFINE r == [primary_owner |-> e, waiters |-> <<>>]
  <2>1. r # None /\ IsPrimaryOwner(r, c) /\ Promote(r) = None
    <3>1. r \in QueueRecord
      BY DEF QueueRecord
    <3> QED BY <1>1, <1>2, <3>1, Zenon DEF IsPrimaryOwner, Promote
  <2>2. ReleaseName(r, c).queue = Promote(r)
    <3> HIDE DEF r
    <3> QED BY <2>1, Zenon DEF ReleaseName, ReleaseOwner, ReleaseResult
  <2> QED BY <1>1, <1>3, <2>1, <2>2, Zenon
<1>4. CASE q # None
  <2> DEFINE o == q.primary_owner
             w == q.waiters
             r == [primary_owner |-> e, waiters |-> <<o>> \o w]
  <2>1. q \in QueueRecord /\ o \in QueueEntry /\ w \in Seq(QueueEntry)
    BY <1>4, Zenon DEF Proper, ProperQueue, QueueRecord
  <2>2. /\ <<o>> \o w \in Seq(QueueEntry) /\ <<o>> \o w # <<>>
        /\ Head(<<o>> \o w) = o /\ Tail(<<o>> \o w) = w
    BY <2>1
  <2>3. r \in QueueRecord
    BY <2>2, Zenon DEF QueueRecord
  <2>4. r # None /\ IsPrimaryOwner(r, c)
    BY <1>1, <1>2, <2>3, Zenon DEF IsPrimaryOwner
  <2>5. Promote(r) = [primary_owner |-> o, waiters |-> w]
    BY <2>2, Zenon DEF Promote
  <2>6. q = [primary_owner |-> o, waiters |-> w]
    BY <2>1, Zenon DEF QueueRecord
  <2>7. ReleaseName(r, c).queue = Promote(r)
    <3> HIDE DEF r
    <3> QED BY <2>4, Zenon DEF ReleaseName, ReleaseOwner, ReleaseResult
  <2> QED BY <1>1, <1>4, <2>5, <2>6, <2>7, Zenon DEF Replace
<1> QED BY <1>3, <1>4, Zenon

\* handle_request_name may undo a refused request by a plain release: in every
\* reachable state that restores the line as it was, a replaced owner included.
THEOREM RevertIsExact == Spec => []RevertRestores
<1>1. QueuesProper => RevertRestores
  BY ReleaseUndoes, Zenon DEF QueuesProper, RevertRestores
<1> QED BY <1>1, QueuesAlwaysProper, PTL

-----------------------------------------------------------------------------
\* For a proper queue, disconnecting and releasing come to the same.
LEMMA RemoveIsRelease ==
    ASSUME NEW q, Proper(q), NEW c
    PROVE  WithoutClient(q, c) = ReleaseName(q, c).queue
<1>1. CASE q = None
  BY <1>1, Zenon DEF WithoutClient, ReleaseName, ReleaseResult
<1>2. CASE q # None /\ IsPrimaryOwner(q, c)
  BY <1>2, Zenon DEF WithoutClient, ReleaseName, ReleaseOwner, ReleaseResult
<1>3. CASE q # None /\ ~ IsPrimaryOwner(q, c)
  <2> DEFINE r == [q EXCEPT !.waiters = Retain(@, c)]
  <2>1. ProperQueue(q) /\ q \in QueueRecord /\ q.waiters \in Seq(QueueEntry)
    BY <1>3, Zenon DEF Proper, ProperQueue, QueueRecord
  <2>2. ProperQueue(r)
    BY <1>3, <2>1, RetainInQueue, Zenon
  <2>3. r # EmptyQueue
    <3> HIDE DEF r
    <3> QED BY <2>2 DEF ProperQueue, EmptyQueue
  <2>4. WithoutClient(q, c) = r
    BY <1>3, <2>3, Zenon DEF WithoutClient
  <2>5. CASE Waits(q, c)
    BY <1>3, <2>4, <2>5, Zenon DEF ReleaseName, ReleaseResult
  <2>6. CASE ~ Waits(q, c)
    <3>1. Retain(q.waiters, c) = q.waiters
      BY <2>1, <2>6, RetainAbsent, Zenon DEF Waits
    <3>2. r = q
      <4> DEFINE v == Retain(q.waiters, c)
      <4> HIDE DEF v
      <4>1. [q EXCEPT !.waiters = v] = [primary_owner |-> q.primary_owner, waiters |-> v]
        BY <2>1 DEF QueueRecord
      <4>2. q = [primary_owner |-> q.primary_owner, waiters |-> q.waiters]
        BY <2>1, Zenon DEF QueueRecord
      <4> QED BY <3>1, <4>1, <4>2, Zenon DEF v
    <3> HIDE DEF r
    <3> QED BY <1>3, <2>4, <2>6, <3>2, Zenon DEF ReleaseName, ReleaseResult
  <2> QED BY <2>5, <2>6, Zenon
<1> QED BY <1>1, <1>2, <1>3, Zenon

\* The line of a queue, position by position.
LEMMA EntriesOf ==
    ASSUME NEW q, ProperQueue(q)
    PROVE  /\ Entries(q) = <<q.primary_owner>> \o q.waiters
           /\ Entries(q) \in Seq(QueueEntry)
           /\ Len(Entries(q)) = Len(q.waiters) + 1
           /\ \A i \in 1..(Len(q.waiters) + 1) :
                 Entries(q)[i] = IF i = 1 THEN q.primary_owner ELSE q.waiters[i - 1]
           /\ Distinct(Entries(q))
<1> USE NoneAssumption
<1> DEFINE o == q.primary_owner
           w == q.waiters
<1>1. /\ q # None /\ o # None /\ o \in QueueEntry /\ w \in Seq(QueueEntry)
      /\ Distinct(w) /\ ~ Waits(q, o.client_id)
  BY Zenon DEF ProperQueue, QueueRecord
<1>2. Entries(q) = <<o>> \o w
  BY <1>1, Zenon DEF Entries
<1>3. /\ <<o>> \o w \in Seq(QueueEntry) /\ Len(<<o>> \o w) = Len(w) + 1
      /\ \A i \in 1..(Len(w) + 1) : (<<o>> \o w)[i] = IF i = 1 THEN o ELSE w[i - 1]
  BY <1>1
<1>4. \A i \in 1..Len(w) : w[i].client_id # o.client_id
  BY <1>1, Zenon DEF Waits
<1>5. Distinct(Entries(q))
  <2> DEFINE v == Entries(q)
  <2> SUFFICES ASSUME NEW i \in 1..(Len(w) + 1), NEW j \in 1..(Len(w) + 1),
                      v[i].client_id = v[j].client_id, i # j
               PROVE  FALSE
    BY <1>2, <1>3, Zenon DEF Distinct
  <2>1. v[i] = (IF i = 1 THEN o ELSE w[i - 1]) /\ v[j] = (IF j = 1 THEN o ELSE w[j - 1])
    BY <1>2, <1>3, Zenon
  <2>2. Len(w) \in Nat
    BY <1>1
  <2> HIDE DEF v, o, w
  <2>3. CASE i = 1 \/ j = 1
    BY <1>4, <2>1, <2>2, <2>3, SMTT(40)
  <2>4. CASE i # 1 /\ j # 1
    <3>1. i - 1 \in 1..Len(w) /\ j - 1 \in 1..Len(w)
      BY <2>2, <2>4
    <3>2. w[i - 1].client_id = w[j - 1].client_id
      BY <2>1, <2>4, Zenon
    <3>3. i - 1 = j - 1
      BY <1>1, <3>1, <3>2, Zenon DEF Distinct
    <3> QED BY <3>3
  <2> QED BY <2>3, <2>4, Zenon
<1> QED BY <1>2, <1>3, <1>5, Zenon

\* Dropping from a line with somebody put in front of it.
LEMMA DropAfterCons ==
    ASSUME NEW o \in QueueEntry, NEW w \in Seq(QueueEntry)
    PROVE  /\ DropAt(<<o>> \o w, 1) = w
           /\ \A p \in 2..(Len(w) + 1) :
                 DropAt(<<o>> \o w, p) = <<o>> \o DropAt(w, p - 1)
<1> DEFINE S == QueueEntry
<1> HIDE DEF S
<1>0. o \in S /\ w \in Seq(S)
  BY Zenon DEF S
<1> DEFINE E == <<o>> \o w
<1>1. /\ E \in Seq(S) /\ Len(E) = Len(w) + 1 /\ Len(w) \in Nat
      /\ \A i \in 1..(Len(w) + 1) : E[i] = IF i = 1 THEN o ELSE w[i - 1]
  BY <1>0
<1> HIDE DEF E
<1>2. DropAt(E, 1) = w
  <2>1. DropAt(E, 1) = [j \in 1..Len(w) |-> w[j]]
    BY <1>0, <1>1 DEF DropAt
  <2> QED BY <1>0, <2>1
<1>3. ASSUME NEW p \in 1..Len(w)
      PROVE  DropAt(E, p + 1) = <<o>> \o DropAt(w, p)
  <2> DEFINE d == DropAt(w, p)
             f == DropAt(E, p + 1)
             g == <<o>> \o d
  <2>1. /\ d \in Seq(S) /\ Len(d) = Len(w) - 1
        /\ \A i \in 1..(Len(w) - 1) : d[i] = IF i < p THEN w[i] ELSE w[i + 1]
    BY <1>0, <1>1 DEF DropAt
  <2>2. /\ f \in Seq(S) /\ Len(f) = Len(w)
        /\ \A i \in 1..Len(w) : f[i] = IF i < p + 1 THEN E[i] ELSE E[i + 1]
    BY <1>0, <1>1 DEF DropAt
  <2> HIDE DEF d, f
  <2>3. /\ g \in Seq(S) /\ Len(g) = Len(w)
        /\ \A i \in 1..Len(w) : g[i] = IF i = 1 THEN o ELSE d[i - 1]
    BY <1>0, <1>1, <2>1
  <2> HIDE DEF g
  <2>4. ASSUME NEW i \in 1..Len(w) PROVE f[i] = g[i]
    <3>1. CASE i = 1
      BY <1>1, <2>2, <2>3, <3>1
    <3>2. CASE i # 1
      <4>0. g[i] = d[i - 1]
        BY <2>3, <3>2, Zenon
      <4>1. g[i] = d[i - 1] /\ i - 1 \in 1..(Len(w) - 1)
        BY <1>1, <3>2, <4>0
      <4>2. d[i - 1] = IF i < p + 1 THEN w[i - 1] ELSE w[i]
        BY <1>1, <2>1, <4>1
      <4>3. E[i] = w[i - 1] /\ E[i + 1] = w[i]
        BY <1>1, <3>2
      <4> QED BY <2>2, <4>1, <4>2, <4>3, Zenon
    <3> QED BY <3>1, <3>2, Zenon
  <2>5. f = g
    BY <2>2, <2>3, <2>4, SeqEqual
  <2> QED BY <2>5, Zenon DEF d, f, g
<1>4. ASSUME NEW p \in 2..(Len(w) + 1)
      PROVE  DropAt(E, p) = <<o>> \o DropAt(w, p - 1)
  <2>1. p - 1 \in 1..Len(w) /\ (p - 1) + 1 = p
    BY <1>1
  <2>2. DropAt(E, (p - 1) + 1) = <<o>> \o DropAt(w, p - 1)
    BY <1>3, <2>1, Zenon
  <2> QED BY <2>1, <2>2, Zenon
<1> QED BY <1>2, <1>4, Zenon DEF E

\* A release takes exactly the client's claim out of the line.
LEMMA ReleaseDropsClaim ==
    ASSUME NEW q, ProperQueue(q), NEW c,
           NEW p \in 1..Len(Entries(q)), Entries(q)[p].client_id = c
    PROVE  Entries(ReleaseName(q, c).queue) = DropAt(Entries(q), p)
<1> USE NoneAssumption
<1> DEFINE o == q.primary_owner
           w == q.waiters
           E == Entries(q)
<1>1. /\ q \in QueueRecord /\ q # None /\ o # None /\ o \in QueueEntry
      /\ w \in Seq(QueueEntry) /\ Distinct(w) /\ ~ Waits(q, o.client_id)
  BY Zenon DEF ProperQueue, QueueRecord
<1>2. /\ E = <<o>> \o w /\ Len(E) = Len(w) + 1
      /\ \A i \in 1..(Len(w) + 1) : E[i] = IF i = 1 THEN o ELSE w[i - 1]
  BY EntriesOf, Zenon
<1>3. p \in 1..(Len(w) + 1) /\ Len(w) \in Nat /\ E[p].client_id = c
  BY <1>1, <1>2
<1>4. CASE p = 1
  <2>1. IsPrimaryOwner(q, c)
    BY <1>1, <1>2, <1>3, <1>4, Zenon DEF IsPrimaryOwner
  <2>2. ReleaseName(q, c).queue = Promote(q)
    BY <1>1, <2>1, Zenon DEF ReleaseName, ReleaseOwner, ReleaseResult
  <2>3. Entries(Promote(q)) = w
    <3>1. CASE w = <<>>
      BY <3>1, Zenon DEF Promote, Entries
    <3>2. CASE w # <<>>
      <4> DEFINE h == Head(w)
                 t == Tail(w)
                 r == [primary_owner |-> h, waiters |-> t]
      <4>1. h \in QueueEntry /\ t \in Seq(QueueEntry) /\ w = <<h>> \o t
        BY <1>1, <3>2
      <4>2. Promote(q) = r
        BY <3>2, Zenon DEF Promote
      <4> HIDE DEF h, t
      <4>3. r \in QueueRecord /\ h # None
        BY <4>1, Zenon DEF QueueRecord
      <4>4. Entries(r) = <<h>> \o t
        BY <4>3, Zenon DEF Entries
      <4> QED BY <4>1, <4>2, <4>4, Zenon
    <3> QED BY <3>1, <3>2, Zenon
  <2> QED BY <1>1, <1>2, <1>4, <2>2, <2>3, DropAfterCons, SMTT(40)
<1>5. CASE p # 1
  <2>1. p - 1 \in 1..Len(w) /\ w[p - 1].client_id = c
    <3> HIDE DEF E, w, o
    <3> QED BY <1>2, <1>3, <1>5
  <2>2. Waits(q, c)
    BY <2>1, Zenon DEF Waits
  <2>3. ~ IsPrimaryOwner(q, c)
    BY <1>1, <2>2, Zenon DEF IsPrimaryOwner
  <2> DEFINE r == [q EXCEPT !.waiters = Retain(@, c)]
  <2>4. ReleaseName(q, c).queue = r
    BY <1>1, <2>2, <2>3, Zenon DEF ReleaseName, ReleaseResult
  <2>5. Retain(w, c) = DropAt(w, p - 1)
    BY <1>1, <2>1, RetainPresent, Zenon
  <2>6. r.primary_owner = o /\ r.waiters = Retain(w, c) /\ ProperQueue(r)
    <3>1. r = [primary_owner |-> o, waiters |-> Retain(w, c)]
      BY <1>1 DEF QueueRecord
    <3>2. ProperQueue(r)
      BY <2>3, RetainInQueue, Zenon
    <3> HIDE DEF r
    <3> QED BY <3>1, <3>2, Zenon
  <2> HIDE DEF r
  <2>7. Entries(r) = <<o>> \o DropAt(w, p - 1)
    BY <2>5, <2>6, EntriesOf, Zenon
  <2>8. DropAt(E, p) = <<o>> \o DropAt(w, p - 1)
    <3> HIDE DEF E, w, o
    <3>1. p \in 2..(Len(w) + 1)
      BY <1>3, <1>5
    <3> QED BY <1>1, <1>2, <3>1, DropAfterCons, Zenon
  <2> QED BY <2>4, <2>7, <2>8, Zenon
<1> QED BY <1>4, <1>5, Zenon

-----------------------------------------------------------------------------
\* A claim as the abstract line sees it.
LEMMA ClaimsOf ==
    ASSUME QueuesProper, NEW n \in Names, NEW c
    PROVE  Ownership!Claims(n, c) =
              {i \in 1..Len(Entries(queues[n])) : Entries(queues[n])[i].client_id = c}
BY Zenon DEF Ownership!Claims

\* A client has a claim on a name exactly when it is in the queue.
LEMMA ClaimsAreMembers ==
    ASSUME NEW q, ProperQueue(q), NEW c
    PROVE  ContainsClient(q, c) <=>
              \E i \in 1..Len(Entries(q)) : Entries(q)[i].client_id = c
<1> DEFINE o == q.primary_owner
           w == q.waiters
           E == Entries(q)
<1>1. /\ E = <<o>> \o w /\ Len(E) = Len(w) + 1 /\ Len(w) \in Nat
      /\ \A i \in 1..(Len(w) + 1) : E[i] = IF i = 1 THEN o ELSE w[i - 1]
  BY EntriesOf DEF ProperQueue, QueueRecord
<1>2. ContainsClient(q, c) <=> o.client_id = c \/ \E i \in 1..Len(w) : w[i].client_id = c
  BY Zenon DEF ProperQueue, ContainsClient, IsPrimaryOwner, Waits
<1> HIDE DEF o, w, E
<1>3. ASSUME NEW i \in 1..Len(w), w[i].client_id = c
      PROVE  \E j \in 1..Len(E) : E[j].client_id = c
  <2>1. i + 1 \in 1..Len(E) /\ E[i + 1] = w[i]
    BY <1>1
  <2> QED BY <1>3, <2>1, Zenon
<1>4. ASSUME o.client_id = c
      PROVE  \E j \in 1..Len(E) : E[j].client_id = c
  <2>1. 1 \in 1..Len(E) /\ E[1] = o
    BY <1>1
  <2> QED BY <1>4, <2>1, Zenon
<1>5. ASSUME NEW j \in 1..Len(E), E[j].client_id = c
      PROVE  o.client_id = c \/ \E i \in 1..Len(w) : w[i].client_id = c
  <2>1. CASE j = 1
    BY <1>1, <1>5, <2>1, Zenon
  <2>2. CASE j # 1
    <3>1. j - 1 \in 1..Len(w) /\ E[j] = w[j - 1]
      BY <1>1, <2>2
    <3> QED BY <1>5, <3>1, Zenon
  <2> QED BY <2>1, <2>2, Zenon
<1>6. ContainsClient(q, c) <=> \E j \in 1..Len(E) : E[j].client_id = c
  BY <1>2, <1>3, <1>4, <1>5, Zenon
<1> QED BY <1>6, Zenon DEF E

\* What a request does to the line of its name: nothing, or a new claim at the
\* end, or one in front of an owner that allows it.
ClaimStep(q, c, r) ==
    \/ r = q
    \/ \E e \in QueueEntry :
          /\ e.client_id = c
          /\ \A i \in 1..Len(Entries(q)) : Entries(q)[i].client_id # c
          /\ \/ Entries(r) = Append(Entries(q), e)
             \/ /\ Entries(q) # <<>> /\ Entries(q)[1].allow_replacement
                /\ Entries(r) = <<e>> \o Entries(q)

\* On the line of claims request_name is a step of that kind.
LEMMA RequestOnLine ==
    ASSUME NEW q, Proper(q), NEW c \in Clients, NEW flags
    PROVE  ClaimStep(q, c, RequestName(q, c, flags).queue)
<1> USE DEF ClaimStep
<1> USE NoneAssumption
<1> DEFINE r == RequestName(q, c, flags).queue
<1>1. PICK e \in QueueEntry :
         /\ e.client_id = c
         /\ \/ q = None /\ r = [primary_owner |-> e, waiters |-> <<>>]
            \/ q # None /\ r = q
            \/ /\ q # None /\ ~ ContainsClient(q, c)
               /\ q.primary_owner.allow_replacement /\ r = Replace(q, e)
            \/ /\ q # None /\ ~ ContainsClient(q, c)
               /\ r = [primary_owner |-> q.primary_owner, waiters |-> Append(q.waiters, e)]
  <2>1. PICK e \in QueueEntry :
           e.client_id = c /\ RequestPath(q, c, e, RequestName(q, c, flags))
    BY RequestCases, Zenon
  <2> DEFINE result == RequestName(q, c, flags)
  <2>2. r = result.queue
    BY Zenon
  <2> HIDE DEF result, r
  <2>3. RequestPath(q, c, e, result)
    BY <2>1, Zenon DEF result
  <2>4. \/ q = None /\ r = [primary_owner |-> e, waiters |-> <<>>]
        \/ q # None /\ r = q
        \/ /\ q # None /\ ~ ContainsClient(q, c)
           /\ q.primary_owner.allow_replacement /\ r = Replace(q, e)
        \/ /\ q # None /\ ~ ContainsClient(q, c)
           /\ r = [primary_owner |-> q.primary_owner, waiters |-> Append(q.waiters, e)]
    <3>1. CASE q = None /\ result = RequestResult([primary_owner |-> e, waiters |-> <<>>],
                                                  "PRIMARY_OWNER", TRUE, None)
      <4>1. r = [primary_owner |-> e, waiters |-> <<>>]
        BY <2>2, <3>1, Zenon DEF RequestResult
      <4> QED BY <3>1, <4>1, Zenon
    <3>2. CASE q # None /\ \E code : result = RequestResult(q, code, FALSE, None)
      <4>1. r = q
        BY <2>2, <3>2 DEF RequestResult
      <4> QED BY <3>2, <4>1, Zenon
    <3>3. CASE /\ q # None /\ ~ ContainsClient(q, c) /\ q.primary_owner.allow_replacement
               /\ result = RequestResult(Replace(q, e), "PRIMARY_OWNER", TRUE,
                                         q.primary_owner.client_id)
      <4>1. r = Replace(q, e)
        BY <2>2, <3>3, Zenon DEF RequestResult
      <4> QED BY <3>3, <4>1, Zenon
    <3>4. CASE /\ q # None /\ ~ ContainsClient(q, c)
               /\ result = RequestResult([primary_owner |-> q.primary_owner,
                                          waiters |-> Append(q.waiters, e)],
                                         "IN_QUEUE", FALSE, None)
      <4>1. r = [primary_owner |-> q.primary_owner, waiters |-> Append(q.waiters, e)]
        BY <2>2, <3>4, Zenon DEF RequestResult
      <4> QED BY <3>4, <4>1, Zenon
    <3> QED BY <2>3, <3>1, <3>2, <3>3, <3>4, Zenon DEF RequestPath
  <2> QED BY <2>1, <2>4, Zenon
<1>2. ProperQueue(r)
  BY RequestKeeps, Zenon
<1> HIDE DEF r
<1>3. Entries(r) = <<r.primary_owner>> \o r.waiters
  BY <1>2, EntriesOf, Zenon
<1>4. CASE q = None
  <2>1. Entries(q) = <<>>
    BY <1>4, Zenon DEF Entries
  <2>2. Entries(r) = <<e>> \o <<>>
    <3>1. r = [primary_owner |-> e, waiters |-> <<>>]
      BY <1>1, <1>4, Zenon
    <3>2. r.primary_owner = e /\ r.waiters = <<>>
      BY <3>1, Zenon
    <3> QED BY <1>3, <3>2, Zenon
  <2>3. Entries(r) = Append(<<>>, e)
    BY <2>2
  <2> QED BY <1>1, <2>1, <2>3 DEF r
<1>5. CASE q # None /\ ~ ContainsClient(q, c) /\ r # q
  <2> DEFINE o == q.primary_owner
             w == q.waiters
  <2>1. ProperQueue(q) /\ o \in QueueEntry /\ w \in Seq(QueueEntry)
    BY <1>5, Zenon DEF Proper, ProperQueue, QueueRecord
  <2>2. /\ Entries(q) = <<o>> \o w /\ Entries(q) # <<>> /\ Entries(q)[1] = o
        /\ \A i \in 1..Len(Entries(q)) : Entries(q)[i].client_id # c
    BY <1>5, <2>1, EntriesOf, ClaimsAreMembers, SMTT(40)
  <2>3. CASE o.allow_replacement /\ r = Replace(q, e)
    <3>1. r.primary_owner = e /\ r.waiters = <<o>> \o w
      BY <2>3, Zenon DEF Replace
    <3>2. Entries(r) = <<e>> \o Entries(q)
      BY <1>3, <2>2, <3>1, Zenon
    <3> HIDE DEF o
    <3> QED BY <1>1, <2>2, <2>3, <3>2, Zenon DEF r
  <2>4. CASE r = [primary_owner |-> o, waiters |-> Append(w, e)]
    <3>1. r.primary_owner = o /\ r.waiters = Append(w, e)
      BY <2>4, Zenon
    <3>2. <<o>> \o Append(w, e) = Append(<<o>> \o w, e)
      <4> HIDE DEF o, w
      <4> QED BY <2>1
    <3>3. Entries(r) = Append(Entries(q), e)
      BY <1>3, <2>2, <3>1, <3>2, Zenon
    <3> QED BY <1>1, <2>2, <3>3, Zenon DEF r
  <2> QED BY <1>1, <1>5, <2>3, <2>4, Zenon
<1> QED BY <1>1, <1>4, <1>5, Zenon DEF r

\* What withdrawing a claim does to the line: the claim is dropped, or there is
\* none and nothing happens.
DropStep(q, c, r) ==
    \/ r = q /\ \A i \in 1..Len(Entries(q)) : Entries(q)[i].client_id # c
    \/ /\ \E i \in 1..Len(Entries(q)) : Entries(q)[i].client_id = c
       /\ \A i \in 1..Len(Entries(q)) : Entries(q)[i].client_id = c =>
             Entries(r) = Ownership!Without(Entries(q), i)

\* On the line of claims release_name is a step of that kind.
LEMMA ReleaseOnLine ==
    ASSUME NEW q, Proper(q), NEW c
    PROVE  DropStep(q, c, ReleaseName(q, c).queue)
<1> USE DEF DropStep
<1> DEFINE r == ReleaseName(q, c).queue
<1>1. CASE q = None
  <2>1. r = q
    BY <1>1, Zenon DEF ReleaseName, ReleaseResult
  <2>2. Entries(q) = <<>>
    BY <1>1, Zenon DEF Entries
  <2> QED BY <2>1, <2>2
<1>2. CASE q # None /\ ~ ContainsClient(q, c)
  <2>1. r = q
    BY <1>2, Zenon DEF ContainsClient, ReleaseName, ReleaseResult
  <2> HIDE DEF r
  <2>2. \A i \in 1..Len(Entries(q)) : Entries(q)[i].client_id # c
    BY <1>2, ClaimsAreMembers, Zenon DEF Proper
  <2> QED BY <2>1, <2>2, Zenon DEF r
<1>3. CASE q # None /\ ContainsClient(q, c)
  <2>1. ProperQueue(q)
    BY <1>3, Zenon DEF Proper
  <2>2. \E i \in 1..Len(Entries(q)) : Entries(q)[i].client_id = c
    BY <1>3, <2>1, ClaimsAreMembers, Zenon
  <2>3. \A s, i : DropAt(s, i) = Ownership!Without(s, i)
    BY Zenon DEF DropAt, Ownership!Without
  <2>4. ASSUME NEW i \in 1..Len(Entries(q)), Entries(q)[i].client_id = c
        PROVE  Entries(r) = Ownership!Without(Entries(q), i)
    BY <2>1, <2>3, <2>4, ReleaseDropsClaim, Zenon
  <2> HIDE DEF r
  <2>5. \A i \in 1..Len(Entries(q)) : Entries(q)[i].client_id = c =>
           Entries(r) = Ownership!Without(Entries(q), i)
    BY <2>4, Zenon
  <2> QED BY <2>2, <2>5, Zenon DEF r
<1> QED BY <1>1, <1>2, <1>3, Zenon

\* Every operation of the manager is one step of the abstract line per name, or
\* none: newcomers join at the end, overtake an owner that allowed it, and a
\* claim that is withdrawn lets exactly the ones behind it move up.
THEOREM Refinement == Spec => ImplementsOwnership
<1> DEFINE line == [n \in Names |-> Entries(queues[n])]
<1>1. Init => Ownership!Init
  BY Zenon DEF Init, Ownership!Init, Entries
<1>2. QueuesProper /\ [Next]_queues => [Ownership!Next]_line
  <2> SUFFICES ASSUME QueuesProper, [Next]_queues
               PROVE  Ownership!Next \/ line' = line
    BY Zenon
  <2> USE DEF QueuesProper
  <2>0. \A m \in Names : \A c : Ownership!Claims(m, c) =
           {i \in 1..Len(Entries(queues[m])) : Entries(queues[m])[i].client_id = c}
    BY ClaimsOf, Zenon
  <2>1. ASSUME NEW n \in Names, NEW c \in Clients, NEW flags \in SUBSET RequestFlags,
               Request(n, c, flags)
        PROVE  Ownership!Next \/ line' = line
    <3> DEFINE r == RequestName(queues[n], c, flags).queue
    <3>1. queues' = [queues EXCEPT ![n] = r]
      BY <2>1, Zenon DEF Request
    <3>2. ClaimStep(queues[n], c, r)
      BY RequestOnLine, Zenon
    <3> HIDE DEF r
    <3>3. line' = [line EXCEPT ![n] = Entries(r)] /\ line[n] = Entries(queues[n])
      BY <3>1, Zenon
    <3>4. CASE r = queues[n]
      BY <3>3, <3>4, Zenon
    <3>5. ASSUME NEW e \in QueueEntry, e.client_id = c,
                 \A i \in 1..Len(Entries(queues[n])) : Entries(queues[n])[i].client_id # c,
                 \/ Entries(r) = Append(Entries(queues[n]), e)
                 \/ /\ Entries(queues[n]) # <<>>
                    /\ Entries(queues[n])[1].allow_replacement
                    /\ Entries(r) = <<e>> \o Entries(queues[n])
          PROVE  Ownership!Next
      <4>1. Ownership!Claims(n, e.client_id) = {}
        BY <2>0, <3>5
      <4>2. CASE Entries(r) = Append(Entries(queues[n]), e)
        <5>1. Ownership!Join(n, e)
          BY <3>3, <4>1, <4>2, Zenon DEF Ownership!Join
        <5> QED BY <5>1, Zenon DEF Ownership!Next, Ownership!QueueEntry, QueueEntry
      <4>3. CASE /\ Entries(queues[n]) # <<>>
                 /\ Entries(queues[n])[1].allow_replacement
                 /\ Entries(r) = <<e>> \o Entries(queues[n])
        <5>1. Ownership!Overtake(n, e)
          BY <3>3, <4>1, <4>3, Zenon DEF Ownership!Overtake
        <5> QED BY <5>1, Zenon DEF Ownership!Next, Ownership!QueueEntry, QueueEntry
      <4> QED BY <3>5, <4>2, <4>3, Zenon
    <3> QED BY <3>2, <3>4, <3>5, Zenon DEF ClaimStep
  <2>2. ASSUME NEW n \in Names, NEW c \in Clients, Release(n, c)
        PROVE  Ownership!Next \/ line' = line
    <3> DEFINE r == ReleaseName(queues[n], c).queue
    <3>1. queues' = [queues EXCEPT ![n] = r]
      BY <2>2, Zenon DEF Release
    <3>2. DropStep(queues[n], c, r)
      BY ReleaseOnLine, Zenon
    <3> HIDE DEF r
    <3>3. line' = [line EXCEPT ![n] = Entries(r)] /\ line[n] = Entries(queues[n])
      BY <3>1, Zenon
    <3>4. CASE r = queues[n]
      BY <3>3, <3>4, Zenon
    <3>5. ASSUME NEW i \in 1..Len(Entries(queues[n])),
                 Entries(queues[n])[i].client_id = c,
                 Entries(r) = Ownership!Without(Entries(queues[n]), i)
          PROVE  Ownership!Next
      <4>1. i \in Ownership!Claims(n, c)
        BY <2>0, <3>5, Zenon
      <4>2. line' = [line EXCEPT ![n] = Ownership!Without(@, i)]
        BY <3>3, <3>5, Zenon
      <4> QED BY <4>1, <4>2, Zenon DEF Ownership!Next, Ownership!Leave
    <3> QED BY <3>2, <3>4, <3>5, Zenon DEF DropStep
  <2>3. ASSUME NEW c \in Clients, RemoveClient(c)
        PROVE  Ownership!Next
    <3>1. ASSUME NEW n \in Names
          PROVE  Entries(queues'[n]) =
                    IF Ownership!Claims(n, c) = {} THEN line[n]
                    ELSE Ownership!Without(line[n], CHOOSE i \in Ownership!Claims(n, c) : TRUE)
      <4> DEFINE q == queues[n]
                 r == ReleaseName(queues[n], c).queue
      <4>1. queues'[n] = r
        BY <2>3, RemoveIsRelease, Zenon DEF RemoveClient
      <4>2. DropStep(q, c, r)
        BY ReleaseOnLine, Zenon
      <4> HIDE DEF r
      <4>3. line[n] = Entries(q)
        BY Zenon
      <4> DEFINE C == Ownership!Claims(n, c)
      <4>4. \A i : i \in C <=> i \in 1..Len(Entries(q)) /\ Entries(q)[i].client_id = c
        BY <2>0, Zenon
      <4> SUFFICES Entries(queues'[n]) =
                      IF C = {} THEN line[n]
                      ELSE Ownership!Without(line[n], CHOOSE i \in C : TRUE)
        BY Zenon
      <4> HIDE DEF C, line, q
      <4>5. CASE C = {}
        BY <4>1, <4>2, <4>3, <4>4, <4>5, Zenon DEF DropStep
      <4>6. CASE C # {}
        <5>1. (CHOOSE i \in C : TRUE) \in C
          BY <4>6, Zenon
        <5>2. Entries(r) = Ownership!Without(Entries(q), CHOOSE i \in C : TRUE)
          BY <4>2, <4>4, <5>1, Zenon DEF DropStep
        <5> QED BY <4>1, <4>3, <4>6, <5>2, Zenon
      <4> QED BY <4>5, <4>6, Zenon
    <3>2. line' = [n \in Names |->
                     IF Ownership!Claims(n, c) = {} THEN line[n]
                     ELSE Ownership!Without(line[n], CHOOSE i \in Ownership!Claims(n, c) : TRUE)]
      BY <3>1, Zenon
    <3>3. Ownership!LeaveAll(c)
      BY <3>2, Zenon DEF Ownership!LeaveAll
    <3> QED BY <3>3, Zenon DEF Ownership!Next
  <2>4. CASE UNCHANGED queues
    BY <2>4, Zenon
  <2> QED BY <2>1, <2>2, <2>3, <2>4, Zenon DEF Next
<1> QED BY <1>1, <1>2, QueuesAlwaysProper, PTL DEF Spec, ImplementsOwnership, Ownership!Spec

-----------------------------------------------------------------------------
\* Who owns and who waits after each way through request_name.
LEMMA ClaimMembers ==
    ASSUME NEW q, ProperQueue(q), NEW e \in QueueEntry, NEW c, e.client_id = c,
           ~ ContainsClient(q, c)
    PROVE  LET r == [primary_owner |-> q.primary_owner, waiters |-> Append(q.waiters, e)]
           IN  /\ IsPrimaryOwner(Replace(q, e), c) /\ ~ Waits(Replace(q, e), c)
               /\ ~ IsPrimaryOwner(r, c) /\ Waits(r, c)
<1> USE NoneAssumption
<1> DEFINE o == q.primary_owner
           w == q.waiters
           r == [primary_owner |-> o, waiters |-> Append(w, e)]
<1>1. /\ o \in QueueEntry /\ w \in Seq(QueueEntry) /\ o.client_id # c
      /\ \A i \in 1..Len(w) : w[i].client_id # c
  BY Zenon DEF ProperQueue, QueueRecord, ContainsClient, IsPrimaryOwner, Waits
<1>2. e # None
  BY Zenon
<1>3. IsPrimaryOwner(Replace(q, e), c)
  BY <1>2, Zenon DEF IsPrimaryOwner, Replace
<1>4. ~ Waits(Replace(q, e), c)
  <2>1. /\ Len(<<o>> \o w) = Len(w) + 1 /\ Len(w) \in Nat
        /\ \A i \in 1..(Len(w) + 1) : (<<o>> \o w)[i] = IF i = 1 THEN o ELSE w[i - 1]
    BY <1>1
  <2>2. \A i \in 1..(Len(w) + 1) : (<<o>> \o w)[i].client_id # c
    <3> DEFINE v == <<o>> \o w
    <3> HIDE DEF o, w, v
    <3>1. ASSUME NEW i \in 1..(Len(w) + 1) PROVE v[i].client_id # c
      <4>1. CASE i = 1
        BY <1>1, <2>1, <4>1, Zenon DEF v
      <4>2. CASE i # 1
        <5>1. i - 1 \in 1..Len(w) /\ v[i] = w[i - 1]
          BY <2>1, <4>2 DEF v
        <5> QED BY <1>1, <5>1, Zenon
      <4> QED BY <4>1, <4>2, Zenon
    <3> QED BY <3>1, Zenon DEF v
  <2>3. Replace(q, e).waiters = <<o>> \o w
    BY Zenon DEF Replace
  <2> QED BY <2>1, <2>2, <2>3, Zenon DEF Waits
<1>5. ~ IsPrimaryOwner(r, c)
  BY <1>1, Zenon DEF IsPrimaryOwner
<1>6. Waits(r, c)
  <2>1. Len(w) + 1 \in 1..Len(Append(w, e)) /\ Append(w, e)[Len(w) + 1] = e
    BY <1>1
  <2>2. r.waiters = Append(w, e)
    BY Zenon
  <2> QED BY <2>1, <2>2, Zenon DEF Waits
<1> QED BY <1>3, <1>4, <1>5, <1>6, Zenon

\* What request_name returns, told by the queue before and after it.
LEMMA RequestTells ==
    ASSUME NEW q, Proper(q), NEW c \in Clients, NEW flags
    PROVE  LET r == RequestName(q, c, flags)
           IN  /\ r.reply_code \in {"PRIMARY_OWNER", "ALREADY_OWNER"}
                     <=> IsPrimaryOwner(r.queue, c)
               /\ r.reply_code = "IN_QUEUE" <=> Waits(r.queue, c)
               /\ r.forward_to_bus <=>
                     /\ IsPrimaryOwner(r.queue, c)
                     /\ q = None \/ ~ IsPrimaryOwner(q, c)
<1> USE NoneAssumption
<1> DEFINE x == RequestName(q, c, flags)
<1>1. PICK e \in QueueEntry : e.client_id = c /\ RequestPath(q, c, e, x)
  BY RequestCases, Zenon
<1> HIDE DEF x
<1>2. CASE q = None
  <2>1. /\ x.queue = [primary_owner |-> e, waiters |-> <<>>]
        /\ x.reply_code = "PRIMARY_OWNER" /\ x.forward_to_bus = TRUE
    BY <1>1, <1>2 DEF RequestPath, RequestResult
  <2>2. IsPrimaryOwner(x.queue, c) /\ ~ Waits(x.queue, c)
    BY <1>1, <2>1 DEF IsPrimaryOwner, Waits
  <2> QED BY <1>2, <2>1, <2>2, Zenon DEF x
<1>3. CASE q # None /\ ContainsClient(q, c)
  <2>1. /\ x.queue = q /\ x.forward_to_bus = FALSE
        /\ x.reply_code = IF IsPrimaryOwner(q, c) THEN "ALREADY_OWNER" ELSE "IN_QUEUE"
    BY <1>1, <1>3 DEF RequestPath, RequestResult
  <2>2. IsPrimaryOwner(q, c) => ~ Waits(q, c)
    BY <1>3, Zenon DEF Proper, ProperQueue, IsPrimaryOwner
  <2> QED BY <1>3, <2>1, <2>2, Zenon DEF x, ContainsClient
<1>4. CASE q # None /\ ~ ContainsClient(q, c)
  <2>1. ProperQueue(q)
    BY <1>4, Zenon DEF Proper
  <2> DEFINE r == [primary_owner |-> q.primary_owner, waiters |-> Append(q.waiters, e)]
  <2>2. /\ IsPrimaryOwner(Replace(q, e), c) /\ ~ Waits(Replace(q, e), c)
        /\ ~ IsPrimaryOwner(r, c) /\ Waits(r, c)
    BY <1>1, <1>4, <2>1, ClaimMembers, Zenon
  <2>3. ~ IsPrimaryOwner(q, c) /\ ~ Waits(q, c)
    BY <1>4, Zenon DEF ContainsClient
  <2>4. \/ x.queue = Replace(q, e) /\ x.reply_code = "PRIMARY_OWNER" /\ x.forward_to_bus = TRUE
        \/ x.queue = q /\ x.reply_code = "EXISTS" /\ x.forward_to_bus = FALSE
        \/ x.queue = r /\ x.reply_code = "IN_QUEUE" /\ x.forward_to_bus = FALSE
    BY <1>1, <1>4, <2>3, SMTT(40) DEF RequestPath, RequestResult
  <2> HIDE DEF r
  <2> QED BY <1>4, <2>2, <2>3, <2>4, Zenon DEF x
<1> QED BY <1>2, <1>3, <1>4, Zenon

\* What release_name returns, told by the queue before and after it.
LEMMA ReleaseTells ==
    ASSUME NEW q, Proper(q), NEW c
    PROVE  LET r == ReleaseName(q, c)
           IN  /\ r.queue # None => ~ ContainsClient(r.queue, c)
               /\ r.reply_code = "RELEASED" <=> r.queue # q
               /\ r.forward_to_bus <=> NameHasOwner(q) /\ ~ NameHasOwner(r.queue)
<1> USE NoneAssumption
<1> DEFINE x == ReleaseName(q, c)
<1>1. x.queue # None => ~ ContainsClient(x.queue, c)
  BY ReleaseKeeps, Zenon
<1>2. Proper(x.queue)
  BY ReleaseKeeps, Zenon
<1>3. q # None => NameHasOwner(q)
  BY Zenon DEF Proper, ProperQueue, NameHasOwner
<1>4. x.queue # None => NameHasOwner(x.queue)
  <2> HIDE DEF x
  <2> QED BY <1>2, Zenon DEF Proper, ProperQueue, NameHasOwner
<1>5. ~ NameHasOwner(None)
  BY Zenon DEF NameHasOwner
<1>6. CASE q = None
  BY <1>5, <1>6, Zenon DEF ReleaseName, ReleaseResult
<1>7. CASE q # None /\ IsPrimaryOwner(q, c)
  <2>1. /\ x.queue = Promote(q) /\ x.reply_code = "RELEASED"
        /\ x.forward_to_bus = (q.waiters = <<>>)
    BY <1>7, Zenon DEF ReleaseName, ReleaseOwner, ReleaseResult
  <2>2. x.queue = None <=> q.waiters = <<>>
    <3>1. q.waiters = <<>> => Promote(q) = None
      BY Zenon DEF Promote
    <3>2. q.waiters # <<>> => Promote(q) # None
      <4> SUFFICES ASSUME q.waiters # <<>> PROVE Promote(q) \in QueueRecord
        BY Zenon
      <4>1. q.waiters \in Seq(QueueEntry)
        BY <1>7, Zenon DEF Proper, ProperQueue, QueueRecord
      <4>2. Head(q.waiters) \in QueueEntry /\ Tail(q.waiters) \in Seq(QueueEntry)
        BY <4>1
      <4> QED BY <4>2, Zenon DEF Promote, QueueRecord
    <3> QED BY <2>1, <3>1, <3>2, Zenon
  <2>3. x.queue # q
    <3> HIDE DEF x
    <3> QED BY <1>1, <1>7, Zenon DEF ContainsClient
  <2> HIDE DEF x
  <2> QED BY <1>1, <1>3, <1>4, <1>5, <1>7, <2>1, <2>2, <2>3, Zenon DEF x
<1>8. CASE q # None /\ ~ IsPrimaryOwner(q, c) /\ Waits(q, c)
  <2>1. /\ x.queue = [q EXCEPT !.waiters = Retain(@, c)]
        /\ x.reply_code = "RELEASED" /\ x.forward_to_bus = FALSE
    BY <1>8, Zenon DEF ReleaseName, ReleaseResult
  <2>2. ProperQueue(x.queue)
    BY <1>8, <2>1, RetainInQueue DEF Proper
  <2> HIDE DEF x
  <2>3. x.queue # q
    BY <1>1, <1>8, Zenon DEF ContainsClient
  <2>4. NameHasOwner(x.queue)
    BY <2>2, Zenon DEF ProperQueue, NameHasOwner
  <2> QED BY <1>1, <2>1, <2>3, <2>4, Zenon DEF x
<1>9. CASE q # None /\ ~ ContainsClient(q, c)
  <2>1. x.queue = q /\ x.reply_code = "NOT_OWNER" /\ x.forward_to_bus = FALSE
    BY <1>9, Zenon DEF ReleaseName, ReleaseResult, ContainsClient
  <2> HIDE DEF x
  <2> QED BY <1>1, <2>1, Zenon DEF x
<1> QED BY <1>6, <1>7, <1>8, <1>9, Zenon DEF ContainsClient

\* The codes the clients are sent describe the queue the call left behind.
THEOREM RepliesAreTrue == Spec => []RepliesDescribeQueue
<1>1. QueuesProper => RepliesDescribeQueue
  BY RequestTells, ReleaseTells DEF QueuesProper, RepliesDescribeQueue
<1> QED BY <1>1, QueuesAlwaysProper, PTL

\* The bus is called for exactly the requests and releases that give the name
\* to the caller or leave it without an owner.
THEOREM BusHearsOwnership == Spec => []ForwardTracksOwner
<1>1. QueuesProper => ForwardTracksOwner
  BY RequestTells, ReleaseTells, Zenon DEF QueuesProper, ForwardTracksOwner
<1> QED BY <1>1, QueuesAlwaysProper, PTL

-----------------------------------------------------------------------------
(* The line of a name as the handlers of the event loop and the clean-ups    *)
(* see it: the clients in it, owner first.                                   *)

Once(s) == \A i, j \in 1..Len(s) : s[i] = s[j] => i = j

\* list_queued_owners of a proper queue: nobody twice, and the owner first.
LineOf(q, s) ==
    /\ s \in Seq(Clients)
    /\ Once(s)
    /\ \A c : Member(q, c) <=> In(s, c)
    /\ OwnerOf(q) = IF q = None THEN None ELSE s[1]
    /\ q = None <=> Len(s) = 0

\* list_queued_owners tells who is in the line, and in which order.
LEMMA OwnersOf ==
    ASSUME NEW q, Proper(q)
    PROVE  LineOf(q, AllOwners(q)) /\ Len(AllOwners(q)) = Len(Entries(q))
<1> DEFINE E == Entries(q)
           s == AllOwners(q)
<1>1. CASE q = None
  <2>1. E = <<>>
    BY <1>1, Zenon DEF Entries
  <2>2. s = <<>>
    BY <2>1 DEF AllOwners
  <2>3. \A c : ~ Member(q, c)
    BY <1>1, Zenon DEF Member
  <2>4. OwnerOf(q) = None
    BY <1>1, Zenon DEF OwnerOf
  <2>5. s \in Seq(Clients) /\ Len(s) = 0 /\ 1..Len(s) = {} /\ Len(E) = 0
    BY <2>1, <2>2
  <2> HIDE DEF s, E
  <2> QED BY <1>1, <2>3, <2>4, <2>5, Zenon DEF LineOf, Once, In, s, E
<1>2. CASE q # None
  <2>1. ProperQueue(q)
    BY <1>2, Zenon DEF Proper
  <2>2. /\ E \in Seq(QueueEntry) /\ Len(E) = Len(q.waiters) + 1
        /\ \A i \in 1..(Len(q.waiters) + 1) :
              E[i] = IF i = 1 THEN q.primary_owner ELSE q.waiters[i - 1]
        /\ Distinct(E)
    BY <2>1, EntriesOf, Zenon
  <2>3. Len(q.waiters) \in Nat
    BY <2>1 DEF ProperQueue, QueueRecord
  <2>4. Len(E) \in Nat /\ Len(E) # 0 /\ 1 \in 1..Len(E) /\ E[1] = q.primary_owner
    BY <2>2, <2>3
  <2>5. s = [i \in 1..Len(E) |-> E[i].client_id]
    BY Zenon DEF AllOwners
  <2>6. \A c : Member(q, c) <=> \E i \in 1..Len(E) : E[i].client_id = c
    BY <1>2, <2>1, ClaimsAreMembers, Zenon DEF Member
  <2>7. OwnerOf(q) = q.primary_owner.client_id
    BY <1>2, Zenon DEF OwnerOf
  <2> HIDE DEF E, s
  <2>8. \A i \in 1..Len(E) : E[i] \in QueueEntry
    BY <2>2
  <2>9. \A i \in 1..Len(E) : E[i].client_id \in Clients
    BY <2>8 DEF QueueEntry
  <2>10. s \in Seq(Clients) /\ Len(s) = Len(E)
    <3> DEFINE f(i) == E[i].client_id
    <3>1. \A i \in 1..Len(E) : f(i) \in Clients
      BY <2>9, Zenon
    <3>2. s = [i \in 1..Len(E) |-> f(i)]
      BY <2>5, Zenon
    <3> HIDE DEF f
    <3> QED BY <2>4, <3>1, <3>2
  <2>11. \A i \in 1..Len(E) : s[i] = E[i].client_id
    BY <2>5, Zenon
  <2>12. \A i, j \in 1..Len(s) : s[i] = s[j] => i = j
    BY <2>2, <2>10, <2>11, Zenon DEF Distinct
  <2>13. s[1] = OwnerOf(q)
    BY <2>4, <2>7, <2>11, Zenon
  <2>14. Len(s) # 0
    BY <2>4, <2>10, Zenon
  <2>15. \A c : Member(q, c) <=> \E i \in 1..Len(s) : s[i] = c
    BY <2>6, <2>10, <2>11, Zenon
  <2> QED BY <1>2, <2>10, <2>12, <2>13, <2>14, <2>15, Zenon DEF LineOf, Once, In, s, E
<1> QED BY <1>1, <1>2, Zenon

\* request_name leaves the line alone, or puts the caller at one of its ends.
LEMMA RequestMoves ==
    ASSUME NEW q, Proper(q), NEW c \in Clients, NEW flags
    PROVE  LET s == AllOwners(q)
               t == AllOwners(RequestName(q, c, flags).queue)
           IN  \/ t = s
               \/ /\ ~ Member(q, c)
                  /\ t = Append(s, c) \/ t = <<c>> \o s
<1> DEFINE r == RequestName(q, c, flags).queue
           E == Entries(q)
           F == Entries(r)
           s == AllOwners(q)
           t == AllOwners(r)
<1>1. ClaimStep(q, c, r)
  BY RequestOnLine, Zenon
<1>2. /\ LineOf(q, s) /\ Len(s) = Len(E)
      /\ s = [i \in 1..Len(E) |-> E[i].client_id] /\ t = [i \in 1..Len(F) |-> F[i].client_id]
  BY OwnersOf, Zenon DEF AllOwners
<1>3. E \in Seq(QueueEntry)
  <2>1. CASE q = None
    <3>1. E = <<>>
      BY <2>1, Zenon DEF Entries
    <3> QED BY <3>1
  <2>2. CASE q # None
    BY <2>2, EntriesOf, Zenon DEF Proper
  <2> QED BY <2>1, <2>2, Zenon
<1>4. CASE r = q
  BY <1>4, Zenon
<1>5. CASE r # q
  <2> HIDE DEF r, E, F, s, t
  <2>1. PICK e \in QueueEntry :
          /\ e.client_id = c
          /\ \A i \in 1..Len(E) : E[i].client_id # c
          /\ F = Append(E, e) \/ F = <<e>> \o E
    BY <1>1, <1>5, Zenon DEF ClaimStep, E, F
  <2>2. ~ Member(q, c)
    <3>1. \A i \in 1..Len(E) : s[i] = E[i].client_id
      BY <1>2, Zenon
    <3>2. ~ In(s, c)
      BY <1>2, <2>1, <3>1, Zenon DEF In
    <3> QED BY <1>2, <3>2, Zenon DEF LineOf
  <2>3. s \in Seq(Clients) /\ Len(s) = Len(E) /\ Len(E) \in Nat
        /\ \A i \in 1..Len(E) : s[i] = E[i].client_id
    BY <1>2, <1>3 DEF LineOf
  <2>4. CASE F = Append(E, e)
    <3>1. /\ Len(F) = Len(E) + 1
          /\ \A i \in 1..(Len(E) + 1) : F[i] = IF i \in 1..Len(E) THEN E[i] ELSE e
      BY <1>3, <2>4
    <3>2. t = [i \in 1..(Len(E) + 1) |-> F[i].client_id]
      BY <1>2, <3>1, Zenon
    <3>3. ASSUME NEW i \in 1..(Len(E) + 1)
          PROVE  F[i].client_id = IF i \in 1..Len(E) THEN s[i] ELSE c
      BY <2>1, <2>3, <3>1, Zenon
    <3>4. t = [i \in 1..(Len(E) + 1) |-> IF i \in 1..Len(E) THEN s[i] ELSE c]
      BY <3>2, <3>3, Zenon
    <3>5. Append(s, c) = [i \in 1..(Len(E) + 1) |-> IF i \in 1..Len(E) THEN s[i] ELSE c]
      <4>1. /\ Append(s, c) \in Seq(Clients) /\ Len(Append(s, c)) = Len(E) + 1
            /\ \A i \in 1..(Len(E) + 1) : Append(s, c)[i] = IF i \in 1..Len(E) THEN s[i] ELSE c
        BY <2>3
      <4> DEFINE a == Append(s, c)
      <4> HIDE DEF a
      <4>2. a \in Seq(Clients) /\ Len(a) = Len(E) + 1
        BY <4>1, Zenon DEF a
      <4>3. a = [i \in 1..(Len(E) + 1) |-> a[i]]
        BY <4>2
      <4> QED BY <4>1, <4>3, Zenon DEF a
    <3> QED BY <2>2, <3>4, <3>5, Zenon DEF s, t, r
  <2>5. CASE F = <<e>> \o E
    <3>1. /\ Len(F) = Len(E) + 1
          /\ \A i \in 1..(Len(E) + 1) : F[i] = IF i = 1 THEN e ELSE E[i - 1]
          /\ \A i \in 1..(Len(E) + 1) : i = 1 \/ i - 1 \in 1..Len(E)
      BY <1>3, <2>5
    <3>2. t = [i \in 1..(Len(E) + 1) |-> F[i].client_id]
      BY <1>2, <3>1, Zenon
    <3>3. ASSUME NEW i \in 1..(Len(E) + 1)
          PROVE  F[i].client_id = IF i = 1 THEN c ELSE s[i - 1]
      BY <2>1, <2>3, <3>1, Zenon
    <3>4. t = [i \in 1..(Len(E) + 1) |-> IF i = 1 THEN c ELSE s[i - 1]]
      BY <3>2, <3>3, Zenon
    <3>5. <<c>> \o s = [i \in 1..(Len(E) + 1) |-> IF i = 1 THEN c ELSE s[i - 1]]
      BY <2>3
    <3> QED BY <2>2, <3>4, <3>5, Zenon DEF s, t, r
  <2> QED BY <2>1, <2>4, <2>5, Zenon
<1> QED BY <1>4, <1>5, Zenon

\* release_name takes the caller out of the line and lets the ones behind it move up.
LEMMA ReleaseMoves ==
    ASSUME NEW q, Proper(q), NEW c
    PROVE  LET r == ReleaseName(q, c).queue
           IN  \/ r = q /\ ~ Member(q, c)
               \/ \E p \in 1..Len(AllOwners(q)) :
                     AllOwners(q)[p] = c /\ AllOwners(r) = DropAt(AllOwners(q), p)
<1> DEFINE r == ReleaseName(q, c).queue
           E == Entries(q)
           F == Entries(r)
           s == AllOwners(q)
           t == AllOwners(r)
<1>1. DropStep(q, c, r)
  BY ReleaseOnLine, Zenon
<1>2. /\ LineOf(q, s) /\ Len(s) = Len(E)
      /\ s = [i \in 1..Len(E) |-> E[i].client_id] /\ t = [i \in 1..Len(F) |-> F[i].client_id]
  BY OwnersOf, Zenon DEF AllOwners
<1> HIDE DEF r, E, F, s, t
<1>3. CASE \A i \in 1..Len(E) : E[i].client_id # c
  <2>1. r = q
    BY <1>1, <1>3, Zenon DEF DropStep, E
  <2>2. ~ Member(q, c)
    <3>1. \A i \in 1..Len(E) : s[i] = E[i].client_id
      BY <1>2, Zenon
    <3>2. ~ In(s, c)
      BY <1>2, <1>3, <3>1, Zenon DEF In
    <3> QED BY <1>2, <3>2, Zenon DEF LineOf
  <2> QED BY <2>1, <2>2, Zenon DEF r
<1>4. CASE \E i \in 1..Len(E) : E[i].client_id = c
  <2>1. PICK p \in 1..Len(E) : E[p].client_id = c
    BY <1>4, Zenon
  <2>2. F = Ownership!Without(E, p)
    BY <1>1, <2>1, Zenon DEF DropStep, E, F
  <2>3. F = [j \in 1..(Len(E) - 1) |-> IF j < p THEN E[j] ELSE E[j + 1]]
    BY <2>2, Zenon DEF Ownership!Without
  <2>4. Len(E) \in Nat
    BY <1>2 DEF LineOf
  <2>5. /\ Len(F) = Len(E) - 1
        /\ \A j \in 1..(Len(E) - 1) : j \in 1..Len(E) /\ j + 1 \in 1..Len(E)
    BY <2>3, <2>4
  <2>6. \A j \in 1..Len(E) : s[j] = E[j].client_id
    BY <1>2, Zenon
  <2>7. ASSUME NEW j \in 1..(Len(E) - 1)
        PROVE  F[j].client_id = IF j < p THEN s[j] ELSE s[j + 1]
    BY <2>3, <2>5, <2>6, Zenon
  <2>8. t = [j \in 1..(Len(E) - 1) |-> IF j < p THEN s[j] ELSE s[j + 1]]
    BY <1>2, <2>5, <2>7, Zenon
  <2>9. s[p] = c /\ p \in 1..Len(s) /\ t = DropAt(s, p)
    BY <1>2, <2>1, <2>6, <2>8, Zenon DEF DropAt
  <2> QED BY <2>9, Zenon DEF r, s, t
<1> QED BY <1>3, <1>4, Zenon

\* The ways out of a line: who is in it afterwards.
LEMMA DropLeaves ==
    ASSUME NEW s \in Seq(Clients), Once(s),
           NEW p \in 1..Len(s), NEW d
    PROVE  In(DropAt(s, p), d) <=> d # s[p] /\ In(s, d)
<1> DEFINE t == DropAt(s, p)
<1>1. /\ Len(t) = Len(s) - 1 /\ Len(s) \in Nat
      /\ \A i \in 1..(Len(s) - 1) : t[i] = IF i < p THEN s[i] ELSE s[i + 1]
  BY DEF DropAt
<1> HIDE DEF t
<1>2. ASSUME NEW i \in 1..Len(t), t[i] = d
      PROVE  d # s[p] /\ \E k \in 1..Len(s) : s[k] = d
  <2>1. \E k \in 1..Len(s) : k # p /\ s[k] = d
    <3>1. CASE i < p
      <4>1. i \in 1..Len(s) /\ i # p /\ s[i] = d
        BY <1>1, <1>2, <3>1
      <4> QED BY <4>1, Zenon
    <3>2. CASE ~ (i < p)
      <4>1. i + 1 \in 1..Len(s) /\ i + 1 # p /\ s[i + 1] = d
        BY <1>1, <1>2, <3>2
      <4> QED BY <4>1, Zenon
    <3> QED BY <3>1, <3>2, Zenon
  <2> QED BY <2>1, Zenon DEF Once
<1>3. ASSUME NEW i \in 1..Len(s), s[i] = d, d # s[p]
      PROVE  \E k \in 1..Len(t) : t[k] = d
  <2>1. CASE i < p
    <3>1. i \in 1..Len(t) /\ t[i] = d
      BY <1>1, <1>3, <2>1
    <3> QED BY <3>1, Zenon
  <2>2. CASE ~ (i < p)
    <3>0. i # p
      BY <1>3, Zenon
    <3>1. i - 1 \in 1..Len(t) /\ t[i - 1] = d
      BY <1>1, <1>3, <2>2, <3>0
    <3> QED BY <3>1, Zenon
  <2> QED BY <2>1, <2>2, Zenon
<1> QED BY <1>2, <1>3, Zenon DEF t, In

\* The owner of a proper queue, in the words of the code.
LEMMA OwnerIs ==
    ASSUME NEW q, Proper(q), q # None
    PROVE  /\ NameHasOwner(q) /\ OwnerOf(q) \in Clients
           /\ \A c : /\ IsPrimaryOwner(q, c) <=> OwnerOf(q) = c
                     /\ OwnerOf(q) = c => Member(q, c)
                     /\ Member(q, c) <=> OwnerOf(q) = c \/ Waits(q, c)
                     /\ Waits(q, c) => OwnerOf(q) # c
<1>1. /\ q.primary_owner # None /\ q.primary_owner \in QueueEntry
      /\ ~ Waits(q, q.primary_owner.client_id)
  BY Zenon DEF Proper, ProperQueue, QueueRecord
<1>2. q.primary_owner.client_id \in Clients
  BY <1>1 DEF QueueEntry
<1>3. OwnerOf(q) = q.primary_owner.client_id
  BY Zenon DEF OwnerOf
<1> QED BY <1>1, <1>2, <1>3, Zenon DEF IsPrimaryOwner, Member, ContainsClient, NameHasOwner

\* No queue, nobody in the line.
LEMMA NoLine == OwnerOf(None) = None /\ ~ NameHasOwner(None) /\ \A c : ~ Member(None, c)
BY Zenon DEF OwnerOf, NameHasOwner, Member

\* request_name by c touches nobody else's place in the line ...
LEMMA RequestOthers ==
    ASSUME NEW q, Proper(q), NEW c \in Clients, NEW flags, NEW d, d # c
    PROVE  Member(RequestName(q, c, flags).queue, d) <=> Member(q, d)
<1> DEFINE r == RequestName(q, c, flags).queue
           s == AllOwners(q)
           t == AllOwners(r)
<1>1. t = s \/ t = Append(s, c) \/ t = <<c>> \o s
  BY RequestMoves, Zenon
<1>2. Proper(r)
  BY RequestKeeps, Zenon DEF Proper
<1> HIDE DEF r
<1>3. LineOf(q, s) /\ LineOf(r, t)
  BY <1>2, OwnersOf, Zenon
<1> HIDE DEF s, t
<1>4. /\ s \in Seq(Clients) /\ Len(s) \in Nat
      /\ Member(q, d) <=> In(s, d)
      /\ Member(r, d) <=> In(t, d)
  BY <1>3 DEF LineOf
<1>5. In(t, d) <=> In(s, d)
  <2>1. CASE t = s
    BY <2>1, Zenon
  <2>2. CASE t = Append(s, c)
    <3>1. /\ Len(t) = Len(s) + 1
          /\ \A i \in 1..(Len(s) + 1) : t[i] = IF i \in 1..Len(s) THEN s[i] ELSE c
          /\ \A i \in 1..Len(s) : i \in 1..(Len(s) + 1)
      BY <1>4, <2>2
    <3> QED BY <3>1, Zenon DEF In
  <2>3. CASE t = <<c>> \o s
    <3>1. /\ Len(t) = Len(s) + 1
          /\ \A i \in 1..(Len(s) + 1) : t[i] = IF i = 1 THEN c ELSE s[i - 1]
      BY <1>4, <2>3
    <3>2. \A i \in 1..(Len(s) + 1) : i # 1 => i - 1 \in 1..Len(s)
      BY <1>4
    <3>3. \A i \in 1..Len(s) : i + 1 \in 1..(Len(s) + 1) /\ i + 1 # 1 /\ (i + 1) - 1 = i
      BY <1>4
    <3>4. ASSUME NEW i \in 1..(Len(s) + 1), t[i] = d PROVE In(s, d)
      BY <3>1, <3>2, <3>4, Zenon DEF In
    <3>5. ASSUME NEW i \in 1..Len(s), s[i] = d PROVE In(t, d)
      <4>1. t[i + 1] = s[i]
        BY <3>1, <3>3, Zenon
      <4> QED BY <3>1, <3>3, <3>5, <4>1, Zenon DEF In
    <3> QED BY <3>1, <3>4, <3>5, Zenon DEF In
  <2> QED BY <1>1, <2>1, <2>2, <2>3, Zenon
<1> QED BY <1>4, <1>5, Zenon DEF r

\* ... and release_name takes out nobody but c.
LEMMA ReleaseOthers ==
    ASSUME NEW q, Proper(q), NEW c, NEW d, d # c
    PROVE  Member(ReleaseName(q, c).queue, d) <=> Member(q, d)
<1> DEFINE r == ReleaseName(q, c).queue
           s == AllOwners(q)
           t == AllOwners(r)
<1>1. \/ r = q
      \/ \E p \in 1..Len(s) : s[p] = c /\ t = DropAt(s, p)
  BY ReleaseMoves, Zenon
<1>2. Proper(r)
  BY ReleaseKeeps, Zenon
<1> HIDE DEF r
<1>3. LineOf(q, s) /\ LineOf(r, t)
  BY <1>2, OwnersOf, Zenon
<1> HIDE DEF s, t
<1>4. CASE r = q
  BY <1>4, Zenon DEF r
<1>5. ASSUME NEW p \in 1..Len(s), s[p] = c, t = DropAt(s, p)
      PROVE  Member(r, d) <=> Member(q, d)
  <2>1. s \in Seq(Clients) /\ Once(s)
    BY <1>3, Zenon DEF LineOf
  <2>2. In(t, d) <=> d # s[p] /\ In(s, d)
    BY <1>5, <2>1, DropLeaves, Zenon
  <2> QED BY <1>3, <1>5, <2>2, Zenon DEF LineOf
<1> QED BY <1>1, <1>4, <1>5, Zenon DEF r

-----------------------------------------------------------------------------
(* A request that may have to be reverted: the line after it, and what the   *)
(* clean-ups of other clients leave of it, against the line before it.       *)

\* A client that joins at either end leaves the order alone.
LEMMA JoinFollows ==
    ASSUME NEW s \in Seq(Clients), Once(s), NEW c \in Clients, ~ In(s, c)
    PROVE  Follows(Append(s, c), s, c) /\ Follows(<<c>> \o s, s, c)
<1>0. Len(s) \in Nat
  OBVIOUS
<1>1. \A k \in 1..Len(s) : s[k] # c
  BY Zenon DEF In
<1>2. Follows(Append(s, c), s, c)
  <2> DEFINE t == Append(s, c)
  <2>1. /\ Len(t) = Len(s) + 1
        /\ \A i \in 1..(Len(s) + 1) : t[i] = IF i \in 1..Len(s) THEN s[i] ELSE c
    OBVIOUS
  <2> HIDE DEF t
  <2>2. \A i \in 1..Len(t) : t[i] = c \/ In(s, t[i])
    BY <2>1, Zenon DEF In
  <2>3. ASSUME NEW i \in 1..Len(t), NEW k \in 1..Len(s), t[i] = s[k]
        PROVE  i = k
    BY <1>1, <2>1, <2>3, Zenon DEF Once
  <2>4. SameOrder(t, s)
    BY <2>3, Zenon DEF SameOrder
  <2> QED BY <2>2, <2>4, Zenon DEF Follows, t
<1>3. Follows(<<c>> \o s, s, c)
  <2> DEFINE t == <<c>> \o s
  <2>1. /\ Len(t) = Len(s) + 1
        /\ \A i \in 1..(Len(s) + 1) : t[i] = IF i = 1 THEN c ELSE s[i - 1]
    OBVIOUS
  <2>0. \A i \in 1..(Len(s) + 1) : i # 1 => i - 1 \in 1..Len(s)
    BY <1>0
  <2> HIDE DEF t
  <2>2. \A i \in 1..Len(t) : t[i] = c \/ In(s, t[i])
    BY <2>0, <2>1, Zenon DEF In
  <2>3. ASSUME NEW i \in 1..Len(t), NEW k \in 1..Len(s), t[i] = s[k]
        PROVE  i - 1 = k
    <3>1. i # 1
      BY <1>1, <2>1, <2>3, Zenon
    <3>2. i - 1 \in 1..Len(s) /\ s[i - 1] = s[k]
      BY <2>0, <2>1, <2>3, <3>1, Zenon
    <3> QED BY <3>2, Zenon DEF Once
  <2>4. \A i, j \in 1..Len(t), k, l \in 1..Len(s) :
           i - 1 = k /\ j - 1 = l => (i < j <=> k < l)
    BY <1>0, <2>1
  <2>5. SameOrder(t, s)
    BY <2>3, <2>4, Zenon DEF SameOrder
  <2> QED BY <2>2, <2>5, Zenon DEF Follows, t
<1> QED BY <1>2, <1>3, Zenon

\* So does a client that leaves, from wherever it is.
LEMMA DropFollows ==
    ASSUME NEW s \in Seq(Clients), NEW p \in 1..Len(s), NEW before, NEW c,
           Follows(s, before, c)
    PROVE  Follows(DropAt(s, p), before, c)
<1> DEFINE t == DropAt(s, p)
           at(i) == IF i < p THEN i ELSE i + 1
<1>1. Len(t) = Len(s) - 1 /\ Len(s) \in Nat
  BY DEF DropAt
<1>2. \A i \in 1..(Len(s) - 1) : t[i] = s[at(i)]
  BY DEF DropAt
<1> HIDE DEF t
<1>3. /\ \A i \in 1..Len(t) : at(i) \in 1..Len(s)
      /\ \A i, j \in 1..Len(t) : i < j <=> at(i) < at(j)
  BY <1>1
<1> HIDE DEF at
<1>4. ~ In(before, c) /\ SameOrder(s, before)
      /\ \A i \in 1..Len(s) : s[i] = c \/ In(before, s[i])
  BY Zenon DEF Follows
<1>5. \A i \in 1..Len(t) : t[i] = c \/ In(before, t[i])
  BY <1>1, <1>2, <1>3, <1>4, Zenon
<1>6. ASSUME NEW i \in 1..Len(t), NEW j \in 1..Len(t),
             NEW k \in 1..Len(before), NEW l \in 1..Len(before),
             t[i] = before[k], t[j] = before[l]
      PROVE  i < j <=> k < l
  <2>1. s[at(i)] = before[k] /\ s[at(j)] = before[l]
    BY <1>1, <1>2, <1>6, Zenon
  <2>2. at(i) < at(j) <=> k < l
    BY <1>3, <1>4, <2>1, ZenonT(30) DEF SameOrder
  <2> QED BY <1>3, <2>2, Zenon
<1>7. SameOrder(t, before)
  BY <1>6, Zenon DEF SameOrder
<1> QED BY <1>4, <1>5, <1>7, Zenon DEF Follows, t

\* After a request by a newcomer the line follows the one before ...
LEMMA RequestFollows ==
    ASSUME NEW q, Proper(q), NEW c \in Clients, NEW flags,
           ~ Member(q, c), Member(RequestName(q, c, flags).queue, c)
    PROVE  Follows(AllOwners(RequestName(q, c, flags).queue), AllOwners(q), c)
<1> DEFINE r == RequestName(q, c, flags).queue
           s == AllOwners(q)
           t == AllOwners(r)
<1>2. ~ Member(q, c) /\ Member(r, c) /\ Proper(r)
  BY RequestKeeps, Zenon DEF Proper
<1>3. t = s \/ t = Append(s, c) \/ t = <<c>> \o s
  BY RequestMoves, Zenon
<1> HIDE DEF r
<1>4. LineOf(q, s) /\ LineOf(r, t)
  BY <1>2, OwnersOf, Zenon
<1> HIDE DEF s, t
<1>5. s \in Seq(Clients) /\ Once(s) /\ ~ In(s, c) /\ In(t, c)
  BY <1>2, <1>4, Zenon DEF LineOf
<1>6. Follows(Append(s, c), s, c) /\ Follows(<<c>> \o s, s, c)
  BY <1>5, JoinFollows, Zenon
<1>7. Follows(t, s, c)
  BY <1>3, <1>5, <1>6, Zenon
<1> QED BY <1>7, Zenon DEF r, s, t

\* ... and still does when somebody has left.
LEMMA ReleaseFollows ==
    ASSUME NEW q, Proper(q), NEW d, NEW before, NEW c, Follows(AllOwners(q), before, c)
    PROVE  Follows(AllOwners(ReleaseName(q, d).queue), before, c)
<1> DEFINE r == ReleaseName(q, d).queue
           s == AllOwners(q)
<1>1. \/ r = q
      \/ \E p \in 1..Len(s) : AllOwners(r) = DropAt(s, p)
  BY ReleaseMoves, Zenon
<1>2. s \in Seq(Clients)
  BY OwnersOf, Zenon DEF LineOf
<1>3. Follows(s, before, c)
  BY Zenon
<1> HIDE DEF r, s
<1>4. CASE r = q
  BY <1>3, <1>4, Zenon DEF r, s
<1>5. ASSUME NEW p \in 1..Len(s), AllOwners(r) = DropAt(s, p)
      PROVE  Follows(AllOwners(r), before, c)
  BY <1>2, <1>3, <1>5, DropFollows, Zenon
<1> QED BY <1>1, <1>4, <1>5, Zenon DEF r

-----------------------------------------------------------------------------
(* What a caller of the manager may rely on.                                 *)

\* The answers of a proper queue agree with each other.
LEMMA QueueAnswers ==
    ASSUME NEW q, Proper(q)
    PROVE  QueueFacts(q)
<1> DEFINE s == AllOwners(q)
<1>1. LineOf(q, s)
  BY OwnersOf, Zenon
<1> HIDE DEF s
<1>2. /\ \A c : In(s, c) <=> Member(q, c)
      /\ q = None <=> Len(s) = 0
      /\ s \in Seq(Clients)
  BY <1>1, Zenon DEF LineOf
<1>3. s = <<>> <=> q = None
  BY <1>2
<1>4. CASE q = None
  BY <1>2, <1>3, <1>4, NoLine, Zenon DEF QueueFacts, s
<1>5. CASE q # None
  <2>1. /\ NameHasOwner(q) /\ OwnerOf(q) \in Clients /\ Member(q, OwnerOf(q))
        /\ \A c : IsPrimaryOwner(q, c) <=> OwnerOf(q) = c
    BY <1>5, OwnerIs, Zenon
  <2> QED BY <1>2, <1>3, <1>5, <2>1, Zenon DEF QueueFacts, s
<1> QED BY <1>4, <1>5, Zenon

\* request_name does what RequestEffect says, whatever the flags.
LEMMA RequestEffects ==
    ASSUME NEW q, Proper(q), NEW c \in Clients, NEW flags
    PROVE  RequestEffect(q, c, RequestName(q, c, flags))
<1> USE NoneAssumption
<1> DEFINE r == RequestName(q, c, flags)
<1>1. ProperQueue(r.queue)
  BY RequestKeeps, Zenon
<1>2. /\ r.reply_code \in {"PRIMARY_OWNER", "ALREADY_OWNER"} <=> IsPrimaryOwner(r.queue, c)
      /\ r.reply_code = "IN_QUEUE" <=> Waits(r.queue, c)
      /\ r.forward_to_bus <=> /\ IsPrimaryOwner(r.queue, c)
                              /\ q = None \/ ~ IsPrimaryOwner(q, c)
  BY RequestTells, Zenon
<1>3. r.forward_to_bus => ReleaseName(r.queue, c).queue = q
  BY ReleaseUndoes, Zenon
<1>4. \A d : d # c => (Member(r.queue, d) <=> Member(q, d))
  BY RequestOthers, Zenon
<1>5. PICK e \in QueueEntry : e.client_id = c /\ RequestPath(q, c, e, r)
  BY RequestCases, Zenon
<1> HIDE DEF r
<1>6. Proper(r.queue) /\ r.queue # None
  BY <1>1, Zenon DEF Proper, ProperQueue, QueueRecord
<1>7. r.forward_to_bus \in BOOLEAN
  <2>1. r.forward_to_bus = TRUE \/ r.forward_to_bus = FALSE
    BY <1>5 DEF RequestPath, RequestResult
  <2> QED BY <2>1, Zenon
<1>8. r.forward_to_bus => ~ Member(q, c)
  <2>1. ASSUME Member(q, c) PROVE r.forward_to_bus = FALSE
    BY <1>5, <2>1 DEF RequestPath, RequestResult, Member, ContainsClient
  <2> QED BY <2>1, Zenon
<1>9. ~ r.forward_to_bus => q # None /\ OwnerOf(r.queue) = OwnerOf(q)
  <2>1. r.forward_to_bus = TRUE \/ (q # None /\ r.queue.primary_owner = q.primary_owner)
    BY <1>5 DEF RequestPath, RequestResult
  <2> QED BY <1>6, <2>1, Zenon DEF OwnerOf
<1>10. /\ IsPrimaryOwner(r.queue, c) <=> OwnerOf(r.queue) = c
       /\ Member(r.queue, c) <=> OwnerOf(r.queue) = c \/ Waits(r.queue, c)
  BY <1>6, OwnerIs, Zenon
<1>11. r.reply_code \in {"PRIMARY_OWNER", "ALREADY_OWNER", "IN_QUEUE", "EXISTS"}
  BY <1>5 DEF RequestPath, RequestResult
<1>12. r.forward_to_bus => Follows(AllOwners(r.queue), AllOwners(q), c)
  BY <1>2, <1>8, <1>10, RequestFollows, Zenon DEF r
<1> QED BY <1>2, <1>3, <1>4, <1>6, <1>7, <1>8, <1>9, <1>10, <1>11, <1>12, Zenon
        DEF RequestEffect, r

\* release_name does what ReleaseEffect says.
LEMMA ReleaseEffects ==
    ASSUME NEW q, Proper(q), NEW c \in Clients
    PROVE  ReleaseEffect(q, c, ReleaseName(q, c))
<1> USE NoneAssumption
<1> DEFINE r == ReleaseName(q, c)
<1>0. c # None
  BY Zenon
<1>1. Proper(r.queue) /\ ~ Member(r.queue, c)
  BY ReleaseKeeps, Zenon DEF Member
<1>2. /\ \A d : d # c => (Member(r.queue, d) <=> Member(q, d))
      /\ \A before, d : Follows(AllOwners(q), before, d)
                        => Follows(AllOwners(r.queue), before, d)
      /\ WithoutClient(q, c) = r.queue
      /\ r.reply_code \in {"RELEASED", "NON_EXISTENT", "NOT_OWNER"}
  <2>1. \A d : d # c => (Member(r.queue, d) <=> Member(q, d))
    BY ReleaseOthers, Zenon
  <2>2. r.reply_code \in {"RELEASED", "NON_EXISTENT", "NOT_OWNER"}
    BY Zenon DEF ReleaseName, ReleaseOwner, ReleaseResult
  <2>3. \A before, d : Follows(AllOwners(q), before, d) => Follows(AllOwners(r.queue), before, d)
    BY ReleaseFollows, Zenon
  <2>4. WithoutClient(q, c) = r.queue
    BY RemoveIsRelease, Zenon
  <2> QED BY <2>1, <2>2, <2>3, <2>4, Zenon
<1>3. CASE q = None
  <2>1. r.queue = None /\ r.new_owner = None /\ r.forward_to_bus = FALSE
    BY <1>3, Zenon DEF ReleaseName, ReleaseResult
  <2> HIDE DEF r
  <2> QED BY <1>0, <1>1, <1>2, <1>3, <2>1, NoLine, Zenon DEF ReleaseEffect, r
<1>4. CASE q # None /\ OwnerOf(q) = c
  <2>1. IsPrimaryOwner(q, c)
    BY <1>4, OwnerIs, Zenon
  <2>2. /\ r.queue = Promote(q) /\ r.new_owner = NewOwner(q)
        /\ r.forward_to_bus = (q.waiters = <<>>)
    BY <1>4, <2>1, Zenon DEF ReleaseName, ReleaseOwner, ReleaseResult
  <2>3. q.waiters \in Seq(QueueEntry)
    BY <1>4, Zenon DEF Proper, ProperQueue, QueueRecord
  <2> HIDE DEF r
  <2>4. CASE q.waiters = <<>>
    <3>1. r.queue = None /\ r.new_owner = None
      BY <2>2, <2>4, Zenon DEF Promote, NewOwner
    <3>2. OwnerOf(r.queue) = None
      BY <3>1, NoLine, Zenon
    <3> QED BY <1>1, <1>2, <1>4, <2>2, <2>4, <3>1, <3>2, Zenon DEF ReleaseEffect, r
  <2>5. CASE q.waiters # <<>>
    <3>1. /\ r.queue = [primary_owner |-> Head(q.waiters), waiters |-> Tail(q.waiters)]
          /\ r.new_owner = Head(q.waiters).client_id
      BY <2>2, <2>5, Zenon DEF Promote, NewOwner
    <3>2. Head(q.waiters) \in QueueEntry /\ Tail(q.waiters) \in Seq(QueueEntry)
      BY <2>3, <2>5
    <3>3. r.queue \in QueueRecord
      BY <3>1, <3>2 DEF QueueRecord
    <3>4. r.queue # None
      BY <3>3, Zenon
    <3>5. r.queue.primary_owner = Head(q.waiters)
      BY <3>1
    <3>6. OwnerOf(r.queue) = r.new_owner
      BY <3>1, <3>4, <3>5, Zenon DEF OwnerOf
    <3> QED BY <1>1, <1>2, <1>4, <2>2, <2>5, <3>4, <3>6, Zenon DEF ReleaseEffect, r
  <2> QED BY <2>4, <2>5, Zenon
<1>5. CASE q # None /\ OwnerOf(q) # c
  <2>1. ~ IsPrimaryOwner(q, c)
    BY <1>5, OwnerIs, Zenon
  <2>2. r.new_owner = None /\ r.forward_to_bus = FALSE
    BY <1>5, <2>1, Zenon DEF ReleaseName, ReleaseResult
  <2>3. r.queue = q \/ r.queue = [q EXCEPT !.waiters = Retain(@, c)]
    BY <1>5, <2>1, Zenon DEF ReleaseName, ReleaseResult
  <2> HIDE DEF r
  <2>4. r.queue # None /\ r.queue.primary_owner = q.primary_owner
    <3>1. ASSUME r.queue = [q EXCEPT !.waiters = Retain(@, c)]
          PROVE  ProperQueue(r.queue) /\ r.queue.primary_owner = q.primary_owner
      <4>1. ProperQueue(q)
        BY <1>5, Zenon DEF Proper
      <4> QED BY <2>1, <3>1, <4>1, RetainInQueue
    <3> QED BY <1>5, <2>3, <3>1, Zenon DEF ProperQueue, QueueRecord
  <2>5. OwnerOf(r.queue) = OwnerOf(q)
    BY <1>5, <2>4, Zenon DEF OwnerOf
  <2> QED BY <1>1, <1>2, <1>5, <2>2, <2>4, <2>5, Zenon DEF ReleaseEffect, r
<1> QED BY <1>3, <1>4, <1>5, Zenon
=============================================================================
