--------------------------- MODULE RouterProofs -----------------------------
(***************************************************************************)
(* Theorems about Router, for any clients, handles, calls and failures, on *)
(* the condition that the serials of the multiplexer's own calls are never *)
(* those of forwarded ones.                                                *)
(***************************************************************************)
EXTENDS Router, Integers, TLAPS

-----------------------------------------------------------------------------
(* Types.                                                                  *)

Keys == Serials \cup OwnSerials
Entry == [client : Clients, serial : 1..MaxCalls]
BusCall == [serial : Keys, call : Calls \cup {Own}]
Msg == [kind : {"reply", "response"}, serial : Keys \cup {None}, call : Calls \cup {Own},
        handle : Handles \cup {None}]
Item == [kind : {"answer", "response", "broadcast"}, serial : Keys \cup (1..MaxCalls) \cup {None},
         call : Calls \cup {Own}, raw : BOOLEAN]
Request == [client : Clients, call : Calls]

Typed ==
    /\ pending \in [Route -> [Keys -> Entry \cup {None}]]
    /\ requests \in [Handles -> Request \cup {None}]
    /\ open \in [Handles -> Calls \cup {None}]
    /\ atBus \in [Route -> SUBSET BusCall]
    /\ stream \in [Route -> Seq(Msg)]
    /\ made \in [Clients -> 0..MaxCalls]
    /\ counter \in [Route -> 0..(SerialSpace - 1)]
    /\ inbox \in [Clients -> Seq(Item)]
    /\ main.pc = "deliver" => main.item \in Item

-----------------------------------------------------------------------------
(* The inductive invariant.                                                *)

\* What is delivered to c is about a call of c: the body of RightRecipient.
Right(c, m) ==
    /\ m.kind = "answer" => m.call = <<c, m.serial>> \/ (m.raw /\ m.call[1] = c)
    /\ m.kind = "response" => m.call # Own /\ m.call[1] = c

\* A call under way with this serial, and the entry under the serial: an own call
\* has a serial of its own kind, and the entry of a client's call, if there still
\* is one, leads to the caller.
Kept(entry, serial, call) ==
    IF call = Own THEN serial \in OwnSerials
    ELSE serial \in Serials /\ entry \in {None, [client |-> call[1], serial |-> call[2]]}

\* When the first n messages of q are read, the last of them with handle h being
\* the reply that granted it to call, h is registered for the caller, if at all.
\* (entry is what is registered for h now.)
Expected(q, entry, h, call, n) ==
    \/ (\A j \in 1..n : q[j].handle # h) /\ (entry = None \/ entry.client = call[1])
    \/ \E j \in 1..n : /\ q[j].kind = "reply" /\ q[j].handle = h /\ q[j].call = call
                       /\ \A k \in 1..n : k > j => q[k].handle # h

\* When the first n messages of q are read, h is not registered: the last of them
\* with handle h is a Response, or there is none.
Vacant(q, entry, h, n) ==
    \/ (\A j \in 1..n : q[j].handle # h) /\ entry = None
    \/ \E j \in 1..n : /\ q[j].kind = "response" /\ q[j].handle = h
                       /\ \A k \in 1..n : k > j => q[k].handle # h

\* The entries p of a bus fit the calls on the bus and the replies on their way.
RouteRight(p, bus, q) ==
    /\ \A s \in OwnSerials : p[s] = None
    /\ \A m \in bus : Kept(p[m.serial], m.serial, m.call)
    /\ \A i \in 1..Len(q) : q[i].kind = "reply" => Kept(p[q[i].serial], q[i].serial, q[i].call)

EntriesRight == \A r \in Route : RouteRight(pending[r], atBus[r], stream[r])

\* The i-th message of the host bus fits the registrations.
HostMessageRight(q, reqs, i) ==
    /\ q[i].kind = "response" =>
          /\ q[i].handle \in Handles /\ q[i].call # Own
          /\ Expected(q, reqs[q[i].handle], q[i].handle, q[i].call, i - 1)
    /\ q[i].kind = "reply" /\ q[i].handle # None =>
          q[i].call # Own /\ Vacant(q, reqs[q[i].handle], q[i].handle, i - 1)

\* So does a handle in the portal's hands.
OpenRight(q, entry, h, call) ==
    IF call = None THEN Vacant(q, entry, h, Len(q)) ELSE Expected(q, entry, h, call, Len(q))

HostRight(q, reqs, opn) ==
    /\ \A i \in 1..Len(q) : HostMessageRight(q, reqs, i)
    /\ \A h \in Handles : OpenRight(q, reqs[h], h, opn[h])

\* Only the desktop portal, on the host bus, knows of handles.
PlainReplies(q) == \A i \in 1..Len(q) : q[i].kind = "reply" /\ q[i].handle = None

HandlesRight ==
    PlainReplies(stream["Container"]) /\ HostRight(stream["Host"], requests, open)

DeliveryRight == main.pc = "deliver" => \A c \in main.to : Right(c, main.item)

RouterInv == Typed /\ EntriesRight /\ HandlesRight /\ DeliveryRight /\ RightRecipient

OwnApart == OwnSerials \cap Serials = {}

-----------------------------------------------------------------------------
(* Queues one message longer or shorter.                                   *)

\* A message is put at the end of a queue.
LEMMA QueueSteps ==
    ASSUME NEW q \in Seq(Msg), NEW m \in Msg
    PROVE  /\ Len(q) \in Nat /\ Append(q, m) \in Seq(Msg)
           /\ Len(Append(q, m)) = Len(q) + 1 /\ Append(q, m)[Len(q) + 1] = m
           /\ \A i \in 1..Len(q) : Append(q, m)[i] = q[i] /\ q[i] \in Msg
  OBVIOUS

\* The first message of a queue is taken.
LEMMA TailSteps ==
    ASSUME NEW q \in Seq(Msg), q # <<>>
    PROVE  /\ Len(q) \in Nat /\ Len(q) >= 1 /\ Head(q) = q[1] /\ Head(q) \in Msg
           /\ Tail(q) \in Seq(Msg) /\ Len(Tail(q)) = Len(q) - 1
           /\ \A i \in 1..(Len(q) - 1) : Tail(q)[i] = q[i + 1]
  OBVIOUS

\* A queue that is not empty has a first place.
LEMMA FirstPlace ==
    ASSUME NEW q \in Seq(Msg), q # <<>>
    PROVE  1 \in 1..Len(q)
  OBVIOUS

\* There is no place before the first.
LEMMA NoPlaces == \A j : j \notin 1..(1 - 1)
  OBVIOUS

\* The places of a queue with one more message.
LEMMA PlacesGrow ==
    ASSUME NEW n \in Nat
    PROVE  \A i \in Nat : i \in 1..(n + 1) <=> i \in 1..n \/ i = n + 1
  OBVIOUS

\* What is in an inbox was there or has just been added.
LEMMA ItemAppended ==
    ASSUME NEW q \in Seq(Item), NEW m \in Item, NEW i \in 1..Len(Append(q, m))
    PROVE  (i \in 1..Len(q) /\ Append(q, m)[i] = q[i]) \/ Append(q, m)[i] = m
  OBVIOUS

\* A call on the bus has a serial and is told by its two parts.
LEMMA BusCallParts ==
    ASSUME NEW m \in BusCall
    PROVE  m.serial \in Keys /\ m.call \in Calls \cup {Own} /\ m = [serial |-> m.serial, call |-> m.call]
  BY DEF BusCall

\* A message at the end changes nothing for those before it, nor, with another
\* handle, for those after it.
LEMMA AppendRight ==
    ASSUME NEW q \in Seq(Msg), NEW m \in Msg, NEW entry, NEW h, NEW call, NEW n \in 0..Len(q)
    PROVE  /\ Expected(q, entry, h, call, n) => Expected(Append(q, m), entry, h, call, n)
           /\ Vacant(q, entry, h, n) => Vacant(Append(q, m), entry, h, n)
           /\ m.handle # h =>
                 /\ Expected(q, entry, h, call, Len(q)) =>
                        Expected(Append(q, m), entry, h, call, Len(q) + 1)
                 /\ Vacant(q, entry, h, Len(q)) => Vacant(Append(q, m), entry, h, Len(q) + 1)
<1> DEFINE q1 == Append(q, m)
<1>1. /\ Len(q) \in Nat /\ Len(q1) = Len(q) + 1 /\ q1[Len(q) + 1] = m
      /\ \A i \in 1..Len(q) : q1[i] = q[i]
  BY QueueSteps, Zenon
<1> HIDE DEF q1
<1>2. \A i \in 1..n : i \in 1..Len(q)
  BY <1>1
<1>3. \A i \in 1..(Len(q) + 1) : i \in 1..Len(q) \/ i = Len(q) + 1
  BY <1>1
<1>4. /\ \A i \in 1..Len(q) : i \in 1..(Len(q) + 1)
      /\ \A i \in 1..Len(q) : ~ (i > Len(q) + 1) /\ Len(q) + 1 > i
  BY <1>1
<1>5. Expected(q, entry, h, call, n) => Expected(q1, entry, h, call, n)
  BY <1>1, <1>2, ZenonT(40) DEF Expected
<1>6. Vacant(q, entry, h, n) => Vacant(q1, entry, h, n)
  BY <1>1, <1>2, Zenon DEF Vacant
<1>7. ASSUME m.handle # h, Expected(q, entry, h, call, Len(q))
      PROVE  Expected(q1, entry, h, call, Len(q) + 1)
  BY <1>1, <1>3, <1>4, <1>7 DEF Expected
<1>8. ASSUME m.handle # h, Vacant(q, entry, h, Len(q))
      PROVE  Vacant(q1, entry, h, Len(q) + 1)
  BY <1>1, <1>3, <1>4, <1>8, Zenon DEF Vacant
<1>9. QED
  BY <1>5, <1>6, <1>7, <1>8, Zenon DEF q1

\* The first message is read and the registration becomes e1.
LEMMA TailRight ==
    ASSUME NEW q \in Seq(Msg), q # <<>>, NEW entry, NEW e1, NEW h, NEW call, NEW n \in 1..Len(q),
           q[1].handle # h => e1 \in {entry, None}
    PROVE  /\ /\ Expected(q, entry, h, call, n)
              /\ q[1].kind = "reply" /\ q[1].handle = h /\ q[1].call = call =>
                     e1 = None \/ e1.client = call[1]
              => Expected(Tail(q), e1, h, call, n - 1)
           /\ /\ Vacant(q, entry, h, n)
              /\ q[1].kind = "response" /\ q[1].handle = h => e1 = None
              => Vacant(Tail(q), e1, h, n - 1)
<1> DEFINE q1 == Tail(q)
<1>1. Len(q) \in Nat /\ Len(q) >= 1 /\ \A i \in 1..(Len(q) - 1) : q1[i] = q[i + 1]
  BY TailSteps, Zenon
<1> HIDE DEF q1
<1>2. \A i \in 1..(n - 1) : q1[i] = q[i + 1] /\ i + 1 \in 1..n
  BY <1>1
<1>3. \A i \in 1..n : i = 1 \/ (i > 1 /\ i - 1 \in 1..(n - 1) /\ (i - 1) + 1 = i)
  BY <1>1
<1>4. 1 \in 1..n
  BY <1>1
<1>5. ASSUME \A j \in 1..n : q[j].handle # h
      PROVE  (\A j \in 1..(n - 1) : q1[j].handle # h) /\ e1 \in {entry, None}
  BY <1>2, <1>4, <1>5, Zenon
<1>6. ASSUME NEW j \in 1..n, j > 1, \A k \in 1..n : k > j => q[k].handle # h
      PROVE  /\ j - 1 \in 1..(n - 1) /\ q1[j - 1] = q[j]
             /\ \A k \in 1..(n - 1) : k > j - 1 => q1[k].handle # h
  <2>1. j - 1 \in 1..(n - 1) /\ q1[j - 1] = q[j]
    BY <1>2, <1>3, <1>6
  <2>2. ASSUME NEW k \in 1..(n - 1), k > j - 1
        PROVE  q1[k].handle # h
    <3>1. k + 1 > j
      BY <1>6, <2>2
    <3>2. QED
      BY <1>2, <1>6, <3>1, Zenon
  <2>3. QED
    BY <2>1, <2>2, Zenon
<1>7. ASSUME \A k \in 1..n : k > 1 => q[k].handle # h
      PROVE  \A j \in 1..(n - 1) : q1[j].handle # h
  <2>1. ASSUME NEW j \in 1..(n - 1)
        PROVE  q1[j].handle # h
    <3>1. j + 1 > 1
      BY <2>1
    <3>2. QED
      BY <1>2, <1>7, <3>1, Zenon
  <2>2. QED
    BY <2>1, Zenon
<1>8. ASSUME Expected(q, entry, h, call, n),
             q[1].kind = "reply" /\ q[1].handle = h /\ q[1].call = call =>
                 e1 = None \/ e1.client = call[1]
      PROVE  Expected(q1, e1, h, call, n - 1)
  <2>1. CASE (\A j \in 1..n : q[j].handle # h) /\ (entry = None \/ entry.client = call[1])
    BY <1>5, <2>1, Zenon DEF Expected
  <2>2. CASE \E j \in 1..n : /\ q[j].kind = "reply" /\ q[j].handle = h /\ q[j].call = call
                             /\ \A k \in 1..n : k > j => q[k].handle # h
    <3>1. PICK j \in 1..n : /\ q[j].kind = "reply" /\ q[j].handle = h /\ q[j].call = call
                            /\ \A k \in 1..n : k > j => q[k].handle # h
      BY <2>2, Zenon
    <3>2. CASE j = 1
      BY <1>7, <1>8, <3>1, <3>2, Zenon DEF Expected
    <3>3. CASE j > 1
      BY <1>6, <3>1, <3>3, Zenon DEF Expected
    <3>4. QED
      BY <1>3, <3>2, <3>3, Zenon
  <2>3. QED
    BY <1>8, <2>1, <2>2, Zenon DEF Expected
<1>9. ASSUME Vacant(q, entry, h, n), q[1].kind = "response" /\ q[1].handle = h => e1 = None
      PROVE  Vacant(q1, e1, h, n - 1)
  <2>1. CASE (\A j \in 1..n : q[j].handle # h) /\ entry = None
    BY <1>5, <2>1, Zenon DEF Vacant
  <2>2. CASE \E j \in 1..n : /\ q[j].kind = "response" /\ q[j].handle = h
                             /\ \A k \in 1..n : k > j => q[k].handle # h
    <3>1. PICK j \in 1..n : /\ q[j].kind = "response" /\ q[j].handle = h
                            /\ \A k \in 1..n : k > j => q[k].handle # h
      BY <2>2, Zenon
    <3>2. CASE j = 1
      BY <1>7, <1>9, <3>1, <3>2, Zenon DEF Vacant
    <3>3. CASE j > 1
      BY <1>6, <3>1, <3>3, Zenon DEF Vacant
    <3>4. QED
      BY <1>3, <3>2, <3>3, Zenon
  <2>3. QED
    BY <1>9, <2>1, <2>2, Zenon DEF Vacant
<1>10. QED
  BY <1>8, <1>9, Zenon DEF q1

-----------------------------------------------------------------------------
(* Handles: what a step does to the host bus's messages and registrations. *)

\* Registrations may be given up at any time.
LEMMA HostFewer ==
    ASSUME NEW q \in Seq(Msg), NEW reqs, NEW r1, NEW opn, HostRight(q, reqs, opn),
           \A h \in Handles : r1[h] \in {reqs[h], None}
    PROVE  HostRight(q, r1, opn)
<1>1. ASSUME NEW h \in Handles, NEW call, NEW n, Expected(q, reqs[h], h, call, n)
      PROVE  Expected(q, r1[h], h, call, n)
  BY <1>1, Zenon DEF Expected
<1>2. ASSUME NEW h \in Handles, NEW n, Vacant(q, reqs[h], h, n)
      PROVE  Vacant(q, r1[h], h, n)
  BY <1>2, Zenon DEF Vacant
<1>3. ASSUME NEW i \in 1..Len(q)
      PROVE  HostMessageRight(q, r1, i)
  <2>1. q[i] \in Msg
    BY <1>3
  <2>2. HostMessageRight(q, reqs, i) /\ q[i].handle \in Handles \cup {None}
    BY <1>3, <2>1, Zenon DEF HostRight, Msg
  <2>3. QED
    BY <1>1, <1>2, <2>2, Zenon DEF HostMessageRight
<1>4. ASSUME NEW h \in Handles
      PROVE  OpenRight(q, r1[h], h, opn[h])
  <2>1. OpenRight(q, reqs[h], h, opn[h])
    BY Zenon DEF HostRight
  <2>2. QED
    BY <1>1, <1>2, <2>1, Zenon DEF OpenRight
<1>5. QED
  BY <1>3, <1>4, Zenon DEF HostRight

\* The event loop reads the first message: a reply may register its handle for
\* the caller, a Response uses its registration up.
LEMMA HostTail ==
    ASSUME NEW q \in Seq(Msg), q # <<>>, NEW reqs, NEW r1, NEW opn, HostRight(q, reqs, opn),
           \A h \in Handles :
              /\ q[1].handle # h => r1[h] = reqs[h]
              /\ q[1].handle = h /\ q[1].kind = "reply" =>
                     r1[h] = reqs[h] \/ r1[h].client = q[1].call[1]
              /\ q[1].handle = h /\ q[1].kind = "response" => r1[h] = None
    PROVE  HostRight(Tail(q), r1, opn)
<1> DEFINE q1 == Tail(q)
<1>1. /\ Len(q) \in Nat /\ Len(q) >= 1 /\ q1 \in Seq(Msg) /\ Len(q1) = Len(q) - 1
      /\ \A i \in 1..(Len(q) - 1) : q1[i] = q[i + 1]
  BY TailSteps, Zenon
<1>2. \A i \in 1..Len(q) : q[i] \in Msg
  OBVIOUS
<1>3. ASSUME NEW h \in Handles, q[1].kind = "reply", q[1].handle = h
      PROVE  reqs[h] = None
  <2>1. HostMessageRight(q, reqs, 1)
    BY <1>1 DEF HostRight
  <2>2. h # None
    BY RouterAssumption, Zenon
  <2>3. Vacant(q, reqs[h], h, 0)
    BY <1>3, <2>1, <2>2 DEF HostMessageRight
  <2>4. QED
    BY <2>3 DEF Vacant
<1>4. ASSUME NEW h \in Handles, NEW call, NEW n \in 1..Len(q), Expected(q, reqs[h], h, call, n)
      PROVE  Expected(q1, r1[h], h, call, n - 1)
  <2>1. q[1].kind = "reply" /\ q[1].handle = h /\ q[1].call = call =>
            r1[h] = None \/ r1[h].client = call[1]
    BY <1>3, Zenon
  <2>2. QED
    BY <1>4, <2>1, TailRight, Zenon
<1>5. ASSUME NEW h \in Handles, NEW n \in 1..Len(q), Vacant(q, reqs[h], h, n)
      PROVE  Vacant(q1, r1[h], h, n - 1)
  BY <1>5, TailRight, Zenon
<1> HIDE DEF q1
<1>6. ASSUME NEW i \in 1..Len(q1)
      PROVE  HostMessageRight(q1, r1, i)
  <2>1. i + 1 \in 1..Len(q) /\ i \in 1..Len(q) /\ (i + 1) - 1 = i /\ q1[i] = q[i + 1]
    BY <1>1, <1>6
  <2>2. HostMessageRight(q, reqs, i + 1) /\ q[i + 1].handle \in Handles \cup {None}
    BY <1>2, <2>1, Zenon DEF HostRight, Msg
  <2>3. QED
    BY <1>4, <1>5, <2>1, <2>2, Zenon DEF HostMessageRight
<1>7. ASSUME NEW h \in Handles
      PROVE  OpenRight(q1, r1[h], h, opn[h])
  <2>1. OpenRight(q, reqs[h], h, opn[h])
    BY Zenon DEF HostRight
  <2>2. Len(q) \in 1..Len(q)
    BY <1>1
  <2>3. QED
    BY <1>1, <1>4, <1>5, <2>1, <2>2, Zenon DEF OpenRight
<1>8. QED
  BY <1>6, <1>7, Zenon DEF HostRight, q1

\* A message comes in that fits, and the handles in the portal's hands become o1.
LEMMA HostAppend ==
    ASSUME NEW q \in Seq(Msg), NEW m \in Msg, NEW reqs, NEW opn, NEW o1,
           HostRight(q, reqs, opn),
           m.handle = None => m.kind = "reply",
           m.kind = "reply" /\ m.handle # None =>
               opn[m.handle] = None /\ m.call # Own /\ m.call # None /\ o1[m.handle] = m.call,
           m.kind = "response" =>
               /\ opn[m.handle] = m.call /\ m.call # Own /\ m.call # None
               /\ o1[m.handle] = None,
           \A h \in Handles : m.handle # h => o1[h] = opn[h]
    PROVE  HostRight(Append(q, m), reqs, o1)
<1> DEFINE q1 == Append(q, m)
<1>1. /\ Len(q) \in Nat /\ q1 \in Seq(Msg) /\ Len(q1) = Len(q) + 1 /\ q1[Len(q) + 1] = m
      /\ \A i \in 1..Len(q) : q1[i] = q[i] /\ q[i] \in Msg
  BY QueueSteps, Zenon
<1>2. ASSUME NEW h, NEW call, NEW n \in 0..Len(q)
      PROVE  /\ Expected(q, reqs[h], h, call, n) => Expected(q1, reqs[h], h, call, n)
             /\ Vacant(q, reqs[h], h, n) => Vacant(q1, reqs[h], h, n)
             /\ m.handle # h =>
                   /\ Expected(q, reqs[h], h, call, Len(q)) =>
                          Expected(q1, reqs[h], h, call, Len(q) + 1)
                   /\ Vacant(q, reqs[h], h, Len(q)) => Vacant(q1, reqs[h], h, Len(q) + 1)
  BY <1>2, AppendRight, Zenon
<1> HIDE DEF q1
<1>3. Len(q) \in 0..Len(q)
  BY <1>1
<1>4. m.handle # None => m.handle \in Handles /\ OpenRight(q, reqs[m.handle], m.handle, opn[m.handle])
  BY Zenon DEF HostRight, Msg
<1>5. ASSUME NEW i \in 1..Len(q)
      PROVE  HostMessageRight(q1, reqs, i)
  <2>1. i - 1 \in 0..Len(q)
    BY <1>1, <1>5
  <2>2. HostMessageRight(q, reqs, i) /\ q1[i] = q[i]
    BY <1>1, <1>5, Zenon DEF HostRight
  <2>3. QED
    BY <1>2, <2>1, <2>2, Zenon DEF HostMessageRight
<1>6. HostMessageRight(q1, reqs, Len(q) + 1)
  <2>1. (Len(q) + 1) - 1 = Len(q)
    BY <1>1
  <2>2. ASSUME m.kind = "response"
        PROVE  /\ m.handle \in Handles /\ m.call # Own
               /\ Expected(q1, reqs[m.handle], m.handle, m.call, Len(q))
    <3>1. m.handle # None
      BY <2>2, Zenon
    <3>2. Expected(q, reqs[m.handle], m.handle, m.call, Len(q))
      BY <1>4, <2>2, <3>1, Zenon DEF OpenRight
    <3>3. QED
      BY <1>2, <1>3, <1>4, <2>2, <3>1, <3>2, Zenon
  <2>3. ASSUME m.kind = "reply", m.handle # None
        PROVE  m.call # Own /\ Vacant(q1, reqs[m.handle], m.handle, Len(q))
    <3>1. Vacant(q, reqs[m.handle], m.handle, Len(q))
      BY <1>4, <2>3, Zenon DEF OpenRight
    <3>2. QED
      BY <1>2, <1>3, <2>3, <3>1, Zenon
  <2>4. QED
    BY <1>1, <2>1, <2>2, <2>3, Zenon DEF HostMessageRight
<1>7. ASSUME NEW h \in Handles
      PROVE  OpenRight(q1, reqs[h], h, o1[h])
  <2>1. CASE m.handle # h
    <3>1. OpenRight(q, reqs[h], h, opn[h]) /\ o1[h] = opn[h]
      BY <2>1, Zenon DEF HostRight
    <3>2. QED
      BY <1>1, <1>2, <1>3, <2>1, <3>1, SMTT(60) DEF OpenRight
  <2>2. CASE m.handle = h
    <3>1. /\ Len(q) + 1 \in 1..(Len(q) + 1)
          /\ \A k \in 1..(Len(q) + 1) : ~ (k > Len(q) + 1)
      BY <1>1
    <3>2. h # None /\ m.kind \in {"reply", "response"}
      BY RouterAssumption, Zenon DEF Msg
    <3>3. CASE m.kind = "reply"
      <4>1. Expected(q1, reqs[h], h, m.call, Len(q) + 1)
        BY <1>1, <2>2, <3>1, <3>3, Zenon DEF Expected
      <4>2. QED
        BY <1>1, <2>2, <3>2, <3>3, <4>1, Zenon DEF OpenRight
    <3>4. CASE m.kind = "response"
      <4>1. Vacant(q1, reqs[h], h, Len(q) + 1)
        BY <1>1, <2>2, <3>1, <3>4, Zenon DEF Vacant
      <4>2. QED
        BY <1>1, <2>2, <3>4, <4>1, Zenon DEF OpenRight
    <3>5. QED
      BY <3>2, <3>3, <3>4, Zenon
  <2>3. QED
    BY <2>1, <2>2, Zenon
<1>8. \A i \in 1..Len(q1) : i \in 1..Len(q) \/ i = Len(q) + 1
  BY <1>1
<1>9. QED
  BY <1>5, <1>6, <1>7, <1>8, Zenon DEF HostRight, q1

-----------------------------------------------------------------------------
(* Entries: what a step does to the SerialMap of one bus.                  *)

\* Entries may be given up at any time.
LEMMA RouteFewer ==
    ASSUME NEW p, NEW p1, NEW bus, NEW q, RouteRight(p, bus, q),
           \A s \in Keys : p1[s] \in {p[s], None}
    PROVE  RouteRight(p1, bus, q)
<1>1. ASSUME NEW s, NEW call, Kept(p[s], s, call)
      PROVE  Kept(p1[s], s, call)
  BY <1>1, Zenon DEF Kept, Keys
<1>2. \A s \in OwnSerials : p1[s] = None
  BY Zenon DEF RouteRight, Keys
<1>3. \A m \in bus : Kept(p1[m.serial], m.serial, m.call)
  BY <1>1, Zenon DEF RouteRight
<1>4. \A i \in 1..Len(q) : q[i].kind = "reply" => Kept(p1[q[i].serial], q[i].serial, q[i].call)
  BY <1>1, SMTT(60) DEF RouteRight
<1>5. QED
  BY <1>2, <1>3, <1>4, Zenon DEF RouteRight

\* The event loop reads the first message.
LEMMA RouteTail ==
    ASSUME NEW p, NEW bus, NEW q \in Seq(Msg), q # <<>>, RouteRight(p, bus, q)
    PROVE  RouteRight(p, bus, Tail(q))
<1>1. /\ Len(q) \in Nat /\ Len(Tail(q)) = Len(q) - 1
      /\ \A i \in 1..(Len(q) - 1) : Tail(q)[i] = q[i + 1]
  BY TailSteps, Zenon
<1>2. \A i \in 1..Len(Tail(q)) : i + 1 \in 1..Len(q) /\ Tail(q)[i] = q[i + 1]
  BY <1>1
<1>3. QED
  BY <1>2, Zenon DEF RouteRight

\* A message comes in: a Response, or the reply to a call on the bus.
LEMMA RouteAppend ==
    ASSUME NEW p, NEW bus, NEW b1, NEW q \in Seq(Msg), NEW m \in Msg, RouteRight(p, bus, q),
           b1 \subseteq bus,
           m.kind = "reply" => Kept(p[m.serial], m.serial, m.call)
    PROVE  RouteRight(p, b1, Append(q, m))
<1>1. /\ Len(q) \in Nat /\ Len(Append(q, m)) = Len(q) + 1 /\ Append(q, m)[Len(q) + 1] = m
      /\ \A i \in 1..Len(q) : Append(q, m)[i] = q[i]
  BY QueueSteps, ZenonT(40)
<1>2. \A i \in 1..Len(Append(q, m)) : i \in 1..Len(q) \/ i = Len(q) + 1
  BY <1>1
<1>3. QED
  BY <1>1, <1>2, Zenon DEF RouteRight

\* A call goes out under a serial that no call of a client is using.
LEMMA RouteForward ==
    ASSUME NEW p, NEW p1, NEW bus, NEW q \in Seq(Msg), RouteRight(p, bus, q),
           NEW s, NEW call, call # Own, OwnApart, s \in Serials,
           p1[s] = [client |-> call[1], serial |-> call[2]],
           \A k \in Keys : k # s => p1[k] = p[k],
           \A m \in bus : m.call # Own => m.serial # s,
           \A i \in 1..Len(q) : q[i].kind = "reply" /\ q[i].call # Own => q[i].serial # s
    PROVE  RouteRight(p1, bus \cup {[serial |-> s, call |-> call]}, q)
<1>1. ASSUME NEW k, NEW c, Kept(p[k], k, c), c # Own => k # s
      PROVE  Kept(p1[k], k, c)
  BY <1>1, Zenon DEF Kept, Keys, OwnApart
<1>2. \A k \in OwnSerials : p1[k] = None
  BY Zenon DEF RouteRight, OwnApart, Keys
<1>3. Kept(p1[s], s, call)
  BY Zenon DEF Kept
<1>4. \A m \in bus : Kept(p1[m.serial], m.serial, m.call)
  BY <1>1, Zenon DEF RouteRight
<1>5. \A i \in 1..Len(q) : q[i].kind = "reply" => Kept(p1[q[i].serial], q[i].serial, q[i].call)
  BY <1>1, SMTT(60) DEF RouteRight
<1>6. QED
  BY <1>2, <1>3, <1>4, <1>5 DEF RouteRight

-----------------------------------------------------------------------------
(* The steps of the event loop.                                              *)

\* There are two buses.
LEMMA Routes == Route = {"Container", "Host"} /\ "Container" # "Host"
  BY Zenon DEF Route

\* Everything but the two tables, the buses and the deliveries is beside the point.
LEMMA Frame ==
    ASSUME RouterInv,
           UNCHANGED <<pending, requests, atBus, open, stream>>, Typed',
           DeliveryRight', RightRecipient'
    PROVE  RouterInv'
  BY Zenon DEF RouterInv, EntriesRight, HandlesRight

\* The step leaves the deliveries alone.
LEMMA SameDeliveries ==
    ASSUME RouterInv, UNCHANGED <<main, inbox>>
    PROVE  /\ DeliveryRight' /\ RightRecipient'
           /\ inbox' \in [Clients -> Seq(Item)] /\ (main'.pc = "deliver" => main'.item \in Item)
  BY DEF RouterInv, DeliveryRight, RightRecipient, Typed

\* The serial of a call of c that goes out on bus r, and the call.
LEMMA Taken ==
    ASSUME Typed, NEW c \in Clients, NEW r \in Route, Take(c, r)
    PROVE  /\ NextSerial(counter[r]) \in Serials
           /\ counter' \in [Route -> 0..(SerialSpace - 1)]
           /\ made' \in [Clients -> 0..MaxCalls]
           /\ made'[c] \in 1..MaxCalls /\ <<c, made'[c]>> \in Calls
           /\ <<c, made'[c]>> # Own
<1> USE RouterAssumption
<1>1. counter[r] \in 0..(SerialSpace - 1)
  BY Zenon DEF Typed
<1>2. NextSerial(counter[r]) \in 1..(SerialSpace - 1)
  BY <1>1 DEF NextSerial
<1>3. CounterAfter(counter[r]) \in 0..(SerialSpace - 1)
  BY <1>2 DEF CounterAfter
<1>4. counter' \in [Route -> 0..(SerialSpace - 1)]
  BY <1>3, Zenon DEF Take, Typed
<1>5. made[c] \in 0..MaxCalls /\ made[c] < MaxCalls
  BY Zenon DEF Take, Typed
<1>6. made[c] + 1 \in 1..MaxCalls
  BY <1>5
<1>7. made' \in [Clients -> 0..MaxCalls] /\ made'[c] = made[c] + 1
  BY <1>6 DEF Take, Typed
<1>8. <<c, made'[c]>> \in Calls /\ <<c, made'[c]>> # Own
  BY <1>6, <1>7 DEF Calls
<1>9. QED
  BY <1>2, <1>4, <1>6, <1>7, <1>8, Zenon DEF Serials

\* forward_method_call records the call under the serial it goes out with, which
\* no call of a client is using, so no other entry is overwritten.
LEMMA ForwardStep ==
    ASSUME RouterInv, OwnApart, NEW c \in Clients, NEW r \in Route, ForwardMethodCall(c, r)
    PROVE  RouterInv'
<1> DEFINE s == NextSerial(counter[r])
           call == <<c, made'[c]>>
           entry == [client |-> c, serial |-> made'[c]]
<1>1. /\ Take(c, r) /\ s \notin InUse(r)
      /\ atBus' = [atBus EXCEPT ![r] = @ \cup {[serial |-> s, call |-> call]}]
      /\ pending' = [pending EXCEPT ![r][s] = entry]
      /\ UNCHANGED <<requests, main, inbox, open, stream>>
  BY Zenon DEF ForwardMethodCall, Take, Insert
<1>2. Typed
  BY Zenon DEF RouterInv
<1>3. /\ s \in Serials /\ counter' \in [Route -> 0..(SerialSpace - 1)]
      /\ made' \in [Clients -> 0..MaxCalls]
      /\ made'[c] \in 1..MaxCalls /\ call \in Calls /\ call # Own
  BY <1>1, <1>2, Taken, Zenon
<1>4. call[1] = c /\ call[2] = made'[c]
  BY Zenon
<1> HIDE DEF s, call
<1>5. entry \in Entry /\ s \in Keys /\ [serial |-> s, call |-> call] \in BusCall
  BY <1>3, Zenon DEF Entry, Keys, BusCall
<1> HIDE DEF entry
<1>6. /\ pending' \in [Route -> [Keys -> Entry \cup {None}]]
      /\ atBus' \in [Route -> SUBSET BusCall]
  BY <1>1, <1>2, <1>5, Zenon DEF Typed
<1>7. DeliveryRight' /\ RightRecipient' /\ Typed'
  BY <1>1, <1>2, <1>3, <1>6, SameDeliveries, Zenon DEF Typed
<1>8. HandlesRight'
  BY <1>1, Zenon DEF RouterInv, HandlesRight
<1>9. ASSUME NEW x \in Route
      PROVE  RouteRight(pending'[x], atBus'[x], stream'[x])
  <2>1. RouteRight(pending[x], atBus[x], stream[x])
    BY Zenon DEF RouterInv, EntriesRight
  <2>2. CASE x # r
    <3>1. pending'[x] = pending[x] /\ atBus'[x] = atBus[x] /\ stream'[x] = stream[x]
      BY <1>1, <1>2, <2>2, Zenon DEF Typed
    <3>2. QED
      BY <2>1, <3>1, Zenon
  <2>3. CASE x = r
    <3>1. /\ pending'[r][s] = entry /\ \A k \in Keys : k # s => pending'[r][k] = pending[r][k]
          /\ atBus'[r] = atBus[r] \cup {[serial |-> s, call |-> call]}
          /\ stream'[r] = stream[r] /\ stream[r] \in Seq(Msg)
      BY <1>1, <1>2, <1>5, Zenon DEF Typed
    <3>2. \A m \in atBus[r] : m.call # Own => m.serial # s
      BY <1>1, Zenon DEF InUse
    <3>3. \A i \in 1..Len(stream[r]) :
              stream[r][i].kind = "reply" /\ stream[r][i].call # Own => stream[r][i].serial # s
      BY <1>1, Zenon DEF InUse, Replies
    <3>4. entry = [client |-> call[1], serial |-> call[2]]
      BY <1>4, Zenon DEF entry
    <3>5. RouteRight(pending'[r], atBus[r] \cup {[serial |-> s, call |-> call]}, stream[r])
      BY <1>3, <2>1, <2>3, <3>1, <3>2, <3>3, <3>4, RouteForward, ZenonT(60)
    <3>6. QED
      BY <2>3, <3>1, <3>5, Zenon
  <2>4. QED
    BY <2>2, <2>3, Zenon
<1>10. EntriesRight'
  BY <1>9, Zenon DEF EntriesRight
<1>11. QED
  BY <1>7, <1>8, <1>10, Zenon DEF RouterInv

\* The error for a send that failed goes to the caller.
LEMMA ForwardFailsStep ==
    ASSUME RouterInv, NEW c \in Clients, NEW r \in Route, ForwardFails(c, r)
    PROVE  RouterInv'
<1> DEFINE n == made'[c]
           item == [kind |-> "answer", serial |-> n, call |-> <<c, n>>, raw |-> FALSE]
<1>1. /\ Take(c, r) /\ main' = [pc |-> "deliver", to |-> {c}, item |-> item]
      /\ UNCHANGED <<pending, requests, inbox, atBus, open, stream>>
  BY Zenon DEF ForwardFails, Delivery, busVars
<1>2. /\ counter' \in [Route -> 0..(SerialSpace - 1)] /\ made' \in [Clients -> 0..MaxCalls]
      /\ n \in 1..MaxCalls /\ <<c, n>> \in Calls
  BY <1>1, Taken, Zenon DEF RouterInv
<1>3. item \in Item /\ Right(c, item)
  BY <1>2, Zenon DEF Item, Right
<1> HIDE DEF n, item
<1>4. main'.item = item /\ main'.to = {c}
  BY <1>1, Zenon
<1>5. Typed'
  BY <1>1, <1>2, <1>3, <1>4, Zenon DEF RouterInv, Typed
<1>6. DeliveryRight'
  BY <1>3, <1>4, Zenon DEF DeliveryRight
<1>7. RightRecipient'
  BY <1>1, ZenonT(40) DEF RouterInv, RightRecipient
<1>8. QED
  BY <1>1, <1>5, <1>6, <1>7, Frame, Zenon

\* What is delivered was right when handle_bus_message chose the client.
LEMMA DeliverStep ==
    ASSUME RouterInv, Deliver
    PROVE  RouterInv'
<1>1. /\ main.item \in Item /\ main' = Idle
      /\ UNCHANGED <<counter, pending, requests, made, atBus, open, stream>>
  BY Zenon DEF RouterInv, Typed, Deliver, peerVars, busVars
<1>2. ASSUME NEW c \in Clients
      PROVE  /\ inbox[c] \in Seq(Item) /\ inbox'[c] \in Seq(Item)
             /\ \/ inbox'[c] = inbox[c]
                \/ c \in main.to /\ inbox'[c] = Append(inbox[c], main.item)
  BY <1>1 DEF Deliver, RouterInv, Typed
<1>3. inbox' \in [Clients -> Seq(Item)]
  BY <1>2, Zenon DEF Deliver
<1>4. main'.pc = "idle"
  BY <1>1, Zenon DEF Idle
<1>5. Typed' /\ DeliveryRight'
  BY <1>1, <1>3, <1>4, Zenon DEF RouterInv, Typed, DeliveryRight
<1>6. ASSUME NEW c \in Clients, NEW i \in 1..Len(inbox'[c])
      PROVE  Right(c, inbox'[c][i])
  <2>1. \A j \in 1..Len(inbox[c]) : Right(c, inbox[c][j])
    BY Zenon DEF RouterInv, RightRecipient, Right
  <2>2. CASE inbox'[c] = inbox[c]
    BY <1>6, <2>1, <2>2, Zenon
  <2>3. CASE c \in main.to /\ inbox'[c] = Append(inbox[c], main.item)
    <3>1. Right(c, main.item)
      BY <2>3, Zenon DEF RouterInv, DeliveryRight, Deliver
    <3>2. (i \in 1..Len(inbox[c]) /\ inbox'[c][i] = inbox[c][i]) \/ inbox'[c][i] = main.item
      BY <1>1, <1>2, <1>6, <2>3
    <3>3. QED
      BY <2>1, <3>1, <3>2, Zenon
  <2>4. QED
    BY <1>2, <2>2, <2>3, Zenon
<1>7. RightRecipient'
  BY <1>6, Zenon DEF RightRecipient, Right
<1>8. QED
  BY <1>1, <1>5, <1>7, Frame, Zenon

\* What Rewritten hands over to c is about a call of c.
LEMMA RewrittenRight ==
    ASSUME NEW c \in Clients, NEW kind \in {"answer", "response"}, NEW serial, NEW m \in Msg,
           serial \in 1..MaxCalls \cup {None}, Rewritten({c}, kind, serial, m),
           kind = "answer" => m.call = <<c, serial>>,
           m.call # Own, m.call[1] = c
    PROVE  main'.item \in Item /\ DeliveryRight'
<1>1. \/ main' = [pc |-> "deliver", to |-> {c},
                  item |-> [kind |-> kind, serial |-> serial, call |-> m.call, raw |-> FALSE]]
      \/ main' = [pc |-> "deliver", to |-> {c},
                  item |-> [kind |-> kind, serial |-> m.serial, call |-> m.call, raw |-> TRUE]]
  BY Zenon DEF Rewritten, Delivery
<1>2. PICK t \in 1..MaxCalls \cup {None} \cup Keys, raw \in BOOLEAN :
         /\ main' = [pc |-> "deliver", to |-> {c},
                     item |-> [kind |-> kind, serial |-> t, call |-> m.call, raw |-> raw]]
         /\ raw = TRUE \/ t = serial
  BY <1>1, Zenon DEF Msg
<1> DEFINE item == [kind |-> kind, serial |-> t, call |-> m.call, raw |-> raw]
<1>3. m.call \in Calls \cup {Own}
  BY Zenon DEF Msg
<1>4. item \in Item
  BY <1>3, Zenon DEF Item
<1>5. /\ item.kind = kind /\ item.serial = t /\ item.call = m.call /\ item.raw = raw
      /\ main'.to = {c} /\ main'.item = item
  BY <1>2, Zenon
<1> HIDE DEF item
<1>6. Right(c, item)
  BY <1>2, <1>5, Zenon DEF Right
<1>7. QED
  BY <1>4, <1>5, <1>6, Zenon DEF DeliveryRight

\* A reply uses its entry up, which leads to the caller; the handle in it, which the
\* portal has granted to that call, is registered for the caller.
LEMMA HandleReplyStep ==
    ASSUME RouterInv, NEW r \in Route, HandleReply(r)
    PROVE  RouterInv'
<1> DEFINE m == Head(stream[r])
           p == pending[r][m.serial]
<1>1. /\ stream[r] # <<>> /\ m.kind = "reply"
      /\ pending' = [pending EXCEPT ![r][m.serial] = None]
      /\ requests' = IF p # None /\ m.handle # None
                     THEN [requests EXCEPT ![m.handle] = [client |-> p.client, call |-> m.call]]
                     ELSE requests
      /\ IF p = None THEN UNCHANGED main ELSE Rewritten({p.client}, "answer", p.serial, m)
      /\ stream' = [stream EXCEPT ![r] = Tail(@)]
      /\ UNCHANGED <<counter, inbox, atBus, open, made>>
  BY Zenon DEF HandleReply, PendingCall, Remove, Register, peerVars
<1>2. Typed /\ stream[r] \in Seq(Msg)
  BY Zenon DEF RouterInv, Typed
<1>3. /\ m \in Msg /\ m = stream[r][1] /\ 1 \in 1..Len(stream[r]) /\ Tail(stream[r]) \in Seq(Msg)
  BY <1>1, <1>2, TailSteps, FirstPlace, Zenon
<1>4. Kept(p, m.serial, m.call) /\ \A s \in OwnSerials : pending[r][s] = None
  BY <1>1, <1>3, Zenon DEF RouterInv, EntriesRight, RouteRight
<1> HIDE DEF m
<1>5. m.serial \in Keys
  BY <1>4, Zenon DEF Kept, Keys
<1>6. p \in Entry \cup {None}
  BY <1>2, <1>5, Zenon DEF Typed
<1>7. ASSUME p # None
      PROVE  /\ m.call # Own /\ m.call \in Calls /\ m.call[1] = p.client
             /\ m.call = <<p.client, p.serial>>
             /\ p.client \in Clients /\ p.serial \in 1..MaxCalls
  <2>1. p.client \in Clients /\ p.serial \in 1..MaxCalls
    BY <1>6, <1>7, Zenon DEF Entry
  <2>2. m.call # Own
    BY <1>4, <1>7, Zenon DEF Kept
  <2>3. m.call \in Calls
    BY <1>3, <2>2, Zenon DEF Msg
  <2>4. p = [client |-> m.call[1], serial |-> m.call[2]]
    BY <1>4, <1>7, <2>2, Zenon DEF Kept
  <2>5. m.call = <<m.call[1], m.call[2]>>
    BY <2>3 DEF Calls
  <2>6. QED
    BY <2>1, <2>2, <2>3, <2>4, <2>5
<1>8. pending' \in [Route -> [Keys -> Entry \cup {None}]] /\ stream' \in [Route -> Seq(Msg)]
  BY <1>1, <1>2, <1>3, <1>5, Zenon DEF Typed
<1>9. requests' \in [Handles -> Request \cup {None}]
  <2>1. CASE p # None /\ m.handle # None
    <3>1. m.handle \in Handles /\ [client |-> p.client, call |-> m.call] \in Request
      BY <1>3, <1>7, <2>1, ZenonT(60) DEF Msg, Request
    <3>2. QED
      BY <1>1, <1>2, <2>1, <3>1, Zenon DEF Typed
  <2>2. CASE ~ (p # None /\ m.handle # None)
    BY <1>1, <1>2, <2>2, Zenon DEF Typed
  <2>3. QED
    BY <2>1, <2>2, Zenon
<1>10. (main'.pc = "deliver" => main'.item \in Item) /\ DeliveryRight'
  <2>1. CASE p = None
    BY <1>1, <2>1, Zenon DEF RouterInv, Typed, DeliveryRight
  <2>2. CASE p # None
    <3>1. Rewritten({p.client}, "answer", p.serial, m)
      BY <1>1, <2>2, Zenon
    <3>2. QED
      BY <1>3, <1>7, <2>2, <3>1, RewrittenRight, ZenonT(60)
  <2>3. QED
    BY <2>1, <2>2, Zenon
<1>11. Typed'
  BY <1>1, <1>2, <1>8, <1>9, <1>10, ZenonT(60) DEF Typed
<1>12. RightRecipient'
  BY <1>1, Zenon DEF RouterInv, RightRecipient
<1>13. ASSUME NEW x \in Route
       PROVE  RouteRight(pending'[x], atBus'[x], stream'[x])
  <2>1. RouteRight(pending[x], atBus[x], stream[x])
    BY Zenon DEF RouterInv, EntriesRight
  <2>2. \A s \in Keys : pending'[x][s] \in {pending[x][s], None}
    BY <1>1, <1>2, <1>5, Zenon DEF Typed
  <2>3. RouteRight(pending'[x], atBus[x], stream[x])
    BY <2>1, <2>2, RouteFewer, Zenon
  <2>4. CASE x = r
    BY <1>1, <1>2, <2>3, <2>4, RouteTail, Zenon DEF Typed
  <2>5. CASE x # r
    BY <1>1, <1>2, <2>3, <2>5, Zenon DEF Typed
  <2>6. QED
    BY <2>4, <2>5, Zenon
<1>14. HandlesRight'
  <2>1. PlainReplies(stream["Container"]) /\ HostRight(stream["Host"], requests, open)
    BY Zenon DEF RouterInv, HandlesRight
  <2>2. CASE r = "Container"
    <3>1. /\ stream'["Container"] = Tail(stream["Container"]) /\ stream'["Host"] = stream["Host"]
      BY <1>1, <1>2, <2>2, Routes, Zenon DEF Typed
    <3>2. m.handle = None
      BY <1>3, <2>1, <2>2, Zenon DEF PlainReplies
    <3>3. PlainReplies(stream'["Container"])
      <4>1. /\ Len(stream[r]) \in Nat /\ Len(Tail(stream[r])) = Len(stream[r]) - 1
            /\ \A i \in 1..(Len(stream[r]) - 1) : Tail(stream[r])[i] = stream[r][i + 1]
        BY <1>1, <1>2, TailSteps, Zenon
      <4>2. \A i \in 1..Len(Tail(stream[r])) :
                i + 1 \in 1..Len(stream[r]) /\ Tail(stream[r])[i] = stream[r][i + 1]
        BY <4>1
      <4>3. QED
        BY <2>1, <2>2, <3>1, <4>2 DEF PlainReplies
    <3>4. QED
      BY <1>1, <2>1, <3>1, <3>2, <3>3, Zenon DEF HandlesRight
  <2>3. CASE r = "Host"
    <3>1. stream'["Host"] = Tail(stream["Host"]) /\ stream'["Container"] = stream["Container"]
      BY <1>1, <1>2, <2>3, Routes, Zenon DEF Typed
    <3>2. ASSUME NEW h \in Handles
          PROVE  /\ m.handle # h => requests'[h] = requests[h]
                 /\ m.handle = h => requests'[h] = requests[h] \/ requests'[h].client = m.call[1]
      <4>1. CASE p # None /\ m.handle # None
        <5>1. requests' = [requests EXCEPT ![m.handle] = [client |-> p.client, call |-> m.call]]
          BY <1>1, <4>1, Zenon
        <5>2. requests \in [Handles -> Request \cup {None}]
          BY <1>2, Zenon DEF Typed
        <5>3. QED
          BY <1>7, <4>1, <5>1, <5>2, Zenon
      <4>2. CASE ~ (p # None /\ m.handle # None)
        BY <1>1, <4>2, Zenon
      <4>3. QED
        BY <4>1, <4>2, Zenon
    <3>3. HostRight(Tail(stream["Host"]), requests', open)
      <4>1. /\ stream["Host"] # <<>> /\ stream["Host"] \in Seq(Msg)
            /\ stream["Host"][1] = m /\ m.kind = "reply"
        BY <1>1, <1>2, <1>3, <2>3, Zenon
      <4>2. \A h \in Handles :
               /\ stream["Host"][1].handle # h => requests'[h] = requests[h]
               /\ stream["Host"][1].handle = h /\ stream["Host"][1].kind = "reply" =>
                      requests'[h] = requests[h]
                      \/ requests'[h].client = stream["Host"][1].call[1]
               /\ stream["Host"][1].handle = h /\ stream["Host"][1].kind = "response" =>
                      requests'[h] = None
        BY <3>2, <4>1, Zenon
      <4>3. QED
        BY <2>1, <4>1, <4>2, HostTail, Zenon
    <3>4. QED
      BY <1>1, <2>1, <3>1, <3>3, Zenon DEF HandlesRight
  <2>4. QED
    BY <2>2, <2>3, Routes, Zenon
<1>15. QED
  BY <1>10, <1>11, <1>12, <1>13, <1>14, SMTT(60) DEF RouterInv, EntriesRight

\* A Response meets the registration of the request it belongs to, or none.
LEMMA HandleResponseStep ==
    ASSUME RouterInv, NEW r \in Route, HandleResponse(r)
    PROVE  RouterInv'
<1> DEFINE m == Head(stream[r])
           e == requests[m.handle]
<1>1. /\ stream[r] # <<>> /\ m.kind = "response"
      /\ requests' = [requests EXCEPT ![m.handle] = None]
      /\ IF e # None THEN Rewritten({e.client}, "response", None, m)
         ELSE main' = [pc |-> "deliver", to |-> Listeners,
                       item |-> [kind |-> "broadcast", serial |-> None, call |-> m.call,
                                 raw |-> FALSE]]
      /\ stream' = [stream EXCEPT ![r] = Tail(@)]
      /\ UNCHANGED <<counter, pending, inbox, atBus, open, made>>
  BY Zenon DEF HandleResponse, LookupAndRemove, Delivery, peerVars
<1>2. Typed /\ stream[r] \in Seq(Msg)
  BY Zenon DEF RouterInv, Typed
<1>3. /\ m \in Msg /\ m = stream[r][1] /\ 1 \in 1..Len(stream[r]) /\ Tail(stream[r]) \in Seq(Msg)
  BY <1>1, <1>2, TailSteps
<1>4. PlainReplies(stream["Container"]) /\ HostRight(stream["Host"], requests, open)
  BY Zenon DEF RouterInv, HandlesRight
<1>5. r = "Host"
  BY <1>1, <1>3, <1>4, Routes, Zenon DEF PlainReplies
<1> HIDE DEF m
<1>6. /\ m.handle \in Handles /\ m.call # Own /\ m.call \in Calls
      /\ e = None \/ e.client = m.call[1]
  <2>1. HostMessageRight(stream["Host"], requests, 1)
    BY <1>3, <1>4, <1>5, Zenon DEF HostRight
  <2>2. m.handle \in Handles /\ m.call # Own /\ Expected(stream["Host"], e, m.handle, m.call, 0)
    BY <1>1, <1>3, <1>5, <2>1 DEF HostMessageRight
  <2>3. e = None \/ e.client = m.call[1]
    BY <2>2 DEF Expected
  <2>4. QED
    BY <1>3, <2>2, <2>3, Zenon DEF Msg
<1>7. e \in Request \cup {None}
  BY <1>2, <1>6, Zenon DEF Typed
<1>8. requests' \in [Handles -> Request \cup {None}] /\ stream' \in [Route -> Seq(Msg)]
  BY <1>1, <1>2, <1>3, ZenonT(60) DEF Typed
<1>9. (main'.pc = "deliver" => main'.item \in Item) /\ DeliveryRight'
  <2>1. CASE e = None
    <3> DEFINE item == [kind |-> "broadcast", serial |-> None, call |-> m.call, raw |-> FALSE]
    <3>1. item \in Item /\ item.kind = "broadcast"
      BY <1>6, ZenonT(60) DEF Item
    <3>2. main'.item = item
      BY <1>1, <2>1
    <3> HIDE DEF item
    <3>3. \A c : Right(c, item)
      BY <3>1, Zenon DEF Right
    <3>4. QED
      BY <3>1, <3>2, <3>3, Zenon DEF DeliveryRight
  <2>2. CASE e # None
    <3>1. Rewritten({e.client}, "response", None, m) /\ e.client \in Clients
      BY <1>1, <1>7, <2>2, Zenon DEF Request
    <3>2. QED
      BY <1>3, <1>6, <2>2, <3>1, RewrittenRight, ZenonT(60)
  <2>3. QED
    BY <2>1, <2>2, Zenon
<1>10. Typed'
  BY <1>1, <1>2, <1>8, <1>9, Zenon DEF Typed
<1>11. RightRecipient'
  BY <1>1, ZenonT(60) DEF RouterInv, RightRecipient
<1>12. ASSUME NEW x \in Route
       PROVE  RouteRight(pending'[x], atBus'[x], stream'[x])
  <2>1. RouteRight(pending[x], atBus[x], stream[x])
    BY Zenon DEF RouterInv, EntriesRight
  <2>2. CASE x = r
    BY <1>1, <1>2, <2>1, <2>2, RouteTail, ZenonT(60) DEF Typed
  <2>3. CASE x # r
    BY <1>1, <1>2, <2>1, <2>3, ZenonT(60) DEF Typed
  <2>4. QED
    BY <2>2, <2>3, Zenon
<1>13. HandlesRight'
  <2>1. stream'["Host"] = Tail(stream["Host"]) /\ stream'["Container"] = stream["Container"]
    BY <1>1, <1>2, <1>5, Routes, Zenon DEF Typed
  <2>2. /\ stream["Host"] # <<>> /\ stream["Host"] \in Seq(Msg)
        /\ stream["Host"][1] = m /\ m.kind = "response"
    BY <1>1, <1>2, <1>3, <1>5, Zenon
  <2>3. requests \in [Handles -> Request \cup {None}]
    BY <1>2, Zenon DEF Typed
  <2>4. \A h \in Handles :
           /\ stream["Host"][1].handle # h => requests'[h] = requests[h]
           /\ stream["Host"][1].handle = h /\ stream["Host"][1].kind = "reply" =>
                  requests'[h] = requests[h]
                  \/ requests'[h].client = stream["Host"][1].call[1]
           /\ stream["Host"][1].handle = h /\ stream["Host"][1].kind = "response" =>
                  requests'[h] = None
    BY <1>1, <2>2, <2>3, Zenon
  <2>5. HostRight(Tail(stream["Host"]), requests', open)
    BY <1>4, <2>2, <2>4, HostTail, Zenon
  <2>6. QED
    BY <1>1, <1>4, <2>1, <2>5, Zenon DEF HandlesRight
<1>14. QED
  BY <1>9, <1>10, <1>11, <1>12, <1>13, Zenon DEF RouterInv, EntriesRight

\* The multiplexer starts with empty tables.
LEMMA InitStep ==
    Init => RouterInv
<1> SUFFICES ASSUME Init
             PROVE  RouterInv
  BY Zenon
<1> USE RouterAssumption
<1>1. Typed
  <2>1. pending \in [Route -> [Keys -> Entry \cup {None}]]
    BY Zenon DEF Init, Keys
  <2>2. /\ requests \in [Handles -> Request \cup {None}]
        /\ open \in [Handles -> Calls \cup {None}]
        /\ atBus \in [Route -> SUBSET BusCall]
        /\ stream \in [Route -> Seq(Msg)]
        /\ inbox \in [Clients -> Seq(Item)]
    BY DEF Init
  <2>3. made \in [Clients -> 0..MaxCalls] /\ counter \in [Route -> 0..(SerialSpace - 1)]
    BY DEF Init
  <2>4. main.pc = "idle"
    BY Zenon DEF Init, Idle
  <2>5. QED
    BY <2>1, <2>2, <2>3, <2>4, Zenon DEF Typed
<1>2. EntriesRight
  <2>1. ASSUME NEW r \in Route
        PROVE  RouteRight(pending[r], atBus[r], stream[r])
    <3>1. /\ atBus[r] = {} /\ stream[r] = <<>>
          /\ \A s \in OwnSerials : pending[r][s] = None
      BY Zenon DEF Init
    <3>2. QED
      BY <3>1 DEF RouteRight
  <2>2. QED
    BY <2>1, Zenon DEF EntriesRight
<1>3. HandlesRight
  <2>1. stream["Container"] = <<>> /\ stream["Host"] = <<>>
    BY Zenon DEF Init, Route
  <2>2. ASSUME NEW h \in Handles
        PROVE  OpenRight(<<>>, requests[h], h, open[h])
    <3>1. requests[h] = None /\ open[h] = None
      BY Zenon DEF Init
    <3>2. QED
      BY <3>1 DEF OpenRight, Vacant
  <2>3. QED
    BY <2>1, <2>2 DEF HandlesRight, HostRight, PlainReplies
<1>4. DeliveryRight
  BY Zenon DEF Init, Idle, DeliveryRight
<1>5. RightRecipient
  BY DEF Init, RightRecipient
<1>6. QED
  BY <1>1, <1>2, <1>3, <1>4, <1>5, Zenon DEF RouterInv

\* Entries and registrations that are given up: the clean-up and a client's end.
LEMMA FewerStep ==
    ASSUME RouterInv, UNCHANGED <<counter, main, inbox, made, atBus, open, stream>>,
           pending' \in [Route -> [Keys -> Entry \cup {None}]],
           \A r \in Route, s \in Keys : pending'[r][s] \in {pending[r][s], None},
           NEW gone \in SUBSET Handles, requests' = RetainRequests(gone)
    PROVE  RouterInv'
<1>1. Typed
  BY Zenon DEF RouterInv
<1>2. /\ requests' \in [Handles -> Request \cup {None}]
      /\ \A h \in Handles : requests'[h] \in {requests[h], None}
  BY <1>1, Zenon DEF Typed, RetainRequests
<1>3. Typed' /\ DeliveryRight' /\ RightRecipient'
  BY <1>1, <1>2, SameDeliveries, Zenon DEF Typed
<1>4. ASSUME NEW x \in Route
      PROVE  RouteRight(pending'[x], atBus'[x], stream'[x])
  <2>1. RouteRight(pending[x], atBus[x], stream[x])
    BY Zenon DEF RouterInv, EntriesRight
  <2>2. QED
    BY <2>1, RouteFewer, Zenon
<1>5. HandlesRight'
  <2>1. PlainReplies(stream["Container"]) /\ HostRight(stream["Host"], requests, open)
    BY Zenon DEF RouterInv, HandlesRight
  <2>2. stream["Host"] \in Seq(Msg)
    BY <1>1, Routes, Zenon DEF Typed
  <2>3. HostRight(stream["Host"], requests', open)
    BY <1>2, <2>1, <2>2, HostFewer, Zenon
  <2>4. QED
    BY <2>1, <2>3, Zenon DEF HandlesRight
<1>6. QED
  BY <1>3, <1>4, <1>5, Zenon DEF RouterInv, EntriesRight

\* cleanup_expired of both tables.
LEMMA CleanupStep ==
    ASSUME RouterInv, CleanupExpired
    PROVE  RouterInv'
<1>1. PICK old \in SUBSET (Route \X Serials), gone \in SUBSET Handles :
         pending' = RetainCalls(old) /\ requests' = RetainRequests(gone)
  BY Zenon DEF CleanupExpired
<1>2. pending \in [Route -> [Keys -> Entry \cup {None}]]
  BY Zenon DEF RouterInv, Typed
<1>3. /\ pending' \in [Route -> [Keys -> Entry \cup {None}]]
      /\ \A r \in Route, s \in Keys : pending'[r][s] \in {pending[r][s], None}
  BY <1>1, <1>2, Zenon DEF RetainCalls
<1>4. UNCHANGED <<counter, main, inbox, made, atBus, open, stream>>
  BY Zenon DEF CleanupExpired, peerVars, busVars
<1>5. QED
  BY <1>1, <1>3, <1>4, FewerStep, Zenon

\* remove_client of the PortalRequestTracker.
LEMMA RemoveRequestsStep ==
    ASSUME RouterInv, NEW c \in Clients, RemoveRequests(c)
    PROVE  RouterInv'
<1>1. PICK gone \in SUBSET Handles : requests' = RetainRequests(gone)
  BY ZenonT(60) DEF RemoveRequests
<1>2. UNCHANGED <<pending, counter, main, inbox, made, atBus, open, stream>>
  BY Zenon DEF RemoveRequests, busVars
<1>3. /\ pending' \in [Route -> [Keys -> Entry \cup {None}]]
      /\ \A r \in Route, s \in Keys : pending'[r][s] \in {pending[r][s], None}
  BY <1>2, Zenon DEF RouterInv, Typed
<1>4. QED
  BY <1>1, <1>2, <1>3, FewerStep, Zenon

\* Connect, Unregister and steps that change nothing.
LEMMA BesideStep ==
    ASSUME RouterInv,
           UNCHANGED <<counter, pending, requests, main, inbox, made, atBus, open, stream>>
    PROVE  RouterInv'
<1>1. Typed'
  BY Zenon DEF RouterInv, Typed
<1>2. QED
  BY <1>1, SameDeliveries, Frame, Zenon

\* A call of the multiplexer itself uses a serial no entry has.
LEMMA OwnCallStep ==
    ASSUME RouterInv, NEW r \in Route, NEW s \in OwnSerials, OwnCall(r, s)
    PROVE  RouterInv'
<1> DEFINE new == [serial |-> s, call |-> Own]
<1>1. /\ atBus' = [atBus EXCEPT ![r] = @ \cup {new}]
      /\ UNCHANGED <<counter, pending, requests, main, inbox, made, open, stream>>
  BY Zenon DEF OwnCall, peerVars
<1>2. Typed
  BY Zenon DEF RouterInv
<1>3. new \in BusCall /\ new.serial = s /\ new.call = Own
  BY Zenon DEF BusCall, Keys
<1> HIDE DEF new
<1>4. atBus' \in [Route -> SUBSET BusCall] /\ \A x \in Route : atBus'[x] \subseteq atBus[x] \cup {new}
  BY <1>1, <1>2, <1>3, Zenon DEF Typed
<1>5. Typed' /\ DeliveryRight' /\ RightRecipient'
  BY <1>1, <1>2, <1>4, SameDeliveries, Zenon DEF Typed
<1>6. HandlesRight'
  BY <1>1, Zenon DEF RouterInv, HandlesRight
<1>7. ASSUME NEW x \in Route
      PROVE  RouteRight(pending'[x], atBus'[x], stream'[x])
  <2>1. RouteRight(pending[x], atBus[x], stream[x])
    BY Zenon DEF RouterInv, EntriesRight
  <2>2. Kept(pending[x][new.serial], new.serial, new.call)
    BY <1>3, Zenon DEF Kept
  <2>3. QED
    BY <1>1, <1>4, <2>1, <2>2, Zenon DEF RouteRight
<1>8. QED
  BY <1>5, <1>6, <1>7, ZenonT(60) DEF RouterInv, EntriesRight

\* A bus answers a call, the portal perhaps with a handle nobody is using.
LEMMA AnswerStep ==
    ASSUME RouterInv, NEW r \in Route, NEW m \in atBus[r], NEW h \in Handles \cup {None},
           Answer(r, m, h)
    PROVE  RouterInv'
<1> DEFINE new == [kind |-> "reply", serial |-> m.serial, call |-> m.call, handle |-> h]
<1>1. /\ atBus' = [atBus EXCEPT ![r] = @ \ {m}]
      /\ stream' = [stream EXCEPT ![r] = Append(@, new)]
      /\ IF h = None THEN open' = open
         ELSE /\ r = "Host" /\ m.call # Own /\ open[h] = None
              /\ open' = [open EXCEPT ![h] = m.call]
      /\ UNCHANGED <<counter, pending, requests, main, inbox, made>>
  BY Zenon DEF Answer, peerVars
<1>2. Typed /\ stream[r] \in Seq(Msg) /\ m \in BusCall
  BY Zenon DEF RouterInv, Typed
<1>3. /\ new \in Msg /\ new.kind = "reply" /\ new.serial = m.serial /\ new.call = m.call
      /\ new.handle = h
  BY <1>2, ZenonT(60) DEF Msg, BusCall
<1> HIDE DEF new
<1>4. /\ atBus' \in [Route -> SUBSET BusCall] /\ stream' \in [Route -> Seq(Msg)]
      /\ atBus'[r] \subseteq atBus[r] /\ stream'[r] = Append(stream[r], new)
      /\ \A x \in Route : x # r => atBus'[x] = atBus[x] /\ stream'[x] = stream[x]
  BY <1>1, <1>2, <1>3 DEF Typed
<1>5. h # None => m.call \in Calls /\ m.call # None /\ h \in Handles
  BY <1>1, <1>2, RouterAssumption DEF BusCall, Calls
<1>6. open' \in [Handles -> Calls \cup {None}]
  BY <1>1, <1>2, <1>5, ZenonT(60) DEF Typed
<1>7. Typed' /\ DeliveryRight' /\ RightRecipient'
  BY <1>1, <1>2, <1>4, <1>6, SameDeliveries, Zenon DEF Typed
<1>8. ASSUME NEW x \in Route
      PROVE  RouteRight(pending'[x], atBus'[x], stream'[x])
  <2>1. RouteRight(pending[x], atBus[x], stream[x])
    BY ZenonT(60) DEF RouterInv, EntriesRight
  <2>2. CASE x # r
    BY <1>1, <1>4, <2>1, <2>2, Zenon
  <2>3. CASE x = r
    <3>1. Kept(pending[r][new.serial], new.serial, new.call)
      BY <1>3, <2>1, <2>3, Zenon DEF RouteRight
    <3>2. RouteRight(pending[r], atBus'[r], Append(stream[r], new))
      BY <1>2, <1>3, <1>4, <2>1, <2>3, <3>1, RouteAppend, ZenonT(60)
    <3>3. QED
      BY <1>1, <1>4, <2>3, <3>2, Zenon
  <2>4. QED
    BY <2>2, <2>3, Zenon
<1>9. HandlesRight'
  <2>1. PlainReplies(stream["Container"]) /\ HostRight(stream["Host"], requests, open)
    BY Zenon DEF RouterInv, HandlesRight
  <2>2. CASE r = "Container"
    <3>1. h = None /\ stream'["Host"] = stream["Host"] /\ open' = open
      BY <1>1, <1>4, <2>2, Routes, Zenon
    <3>2. /\ Len(stream[r]) \in Nat /\ Len(stream'[r]) = Len(stream[r]) + 1
          /\ stream'[r][Len(stream[r]) + 1] = new
          /\ \A i \in 1..Len(stream[r]) : stream'[r][i] = stream[r][i]
      BY <1>2, <1>3, <1>4, QueueSteps
    <3>3. \A i \in 1..Len(stream'[r]) : i \in 1..Len(stream[r]) \/ i = Len(stream[r]) + 1
      BY <3>2
    <3>4. PlainReplies(stream'["Container"])
      BY <1>3, <2>1, <2>2, <3>1, <3>2, <3>3, SMTT(60) DEF PlainReplies
    <3>5. QED
      BY <1>1, <2>1, <3>1, <3>4, Zenon DEF HandlesRight
  <2>3. CASE r = "Host"
    <3>1. /\ stream'["Host"] = Append(stream["Host"], new) /\ stream["Host"] \in Seq(Msg)
          /\ stream'["Container"] = stream["Container"]
      BY <1>2, <1>4, <2>3, Routes, Zenon
    <3>2. /\ h = None => open' = open
          /\ h # None => open[h] = None /\ m.call # Own /\ open'[h] = m.call
          /\ \A g \in Handles : g # h => open'[g] = open[g]
      BY <1>1, <1>2, <1>5, Zenon DEF Typed
    <3>3. HostRight(Append(stream["Host"], new), requests, open')
      BY <1>3, <1>5, <2>1, <3>1, <3>2, HostAppend, ZenonT(60)
    <3>4. QED
      BY <1>1, <2>1, <3>1, <3>3, Zenon DEF HandlesRight
  <2>4. QED
    BY <2>2, <2>3, Routes, Zenon
<1>10. QED
  BY <1>7, <1>8, <1>9, Zenon DEF RouterInv, EntriesRight

\* The portal responds on a handle it has granted.
LEMMA RespondStep ==
    ASSUME RouterInv, NEW h \in Handles, Respond(h)
    PROVE  RouterInv'
<1> DEFINE new == [kind |-> "response", serial |-> None, call |-> open[h], handle |-> h]
<1>1. /\ open[h] # None /\ open' = [open EXCEPT ![h] = None]
      /\ stream' = [stream EXCEPT !["Host"] = Append(@, new)]
      /\ UNCHANGED <<counter, pending, requests, main, inbox, made, atBus>>
  BY Zenon DEF Respond, peerVars
<1>2. Typed /\ stream["Host"] \in Seq(Msg)
  BY Routes, Zenon DEF RouterInv, Typed
<1>3. open[h] \in Calls /\ open[h] # Own
  <2>1. open[h] \in Calls
    BY <1>1, <1>2, Zenon DEF Typed
  <2>2. Own \notin Calls
    BY RouterAssumption DEF Calls
  <2>3. QED
    BY <2>1, <2>2, Zenon
<1>4. /\ new \in Msg /\ new.kind = "response" /\ new.call = open[h] /\ new.handle = h
  BY <1>3, Zenon DEF Msg
<1> HIDE DEF new
<1>5. /\ stream' \in [Route -> Seq(Msg)]
      /\ stream'["Host"] = Append(stream["Host"], new)
      /\ stream'["Container"] = stream["Container"]
  BY <1>1, <1>2, <1>4, Routes DEF Typed
<1>6. /\ open' \in [Handles -> Calls \cup {None}] /\ open'[h] = None
      /\ \A g \in Handles : g # h => open'[g] = open[g]
  BY <1>1, <1>2, Zenon DEF Typed
<1>7. Typed' /\ DeliveryRight' /\ RightRecipient'
  BY <1>1, <1>2, <1>5, <1>6, SameDeliveries, Zenon DEF Typed
<1>8. ASSUME NEW x \in Route
      PROVE  RouteRight(pending'[x], atBus'[x], stream'[x])
  <2>1. RouteRight(pending[x], atBus[x], stream[x])
    BY Zenon DEF RouterInv, EntriesRight
  <2>2. CASE x = "Container"
    BY <1>1, <1>5, <2>1, <2>2, Zenon
  <2>3. CASE x = "Host"
    <3>1. RouteRight(pending[x], atBus[x], Append(stream["Host"], new))
      BY <1>2, <1>4, <2>1, <2>3, RouteAppend, Zenon
    <3>2. QED
      BY <1>1, <1>5, <2>3, <3>1, Zenon
  <2>4. QED
    BY <2>2, <2>3, Routes, Zenon
<1>9. HandlesRight'
  <2>1. PlainReplies(stream["Container"]) /\ HostRight(stream["Host"], requests, open)
    BY Zenon DEF RouterInv, HandlesRight
  <2>2. new.handle # None
    BY <1>4, RouterAssumption, Zenon
  <2>3. HostRight(Append(stream["Host"], new), requests, open')
    BY <1>1, <1>2, <1>3, <1>4, <1>6, <2>1, <2>2, HostAppend, ZenonT(60)
  <2>4. QED
    BY <1>1, <1>5, <2>1, <2>3, Zenon DEF HandlesRight
<1>10. QED
  BY <1>7, <1>8, <1>9, Zenon DEF RouterInv, EntriesRight

\* Every step keeps the invariant.
LEMMA NextStep ==
    ASSUME RouterInv, OwnApart, [Next]_vars
    PROVE  RouterInv'
<1>1. CASE Deliver
  BY <1>1, DeliverStep, Zenon
<1>2. CASE CleanupExpired
  BY <1>2, CleanupStep, Zenon
<1>3. ASSUME NEW r \in Route, HandleReply(r) \/ HandleResponse(r)
      PROVE  RouterInv'
  BY <1>3, HandleReplyStep, HandleResponseStep, Zenon
<1>4. ASSUME NEW c \in Clients, Connect(c) \/ Unregister(c)
      PROVE  RouterInv'
  <2>1. UNCHANGED <<counter, pending, requests, main, inbox, made, atBus, open, stream>>
    BY <1>4, Zenon DEF Connect, Unregister, busVars
  <2>2. QED
    BY <2>1, BesideStep, Zenon
<1>5. ASSUME NEW c \in Clients, RemoveRequests(c)
      PROVE  RouterInv'
  BY <1>5, RemoveRequestsStep, Zenon
<1>6. ASSUME NEW c \in Clients, NEW r \in Route, ForwardMethodCall(c, r) \/ ForwardFails(c, r)
      PROVE  RouterInv'
  BY <1>6, ForwardStep, ForwardFailsStep, Zenon
<1>7. ASSUME NEW r \in Route, NEW s \in OwnSerials, OwnCall(r, s)
      PROVE  RouterInv'
  BY <1>7, OwnCallStep, Zenon
<1>8. ASSUME NEW r \in Route, NEW m \in atBus[r], NEW h \in Handles \cup {None}, Answer(r, m, h)
      PROVE  RouterInv'
  BY <1>8, AnswerStep, Zenon
<1>9. ASSUME NEW h \in Handles, Respond(h)
      PROVE  RouterInv'
  BY <1>9, RespondStep, Zenon
<1>10. CASE UNCHANGED vars
  <2>1. UNCHANGED <<counter, pending, requests, main, inbox, made, atBus, open, stream>>
    BY <1>10, Zenon DEF vars
  <2>2. QED
    BY <2>1, BesideStep, Zenon
<1>11. QED
  BY <1>1, <1>2, <1>3, <1>4, <1>5, <1>6, <1>7, <1>8, <1>9, <1>10, Zenon DEF Next, MainStep

-----------------------------------------------------------------------------
\* The invariant of the router: an entry of the SerialMap, as long as there is
\* one, leads to the client whose call is under way with that serial, and a handle
\* is registered, if at all, for the client whose request the portal is serving.
THEOREM RouterInvariant == OwnApart => (Spec => []RouterInv)
<1> SUFFICES ASSUME OwnApart
             PROVE  Spec => []RouterInv
  BY Zenon
<1>1. Init => RouterInv
  BY InitStep, Zenon
<1>2. RouterInv /\ [Next]_vars => RouterInv'
  BY NextStep, Zenon
<1>3. QED
  BY <1>1, <1>2, PTL DEF Spec

\* Whatever the clients, the calls, the order of the answers, the entries that
\* expire and the messages that cannot be rewritten: handle_bus_message delivers a
\* reply, and a tracked portal Response, only to the client it is for, provided
\* zbus never uses a serial of the SerialGenerator for the multiplexer's own calls.
THEOREM AlwaysRightRecipient == OwnApart => (Spec => []RightRecipient)
<1> SUFFICES ASSUME OwnApart
             PROVE  Spec => []RightRecipient
  BY Zenon
<1>1. Spec => []RouterInv
  BY RouterInvariant, Zenon
<1>2. RouterInv => RightRecipient
  BY Zenon DEF RouterInv
<1>3. QED
  BY <1>1, <1>2, PTL

-----------------------------------------------------------------------------
(* Answers and Responses: a connected client has exactly one answer to each  *)
(* of its calls, and Responses are not handed to other clients.  RouterInv   *)
(* says whom an entry leads to; the inductive invariant of this part says    *)
(* that the entry is there.                                                  *)

\* The places of Sites, one by one, in tables p, on buses bus, in streams q, in the
\* hands of a loop mn and in inboxes box.
Entered(p, r, s, call) == p[r][s] = [client |-> call[1], serial |-> call[2]]
BusSite(p, bus, c, k, r, s) ==
    [serial |-> s, call |-> <<c, k>>] \in bus[r] /\ Entered(p, r, s, <<c, k>>)
StreamSite(p, q, c, k, r, i) ==
    /\ i \in 1..Len(q[r]) /\ q[r][i].kind = "reply" /\ q[r][i].call = <<c, k>>
    /\ Entered(p, r, q[r][i].serial, <<c, k>>)
MainSite(mn, c, k) == mn # Idle /\ AnswerTo(mn.item, <<c, k>>) /\ c \in mn.to
InboxSite(box, c, k, i) == i \in 1..Len(box[c]) /\ AnswerTo(box[c][i], <<c, k>>)

RepliesIn(q, r) == {i \in 1..Len(q[r]) : q[r][i].kind = "reply"}
SitesIn(p, bus, q, mn, box, c, k) ==
    (UNION {{<<"bus", r, m.serial>> :
              m \in {x \in bus[r] : x.call = <<c, k>> /\ Entered(p, r, x.serial, <<c, k>>)}} :
            r \in Route})
    \cup (UNION {{<<"stream", r, i>> :
              i \in {j \in RepliesIn(q, r) : /\ q[r][j].call = <<c, k>>
                                             /\ Entered(p, r, q[r][j].serial, <<c, k>>)}} :
            r \in Route})
    \cup {<<"main", "", 0>> :
              m \in {x \in {mn} : x # Idle /\ AnswerTo(x.item, <<c, k>>) /\ c \in x.to}}
    \cup {<<"inbox", "", i>> : i \in {j \in 1..Len(box[c]) : AnswerTo(box[c][j], <<c, k>>)}}

\* A call is never in two places, and in none before it is made; a client that is
\* connected finds its calls in one.
AnswerOf(c, k) ==
    /\ \A x, y \in Sites(c, k) : x = y
    /\ k > made[c] => Sites(c, k) = {}
    /\ c \in clients /\ k <= made[c] /\ <<c, k>> \notin lapsed => Sites(c, k) # {}
AnswersInv == \A c \in Clients, k \in 1..MaxCalls : AnswerOf(c, k)

\* A client calls when it has connected, and is in the map before it cleans up.
PeersInv ==
    /\ clients \subseteq Clients
    /\ task \in [Clients -> {"absent", "running", "portal", "done"}]
    /\ \A c \in Clients :
          (task[c] = "absent" => made[c] = 0) /\ (c \in clients => task[c] = "running")

\* A call under way has its entry, unless that expired.
LiveEntry(p, call, l) == call # Own => p # None \/ call \in l
RouteLive(p, bus, q, l) ==
    /\ \A m \in bus : LiveEntry(p[m.serial], m.call, l)
    /\ \A i \in 1..Len(q) : q[i].kind = "reply" => LiveEntry(p[q[i].serial], q[i].call, l)
LiveInv == \A r \in Route : RouteLive(pending[r], atBus[r], stream[r], lapsed)

\* A request whose handle is in no message before its Response is registered for the
\* call that made it, unless its entry was given up.
Tracked(entry, call, l) == (entry # None /\ entry.call = call) \/ call \in l
Unnamed(q, h, n) == \A j \in 1..n : q[j].handle # h
HostTracked(q, reqs, opn, l) ==
    /\ \A i \in 1..Len(q) : q[i].kind = "response" /\ Unnamed(q, q[i].handle, i - 1) =>
                               Tracked(reqs[q[i].handle], q[i].call, l)
    /\ \A h \in Handles : opn[h] # None /\ Unnamed(q, h, Len(q)) => Tracked(reqs[h], opn[h], l)
TrackedInv == HostTracked(stream["Host"], requests, open, lapsed)

\* What goes to the match rules has no entry any more.
BroadcastInv ==
    /\ main.pc = "deliver" /\ main.item.kind = "broadcast" => main.item.call \in lapsed
    /\ \A c \in Clients : \A i \in 1..Len(inbox[c]) :
          inbox[c][i].kind = "broadcast" => inbox[c][i].call \in lapsed

AllAnswersInv == RouterInv /\ PeersInv /\ AnswersInv /\ LiveInv /\ TrackedInv /\ BroadcastInv

-----------------------------------------------------------------------------
(* The places of a call.                                                     *)

\* They are the places of Sites.
LEMMA SitesAre ==
    \A c, k : /\ Sites(c, k) = SitesIn(pending, atBus, stream, main, inbox, c, k)
              /\ Sites(c, k)' = SitesIn(pending', atBus', stream', main', inbox', c, k)
  BY ZenonT(30) DEF Sites, SitesIn, Recorded, Entered, Replies, RepliesIn

\* The four kinds of place.
AtBus(r, s) == <<"bus", r, s>>
InStream(r, i) == <<"stream", r, i>>
InMain == <<"main", "", 0>>
InInbox(i) == <<"inbox", "", i>>

\* Places are told apart by their kind, their bus and their number.
LEMMA BusPlaces == \A r, s, r1, s1 : AtBus(r, s) = AtBus(r1, s1) => r = r1 /\ s = s1
<1>1. \A r, s : AtBus(r, s)[2] = r /\ AtBus(r, s)[3] = s
  BY Zenon DEF AtBus
<1> QED BY <1>1

\* So are those of the streams ...
LEMMA StreamPlaces == \A r, i, r1, i1 : InStream(r, i) = InStream(r1, i1) => r = r1 /\ i = i1
<1>1. \A r, i : InStream(r, i)[2] = r /\ InStream(r, i)[3] = i
  BY Zenon DEF InStream
<1> QED BY <1>1

\* ... and of an inbox.
LEMMA InboxPlaces == \A i, i1 : InInbox(i) = InInbox(i1) => i = i1
<1>1. \A i : InInbox(i)[3] = i
  BY Zenon DEF InInbox
<1> QED BY <1>1

\* No place is of two kinds.
LEMMA KindsDiffer ==
    /\ \A r, s, r1, i1 : AtBus(r, s) # InStream(r1, i1)
    /\ \A r, s : AtBus(r, s) # InMain
    /\ \A r, s, i1 : AtBus(r, s) # InInbox(i1)
    /\ \A r, i : InStream(r, i) # InMain
    /\ \A r, i, i1 : InStream(r, i) # InInbox(i1)
    /\ \A i1 : InMain # InInbox(i1)
<1>1. \A r, s : AtBus(r, s)[1] = "bus"
  BY Zenon DEF AtBus
<1>2. \A r, i : InStream(r, i)[1] = "stream"
  BY Zenon DEF InStream
<1>3. \A i : InInbox(i)[1] = "inbox"
  BY Zenon DEF InInbox
<1>4. InMain[1] = "main"
  BY Zenon DEF InMain
<1>5. /\ \A r, s, r1, i1 : AtBus(r, s) # InStream(r1, i1)
      /\ \A r, s : AtBus(r, s) # InMain
      /\ \A r, s, i1 : AtBus(r, s) # InInbox(i1)
  BY <1>1, <1>2, <1>3, <1>4, Zenon
<1>6. /\ \A r, i : InStream(r, i) # InMain
      /\ \A r, i, i1 : InStream(r, i) # InInbox(i1)
      /\ \A i1 : InMain # InInbox(i1)
  BY <1>2, <1>3, <1>4, Zenon
<1> QED BY <1>5, <1>6, Zenon

\* What is in the set of places, form by form.
Forms(X, p, bus, q, mn, box, c, k) ==
    /\ \A r \in Route, s \in Keys : AtBus(r, s) \in X <=> BusSite(p, bus, c, k, r, s)
    /\ \A r \in Route, i \in Nat : InStream(r, i) \in X <=> StreamSite(p, q, c, k, r, i)
    /\ InMain \in X <=> MainSite(mn, c, k)
    /\ \A i \in Nat : InInbox(i) \in X <=> InboxSite(box, c, k, i)
    /\ \A y \in X : \/ \E r \in Route, s \in Keys : y = AtBus(r, s)
                    \/ \E r \in Route, i \in Nat : y = InStream(r, i)
                    \/ y = InMain
                    \/ \E i \in Nat : y = InInbox(i)

\* Sites has these forms and no other.
LEMMA SiteForms ==
    ASSUME NEW p, NEW bus \in [Route -> SUBSET BusCall], NEW q \in [Route -> Seq(Msg)],
           NEW mn, NEW box \in [Clients -> Seq(Item)],
           NEW c \in Clients, NEW k,
           NEW X, X = SitesIn(p, bus, q, mn, box, c, k)
    PROVE  Forms(X, p, bus, q, mn, box, c, k)
<1>0. ASSUME NEW y
      PROVE  y \in X <=>
              \/ \E r \in Route, s \in Keys : y = AtBus(r, s) /\ BusSite(p, bus, c, k, r, s)
              \/ \E r \in Route, i \in Nat : y = InStream(r, i) /\ StreamSite(p, q, c, k, r, i)
              \/ y = InMain /\ MainSite(mn, c, k)
              \/ \E i \in Nat : y = InInbox(i) /\ InboxSite(box, c, k, i)
  <2> DEFINE B(r) == {<<"bus", r, m.serial>> :
                m \in {x \in bus[r] : x.call = <<c, k>> /\ Entered(p, r, x.serial, <<c, k>>)}}
             S(r) == {<<"stream", r, i>> :
                i \in {j \in RepliesIn(q, r) : /\ q[r][j].call = <<c, k>>
                                               /\ Entered(p, r, q[r][j].serial, <<c, k>>)}}
             M == {<<"main", "", 0>> :
                m \in {x \in {mn} : x # Idle /\ AnswerTo(x.item, <<c, k>>) /\ c \in x.to}}
             I == {<<"inbox", "", i>> : i \in {j \in 1..Len(box[c]) : AnswerTo(box[c][j], <<c, k>>)}}
             UB == UNION {B(r) : r \in Route}
             US == UNION {S(r) : r \in Route}
  <2>1. X = UB \cup US \cup M \cup I
    BY Zenon DEF SitesIn
  <2>2. ASSUME NEW r \in Route
        PROVE  y \in B(r) <=> \E s \in Keys : y = <<"bus", r, s>> /\ BusSite(p, bus, c, k, r, s)
    <3>1. \A m \in bus[r] : m.serial \in Keys /\ m = [serial |-> m.serial, call |-> m.call]
      BY DEF BusCall
    <3>2. ASSUME y \in B(r)
          PROVE  \E s \in Keys : y = <<"bus", r, s>> /\ BusSite(p, bus, c, k, r, s)
      <4>1. PICK m \in bus[r] : /\ y = <<"bus", r, m.serial>> /\ m.call = <<c, k>>
                                /\ Entered(p, r, m.serial, <<c, k>>)
        BY <3>2, Zenon
      <4> QED BY <3>1, <4>1, Zenon DEF BusSite
    <3>3. ASSUME NEW s \in Keys, y = <<"bus", r, s>>, BusSite(p, bus, c, k, r, s)
          PROVE  y \in B(r)
      <4> DEFINE m == [serial |-> s, call |-> <<c, k>>]
      <4>1. m \in bus[r] /\ m.serial = s /\ m.call = <<c, k>> /\ Entered(p, r, m.serial, <<c, k>>)
        BY <3>3, Zenon DEF BusSite
      <4> HIDE DEF m
      <4> QED BY <3>3, <4>1, Zenon
    <3> QED BY <3>2, <3>3, Zenon
  <2>3. ASSUME NEW r \in Route
        PROVE  y \in S(r) <=> \E i \in Nat : y = <<"stream", r, i>> /\ StreamSite(p, q, c, k, r, i)
    <3>1. \A i : StreamSite(p, q, c, k, r, i) <=>
                   /\ i \in RepliesIn(q, r) /\ q[r][i].call = <<c, k>>
                   /\ Entered(p, r, q[r][i].serial, <<c, k>>)
      BY Zenon DEF StreamSite, RepliesIn
    <3>2. RepliesIn(q, r) \subseteq Nat
      BY DEF RepliesIn
    <3> QED BY <3>1, <3>2, Zenon
  <2>4. y \in M <=> y = <<"main", "", 0>> /\ MainSite(mn, c, k)
    BY Zenon DEF MainSite
  <2>5. y \in I <=> \E i \in Nat : y = <<"inbox", "", i>> /\ InboxSite(box, c, k, i)
    <3>1. \A i : InboxSite(box, c, k, i) <=>
                   i \in 1..Len(box[c]) /\ AnswerTo(box[c][i], <<c, k>>)
      BY Zenon DEF InboxSite
    <3>2. 1..Len(box[c]) \subseteq Nat
      OBVIOUS
    <3> QED BY <3>1, <3>2, Zenon
  <2>6. /\ y \in UB <=> \E r \in Route : y \in B(r)
        /\ y \in US <=> \E r \in Route : y \in S(r)
    <3> HIDE DEF B, S
    <3> QED BY Zenon
  <2>7. y \in X <=>
           (\E r \in Route : y \in B(r)) \/ (\E r \in Route : y \in S(r)) \/ y \in M \/ y \in I
    <3> HIDE DEF B, S, M, I, UB, US
    <3>1. y \in X <=> y \in UB \/ y \in US \/ y \in M \/ y \in I
      BY <2>1, Zenon
    <3> QED BY <2>6, <3>1, Zenon
  <2> HIDE DEF B, S, M, I
  <2> QED BY <2>2, <2>3, <2>4, <2>5, <2>7, Zenon DEF AtBus, InStream, InMain, InInbox
<1>1. ASSUME NEW r \in Route, NEW s \in Keys
      PROVE  AtBus(r, s) \in X <=> BusSite(p, bus, c, k, r, s)
  <2>1. ASSUME AtBus(r, s) \in X PROVE BusSite(p, bus, c, k, r, s)
    <3>0. \/ \E r1 \in Route, s1 \in Keys : AtBus(r, s) = AtBus(r1, s1) /\ BusSite(p, bus, c, k, r1, s1)
          \/ \E r1 \in Route, i1 \in Nat : AtBus(r, s) = InStream(r1, i1) /\ StreamSite(p, q, c, k, r1, i1)
          \/ AtBus(r, s) = InMain /\ MainSite(mn, c, k)
          \/ \E i1 \in Nat : AtBus(r, s) = InInbox(i1) /\ InboxSite(box, c, k, i1)
      BY <1>0, <2>1, Zenon
    <3>1. PICK r1 \in Route, s1 \in Keys :
             AtBus(r, s) = AtBus(r1, s1) /\ BusSite(p, bus, c, k, r1, s1)
      BY <3>0, KindsDiffer, Zenon
    <3>2. r = r1 /\ s = s1
      BY <3>1, BusPlaces
    <3> QED BY <3>1, <3>2, Zenon
  <2>2. ASSUME BusSite(p, bus, c, k, r, s) PROVE AtBus(r, s) \in X
    BY <1>0, <2>2, Zenon
  <2> QED BY <2>1, <2>2, Zenon
<1>2. ASSUME NEW r \in Route, NEW i \in Nat
      PROVE  InStream(r, i) \in X <=> StreamSite(p, q, c, k, r, i)
  <2>1. ASSUME InStream(r, i) \in X PROVE StreamSite(p, q, c, k, r, i)
    <3>0. \/ \E r1 \in Route, s1 \in Keys : InStream(r, i) = AtBus(r1, s1) /\ BusSite(p, bus, c, k, r1, s1)
          \/ \E r1 \in Route, i1 \in Nat : InStream(r, i) = InStream(r1, i1) /\ StreamSite(p, q, c, k, r1, i1)
          \/ InStream(r, i) = InMain /\ MainSite(mn, c, k)
          \/ \E i1 \in Nat : InStream(r, i) = InInbox(i1) /\ InboxSite(box, c, k, i1)
      BY <1>0, <2>1, Zenon
    <3>1. PICK r1 \in Route, i1 \in Nat :
             InStream(r, i) = InStream(r1, i1) /\ StreamSite(p, q, c, k, r1, i1)
      BY <3>0, KindsDiffer, Zenon
    <3>2. r = r1 /\ i = i1
      BY <3>1, StreamPlaces
    <3> QED BY <3>1, <3>2, Zenon
  <2>2. ASSUME StreamSite(p, q, c, k, r, i) PROVE InStream(r, i) \in X
    BY <1>0, <2>2, Zenon
  <2> QED BY <2>1, <2>2, Zenon
<1>3. InMain \in X <=> MainSite(mn, c, k)
  BY <1>0, KindsDiffer, BusPlaces, InboxPlaces, Zenon
<1>4. ASSUME NEW i \in Nat
      PROVE  InInbox(i) \in X <=> InboxSite(box, c, k, i)
  <2>1. ASSUME InInbox(i) \in X PROVE InboxSite(box, c, k, i)
    <3>0. \/ \E r1 \in Route, s1 \in Keys : InInbox(i) = AtBus(r1, s1) /\ BusSite(p, bus, c, k, r1, s1)
          \/ \E r1 \in Route, i1 \in Nat : InInbox(i) = InStream(r1, i1) /\ StreamSite(p, q, c, k, r1, i1)
          \/ InInbox(i) = InMain /\ MainSite(mn, c, k)
          \/ \E i1 \in Nat : InInbox(i) = InInbox(i1) /\ InboxSite(box, c, k, i1)
      BY <1>0, <2>1, Zenon
    <3>1. PICK i1 \in Nat : InInbox(i) = InInbox(i1) /\ InboxSite(box, c, k, i1)
      BY <3>0, KindsDiffer, Zenon
    <3>2. i = i1
      BY <3>1, InboxPlaces, Zenon
    <3> QED BY <3>1, <3>2, Zenon
  <2>2. ASSUME InboxSite(box, c, k, i) PROVE InInbox(i) \in X
    BY <1>0, <2>2, Zenon
  <2> QED BY <2>1, <2>2, Zenon
<1>5. ASSUME NEW y \in X
      PROVE  \/ \E r \in Route, s \in Keys : y = AtBus(r, s)
             \/ \E r \in Route, i \in Nat : y = InStream(r, i)
             \/ y = InMain
             \/ \E i \in Nat : y = InInbox(i)
  BY <1>0, Zenon
<1> QED BY <1>1, <1>2, <1>3, <1>4, <1>5, Zenon DEF Forms

\* What the invariant says of two places of one call.
LEMMA OneSite ==
    ASSUME AnswersInv, NEW c \in Clients, NEW k \in 1..MaxCalls,
           NEW x \in Sites(c, k), NEW y \in Sites(c, k)
    PROVE  x = y
  BY Zenon DEF AnswersInv, AnswerOf

\* The invariant after a step that moves a call from its place to another, or takes
\* it out of its place for a reason.
LEMMA AnswersMoved ==
    ASSUME AnswersInv, NEW c \in Clients, NEW k \in 1..MaxCalls,
           made' = made, clients' \subseteq clients, lapsed \subseteq lapsed',
           NEW G,
           \A y \in Sites(c, k)' : \E x \in Sites(c, k) : y = G[x],
           \A x \in Sites(c, k) : \/ G[x] \in Sites(c, k)'
                                  \/ c \notin clients' \/ <<c, k>> \in lapsed'
    PROVE  AnswerOf(c, k)'
<1>0. AnswerOf(c, k)
  BY Zenon DEF AnswersInv
<1>1. \A x, y \in Sites(c, k) : x = y
  BY <1>0, Zenon DEF AnswerOf
<1>2. \A x, y \in Sites(c, k)' : x = y
  BY <1>1, Zenon
<1>3. k > made'[c] => Sites(c, k)' = {}
  BY <1>0, Zenon DEF AnswerOf
<1>4. c \in clients' /\ k <= made'[c] /\ <<c, k>> \notin lapsed' => Sites(c, k)' # {}
  BY <1>0, Zenon DEF AnswerOf
<1> QED BY <1>2, <1>3, <1>4, Zenon DEF AnswerOf

\* Or that leaves it where it is.
LEMMA AnswersStay ==
    ASSUME AnswersInv, NEW c \in Clients, NEW k \in 1..MaxCalls,
           made' = made, clients' \subseteq clients, lapsed \subseteq lapsed',
           Sites(c, k)' = Sites(c, k)
    PROVE  AnswerOf(c, k)'
<1>1. AnswerOf(c, k)
  BY Zenon DEF AnswersInv
<1>2. \A x, y \in Sites(c, k)' : x = y
  BY <1>1, Zenon DEF AnswerOf
<1> QED BY <1>1, <1>2, Zenon DEF AnswerOf

\* When the first message of a stream is read, the others move up.
MoveUp(r, x) == IF x[1] = "stream" /\ x[2] = r THEN InStream(r, x[3] - 1) ELSE x

\* What MoveUp does to a place.
LEMMA MovedUp ==
    /\ \A r, i : MoveUp(r, InStream(r, i)) = InStream(r, i - 1)
    /\ \A r, r1, i : r # r1 => MoveUp(r, InStream(r1, i)) = InStream(r1, i)
    /\ \A r, r1, s : MoveUp(r, AtBus(r1, s)) = AtBus(r1, s)
    /\ \A r : MoveUp(r, InMain) = InMain
    /\ \A r, i : MoveUp(r, InInbox(i)) = InInbox(i)
<1>1. \A r, s : AtBus(r, s)[1] = "bus"
  BY Zenon DEF AtBus
<1>2. \A r, i : InStream(r, i)[1] = "stream" /\ InStream(r, i)[2] = r /\ InStream(r, i)[3] = i
  BY Zenon DEF InStream
<1>3. \A i : InInbox(i)[1] = "inbox"
  BY Zenon DEF InInbox
<1>4. InMain[1] = "main"
  BY Zenon DEF InMain
<1>5. \A r, i : MoveUp(r, InStream(r, i)) = InStream(r, i - 1)
  BY <1>2, Zenon DEF MoveUp
<1>6. \A r, r1, i : r # r1 => MoveUp(r, InStream(r1, i)) = InStream(r1, i)
  BY <1>2, Zenon DEF MoveUp
<1>7. \A r, r1, s : MoveUp(r, AtBus(r1, s)) = AtBus(r1, s)
  BY <1>1, Zenon DEF MoveUp
<1>8. (\A r : MoveUp(r, InMain) = InMain) /\ \A r, i : MoveUp(r, InInbox(i)) = InInbox(i)
  BY <1>3, <1>4, Zenon DEF MoveUp
<1> QED BY <1>5, <1>6, <1>7, <1>8, Zenon

\* The places of a call now and after a step.
LEMMA SitesNow ==
    ASSUME Typed, NEW c \in Clients, NEW k
    PROVE  Forms(Sites(c, k), pending, atBus, stream, main, inbox, c, k)
<1>1. /\ atBus \in [Route -> SUBSET BusCall] /\ stream \in [Route -> Seq(Msg)]
      /\ inbox \in [Clients -> Seq(Item)]
  BY Zenon DEF Typed
<1>2. Sites(c, k) = SitesIn(pending, atBus, stream, main, inbox, c, k)
  BY SitesAre, Zenon
<1> QED BY <1>1, <1>2, SiteForms, Zenon

\* The same for the next state.
LEMMA SitesNext ==
    ASSUME Typed', NEW c \in Clients, NEW k
    PROVE  Forms(Sites(c, k)', pending', atBus', stream', main', inbox', c, k)
<1>1. /\ atBus' \in [Route -> SUBSET BusCall] /\ stream' \in [Route -> Seq(Msg)]
      /\ inbox' \in [Clients -> Seq(Item)]
  BY Zenon DEF Typed
<1>2. Sites(c, k)' = SitesIn(pending', atBus', stream', main', inbox', c, k)
  BY SitesAre, Zenon
<1> QED BY <1>1, <1>2, SiteForms, Zenon

\* The call stays where it is.
LEMMA SameSites ==
    ASSUME Typed, Typed', NEW c \in Clients, NEW k,
           \A r \in Route, s \in Keys :
              BusSite(pending', atBus', c, k, r, s) <=> BusSite(pending, atBus, c, k, r, s),
           \A r \in Route, i \in Nat :
              StreamSite(pending', stream', c, k, r, i) <=> StreamSite(pending, stream, c, k, r, i),
           MainSite(main', c, k) <=> MainSite(main, c, k),
           \A i \in Nat : InboxSite(inbox', c, k, i) <=> InboxSite(inbox, c, k, i)
    PROVE  Sites(c, k)' = Sites(c, k)
<1>0. /\ Forms(Sites(c, k), pending, atBus, stream, main, inbox, c, k)
      /\ Forms(Sites(c, k)', pending', atBus', stream', main', inbox', c, k)
  BY SitesNow, SitesNext, Zenon
<1>1. ASSUME NEW y \in Sites(c, k)' PROVE y \in Sites(c, k)
  BY <1>0, Zenon DEF Forms
<1>2. ASSUME NEW y \in Sites(c, k) PROVE y \in Sites(c, k)'
  BY <1>0, Zenon DEF Forms
<1> QED BY <1>1, <1>2, Zenon

-----------------------------------------------------------------------------
(* What each step does to the places.                                        *)

\* A call of a client is not one of the multiplexer's own.
LEMMA CallNotOwn ==
    ASSUME NEW c \in Clients, NEW k \in 1..MaxCalls
    PROVE  <<c, k>> # Own /\ <<c, k>> # None /\ <<c, k>> \in Calls
<1>1. <<c, k>> \in Clients \X Nat
  BY RouterAssumption
<1> QED BY <1>1, RouterAssumption, Zenon DEF Calls

\* A step that touches neither entries nor messages leaves every call in its place.
LEMMA BesideAnswers ==
    ASSUME RouterInv, RouterInv', AnswersInv,
           UNCHANGED <<pending, atBus, stream, main, inbox, made>>,
           clients' \subseteq clients, lapsed \subseteq lapsed'
    PROVE  AnswersInv'
<1> SUFFICES ASSUME NEW c \in Clients, NEW k \in 1..MaxCalls
             PROVE  AnswerOf(c, k)'
  BY Zenon DEF AnswersInv
<1>1. Sites(c, k)' = Sites(c, k)
  BY SitesAre, Zenon
<1> QED BY <1>1, AnswersStay, Zenon

\* A call of the multiplexer's own is in no place.
LEMMA OwnCallAnswers ==
    ASSUME RouterInv, RouterInv', AnswersInv, NEW r \in Route, NEW s \in OwnSerials, OwnCall(r, s)
    PROVE  AnswersInv'
<1> SUFFICES ASSUME NEW c \in Clients, NEW k \in 1..MaxCalls
             PROVE  AnswerOf(c, k)'
  BY Zenon DEF AnswersInv
<1>0. UNCHANGED <<pending, stream, main, inbox, made, clients, lapsed>>
  BY Zenon DEF OwnCall, peerVars, keptVars
<1>1. atBus' = [atBus EXCEPT ![r] = @ \cup {[serial |-> s, call |-> Own]}] /\ Typed /\ Typed'
  BY Zenon DEF OwnCall, RouterInv
<1>2. ASSUME NEW r1 \in Route, NEW s1 \in Keys
      PROVE  BusSite(pending', atBus', c, k, r1, s1) <=> BusSite(pending, atBus, c, k, r1, s1)
  <2>1. [serial |-> s1, call |-> <<c, k>>] # [serial |-> s, call |-> Own]
    BY CallNotOwn, Zenon
  <2> QED BY <1>0, <1>1, <2>1, Zenon DEF BusSite, Typed
<1>3. Sites(c, k)' = Sites(c, k)
  BY <1>0, <1>1, <1>2, SameSites, Zenon
<1> QED BY <1>0, <1>3, AnswersStay, Zenon

\* A Response is no answer to a call.
LEMMA RespondAnswers ==
    ASSUME RouterInv, RouterInv', AnswersInv, NEW h \in Handles, Respond(h)
    PROVE  AnswersInv'
<1> SUFFICES ASSUME NEW c \in Clients, NEW k \in 1..MaxCalls
             PROVE  AnswerOf(c, k)'
  BY Zenon DEF AnswersInv
<1> DEFINE q == stream["Host"]
           m == [kind |-> "response", serial |-> None, call |-> open[h], handle |-> h]
<1>0. UNCHANGED <<pending, atBus, main, inbox, made, clients, lapsed>>
  BY Zenon DEF Respond, peerVars, keptVars
<1>1. Typed /\ Typed' /\ stream' = [stream EXCEPT !["Host"] = Append(q, m)]
  BY Zenon DEF Respond, RouterInv
<1>2. q \in Seq(Msg) /\ m \in Msg
  BY <1>1, Zenon DEF Respond, Typed, Msg, Route
<1>3. ASSUME NEW r1 \in Route, NEW i \in Nat
      PROVE  StreamSite(pending', stream', c, k, r1, i) <=> StreamSite(pending, stream, c, k, r1, i)
  <2>1. CASE r1 = "Host"
    <3>1. stream'["Host"] = Append(q, m)
      BY <1>1, Routes, Zenon DEF Typed
    <3>2. m.kind # "reply"
      BY Zenon
    <3> HIDE DEF m
    <3>3. /\ Len(q) \in Nat /\ Len(stream'[r1]) = Len(q) + 1 /\ stream'[r1][Len(q) + 1] = m
          /\ \A j \in 1..Len(q) : stream'[r1][j] = q[j]
      <4> DEFINE t == Append(q, m)
      <4>1. /\ Len(q) \in Nat /\ Len(t) = Len(q) + 1 /\ t[Len(q) + 1] = m
            /\ \A j \in 1..Len(q) : t[j] = q[j]
        BY <1>2, QueueSteps, Zenon
      <4> QED BY <2>1, <3>1, <4>1, Zenon
    <3>4. i \in 1..Len(stream'[r1]) <=> i \in 1..Len(q) \/ i = Len(q) + 1
      BY <3>3, PlacesGrow, Zenon
    <3>5. i \in 1..Len(stream'[r1]) /\ stream'[r1][i].kind = "reply" =>
             i \in 1..Len(q) /\ stream'[r1][i] = q[i]
      BY <3>2, <3>3, <3>4, Zenon
    <3> QED BY <1>0, <2>1, <3>3, <3>4, <3>5, Zenon DEF StreamSite
  <2>2. CASE r1 # "Host"
    BY <1>0, <1>1, <2>2, Zenon DEF StreamSite, Typed
  <2> QED BY <2>1, <2>2, Zenon
<1>4. Sites(c, k)' = Sites(c, k)
  BY <1>0, <1>1, <1>3, SameSites, Zenon
<1> QED BY <1>0, <1>4, AnswersStay, Zenon

\* The answer in the hands of the event loop is put in the caller's inbox, if the
\* caller is still connected.
LEMMA DeliverAnswers ==
    ASSUME RouterInv, RouterInv', AnswersInv, Deliver
    PROVE  AnswersInv'
<1> SUFFICES ASSUME NEW c \in Clients, NEW k \in 1..MaxCalls
             PROVE  AnswerOf(c, k)'
  BY Zenon DEF AnswersInv
<1>0. UNCHANGED <<pending, atBus, stream, made, clients, lapsed>> /\ Typed /\ Typed'
  BY Zenon DEF Deliver, peerVars, keptVars, busVars, RouterInv
<1>1. main.pc = "deliver" /\ main' = Idle /\ main # Idle /\ main.item \in Item
  <2>1. main.pc = "deliver" /\ main' = Idle
    BY Zenon DEF Deliver
  <2>2. main # Idle
    BY <2>1 DEF Idle
  <2> QED BY <1>0, <2>1, <2>2, Zenon DEF Typed
<1>2. inbox'[c] = IF c \in main.to \cap clients THEN Append(inbox[c], main.item) ELSE inbox[c]
  BY Zenon DEF Deliver
<1>3. inbox[c] \in Seq(Item)
  BY <1>0, Zenon DEF Typed
<1>4. ~MainSite(main', c, k) /\ (MainSite(main, c, k) <=> AnswerTo(main.item, <<c, k>>) /\ c \in main.to)
  BY <1>1, Zenon DEF MainSite
<1>5. /\ Forms(Sites(c, k), pending, atBus, stream, main, inbox, c, k)
      /\ Forms(Sites(c, k)', pending', atBus', stream', main', inbox', c, k)
  BY <1>0, SitesNow, SitesNext, Zenon
<1>6. CASE c \in main.to \cap clients
  <2> DEFINE n == Len(inbox[c]) + 1
             G == [x \in Sites(c, k) |-> IF x = InMain THEN InInbox(n) ELSE x]
  <2>1. n \in Nat
    BY <1>3, SMTT(40)
  <2>2. ASSUME NEW i \in Nat
        PROVE  InboxSite(inbox', c, k, i) <=>
                 InboxSite(inbox, c, k, i) \/ (i = n /\ MainSite(main, c, k))
    BY <1>1, <1>2, <1>3, <1>4, <1>6 DEF InboxSite
  <2>3. ASSUME NEW y \in Sites(c, k)' PROVE \E x \in Sites(c, k) : y = G[x]
    BY <1>0, <1>4, <1>5, <2>1, <2>2, KindsDiffer, ZenonT(40) DEF Forms
  <2>4. ASSUME NEW x \in Sites(c, k) PROVE G[x] \in Sites(c, k)'
    BY <1>0, <1>4, <1>5, <2>1, <2>2, KindsDiffer, ZenonT(60) DEF Forms
  <2> HIDE DEF G
  <2> QED BY <1>0, <2>3, <2>4, AnswersMoved, Zenon
<1>7. CASE c \notin main.to \cap clients
  <2> DEFINE G == [x \in Sites(c, k) |-> x]
  <2>2. \A i \in Nat : InboxSite(inbox', c, k, i) <=> InboxSite(inbox, c, k, i)
    BY <1>2, <1>7, Zenon DEF InboxSite
  <2>3. ASSUME NEW y \in Sites(c, k)' PROVE \E x \in Sites(c, k) : y = G[x]
    BY <1>0, <1>4, <1>5, <2>2, KindsDiffer, Zenon DEF Forms
  <2>4. ASSUME NEW x \in Sites(c, k) PROVE G[x] \in Sites(c, k)' \/ c \notin clients'
    <3>1. CASE x = InMain
      <4>1. c \in main.to
        BY <1>4, <1>5, <3>1, Zenon DEF Forms
      <4> QED BY <1>0, <1>7, <4>1, Zenon
    <3>2. CASE x # InMain
      BY <1>0, <1>5, <2>2, <3>2, Zenon DEF Forms
    <3> QED BY <3>1, <3>2, Zenon
  <2> HIDE DEF G
  <2> QED BY <1>0, <2>3, <2>4, AnswersMoved, Zenon
<1> QED BY <1>6, <1>7, Zenon

\* The first message of a stream is read.
LEMMA StreamRead ==
    ASSUME Typed, NEW r \in Route, stream[r] # <<>>,
           stream' = [stream EXCEPT ![r] = Tail(@)],
           NEW p, NEW c, NEW k
    PROVE  /\ \A i \in Nat : StreamSite(p, stream', c, k, r, i) <=>
                               i # 0 /\ StreamSite(p, stream, c, k, r, i + 1)
           /\ \A r1 \in Route, i \in Nat : r1 # r =>
                 (StreamSite(p, stream', c, k, r1, i) <=> StreamSite(p, stream, c, k, r1, i))
<1>1. stream[r] \in Seq(Msg) /\ stream'[r] = Tail(stream[r])
      /\ \A r1 \in Route : r1 # r => stream'[r1] = stream[r1]
  BY Zenon DEF Typed
<1>2. ASSUME NEW i \in Nat
      PROVE  StreamSite(p, stream', c, k, r, i) <=> i # 0 /\ StreamSite(p, stream, c, k, r, i + 1)
  <2>0. Len(stream[r]) \in Nat /\ Len(stream'[r]) = Len(stream[r]) - 1
    BY <1>1, TailSteps, Zenon
  <2>1. i \in 1..Len(stream'[r]) <=> i # 0 /\ i + 1 \in 1..Len(stream[r])
    BY <2>0
  <2>2. i \in 1..Len(stream'[r]) => stream'[r][i] = stream[r][i + 1]
    BY <1>1, TailSteps, ZenonT(40)
  <2> QED BY <2>1, <2>2, Zenon DEF StreamSite
<1>3. \A r1 \in Route, i \in Nat : r1 # r =>
         (StreamSite(p, stream', c, k, r1, i) <=> StreamSite(p, stream, c, k, r1, i))
  BY <1>1, Zenon DEF StreamSite
<1> QED BY <1>2, <1>3, Zenon

\* A call whose answer is not the first message of the stream moves up with the rest.
LEMMA ReadOther ==
    ASSUME RouterInv, RouterInv', AnswersInv, NEW c \in Clients, NEW k \in 1..MaxCalls,
           NEW r \in Route, stream[r] # <<>>, stream' = [stream EXCEPT ![r] = Tail(@)],
           UNCHANGED <<atBus, inbox, made, clients, lapsed>>,
           \A r1 \in Route, s \in Keys :
              Entered(pending', r1, s, <<c, k>>) <=> Entered(pending, r1, s, <<c, k>>),
           ~MainSite(main, c, k), ~MainSite(main', c, k),
           ~StreamSite(pending, stream, c, k, r, 1)
    PROVE  AnswerOf(c, k)'
<1> DEFINE G == [x \in Sites(c, k) |-> MoveUp(r, x)]
<1>0. Typed /\ Typed' /\ EntriesRight'
  BY Zenon DEF RouterInv
<1>1. /\ Forms(Sites(c, k), pending, atBus, stream, main, inbox, c, k)
      /\ Forms(Sites(c, k)', pending', atBus', stream', main', inbox', c, k)
  BY <1>0, SitesNow, SitesNext, Zenon
<1>2. \A r1 \in Route, s \in Keys :
         BusSite(pending', atBus', c, k, r1, s) <=> BusSite(pending, atBus, c, k, r1, s)
  BY Zenon DEF BusSite
<1>3. \A i \in Nat : InboxSite(inbox', c, k, i) <=> InboxSite(inbox, c, k, i)
  BY Zenon DEF InboxSite
<1>4. ASSUME NEW r1 \in Route, NEW i \in Nat
      PROVE  StreamSite(pending', stream', c, k, r1, i) <=> StreamSite(pending, stream', c, k, r1, i)
  <2>1. ASSUME i \in 1..Len(stream'[r1]), stream'[r1][i].kind = "reply"
        PROVE  stream'[r1][i].serial \in Keys
    BY <1>0, <2>1, Zenon DEF EntriesRight, RouteRight, Kept, Keys
  <2> QED BY <2>1, Zenon DEF StreamSite
<1>5. /\ \A i \in Nat : StreamSite(pending', stream', c, k, r, i) <=>
                               i # 0 /\ StreamSite(pending, stream, c, k, r, i + 1)
      /\ \A r1 \in Route, i \in Nat : r1 # r =>
            (StreamSite(pending', stream', c, k, r1, i) <=> StreamSite(pending, stream, c, k, r1, i))
  BY <1>0, <1>4, StreamRead, ZenonT(40)
<1>6. \A r1 \in Route, i \in Nat : InStream(r1, i) \in Sites(c, k) <=>
                                      StreamSite(pending, stream, c, k, r1, i)
  BY <1>1, Zenon DEF Forms
<1>7. ASSUME NEW y \in Sites(c, k)' PROVE \E x \in Sites(c, k) : y = G[x]
  <2>1. ASSUME NEW r1 \in Route, NEW s \in Keys, y = AtBus(r1, s)
        PROVE  \E x \in Sites(c, k) : y = G[x]
    BY <1>1, <1>2, <2>1, MovedUp DEF Forms
  <2>2. ASSUME NEW r1 \in Route, NEW i \in Nat, y = InStream(r1, i)
        PROVE  \E x \in Sites(c, k) : y = G[x]
    <3>1. CASE r1 = r
      <4>0. StreamSite(pending', stream', c, k, r, i)
        BY <1>1, <2>2, <3>1, Zenon DEF Forms
      <4>1. i + 1 \in Nat /\ InStream(r, i + 1) \in Sites(c, k)
        BY <1>5, <1>6, <4>0
      <4>2. MoveUp(r, InStream(r, i + 1)) = InStream(r, (i + 1) - 1) /\ (i + 1) - 1 = i
        BY MovedUp
      <4> QED BY <2>2, <3>1, <4>1, <4>2, Zenon
    <3>2. CASE r1 # r
      <4>0. StreamSite(pending', stream', c, k, r1, i)
        BY <1>1, <2>2, <3>2, Zenon DEF Forms
      <4>1. InStream(r1, i) \in Sites(c, k)
        BY <1>5, <1>6, <3>2, <4>0, Zenon
      <4>2. MoveUp(r, InStream(r1, i)) = InStream(r1, i)
        BY <3>2, MovedUp
      <4> QED BY <2>2, <4>1, <4>2, Zenon
    <3> QED BY <3>1, <3>2, Zenon
  <2>3. CASE y = InMain
    BY <1>1, <2>3, Zenon DEF Forms
  <2>4. ASSUME NEW i \in Nat, y = InInbox(i)
        PROVE  \E x \in Sites(c, k) : y = G[x]
    BY <1>1, <1>3, <2>4, MovedUp, Zenon DEF Forms
  <2> QED BY <1>1, <2>1, <2>2, <2>3, <2>4, Zenon DEF Forms
<1>8. ASSUME NEW x \in Sites(c, k) PROVE G[x] \in Sites(c, k)'
  <2>1. ASSUME NEW r1 \in Route, NEW s \in Keys, x = AtBus(r1, s)
        PROVE  G[x] \in Sites(c, k)'
    BY <1>1, <1>2, <2>1, MovedUp DEF Forms
  <2>2. ASSUME NEW r1 \in Route, NEW i \in Nat, x = InStream(r1, i)
        PROVE  G[x] \in Sites(c, k)'
    <3>0. StreamSite(pending, stream, c, k, r1, i)
      BY <1>1, <2>2, Zenon DEF Forms
    <3>1. CASE r1 = r
      <4>1. i # 1 /\ i # 0
        BY <3>0, <3>1 DEF StreamSite
      <4>2. i - 1 \in Nat /\ i - 1 # 0 /\ (i - 1) + 1 = i
        BY <4>1
      <4>3. StreamSite(pending', stream', c, k, r, i - 1)
        BY <1>5, <3>0, <3>1, <4>2, Zenon
      <4>4. MoveUp(r, InStream(r, i)) = InStream(r, i - 1)
        BY MovedUp, Zenon
      <4> QED BY <1>1, <2>2, <3>1, <4>2, <4>3, <4>4, ZenonT(40) DEF Forms
    <3>2. CASE r1 # r
      <4>0. StreamSite(pending', stream', c, k, r1, i)
        BY <1>5, <3>0, <3>2, Zenon
      <4>1. InStream(r1, i) \in Sites(c, k)'
        BY <1>1, <4>0, Zenon DEF Forms
      <4>2. MoveUp(r, InStream(r1, i)) = InStream(r1, i)
        BY <3>2, MovedUp
      <4> QED BY <2>2, <4>1, <4>2, Zenon
    <3> QED BY <3>1, <3>2, Zenon
  <2>3. CASE x = InMain
    BY <1>1, <2>3, Zenon DEF Forms
  <2>4. ASSUME NEW i \in Nat, x = InInbox(i)
        PROVE  G[x] \in Sites(c, k)'
    BY <1>1, <1>3, <2>4, MovedUp DEF Forms
  <2> QED BY <1>1, <2>1, <2>2, <2>3, <2>4, Zenon DEF Forms
<1> HIDE DEF G
<1> QED BY <1>7, <1>8, AnswersMoved, Zenon

\* A rewritten message is for the caller and about the same call.
LEMMA RewrittenSite ==
    ASSUME NEW to, NEW kind, NEW serial, NEW m, Rewritten(to, kind, serial, m), NEW c, NEW k
    PROVE  /\ main' # Idle /\ main'.to = to /\ main'.item.kind = kind /\ main'.item.call = m.call
           /\ MainSite(main', c, k) <=> kind = "answer" /\ m.call = <<c, k>> /\ c \in to
<1>1. CASE main' = Delivery(to, kind, serial, m.call)
  BY <1>1, Zenon DEF Delivery, MainSite, AnswerTo, Idle
<1>2. CASE main' = [Delivery(to, kind, m.serial, m.call) EXCEPT !.item.raw = TRUE]
  BY <1>2, Zenon DEF Delivery, MainSite, AnswerTo, Idle
<1> QED BY <1>1, <1>2, Zenon DEF Rewritten

\* A Response is read: the calls behind it move up.
LEMMA HandleResponseAnswers ==
    ASSUME RouterInv, RouterInv', AnswersInv, NEW r \in Route, HandleResponse(r)
    PROVE  AnswersInv'
<1> SUFFICES ASSUME NEW c \in Clients, NEW k \in 1..MaxCalls
             PROVE  AnswerOf(c, k)'
  BY Zenon DEF AnswersInv
<1> DEFINE m == Head(stream[r])
<1>1. /\ main = Idle /\ stream[r] # <<>> /\ m.kind = "response"
      /\ stream' = [stream EXCEPT ![r] = Tail(@)] /\ pending' = pending
      /\ UNCHANGED <<atBus, inbox, made, clients, lapsed>>
  BY Zenon DEF HandleResponse, peerVars
<1>2. \/ Rewritten({requests[m.handle].client}, "response", None, m)
      \/ main' = Delivery(Listeners, "broadcast", None, m.call)
  BY Zenon DEF HandleResponse
<1>3. ~MainSite(main, c, k)
  BY <1>1, Zenon DEF MainSite
<1>4. ~MainSite(main', c, k)
  <2>1. CASE Rewritten({requests[m.handle].client}, "response", None, m)
    <3>1. MainSite(main', c, k) => "response" = "answer"
      BY <2>1, RewrittenSite, Zenon
    <3> QED BY <3>1
  <2>2. CASE main' = Delivery(Listeners, "broadcast", None, m.call)
    BY <2>2, Zenon DEF Delivery, MainSite, AnswerTo
  <2> QED BY <1>2, <2>1, <2>2, Zenon
<1>5. ~StreamSite(pending, stream, c, k, r, 1)
  <2>1. stream[r] \in Seq(Msg)
    BY Zenon DEF RouterInv, Typed
  <2>2. m = stream[r][1]
    BY <1>1, <2>1
  <2> QED BY <1>1, <2>2, Zenon DEF StreamSite
<1>6. \A r1 \in Route, s \in Keys :
         Entered(pending', r1, s, <<c, k>>) <=> Entered(pending, r1, s, <<c, k>>)
  BY <1>1, Zenon
<1> QED BY <1>1, <1>3, <1>4, <1>5, <1>6, ReadOther, Zenon

\* The two parts of an entry say which call it is of.
LEMMA EntryOf ==
    ASSUME NEW c, NEW k, NEW d, NEW l,
           [client |-> c, serial |-> k] = [client |-> d, serial |-> l]
    PROVE  c = d /\ k = l
<1> DEFINE a == [client |-> c, serial |-> k]
           b == [client |-> d, serial |-> l]
<1>1. a.client = c /\ a.serial = k /\ b.client = d /\ b.serial = l
  BY Zenon
<1> QED BY <1>1, Zenon

\* A reply is read.  Its call, if it has its entry, passes to the hands of the event
\* loop; it had no other place and the entry is gone.  The other calls keep theirs.
LEMMA HandleReplyAnswers ==
    ASSUME RouterInv, RouterInv', OwnApart, AnswersInv, NEW r \in Route, HandleReply(r)
    PROVE  AnswersInv'
<1> SUFFICES ASSUME NEW c \in Clients, NEW k \in 1..MaxCalls
             PROVE  AnswerOf(c, k)'
  BY Zenon DEF AnswersInv
<1> DEFINE m == Head(stream[r])
           p == PendingCall(r, m.serial)
<1>1. /\ main = Idle /\ stream[r] # <<>> /\ m.kind = "reply"
      /\ stream' = [stream EXCEPT ![r] = Tail(@)] /\ pending' = Remove(r, m.serial)
      /\ UNCHANGED <<atBus, inbox, made, clients, lapsed>>
  BY Zenon DEF HandleReply, peerVars
<1>2. IF p = None THEN main' = main ELSE Rewritten({p.client}, "answer", p.serial, m)
  BY Zenon DEF HandleReply
<1>3. Typed /\ Typed' /\ EntriesRight
  BY Zenon DEF RouterInv
<1>4. stream[r] \in Seq(Msg) /\ m = stream[r][1] /\ 1 \in 1..Len(stream[r]) /\ m \in Msg
  <2>1. stream[r] \in Seq(Msg)
    BY <1>3, Zenon DEF Typed
  <2> QED BY <1>1, <2>1, TailSteps
<1>5. Kept(pending[r][m.serial], m.serial, m.call) /\ \A s \in OwnSerials : pending[r][s] = None
  BY <1>1, <1>3, <1>4, Zenon DEF EntriesRight, RouteRight
<1>6. m.serial \in Keys /\ p = pending[r][m.serial]
  BY <1>5, Zenon DEF Kept, Keys, PendingCall
<1> HIDE DEF m, p
<1>7. /\ \A s \in Keys : pending'[r][s] = IF s = m.serial THEN None ELSE pending[r][s]
      /\ \A r1 \in Route : r1 # r => pending'[r1] = pending[r1]
  BY <1>1, <1>3, <1>6, Zenon DEF Remove, Typed
<1>8. ~MainSite(main, c, k)
  BY <1>1, Zenon DEF MainSite
<1>9. None # [client |-> c, serial |-> k]
  BY RouterAssumption
<1>10. ASSUME ~Entered(pending, r, m.serial, <<c, k>>)
       PROVE  \A r1 \in Route, s \in Keys :
                 Entered(pending', r1, s, <<c, k>>) <=> Entered(pending, r1, s, <<c, k>>)
  BY <1>7, <1>9, <1>10, Zenon DEF Entered
<1>11. CASE p = None
  <2>1. ~Entered(pending, r, m.serial, <<c, k>>)
    BY <1>6, <1>9, <1>11, Zenon DEF Entered
  <2>2. ~StreamSite(pending, stream, c, k, r, 1)
    BY <1>4, <2>1, Zenon DEF StreamSite
  <2>3. ~MainSite(main', c, k)
    BY <1>2, <1>8, <1>11, Zenon
  <2> QED BY <1>1, <1>8, <1>10, <2>1, <2>2, <2>3, ReadOther, Zenon
<1>12. CASE p # None /\ m.call # <<c, k>>
  <2>0. Rewritten({p.client}, "answer", p.serial, m)
    BY <1>2, <1>12, Zenon
  <2>1. ~Entered(pending, r, m.serial, <<c, k>>)
    <3>1. m.call # Own
      BY <1>5, <1>6, <1>12, Zenon DEF Kept
    <3>2. p = [client |-> m.call[1], serial |-> m.call[2]]
      BY <1>5, <1>6, <1>12, <3>1, Zenon DEF Kept
    <3>3. m.call \in Calls
      BY <1>4, <3>1, Zenon DEF Msg
    <3>4. m.call = <<m.call[1], m.call[2]>>
      BY <3>3 DEF Calls
    <3>5. ~(m.call[1] = c /\ m.call[2] = k)
      BY <1>12, <3>4, Zenon
    <3> QED BY <1>6, <3>2, <3>5, EntryOf DEF Entered
  <2>2. ~StreamSite(pending, stream, c, k, r, 1)
    BY <1>4, <1>12, Zenon DEF StreamSite
  <2>3. ~MainSite(main', c, k)
    BY <1>12, <2>0, RewrittenSite, Zenon
  <2> QED BY <1>1, <1>8, <1>10, <2>1, <2>2, <2>3, ReadOther, Zenon
<1>13. CASE p # None /\ m.call = <<c, k>>
  <2> DEFINE G == [x \in Sites(c, k) |-> InMain]
  <2>0. Rewritten({p.client}, "answer", p.serial, m)
    BY <1>2, <1>13, Zenon
  <2>1. p = [client |-> c, serial |-> k] /\ p.client = c
    <3>1. m.call # Own /\ m.call[1] = c /\ m.call[2] = k
      BY <1>13, CallNotOwn
    <3> QED BY <1>5, <1>6, <1>13, <3>1 DEF Kept
  <2>2. MainSite(main', c, k)
    BY <1>13, <2>0, <2>1, RewrittenSite
  <2>3. StreamSite(pending, stream, c, k, r, 1)
    BY <1>1, <1>4, <1>6, <1>13, <2>1, Zenon DEF StreamSite, Entered
  <2>4. /\ Forms(Sites(c, k), pending, atBus, stream, main, inbox, c, k)
        /\ Forms(Sites(c, k)', pending', atBus', stream', main', inbox', c, k)
    BY <1>3, SitesNow, SitesNext, Zenon
  <2>5. InStream(r, 1) \in Sites(c, k)
    BY <2>3, <2>4, Zenon DEF Forms
  <2>6. \A x \in Sites(c, k) : x = InStream(r, 1)
    BY <2>5, OneSite, Zenon
  <2>7. ASSUME NEW r1 \in Route, NEW s \in Keys, Entered(pending', r1, s, <<c, k>>)
        PROVE  Entered(pending, r1, s, <<c, k>>)
    BY <1>7, <1>9, <2>7, Zenon DEF Entered
  <2>8. ASSUME NEW y \in Sites(c, k)' PROVE y = InMain
    <3>1. ASSUME NEW r1 \in Route, NEW s \in Keys, y = AtBus(r1, s)
          PROVE  FALSE
      <4>1. BusSite(pending', atBus', c, k, r1, s)
        BY <2>4, <3>1, Zenon DEF Forms
      <4>2. BusSite(pending, atBus, c, k, r1, s)
        BY <1>1, <2>7, <4>1, Zenon DEF BusSite
      <4>3. AtBus(r1, s) \in Sites(c, k)
        BY <2>4, <4>2, Zenon DEF Forms
      <4> QED BY <2>6, <4>3, KindsDiffer, Zenon
    <3>2. ASSUME NEW r1 \in Route, NEW i \in Nat, y = InStream(r1, i)
          PROVE  FALSE
      <4>1. StreamSite(pending', stream', c, k, r1, i)
        BY <2>4, <3>2, Zenon DEF Forms
      <4>2. stream'[r1][i].serial \in Keys
        BY <4>1, Zenon DEF StreamSite, RouterInv, EntriesRight, RouteRight, Kept, Keys
      <4>3. StreamSite(pending, stream', c, k, r1, i)
        BY <2>7, <4>1, <4>2, Zenon DEF StreamSite
      <4>4. CASE r1 = r
        <5>1. StreamSite(pending, stream, c, k, r, i + 1) /\ i # 0
          BY <1>1, <1>3, <4>3, <4>4, StreamRead, Zenon
        <5>2. i + 1 \in Nat /\ InStream(r, i + 1) \in Sites(c, k)
          BY <2>4, <5>1 DEF Forms
        <5>3. i + 1 = 1
          BY <2>6, <5>2, StreamPlaces, Zenon
        <5> QED BY <5>1, <5>3
      <4>5. CASE r1 # r
        <5>1. StreamSite(pending, stream, c, k, r1, i)
          BY <1>1, <1>3, <4>3, <4>5, StreamRead, Zenon
        <5>2. InStream(r1, i) \in Sites(c, k)
          BY <2>4, <5>1, Zenon DEF Forms
        <5> QED BY <2>6, <4>5, <5>2, StreamPlaces, Zenon
      <4> QED BY <4>4, <4>5, Zenon
    <3>3. ASSUME NEW i \in Nat, y = InInbox(i)
          PROVE  FALSE
      <4>1. InInbox(i) \in Sites(c, k)
        BY <1>1, <2>4, <3>3, Zenon DEF Forms, InboxSite
      <4> QED BY <2>6, <4>1, KindsDiffer, Zenon
    <3> QED BY <2>4, <3>1, <3>2, <3>3, Zenon DEF Forms
  <2>9. InMain \in Sites(c, k)'
    BY <2>2, <2>4, Zenon DEF Forms
  <2>10. \A y \in Sites(c, k)' : \E x \in Sites(c, k) : y = G[x]
    BY <2>5, <2>8, Zenon
  <2>11. \A x \in Sites(c, k) : G[x] \in Sites(c, k)'
    BY <2>9, Zenon
  <2> HIDE DEF G
  <2> QED BY <1>1, <2>10, <2>11, AnswersMoved, Zenon
<1> QED BY <1>11, <1>12, <1>13, Zenon

\* A bus answers: a call of a client passes from the bus to the stream.
LEMMA BusAnswers ==
    ASSUME RouterInv, RouterInv', AnswersInv, NEW r \in Route, NEW m \in atBus[r],
           NEW h \in Handles \cup {None}, Answer(r, m, h)
    PROVE  AnswersInv'
<1> SUFFICES ASSUME NEW c \in Clients, NEW k \in 1..MaxCalls
             PROVE  AnswerOf(c, k)'
  BY Zenon DEF AnswersInv
<1> DEFINE q == stream[r]
           n == Len(q) + 1
           reply == [kind |-> "reply", serial |-> m.serial, call |-> m.call, handle |-> h]
           G == [x \in Sites(c, k) |-> IF x = AtBus(r, m.serial) /\ m.call = <<c, k>>
                                       THEN InStream(r, n) ELSE x]
<1>1. /\ atBus' = [atBus EXCEPT ![r] = @ \ {m}] /\ stream' = [stream EXCEPT ![r] = Append(q, reply)]
      /\ pending' = pending /\ main' = main /\ inbox' = inbox
  BY Zenon DEF Answer
<1>2. made' = made /\ clients' = clients /\ lapsed' = lapsed
  BY Zenon DEF Answer, peerVars, keptVars
<1>3. Typed /\ Typed'
  BY ZenonT(30) DEF RouterInv
<1>4. m \in BusCall /\ m.serial \in Keys /\ m = [serial |-> m.serial, call |-> m.call]
  <2>1. m \in BusCall
    BY <1>3, Zenon DEF Typed
  <2> QED BY <2>1, BusCallParts, Zenon
<1>5. q \in Seq(Msg) /\ reply \in Msg /\ stream'[r] = Append(q, reply)
  BY <1>1, <1>3, <1>4, Zenon DEF Typed, BusCall, Msg
<1>6. reply.kind = "reply" /\ reply.call = m.call /\ reply.serial = m.serial
  BY Zenon
<1> HIDE DEF reply
<1>7. n \in Nat /\ n # 0
  BY <1>5
<1>8. ASSUME NEW i \in Nat
      PROVE  StreamSite(pending', stream', c, k, r, i) <=>
               \/ StreamSite(pending, stream, c, k, r, i)
               \/ i = n /\ BusSite(pending, atBus, c, k, r, m.serial) /\ m.call = <<c, k>>
  <2>1. i \in 1..Len(stream'[r]) <=> i \in 1..Len(q) \/ i = n
    BY <1>5, QueueSteps
  <2>2. stream'[r][n] = reply /\ \A j \in 1..Len(q) : stream'[r][j] = q[j]
    BY <1>5, QueueSteps
  <2>3. m.call = <<c, k>> => (BusSite(pending, atBus, c, k, r, m.serial) <=>
                                Entered(pending, r, m.serial, <<c, k>>))
    BY <1>4, Zenon DEF BusSite
  <2>4. CASE i = n
    <3>1. i \notin 1..Len(q)
      BY <1>5, <2>4
    <3> QED BY <1>1, <1>6, <2>1, <2>2, <2>3, <2>4, <3>1, Zenon DEF StreamSite
  <2>5. CASE i # n
    BY <1>1, <2>1, <2>2, <2>5, Zenon DEF StreamSite
  <2> QED BY <2>4, <2>5, Zenon
<1> HIDE DEF n
<1>9. \A r1 \in Route, i \in Nat : r1 # r =>
         (StreamSite(pending', stream', c, k, r1, i) <=> StreamSite(pending, stream, c, k, r1, i))
  <2>1. \A r1 \in Route : r1 # r => stream'[r1] = stream[r1]
    BY <1>1, <1>3, Zenon DEF Typed
  <2> QED BY <1>1, <2>1, Zenon DEF StreamSite
<1>10. ASSUME NEW r1 \in Route, NEW s \in Keys
       PROVE  BusSite(pending', atBus', c, k, r1, s) <=>
                BusSite(pending, atBus, c, k, r1, s) /\ ~(r1 = r /\ s = m.serial /\ m.call = <<c, k>>)
  <2> DEFINE x == [serial |-> s, call |-> <<c, k>>]
  <2>1. atBus'[r] = atBus[r] \ {m} /\ \A r2 \in Route : r2 # r => atBus'[r2] = atBus[r2]
    BY <1>1, <1>3, Zenon DEF Typed
  <2>2. x = m <=> s = m.serial /\ m.call = <<c, k>>
    BY <1>4
  <2> HIDE DEF x
  <2>3. x \in atBus'[r1] <=> x \in atBus[r1] /\ ~(r1 = r /\ x = m)
    BY <2>1, Zenon
  <2> QED BY <1>1, <2>2, <2>3, Zenon DEF BusSite, x
<1>11. \A i \in Nat : InboxSite(inbox', c, k, i) <=> InboxSite(inbox, c, k, i)
  BY <1>1, Zenon
<1>12. MainSite(main', c, k) <=> MainSite(main, c, k)
  BY <1>1, Zenon
<1>13. /\ Forms(Sites(c, k), pending, atBus, stream, main, inbox, c, k)
       /\ Forms(Sites(c, k)', pending', atBus', stream', main', inbox', c, k)
  BY <1>3, SitesNow, SitesNext, Zenon
<1>14. ASSUME NEW y \in Sites(c, k)' PROVE \E x \in Sites(c, k) : y = G[x]
  <2>1. ASSUME NEW r1 \in Route, NEW s \in Keys, y = AtBus(r1, s)
        PROVE  \E x \in Sites(c, k) : y = G[x]
    <3>1. BusSite(pending', atBus', c, k, r1, s)
      BY <1>13, <2>1, Zenon DEF Forms
    <3>2. y \in Sites(c, k)
      BY <1>10, <1>13, <2>1, <3>1, Zenon DEF Forms
    <3>3. ~(y = AtBus(r, m.serial) /\ m.call = <<c, k>>)
      BY <1>10, <2>1, <3>1, BusPlaces, ZenonT(40)
    <3> QED BY <3>2, <3>3, Zenon
  <2>2. ASSUME NEW r1 \in Route, NEW i \in Nat, y = InStream(r1, i)
        PROVE  \E x \in Sites(c, k) : y = G[x]
    <3>1. StreamSite(pending', stream', c, k, r1, i)
      BY <1>13, <2>2, Zenon DEF Forms
    <3>2. CASE StreamSite(pending, stream, c, k, r1, i)
      <4>1. y \in Sites(c, k)
        BY <1>13, <2>2, <3>2, Zenon DEF Forms
      <4> QED BY <2>2, <4>1, KindsDiffer, Zenon
    <3>3. CASE r1 = r /\ i = n /\ BusSite(pending, atBus, c, k, r, m.serial) /\ m.call = <<c, k>>
      <4>1. AtBus(r, m.serial) \in Sites(c, k)
        BY <1>4, <1>13, <3>3, Zenon DEF Forms
      <4> QED BY <2>2, <3>3, <4>1, Zenon
    <3> QED BY <1>8, <1>9, <3>1, <3>2, <3>3, Zenon
  <2>3. CASE y = InMain
    <3>1. y \in Sites(c, k)
      BY <1>12, <1>13, <2>3, Zenon DEF Forms
    <3> QED BY <2>3, <3>1, KindsDiffer, Zenon
  <2>4. ASSUME NEW i \in Nat, y = InInbox(i)
        PROVE  \E x \in Sites(c, k) : y = G[x]
    <3>1. InboxSite(inbox', c, k, i)
      BY <1>13, <2>4, Zenon DEF Forms
    <3>2. y \in Sites(c, k)
      BY <1>11, <1>13, <2>4, <3>1, Zenon DEF Forms
    <3> QED BY <2>4, <3>2, KindsDiffer, Zenon
  <2> HIDE DEF G
  <2> QED BY <1>13, <2>1, <2>2, <2>3, <2>4, Zenon DEF Forms
<1>15. ASSUME NEW x \in Sites(c, k) PROVE G[x] \in Sites(c, k)'
  <2>1. ASSUME NEW r1 \in Route, NEW s \in Keys, x = AtBus(r1, s)
        PROVE  G[x] \in Sites(c, k)'
    <3>1. BusSite(pending, atBus, c, k, r1, s)
      BY <1>13, <2>1, Zenon DEF Forms
    <3>2. CASE r1 = r /\ s = m.serial /\ m.call = <<c, k>>
      <4>1. StreamSite(pending', stream', c, k, r, n)
        BY <1>7, <1>8, <3>1, <3>2, Zenon
      <4>2. InStream(r, n) \in Sites(c, k)'
        BY <1>7, <1>13, <4>1, Zenon DEF Forms
      <4> QED BY <2>1, <3>2, <4>2, Zenon
    <3>3. CASE ~(r1 = r /\ s = m.serial /\ m.call = <<c, k>>)
      <4>1. BusSite(pending', atBus', c, k, r1, s)
        BY <1>10, <3>1, <3>3, Zenon
      <4>2. AtBus(r1, s) \in Sites(c, k)'
        BY <1>13, <4>1, Zenon DEF Forms
      <4>3. ~(x = AtBus(r, m.serial) /\ m.call = <<c, k>>)
        BY <2>1, <3>3, BusPlaces, Zenon
      <4> QED BY <2>1, <4>2, <4>3, Zenon
    <3> QED BY <3>2, <3>3, Zenon
  <2>2. ASSUME NEW r1 \in Route, NEW i \in Nat, x = InStream(r1, i)
        PROVE  G[x] \in Sites(c, k)'
    <3>1. StreamSite(pending, stream, c, k, r1, i)
      BY <1>13, <2>2, Zenon DEF Forms
    <3>2. StreamSite(pending', stream', c, k, r1, i)
      BY <1>8, <1>9, <3>1, Zenon
    <3>3. x \in Sites(c, k)'
      BY <1>13, <2>2, <3>2, Zenon DEF Forms
    <3> QED BY <2>2, <3>3, KindsDiffer, Zenon
  <2>3. CASE x = InMain
    <3>1. x \in Sites(c, k)'
      BY <1>12, <1>13, <2>3, Zenon DEF Forms
    <3> QED BY <2>3, <3>1, KindsDiffer, Zenon
  <2>4. ASSUME NEW i \in Nat, x = InInbox(i)
        PROVE  G[x] \in Sites(c, k)'
    <3>1. InboxSite(inbox, c, k, i)
      BY <1>13, <2>4, Zenon DEF Forms
    <3>2. x \in Sites(c, k)'
      BY <1>11, <1>13, <2>4, <3>1, Zenon DEF Forms
    <3> QED BY <2>4, <3>2, KindsDiffer, Zenon
  <2> HIDE DEF G
  <2> QED BY <1>13, <2>1, <2>2, <2>3, <2>4, Zenon DEF Forms
<1> HIDE DEF G
<1> QED BY <1>2, <1>14, <1>15, AnswersMoved, Zenon

\* Entries are cleaned up: a call that had one keeps its place, or it has lapsed.
LEMMA CleanupAnswers ==
    ASSUME RouterInv, RouterInv', AnswersInv, CleanupExpired
    PROVE  AnswersInv'
<1> SUFFICES ASSUME NEW c \in Clients, NEW k \in 1..MaxCalls
             PROVE  AnswerOf(c, k)'
  BY Zenon DEF AnswersInv
<1> DEFINE entry == [client |-> c, serial |-> k]
           G == [x \in Sites(c, k) |-> x]
<1>1. PICK old \in SUBSET (Route \X Serials), gone \in SUBSET Handles :
         /\ pending' = RetainCalls(old)
         /\ lapsed' = lapsed \cup {requests[h].call : h \in gone}
                       \cup {<<PendingCall(b[1], b[2]).client,
                               PendingCall(b[1], b[2]).serial>> : b \in old}
  BY Zenon DEF CleanupExpired
<1>2. atBus' = atBus /\ stream' = stream /\ main' = main /\ inbox' = inbox
  BY Zenon DEF CleanupExpired, busVars
<1>3. made' = made /\ clients' = clients /\ lapsed \subseteq lapsed'
  BY <1>1, Zenon DEF CleanupExpired, peerVars
<1>4. Typed /\ Typed' /\ EntriesRight
  BY Zenon DEF RouterInv
<1>5. \A r \in Route, s \in Keys : pending'[r][s] = IF <<r, s>> \in old THEN None ELSE pending[r][s]
  BY <1>1, <1>4, Zenon DEF RetainCalls, Typed
<1>6. None # entry /\ entry.client = c /\ entry.serial = k
  BY RouterAssumption
<1> HIDE DEF entry
<1>7. ASSUME NEW r \in Route, NEW s \in Keys, Entered(pending', r, s, <<c, k>>)
      PROVE  Entered(pending, r, s, <<c, k>>)
  BY <1>5, <1>6, <1>7, Zenon DEF Entered, entry
<1>8. ASSUME NEW r \in Route, NEW s \in Keys, Entered(pending, r, s, <<c, k>>)
      PROVE  Entered(pending', r, s, <<c, k>>) \/ <<c, k>> \in lapsed'
  <2>1. CASE <<r, s>> \in old
    <3>1. pending[r][s] = entry
      BY <1>8, Zenon DEF Entered, entry
    <3> DEFINE b == <<r, s>>
    <3>2. PendingCall(b[1], b[2]).client = c /\ PendingCall(b[1], b[2]).serial = k
      BY <1>6, <3>1, Zenon DEF PendingCall
    <3> HIDE DEF b
    <3>3. b \in old
      BY <2>1, Zenon DEF b
    <3> QED BY <1>1, <3>2, <3>3, Zenon
  <2>2. CASE <<r, s>> \notin old
    BY <1>5, <1>8, <2>2, Zenon DEF Entered
  <2> QED BY <2>1, <2>2, Zenon
<1>9. /\ Forms(Sites(c, k), pending, atBus, stream, main, inbox, c, k)
      /\ Forms(Sites(c, k)', pending', atBus', stream', main', inbox', c, k)
  BY <1>4, SitesNow, SitesNext, Zenon
<1>10. ASSUME NEW r \in Route, NEW i \in 1..Len(stream[r]), stream[r][i].kind = "reply"
       PROVE  stream[r][i].serial \in Keys
  BY <1>4, <1>10, Zenon DEF EntriesRight, RouteRight, Kept, Keys
<1>11. ASSUME NEW y \in Sites(c, k)' PROVE y \in Sites(c, k)
  <2>1. ASSUME NEW r \in Route, NEW s \in Keys, y = AtBus(r, s)
        PROVE  y \in Sites(c, k)
    <3>1. BusSite(pending', atBus', c, k, r, s)
      BY <1>9, <2>1, Zenon DEF Forms
    <3>2. BusSite(pending, atBus, c, k, r, s)
      BY <1>2, <1>7, <3>1, Zenon DEF BusSite
    <3> QED BY <1>9, <2>1, <3>2, Zenon DEF Forms
  <2>2. ASSUME NEW r \in Route, NEW i \in Nat, y = InStream(r, i)
        PROVE  y \in Sites(c, k)
    <3>1. StreamSite(pending', stream', c, k, r, i)
      BY <1>9, <2>2, Zenon DEF Forms
    <3>2. StreamSite(pending, stream, c, k, r, i)
      BY <1>2, <1>7, <1>10, <3>1, Zenon DEF StreamSite
    <3> QED BY <1>9, <2>2, <3>2, Zenon DEF Forms
  <2> QED BY <1>2, <1>9, <2>1, <2>2, Zenon DEF Forms
<1>12. ASSUME NEW x \in Sites(c, k) PROVE x \in Sites(c, k)' \/ <<c, k>> \in lapsed'
  <2>1. ASSUME NEW r \in Route, NEW s \in Keys, x = AtBus(r, s)
        PROVE  x \in Sites(c, k)' \/ <<c, k>> \in lapsed'
    <3>1. BusSite(pending, atBus, c, k, r, s)
      BY <1>9, <2>1, Zenon DEF Forms
    <3>2. BusSite(pending', atBus', c, k, r, s) \/ <<c, k>> \in lapsed'
      BY <1>2, <1>8, <3>1, Zenon DEF BusSite
    <3> QED BY <1>9, <2>1, <3>2, Zenon DEF Forms
  <2>2. ASSUME NEW r \in Route, NEW i \in Nat, x = InStream(r, i)
        PROVE  x \in Sites(c, k)' \/ <<c, k>> \in lapsed'
    <3>1. StreamSite(pending, stream, c, k, r, i)
      BY <1>9, <2>2, Zenon DEF Forms
    <3>2. StreamSite(pending', stream', c, k, r, i) \/ <<c, k>> \in lapsed'
      BY <1>2, <1>8, <1>10, <3>1, Zenon DEF StreamSite
    <3> QED BY <1>9, <2>2, <3>2, Zenon DEF Forms
  <2> QED BY <1>2, <1>9, <2>1, <2>2, Zenon DEF Forms
<1>13. \A y \in Sites(c, k)' : \E x \in Sites(c, k) : y = G[x]
  BY <1>11, Zenon
<1>14. \A x \in Sites(c, k) : G[x] \in Sites(c, k)' \/ <<c, k>> \in lapsed'
  BY <1>12, Zenon
<1> HIDE DEF G
<1> QED BY <1>3, <1>13, <1>14, AnswersMoved, Zenon

\* A client that connects has made no call.
LEMMA ConnectAnswers ==
    ASSUME RouterInv, RouterInv', AnswersInv, PeersInv, NEW d \in Clients, Connect(d)
    PROVE  AnswersInv'
<1> SUFFICES ASSUME NEW c \in Clients, NEW k \in 1..MaxCalls
             PROVE  AnswerOf(c, k)'
  BY Zenon DEF AnswersInv
<1>1. /\ pending' = pending /\ atBus' = atBus /\ stream' = stream /\ main' = main /\ inbox' = inbox
      /\ made' = made /\ lapsed' = lapsed /\ clients' = clients \cup {d} /\ made[d] = 0
  BY Zenon DEF Connect, busVars, keptVars, PeersInv
<1>2. Sites(c, k)' = Sites(c, k)
  BY <1>1, SitesAre, Zenon
<1>3. AnswerOf(c, k)
  BY Zenon DEF AnswersInv
<1>4. k <= made'[c] => c # d
  BY <1>1
<1> QED BY <1>1, <1>2, <1>3, <1>4, Zenon DEF AnswerOf

\* The serial of a call that goes out is that of no call of a client under way.
LEMMA FreshSerial ==
    ASSUME Typed, NEW d \in Clients, NEW r \in Route, Take(d, r)
    PROVE  LET s0 == NextSerial(counter[r])
           IN  /\ \A m \in atBus[r] : m.call # Own => m.serial # s0
               /\ \A i \in 1..Len(stream[r]) :
                     stream[r][i].kind = "reply" /\ stream[r][i].call # Own => stream[r][i].serial # s0
               /\ s0 \in Keys /\ pending[r][s0] = None
<1> DEFINE s0 == NextSerial(counter[r])
<1>1. s0 \notin InUse(r)
  BY Zenon DEF Take
<1>2. s0 \in Serials
  BY Taken, Zenon
<1> HIDE DEF s0
<1>3. \A m \in atBus[r] : m.call # Own => m.serial # s0
  BY <1>1, Zenon DEF InUse
<1>4. \A i \in 1..Len(stream[r]) :
         stream[r][i].kind = "reply" /\ stream[r][i].call # Own => stream[r][i].serial # s0
  BY <1>1, Zenon DEF InUse, Replies
<1>5. pending[r][s0] = None
  BY <1>1, <1>2, Zenon DEF InUse
<1> QED BY <1>2, <1>3, <1>4, <1>5, Zenon DEF s0, Keys

\* A call that is not the one taken, and is where it was.
LEMMA OthersTaken ==
    ASSUME Typed, AnswersInv, NEW d \in Clients, NEW r \in Route, Take(d, r),
           NEW c \in Clients, NEW k \in 1..MaxCalls, <<c, k>> # <<d, made'[d]>>,
           clients' = clients, lapsed' = lapsed, Sites(c, k)' = Sites(c, k)
    PROVE  AnswerOf(c, k)'
<1>1. made \in [Clients -> 0..MaxCalls] /\ made' = [made EXCEPT ![d] = @ + 1]
  BY Zenon DEF Take, Typed
<1>2. k <= made'[c] <=> k <= made[c]
  BY <1>1, RouterAssumption
<1>3. k > made'[c] <=> k > made[c]
  BY <1>1, RouterAssumption
<1>4. AnswerOf(c, k)
  BY Zenon DEF AnswersInv
<1> QED BY <1>2, <1>3, <1>4, Zenon DEF AnswerOf

\* A call is taken for the first time.
LEMMA NewCall ==
    ASSUME Typed, AnswersInv, NEW d \in Clients, NEW r \in Route, Take(d, r)
    PROVE  made'[d] \in 1..MaxCalls /\ Sites(d, made'[d]) = {}
<1>1. made \in [Clients -> 0..MaxCalls] /\ made' = [made EXCEPT ![d] = @ + 1] /\ made[d] < MaxCalls
  BY Zenon DEF Take, Typed
<1>2. made'[d] = made[d] + 1 /\ made'[d] \in 1..MaxCalls /\ made'[d] > made[d]
  BY <1>1, RouterAssumption
<1> QED BY <1>2, Zenon DEF AnswersInv, AnswerOf

\* The client gets an error at once: the call is in the hands of the event loop.
LEMMA ForwardFailsAnswers ==
    ASSUME RouterInv, RouterInv', AnswersInv, NEW d \in Clients, NEW r \in Route, ForwardFails(d, r)
    PROVE  AnswersInv'
<1> SUFFICES ASSUME NEW c \in Clients, NEW k \in 1..MaxCalls
             PROVE  AnswerOf(c, k)'
  BY Zenon DEF AnswersInv
<1> DEFINE n == made'[d]
<1>1. /\ pending' = pending /\ atBus' = atBus /\ stream' = stream /\ inbox' = inbox
      /\ clients' = clients /\ lapsed' = lapsed /\ Take(d, r) /\ main = Idle
      /\ main' = Delivery({d}, "answer", n, <<d, n>>)
  BY Zenon DEF ForwardFails, Take, busVars, keptVars
<1>2. Typed /\ Typed'
  BY Zenon DEF RouterInv
<1>3. n \in 1..MaxCalls /\ Sites(d, n) = {}
  BY <1>1, <1>2, NewCall, Zenon
<1>4. MainSite(main', c, k) <=> <<c, k>> = <<d, n>>
  BY <1>1, Zenon DEF Delivery, MainSite, AnswerTo, Idle
<1>5. ~MainSite(main, c, k)
  BY <1>1, Zenon DEF MainSite
<1>6. CASE <<c, k>> # <<d, n>>
  <2>1. Sites(c, k)' = Sites(c, k)
    BY <1>1, <1>2, <1>4, <1>5, <1>6, SameSites, Zenon
  <2> QED BY <1>1, <1>2, <1>6, <2>1, OthersTaken, Zenon
<1>7. CASE <<c, k>> = <<d, n>>
  <2>0. c = d /\ k = n
    BY <1>7, Zenon
  <2>1. /\ Forms(Sites(c, k), pending, atBus, stream, main, inbox, c, k)
        /\ Forms(Sites(c, k)', pending', atBus', stream', main', inbox', c, k)
    BY <1>2, SitesNow, SitesNext, Zenon
  <2>2. Sites(c, k) = {}
    BY <1>3, <2>0, Zenon
  <2>3. InMain \in Sites(c, k)'
    BY <1>4, <1>7, <2>1, Zenon DEF Forms
  <2>4. ASSUME NEW y \in Sites(c, k)' PROVE y = InMain
    <3>1. /\ \A r1 \in Route, s \in Keys : AtBus(r1, s) \notin Sites(c, k)'
          /\ \A r1 \in Route, i \in Nat : InStream(r1, i) \notin Sites(c, k)'
      <4>1. \A r1 \in Route, s \in Keys : ~BusSite(pending, atBus, c, k, r1, s)
        BY <2>1, <2>2, Zenon DEF Forms
      <4>2. \A r1 \in Route, i \in Nat : ~StreamSite(pending, stream, c, k, r1, i)
        BY <2>1, <2>2, Zenon DEF Forms
      <4>3. \A r1 \in Route, s \in Keys : AtBus(r1, s) \notin Sites(c, k)'
        BY <1>1, <2>1, <4>1, Zenon DEF Forms
      <4> QED BY <1>1, <2>1, <4>2, <4>3, Zenon DEF Forms
    <3>2. \A i \in Nat : InInbox(i) \notin Sites(c, k)'
      BY <1>1, <2>1, <2>2, Zenon DEF Forms
    <3> QED BY <2>1, <3>1, <3>2, ZenonT(40) DEF Forms
  <2>5. ~(k > made'[c])
    BY <1>3, <2>0
  <2> QED BY <2>3, <2>4, <2>5, Zenon DEF AnswerOf
<1> QED BY <1>6, <1>7, Zenon

\* The call is sent and recorded: it is on the bus.
LEMMA ForwardAnswers ==
    ASSUME RouterInv, RouterInv', AnswersInv, NEW d \in Clients, NEW r \in Route,
           ForwardMethodCall(d, r)
    PROVE  AnswersInv'
<1> SUFFICES ASSUME NEW c \in Clients, NEW k \in 1..MaxCalls
             PROVE  AnswerOf(c, k)'
  BY Zenon DEF AnswersInv
<1> DEFINE n == made'[d]
           s0 == NextSerial(counter[r])
           call0 == [serial |-> s0, call |-> <<d, n>>]
           entry0 == [client |-> d, serial |-> n]
<1>1. /\ main' = main /\ stream' = stream /\ inbox' = inbox
      /\ clients' = clients /\ lapsed' = lapsed /\ Take(d, r)
      /\ atBus' = [atBus EXCEPT ![r] = @ \cup {call0}]
      /\ pending' = Insert(r, s0, d, n)
  BY Zenon DEF ForwardMethodCall, keptVars
<1>2. Typed /\ Typed'
  BY Zenon DEF RouterInv
<1>3. n \in 1..MaxCalls /\ Sites(d, n) = {}
  BY <1>1, <1>2, NewCall, Zenon
<1>4. /\ \A m \in atBus[r] : m.call # Own => m.serial # s0
      /\ \A i \in 1..Len(stream[r]) :
            stream[r][i].kind = "reply" /\ stream[r][i].call # Own => stream[r][i].serial # s0
      /\ s0 \in Keys /\ pending[r][s0] = None
  BY <1>1, <1>2, FreshSerial, Zenon
<1> HIDE DEF s0, n
<1>5. /\ \A s \in Keys : pending'[r][s] = IF s = s0 THEN entry0 ELSE pending[r][s]
      /\ \A r1 \in Route : r1 # r => pending'[r1] = pending[r1]
  BY <1>1, <1>2, <1>4, Zenon DEF Insert, Typed
<1>6. atBus'[r] = atBus[r] \cup {call0} /\ \A r1 \in Route : r1 # r => atBus'[r1] = atBus[r1]
  BY <1>1, <1>2, Zenon DEF Typed
<1>7. <<c, k>> # Own
  BY CallNotOwn, Zenon
<1>8. ASSUME NEW r1 \in Route, NEW s \in Keys, ~(r1 = r /\ s = s0)
      PROVE  /\ Entered(pending', r1, s, <<c, k>>) <=> Entered(pending, r1, s, <<c, k>>)
             /\ BusSite(pending', atBus', c, k, r1, s) <=> BusSite(pending, atBus, c, k, r1, s)
  <2>1. Entered(pending', r1, s, <<c, k>>) <=> Entered(pending, r1, s, <<c, k>>)
    BY <1>5, <1>8, Zenon DEF Entered
  <2>2. r1 = r => [serial |-> s, call |-> <<c, k>>] # call0
    BY <1>8, Zenon
  <2> QED BY <1>6, <2>1, <2>2, Zenon DEF BusSite
<1>9. ASSUME NEW r1 \in Route, NEW i \in Nat
      PROVE  StreamSite(pending', stream', c, k, r1, i) <=> StreamSite(pending, stream, c, k, r1, i)
  <2>1. ASSUME i \in 1..Len(stream[r1]), stream[r1][i].kind = "reply", stream[r1][i].call = <<c, k>>
        PROVE  /\ stream[r1][i].serial \in Keys
               /\ ~(r1 = r /\ stream[r1][i].serial = s0)
    BY <1>4, <1>7, <2>1, Zenon DEF RouterInv, EntriesRight, RouteRight, Kept, Keys
  <2> QED BY <1>1, <1>8, <2>1, Zenon DEF StreamSite
<1>10. CASE <<c, k>> # <<d, n>>
  <2>1. ~BusSite(pending, atBus, c, k, r, s0)
    BY <1>4, <1>7, Zenon DEF BusSite
  <2>2. entry0 # [client |-> c, serial |-> k]
    BY <1>10, EntryOf, Zenon
  <2>3. ~BusSite(pending', atBus', c, k, r, s0)
    BY <1>4, <1>5, <2>2, Zenon DEF BusSite, Entered
  <2>4. \A r1 \in Route, s \in Keys :
           BusSite(pending', atBus', c, k, r1, s) <=> BusSite(pending, atBus, c, k, r1, s)
    BY <1>8, <2>1, <2>3, Zenon
  <2>5. Sites(c, k)' = Sites(c, k)
    BY <1>1, <1>2, <1>9, <2>4, SameSites, Zenon
  <2> QED BY <1>1, <1>2, <1>10, <2>5, OthersTaken, Zenon DEF n
<1>11. CASE <<c, k>> = <<d, n>>
  <2>0. c = d /\ k = n
    BY <1>11, Zenon
  <2>1. /\ Forms(Sites(c, k), pending, atBus, stream, main, inbox, c, k)
        /\ Forms(Sites(c, k)', pending', atBus', stream', main', inbox', c, k)
    BY <1>2, SitesNow, SitesNext, Zenon
  <2>2. Sites(c, k) = {}
    BY <1>3, <2>0, Zenon
  <2>3. BusSite(pending', atBus', c, k, r, s0)
    BY <1>4, <1>5, <1>6, <2>0, Zenon DEF BusSite, Entered
  <2>4. AtBus(r, s0) \in Sites(c, k)'
    BY <1>4, <2>1, <2>3, Zenon DEF Forms
  <2>5. ASSUME NEW y \in Sites(c, k)' PROVE y = AtBus(r, s0)
    <3>1. ASSUME NEW r1 \in Route, NEW s \in Keys, y = AtBus(r1, s), ~(r1 = r /\ s = s0)
          PROVE  FALSE
      <4>1. BusSite(pending', atBus', c, k, r1, s)
        BY <2>1, <3>1, Zenon DEF Forms
      <4>2. BusSite(pending, atBus, c, k, r1, s)
        BY <1>8, <3>1, <4>1, Zenon
      <4> QED BY <2>1, <2>2, <4>2, Zenon DEF Forms
    <3>2. ASSUME NEW r1 \in Route, NEW i \in Nat, y = InStream(r1, i)
          PROVE  FALSE
      <4>1. StreamSite(pending', stream', c, k, r1, i)
        BY <2>1, <3>2, Zenon DEF Forms
      <4> QED BY <1>9, <2>1, <2>2, <4>1, Zenon DEF Forms
    <3>3. y # InMain /\ \A i \in Nat : y # InInbox(i)
      BY <1>1, <2>1, <2>2, Zenon DEF Forms
    <3> QED BY <2>1, <3>1, <3>2, <3>3, Zenon DEF Forms
  <2>6. ~(k > made'[c])
    BY <1>3, <2>0 DEF n
  <2> QED BY <2>4, <2>5, <2>6, Zenon DEF AnswerOf
<1> QED BY <1>10, <1>11, Zenon

-----------------------------------------------------------------------------
(* Who may call.                                                             *)

\* A client's task connects before it calls and unregisters before it cleans up.
LEMMA PeersStep ==
    ASSUME PeersInv, Typed, [Next]_vars
    PROVE  PeersInv'
<1>1. CASE UNCHANGED <<task, made, clients>>
  BY <1>1, Zenon DEF PeersInv
<1>2. ASSUME NEW d \in Clients, Connect(d)
      PROVE  PeersInv'
  BY <1>2, Zenon DEF PeersInv, Connect
<1>3. ASSUME NEW d \in Clients, Unregister(d)
      PROVE  PeersInv'
  BY <1>3, Zenon DEF PeersInv, Unregister
<1>4. ASSUME NEW d \in Clients, RemoveRequests(d)
      PROVE  PeersInv'
  <2>1. /\ task[d] = "portal" /\ task' = [task EXCEPT ![d] = "done"]
        /\ made' = made /\ clients' = clients
    BY <1>4, Zenon DEF RemoveRequests
  <2> QED BY <2>1, Zenon DEF PeersInv
<1>5. ASSUME NEW d \in Clients, NEW r \in Route, ForwardMethodCall(d, r) \/ ForwardFails(d, r)
      PROVE  PeersInv'
  <2>1. /\ task[d] # "absent" /\ made' = [made EXCEPT ![d] = @ + 1]
        /\ task' = task /\ clients' = clients
    BY <1>5, Zenon DEF ForwardMethodCall, ForwardFails, Take
  <2> QED BY <2>1, Zenon DEF PeersInv, Typed
<1>6. CASE Deliver \/ CleanupExpired
  BY <1>1, <1>6, Zenon DEF Deliver, CleanupExpired, peerVars
<1>7. ASSUME NEW r \in Route, HandleReply(r) \/ HandleResponse(r)
      PROVE  PeersInv'
  BY <1>1, <1>7, Zenon DEF HandleReply, HandleResponse, peerVars
<1>8. ASSUME NEW r \in Route, NEW s \in OwnSerials, OwnCall(r, s)
      PROVE  PeersInv'
  BY <1>1, <1>8, Zenon DEF OwnCall, peerVars
<1>9. ASSUME NEW r \in Route, NEW m \in atBus[r], NEW h \in Handles \cup {None}, Answer(r, m, h)
      PROVE  PeersInv'
  BY <1>1, <1>9, Zenon DEF Answer, peerVars
<1>10. ASSUME NEW h \in Handles, Respond(h)
       PROVE  PeersInv'
  BY <1>1, <1>10, Zenon DEF Respond, peerVars
<1>11. CASE UNCHANGED vars
  BY <1>1, <1>11, Zenon DEF vars
<1> QED BY <1>2, <1>3, <1>4, <1>5, <1>6, <1>7, <1>8, <1>9, <1>10, <1>11, Zenon DEF Next, MainStep

-----------------------------------------------------------------------------
(* A call under way has its entry.                                           *)

\* A step that takes no entry away and adds no call without one.
LEMMA LiveKept ==
    ASSUME LiveInv, lapsed \subseteq lapsed',
           \A r \in Route :
              /\ \A m \in atBus'[r] : m \in atBus[r] \/ m.call = Own
              /\ \A i \in 1..Len(stream'[r]) : \/ stream'[r][i].kind # "reply"
                                               \/ \E j \in 1..Len(stream[r]) : stream'[r][i] = stream[r][j],
           pending' = pending
    PROVE  LiveInv'
<1> SUFFICES ASSUME NEW r \in Route
             PROVE  RouteLive(pending'[r], atBus'[r], stream'[r], lapsed')
  BY Zenon DEF LiveInv
<1>1. RouteLive(pending[r], atBus[r], stream[r], lapsed)
  BY Zenon DEF LiveInv
<1>2. \A m \in atBus'[r] : LiveEntry(pending'[r][m.serial], m.call, lapsed')
  BY <1>1, Zenon DEF RouteLive, LiveEntry
<1>3. ASSUME NEW i \in 1..Len(stream'[r]), stream'[r][i].kind = "reply"
      PROVE  LiveEntry(pending'[r][stream'[r][i].serial], stream'[r][i].call, lapsed')
  <2>1. PICK j \in 1..Len(stream[r]) : stream'[r][i] = stream[r][j]
    BY <1>3, Zenon
  <2> QED BY <1>1, <1>3, <2>1, Zenon DEF RouteLive, LiveEntry
<1> QED BY <1>2, <1>3, Zenon DEF RouteLive

\* A client's call that has its entry is known by it.
LEMMA EntryNames ==
    ASSUME NEW call \in Calls \cup {Own}, NEW other \in Calls \cup {Own}, NEW entry, NEW s,
           Kept(entry, s, call), Kept(entry, s, other), entry # None, call # Own, other # Own
    PROVE  call = other /\ entry = [client |-> call[1], serial |-> call[2]]
<1>1. /\ entry = [client |-> call[1], serial |-> call[2]]
      /\ entry = [client |-> other[1], serial |-> other[2]]
  BY Zenon DEF Kept
<1>2. call[1] = other[1] /\ call[2] = other[2]
  BY <1>1, EntryOf
<1>3. call = <<call[1], call[2]>> /\ other = <<other[1], other[2]>>
  BY DEF Calls
<1> QED BY <1>1, <1>2, <1>3

\* The entry that a reply takes away was that of no other call: the same call would
\* have had two places.
LEMMA HandleReplyLive ==
    ASSUME RouterInv, RouterInv', OwnApart, AnswersInv, LiveInv, NEW r \in Route, HandleReply(r)
    PROVE  LiveInv'
<1> DEFINE m == Head(stream[r])
           p == PendingCall(r, m.serial)
           q == stream[r]
<1>1. /\ q # <<>> /\ m.kind = "reply" /\ lapsed' = lapsed /\ atBus' = atBus
      /\ stream' = [stream EXCEPT ![r] = Tail(@)] /\ pending' = Remove(r, m.serial)
  BY Zenon DEF HandleReply, peerVars
<1>2. Typed /\ EntriesRight
  BY Zenon DEF RouterInv
<1>3. /\ q \in Seq(Msg) /\ m = q[1] /\ 1 \in 1..Len(q) /\ m \in Msg
      /\ Len(q) \in Nat /\ Len(Tail(q)) = Len(q) - 1 /\ \A i \in 1..(Len(q) - 1) : Tail(q)[i] = q[i + 1]
  <2>1. q \in Seq(Msg)
    BY <1>2, Zenon DEF Typed
  <2> QED BY <1>1, <2>1, TailSteps
<1>4. Kept(pending[r][m.serial], m.serial, m.call) /\ \A s \in OwnSerials : pending[r][s] = None
  BY <1>1, <1>2, <1>3, Zenon DEF EntriesRight, RouteRight
<1>5. m.serial \in Keys /\ p = pending[r][m.serial]
  BY <1>4, Zenon DEF Kept, Keys, PendingCall
<1>6. /\ stream'[r] = Tail(q) /\ \A r1 \in Route : r1 # r => stream'[r1] = stream[r1]
  BY <1>1, <1>2, Zenon DEF Typed
<1>7. /\ \A s \in Keys : pending'[r][s] = IF s = m.serial THEN None ELSE pending[r][s]
      /\ \A r1 \in Route : r1 # r => pending'[r1] = pending[r1]
  BY <1>1, <1>2, <1>5, Zenon DEF Remove, Typed
<1> HIDE DEF m, p, q
<1> SUFFICES ASSUME NEW r1 \in Route
             PROVE  RouteLive(pending'[r1], atBus'[r1], stream'[r1], lapsed')
  BY Zenon DEF LiveInv
<1>8. RouteLive(pending[r1], atBus[r1], stream[r1], lapsed)
  BY Zenon DEF LiveInv
<1>9. CASE r1 # r
  BY <1>1, <1>6, <1>7, <1>8, <1>9, Zenon
<1>10. CASE r1 = r
  <2>1. ASSUME p # None
        PROVE  /\ \A x \in atBus[r] : x.serial = m.serial => x.call = Own
               /\ \A i \in 1..Len(q) : i # 1 /\ q[i].kind = "reply" /\ q[i].serial = m.serial =>
                                          q[i].call = Own
    <3>0. m.call # Own
      BY <1>4, <1>5, <2>1, Zenon DEF Kept
    <3>1. m.call \in Calls
      BY <1>3, <3>0, Zenon DEF Msg
    <3>2. PICK c \in Clients, k \in 1..MaxCalls : m.call = <<c, k>>
      BY <3>1 DEF Calls
    <3>3. Entered(pending, r, m.serial, <<c, k>>)
      BY <1>3, <1>4, <1>5, <2>1, <3>0, <3>2, EntryNames, ZenonT(60) DEF Entered, Msg
    <3>4. Forms(Sites(c, k), pending, atBus, stream, main, inbox, c, k)
      BY <1>2, SitesNow, Zenon
    <3>5. InStream(r, 1) \in Sites(c, k)
      <4>1. StreamSite(pending, stream, c, k, r, 1)
        BY <1>1, <1>3, <3>2, <3>3, Zenon DEF StreamSite, q
      <4> QED BY <3>4, <4>1, Zenon DEF Forms
    <3>6. ASSUME NEW x \in atBus[r], x.serial = m.serial, x.call # Own PROVE FALSE
      <4>1. x \in BusCall /\ Kept(pending[r][m.serial], m.serial, x.call)
        BY <1>2, <3>6, Zenon DEF Typed, EntriesRight, RouteRight
      <4>2. x = [serial |-> x.serial, call |-> x.call] /\ x.call \in Calls \cup {Own}
        BY <4>1, Zenon DEF BusCall
      <4>3. x.call = <<c, k>>
        BY <1>3, <1>4, <1>5, <2>1, <3>0, <3>2, <3>6, <4>1, <4>2, EntryNames, Zenon DEF Msg
      <4>4. BusSite(pending, atBus, c, k, r, m.serial)
        BY <3>3, <3>6, <4>2, <4>3, Zenon DEF BusSite
      <4>5. AtBus(r, m.serial) \in Sites(c, k)
        BY <1>5, <3>4, <4>4, Zenon DEF Forms
      <4> QED BY <3>5, <4>5, OneSite, KindsDiffer
    <3>7. ASSUME NEW i \in 1..Len(q), i # 1, q[i].kind = "reply", q[i].serial = m.serial, q[i].call # Own
          PROVE  FALSE
      <4>0. q[i] \in Msg
        BY <1>3
      <4>1. q[i].call \in Calls \cup {Own}
        BY <4>0, Zenon DEF Msg
      <4>2. Kept(pending[r][m.serial], m.serial, q[i].call)
        BY <1>2, <3>7, Zenon DEF EntriesRight, RouteRight, q
      <4>3. q[i].call = <<c, k>>
        BY <1>3, <1>4, <1>5, <2>1, <3>0, <3>2, <3>7, <4>1, <4>2, EntryNames, Zenon DEF Msg
      <4>4. StreamSite(pending, stream, c, k, r, i)
        BY <3>3, <3>7, <4>3, Zenon DEF StreamSite, q
      <4>5. i \in Nat /\ InStream(r, i) \in Sites(c, k)
        BY <3>4, <4>4 DEF Forms
      <4>6. InStream(r, i) = InStream(r, 1)
        BY <3>5, <4>5, OneSite, Zenon
      <4> QED BY <3>7, <4>5, <4>6, StreamPlaces
    <3> QED BY <3>6, <3>7, Zenon
  <2>2. ASSUME NEW x \in atBus[r]
        PROVE  LiveEntry(pending'[r][x.serial], x.call, lapsed')
    <3>1. x.serial \in Keys
      BY <1>2 DEF Typed, BusCall
    <3>2. LiveEntry(pending[r][x.serial], x.call, lapsed)
      BY <1>8, <1>10, Zenon DEF RouteLive
    <3> QED BY <1>1, <1>5, <1>7, <2>1, <3>1, <3>2, Zenon DEF LiveEntry
  <2>3. ASSUME NEW i \in 1..Len(Tail(q)), Tail(q)[i].kind = "reply"
        PROVE  LiveEntry(pending'[r][Tail(q)[i].serial], Tail(q)[i].call, lapsed')
    <3>0. i + 1 \in 1..Len(q) /\ i + 1 # 1 /\ Tail(q)[i] = q[i + 1]
      BY <1>3
    <3>1. q[i + 1].serial \in Keys
      BY <1>2, <2>3, <3>0, Zenon DEF EntriesRight, RouteRight, Kept, Keys, q
    <3>2. LiveEntry(pending[r][q[i + 1].serial], q[i + 1].call, lapsed)
      BY <1>8, <1>10, <2>3, <3>0, Zenon DEF RouteLive, q
    <3> QED BY <1>1, <1>5, <1>7, <2>1, <2>3, <3>0, <3>1, <3>2, ZenonT(40) DEF LiveEntry
  <2> QED BY <1>1, <1>6, <1>10, <2>2, <2>3, Zenon DEF RouteLive
<1> QED BY <1>9, <1>10, Zenon

\* The call that is sent is recorded, and the entries of the others stay.
LEMMA ForwardLive ==
    ASSUME RouterInv, LiveInv, NEW d \in Clients, NEW r \in Route, ForwardMethodCall(d, r)
    PROVE  LiveInv'
<1> DEFINE n == made'[d]
           s0 == NextSerial(counter[r])
           call0 == [serial |-> s0, call |-> <<d, n>>]
           entry0 == [client |-> d, serial |-> n]
<1>1. /\ stream' = stream /\ lapsed' = lapsed /\ Take(d, r)
      /\ atBus' = [atBus EXCEPT ![r] = @ \cup {call0}]
      /\ pending' = Insert(r, s0, d, n)
  BY Zenon DEF ForwardMethodCall, keptVars
<1>2. Typed /\ EntriesRight
  BY Zenon DEF RouterInv
<1>0. n \in 1..MaxCalls /\ s0 \in Serials
  BY <1>1, <1>2, Taken, Zenon
<1>3. n \in Nat /\ s0 \in Keys
  BY <1>0 DEF Keys
<1>4. entry0 # None /\ call0.serial = s0
  BY <1>3, RouterAssumption
<1> HIDE DEF s0, n, call0, entry0
<1>5. /\ \A s \in Keys : pending'[r][s] = IF s = s0 THEN entry0 ELSE pending[r][s]
      /\ \A r1 \in Route : r1 # r => pending'[r1] = pending[r1]
  BY <1>1, <1>2, <1>3, Zenon DEF Insert, Typed, entry0
<1>6. atBus'[r] = atBus[r] \cup {call0} /\ \A r1 \in Route : r1 # r => atBus'[r1] = atBus[r1]
  BY <1>1, <1>2, Zenon DEF Typed
<1> SUFFICES ASSUME NEW r1 \in Route
             PROVE  RouteLive(pending'[r1], atBus'[r1], stream'[r1], lapsed')
  BY Zenon DEF LiveInv
<1>7. RouteLive(pending[r1], atBus[r1], stream[r1], lapsed)
  BY Zenon DEF LiveInv
<1>8. \A s \in Keys : pending[r1][s] # None => pending'[r1][s] # None
  BY <1>4, <1>5, Zenon
<1>9. ASSUME NEW x \in atBus'[r1]
      PROVE  LiveEntry(pending'[r1][x.serial], x.call, lapsed')
  <2>1. CASE r1 = r /\ x = call0
    BY <1>3, <1>4, <1>5, <2>1, Zenon DEF LiveEntry
  <2>2. CASE x \in atBus[r1]
    <3>1. x.serial \in Keys
      BY <1>2, <2>2 DEF Typed, BusCall
    <3> QED BY <1>1, <1>7, <1>8, <2>2, <3>1, Zenon DEF RouteLive, LiveEntry
  <2> QED BY <1>6, <2>1, <2>2, Zenon
<1>10. ASSUME NEW i \in 1..Len(stream[r1]), stream[r1][i].kind = "reply"
       PROVE  LiveEntry(pending'[r1][stream[r1][i].serial], stream[r1][i].call, lapsed')
  <2>1. stream[r1][i].serial \in Keys
    BY <1>2, <1>10, Zenon DEF EntriesRight, RouteRight, Kept, Keys
  <2> QED BY <1>1, <1>7, <1>8, <1>10, <2>1, Zenon DEF RouteLive, LiveEntry
<1> QED BY <1>1, <1>9, <1>10, Zenon DEF RouteLive

\* An entry that is cleaned up was that of a call, and the call lapses.
LEMMA CleanupLive ==
    ASSUME RouterInv, LiveInv, CleanupExpired
    PROVE  LiveInv'
<1>1. PICK old \in SUBSET (Route \X Serials), gone \in SUBSET Handles :
         /\ pending' = RetainCalls(old)
         /\ lapsed' = lapsed \cup {requests[h].call : h \in gone}
                       \cup {<<PendingCall(b[1], b[2]).client,
                               PendingCall(b[1], b[2]).serial>> : b \in old}
  BY Zenon DEF CleanupExpired
<1>2. atBus' = atBus /\ stream' = stream
  BY Zenon DEF CleanupExpired, busVars
<1>3. Typed /\ EntriesRight
  BY Zenon DEF RouterInv
<1> SUFFICES ASSUME NEW r \in Route
             PROVE  RouteLive(pending'[r], atBus'[r], stream'[r], lapsed')
  BY Zenon DEF LiveInv
<1>4. \A s \in Keys : pending'[r][s] = IF <<r, s>> \in old THEN None ELSE pending[r][s]
  BY <1>1, <1>3, Zenon DEF RetainCalls, Typed
<1>5. RouteLive(pending[r], atBus[r], stream[r], lapsed)
  BY Zenon DEF LiveInv
<1>6. ASSUME NEW s \in Keys, NEW call \in Calls \cup {Own}, Kept(pending[r][s], s, call),
             LiveEntry(pending[r][s], call, lapsed)
      PROVE  LiveEntry(pending'[r][s], call, lapsed')
  <2>0. lapsed \subseteq lapsed'
    BY <1>1, Zenon
  <2>1. CASE <<r, s>> \in old /\ pending[r][s] # None /\ call # Own
    <3> DEFINE b == <<r, s>>
               entry == [client |-> call[1], serial |-> call[2]]
    <3>1. PendingCall(b[1], b[2]) = entry /\ entry.client = call[1] /\ entry.serial = call[2]
      BY <1>6, <2>1, EntryNames, Zenon DEF PendingCall
    <3>2. call = <<call[1], call[2]>> /\ b \in old
      BY <2>1 DEF Calls
    <3> HIDE DEF b, entry
    <3>3. call \in lapsed'
      BY <1>1, <3>1, <3>2, Zenon
    <3> QED BY <3>3, Zenon DEF LiveEntry
  <2>2. CASE ~(<<r, s>> \in old /\ pending[r][s] # None /\ call # Own)
    BY <1>4, <1>6, <2>0, <2>2, Zenon DEF LiveEntry
  <2> QED BY <2>1, <2>2, Zenon
<1>7. ASSUME NEW x \in atBus[r]
      PROVE  LiveEntry(pending'[r][x.serial], x.call, lapsed')
  <2>1. x.serial \in Keys /\ x.call \in Calls \cup {Own}
    BY <1>3 DEF Typed, BusCall
  <2>2. Kept(pending[r][x.serial], x.serial, x.call) /\ LiveEntry(pending[r][x.serial], x.call, lapsed)
    BY <1>3, <1>5, Zenon DEF RouteLive, EntriesRight, RouteRight
  <2> QED BY <1>6, <2>1, <2>2, Zenon
<1>8. ASSUME NEW i \in 1..Len(stream[r]), stream[r][i].kind = "reply"
      PROVE  LiveEntry(pending'[r][stream[r][i].serial], stream[r][i].call, lapsed')
  <2> DEFINE x == stream[r][i]
  <2>0. x \in Msg
    BY <1>3 DEF Typed
  <2>1. Kept(pending[r][x.serial], x.serial, x.call) /\ LiveEntry(pending[r][x.serial], x.call, lapsed)
    BY <1>3, <1>5, <1>8, Zenon DEF RouteLive, EntriesRight, RouteRight
  <2> HIDE DEF x
  <2>2. x.serial \in Keys /\ x.call \in Calls \cup {Own}
    BY <2>0, <2>1, Zenon DEF Kept, Keys, Msg
  <2> QED BY <1>6, <2>1, <2>2, Zenon DEF x
<1> QED BY <1>2, <1>7, <1>8, Zenon DEF RouteLive

\* The reply that the bus sends has the serial of the call, and its entry.
LEMMA AnswerLive ==
    ASSUME RouterInv, LiveInv, NEW r \in Route, NEW m \in atBus[r],
           NEW h \in Handles \cup {None}, Answer(r, m, h)
    PROVE  LiveInv'
<1> DEFINE q == stream[r]
           reply == [kind |-> "reply", serial |-> m.serial, call |-> m.call, handle |-> h]
<1>1. /\ atBus' = [atBus EXCEPT ![r] = @ \ {m}] /\ stream' = [stream EXCEPT ![r] = Append(q, reply)]
      /\ pending' = pending /\ lapsed' = lapsed
  BY Zenon DEF Answer, keptVars
<1>2. Typed
  BY Zenon DEF RouterInv
<1>3. m \in BusCall
  BY <1>2, Zenon DEF Typed
<1>4. q \in Seq(Msg) /\ reply \in Msg /\ reply.call = m.call /\ reply.serial = m.serial
  BY <1>2, <1>3, Zenon DEF Typed, BusCall, Msg
<1> HIDE DEF reply
<1>5. /\ stream'[r] = Append(q, reply) /\ atBus'[r] \subseteq atBus[r]
      /\ \A r1 \in Route : r1 # r => stream'[r1] = stream[r1] /\ atBus'[r1] = atBus[r1]
  BY <1>1, <1>2, Zenon DEF Typed
<1> SUFFICES ASSUME NEW r1 \in Route
             PROVE  RouteLive(pending'[r1], atBus'[r1], stream'[r1], lapsed')
  BY Zenon DEF LiveInv
<1>6. RouteLive(pending[r1], atBus[r1], stream[r1], lapsed)
  BY Zenon DEF LiveInv
<1>7. CASE r1 # r
  BY <1>1, <1>5, <1>6, <1>7, Zenon
<1>8. CASE r1 = r
  <2>1. \A x \in atBus'[r] : LiveEntry(pending'[r][x.serial], x.call, lapsed')
    BY <1>1, <1>5, <1>6, <1>8, Zenon DEF RouteLive
  <2>2. LiveEntry(pending'[r][reply.serial], reply.call, lapsed')
    BY <1>1, <1>4, <1>6, <1>8, Zenon DEF RouteLive
  <2>3. ASSUME NEW i \in 1..Len(Append(q, reply)), Append(q, reply)[i].kind = "reply"
        PROVE  LiveEntry(pending'[r][Append(q, reply)[i].serial], Append(q, reply)[i].call, lapsed')
    <3>1. CASE i = Len(q) + 1
      BY <1>4, <2>2, <3>1, QueueSteps, Zenon
    <3>2. CASE i # Len(q) + 1
      <4>1. i \in 1..Len(q) /\ Append(q, reply)[i] = q[i]
        BY <1>4, <3>2, QueueSteps
      <4> QED BY <1>1, <1>6, <1>8, <2>3, <4>1, Zenon DEF RouteLive
    <3> QED BY <3>1, <3>2, Zenon
  <2> QED BY <1>5, <1>8, <2>1, <2>3, Zenon DEF RouteLive
<1> QED BY <1>7, <1>8, Zenon

\* The other steps on the buses and the streams.
LEMMA OthersLive ==
    ASSUME RouterInv, LiveInv,
           \/ \E r \in Route, s \in OwnSerials : OwnCall(r, s)
           \/ \E h \in Handles : Respond(h)
           \/ \E r \in Route : HandleResponse(r)
           \/ UNCHANGED <<atBus, stream, pending>> /\ lapsed \subseteq lapsed'
    PROVE  LiveInv'
<1>0. Typed
  BY Zenon DEF RouterInv
<1>1. ASSUME NEW r \in Route, NEW s \in OwnSerials, OwnCall(r, s)
      PROVE  LiveInv'
  <2>1. /\ atBus' = [atBus EXCEPT ![r] = @ \cup {[serial |-> s, call |-> Own]}]
        /\ stream' = stream /\ pending' = pending /\ lapsed' = lapsed
    BY <1>1, Zenon DEF OwnCall, keptVars
  <2>2. \A r1 \in Route : \A m \in atBus'[r1] : m \in atBus[r1] \/ m.call = Own
    BY <1>0, <2>1 DEF Typed
  <2> QED BY <2>1, <2>2, LiveKept, Zenon
<1>2. ASSUME NEW h \in Handles, Respond(h)
      PROVE  LiveInv'
  <2> DEFINE q == stream["Host"]
             m == [kind |-> "response", serial |-> None, call |-> open[h], handle |-> h]
  <2>1. /\ stream' = [stream EXCEPT !["Host"] = Append(q, m)]
        /\ atBus' = atBus /\ pending' = pending /\ lapsed' = lapsed
    BY <1>2, Zenon DEF Respond, keptVars
  <2>2. q \in Seq(Msg) /\ m \in Msg /\ m.kind # "reply"
    BY <1>0, <1>2, Zenon DEF Respond, Typed, Msg, Route
  <2>3. /\ stream'["Host"] = Append(q, m)
        /\ \A r1 \in Route : r1 # "Host" => stream'[r1] = stream[r1]
    BY <1>0, <2>1, Routes, Zenon DEF Typed
  <2> HIDE DEF m
  <2>4. ASSUME NEW r1 \in Route, NEW i \in 1..Len(stream'[r1])
        PROVE  \/ stream'[r1][i].kind # "reply"
               \/ \E j \in 1..Len(stream[r1]) : stream'[r1][i] = stream[r1][j]
    <3>1. CASE r1 # "Host"
      BY <2>3, <3>1, Zenon
    <3>2. CASE r1 = "Host" /\ i = Len(q) + 1
      BY <2>2, <2>3, <3>2, QueueSteps
    <3>3. CASE r1 = "Host" /\ i # Len(q) + 1
      <4>1. i \in 1..Len(q) /\ stream'[r1][i] = q[i]
        BY <2>2, <2>3, <3>3, QueueSteps
      <4> QED BY <3>3, <4>1, Zenon
    <3> QED BY <3>1, <3>2, <3>3, Zenon
  <2> QED BY <2>1, <2>4, LiveKept, Zenon
<1>3. ASSUME NEW r \in Route, HandleResponse(r)
      PROVE  LiveInv'
  <2>1. /\ stream' = [stream EXCEPT ![r] = Tail(@)] /\ stream[r] # <<>>
        /\ atBus' = atBus /\ pending' = pending /\ lapsed' = lapsed
    BY <1>3, Zenon DEF HandleResponse
  <2>2. /\ stream[r] \in Seq(Msg) /\ stream'[r] = Tail(stream[r])
        /\ \A r1 \in Route : r1 # r => stream'[r1] = stream[r1]
    BY <1>0, <2>1, Zenon DEF Typed
  <2>3. ASSUME NEW r1 \in Route, NEW i \in 1..Len(stream'[r1])
        PROVE  \E j \in 1..Len(stream[r1]) : stream'[r1][i] = stream[r1][j]
    <3>1. CASE r1 # r
      BY <2>2, <3>1, Zenon
    <3>2. CASE r1 = r
      <4>0. /\ Len(stream[r]) \in Nat /\ Len(stream'[r]) = Len(stream[r]) - 1
            /\ \A j \in 1..(Len(stream[r]) - 1) : stream'[r][j] = stream[r][j + 1]
        BY <2>1, <2>2, TailSteps, ZenonT(30)
      <4>1. i + 1 \in 1..Len(stream[r]) /\ stream'[r][i] = stream[r][i + 1]
        BY <3>2, <4>0
      <4> QED BY <3>2, <4>1, Zenon
    <3> QED BY <3>1, <3>2, Zenon
  <2> QED BY <2>1, <2>3, LiveKept, Zenon
<1>4. CASE UNCHANGED <<atBus, stream, pending>> /\ lapsed \subseteq lapsed'
  BY <1>4, Zenon DEF LiveInv, RouteLive, LiveEntry
<1> QED BY <1>1, <1>2, <1>3, <1>4, Zenon

-----------------------------------------------------------------------------
(* A request is registered when its Response comes.                          *)

\* Requests that are given up lapse; otherwise nothing is unregistered.
LEMMA TrackedFewer ==
    ASSUME TrackedInv, UNCHANGED <<stream, open>>, lapsed \subseteq lapsed',
           \A h \in DOMAIN requests : requests'[h] = requests[h] \/ requests[h].call \in lapsed',
           \A h \in Handles : h \in DOMAIN requests,
           \A i \in 1..Len(stream["Host"]) :
              stream["Host"][i].kind = "response" => stream["Host"][i].handle \in Handles
    PROVE  TrackedInv'
<1>1. ASSUME NEW h \in Handles, NEW call, Tracked(requests[h], call, lapsed)
      PROVE  Tracked(requests'[h], call, lapsed')
  BY <1>1, Zenon DEF Tracked
<1> QED BY <1>1, Zenon DEF TrackedInv, HostTracked

\* A message is added to the stream of the host bus.
LEMMA TrackedAppend ==
    ASSUME NEW q \in Seq(Msg), NEW m \in Msg, NEW reqs, NEW opn, NEW opn2, NEW l,
           HostTracked(q, reqs, opn, l),
           \A h \in Handles : opn2[h] = opn[h] \/ opn2[h] = None \/ m.handle = h,
           m.kind = "response" => m.handle \in Handles /\ opn[m.handle] = m.call /\ m.call # None
                                  /\ opn2[m.handle] = None
    PROVE  HostTracked(Append(q, m), reqs, opn2, l)
<1> DEFINE q2 == Append(q, m)
<1>1. /\ Len(q) \in Nat /\ Len(q2) = Len(q) + 1 /\ q2[Len(q) + 1] = m
      /\ \A i \in 1..Len(q) : q2[i] = q[i]
  BY QueueSteps, ZenonT(30)
<1> HIDE DEF q2
<1>2. ASSUME NEW h, NEW n \in 0..Len(q), Unnamed(q2, h, n)
      PROVE  Unnamed(q, h, n)
  BY <1>1, <1>2 DEF Unnamed
<1>3. ASSUME NEW i \in 1..Len(q2), q2[i].kind = "response", Unnamed(q2, q2[i].handle, i - 1)
      PROVE  Tracked(reqs[q2[i].handle], q2[i].call, l)
  <2>0. i - 1 \in 0..Len(q) /\ Unnamed(q, q2[i].handle, i - 1)
    <3>1. i - 1 \in 0..Len(q)
      BY <1>1
    <3> QED BY <1>2, <1>3, <3>1, Zenon
  <2>1. CASE i = Len(q) + 1
    <3>1. q2[i] = m /\ i - 1 = Len(q)
      BY <1>1, <2>1
    <3> QED BY <1>3, <2>0, <3>1, Zenon DEF HostTracked
  <2>2. CASE i # Len(q) + 1
    <3>1. i \in 1..Len(q) /\ q2[i] = q[i]
      BY <1>1, <2>2
    <3> QED BY <1>3, <2>0, <3>1, Zenon DEF HostTracked
  <2> QED BY <2>1, <2>2, Zenon
<1>4. ASSUME NEW h \in Handles, opn2[h] # None, Unnamed(q2, h, Len(q2))
      PROVE  Tracked(reqs[h], opn2[h], l)
  <2>1. m.handle # h
    BY <1>1, <1>4 DEF Unnamed
  <2>2. Unnamed(q, h, Len(q))
    BY <1>1, <1>4 DEF Unnamed
  <2> QED BY <1>4, <2>1, <2>2, Zenon DEF HostTracked
<1> QED BY <1>3, <1>4, Zenon DEF HostTracked, q2

\* The first message of the host bus is read: the reply that grants a handle leaves
\* the handle registered, and nothing else touches a handle that is still to come.
LEMMA TrackedRead ==
    ASSUME NEW q \in Seq(Msg), q # <<>>, NEW m, m = q[1], NEW reqs, NEW reqs2, NEW opn, NEW l,
           HostRight(q, reqs, opn), HostTracked(q, reqs, opn, l),
           \A h \in Handles : h # m.handle => reqs2[h] = reqs[h],
           m.kind = "reply" /\ m.handle \in Handles => Tracked(reqs2[m.handle], m.call, l)
    PROVE  HostTracked(Tail(q), reqs2, opn, l)
<1> DEFINE t == Tail(q)
<1>1. /\ Len(q) \in Nat /\ Len(q) >= 1 /\ Len(t) = Len(q) - 1
      /\ \A i \in 1..(Len(q) - 1) : t[i] = q[i + 1]
  BY TailSteps, Zenon
<1> HIDE DEF t
<1>2. ASSUME NEW h \in Handles, NEW call, NEW n \in 1..Len(q), Unnamed(t, h, n - 1),
             Expected(q, reqs[h], h, call, n),
             Unnamed(q, h, n) => Tracked(reqs[h], call, l)
      PROVE  Tracked(reqs2[h], call, l)
  <2>1. \A j \in 1..n : j # 1 => q[j].handle # h
    <3> SUFFICES ASSUME NEW j \in 1..n, j # 1 PROVE q[j].handle # h
      BY Zenon
    <3>1. j - 1 \in 1..(n - 1) /\ j - 1 \in 1..(Len(q) - 1) /\ (j - 1) + 1 = j
      BY <1>1
    <3>2. t[j - 1] = q[j]
      BY <1>1, <3>1, Zenon
    <3> QED BY <1>2, <3>1, <3>2, Zenon DEF Unnamed
  <2>2. CASE m.handle # h
    <3>1. Unnamed(q, h, n)
      BY <2>1, <2>2, Zenon DEF Unnamed
    <3> QED BY <1>2, <2>2, <3>1, Zenon
  <2>3. CASE m.handle = h
    <3>1. 1 \in 1..n
      OBVIOUS
    <3>2. PICK j \in 1..n : q[j].kind = "reply" /\ q[j].handle = h /\ q[j].call = call
      BY <1>2, <2>3, <3>1, Zenon DEF Expected
    <3>3. j = 1
      BY <2>1, <3>2, Zenon
    <3> QED BY <2>3, <3>2, <3>3, Zenon
  <2> QED BY <2>2, <2>3, Zenon
<1>3. ASSUME NEW i \in 1..Len(t), t[i].kind = "response", Unnamed(t, t[i].handle, i - 1)
      PROVE  Tracked(reqs2[t[i].handle], t[i].call, l)
  <2>1. i \in 1..Len(q) /\ i + 1 \in 1..Len(q) /\ (i + 1) - 1 = i /\ t[i] = q[i + 1]
    BY <1>1
  <2>2. HostMessageRight(q, reqs, i + 1)
    BY <2>1, Zenon DEF HostRight
  <2>3. t[i].handle \in Handles /\ Expected(q, reqs[t[i].handle], t[i].handle, t[i].call, i)
    BY <1>3, <2>1, <2>2, Zenon DEF HostMessageRight
  <2>4. Unnamed(q, t[i].handle, i) => Tracked(reqs[t[i].handle], t[i].call, l)
    BY <1>3, <2>1, Zenon DEF HostTracked
  <2> QED BY <1>2, <1>3, <2>1, <2>3, <2>4, Zenon
<1>4. ASSUME NEW h \in Handles, opn[h] # None, Unnamed(t, h, Len(t))
      PROVE  Tracked(reqs2[h], opn[h], l)
  <2>1. Expected(q, reqs[h], h, opn[h], Len(q))
    BY <1>4, Zenon DEF HostRight, OpenRight
  <2>2. Unnamed(q, h, Len(q)) => Tracked(reqs[h], opn[h], l)
    BY <1>4, Zenon DEF HostTracked
  <2>3. Len(q) \in 1..Len(q) /\ Len(t) = Len(q) - 1
    BY <1>1
  <2> QED BY <1>2, <1>4, <2>1, <2>2, <2>3, Zenon
<1> QED BY <1>3, <1>4, Zenon DEF HostTracked, t

\* The same of the step that reads it.
LEMMA HostRead ==
    ASSUME NEW q \in Seq(Msg), q # <<>>, HostRight(q, requests, open),
           HostTracked(q, requests, open, lapsed),
           \A h \in Handles : h # q[1].handle => requests'[h] = requests[h],
           q[1].kind = "reply" /\ q[1].handle \in Handles =>
               Tracked(requests'[q[1].handle], q[1].call, lapsed)
    PROVE  HostTracked(Tail(q), requests', open, lapsed)
  BY TrackedRead

\* handle_bus_message reads a reply: a handle in it is registered for the call, if
\* the call still has its entry.
LEMMA HandleReplyTracked ==
    ASSUME RouterInv, OwnApart, LiveInv, TrackedInv, NEW r \in Route, HandleReply(r)
    PROVE  TrackedInv'
<1> DEFINE m == Head(stream[r])
           p == PendingCall(r, m.serial)
           q == stream[r]
<1>1. /\ q # <<>> /\ m.kind = "reply" /\ lapsed' = lapsed /\ open' = open
      /\ stream' = [stream EXCEPT ![r] = Tail(@)]
      /\ requests' = IF p # None /\ m.handle # None
                     THEN Register(m.handle, p.client, m.call) ELSE requests
  BY Zenon DEF HandleReply
<1>2. Typed /\ EntriesRight /\ HandlesRight
  BY Zenon DEF RouterInv
<1>3. q \in Seq(Msg) /\ m = q[1] /\ 1 \in 1..Len(q) /\ m \in Msg
  <2>1. q \in Seq(Msg)
    BY <1>2, Zenon DEF Typed
  <2> QED BY <1>1, <2>1, TailSteps
<1>4. p = pending[r][m.serial]
  BY Zenon DEF PendingCall
<1>5. stream'[r] = Tail(q) /\ \A r1 \in Route : r1 # r => stream'[r1] = stream[r1]
  BY <1>1, <1>2, Zenon DEF Typed
<1>6. Kept(p, m.serial, m.call) /\ \A s \in OwnSerials : pending[r][s] = None
  BY <1>1, <1>2, <1>3, <1>4, Zenon DEF EntriesRight, RouteRight
<1>7. LiveEntry(p, m.call, lapsed)
  BY <1>1, <1>3, <1>4, Zenon DEF LiveInv, RouteLive
<1> HIDE DEF m, p
<1>8. CASE r = "Container"
  <2>1. m.handle = None
    BY <1>2, <1>3, <1>8, Zenon DEF HandlesRight, PlainReplies
  <2>2. requests' = requests /\ stream'["Host"] = stream["Host"]
    BY <1>1, <1>5, <1>8, <2>1, Routes, Zenon
  <2> QED BY <1>1, <2>2, Zenon DEF TrackedInv
<1>9. CASE r = "Host"
  <2>1. HostRight(q, requests, open) /\ HostTracked(q, requests, open, lapsed)
    BY <1>2, <1>9, Zenon DEF HandlesRight, TrackedInv
  <2>2. ASSUME m.handle \in Handles
        PROVE  Tracked(requests'[m.handle], m.call, lapsed)
    <3>0. m.handle # None
      BY <2>2, RouterAssumption, Zenon
    <3>1. m.call # Own
      BY <1>1, <1>3, <2>1, <3>0, Zenon DEF HostRight, HostMessageRight
    <3>2. CASE p = None
      BY <1>7, <3>1, <3>2, Zenon DEF LiveEntry, Tracked
    <3>3. CASE p # None
      <4> DEFINE entry == [client |-> p.client, call |-> m.call]
      <4>1. requests'[m.handle] = entry
        BY <1>1, <1>2, <2>2, <3>0, <3>3, Zenon DEF Register, Typed
      <4>2. m.call \in Calls
        BY <1>3, <3>1, Zenon DEF Msg
      <4>3. p = [client |-> m.call[1], serial |-> m.call[2]]
        BY <1>6, <3>1, <3>3, Zenon DEF Kept
      <4>4. p.client \in Clients /\ m.call \in Clients \X Nat
        BY <4>2, <4>3, RouterAssumption, SMTT(40) DEF Calls
      <4>5. entry # None /\ entry.call = m.call
        BY <4>4, RouterAssumption
      <4> QED BY <4>1, <4>5, Zenon DEF Tracked
    <3> QED BY <3>2, <3>3, Zenon
  <2>3. \A h \in Handles : h # m.handle => requests'[h] = requests[h]
    BY <1>1, <1>2, ZenonT(30) DEF Register, Typed
  <2>4. HostTracked(Tail(q), requests', open, lapsed)
    <3>1. /\ \A h \in Handles : h # q[1].handle => requests'[h] = requests[h]
          /\ q[1].handle \in Handles => Tracked(requests'[q[1].handle], q[1].call, lapsed)
      BY <1>3, <2>2, <2>3, Zenon
    <3> HIDE DEF q
    <3> QED BY <1>1, <1>3, <2>1, <3>1, HostRead, Zenon
  <2> QED BY <1>1, <1>5, <1>9, <2>4, Zenon DEF TrackedInv
<1> QED BY <1>8, <1>9, Routes, Zenon

\* A Response is read on the host bus.
LEMMA ResponseRead ==
    ASSUME RouterInv, NEW r \in Route, HandleResponse(r)
    PROVE  /\ r = "Host" /\ stream["Host"] \in Seq(Msg) /\ stream["Host"] # <<>>
           /\ Head(stream[r]) = stream["Host"][1] /\ 1 \in 1..Len(stream["Host"])
           /\ stream["Host"][1].kind = "response" /\ stream["Host"][1].handle \in Handles
           /\ stream'["Host"] = Tail(stream["Host"])
           /\ HostRight(stream["Host"], requests, open)
<1>1. /\ stream[r] # <<>> /\ Head(stream[r]).kind = "response"
      /\ stream' = [stream EXCEPT ![r] = Tail(@)]
  BY Zenon DEF HandleResponse
<1>2. Typed /\ HandlesRight
  BY Zenon DEF RouterInv
<1>3. stream[r] \in Seq(Msg) /\ stream'[r] = Tail(stream[r])
  BY <1>1, <1>2, Zenon DEF Typed
<1>4. Head(stream[r]) = stream[r][1] /\ 1 \in 1..Len(stream[r])
  BY <1>1, <1>3, TailSteps
<1>5. r # "Container"
  BY <1>1, <1>2, <1>4, Zenon DEF HandlesRight, PlainReplies
<1>6. r = "Host"
  BY <1>5, Routes, Zenon
<1>7. HostRight(stream["Host"], requests, open)
  BY <1>2, Zenon DEF HandlesRight
<1>8. stream["Host"][1].handle \in Handles
  BY <1>1, <1>4, <1>6, <1>7, Zenon DEF HostRight, HostMessageRight
<1> QED BY <1>1, <1>3, <1>4, <1>6, <1>7, <1>8, Zenon

\* A Response unregisters its own handle only.
LEMMA HandleResponseTracked ==
    ASSUME RouterInv, TrackedInv, NEW r \in Route, HandleResponse(r)
    PROVE  TrackedInv'
<1> DEFINE q == stream["Host"]
           m == q[1]
<1>1. /\ q \in Seq(Msg) /\ q # <<>> /\ Head(stream[r]) = m /\ m.kind = "response"
      /\ stream'["Host"] = Tail(q) /\ HostRight(q, requests, open)
  BY ResponseRead, Zenon
<1>2. requests' = [requests EXCEPT ![m.handle] = None] /\ open' = open /\ lapsed' = lapsed
  BY <1>1, Zenon DEF HandleResponse, LookupAndRemove
<1>3. \A h \in Handles : h # m.handle => requests'[h] = requests[h]
  BY <1>2, Zenon DEF RouterInv, Typed
<1>4. HostTracked(q, requests, open, lapsed)
  BY ZenonT(40) DEF TrackedInv
<1>5. HostTracked(Tail(q), requests', open, lapsed)
  <2>1. m.kind # "reply"
    BY <1>1
  <2> HIDE DEF q
  <2> QED BY <1>1, <1>3, <1>4, <2>1, HostRead, Zenon
<1> QED BY <1>1, <1>2, <1>5, Zenon DEF TrackedInv

\* The bus answers and the portal responds.
LEMMA BusTracked ==
    ASSUME RouterInv, TrackedInv,
           \/ \E r \in Route : \E m \in atBus[r], h \in Handles \cup {None} : Answer(r, m, h)
           \/ \E h \in Handles : Respond(h)
    PROVE  TrackedInv'
<1> DEFINE q == stream["Host"]
<1>0. Typed /\ q \in Seq(Msg) /\ HostTracked(q, requests, open, lapsed)
  BY Routes, Zenon DEF RouterInv, Typed, TrackedInv
<1>1. ASSUME NEW r \in Route, NEW m \in atBus[r], NEW h \in Handles \cup {None}, Answer(r, m, h)
      PROVE  TrackedInv'
  <2> DEFINE reply == [kind |-> "reply", serial |-> m.serial, call |-> m.call, handle |-> h]
  <2>1. /\ stream' = [stream EXCEPT ![r] = Append(@, reply)]
        /\ requests' = requests /\ lapsed' = lapsed
        /\ (h = None /\ open' = open) \/ (r = "Host" /\ open' = [open EXCEPT ![h] = m.call])
    BY <1>1, Zenon DEF Answer, keptVars
  <2>2. CASE r # "Host"
    <3>1. stream'["Host"] = q /\ open' = open
      BY <1>0, <2>1, <2>2, Routes, Zenon DEF Typed
    <3> QED BY <2>1, <3>1, Zenon DEF TrackedInv
  <2>3. CASE r = "Host"
    <3>1. m \in BusCall
      BY <1>0, Zenon DEF Typed
    <3>2. reply \in Msg /\ reply.kind = "reply" /\ reply.handle = h
      BY <3>1, Zenon DEF BusCall, Msg
    <3> HIDE DEF reply
    <3>3. stream'["Host"] = Append(q, reply)
      BY <1>0, <2>1, <2>3, Routes, Zenon DEF Typed
    <3>4. \A g \in Handles : open'[g] = open[g] \/ open'[g] = None \/ reply.handle = g
      BY <1>0, <2>1, <3>2, Zenon DEF Typed
    <3>5. HostTracked(Append(q, reply), requests, open', lapsed)
      BY <1>0, <3>2, <3>4, TrackedAppend, Zenon
    <3> QED BY <2>1, <3>3, <3>5, Zenon DEF TrackedInv
  <2> QED BY <2>2, <2>3, Zenon
<1>2. ASSUME NEW h \in Handles, Respond(h)
      PROVE  TrackedInv'
  <2> DEFINE m == [kind |-> "response", serial |-> None, call |-> open[h], handle |-> h]
  <2>1. /\ stream' = [stream EXCEPT !["Host"] = Append(q, m)] /\ open[h] # None
        /\ requests' = requests /\ lapsed' = lapsed /\ open' = [open EXCEPT ![h] = None]
    BY <1>2, Zenon DEF Respond, keptVars
  <2>2. m \in Msg /\ m.kind = "response" /\ m.handle = h /\ m.call = open[h]
    BY <1>0, <2>1, Zenon DEF Typed, Msg
  <2> HIDE DEF m
  <2>3. stream'["Host"] = Append(q, m)
    BY <1>0, <2>1, Routes, Zenon DEF Typed
  <2>4. open'[h] = None /\ \A g \in Handles : open'[g] = open[g] \/ open'[g] = None
    BY <1>0, <2>1, Zenon DEF Typed
  <2>5. HostTracked(Append(q, m), requests, open', lapsed)
    BY <1>0, <2>1, <2>2, <2>4, TrackedAppend, Zenon
  <2> QED BY <2>1, <2>3, <2>5, Zenon DEF TrackedInv
<1> QED BY <1>1, <1>2, Zenon

\* The clean-ups, and the steps that do not come near a request.
LEMMA OthersTracked ==
    ASSUME RouterInv, TrackedInv,
           \/ CleanupExpired
           \/ \E c \in Clients : RemoveRequests(c)
           \/ UNCHANGED <<stream, open, requests, lapsed>>
    PROVE  TrackedInv'
<1>0. /\ requests \in [Handles -> Request \cup {None}]
      /\ \A i \in 1..Len(stream["Host"]) :
            stream["Host"][i].kind = "response" => stream["Host"][i].handle \in Handles
  BY Zenon DEF RouterInv, Typed, HandlesRight, HostRight, HostMessageRight
<1>1. ASSUME NEW gone \in SUBSET Handles, requests' = RetainRequests(gone),
             stream' = stream, open' = open,
             lapsed \cup {requests[h].call : h \in gone} \subseteq lapsed'
      PROVE  TrackedInv'
  <2>1. ASSUME NEW h \in DOMAIN requests
        PROVE  requests'[h] = requests[h] \/ requests[h].call \in lapsed'
    BY <1>0, <1>1, Zenon DEF RetainRequests
  <2> QED BY <1>0, <1>1, <2>1, TrackedFewer, Zenon
<1>2. CASE CleanupExpired
  <2>1. PICK gone \in SUBSET Handles :
           /\ requests' = RetainRequests(gone)
           /\ lapsed \cup {requests[h].call : h \in gone} \subseteq lapsed'
    BY <1>2, Zenon DEF CleanupExpired
  <2>2. stream' = stream /\ open' = open
    BY <1>2, Zenon DEF CleanupExpired, busVars
  <2> QED BY <1>1, <2>1, <2>2, Zenon
<1>3. ASSUME NEW c \in Clients, RemoveRequests(c)
      PROVE  TrackedInv'
  <2> DEFINE gone == {h \in Handles : requests[h] # None /\ requests[h].client = c}
  <2>1. /\ requests' = RetainRequests(gone) /\ stream' = stream /\ open' = open
        /\ lapsed' = lapsed \cup {requests[h].call : h \in gone}
    BY <1>3, Zenon DEF RemoveRequests, busVars
  <2> HIDE DEF gone
  <2>2. gone \in SUBSET Handles
    BY Zenon DEF gone
  <2> QED BY <1>1, <2>1, <2>2, Zenon
<1>4. CASE UNCHANGED <<stream, open, requests, lapsed>>
  BY <1>4, Zenon DEF TrackedInv
<1> QED BY <1>2, <1>3, <1>4, Zenon

-----------------------------------------------------------------------------
(* What goes to the match rules.                                             *)

\* A Response goes to the match rules when it was not registered: its request, or
\* the call that made it, had lapsed.
LEMMA BroadcastStep ==
    ASSUME RouterInv, TrackedInv, BroadcastInv, [Next]_vars, lapsed \subseteq lapsed'
    PROVE  BroadcastInv'
<1>1. CASE UNCHANGED <<main, inbox>>
  BY <1>1, Zenon DEF BroadcastInv
<1>2. ASSUME inbox' = inbox, main'.item.kind # "broadcast"
      PROVE  BroadcastInv'
  BY <1>2, Zenon DEF BroadcastInv
<1>3. CASE Deliver
  <2>1. /\ main.pc = "deliver" /\ main' = Idle /\ main'.pc # "deliver" /\ lapsed' = lapsed
        /\ inbox' = [c \in Clients |-> IF c \in main.to \cap clients
                                       THEN Append(inbox[c], main.item) ELSE inbox[c]]
    BY <1>3, ZenonT(40) DEF Deliver, Idle, keptVars
  <2>2. ASSUME NEW c \in Clients, NEW i \in 1..Len(inbox'[c]), inbox'[c][i].kind = "broadcast"
        PROVE  inbox'[c][i].call \in lapsed
    <3>1. inbox[c] \in Seq(Item) /\ main.item \in Item
      BY <2>1, Zenon DEF RouterInv, Typed
    <3>2. CASE i \in 1..Len(inbox[c]) /\ inbox'[c][i] = inbox[c][i]
      BY <2>2, <3>2, Zenon DEF BroadcastInv
    <3>3. CASE inbox'[c][i] = main.item
      BY <2>1, <2>2, <3>3, Zenon DEF BroadcastInv
    <3>4. CASE inbox'[c] = Append(inbox[c], main.item)
      <4>1. \/ i \in 1..Len(inbox[c]) /\ inbox'[c][i] = inbox[c][i]
            \/ inbox'[c][i] = main.item
        BY <3>1, <3>4, ItemAppended, Zenon
      <4> QED BY <3>2, <3>3, <4>1, Zenon
    <3>5. CASE inbox'[c] = inbox[c]
      BY <3>2, <3>5, Zenon
    <3> QED BY <2>1, <3>4, <3>5, Zenon
  <2> QED BY <2>1, <2>2, Zenon DEF BroadcastInv
<1>4. ASSUME NEW r \in Route, HandleReply(r)
      PROVE  BroadcastInv'
  <2> DEFINE m == Head(stream[r])
             p == PendingCall(r, m.serial)
  <2>1. inbox' = inbox /\ (main' = main \/ Rewritten({p.client}, "answer", p.serial, m))
    BY <1>4, Zenon DEF HandleReply
  <2> HIDE DEF m, p
  <2>2. CASE Rewritten({p.client}, "answer", p.serial, m)
    BY <1>2, <2>1, <2>2, RewrittenSite, ZenonT(60)
  <2> QED BY <1>1, <2>1, <2>2, Zenon
<1>5. ASSUME NEW r \in Route, HandleResponse(r)
      PROVE  BroadcastInv'
  <2> DEFINE m == stream["Host"][1]
  <2>0. Head(stream[r]) = m /\ m.kind = "response" /\ 1 \in 1..Len(stream["Host"])
    BY <1>5, ResponseRead, Zenon
  <2>1. /\ inbox' = inbox /\ lapsed' = lapsed
        /\ \/ Rewritten({requests[m.handle].client}, "response", None, m)
           \/ requests[m.handle] = None /\ main' = Delivery(Listeners, "broadcast", None, m.call)
    BY <1>5, <2>0, Zenon DEF HandleResponse
  <2>2. Unnamed(stream["Host"], m.handle, 1 - 1)
    BY NoPlaces, Zenon DEF Unnamed
  <2>3. Tracked(requests[m.handle], m.call, lapsed)
    BY <2>0, <2>2, Zenon DEF TrackedInv, HostTracked
  <2> HIDE DEF m
  <2>4. CASE Rewritten({requests[m.handle].client}, "response", None, m)
    BY <1>2, <2>1, <2>4, RewrittenSite, ZenonT(40)
  <2>5. CASE requests[m.handle] = None /\ main' = Delivery(Listeners, "broadcast", None, m.call)
    <3>1. m.call \in lapsed
      BY <2>3, <2>5, Zenon DEF Tracked
    <3>2. main'.item.call = m.call
      BY <2>5, Zenon DEF Delivery
    <3> QED BY <2>1, <3>1, <3>2, Zenon DEF BroadcastInv
  <2> QED BY <2>1, <2>4, <2>5, Zenon
<1>6. ASSUME NEW c \in Clients, NEW r \in Route, ForwardFails(c, r)
      PROVE  BroadcastInv'
  <2>1. inbox' = inbox /\ main' = Delivery({c}, "answer", made'[c], <<c, made'[c]>>)
    BY <1>6, Zenon DEF ForwardFails
  <2>2. main'.item.kind # "broadcast"
    BY <2>1, Zenon DEF Delivery
  <2> QED BY <1>2, <2>1, <2>2, Zenon
<1>7. ASSUME NEW c \in Clients, NEW r \in Route, ForwardMethodCall(c, r)
      PROVE  BroadcastInv'
  BY <1>1, <1>7, Zenon DEF ForwardMethodCall
<1>8. ASSUME NEW c \in Clients, Connect(c) \/ Unregister(c) \/ RemoveRequests(c)
      PROVE  BroadcastInv'
  BY <1>1, <1>8, Zenon DEF Connect, Unregister, RemoveRequests
<1>9. ASSUME NEW r \in Route, NEW s \in OwnSerials, OwnCall(r, s)
      PROVE  BroadcastInv'
  BY <1>1, <1>9, Zenon DEF OwnCall
<1>10. ASSUME NEW r \in Route, NEW m \in atBus[r], NEW h \in Handles \cup {None}, Answer(r, m, h)
       PROVE  BroadcastInv'
  BY <1>1, <1>10, Zenon DEF Answer
<1>11. ASSUME NEW h \in Handles, Respond(h)
       PROVE  BroadcastInv'
  BY <1>1, <1>11, Zenon DEF Respond
<1>12. CASE CleanupExpired
  BY <1>1, <1>12, Zenon DEF CleanupExpired
<1>13. CASE UNCHANGED vars
  BY <1>1, <1>13, Zenon DEF vars
<1> QED BY <1>3, <1>4, <1>5, <1>6, <1>7, <1>8, <1>9, <1>10, <1>11, <1>12, <1>13, Zenon
        DEF Next, MainStep

-----------------------------------------------------------------------------
(* All together.                                                             *)

\* Nothing has been called.
LEMMA AnswersInit ==
    ASSUME Init
    PROVE  AllAnswersInv
<1>1. RouterInv
  BY InitStep, Zenon
<1>2. PeersInv
  BY Zenon DEF Init, PeersInv
<1>3. AnswersInv
  <2> SUFFICES ASSUME NEW c \in Clients, NEW k \in 1..MaxCalls
               PROVE  AnswerOf(c, k)
    BY Zenon DEF AnswersInv
  <2>1. Forms(Sites(c, k), pending, atBus, stream, main, inbox, c, k)
    BY <1>1, SitesNow, Zenon DEF RouterInv
  <2>2. /\ \A r \in Route : atBus[r] = {} /\ Len(stream[r]) = 0
        /\ main = Idle /\ Len(inbox[c]) = 0 /\ c \notin clients
    BY Zenon DEF Init
  <2>3. \A r, s : r \in Route => ~BusSite(pending, atBus, c, k, r, s)
    BY <2>2, Zenon DEF BusSite
  <2>4. \A r, i : r \in Route => ~StreamSite(pending, stream, c, k, r, i)
    BY <2>2 DEF StreamSite
  <2>5. ~MainSite(main, c, k) /\ \A i : ~InboxSite(inbox, c, k, i)
    BY <2>2 DEF MainSite, InboxSite
  <2>6. Sites(c, k) = {}
    BY <2>1, <2>3, <2>4, <2>5, Zenon DEF Forms
  <2> QED BY <2>2, <2>6, Zenon DEF AnswerOf
<1>4. LiveInv
  <2>1. \A r \in Route : atBus[r] = {} /\ Len(stream[r]) = 0
    BY Zenon DEF Init
  <2> QED BY <2>1 DEF LiveInv, RouteLive
<1>5. TrackedInv
  <2>1. Len(stream["Host"]) = 0 /\ \A h \in Handles : open[h] = None
    BY Zenon DEF Init, Route
  <2> QED BY <2>1 DEF TrackedInv, HostTracked
<1>6. BroadcastInv
  <2>1. main.pc # "deliver" /\ \A c \in Clients : Len(inbox[c]) = 0
    BY Zenon DEF Init, Idle
  <2> QED BY <2>1 DEF BroadcastInv
<1> QED BY <1>1, <1>2, <1>3, <1>4, <1>5, <1>6, Zenon DEF AllAnswersInv

\* No step forgets that a call has lapsed.
LEMMA LapsedGrows ==
    ASSUME [Next]_vars
    PROVE  lapsed \subseteq lapsed'
<1>1. CASE Deliver
  BY <1>1, Zenon DEF Deliver, keptVars
<1>2. CASE CleanupExpired
  BY <1>2, Zenon DEF CleanupExpired
<1>3. ASSUME NEW r \in Route, HandleReply(r) \/ HandleResponse(r)
      PROVE  lapsed' = lapsed
  BY <1>3, Zenon DEF HandleReply, HandleResponse
<1>4. ASSUME NEW c \in Clients, Connect(c) \/ Unregister(c)
      PROVE  lapsed' = lapsed
  BY <1>4, Zenon DEF Connect, Unregister, keptVars
<1>5. ASSUME NEW c \in Clients, RemoveRequests(c)
      PROVE  lapsed \subseteq lapsed'
  BY <1>5, Zenon DEF RemoveRequests
<1>6. ASSUME NEW c \in Clients, NEW r \in Route, ForwardMethodCall(c, r) \/ ForwardFails(c, r)
      PROVE  lapsed' = lapsed
  BY <1>6, Zenon DEF ForwardMethodCall, ForwardFails, keptVars
<1>7. ASSUME NEW r \in Route, NEW s \in OwnSerials, OwnCall(r, s)
      PROVE  lapsed' = lapsed
  BY <1>7, Zenon DEF OwnCall, keptVars
<1>8. ASSUME NEW r \in Route, NEW m \in atBus[r], NEW h \in Handles \cup {None}, Answer(r, m, h)
      PROVE  lapsed' = lapsed
  BY <1>8, Zenon DEF Answer, keptVars
<1>9. ASSUME NEW h \in Handles, Respond(h)
      PROVE  lapsed' = lapsed
  BY <1>9, Zenon DEF Respond, keptVars
<1>10. CASE UNCHANGED vars
  BY <1>10, Zenon DEF vars
<1> QED BY <1>1, <1>2, <1>3, <1>4, <1>5, <1>6, <1>7, <1>8, <1>9, <1>10, Zenon DEF Next, MainStep

\* Every step keeps the three parts that are about calls and requests.
LEMMA AnswersNext ==
    ASSUME AllAnswersInv, OwnApart, [Next]_vars
    PROVE  AllAnswersInv'
<1> USE DEF AllAnswersInv
<1>0. RouterInv' /\ Typed
  BY NextStep, Zenon DEF RouterInv
<1>1. PeersInv' /\ BroadcastInv' /\ lapsed \subseteq lapsed'
  BY <1>0, PeersStep, BroadcastStep, LapsedGrows, Zenon
<1> DEFINE Goal == AnswersInv' /\ LiveInv' /\ TrackedInv'
<1>2. ASSUME Deliver
      PROVE  Goal
  <2>1. UNCHANGED <<atBus, stream, pending>> /\ UNCHANGED <<stream, open, requests, lapsed>>
    BY <1>2, Zenon DEF Deliver, busVars, keptVars
  <2> QED BY <1>0, <1>1, <1>2, <2>1, DeliverAnswers, OthersLive, OthersTracked, Zenon
<1>3. ASSUME CleanupExpired
      PROVE  Goal
  BY <1>0, <1>3, CleanupAnswers, CleanupLive, OthersTracked, Zenon
<1>4. ASSUME NEW r \in Route, HandleReply(r)
      PROVE  Goal
  BY <1>0, <1>4, HandleReplyAnswers, HandleReplyLive, HandleReplyTracked, Zenon
<1>5. ASSUME NEW r \in Route, HandleResponse(r)
      PROVE  Goal
  BY <1>0, <1>5, HandleResponseAnswers, OthersLive, HandleResponseTracked, Zenon
<1>6. ASSUME NEW c \in Clients, Connect(c)
      PROVE  Goal
  <2>1. UNCHANGED <<atBus, stream, pending>> /\ UNCHANGED <<stream, open, requests, lapsed>>
    BY <1>6, Zenon DEF Connect, busVars, keptVars
  <2> QED BY <1>0, <1>1, <1>6, <2>1, ConnectAnswers, OthersLive, OthersTracked, Zenon
<1>7. ASSUME NEW c \in Clients, Unregister(c)
      PROVE  Goal
  <2>1. /\ UNCHANGED <<atBus, stream, pending>> /\ UNCHANGED <<stream, open, requests, lapsed>>
        /\ UNCHANGED <<pending, atBus, stream, main, inbox, made>> /\ clients' \subseteq clients
    BY <1>7, Zenon DEF Unregister, busVars, keptVars
  <2> QED BY <1>0, <1>1, <2>1, BesideAnswers, OthersLive, OthersTracked, Zenon
<1>8. ASSUME NEW c \in Clients, RemoveRequests(c)
      PROVE  Goal
  <2>1. /\ UNCHANGED <<atBus, stream, pending>>
        /\ UNCHANGED <<pending, atBus, stream, main, inbox, made>> /\ clients' \subseteq clients
    BY <1>8, Zenon DEF RemoveRequests, busVars
  <2> QED BY <1>0, <1>1, <1>8, <2>1, BesideAnswers, OthersLive, OthersTracked, Zenon
<1>9. ASSUME NEW c \in Clients, NEW r \in Route, ForwardMethodCall(c, r)
      PROVE  Goal
  <2>1. UNCHANGED <<stream, open, requests, lapsed>>
    BY <1>9, Zenon DEF ForwardMethodCall, keptVars
  <2> QED BY <1>0, <1>9, <2>1, ForwardAnswers, ForwardLive, OthersTracked, Zenon
<1>10. ASSUME NEW c \in Clients, NEW r \in Route, ForwardFails(c, r)
       PROVE  Goal
  <2>1. UNCHANGED <<atBus, stream, pending>> /\ UNCHANGED <<stream, open, requests, lapsed>>
    BY <1>10, Zenon DEF ForwardFails, busVars, keptVars
  <2> QED BY <1>0, <1>1, <1>10, <2>1, ForwardFailsAnswers, OthersLive, OthersTracked, Zenon
<1>11. ASSUME NEW r \in Route, NEW s \in OwnSerials, OwnCall(r, s)
       PROVE  Goal
  <2>1. UNCHANGED <<stream, open, requests, lapsed>>
    BY <1>11, Zenon DEF OwnCall, keptVars
  <2> QED BY <1>0, <1>11, <2>1, OwnCallAnswers, OthersLive, OthersTracked, Zenon
<1>12. ASSUME NEW r \in Route, NEW m \in atBus[r], NEW h \in Handles \cup {None}, Answer(r, m, h)
       PROVE  Goal
  BY <1>0, <1>12, BusAnswers, AnswerLive, BusTracked, Zenon
<1>13. ASSUME NEW h \in Handles, Respond(h)
       PROVE  Goal
  BY <1>0, <1>13, RespondAnswers, OthersLive, BusTracked, Zenon
<1>14. ASSUME UNCHANGED vars
       PROVE  Goal
  <2>1. /\ UNCHANGED <<atBus, stream, pending>> /\ UNCHANGED <<stream, open, requests, lapsed>>
        /\ UNCHANGED <<pending, atBus, stream, main, inbox, made>> /\ clients' \subseteq clients
    BY <1>14, Zenon DEF vars
  <2> QED BY <1>0, <1>1, <2>1, BesideAnswers, OthersLive, OthersTracked, Zenon
<1> HIDE DEF Goal, AllAnswersInv
<1>15. Goal
  BY <1>2, <1>3, <1>4, <1>5, <1>6, <1>7, <1>8, <1>9, <1>10, <1>11, <1>12, <1>13, <1>14, Zenon
     DEF Next, MainStep
<1> QED BY <1>0, <1>1, <1>15, Zenon DEF Goal, AllAnswersInv

-----------------------------------------------------------------------------
\* The invariant of the calls: each is in one place at most, with an entry as long as
\* it is under way, and a portal request is registered by the time its Response comes.
THEOREM AnswersInvariant == OwnApart => (Spec => []AllAnswersInv)
<1> SUFFICES ASSUME OwnApart
             PROVE  Spec => []AllAnswersInv
  BY Zenon
<1>1. Init => AllAnswersInv
  BY AnswersInit, Zenon
<1>2. AllAnswersInv /\ [Next]_vars => AllAnswersInv'
  BY AnswersNext, Zenon
<1> QED BY <1>1, <1>2, PTL DEF Spec

\* forward_method_call and handle_bus_message lose no answer and give none twice:
\* for any number of clients, calls, buses that answer in any order, failures to send
\* and entries that expire, a connected client finds each of its calls, unless its
\* entry lapsed, in exactly one place from which the answer reaches it.
THEOREM AlwaysOneAnswer == OwnApart => (Spec => []ExactlyOneAnswer)
<1> SUFFICES ASSUME OwnApart
             PROVE  Spec => []ExactlyOneAnswer
  BY Zenon
<1>1. Spec => []AllAnswersInv
  BY AnswersInvariant, Zenon
<1>2. AllAnswersInv => ExactlyOneAnswer
  <2> SUFFICES ASSUME AllAnswersInv, NEW c \in clients, NEW k \in 1..made[c], <<c, k>> \notin lapsed
               PROVE  \E x \in Sites(c, k) : Sites(c, k) = {x}
    BY Zenon DEF ExactlyOneAnswer
  <2>1. CASE c \in Clients /\ k \in 1..MaxCalls
    <3>1. AnswerOf(c, k) /\ k <= made[c]
      BY <2>1 DEF AllAnswersInv, AnswersInv
    <3> QED BY <3>1, Zenon DEF AnswerOf
  <2>2. c \in Clients
    BY Zenon DEF AllAnswersInv, PeersInv
  <2>3. made[c] \in 0..MaxCalls
    BY <2>2, Zenon DEF AllAnswersInv, RouterInv, Typed
  <2>4. k \in 1..MaxCalls
    BY <2>3, RouterAssumption
  <2> QED BY <2>1, <2>2, <2>4, Zenon
<1> QED BY <1>1, <1>2, PTL

\* handle_bus_message shows a portal Response to clients that only have a match rule
\* for it when its request had been given up, and to the client that asked otherwise.
THEOREM ResponsesAlwaysPrivate == OwnApart => (Spec => []ResponsesStayPrivate)
<1> SUFFICES ASSUME OwnApart
             PROVE  Spec => []ResponsesStayPrivate
  BY Zenon
<1>1. Spec => []AllAnswersInv
  BY AnswersInvariant, Zenon
<1>2. AllAnswersInv => ResponsesStayPrivate
  BY Zenon DEF AllAnswersInv, BroadcastInv, ResponsesStayPrivate
<1> QED BY <1>1, <1>2, PTL

=============================================================================
