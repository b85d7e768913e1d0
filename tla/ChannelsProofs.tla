--------------------------- MODULE ChannelsProofs ---------------------------
(***************************************************************************)
(* Each request of a served client is answered once and in order, and so   *)
(* are signals (Channels.tla), for any number of clients and any capacity  *)
(* of the channels.                                                        *)
(***************************************************************************)
EXTENDS Channels, TLAPS

Item == [kind : {"reply", "signal", "none"}, n : Nat]

-----------------------------------------------------------------------------
(* Consecutive replies in one queue.                                         *)

\* An empty queue ...
LEMMA ConsecutiveEmpty ==
    ASSUME NEW s, Places(s, "reply") = {}, NEW lo \in Nat
    PROVE  /\ Consecutive(s, lo, lo)
           /\ \A hi \in Nat : Consecutive(s, lo, hi) => hi = lo
<1>1. \A hi \in Nat : lo <= hi /\ (lo + 1)..hi = {} => hi = lo
  <2> TAKE hi \in Nat
  <2> SUFFICES ASSUME lo <= hi, (lo + 1)..hi = {}, hi # lo PROVE FALSE
    BY Zenon
  <2>1. hi \in (lo + 1)..hi
    OBVIOUS
  <2> QED BY <2>1, Zenon
<1>2. (lo + 1)..lo = {} /\ {s[i].n : i \in Places(s, "reply")} = {}
  OBVIOUS
<1> QED BY <1>1, <1>2 DEF Consecutive

\* ... and a queue of one item.
LEMMA ConsecutiveShort ==
    ASSUME NEW lo \in Nat
    PROVE  /\ Consecutive(<<>>, lo, lo)
           /\ \A hi \in Nat : Consecutive(<<>>, lo, hi) => hi = lo
           /\ \A x \in Item :
                /\ x.kind # "reply" => Consecutive(<<x>>, lo, lo)
                /\ x.kind # "reply" => \A hi \in Nat : Consecutive(<<x>>, lo, hi) => hi = lo
                /\ x.kind = "reply" /\ x.n = lo + 1 => Consecutive(<<x>>, lo, lo + 1)
                /\ x.kind = "reply" => \A hi \in Nat : Consecutive(<<x>>, lo, hi) =>
                                                          hi = lo + 1 /\ x.n = lo + 1
<1>1. Places(<<>>, "reply") = {}
  BY DEF Places
<1>2. /\ Consecutive(<<>>, lo, lo)
      /\ \A hi \in Nat : Consecutive(<<>>, lo, hi) => hi = lo
  BY <1>1, ConsecutiveEmpty, Zenon
<1>3. ASSUME NEW x \in Item
      PROVE  /\ x.kind # "reply" => Places(<<x>>, "reply") = {}
             /\ x.kind = "reply" => Places(<<x>>, "reply") = {1}
             /\ <<x>>[1] = x /\ x.n \in Nat
  BY DEF Places, Item
<1>4. ASSUME NEW x \in Item, x.kind # "reply"
      PROVE  /\ Consecutive(<<x>>, lo, lo)
             /\ \A hi \in Nat : Consecutive(<<x>>, lo, hi) => hi = lo
  BY <1>3, <1>4, ConsecutiveEmpty, Zenon
<1>5. ASSUME NEW x \in Item, x.kind = "reply", x.n = lo + 1
      PROVE  Consecutive(<<x>>, lo, lo + 1)
  <2>1. {<<x>>[i].n : i \in Places(<<x>>, "reply")} = {lo + 1}
    BY <1>3, <1>5
  <2>2. (lo + 1)..(lo + 1) = {lo + 1}
    OBVIOUS
  <2> QED BY <1>3, <1>5, <2>1, <2>2 DEF Consecutive
<1>6. ASSUME NEW x \in Item, x.kind = "reply", NEW hi \in Nat, Consecutive(<<x>>, lo, hi)
      PROVE  hi = lo + 1 /\ x.n = lo + 1
  <2>1. {x.n} = (lo + 1)..hi /\ lo <= hi
    BY <1>3, <1>6 DEF Consecutive
  <2>2. x.n \in (lo + 1)..hi /\ \A k \in (lo + 1)..hi : k = x.n
    BY <2>1, Zenon
  <2>3. lo + 1 \in (lo + 1)..hi /\ hi \in (lo + 1)..hi
    BY <1>3, <2>2
  <2> QED BY <2>2, <2>3, Zenon
<1> QED BY <1>2, <1>4, <1>5, <1>6, Zenon

\* An item is put at the end.
LEMMA ConsecutiveAppend ==
    ASSUME NEW s \in Seq(Item), NEW x \in Item, NEW lo \in Nat, NEW hi \in Nat,
           Consecutive(s, lo, hi)
    PROVE  /\ x.kind # "reply" => Consecutive(Append(s, x), lo, hi)
           /\ x.kind = "reply" /\ x.n = hi + 1 => Consecutive(Append(s, x), lo, hi + 1)
<1> DEFINE t == Append(s, x)
           L == Len(s)
<1>1. /\ L \in Nat /\ DOMAIN s = 1..L /\ DOMAIN t = 1..(L + 1)
      /\ \A i \in 1..L : t[i] = s[i]
      /\ t[L + 1] = x
  OBVIOUS
<1> HIDE DEF t, L
<1>2. ASSUME x.kind # "reply" PROVE Consecutive(t, lo, hi)
  <2>1. Places(t, "reply") = Places(s, "reply")
    BY <1>1, <1>2 DEF Places
  <2>2. \A i \in Places(s, "reply") : t[i] = s[i]
    BY <1>1, Zenon DEF Places
  <2> QED BY <2>1, <2>2 DEF Consecutive
<1>3. ASSUME x.kind = "reply", x.n = hi + 1 PROVE Consecutive(t, lo, hi + 1)
  <2>1. Places(t, "reply") = Places(s, "reply") \cup {L + 1}
    BY <1>1, <1>3 DEF Places
  <2>2. \A i \in Places(s, "reply") : t[i] = s[i] /\ i \in 1..L /\ s[i].n \in (lo + 1)..hi
    BY <1>1, Zenon DEF Places, Consecutive
  <2>3. lo <= hi /\ (lo + 1)..(hi + 1) = (lo + 1)..hi \cup {hi + 1}
    BY DEF Consecutive
  <2>4. {t[i].n : i \in Places(t, "reply")} = {s[i].n : i \in Places(s, "reply")} \cup {hi + 1}
    BY <2>1, <2>2, <1>1, <1>3, ZenonT(40)
  <2>5. ASSUME NEW i \in Places(t, "reply"), NEW j \in Places(t, "reply"), i < j
        PROVE  t[i].n < t[j].n
    BY <2>1, <2>2, <2>5, <1>1, <1>3, SMTT(40) DEF Consecutive
  <2>6. {s[i].n : i \in Places(s, "reply")} = (lo + 1)..hi
    BY Zenon DEF Consecutive
  <2>7. {t[i].n : i \in Places(t, "reply")} = (lo + 1)..(hi + 1)
    BY <2>3, <2>4, <2>6, Zenon
  <2>8. lo <= hi + 1
    BY <2>3
  <2> QED BY <2>5, <2>7, <2>8, Zenon DEF Consecutive
<1> QED BY <1>2, <1>3, Zenon DEF t

\* The first item is taken.
LEMMA ConsecutiveTail ==
    ASSUME NEW s \in Seq(Item), s # <<>>, NEW lo \in Nat, NEW hi \in Nat,
           Consecutive(s, lo, hi)
    PROVE  /\ Head(s).kind # "reply" => Consecutive(Tail(s), lo, hi)
           /\ Head(s).kind = "reply" =>
                 Head(s).n = lo + 1 /\ lo + 1 <= hi /\ Consecutive(Tail(s), lo + 1, hi)
<1> DEFINE t == Tail(s)
           L == Len(s)
<1>1. /\ L \in Nat /\ L >= 1 /\ DOMAIN s = 1..L /\ DOMAIN t = 1..(L - 1)
      /\ \A i \in 1..(L - 1) : t[i] = s[i + 1]
      /\ Head(s) = s[1] /\ \A i \in 1..L : s[i] \in Item
  OBVIOUS
<1> HIDE DEF t, L
<1>2. \A i \in Places(t, "reply") : i + 1 \in Places(s, "reply") /\ t[i] = s[i + 1]
  BY <1>1 DEF Places
<1>3. \A j \in Places(s, "reply") : j = 1 \/ (j - 1 \in Places(t, "reply") /\ t[j - 1] = s[j])
  <2> TAKE j \in Places(s, "reply")
  <2>1. j \in 1..L /\ s[j].kind = "reply"
    BY <1>1, Zenon DEF Places
  <2>2. CASE j # 1
    <3>1. j - 1 \in 1..(L - 1) /\ (j - 1) + 1 = j
      BY <1>1, <2>1, <2>2
    <3> QED BY <1>1, <2>1, <3>1, Zenon DEF Places
  <2> QED BY <2>2, Zenon
<1>4. \A i \in Places(t, "reply") : i \in Nat
  BY <1>1 DEF Places
<1>5. \A i, j \in Places(t, "reply") : i < j => t[i].n < t[j].n
  BY <1>2, <1>4, SMTT(40) DEF Consecutive
<1>6. ASSUME Head(s).kind # "reply" PROVE Consecutive(t, lo, hi)
  <2>1. 1 \notin Places(s, "reply")
    BY <1>1, <1>6, Zenon DEF Places
  <2>2. {t[i].n : i \in Places(t, "reply")} = {s[i].n : i \in Places(s, "reply")}
    BY <1>2, <1>3, <2>1, ZenonT(30)
  <2> QED BY <1>5, <2>2, Zenon DEF Consecutive
<1>7. ASSUME Head(s).kind = "reply"
      PROVE  Head(s).n = lo + 1 /\ lo + 1 <= hi /\ Consecutive(t, lo + 1, hi)
  <2>1. 1 \in Places(s, "reply")
    BY <1>1, <1>7 DEF Places
  <2>2. /\ \A i \in Places(s, "reply") : s[i].n \in (lo + 1)..hi
        /\ \A k \in (lo + 1)..hi : \E i \in Places(s, "reply") : s[i].n = k
        /\ lo <= hi
    BY Zenon DEF Consecutive
  <2>3. s[1].n \in (lo + 1)..hi /\ lo + 1 <= hi
    BY <2>1, <2>2
  <2>4. \A i \in Places(t, "reply") : s[1].n < t[i].n
    <3> TAKE i \in Places(t, "reply")
    <3>1. i \in Nat /\ i >= 1 /\ i + 1 \in Places(s, "reply") /\ t[i] = s[i + 1]
      BY <1>1, <1>2 DEF Places
    <3> QED BY <2>1, <3>1 DEF Consecutive
  <2>5. s[1].n = lo + 1
    <3>1. lo + 1 \in (lo + 1)..hi
      BY <2>3
    <3>2. PICK i \in Places(s, "reply") : s[i].n = lo + 1
      BY <2>2, <3>1, Zenon
    <3>3. CASE i = 1
      BY <3>2, <3>3, Zenon
    <3>4. CASE i # 1
      <4>1. s[1].n < lo + 1
        BY <1>3, <2>4, <3>2, <3>4, Zenon
      <4> QED BY <2>3, <4>1
    <3> QED BY <3>3, <3>4, Zenon
  <2>6. ASSUME NEW i \in Places(t, "reply") PROVE t[i].n \in (lo + 2)..hi
    <3>1. t[i].n \in (lo + 1)..hi
      BY <1>2, <2>2, Zenon
    <3> QED BY <2>4, <2>5, <3>1
  <2>7. ASSUME NEW k \in (lo + 2)..hi PROVE \E i \in Places(t, "reply") : t[i].n = k
    <3>1. k \in (lo + 1)..hi /\ k # lo + 1
      OBVIOUS
    <3>2. PICK i \in Places(s, "reply") : s[i].n = k
      BY <2>2, <3>1, Zenon
    <3>3. i # 1
      BY <2>5, <3>1, <3>2, Zenon
    <3> QED BY <1>3, <3>2, <3>3, Zenon
  <2>8. {t[i].n : i \in Places(t, "reply")} = (lo + 2)..hi
    BY <2>6, <2>7, Zenon
  <2>9. lo + 2 = (lo + 1) + 1
    OBVIOUS
  <2> QED BY <1>1, <1>5, <2>3, <2>5, <2>8, <2>9, Zenon DEF Consecutive
<1> QED BY <1>6, <1>7, Zenon DEF t

\* Two queues one after the other.
LEMMA ConsecutiveConcat ==
    ASSUME NEW s \in Seq(Item), NEW t \in Seq(Item),
           NEW lo \in Nat, NEW mid \in Nat, NEW hi \in Nat,
           Consecutive(s, lo, mid), Consecutive(t, mid, hi)
    PROVE  s \o t \in Seq(Item) /\ Consecutive(s \o t, lo, hi)
<1> DEFINE u == s \o t
           L == Len(s)
           M == Len(t)
           S == Places(s, "reply")
           T == Places(t, "reply")
           U == Places(u, "reply")
<1>1. /\ L \in Nat /\ M \in Nat /\ DOMAIN s = 1..L /\ DOMAIN t = 1..M
      /\ DOMAIN u = 1..(L + M) /\ u \in Seq(Item)
      /\ \A i \in 1..L : u[i] = s[i]
      /\ \A i \in 1..M : u[L + i] = t[i]
  OBVIOUS
<1> HIDE DEF u, L, M
<1>2. \A i \in S : i \in 1..L /\ i \in U /\ u[i] = s[i]
  BY <1>1 DEF Places
<1>3. \A i \in T : i \in 1..M /\ L + i \in U /\ u[L + i] = t[i]
  BY <1>1 DEF Places
<1>4. \A k \in U : k \in S \/ (k - L \in T /\ k = L + (k - L))
  <2> TAKE k \in U
  <2>1. k \in 1..(L + M) /\ u[k].kind = "reply"
    BY <1>1, Zenon DEF Places
  <2>2. CASE k <= L
    <3>1. k \in 1..L
      BY <1>1, <2>1, <2>2
    <3> QED BY <1>1, <2>1, <3>1, Zenon DEF Places
  <2>3. CASE ~ (k <= L)
    <3>1. k - L \in 1..M /\ k = L + (k - L)
      BY <1>1, <2>1, <2>3
    <3>2. u[k] = t[k - L]
      BY <1>1, <3>1, Zenon
    <3> QED BY <1>1, <2>1, <3>1, <3>2, Zenon DEF Places
  <2> QED BY <2>2, <2>3, Zenon
<1>5. /\ \A i \in S : s[i].n \in (lo + 1)..mid
      /\ \A i \in T : t[i].n \in (mid + 1)..hi
      /\ \A k \in (lo + 1)..mid : \E i \in S : s[i].n = k
      /\ \A k \in (mid + 1)..hi : \E i \in T : t[i].n = k
      /\ lo <= mid /\ mid <= hi
  BY Zenon DEF Consecutive
<1>6. \A k \in U : u[k].n \in (lo + 1)..hi
  <2> TAKE k \in U
  <2>1. CASE k \in S
    <3>1. u[k].n \in (lo + 1)..mid
      BY <1>2, <1>5, <2>1, Zenon
    <3> QED BY <1>5, <3>1
  <2>2. CASE k - L \in T /\ k = L + (k - L)
    <3>1. u[k].n \in (mid + 1)..hi
      BY <1>3, <1>5, <2>2, ZenonT(40)
    <3> QED BY <1>5, <3>1
  <2> QED BY <1>4, <2>1, <2>2, Zenon
<1>7. ASSUME NEW k \in (lo + 1)..hi PROVE \E i \in U : u[i].n = k
  <2>1. CASE k <= mid
    <3>1. k \in (lo + 1)..mid
      BY <2>1
    <3> QED BY <1>2, <1>5, <3>1, Zenon
  <2>2. CASE ~ (k <= mid)
    <3>1. k \in (mid + 1)..hi
      BY <2>2
    <3>2. PICK i \in T : t[i].n = k
      BY <1>5, <3>1, Zenon
    <3> QED BY <1>3, <3>2, Zenon
  <2> QED BY <2>1, <2>2, Zenon
<1>8. ASSUME NEW i \in U, NEW j \in U, i < j PROVE u[i].n < u[j].n
  <2>1. CASE i \in S /\ j \in S
    BY <1>2, <1>8, <2>1, Zenon DEF Consecutive
  <2>2. CASE i \in S /\ j \notin S
    <3>1. u[i].n \in (lo + 1)..mid
      BY <1>2, <1>5, <2>2, Zenon
    <3>2. j - L \in T /\ u[j] = t[j - L]
      BY <1>3, <1>4, <2>2, Zenon
    <3>3. u[j].n \in (mid + 1)..hi
      BY <1>5, <3>2, Zenon
    <3> QED BY <3>1, <3>3, SMTT(40)
  <2>3. CASE i \notin S /\ j \in S
    <3>1. i = L + (i - L) /\ (i - L) \in 1..M /\ j \in 1..L
      BY <1>2, <1>3, <1>4, <2>3, Zenon
    <3> QED BY <1>1, <1>8, <3>1
  <2>4. CASE i \notin S /\ j \notin S
    <3>1. /\ i - L \in T /\ j - L \in T /\ i - L \in 1..M /\ j - L \in 1..M
          /\ u[i] = t[i - L] /\ u[j] = t[j - L] /\ i = L + (i - L) /\ j = L + (j - L)
      BY <1>3, <1>4, <2>4, Zenon
    <3>2. i - L < j - L
      BY <1>1, <1>8, <3>1
    <3> QED BY <3>1, <3>2, Zenon DEF Consecutive
  <2> QED BY <2>1, <2>2, <2>3, <2>4, Zenon
<1>9. {u[k].n : k \in U} = (lo + 1)..hi
  BY <1>6, <1>7, Zenon
<1>10. lo <= hi
  BY <1>5
<1> QED BY <1>1, <1>8, <1>9, <1>10, Zenon DEF Consecutive, u

-----------------------------------------------------------------------------
(* The replies to one client from its task's hands back to its task's hands: *)
(* w, out, ans, ask and h are the five parts of Pipe, and each step of a     *)
(* message is one from a part to the one before it.                          *)

Chain(w, out, ans, ask, h, lo, hi) ==
    \E a, b, d, e \in Nat :
        /\ Consecutive(w, lo, a) /\ Consecutive(out, a, b) /\ Consecutive(ans, b, d)
        /\ Consecutive(ask, d, e) /\ Consecutive(h, e, hi)

\* What the parts have in order, the pipe has in order.
LEMMA ChainIsPipe ==
    ASSUME NEW w \in Seq(Item), NEW out \in Seq(Item), NEW ans \in Seq(Item),
           NEW ask \in Seq(Item), NEW h \in Seq(Item), NEW lo \in Nat, NEW hi \in Nat,
           Chain(w, out, ans, ask, h, lo, hi)
    PROVE  Consecutive(w \o out \o ans \o ask \o h, lo, hi)
<1>1. PICK a, b, d, e \in Nat :
        /\ Consecutive(w, lo, a) /\ Consecutive(out, a, b) /\ Consecutive(ans, b, d)
        /\ Consecutive(ask, d, e) /\ Consecutive(h, e, hi)
  BY Zenon DEF Chain
<1>2. w \o out \in Seq(Item) /\ Consecutive(w \o out, lo, b)
  BY <1>1, ConsecutiveConcat, Zenon
<1>3. w \o out \o ans \in Seq(Item) /\ Consecutive(w \o out \o ans, lo, d)
  BY <1>1, <1>2, ConsecutiveConcat, Zenon
<1>4. w \o out \o ans \o ask \in Seq(Item) /\ Consecutive(w \o out \o ans \o ask, lo, e)
  BY <1>1, <1>3, ConsecutiveConcat, Zenon
<1> QED BY <1>1, <1>4, ConsecutiveConcat, Zenon

\* The task reads the next request, and hands it on.
LEMMA ChainRead ==
    ASSUME NEW w, NEW out, NEW ans, NEW ask, NEW lo \in Nat, NEW hi \in Nat,
           NEW x \in Item, x.kind = "reply", x.n = hi + 1,
           Chain(w, out, ans, ask, <<>>, lo, hi)
    PROVE  Chain(w, out, ans, ask, <<x>>, lo, hi + 1)
  BY ConsecutiveShort, Zenon DEF Chain

\* The task puts its request into the loop's channel.
LEMMA ChainHand ==
    ASSUME NEW w, NEW out, NEW ans, NEW ask \in Seq(Item), NEW lo \in Nat, NEW hi \in Nat,
           NEW x \in Item, x.kind = "reply", Chain(w, out, ans, ask, <<x>>, lo, hi)
    PROVE  Chain(w, out, ans, Append(ask, x), <<>>, lo, hi)
<1>1. PICK a, b, d, e \in Nat :
        /\ Consecutive(w, lo, a) /\ Consecutive(out, a, b) /\ Consecutive(ans, b, d)
        /\ Consecutive(ask, d, e) /\ Consecutive(<<x>>, e, hi)
  BY Zenon DEF Chain
<1>2. hi = e + 1 /\ x.n = e + 1
  BY <1>1, ConsecutiveShort, Zenon
<1>3. Consecutive(Append(ask, x), d, hi) /\ Consecutive(<<>>, hi, hi)
  BY <1>1, <1>2, ConsecutiveShort, ConsecutiveAppend, Zenon
<1> QED BY <1>1, <1>3, Zenon DEF Chain

\* A request of another client enters the loop's channel.
LEMMA ChainPassed ==
    ASSUME NEW w, NEW out, NEW ans, NEW ask \in Seq(Item), NEW h, NEW lo \in Nat, NEW hi \in Nat,
           NEW x \in Item, x.kind # "reply", Chain(w, out, ans, ask, h, lo, hi)
    PROVE  Chain(w, out, ans, Append(ask, x), h, lo, hi)
  BY ConsecutiveAppend, Zenon DEF Chain

\* The loop takes a request, of this client or of another.
LEMMA ChainTake ==
    ASSUME NEW w, NEW out, NEW ask \in Seq(Item), NEW h, NEW lo \in Nat, NEW hi \in Nat,
           ask # <<>>, Chain(w, out, <<>>, ask, h, lo, hi)
    PROVE  /\ Head(ask).kind = "reply" => Chain(w, out, <<Head(ask)>>, Tail(ask), h, lo, hi)
           /\ Head(ask).kind # "reply" => Chain(w, out, <<>>, Tail(ask), h, lo, hi)
<1>1. PICK a, b, d, e \in Nat :
        /\ Consecutive(w, lo, a) /\ Consecutive(out, a, b) /\ Consecutive(<<>>, b, d)
        /\ Consecutive(ask, d, e) /\ Consecutive(h, e, hi)
  BY Zenon DEF Chain
<1>2. d = b /\ Head(ask) \in Item
  BY <1>1, ConsecutiveShort
<1>3. ASSUME Head(ask).kind = "reply"
      PROVE  Consecutive(<<Head(ask)>>, b, b + 1) /\ Consecutive(Tail(ask), b + 1, e)
  BY <1>1, <1>2, <1>3, ConsecutiveShort, ConsecutiveTail, Zenon
<1>4. ASSUME Head(ask).kind = "reply" PROVE Chain(w, out, <<Head(ask)>>, Tail(ask), h, lo, hi)
  <2>1. b + 1 \in Nat
    OBVIOUS
  <2> QED BY <1>1, <1>3, <1>4, <2>1, Zenon DEF Chain
<1>5. ASSUME Head(ask).kind # "reply" PROVE Chain(w, out, <<>>, Tail(ask), h, lo, hi)
  <2>1. Consecutive(Tail(ask), d, e)
    BY <1>1, <1>5, ConsecutiveTail, Zenon
  <2> QED BY <1>1, <2>1, Zenon DEF Chain
<1> QED BY <1>4, <1>5, Zenon

\* The loop turns to a signal, and away from one that this client does not get.
LEMMA ChainSignal ==
    ASSUME NEW w, NEW out, NEW ask, NEW h, NEW lo \in Nat, NEW hi \in Nat,
           NEW x \in Item, x.kind # "reply"
    PROVE  Chain(w, out, <<>>, ask, h, lo, hi) <=> Chain(w, out, <<x>>, ask, h, lo, hi)
<1>1. \A b, d \in Nat : Consecutive(<<>>, b, d) <=> Consecutive(<<x>>, b, d)
  BY ConsecutiveShort
<1> QED BY <1>1, Zenon DEF Chain

\* The loop puts the message into the client's channel.
LEMMA ChainSend ==
    ASSUME NEW w, NEW out \in Seq(Item), NEW ask, NEW h, NEW lo \in Nat, NEW hi \in Nat,
           NEW x \in Item, Chain(w, out, <<x>>, ask, h, lo, hi)
    PROVE  Chain(w, Append(out, x), <<>>, ask, h, lo, hi)
<1>1. PICK a, b, d, e \in Nat :
        /\ Consecutive(w, lo, a) /\ Consecutive(out, a, b) /\ Consecutive(<<x>>, b, d)
        /\ Consecutive(ask, d, e) /\ Consecutive(h, e, hi)
  BY Zenon DEF Chain
<1>2. Consecutive(Append(out, x), a, d)
  <2>1. CASE x.kind = "reply"
    <3>1. d = b + 1 /\ x.n = b + 1
      BY <1>1, <2>1, ConsecutiveShort, Zenon
    <3> QED BY <1>1, <2>1, <3>1, ConsecutiveAppend, Zenon
  <2>2. CASE x.kind # "reply"
    <3>1. d = b
      BY <1>1, <2>2, ConsecutiveShort, Zenon
    <3> QED BY <1>1, <2>2, <3>1, ConsecutiveAppend, Zenon
  <2> QED BY <2>1, <2>2, Zenon
<1>3. Consecutive(<<>>, d, d)
  BY ConsecutiveShort, Zenon
<1> QED BY <1>1, <1>2, <1>3, Zenon DEF Chain

\* The task takes the message out of its channel, and writes it.
LEMMA ChainRecv ==
    ASSUME NEW out \in Seq(Item), NEW ans, NEW ask, NEW h, NEW lo \in Nat, NEW hi \in Nat,
           out # <<>>, Chain(<<>>, out, ans, ask, h, lo, hi)
    PROVE  Chain(<<Head(out)>>, Tail(out), ans, ask, h, lo, hi)
<1>1. PICK a, b, d, e \in Nat :
        /\ Consecutive(<<>>, lo, a) /\ Consecutive(out, a, b) /\ Consecutive(ans, b, d)
        /\ Consecutive(ask, d, e) /\ Consecutive(h, e, hi)
  BY Zenon DEF Chain
<1>2. a = lo /\ Head(out) \in Item
  BY <1>1, ConsecutiveShort
<1>3. PICK a1 \in Nat : Consecutive(<<Head(out)>>, lo, a1) /\ Consecutive(Tail(out), a1, b)
  <2>1. CASE Head(out).kind = "reply"
    <3>1. lo + 1 \in Nat
      OBVIOUS
    <3> QED BY <1>1, <1>2, <2>1, <3>1, ConsecutiveShort, ConsecutiveTail, Zenon
  <2>2. CASE Head(out).kind # "reply"
    BY <1>1, <1>2, <2>2, ConsecutiveShort, ConsecutiveTail, Zenon
  <2> QED BY <2>1, <2>2, Zenon
<1> QED BY <1>1, <1>3, Zenon DEF Chain

\* The client reads the message that its task is writing.
LEMMA ChainWrite ==
    ASSUME NEW out, NEW ans, NEW ask, NEW h, NEW lo \in Nat, NEW hi \in Nat,
           NEW x \in Item, Chain(<<x>>, out, ans, ask, h, lo, hi)
    PROVE  /\ x.kind = "reply" => x.n = lo + 1 /\ Chain(<<>>, out, ans, ask, h, x.n, hi)
           /\ x.kind # "reply" => Chain(<<>>, out, ans, ask, h, lo, hi)
<1>1. PICK a, b, d, e \in Nat :
        /\ Consecutive(<<x>>, lo, a) /\ Consecutive(out, a, b) /\ Consecutive(ans, b, d)
        /\ Consecutive(ask, d, e) /\ Consecutive(h, e, hi)
  BY Zenon DEF Chain
<1>2. /\ x.kind = "reply" => a = x.n /\ x.n = lo + 1
      /\ x.kind # "reply" => a = lo
  BY <1>1, ConsecutiveShort, Zenon
<1>3. Consecutive(<<>>, a, a)
  BY ConsecutiveShort, Zenon
<1>4. Chain(<<>>, out, ans, ask, h, a, hi)
  BY <1>1, <1>3, Zenon DEF Chain
<1> QED BY <1>2, <1>4, Zenon

\* Nothing is asked for and nothing on its way.
LEMMA ChainEmpty ==
    ASSUME NEW lo \in Nat PROVE Chain(<<>>, <<>>, <<>>, <<>>, <<>>, lo, lo)
  BY ConsecutiveShort, Zenon DEF Chain

\* A request in the loop's channel or with the loop is one that was made.
LEMMA ChainMade ==
    ASSUME NEW w, NEW out, NEW ask, NEW h, NEW lo \in Nat,
           NEW x \in Item, x.kind = "reply"
    PROVE  ~ Chain(w, out, <<x>>, ask, h, lo, 0)
<1> SUFFICES ASSUME Chain(w, out, <<x>>, ask, h, lo, 0) PROVE FALSE
  BY Zenon
<1>1. PICK a, b, d, e \in Nat :
        /\ Consecutive(w, lo, a) /\ Consecutive(out, a, b) /\ Consecutive(<<x>>, b, d)
        /\ Consecutive(ask, d, e) /\ Consecutive(h, e, 0)
  BY Zenon DEF Chain
<1>2. d = b + 1
  BY <1>1, ConsecutiveShort, Zenon
<1>3. d <= e /\ e <= 0
  BY <1>1, Zenon DEF Consecutive
<1> QED BY <1>2, <1>3

-----------------------------------------------------------------------------
(* The signals in one queue: later than k, the latest at most m.             *)

Fits(s, k, m) == Later(s, k) /\ k <= m /\ \A i \in Places(s, "signal") : s[i].n <= m

\* A message is put at the end, a signal only if it is the next one.
LEMMA FitsAppend ==
    ASSUME NEW s \in Seq(Item), NEW x \in Item, NEW k \in Int, NEW m \in Int, Fits(s, k, m)
    PROVE  /\ x.kind # "signal" => Fits(Append(s, x), k, m)
           /\ x.kind = "signal" /\ x.n = m + 1 => Fits(Append(s, x), k, m + 1)
<1> DEFINE t == Append(s, x)
           L == Len(s)
<1>1. /\ L \in Nat /\ DOMAIN s = 1..L /\ DOMAIN t = 1..(L + 1)
      /\ \A i \in 1..L : t[i] = s[i] /\ s[i] \in Item
      /\ t[L + 1] = x
  OBVIOUS
<1> HIDE DEF t, L
<1>2. \A i \in Places(s, "signal") : i \in 1..L /\ t[i] = s[i] /\ s[i].n \in Nat
  BY <1>1, Zenon DEF Places, Item
<1>3. ASSUME x.kind # "signal" PROVE Fits(t, k, m)
  <2>1. Places(t, "signal") = Places(s, "signal")
    BY <1>1, <1>3 DEF Places
  <2> QED BY <1>2, <2>1 DEF Fits, Later
<1>4. ASSUME x.kind = "signal", x.n = m + 1 PROVE Fits(t, k, m + 1)
  <2>1. Places(t, "signal") = Places(s, "signal") \cup {L + 1}
    BY <1>1, <1>4 DEF Places
  <2>2. ASSUME NEW i \in Places(t, "signal")
        PROVE  t[i].n > k /\ t[i].n <= m + 1
    BY <1>1, <1>2, <1>4, <2>1 DEF Fits, Later
  <2>3. ASSUME NEW i \in Places(t, "signal"), NEW j \in Places(t, "signal"), j < i
        PROVE  t[j].n < t[i].n
    BY <1>1, <1>2, <1>4, <2>1, <2>3, SMTT(40) DEF Fits, Later
  <2>4. k <= m + 1
    BY DEF Fits
  <2> QED BY <2>2, <2>3, <2>4, Zenon DEF Fits, Later
<1> QED BY <1>3, <1>4, Zenon DEF t

\* The first message is taken.
LEMMA FitsTail ==
    ASSUME NEW s \in Seq(Item), s # <<>>, NEW k \in Int, NEW m \in Int, Fits(s, k, m)
    PROVE  /\ Head(s).kind # "signal" => Fits(Tail(s), k, m)
           /\ Head(s).kind = "signal" => k < Head(s).n /\ Fits(Tail(s), Head(s).n, m)
<1> DEFINE t == Tail(s)
           L == Len(s)
<1>1. /\ L \in Nat /\ L >= 1 /\ DOMAIN s = 1..L /\ DOMAIN t = 1..(L - 1)
      /\ \A i \in 1..(L - 1) : t[i] = s[i + 1]
      /\ Head(s) = s[1] /\ \A i \in 1..L : s[i] \in Item
  OBVIOUS
<1> HIDE DEF t, L
<1>2. \A i \in Places(t, "signal") : /\ i + 1 \in Places(s, "signal") /\ t[i] = s[i + 1]
                                     /\ i \in Nat /\ i >= 1
  BY <1>1 DEF Places
<1>3. Fits(t, k, m)
  BY <1>2, SMTT(40) DEF Fits, Later
<1>4. ASSUME Head(s).kind = "signal" PROVE k < Head(s).n /\ Fits(t, Head(s).n, m)
  <2>1. 1 \in Places(s, "signal") /\ s[1].n \in Nat
    BY <1>1, <1>4 DEF Places, Item
  <2>2. k < s[1].n /\ s[1].n <= m
    BY <2>1, Zenon DEF Fits, Later
  <2>3. ASSUME NEW i \in Places(t, "signal") PROVE t[i].n > s[1].n
    BY <1>2, <2>1 DEF Fits, Later
  <2> QED BY <1>1, <1>3, <2>2, <2>3, Zenon DEF Fits, Later
<1> QED BY <1>3, <1>4, Zenon DEF t

\* The bound grows.
LEMMA FitsMore ==
    ASSUME NEW s \in Seq(Item), NEW k \in Int, NEW m \in Int, NEW m1 \in Int, m <= m1,
           Fits(s, k, m)
    PROVE  Fits(s, k, m1)
<1>1. \A i \in Places(s, "signal") : s[i].n \in Nat
  <2>1. \A i \in DOMAIN s : s[i] \in Item
    OBVIOUS
  <2> QED BY <2>1, Zenon DEF Places, Item
<1> QED BY <1>1 DEF Fits, Later

\* An empty queue.
LEMMA FitsEmpty ==
    ASSUME NEW k \in Int, NEW m \in Int, k <= m PROVE Fits(<<>>, k, m)
<1>1. Places(<<>>, "signal") = {}
  BY DEF Places
<1> QED BY <1>1, Zenon DEF Fits, Later

\* The message that is being written and those in the channel.
LEMMA FitsCons ==
    ASSUME NEW s \in Seq(Item), NEW x \in Item, NEW k \in Int, NEW m \in Int
    PROVE  /\ Fits(s, k, m) => Later(<<>> \o s, k)
           /\ x.kind # "signal" /\ Fits(s, k, m) => Later(<<x>> \o s, k)
           /\ x.kind = "signal" /\ k < x.n /\ Fits(s, x.n, m) => Later(<<x>> \o s, k)
<1> DEFINE t == <<x>> \o s
           L == Len(s)
<1>1. /\ L \in Nat /\ DOMAIN s = 1..L /\ DOMAIN t = 1..(L + 1)
      /\ \A i \in 2..(L + 1) : t[i] = s[i - 1]
      /\ \A i \in 1..L : s[i] \in Item
      /\ t[1] = x /\ <<>> \o s = s
  OBVIOUS
<1> HIDE DEF t, L
<1>2. \A i \in Places(t, "signal") :
         \/ i = 1 /\ x.kind = "signal"
         \/ i \in 2..(L + 1) /\ i - 1 \in Places(s, "signal") /\ t[i] = s[i - 1]
  <2> TAKE i \in Places(t, "signal")
  <2>1. i \in 1..(L + 1) /\ t[i].kind = "signal"
    BY <1>1, Zenon DEF Places
  <2>2. CASE i # 1
    <3>1. i \in 2..(L + 1) /\ i - 1 \in 1..L
      BY <1>1, <2>1, <2>2
    <3> QED BY <1>1, <2>1, <3>1, Zenon DEF Places
  <2> QED BY <1>1, <2>1, <2>2, Zenon
<1>3. \A i \in Places(s, "signal") : s[i].n \in Nat
  BY <1>1, Zenon DEF Places, Item
<1>4. Fits(s, k, m) => Later(<<>> \o s, k)
  BY <1>1, Zenon DEF Fits
<1>5. ASSUME x.kind # "signal", Fits(s, k, m) PROVE Later(t, k)
  <2>1. \A i \in Places(t, "signal") :
           i \in 2..(L + 1) /\ i - 1 \in Places(s, "signal") /\ t[i] = s[i - 1]
    BY <1>2, <1>5, Zenon
  <2>2. ASSUME NEW i \in Places(t, "signal"), NEW j \in Places(t, "signal"), j < i
        PROVE  t[j].n < t[i].n
    <3>1. j - 1 < i - 1
      BY <2>1, <2>2
    <3> QED BY <1>5, <2>1, <3>1, Zenon DEF Fits, Later
  <2> QED BY <1>5, <2>1, <2>2, Zenon DEF Fits, Later
<1>6. ASSUME x.kind = "signal", k < x.n, Fits(s, x.n, m) PROVE Later(t, k)
  <2>0. x.n \in Nat
    BY Zenon DEF Item
  <2>1. ASSUME NEW i \in Places(t, "signal") PROVE t[i].n > k
    <3>1. CASE i = 1
      BY <1>1, <1>6, <2>0, <3>1, Zenon
    <3>2. CASE i # 1
      <4>1. i - 1 \in Places(s, "signal") /\ t[i] = s[i - 1]
        BY <1>2, <3>2, Zenon
      <4>2. s[i - 1].n > x.n /\ s[i - 1].n \in Nat
        BY <1>3, <1>6, <4>1, Zenon DEF Fits, Later
      <4> QED BY <1>6, <2>0, <4>1, <4>2
    <3> QED BY <3>1, <3>2, Zenon
  <2>2. ASSUME NEW i \in Places(t, "signal"), NEW j \in Places(t, "signal"), j < i
        PROVE  t[j].n < t[i].n
    <3>1. i \in 2..(L + 1) /\ i - 1 \in Places(s, "signal") /\ t[i] = s[i - 1]
      BY <1>1, <1>2, <2>2
    <3>2. CASE j = 1
      BY <1>1, <1>6, <3>1, <3>2, Zenon DEF Fits, Later
    <3>3. CASE j # 1
      <4>1. j \in 2..(L + 1) /\ j - 1 \in Places(s, "signal") /\ t[j] = s[j - 1]
        BY <1>2, <3>3, Zenon
      <4>2. j - 1 < i - 1
        BY <1>1, <2>2, <3>1, <4>1
      <4> QED BY <1>6, <3>1, <4>1, <4>2, Zenon DEF Fits, Later
    <3> QED BY <3>2, <3>3, Zenon
  <2> QED BY <2>1, <2>2, Zenon DEF Later
<1> QED BY <1>4, <1>5, <1>6, Zenon DEF t

-----------------------------------------------------------------------------
(* The loop's channel, seen by one client.                                   *)

AskedIn(q, c) == [i \in DOMAIN q |-> IF q[i][1] = c THEN Reply(q[i][2]) ELSE NoItem]

\* Channels with the same messages in the same places are the same.
LEMMA SameSequence ==
    ASSUME NEW S, NEW s \in Seq(S), NEW t \in Seq(S), Len(s) = Len(t),
           \A i \in 1..Len(s) : s[i] = t[i]
    PROVE  s = t
  OBVIOUS

\* It has a place for every request in the channel.
LEMMA AskedTyped ==
    ASSUME NEW q \in Seq(Clients \X Nat), NEW c \in Clients
    PROVE  AskedIn(q, c) \in Seq(Item) /\ Len(AskedIn(q, c)) = Len(q)
<1>1. /\ Len(q) \in Nat /\ DOMAIN q = 1..Len(q)
      /\ \A i \in 1..Len(q) : q[i] \in Clients \X Nat
  OBVIOUS
<1>2. \A r \in Clients \X Nat : (IF r[1] = c THEN Reply(r[2]) ELSE NoItem) \in Item
  BY Zenon DEF Reply, NoItem, Item
<1> QED BY <1>1, <1>2 DEF AskedIn

\* A request joins the loop's channel, or leaves it, for every client alike.
LEMMA AskedQueue ==
    ASSUME NEW q \in Seq(Clients \X Nat), NEW c \in Clients
    PROVE  /\ AskedIn(q, c) \in Seq(Item)
           /\ \A d \in Clients, n \in Nat :
                 /\ c = d => AskedIn(Append(q, <<d, n>>), c) = Append(AskedIn(q, c), Reply(n))
                 /\ c # d => AskedIn(Append(q, <<d, n>>), c) = Append(AskedIn(q, c), NoItem)
           /\ q # <<>> =>
                 /\ AskedIn(q, c) # <<>>
                 /\ Head(AskedIn(q, c)) = IF Head(q)[1] = c THEN Reply(Head(q)[2]) ELSE NoItem
                 /\ AskedIn(Tail(q), c) = Tail(AskedIn(q, c))
<1> DEFINE L == Len(q)
           R(r) == IF r[1] = c THEN Reply(r[2]) ELSE NoItem
<1>1. L \in Nat /\ DOMAIN q = 1..L /\ \A i \in 1..L : q[i] \in Clients \X Nat
  OBVIOUS
<1>2. \A r \in Clients \X Nat : R(r) \in Item
  BY Zenon DEF Reply, NoItem, Item
<1>3. AskedIn(q, c) = [i \in 1..L |-> R(q[i])]
  BY <1>1, Zenon DEF AskedIn
<1>4. AskedIn(q, c) \in Seq(Item) /\ Len(AskedIn(q, c)) = L
  BY AskedTyped, Zenon
<1>5. ASSUME NEW r \in Clients \X Nat
      PROVE  AskedIn(Append(q, r), c) = Append(AskedIn(q, c), R(r))
  <2>1. /\ DOMAIN Append(q, r) = 1..(L + 1) /\ Append(q, r)[L + 1] = r
        /\ \A i \in 1..L : Append(q, r)[i] = q[i]
    BY <1>1
  <2>2. Append(q, r) \in Seq(Clients \X Nat)
    BY <1>1
  <2>3. /\ AskedIn(Append(q, r), c) = [i \in 1..(L + 1) |-> R(Append(q, r)[i])]
        /\ \A i \in 1..(L + 1) : Append(q, r)[i] \in Clients \X Nat
    BY <2>1, <2>2 DEF AskedIn
  <2> HIDE DEF R
  <2>4. AskedIn(Append(q, r), c) \in Seq(Item) /\ Len(AskedIn(Append(q, r), c)) = L + 1
    BY <1>1, <1>2, <2>3
  <2>5. /\ Append(AskedIn(q, c), R(r)) \in Seq(Item)
        /\ Len(Append(AskedIn(q, c), R(r))) = L + 1
        /\ \A i \in 1..L : Append(AskedIn(q, c), R(r))[i] = AskedIn(q, c)[i]
        /\ Append(AskedIn(q, c), R(r))[L + 1] = R(r)
    BY <1>1, <1>2, <1>4
  <2>6. \A i \in 1..(L + 1) : AskedIn(Append(q, r), c)[i] = Append(AskedIn(q, c), R(r))[i]
    BY <1>1, <1>3, <2>1, <2>3, <2>5
  <2> QED BY <2>4, <2>5, <2>6, SameSequence, Zenon
<1>6. ASSUME q # <<>>
      PROVE  /\ AskedIn(q, c) # <<>> /\ Head(AskedIn(q, c)) = R(Head(q))
             /\ AskedIn(Tail(q), c) = Tail(AskedIn(q, c))
  <2>1. L >= 1 /\ Head(q) = q[1]
    BY <1>1, <1>6
  <2>2. /\ DOMAIN Tail(q) = 1..(L - 1)
        /\ \A i \in 1..(L - 1) : Tail(q)[i] = q[i + 1]
    BY <1>1, <1>6
  <2>3. /\ AskedIn(Tail(q), c) = [i \in 1..(L - 1) |-> R(Tail(q)[i])]
        /\ \A i \in 1..(L - 1) : Tail(q)[i] \in Clients \X Nat
    BY <1>1, <2>2, SMTT(40) DEF AskedIn
  <2> HIDE DEF R
  <2>4. AskedIn(q, c) # <<>> /\ Head(AskedIn(q, c)) = R(Head(q))
    BY <1>1, <1>3, <1>4, <2>1
  <2>5. AskedIn(Tail(q), c) \in Seq(Item) /\ Len(AskedIn(Tail(q), c)) = L - 1
    <3>1. Tail(q) \in Seq(Clients \X Nat) /\ Len(Tail(q)) = L - 1
      BY <1>1, <1>6
    <3> QED BY <3>1, AskedTyped, Zenon
  <2>6. /\ Tail(AskedIn(q, c)) \in Seq(Item) /\ Len(Tail(AskedIn(q, c))) = L - 1
        /\ \A i \in 1..(L - 1) : Tail(AskedIn(q, c))[i] = AskedIn(q, c)[i + 1]
    BY <1>1, <1>4, <2>1, <2>4
  <2>7. \A i \in 1..(L - 1) : AskedIn(Tail(q), c)[i] = Tail(AskedIn(q, c))[i]
    BY <1>1, <1>3, <2>1, <2>2, <2>3, <2>6
  <2> QED BY <2>4, <2>5, <2>6, <2>7, SameSequence, Zenon
<1> HIDE DEF L
<1>7. ASSUME NEW d \in Clients, NEW n \in Nat
      PROVE  /\ c = d => AskedIn(Append(q, <<d, n>>), c) = Append(AskedIn(q, c), Reply(n))
             /\ c # d => AskedIn(Append(q, <<d, n>>), c) = Append(AskedIn(q, c), NoItem)
  <2>1. /\ <<d, n>> \in Clients \X Nat
        /\ R(<<d, n>>) = IF c = d THEN Reply(n) ELSE NoItem
    BY Zenon
  <2> HIDE DEF R
  <2> QED BY <1>5, <2>1, Zenon
<1> QED BY <1>4, <1>6, <1>7, Zenon

-----------------------------------------------------------------------------
(* The inductive invariant.                                                  *)

Typed ==
    /\ clients \subseteq Clients
    /\ made \in [Clients -> Nat] /\ unread \in [Clients -> Nat]
    /\ task \in [Clients -> [pc : Serving \cup {"absent", "leaving", "gone"}, item : Item]]
    /\ inbound \in Seq(Clients \X Nat)
    /\ outbound \in [Clients -> Seq(Item)]
    /\ got \in [Clients -> [reply : Nat, signal : Nat]]
    /\ loop \in [pc : {"idle", "reply", "send"}, to : SUBSET Clients, item : Item]
    /\ signals \in Nat

\* A reply has one addressee, and a signal that is being handed out is the last one.
LoopProper ==
    /\ loop.pc = "idle" => loop = Idle
    /\ loop.item.kind = "none" => loop.pc = "idle"
    /\ loop.pc = "reply" => loop.item.kind = "reply"
    /\ loop.item.kind = "reply" => \E c \in Clients : loop.to = {c}
    /\ loop.item.kind = "signal" => loop.item.n = signals

TaskProper(c) ==
    /\ unread[c] <= made[c]
    /\ task[c].pc \in Serving => c \in clients
    /\ task[c].pc = "absent" => made[c] = 0
    /\ task[c].pc = "hand" => task[c].item.kind = "reply"
    /\ task[c].pc = "write" => task[c].item.kind # "none"
    /\ \A i \in DOMAIN outbound[c] : outbound[c][i].kind # "none"

\* What a served client has asked is in the places of its pipe, in order.
Ordered(c) ==
    task[c].pc \in Serving \cup {"absent"} =>
        Chain(Holding(c, "write"), outbound[c], Answering(c), AskedIn(inbound, c),
              Holding(c, "hand"), got[c].reply, made[c] - unread[c])

\* The last signal that has left the channel of c, and the last one put into it or
\* not meant for it.
WritingSignal(c) == task[c].pc = "write" /\ task[c].item.kind = "signal"
Left(c) == IF WritingSignal(c) THEN task[c].item.n ELSE got[c].signal
Entered(c) == IF c \in loop.to /\ loop.item.kind = "signal" THEN signals - 1 ELSE signals
InTurn(c) ==
    /\ Fits(outbound[c], Left(c), Entered(c))
    /\ WritingSignal(c) => got[c].signal < task[c].item.n

ChannelsInv ==
    /\ Typed /\ LoopProper
    /\ \A c \in Clients : TaskProper(c) /\ Ordered(c) /\ InTurn(c)

-----------------------------------------------------------------------------
(* Every step keeps it.                                                      *)

\* What the invariant says of the parts of one client's pipe.
LEMMA Parts ==
    ASSUME ChannelsInv, NEW d \in Clients
    PROVE  /\ Holding(d, "write") \in Seq(Item) /\ Holding(d, "hand") \in Seq(Item)
           /\ Answering(d) \in Seq(Item) /\ AskedIn(inbound, d) \in Seq(Item)
           /\ outbound[d] \in Seq(Item) /\ task[d].item \in Item /\ loop.item \in Item
           /\ got[d].reply \in Nat /\ got[d].signal \in Nat
           /\ made[d] \in Nat /\ unread[d] \in Nat /\ made[d] - unread[d] \in Nat
           /\ Left(d) \in Nat /\ Entered(d) \in Int /\ signals \in Nat
<1>1. /\ task[d].item \in Item /\ loop.item \in Item /\ outbound[d] \in Seq(Item)
      /\ made[d] \in Nat /\ unread[d] \in Nat /\ unread[d] <= made[d]
      /\ got[d].reply \in Nat /\ got[d].signal \in Nat /\ signals \in Nat
  BY Zenon DEF ChannelsInv, Typed, TaskProper
<1>2. Holding(d, "write") \in Seq(Item) /\ Holding(d, "hand") \in Seq(Item)
      /\ Answering(d) \in Seq(Item)
  BY <1>1 DEF Holding, Answering
<1>3. AskedIn(inbound, d) \in Seq(Item)
  BY AskedQueue, Zenon DEF ChannelsInv, Typed
<1>4. Left(d) \in Nat /\ Entered(d) \in Int
  BY <1>1 DEF Left, Entered, Item
<1> QED BY <1>1, <1>2, <1>3, <1>4, SMTT(40)

\* A client that a step does not touch.
LEMMA Bystander ==
    ASSUME ChannelsInv, NEW d \in Clients,
           task'[d] = task[d], outbound'[d] = outbound[d], got'[d] = got[d],
           made'[d] = made[d], unread'[d] = unread[d], signals' = signals,
           d \in clients => d \in clients',
           d \in loop.to <=> d \in loop'.to, d \in loop.to => loop'.item = loop.item,
           AskedIn(inbound', d) = AskedIn(inbound, d)
    PROVE  TaskProper(d)' /\ Ordered(d)' /\ InTurn(d)'
<1>1. TaskProper(d) /\ Ordered(d) /\ InTurn(d)
  BY Zenon DEF ChannelsInv
<1>2. TaskProper(d)'
  BY <1>1, Zenon DEF TaskProper
<1>3. Ordered(d)'
  BY <1>1, Zenon DEF Ordered, Holding, Answering
<1>4. InTurn(d)'
  BY <1>1, Zenon DEF InTurn, WritingSignal, Left, Entered
<1> QED BY <1>2, <1>3, <1>4, Zenon

\* The invariant holds when the server starts.
LEMMA ChannelsInit == Init => ChannelsInv
<1> SUFFICES ASSUME Init PROVE ChannelsInv
  BY Zenon
<1>1. Typed /\ LoopProper
  BY DEF Init, Typed, LoopProper, Idle, At, NoItem, Item
<1>2. ASSUME NEW c \in Clients PROVE TaskProper(c) /\ Ordered(c) /\ InTurn(c)
  <2>1. TaskProper(c)
    BY DEF Init, TaskProper, At, NoItem, Serving
  <2>2. Ordered(c)
    <3>1. /\ Holding(c, "write") = <<>> /\ Holding(c, "hand") = <<>> /\ Answering(c) = <<>>
          /\ outbound[c] = <<>> /\ AskedIn(inbound, c) = <<>>
          /\ got[c].reply = 0 /\ made[c] - unread[c] = 0
      BY DEF Init, Holding, Answering, AskedIn, At, Idle
    <3> QED BY <3>1, ChainEmpty, Zenon DEF Ordered
  <2>3. InTurn(c)
    <3>1. outbound[c] = <<>> /\ ~ WritingSignal(c) /\ Left(c) = 0 /\ Entered(c) = 0
      BY Zenon DEF Init, WritingSignal, Left, Entered, At, Idle
    <3>2. Fits(<<>>, 0, 0)
      BY FitsEmpty
    <3> QED BY <3>1, <3>2, Zenon DEF InTurn
  <2> QED BY <2>1, <2>2, <2>3, Zenon
<1> QED BY <1>1, <1>2, Zenon DEF ChannelsInv

\* The client writes a request: it waits, unread, outside the pipe.
LEMMA RequestKeeps ==
    ASSUME ChannelsInv, NEW c \in Clients, Request(c) PROVE ChannelsInv'
<1>0. /\ made' = [made EXCEPT ![c] = @ + 1] /\ unread' = [unread EXCEPT ![c] = @ + 1]
      /\ task[c].pc \in Serving
      /\ clients' = clients /\ task' = task /\ inbound' = inbound /\ outbound' = outbound
      /\ got' = got /\ loop' = loop /\ signals' = signals
  BY Zenon DEF Request
<1>1. Typed' /\ LoopProper'
  <2>1. Typed /\ LoopProper
    BY Zenon DEF ChannelsInv
  <2>2. made' \in [Clients -> Nat] /\ unread' \in [Clients -> Nat]
    BY <1>0, <2>1, SMTT(40) DEF Typed
  <2> QED BY <1>0, <2>1, <2>2, Zenon DEF Typed, LoopProper
<1>2. ASSUME NEW d \in Clients PROVE TaskProper(d)' /\ Ordered(d)' /\ InTurn(d)'
  <2>1. CASE d # c
    BY <1>0, <2>1, Bystander, Zenon DEF ChannelsInv, Typed
  <2>2. CASE d = c
    <3>1. /\ made'[c] = made[c] + 1 /\ unread'[c] = unread[c] + 1
          /\ made[c] \in Nat /\ unread[c] \in Nat /\ task[c].pc \in Serving
      BY <1>0, Zenon DEF ChannelsInv, Typed
    <3>2. TaskProper(c)'
      BY <1>0, <3>1 DEF ChannelsInv, TaskProper, Serving
    <3>3. Ordered(c)'
      <4>1. made'[c] - unread'[c] = made[c] - unread[c]
        BY <3>1
      <4> QED BY <1>0, <4>1, Zenon DEF ChannelsInv, Ordered, Holding, Answering
    <3>4. InTurn(c)'
      BY <1>0, Zenon DEF ChannelsInv, InTurn, WritingSignal, Left, Entered
    <3> QED BY <2>2, <3>2, <3>3, <3>4, Zenon
  <2> QED BY <2>1, <2>2, Zenon
<1> QED BY <1>1, <1>2, Zenon DEF ChannelsInv

\* The client closes its socket: nothing in the server has changed yet.
LEMMA CloseKeeps ==
    ASSUME ChannelsInv, NEW c \in Clients, Close(c) PROVE ChannelsInv'
<1>1. Typed' /\ LoopProper'
  BY Zenon DEF ChannelsInv, Typed, LoopProper, Close
<1>2. ASSUME NEW d \in Clients PROVE TaskProper(d)' /\ Ordered(d)' /\ InTurn(d)'
  BY Bystander, Zenon DEF Close
<1> QED BY <1>1, <1>2, Zenon DEF ChannelsInv

\* The task registers the client, which starts with an empty pipe.
LEMMA ConnectKeeps ==
    ASSUME ChannelsInv, NEW c \in Clients, Connect(c) PROVE ChannelsInv'
<1>0. Typed /\ LoopProper /\ TaskProper(c) /\ Ordered(c) /\ InTurn(c)
  BY Zenon DEF ChannelsInv
<1>1. At("select", NoItem) \in [pc : Serving \cup {"absent", "leaving", "gone"}, item : Item]
  BY Zenon DEF At, NoItem, Item, Serving
<1>2. Typed' /\ LoopProper'
  BY <1>0, <1>1, Zenon DEF Typed, LoopProper, Connect
<1>3. ASSUME NEW d \in Clients PROVE TaskProper(d)' /\ Ordered(d)' /\ InTurn(d)'
  <2>1. CASE d # c
    BY <1>0, <2>1, Bystander, Zenon DEF Connect, Typed
  <2>2. CASE d = c
    <3>1. task'[c] = At("select", NoItem) /\ task[c].pc = "absent"
      BY <1>0, Zenon DEF Connect, Typed
    <3>2. TaskProper(c)'
      BY <1>0, <3>1 DEF TaskProper, Connect, At
    <3>3. Ordered(c)'
      <4>1. /\ Holding(c, "write") = <<>> /\ Holding(c, "hand") = <<>>
            /\ Holding(c, "write")' = <<>> /\ Holding(c, "hand")' = <<>>
        BY <3>1 DEF Holding, At
      <4> QED BY <1>0, <3>1, <4>1, Zenon DEF Ordered, Answering, Connect
    <3>4. InTurn(c)'
      BY <1>0, <3>1 DEF InTurn, WritingSignal, Left, Entered, Connect, At
    <3> QED BY <2>2, <3>2, <3>3, <3>4, Zenon
  <2> QED BY <2>1, <2>2, Zenon
<1> QED BY <1>2, <1>3, Zenon DEF ChannelsInv

\* The task reads the next request, the first outside the pipe.
LEMMA ReadRequestKeeps ==
    ASSUME ChannelsInv, NEW c \in Clients, ReadRequest(c) PROVE ChannelsInv'
<1>0. Typed /\ LoopProper /\ TaskProper(c) /\ Ordered(c) /\ InTurn(c)
  BY Zenon DEF ChannelsInv
<1> DEFINE x == Reply(made[c] - unread[c] + 1)
<1>1. /\ made[c] \in Nat /\ unread[c] \in Nat /\ unread[c] > 0 /\ unread[c] <= made[c]
      /\ made[c] - unread[c] \in Nat /\ made[c] - unread[c] + 1 \in Nat
  BY <1>0 DEF Typed, TaskProper, ReadRequest
<1>2. x \in Item /\ x.kind = "reply" /\ x.n = made[c] - unread[c] + 1
  BY <1>1, Zenon DEF Reply, Item
<1> HIDE DEF x
<1>3. /\ task[c].pc = "select" /\ task' = [task EXCEPT ![c] = At("hand", x)]
      /\ unread' = [unread EXCEPT ![c] = @ - 1]
  BY Zenon DEF ReadRequest, x
<1>4. /\ task'[c] = At("hand", x) /\ unread'[c] = unread[c] - 1
      /\ made'[c] - unread'[c] = made[c] - unread[c] + 1
  BY <1>0, <1>1, <1>3 DEF Typed, ReadRequest
<1>5. At("hand", x) \in [pc : Serving \cup {"absent", "leaving", "gone"}, item : Item]
  BY <1>2, Zenon DEF At, Serving
<1>6. Typed' /\ LoopProper'
  <2>1. task' \in [Clients -> [pc : Serving \cup {"absent", "leaving", "gone"}, item : Item]]
    BY <1>0, <1>3, <1>5, Zenon DEF Typed
  <2>2. unread' \in [Clients -> Nat]
    BY <1>0, <1>1, <1>3, SMTT(40) DEF Typed
  <2> QED BY <1>0, <2>1, <2>2, Zenon DEF Typed, LoopProper, ReadRequest
<1>7. ASSUME NEW d \in Clients PROVE TaskProper(d)' /\ Ordered(d)' /\ InTurn(d)'
  <2>1. CASE d # c
    BY <1>0, <2>1, Bystander, Zenon DEF ReadRequest, Typed
  <2>2. CASE d = c
    <3>1. TaskProper(c)'
      BY <1>0, <1>1, <1>2, <1>3, <1>4 DEF TaskProper, ReadRequest, At, Serving
    <3>2. Ordered(c)'
      <4>1. /\ Holding(c, "write") = <<>> /\ Holding(c, "hand") = <<>>
            /\ Holding(c, "write")' = <<>> /\ Holding(c, "hand")' = <<x>>
        BY <1>3, <1>4 DEF Holding, At
      <4>2. Chain(<<>>, outbound[c], Answering(c), AskedIn(inbound, c), <<>>,
                  got[c].reply, made[c] - unread[c])
        BY <1>0, <1>3, <4>1, Zenon DEF Ordered, Serving
      <4>3. got[c].reply \in Nat
        BY <1>0, Zenon DEF Typed
      <4>4. Chain(<<>>, outbound[c], Answering(c), AskedIn(inbound, c), <<x>>,
                  got[c].reply, made[c] - unread[c] + 1)
        BY <1>1, <1>2, <4>2, <4>3, ChainRead, Zenon
      <4> QED BY <1>4, <4>1, <4>4, Zenon DEF Ordered, Answering, ReadRequest
    <3>3. InTurn(c)'
      BY <1>0, <1>3, <1>4 DEF InTurn, WritingSignal, Left, Entered, ReadRequest, At
    <3> QED BY <2>2, <3>1, <3>2, <3>3, Zenon
  <2> QED BY <2>1, <2>2, Zenon
<1> QED BY <1>6, <1>7, Zenon DEF ChannelsInv

\* The task puts the request into the loop's channel, behind those of all clients.
LEMMA HandOnKeeps ==
    ASSUME ChannelsInv, NEW c \in Clients, HandOn(c) PROVE ChannelsInv'
<1>0. Typed /\ LoopProper /\ TaskProper(c) /\ Ordered(c) /\ InTurn(c)
  BY Zenon DEF ChannelsInv
<1> DEFINE x == task[c].item
<1>1. /\ task[c].pc = "hand" /\ task' = [task EXCEPT ![c] = At("select", NoItem)]
      /\ inbound' = Append(inbound, <<c, x.n>>)
  BY Zenon DEF HandOn
<1>2. x \in Item /\ x.kind = "reply" /\ x.n \in Nat /\ x = Reply(x.n)
  BY <1>0, <1>1, Zenon DEF Typed, TaskProper, Item, Reply
<1>3. task'[c] = At("select", NoItem)
  BY <1>0, <1>1, Zenon DEF Typed
<1>4. At("select", NoItem) \in [pc : Serving \cup {"absent", "leaving", "gone"}, item : Item]
  BY Zenon DEF At, NoItem, Item, Serving
<1>5. Typed' /\ LoopProper'
  <2>1. inbound' \in Seq(Clients \X Nat)
    BY <1>0, <1>1, <1>2, SMTT(40) DEF Typed
  <2>2. task' \in [Clients -> [pc : Serving \cup {"absent", "leaving", "gone"}, item : Item]]
    BY <1>0, <1>1, <1>4, Zenon DEF Typed
  <2> QED BY <1>0, <2>1, <2>2, Zenon DEF Typed, LoopProper, HandOn
<1>6. ASSUME NEW d \in Clients PROVE TaskProper(d)' /\ Ordered(d)' /\ InTurn(d)'
  <2>0. TaskProper(d) /\ Ordered(d) /\ InTurn(d)
    BY Zenon DEF ChannelsInv
  <2>1. CASE d # c
    <3>1. task'[d] = task[d]
      BY <1>0, <1>1, <2>1, Zenon DEF Typed
    <3>2. TaskProper(d)'
      BY <2>0, <3>1, Zenon DEF TaskProper, HandOn
    <3>3. InTurn(d)'
      BY <2>0, <3>1, Zenon DEF InTurn, WritingSignal, Left, Entered, HandOn
    <3>4. Ordered(d)'
      <4>1. AskedIn(inbound', d) = Append(AskedIn(inbound, d), NoItem)
        <5>1. inbound \in Seq(Clients \X Nat)
          BY <1>0, Zenon DEF Typed
        <5> HIDE DEF x
        <5>2. AskedIn(Append(inbound, <<c, x.n>>), d) = Append(AskedIn(inbound, d), NoItem)
          BY <1>2, <2>1, <5>1, AskedQueue, ZenonT(40)
        <5> QED BY <1>1, <5>2, Zenon
      <4>2. NoItem \in Item /\ NoItem.kind # "reply"
        BY Zenon DEF NoItem, Item
      <4>3. /\ AskedIn(inbound, d) \in Seq(Item)
            /\ got[d].reply \in Nat /\ made[d] - unread[d] \in Nat
        BY Parts, Zenon
      <4>4. /\ Holding(d, "write")' = Holding(d, "write")
            /\ Holding(d, "hand")' = Holding(d, "hand")
        BY <3>1, Zenon DEF Holding
      <4>5. ASSUME task[d].pc \in Serving \cup {"absent"}
            PROVE  Chain(Holding(d, "write"), outbound[d], Answering(d),
                         Append(AskedIn(inbound, d), NoItem),
                         Holding(d, "hand"), got[d].reply, made[d] - unread[d])
        BY <2>0, <4>2, <4>3, <4>5, ChainPassed, Zenon DEF Ordered
      <4> QED BY <3>1, <4>1, <4>4, <4>5, Zenon DEF Ordered, Answering, HandOn
    <3> QED BY <3>2, <3>3, <3>4, Zenon
  <2>2. CASE d = c
    <3>1. TaskProper(c)'
      BY <1>0, <1>1, <1>3 DEF TaskProper, HandOn, At, Serving
    <3>2. Ordered(c)'
      <4>1. AskedIn(inbound', c) = Append(AskedIn(inbound, c), x)
        <5>1. inbound \in Seq(Clients \X Nat)
          BY <1>0, Zenon DEF Typed
        <5> HIDE DEF x
        <5>2. AskedIn(Append(inbound, <<c, x.n>>), c) = Append(AskedIn(inbound, c), Reply(x.n))
          BY <1>2, <5>1, AskedQueue, ZenonT(40)
        <5> QED BY <1>1, <1>2, <5>2, Zenon
      <4>2. /\ Holding(c, "write") = <<>> /\ Holding(c, "hand") = <<x>>
            /\ Holding(c, "write")' = <<>> /\ Holding(c, "hand")' = <<>>
        BY <1>1, <1>3 DEF Holding, At
      <4>3. /\ AskedIn(inbound, c) \in Seq(Item)
            /\ got[c].reply \in Nat /\ made[c] - unread[c] \in Nat
        BY Parts, Zenon
      <4>4. Chain(<<>>, outbound[c], Answering(c), AskedIn(inbound, c), <<x>>,
                  got[c].reply, made[c] - unread[c])
        BY <1>0, <1>1, <4>2, Zenon DEF Ordered, Serving
      <4>5. Chain(<<>>, outbound[c], Answering(c), Append(AskedIn(inbound, c), x), <<>>,
                  got[c].reply, made[c] - unread[c])
        BY <1>2, <4>3, <4>4, ChainHand, Zenon
      <4> QED BY <4>1, <4>2, <4>5, Zenon DEF Ordered, Answering, HandOn
    <3>3. InTurn(c)'
      BY <1>0, <1>1, <1>3 DEF InTurn, WritingSignal, Left, Entered, HandOn, At
    <3> QED BY <2>2, <3>1, <3>2, <3>3, Zenon
  <2> QED BY <2>1, <2>2, Zenon
<1> QED BY <1>5, <1>6, Zenon DEF ChannelsInv

\* The task takes the first message of its channel.
LEMMA RecvOutboundKeeps ==
    ASSUME ChannelsInv, NEW c \in Clients, RecvOutbound(c) PROVE ChannelsInv'
<1>0. Typed /\ LoopProper /\ TaskProper(c) /\ Ordered(c) /\ InTurn(c)
  BY Zenon DEF ChannelsInv
<1> DEFINE x == Head(outbound[c])
<1>1. /\ task[c].pc = "select" /\ task' = [task EXCEPT ![c] = At("write", x)]
      /\ outbound[c] # <<>> /\ outbound' = [outbound EXCEPT ![c] = Tail(@)]
  BY Zenon DEF RecvOutbound
<1>2. /\ outbound[c] \in Seq(Item) /\ x \in Item /\ x.n \in Nat /\ x.kind # "none"
      /\ Tail(outbound[c]) \in Seq(Item)
      /\ \A i \in DOMAIN Tail(outbound[c]) : Tail(outbound[c])[i].kind # "none"
  <2>1. outbound[c] \in Seq(Item)
    BY <1>0, Zenon DEF Typed
  <2>2. \A i \in DOMAIN outbound[c] : outbound[c][i].kind # "none"
    BY <1>0, Zenon DEF TaskProper
  <2>3. x = outbound[c][1] /\ 1 \in DOMAIN outbound[c] /\ x \in Item
    BY <1>1, <2>1
  <2>4. \A i \in DOMAIN Tail(outbound[c]) :
           i + 1 \in DOMAIN outbound[c] /\ Tail(outbound[c])[i] = outbound[c][i + 1]
    BY <1>1, <2>1
  <2>5. Tail(outbound[c]) \in Seq(Item)
    BY <1>1, <2>1
  <2> QED BY <2>1, <2>2, <2>3, <2>4, <2>5, Zenon DEF Item
<1> HIDE DEF x
<1>3. task'[c] = At("write", x) /\ outbound'[c] = Tail(outbound[c])
  BY <1>0, <1>1, Zenon DEF Typed
<1>4. At("write", x) \in [pc : Serving \cup {"absent", "leaving", "gone"}, item : Item]
  BY <1>2, Zenon DEF At, Serving
<1>5. Typed' /\ LoopProper'
  <2>1. outbound' \in [Clients -> Seq(Item)]
    BY <1>0, <1>1, <1>2, Zenon DEF Typed
  <2>2. task' \in [Clients -> [pc : Serving \cup {"absent", "leaving", "gone"}, item : Item]]
    BY <1>0, <1>1, <1>4, Zenon DEF Typed
  <2> QED BY <1>0, <2>1, <2>2, Zenon DEF Typed, LoopProper, RecvOutbound
<1>6. ASSUME NEW d \in Clients PROVE TaskProper(d)' /\ Ordered(d)' /\ InTurn(d)'
  <2>1. CASE d # c
    BY <1>0, <2>1, Bystander, Zenon DEF RecvOutbound, Typed
  <2>2. CASE d = c
    <3>1. TaskProper(c)'
      BY <1>0, <1>1, <1>2, <1>3 DEF TaskProper, RecvOutbound, At, Serving
    <3>2. Ordered(c)'
      <4>1. /\ Holding(c, "write") = <<>> /\ Holding(c, "hand") = <<>>
            /\ Holding(c, "write")' = <<x>> /\ Holding(c, "hand")' = <<>>
        BY <1>1, <1>3 DEF Holding, At
      <4>2. got[c].reply \in Nat /\ made[c] - unread[c] \in Nat
        BY Parts, Zenon
      <4>3. Chain(<<>>, outbound[c], Answering(c), AskedIn(inbound, c), <<>>,
                  got[c].reply, made[c] - unread[c])
        BY <1>0, <1>1, <4>1, Zenon DEF Ordered, Serving
      <4>4. Chain(<<x>>, Tail(outbound[c]), Answering(c), AskedIn(inbound, c), <<>>,
                  got[c].reply, made[c] - unread[c])
        BY <1>1, <1>2, <4>2, <4>3, ChainRecv, Zenon DEF x
      <4> QED BY <1>3, <4>1, <4>4, Zenon DEF Ordered, Answering, RecvOutbound
    <3>3. InTurn(c)'
      <4>1. /\ ~ WritingSignal(c) /\ Left(c) = got[c].signal /\ Entered(c)' = Entered(c)
            /\ WritingSignal(c)' <=> x.kind = "signal"
            /\ Left(c)' = IF x.kind = "signal" THEN x.n ELSE got[c].signal
            /\ got' = got /\ task'[c].item = x
        BY <1>1, <1>3 DEF WritingSignal, Left, Entered, RecvOutbound, At
      <4>2. Entered(c) \in Int /\ got[c].signal \in Nat /\ got[c].signal \in Int
        BY Parts
      <4>3. Fits(outbound[c], got[c].signal, Entered(c))
        BY <1>0, <4>1, Zenon DEF InTurn
      <4>4. /\ x.kind # "signal" => Fits(Tail(outbound[c]), got[c].signal, Entered(c))
            /\ x.kind = "signal" =>
                  got[c].signal < x.n /\ Fits(Tail(outbound[c]), x.n, Entered(c))
        BY <1>1, <1>2, <4>2, <4>3, FitsTail, Zenon DEF x
      <4> QED BY <1>3, <4>1, <4>4, Zenon DEF InTurn
    <3> QED BY <2>2, <3>1, <3>2, <3>3, Zenon
  <2> QED BY <2>1, <2>2, Zenon
<1> QED BY <1>5, <1>6, Zenon DEF ChannelsInv

\* The client has the message: the next reply, or a signal later than its last.
LEMMA WriteKeeps ==
    ASSUME ChannelsInv, NEW c \in Clients, Write(c) PROVE ChannelsInv'
<1>0. Typed /\ LoopProper /\ TaskProper(c) /\ Ordered(c) /\ InTurn(c)
  BY Zenon DEF ChannelsInv
<1> DEFINE x == task[c].item
           g == IF x.kind = "reply" THEN [got[c] EXCEPT !.reply = x.n]
                ELSE [got[c] EXCEPT !.signal = x.n]
<1>1. /\ task[c].pc = "write" /\ task' = [task EXCEPT ![c] = At("select", NoItem)]
      /\ got' = [got EXCEPT ![c] = g]
  BY Zenon DEF Write, Got
<1>2. x \in Item /\ x.n \in Nat /\ x.kind \in {"reply", "signal"}
  BY <1>0, <1>1, Zenon DEF Typed, TaskProper, Item
<1> HIDE DEF x
<1>3. got[c] \in [reply : Nat, signal : Nat]
  BY <1>0, Zenon DEF Typed
<1>4. /\ g \in [reply : Nat, signal : Nat]
      /\ x.kind = "reply" => g.reply = x.n /\ g.signal = got[c].signal
      /\ x.kind = "signal" => g.reply = got[c].reply /\ g.signal = x.n
  BY <1>2, <1>3, Zenon
<1> HIDE DEF g
<1>5. task'[c] = At("select", NoItem) /\ got'[c] = g
  BY <1>0, <1>1, Zenon DEF Typed
<1>6. At("select", NoItem) \in [pc : Serving \cup {"absent", "leaving", "gone"}, item : Item]
  BY Zenon DEF At, NoItem, Item, Serving
<1>7. Typed' /\ LoopProper'
  <2>1. got' \in [Clients -> [reply : Nat, signal : Nat]]
    BY <1>0, <1>1, <1>4, Zenon DEF Typed
  <2>2. task' \in [Clients -> [pc : Serving \cup {"absent", "leaving", "gone"}, item : Item]]
    BY <1>0, <1>1, <1>6, Zenon DEF Typed
  <2> QED BY <1>0, <2>1, <2>2, Zenon DEF Typed, LoopProper, Write
<1>8. ASSUME NEW d \in Clients PROVE TaskProper(d)' /\ Ordered(d)' /\ InTurn(d)'
  <2>1. CASE d # c
    BY <1>0, <1>1, <2>1, Bystander, Zenon DEF Write, Typed
  <2>2. CASE d = c
    <3>1. TaskProper(c)'
      BY <1>0, <1>1, <1>5 DEF TaskProper, Write, At, Serving
    <3>2. Ordered(c)'
      <4>1. /\ Holding(c, "write") = <<x>> /\ Holding(c, "hand") = <<>>
            /\ Holding(c, "write")' = <<>> /\ Holding(c, "hand")' = <<>>
        BY <1>1, <1>5 DEF Holding, At, x
      <4>2. got[c].reply \in Nat /\ made[c] - unread[c] \in Nat
        BY Parts, Zenon
      <4>3. Chain(<<x>>, outbound[c], Answering(c), AskedIn(inbound, c), <<>>,
                  got[c].reply, made[c] - unread[c])
        BY <1>0, <1>1, <4>1, Zenon DEF Ordered, Serving
      <4>4. Chain(<<>>, outbound[c], Answering(c), AskedIn(inbound, c), <<>>,
                  g.reply, made[c] - unread[c])
        BY <1>2, <1>4, <4>2, <4>3, ChainWrite
      <4> QED BY <1>5, <4>1, <4>4, Zenon DEF Ordered, Answering, Write
    <3>3. InTurn(c)'
      BY <1>0, <1>1, <1>2, <1>4, <1>5
         DEF InTurn, WritingSignal, Left, Entered, Write, At, x
    <3> QED BY <2>2, <3>1, <3>2, <3>3, Zenon
  <2> QED BY <2>1, <2>2, Zenon
<1> QED BY <1>7, <1>8, Zenon DEF ChannelsInv

\* run returns: what was in the channel is lost with it.
LEMMA RunReturnsKeeps ==
    ASSUME ChannelsInv, NEW c \in Clients, RunReturns(c) PROVE ChannelsInv'
<1>0. Typed /\ LoopProper /\ TaskProper(c) /\ Ordered(c) /\ InTurn(c)
  BY Zenon DEF ChannelsInv
<1>1. /\ task' = [task EXCEPT ![c] = At("leaving", NoItem)]
      /\ outbound' = [outbound EXCEPT ![c] = <<>>]
  BY Zenon DEF RunReturns
<1>2. task'[c] = At("leaving", NoItem) /\ outbound'[c] = <<>>
  BY <1>0, <1>1, Zenon DEF Typed
<1>3. At("leaving", NoItem) \in [pc : Serving \cup {"absent", "leaving", "gone"}, item : Item]
  BY Zenon DEF At, NoItem, Item, Serving
<1>4. Typed' /\ LoopProper'
  <2>1. outbound' \in [Clients -> Seq(Item)]
    BY <1>0, <1>1 DEF Typed
  <2>2. task' \in [Clients -> [pc : Serving \cup {"absent", "leaving", "gone"}, item : Item]]
    BY <1>0, <1>1, <1>3, Zenon DEF Typed
  <2> QED BY <1>0, <2>1, <2>2, Zenon DEF Typed, LoopProper, RunReturns
<1>5. ASSUME NEW d \in Clients PROVE TaskProper(d)' /\ Ordered(d)' /\ InTurn(d)'
  <2>1. CASE d # c
    BY <1>0, <2>1, Bystander, Zenon DEF RunReturns, Typed
  <2>2. CASE d = c
    <3>1. TaskProper(c)' /\ Ordered(c)'
      <4>1. task'[c].pc = "leaving"
        BY <1>2 DEF At
      <4>2. task'[c].pc \notin Serving \cup {"absent"} /\ task'[c].pc \notin {"hand", "write"}
        BY <4>1 DEF Serving
      <4>3. DOMAIN outbound'[c] = {}
        BY <1>2
      <4>4. unread'[c] <= made'[c]
        BY <1>0, Zenon DEF TaskProper, RunReturns
      <4> QED BY <4>2, <4>3, <4>4, Zenon DEF TaskProper, Ordered
    <3>2. InTurn(c)'
      <4>1. ~ WritingSignal(c)' /\ Left(c)' = got[c].signal /\ Entered(c)' = Entered(c)
        BY <1>2 DEF WritingSignal, Left, Entered, RunReturns, At
      <4>2. /\ Left(c) \in Nat /\ Entered(c) \in Int /\ got[c].signal \in Nat
            /\ task[c].item.n \in Nat
        BY Parts, Zenon DEF Item
      <4>3. got[c].signal <= Left(c)
        BY <1>0, <4>2 DEF InTurn, Left, WritingSignal
      <4>4. Left(c) <= Entered(c)
        BY <1>0, Zenon DEF InTurn, Fits
      <4>5. Fits(<<>>, got[c].signal, Entered(c))
        BY <4>2, <4>3, <4>4, FitsEmpty
      <4> QED BY <1>2, <4>1, <4>5, Zenon DEF InTurn
    <3> QED BY <2>2, <3>1, <3>2, Zenon
  <2> QED BY <2>1, <2>2, Zenon
<1> QED BY <1>4, <1>5, Zenon DEF ChannelsInv

\* The task removes the client from the map.
LEMMA UnregisterKeeps ==
    ASSUME ChannelsInv, NEW c \in Clients, Unregister(c) PROVE ChannelsInv'
<1>0. Typed /\ LoopProper /\ TaskProper(c) /\ Ordered(c) /\ InTurn(c)
  BY Zenon DEF ChannelsInv
<1>1. task' = [task EXCEPT ![c] = At("gone", NoItem)] /\ task[c].pc = "leaving"
  BY Zenon DEF Unregister
<1>2. task'[c] = At("gone", NoItem)
  BY <1>0, <1>1, Zenon DEF Typed
<1>3. At("gone", NoItem) \in [pc : Serving \cup {"absent", "leaving", "gone"}, item : Item]
  BY Zenon DEF At, NoItem, Item, Serving
<1>4. Typed' /\ LoopProper'
  BY <1>0, <1>3, Zenon DEF Typed, LoopProper, Unregister
<1>5. ASSUME NEW d \in Clients PROVE TaskProper(d)' /\ Ordered(d)' /\ InTurn(d)'
  <2>1. CASE d # c
    BY <1>0, <2>1, Bystander, ZenonT(40) DEF Unregister, Typed
  <2>2. CASE d = c
    <3>0. task'[c].pc = "gone"
      BY <1>2 DEF At
    <3>1. TaskProper(c)' /\ Ordered(c)'
      <4>1. task'[c].pc \notin Serving \cup {"absent"} /\ task'[c].pc \notin {"hand", "write"}
        BY <3>0 DEF Serving
      <4>2. /\ unread'[c] <= made'[c]
            /\ \A i \in DOMAIN outbound'[c] : outbound'[c][i].kind # "none"
        BY <1>0, Zenon DEF TaskProper, Unregister
      <4> QED BY <4>1, <4>2, Zenon DEF TaskProper, Ordered
    <3>2. InTurn(c)'
      <4>1. ~ WritingSignal(c) /\ ~ WritingSignal(c)'
        BY <1>1, <3>0 DEF WritingSignal
      <4>2. Left(c)' = Left(c) /\ Entered(c)' = Entered(c) /\ outbound' = outbound
        BY <4>1, Zenon DEF Left, Entered, Unregister
      <4> QED BY <1>0, <4>1, <4>2, Zenon DEF InTurn
    <3> QED BY <2>2, <3>1, <3>2, Zenon
  <2> QED BY <2>1, <2>2, Zenon
<1> QED BY <1>4, <1>5, Zenon DEF ChannelsInv

\* The loop takes the oldest request of all clients.
LEMMA TakeRequestKeeps ==
    ASSUME ChannelsInv, TakeRequest PROVE ChannelsInv'
<1>0. Typed /\ LoopProper
  BY Zenon DEF ChannelsInv
<1> DEFINE c == Head(inbound)[1]
           n == Head(inbound)[2]
<1>1. c \in Clients /\ n \in Nat
  <2>1. inbound \in Seq(Clients \X Nat) /\ inbound # <<>>
    BY <1>0, Zenon DEF Typed, TakeRequest
  <2>2. Head(inbound) \in Clients \X Nat
    BY <2>1
  <2> QED BY <2>2, Zenon
<1>2. /\ loop = Idle /\ inbound # <<>> /\ inbound' = Tail(inbound)
      /\ loop' = [pc |-> "reply", to |-> {c}, item |-> Reply(n)]
  BY Zenon DEF TakeRequest
<1> HIDE DEF c, n
<1>3. Reply(n) \in Item /\ Reply(n).kind = "reply" /\ Reply(n).n = n
  BY <1>1, Zenon DEF Reply, Item
<1>4. Typed' /\ LoopProper'
  <2>1. inbound' \in Seq(Clients \X Nat)
    BY <1>0, <1>2 DEF Typed
  <2>2. loop' \in [pc : {"idle", "reply", "send"}, to : SUBSET Clients, item : Item]
    BY <1>1, <1>2, <1>3, Zenon
  <2>3. LoopProper'
    BY <1>1, <1>2, <1>3, Zenon DEF LoopProper
  <2> QED BY <1>0, <2>1, <2>2, <2>3, Zenon DEF Typed, TakeRequest
<1>5. ASSUME NEW d \in Clients PROVE TaskProper(d)' /\ Ordered(d)' /\ InTurn(d)'
  <2>0. TaskProper(d) /\ Ordered(d) /\ InTurn(d)
    BY Zenon DEF ChannelsInv
  <2>1. TaskProper(d)'
    BY <2>0, Zenon DEF TaskProper, TakeRequest
  <2>2. InTurn(d)'
    <3>1. Left(d)' = Left(d) /\ WritingSignal(d)' = WritingSignal(d)
      BY Zenon DEF WritingSignal, Left, TakeRequest
    <3>2. loop.to = {}
      BY <1>2, Zenon DEF Idle
    <3>3. loop'.item.kind # "signal"
      BY <1>2, <1>3
    <3>4. Entered(d)' = Entered(d)
      BY <3>2, <3>3, Zenon DEF Entered, TakeRequest
    <3> QED BY <2>0, <3>1, <3>4, Zenon DEF InTurn, TakeRequest
  <2>3. Ordered(d)'
    <3> DEFINE ask == AskedIn(inbound, d)
    <3>1. /\ ask \in Seq(Item) /\ got[d].reply \in Nat /\ made[d] - unread[d] \in Nat
      BY Parts, Zenon
    <3>2. /\ ask # <<>> /\ AskedIn(Tail(inbound), d) = Tail(ask)
          /\ Head(ask) = IF c = d THEN Reply(n) ELSE NoItem
      <4>1. inbound \in Seq(Clients \X Nat)
        BY <1>0, Zenon DEF Typed
      <4> QED BY <1>2, <4>1, AskedQueue, Zenon DEF c, n
    <3> HIDE DEF ask
    <3>3. /\ Answering(d) = <<>>
          /\ Answering(d)' = IF c = d THEN <<Reply(n)>> ELSE <<>>
      BY <1>2, Zenon DEF Answering, Idle
    <3>4. SUFFICES ASSUME task[d].pc \in Serving \cup {"absent"}
                   PROVE  Chain(Holding(d, "write"), outbound[d], Answering(d)', Tail(ask),
                                Holding(d, "hand"), got[d].reply, made[d] - unread[d])
      BY <1>2, <3>2, Zenon DEF Ordered, Holding, TakeRequest
    <3>5. Chain(Holding(d, "write"), outbound[d], <<>>, ask,
                Holding(d, "hand"), got[d].reply, made[d] - unread[d])
      BY <2>0, <3>3, <3>4, Zenon DEF Ordered, ask
    <3>6. CASE c = d
      BY <1>3, <3>1, <3>2, <3>3, <3>5, <3>6, ChainTake, Zenon
    <3>7. CASE c # d
      <4>1. NoItem.kind # "reply"
        BY Zenon DEF NoItem
      <4> QED BY <3>1, <3>2, <3>3, <3>5, <3>7, <4>1, ChainTake, Zenon
    <3> QED BY <3>6, <3>7, Zenon
  <2> QED BY <2>1, <2>2, <2>3, Zenon
<1> QED BY <1>4, <1>5, Zenon DEF ChannelsInv

\* The loop looks the addressee up: only a client without an entry loses a reply.
LEMMA LookUpKeeps ==
    ASSUME ChannelsInv, LookUp PROVE ChannelsInv'
<1>0. Typed /\ LoopProper /\ loop.pc = "reply"
  BY Zenon DEF ChannelsInv, LookUp
<1>1. PICK c \in Clients : loop.to = {c} /\ loop.item.kind = "reply"
  BY <1>0, Zenon DEF LoopProper
<1>2. Typed' /\ LoopProper'
  <2>1. loop' \in [pc : {"idle", "reply", "send"}, to : SUBSET Clients, item : Item]
    BY <1>0, Zenon DEF Typed, LookUp, Idle, NoItem, Item
  <2>2. LoopProper'
    <3>1. CASE loop' = Idle
      BY <3>1, Zenon DEF LoopProper, Idle, NoItem
    <3>2. CASE loop' = [loop EXCEPT !.pc = "send"]
      <4>1. loop'.pc = "send" /\ loop'.item = loop.item /\ loop'.to = loop.to
        BY <1>0, <3>2, Zenon DEF Typed
      <4> QED BY <1>1, <4>1, Zenon DEF LoopProper
    <3> QED BY <3>1, <3>2, Zenon DEF LookUp
  <2> QED BY <1>0, <2>1, <2>2, Zenon DEF Typed, LookUp
<1>3. ASSUME NEW d \in Clients PROVE TaskProper(d)' /\ Ordered(d)' /\ InTurn(d)'
  <2>0. TaskProper(d) /\ Ordered(d) /\ InTurn(d)
    BY Zenon DEF ChannelsInv
  <2>1. CASE loop.to \subseteq clients
    <3>1. loop'.item = loop.item /\ loop'.to = loop.to
      BY <1>0, <2>1, Zenon DEF Typed, LookUp
    <3> QED BY <3>1, Bystander, Zenon DEF LookUp
  <2>2. CASE ~ (loop.to \subseteq clients) /\ d # c
    BY <1>1, <2>2, Bystander, Zenon DEF LookUp, Idle
  <2>3. CASE ~ (loop.to \subseteq clients) /\ d = c
    <3>1. TaskProper(c)'
      BY <2>0, <2>3, Zenon DEF TaskProper, LookUp
    <3>2. loop' = Idle
      BY <2>3, Zenon DEF LookUp
    <3>3. InTurn(c)'
      BY <1>1, <2>0, <2>3, <3>2 DEF InTurn, WritingSignal, Left, Entered, LookUp, Idle, NoItem
    <3>4. task[c].pc \notin Serving \cup {"absent"}
      <4>1. c \notin clients
        BY <1>1, <2>3, Zenon
      <4>2. task[c].pc \notin Serving
        BY <2>0, <2>3, <4>1, Zenon DEF TaskProper
      <4>3. ASSUME task[c].pc = "absent" PROVE FALSE
        <5>1. Answering(c) = <<loop.item>> /\ loop.item \in Item /\ got[c].reply \in Nat
          BY <1>0, <1>1, Zenon DEF Answering, Typed
        <5>2. made[c] - unread[c] = 0
          BY <1>0, <2>0, <2>3, <4>3, SMTT(40) DEF TaskProper, Typed
        <5>3. Chain(Holding(c, "write"), outbound[c], <<loop.item>>, AskedIn(inbound, c),
                    Holding(c, "hand"), got[c].reply, 0)
          BY <2>0, <2>3, <4>3, <5>1, <5>2, Zenon DEF Ordered
        <5> QED BY <1>1, <5>1, <5>3, ChainMade, Zenon
      <4> QED BY <4>2, <4>3, Zenon
    <3>5. Ordered(c)'
      BY <3>4, Zenon DEF Ordered, LookUp
    <3> QED BY <2>3, <3>1, <3>3, <3>5, Zenon
  <2> QED BY <2>1, <2>2, <2>3, Zenon
<1> QED BY <1>2, <1>3, Zenon DEF ChannelsInv

\* The loop takes the next signal of a bus.
LEMMA TakeSignalKeeps ==
    ASSUME ChannelsInv, NEW to \in SUBSET clients, TakeSignal(to) PROVE ChannelsInv'
<1>0. Typed /\ LoopProper
  BY Zenon DEF ChannelsInv
<1> DEFINE x == Signal(signals + 1)
<1>1. /\ loop = Idle /\ signals' = signals + 1
      /\ loop' = [pc |-> "send", to |-> to, item |-> x]
      /\ signals \in Nat /\ to \subseteq Clients
  BY <1>0, Zenon DEF TakeSignal, Typed
<1>2. x \in Item /\ x.kind = "signal" /\ x.n = signals + 1
  BY <1>1, SMTT(40) DEF Signal, Item
<1> HIDE DEF x
<1>3. Typed' /\ LoopProper'
  <2>1. /\ loop' \in [pc : {"idle", "reply", "send"}, to : SUBSET Clients, item : Item]
        /\ signals' \in Nat
    BY <1>1, <1>2
  <2> QED BY <1>0, <1>1, <1>2, <2>1 DEF Typed, LoopProper, TakeSignal
<1>4. ASSUME NEW d \in Clients PROVE TaskProper(d)' /\ Ordered(d)' /\ InTurn(d)'
  <2>0. TaskProper(d) /\ Ordered(d) /\ InTurn(d)
    BY Zenon DEF ChannelsInv
  <2>1. TaskProper(d)'
    BY <2>0, Zenon DEF TaskProper, TakeSignal
  <2>2. /\ outbound[d] \in Seq(Item) /\ Left(d) \in Nat /\ Entered(d) \in Int
        /\ got[d].reply \in Nat /\ made[d] - unread[d] \in Nat
    BY Parts, Zenon
  <2>3. Ordered(d)'
    <3>1. /\ Answering(d) = <<>> /\ Answering(d)' \in {<<>>, <<x>>}
          /\ Holding(d, "write")' = Holding(d, "write")
          /\ Holding(d, "hand")' = Holding(d, "hand")
      <4>1. loop.to = {} /\ loop'.item = x
        BY <1>1, Zenon DEF Idle
      <4>2. Answering(d) = <<>> /\ Answering(d)' \in {<<>>, <<x>>}
        BY <4>1, Zenon DEF Answering
      <4> QED BY <4>2, Zenon DEF Holding, TakeSignal
    <3>2. SUFFICES ASSUME task[d].pc \in Serving \cup {"absent"}
                   PROVE  Chain(Holding(d, "write"), outbound[d], Answering(d)',
                                AskedIn(inbound, d), Holding(d, "hand"),
                                got[d].reply, made[d] - unread[d])
      BY <3>1, Zenon DEF Ordered, TakeSignal
    <3>3. Chain(Holding(d, "write"), outbound[d], <<>>, AskedIn(inbound, d),
                Holding(d, "hand"), got[d].reply, made[d] - unread[d])
      BY <2>0, <3>1, <3>2, Zenon DEF Ordered
    <3>4. Chain(Holding(d, "write"), outbound[d], <<x>>, AskedIn(inbound, d),
                Holding(d, "hand"), got[d].reply, made[d] - unread[d])
      BY <1>2, <2>2, <3>3, ChainSignal, Zenon
    <3> QED BY <3>1, <3>3, <3>4, Zenon
  <2>4. InTurn(d)'
    <3>1. /\ Entered(d) = signals /\ Entered(d)' \in {signals, signals + 1}
          /\ Left(d)' = Left(d) /\ WritingSignal(d)' = WritingSignal(d)
      <4>1. loop.to = {} /\ loop'.item = x
        BY <1>1, Zenon DEF Idle
      <4>2. Left(d)' = Left(d) /\ WritingSignal(d)' = WritingSignal(d)
        BY Zenon DEF Left, WritingSignal, TakeSignal
      <4>3. Entered(d) = signals
        BY <4>1, Zenon DEF Entered
      <4>4. Entered(d)' \in {signals, signals + 1}
        BY <1>1 DEF Entered
      <4> QED BY <4>2, <4>3, <4>4, Zenon
    <3>2. Fits(outbound[d], Left(d), signals) /\ Fits(outbound[d], Left(d), signals + 1)
      BY <1>1, <2>0, <2>2, <3>1, FitsMore DEF InTurn
    <3> QED BY <2>0, <3>1, <3>2, Zenon DEF InTurn, TakeSignal
  <2> QED BY <2>1, <2>3, <2>4, Zenon
<1> QED BY <1>3, <1>4, Zenon DEF ChannelsInv

\* The loop's send to one client ends: the message is in its channel, or the
\* client's receiver is gone.
LEMMA SendKeeps ==
    ASSUME ChannelsInv, NEW c \in Clients, Send(c) PROVE ChannelsInv'
<1>0. Typed /\ LoopProper /\ TaskProper(c) /\ Ordered(c) /\ InTurn(c)
  BY Zenon DEF ChannelsInv
<1> DEFINE x == loop.item
<1>1. /\ loop.pc = "send" /\ c \in loop.to /\ loop' = Done(c) /\ x \in Item
      /\ x.kind \in {"reply", "signal"}
      /\ outbound' = [outbound EXCEPT ![c] = outbound'[c]]
      /\ \/ task[c].pc \in Serving /\ outbound'[c] = Append(outbound[c], x)
         \/ task[c].pc \notin Serving /\ outbound'[c] = outbound[c]
  BY <1>0, Zenon DEF Send, Typed, LoopProper, Item
<1>2. \/ loop' = Idle /\ loop.to = {c}
      \/ /\ loop'.pc = "send" /\ loop'.item = x /\ loop'.to = loop.to \ {c} /\ loop.to # {c}
         /\ loop' \in [pc : {"idle", "reply", "send"}, to : SUBSET Clients, item : Item]
  BY <1>0, <1>1, Zenon DEF Typed, Done
<1>3. /\ outbound[c] \in Seq(Item) /\ outbound'[c] \in Seq(Item)
      /\ \A i \in DOMAIN outbound'[c] : outbound'[c][i].kind # "none"
  <2>1. outbound[c] \in Seq(Item) /\ \A i \in DOMAIN outbound[c] : outbound[c][i].kind # "none"
    BY <1>0, Zenon DEF Typed, TaskProper
  <2>2. /\ Append(outbound[c], x) \in Seq(Item)
        /\ DOMAIN Append(outbound[c], x) = 1..(Len(outbound[c]) + 1)
        /\ \A i \in 1..(Len(outbound[c]) + 1) :
              Append(outbound[c], x)[i] = IF i = Len(outbound[c]) + 1 THEN x ELSE outbound[c][i]
    BY <1>1, <2>1
  <2>3. \A i \in DOMAIN Append(outbound[c], x) : Append(outbound[c], x)[i].kind # "none"
    BY <1>1, <2>1, <2>2
  <2> QED BY <1>1, <2>1, <2>2, <2>3, Zenon
<1>4. Typed' /\ LoopProper'
  <2>1. loop' \in [pc : {"idle", "reply", "send"}, to : SUBSET Clients, item : Item]
    BY <1>2 DEF Idle, NoItem, Item
  <2>2. outbound' \in [Clients -> Seq(Item)]
    BY <1>0, <1>1, <1>3, Zenon DEF Typed
  <2>3. LoopProper'
    <3>1. CASE loop' = Idle
      BY <3>1, Zenon DEF LoopProper, Idle, NoItem
    <3>2. CASE loop' # Idle
      <4>1. x.kind # "reply"
        BY <1>0, <1>1, <1>2, <3>2, Zenon DEF LoopProper
      <4>2. x.n = signals' /\ x.kind = "signal"
        BY <1>0, <1>1, <4>1, Zenon DEF LoopProper, Send
      <4> QED BY <1>2, <3>2, <4>2, Zenon DEF LoopProper
    <3> QED BY <3>1, <3>2, Zenon
  <2> QED BY <1>0, <2>1, <2>2, <2>3, Zenon DEF Typed, Send
<1>5. ASSUME NEW d \in Clients PROVE TaskProper(d)' /\ Ordered(d)' /\ InTurn(d)'
  <2>1. CASE d # c
    <3>1. outbound'[d] = outbound[d]
      BY <1>0, <1>1, <2>1, Zenon DEF Typed
    <3>2. (d \in loop.to <=> d \in loop'.to) /\ (d \in loop.to => loop'.item = loop.item)
      BY <1>2, <2>1 DEF Idle
    <3> QED BY <3>1, <3>2, Bystander, Zenon DEF Send
  <2>2. CASE d = c
    <3>1. TaskProper(c)'
      BY <1>0, <1>3, Zenon DEF TaskProper, Send
    <3>2. c \notin loop'.to
      BY <1>2 DEF Idle
    <3>3. /\ got[c].reply \in Nat /\ made[c] - unread[c] \in Nat
          /\ Left(c) \in Nat /\ Entered(c) \in Int /\ signals \in Nat
      BY Parts, Zenon
    <3>4. Ordered(c)'
      <4>1. /\ Answering(c) = <<x>> /\ Answering(c)' = <<>>
            /\ Holding(c, "write")' = Holding(c, "write")
            /\ Holding(c, "hand")' = Holding(c, "hand")
        BY <1>1, <3>2, Zenon DEF Answering, Holding, Send
      <4>2. SUFFICES ASSUME task[c].pc \in Serving \cup {"absent"}
                     PROVE  Chain(Holding(c, "write"), outbound'[c], <<>>,
                                  AskedIn(inbound, c), Holding(c, "hand"),
                                  got[c].reply, made[c] - unread[c])
        BY <4>1, Zenon DEF Ordered, Send
      <4>3. Chain(Holding(c, "write"), outbound[c], <<x>>, AskedIn(inbound, c),
                  Holding(c, "hand"), got[c].reply, made[c] - unread[c])
        BY <1>0, <4>1, <4>2, Zenon DEF Ordered
      <4> HIDE DEF x
      <4>4. CASE task[c].pc \in Serving
        <5>1. Chain(Holding(c, "write"), Append(outbound[c], x), <<>>, AskedIn(inbound, c),
                    Holding(c, "hand"), got[c].reply, made[c] - unread[c])
          BY <1>1, <1>3, <3>3, <4>3, ChainSend, Zenon
        <5> QED BY <1>1, <4>4, <5>1, Zenon
      <4>5. CASE task[c].pc \notin Serving
        <5>1. made[c] - unread[c] = 0
          BY <1>0, <4>2, <4>5, SMTT(40) DEF TaskProper, Typed
        <5>2. x.kind # "reply"
          BY <1>1, <3>3, <4>3, <5>1, ChainMade, Zenon
        <5> QED BY <1>1, <3>3, <4>3, <4>5, <5>2, ChainSignal, Zenon
      <4> QED BY <4>4, <4>5, Zenon
    <3>5. InTurn(c)'
      <4>1. /\ Entered(c)' = signals /\ Left(c)' = Left(c)
            /\ WritingSignal(c)' = WritingSignal(c)
            /\ Entered(c) = IF x.kind = "signal" THEN signals - 1 ELSE signals
            /\ x.kind = "signal" => x.n = signals
        BY <1>0, <1>1, <3>2, Zenon DEF Entered, Left, WritingSignal, Send, LoopProper
      <4>2. Fits(outbound[c], Left(c), Entered(c))
        BY <1>0, Zenon DEF InTurn
      <4> HIDE DEF x
      <4>3. Fits(outbound[c], Left(c), signals)
        BY <1>3, <3>3, <4>1, <4>2, FitsMore
      <4>4. CASE outbound'[c] = Append(outbound[c], x)
        <5>1. CASE x.kind = "signal"
          <6>1. x.n = Entered(c) + 1 /\ signals = Entered(c) + 1
            BY <3>3, <4>1, <5>1, SMTT(40)
          <6>2. Fits(Append(outbound[c], x), Left(c), Entered(c) + 1)
            BY <1>1, <1>3, <3>3, <4>2, <5>1, <6>1, FitsAppend
          <6> QED BY <1>0, <4>1, <4>4, <6>1, <6>2, Zenon DEF InTurn, Send
        <5>2. CASE x.kind # "signal"
          <6>1. Fits(Append(outbound[c], x), Left(c), signals)
            BY <1>1, <1>3, <3>3, <4>3, <5>2, FitsAppend
          <6> QED BY <1>0, <4>1, <4>4, <6>1, Zenon DEF InTurn, Send
        <5> QED BY <5>1, <5>2, Zenon
      <4>5. CASE outbound'[c] = outbound[c]
        BY <1>0, <4>1, <4>3, <4>5, Zenon DEF InTurn, Send
      <4> QED BY <1>1, <4>4, <4>5, Zenon
    <3> QED BY <2>2, <3>1, <3>4, <3>5, Zenon
  <2> QED BY <2>1, <2>2, Zenon
<1> QED BY <1>4, <1>5, Zenon DEF ChannelsInv

\* A signal that nobody wants is over.
LEMMA SendNobodyKeeps ==
    ASSUME ChannelsInv, SendNobody PROVE ChannelsInv'
<1>1. Typed' /\ LoopProper'
  BY Zenon DEF ChannelsInv, Typed, LoopProper, SendNobody, Idle, NoItem, Item
<1>2. ASSUME NEW d \in Clients PROVE TaskProper(d)' /\ Ordered(d)' /\ InTurn(d)'
  BY Bystander, Zenon DEF SendNobody, Idle
<1> QED BY <1>1, <1>2, Zenon DEF ChannelsInv

\* Every step of the tasks, the clients and the loop keeps the invariant.
LEMMA ChannelsStep == ChannelsInv /\ [Next]_vars => ChannelsInv'
<1> SUFFICES ASSUME ChannelsInv, [Next]_vars PROVE ChannelsInv'
  BY Zenon
<1>1. CASE LoopStep
  BY <1>1, TakeRequestKeeps, LookUpKeeps, SendNobodyKeeps, SendKeeps, Zenon DEF LoopStep
<1>2. CASE \E to \in SUBSET clients : TakeSignal(to)
  BY <1>2, TakeSignalKeeps, Zenon
<1>3. ASSUME NEW c \in Clients, Request(c) \/ Close(c) \/ Connect(c) \/ TaskStep(c)
      PROVE  ChannelsInv'
  BY <1>3, RequestKeeps, CloseKeeps, ConnectKeeps, ReadRequestKeeps, HandOnKeeps,
     RecvOutboundKeeps, WriteKeeps, RunReturnsKeeps, UnregisterKeeps, Zenon DEF TaskStep
<1>4. CASE UNCHANGED vars
  <2>1. Typed' /\ LoopProper'
    BY <1>4, Zenon DEF ChannelsInv, Typed, LoopProper, vars
  <2>2. ASSUME NEW d \in Clients PROVE TaskProper(d)' /\ Ordered(d)' /\ InTurn(d)'
    BY <1>4, Bystander, Zenon DEF vars
  <2> QED BY <2>1, <2>2, Zenon DEF ChannelsInv
<1> QED BY <1>1, <1>2, <1>3, <1>4, Zenon DEF Next, Rest

-----------------------------------------------------------------------------
(* The theorems.                                                             *)

\* The queues are always in this order.
LEMMA ChannelsInvariant == Spec => []ChannelsInv
  BY ChannelsInit, ChannelsStep, PTL DEF Spec

\* Whatever the capacities and however the tasks and the loop interleave, the calls
\* of a client that stays connected are answered in order, each exactly once: a
\* request that its task has read (ClientHandler::run) is in one place between
\* inbound_tx.send, the loop's send_reply_to_client and the write to the socket.
THEOREM RequestsInPipe == Spec => []EachRequestOnce
<1>1. ChannelsInv => EachRequestOnce
  <2> SUFFICES ASSUME ChannelsInv, NEW c \in clients, task[c].pc \in Serving
               PROVE  Consecutive(Pipe(c), got[c].reply, made[c] - unread[c])
    BY Zenon DEF EachRequestOnce
  <2>1. c \in Clients
    BY Zenon DEF ChannelsInv, Typed
  <2>2. /\ Holding(c, "write") \in Seq(Item) /\ Holding(c, "hand") \in Seq(Item)
        /\ Answering(c) \in Seq(Item) /\ AskedIn(inbound, c) \in Seq(Item)
        /\ outbound[c] \in Seq(Item)
        /\ got[c].reply \in Nat /\ made[c] - unread[c] \in Nat
    BY <2>1, Parts, Zenon
  <2>3. Chain(Holding(c, "write"), outbound[c], Answering(c), AskedIn(inbound, c),
              Holding(c, "hand"), got[c].reply, made[c] - unread[c])
    BY <2>1, Zenon DEF ChannelsInv, Ordered
  <2>4. Consecutive(Holding(c, "write") \o outbound[c] \o Answering(c)
                       \o AskedIn(inbound, c) \o Holding(c, "hand"),
                    got[c].reply, made[c] - unread[c])
    BY <2>2, <2>3, ChainIsPipe, Zenon
  <2> QED BY <2>4, Zenon DEF Pipe, Asked, AskedIn
<1> QED BY <1>1, ChannelsInvariant, PTL

\* Every client sees the signals it is sent in the order in which the loop took them
\* from the buses, none twice, whether or not its channel is full and whether or not
\* it is leaving (forward_signal, the tx.send of each client, the task's write).
THEOREM SignalsStayInOrder == Spec => []SignalsInOrder
<1>1. ChannelsInv => SignalsInOrder
  <2> SUFFICES ASSUME ChannelsInv, NEW c \in Clients
               PROVE  Later(Holding(c, "write") \o outbound[c], got[c].signal)
    BY Zenon DEF SignalsInOrder
  <2>1. /\ outbound[c] \in Seq(Item) /\ task[c].item \in Item /\ task[c].item.n \in Nat
        /\ got[c].signal \in Nat /\ got[c].signal \in Int /\ Entered(c) \in Int
    BY Parts DEF Item
  <2>2. InTurn(c)
    BY Zenon DEF ChannelsInv
  <2>3. CASE task[c].pc # "write"
    <3>1. Holding(c, "write") = <<>> /\ Fits(outbound[c], got[c].signal, Entered(c))
      BY <2>2, <2>3, Zenon DEF InTurn, Left, WritingSignal, Holding
    <3> QED BY <2>1, <3>1, FitsCons, Zenon
  <2>4. CASE task[c].pc = "write" /\ task[c].item.kind # "signal"
    <3>1. /\ Holding(c, "write") = <<task[c].item>>
          /\ Fits(outbound[c], got[c].signal, Entered(c))
      BY <2>2, <2>4, Zenon DEF InTurn, Left, WritingSignal, Holding
    <3> QED BY <2>1, <2>4, <3>1, FitsCons, Zenon
  <2>5. CASE task[c].pc = "write" /\ task[c].item.kind = "signal"
    <3>1. /\ Holding(c, "write") = <<task[c].item>>
          /\ Fits(outbound[c], task[c].item.n, Entered(c))
          /\ got[c].signal < task[c].item.n
      BY <2>2, <2>5, Zenon DEF InTurn, Left, WritingSignal, Holding
    <3> QED BY <2>1, <2>5, <3>1, FitsCons, Zenon
  <2> QED BY <2>3, <2>4, <2>5, Zenon
<1> QED BY <1>1, ChannelsInvariant, PTL
=============================================================================
