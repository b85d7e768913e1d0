------------------------ MODULE ClientHandlerProofs -------------------------
(***************************************************************************)
(* Theorems about ClientHandler: whom the dialogue lets in, that no byte is*)
(* lost between the dialogue and the frames, that the frames are the       *)
(* client's messages, and that what is sent to the client leaves in order. *)
(***************************************************************************)
EXTENDS ClientHandler, TLAPS

-----------------------------------------------------------------------------
(* The inductive invariant.                                                  *)

\* Units of the socket.
LU(line) == <<0, line>>
PU(m, i) == <<m, i>>
PieceUnits == UNION {{PU(m, i) : i \in 1..WireLen(m)} : m \in DOMAIN Messages}
Units == {LU(line) : line \in Lines} \cup PieceUnits
AnyUnits == Units \cup {LU("NUL"), LU("other")}

\* What a client has sent: pieces come after BEGIN only, no line comes after it, the
\* messages follow one another, and the pieces of a message are side by side.
Follows(s, i) ==
    /\ s[i] \in PieceUnits => \E k \in 1..(i - 1) : s[k] = LU("BEGIN")
    /\ i > 1 /\ s[i - 1] = LU("BEGIN") => s[i] = PU(1, 1)
    /\ i > 1 => \A m \in DOMAIN Messages : s[i - 1] = PU(m, WireLen(m)) => s[i] = PU(m + 1, 1)
Whole(s, i, m, j) ==
    s[i] = PU(m, j) =>
        \A l \in 1..WireLen(m) : i - j + l \in 1..Len(s) => s[i - j + l] = PU(m, l)
Chain(s) ==
    /\ \A i \in 1..Len(s) : Follows(s, i)
    /\ \A i \in 1..Len(s) : \A m \in DOMAIN Messages : \A j \in 1..WireLen(m) : Whole(s, i, m, j)
    /\ \A i, j \in 1..Len(s) : s[i] = LU("BEGIN") /\ i < j => s[j] \in PieceUnits
SentInv == sent \in Seq(Units) /\ Chain(sent)

\* Where the units are that were not consumed yet.
Buffered == IF pc \in Dialogue THEN buffer ELSE <<>>
Heard == [i \in DOMAIN heard |-> LU(heard[i])]
ReadTypes ==
    /\ heard \in Seq(Lines) /\ handed \in Seq(Units)
    /\ got \in Seq(AnyUnits) /\ pending \in Seq(AnyUnits)
    /\ buffer \in Seq(AnyUnits) /\ socket \in Seq(AnyUnits)
\* The task stands at the beginning of the client's next message, and the future
\* has read less than that message.
Boundary ==
    /\ frames = <<>> => handed = <<>>
    /\ frames # <<>> => /\ handed # <<>>
                        /\ handed[Len(handed)] = PU(Len(frames), WireLen(Len(frames)))
    /\ got # <<>> => Len(got) < WireLen(Len(frames) + 1)
FramesInv == frames \in Seq(Seq(Units)) /\ FramesAreMessages
StreamInv ==
    /\ pc \in Dialogue \cup {"null"} =>
          ~ torn /\ got = <<>> /\ pending = <<>> /\ handed = <<>> /\ frames = <<>>
    /\ pc = "null" => heard = <<>> /\ buffer = <<>> /\ socket # <<>> /\ Tail(socket) = sent
    /\ pc \in {"run", "write"} /\ ~ torn => Boundary
    /\ pc # "left" /\ ~ torn => ReadTypes
    /\ ~ torn => FramesInv

\* The dialogue, by where the task is in it: e is the place of the line that ended
\* the exchange of the uid, i of the one that began it.
Identified(h, i, e) ==
    /\ i \in 1..Len(h) /\ \A j \in 1..(i - 1) : h[j] \in Restarts
    /\ \/ e = i /\ h[i] = "AUTH EXTERNAL uid"
       \/ e = i + 1 /\ e \in 1..Len(h) /\ h[i] = "AUTH EXTERNAL" /\ h[e] \in {"DATA uid", "DATA"}
Shape(h, at) ==
    CASE at = "null"  -> h = <<>>
      [] at = "lines" -> \A j \in 1..Len(h) : h[j] \in Restarts
      [] at = "data"  -> /\ Len(h) > 0 /\ h[Len(h)] = "AUTH EXTERNAL"
                         /\ \A j \in 1..(Len(h) - 1) : h[j] \in Restarts
      [] at = "begin" -> \E i \in 1..Len(h) : Identified(h, i, Len(h))
      [] at = "fd"    -> /\ Len(h) > 0 /\ h[Len(h)] = "NEGOTIATE_UNIX_FD"
                         /\ \E i \in 1..Len(h) : Identified(h, i, Len(h) - 1)
      [] OTHER        -> Admits(h) /\ h # <<>> /\ h[Len(h)] = "BEGIN"
Served == pc \in {"run", "write"} \/ why \in {"frame", "write", "wouldblock"}
Agreed == (\E i \in DOMAIN heard : heard[i] = "NEGOTIATE_UNIX_FD")
             <=> (\E i \in DOMAIN said : said[i] = "AGREE_UNIX_FD")
Replies == {"OK", "DATA", "REJECTED", "AGREE_UNIX_FD"}
DialogueInv ==
    /\ heard \in Seq(Lines) /\ said \in Seq(Replies)
    /\ pc \in {"null", "run", "write", "left"} \cup Dialogue
    /\ pc # "left" => why = "none"
    /\ pc \in Dialogue \cup {"null"} =>
          /\ Shape(heard, pc) /\ Len(said) = Len(heard) /\ Agreed
          /\ \A i \in DOMAIN heard : heard[i] # "BEGIN"
    /\ Served => Shape(heard, "run") /\ Len(said) = Len(heard) - 1 /\ Agreed
    /\ why = "auth" => heard = <<>> \/ ~ Admits(heard)

\* The outgoing half: messages are numbered as they are put into the channel, and
\* the socket has got all pieces up to the next one to be written.
OutInv ==
    /\ queued \in Nat /\ Len(outbound) <= queued
    /\ outbound \in Seq([n : Nat, next : Nat, fds : BOOLEAN])
    /\ \A j \in 1..Len(outbound) : /\ outbound[j].n = queued - Len(outbound) + j
                                   /\ outbound[j].next = 1
    /\ received \in Seq(Nat \X Nat) /\ outSock \in Seq(Nat \X Nat)
    /\ pc \in Dialogue \cup {"null", "run"} =>
          Len(received) + Len(outSock) = OutPieces * (queued - Len(outbound))
    /\ pc = "write" =>
          /\ held \in [n : Nat, next : 1..OutPieces, fds : BOOLEAN]
          /\ held.n = queued - Len(outbound)
          /\ Len(received) + Len(outSock) = OutPieces * (held.n - 1) + held.next - 1

\* Ends of the stream are the client's doing, and a frame that does not parse comes
\* after a read that was cut short.
EndsInv == (why \in {"eof", "write"} => closed) /\ (why = "frame" => torn)

ClientInv ==
    /\ SentInv /\ StreamInv /\ NoByteLost /\ DialogueInv
    /\ OutInv /\ OutgoingInOrder /\ EndsInv

-----------------------------------------------------------------------------
(* Sequences.                                                                *)

\* Sequences of the same length and elements are the same.
LEMMA SameSequence ==
    ASSUME NEW S, NEW s \in Seq(S), NEW t \in Seq(S), Len(s) = Len(t),
           \A i \in 1..Len(s) : s[i] = t[i]
    PROVE  s = t
  OBVIOUS

\* The places of a sequence.
LEMMA Elements ==
    ASSUME NEW S, NEW s \in Seq(S), NEW i \in DOMAIN s
    PROVE  i \in Nat /\ i >= 1 /\ i \in 1..Len(s) /\ s[i] \in S
  OBVIOUS

\* What \o puts where.
LEMMA Joined ==
    ASSUME NEW S, NEW s \in Seq(S), NEW t \in Seq(S)
    PROVE  /\ s \o t \in Seq(S) /\ Len(s \o t) = Len(s) + Len(t)
           /\ \A i \in 1..Len(s) : (s \o t)[i] = s[i]
           /\ \A i \in 1..Len(t) : (s \o t)[Len(s) + i] = t[i]
           /\ \A i \in 1..(Len(s) + Len(t)) : i > Len(s) => (s \o t)[i] = t[i - Len(s)]
  OBVIOUS

\* It is associative ...
LEMMA JoinedTwice ==
    ASSUME NEW S, NEW s \in Seq(S), NEW t \in Seq(S), NEW u \in Seq(S)
    PROVE  (s \o t) \o u = s \o (t \o u)
<1> DEFINE a == (s \o t) \o u
           b == s \o (t \o u)
<1>1. /\ s \o t \in Seq(S) /\ t \o u \in Seq(S)
      /\ Len(s \o t) = Len(s) + Len(t) /\ Len(t \o u) = Len(t) + Len(u)
  BY Joined, Zenon
<1>2. a \in Seq(S) /\ b \in Seq(S) /\ Len(a) = Len(s) + Len(t) + Len(u) /\ Len(b) = Len(a)
  BY <1>1, Joined
<1>3. ASSUME NEW i \in 1..Len(a) PROVE a[i] = b[i]
  <2>1. CASE i <= Len(s)
    BY <1>1, <1>2, <2>1, Joined
  <2>2. CASE i > Len(s) /\ i <= Len(s) + Len(t)
    BY <1>1, <1>2, <2>2, Joined
  <2>3. CASE i > Len(s) + Len(t)
    BY <1>1, <1>2, <2>3, Joined
  <2> QED BY <1>2, <2>1, <2>2, <2>3
<1> QED BY <1>2, <1>3, SameSequence, Zenon

\* ... and nothing is its unit.
LEMMA JoinedEmpty ==
    ASSUME NEW S, NEW s \in Seq(S)
    PROVE  s \o <<>> = s /\ <<>> \o s = s
  OBVIOUS

\* A sequence that is cut in two.
LEMMA Cut ==
    ASSUME NEW S, NEW s \in Seq(S), NEW n \in 0..Len(s)
    PROVE  /\ SubSeq(s, 1, n) \in Seq(S) /\ SubSeq(s, n + 1, Len(s)) \in Seq(S)
           /\ Len(SubSeq(s, 1, n)) = n /\ Len(SubSeq(s, n + 1, Len(s))) = Len(s) - n
           /\ \A i \in 1..n : SubSeq(s, 1, n)[i] = s[i]
           /\ \A i \in 1..(Len(s) - n) : SubSeq(s, n + 1, Len(s))[i] = s[n + i]
           /\ SubSeq(s, 1, n) \o SubSeq(s, n + 1, Len(s)) = s
<1> DEFINE a == SubSeq(s, 1, n)
           b == SubSeq(s, n + 1, Len(s))
<1>1. /\ a \in Seq(S) /\ Len(a) = n /\ \A i \in 1..n : a[i] = s[i]
  OBVIOUS
<1>2. /\ b \in Seq(S) /\ Len(b) = Len(s) - n /\ \A i \in 1..(Len(s) - n) : b[i] = s[n + i]
  OBVIOUS
<1> HIDE DEF a, b
<1>3. a \o b \in Seq(S) /\ Len(a \o b) = Len(s)
  <2>1. a \o b \in Seq(S) /\ Len(a \o b) = Len(a) + Len(b)
    BY <1>1, <1>2, Joined, Zenon
  <2> QED BY <1>1, <1>2, <2>1
<1>4. ASSUME NEW i \in 1..Len(s) PROVE (a \o b)[i] = s[i]
  <2>1. CASE i <= n
    BY <1>1, <1>2, <2>1, Joined
  <2>2. CASE i > n
    <3>1. i - n \in 1..(Len(s) - n) /\ n + (i - n) = i
      BY <2>2
    <3>2. (a \o b)[i] = b[i - n]
      BY <1>1, <1>2, <2>2, Joined, SMTT(40)
    <3> QED BY <1>2, <3>1, <3>2, Zenon
  <2>3. i <= n \/ i > n
    OBVIOUS
  <2> QED BY <2>1, <2>2, <2>3, Zenon
<1>5. a \o b = s
  BY <1>3, <1>4, SameSequence, Zenon
<1> QED BY <1>1, <1>2, <1>5, Zenon DEF a, b

\* A sequence and its first element.
LEMMA FirstAndRest ==
    ASSUME NEW S, NEW s \in Seq(S), s # <<>>
    PROVE  /\ Head(s) \in S /\ Tail(s) \in Seq(S) /\ Head(s) = s[1]
           /\ 1 \in 1..Len(s) /\ Len(Tail(s)) = Len(s) - 1
           /\ \A i \in 1..(Len(s) - 1) : Tail(s)[i] = s[i + 1]
           /\ \A x \in Seq(S) : Append(x, Head(s)) \o Tail(s) = x \o s
<1>1. /\ Head(s) \in S /\ Tail(s) \in Seq(S) /\ Head(s) = s[1]
      /\ 1 \in 1..Len(s) /\ Len(Tail(s)) = Len(s) - 1
      /\ \A i \in 1..(Len(s) - 1) : Tail(s)[i] = s[i + 1]
  OBVIOUS
<1>2. ASSUME NEW x \in Seq(S) PROVE Append(x, Head(s)) \o Tail(s) = x \o s
  <2> DEFINE a == Append(x, s[1])
             t == Tail(s)
  <2>1. /\ a \in Seq(S) /\ Len(a) = Len(x) + 1 /\ a[Len(x) + 1] = s[1]
        /\ \A i \in 1..Len(x) : a[i] = x[i]
    BY <1>1
  <2>2. t \in Seq(S) /\ Len(t) = Len(s) - 1 /\ \A i \in 1..(Len(s) - 1) : t[i] = s[i + 1]
    BY <1>1, Zenon
  <2> HIDE DEF a, t
  <2>3. /\ a \o t \in Seq(S) /\ x \o s \in Seq(S)
        /\ Len(a \o t) = Len(x) + Len(s) /\ Len(x \o s) = Len(x) + Len(s)
    <3>1. /\ a \o t \in Seq(S) /\ x \o s \in Seq(S)
          /\ Len(a \o t) = Len(a) + Len(t) /\ Len(x \o s) = Len(x) + Len(s)
      BY <2>1, <2>2, Joined, ZenonT(40)
    <3>2. Len(x) \in Nat /\ Len(s) \in Nat
      OBVIOUS
    <3> QED BY <2>1, <2>2, <3>1, <3>2
  <2>4. ASSUME NEW i \in 1..(Len(x) + Len(s)) PROVE (a \o t)[i] = (x \o s)[i]
    <3>1. CASE i <= Len(x)
      BY <2>1, <2>2, <3>1, Joined
    <3>2. CASE i = Len(x) + 1
      <4>1. (a \o t)[i] = s[1]
        BY <2>1, <2>2, <3>2, Joined
      <4>2. (x \o s)[i] = s[1]
        BY <1>1, <3>2, Joined
      <4> QED BY <4>1, <4>2, Zenon
    <3>3. CASE i > Len(x) + 1
      <4>1. (a \o t)[i] = t[i - (Len(x) + 1)]
        BY <2>1, <2>2, <3>3, Joined, SMTT(40)
      <4>2. (x \o s)[i] = s[i - Len(x)]
        BY <3>3, Joined
      <4>3. t[i - (Len(x) + 1)] = s[i - Len(x)]
        BY <2>2, <3>3, SMTT(40)
      <4> QED BY <4>1, <4>2, <4>3, Zenon
    <3>4. i <= Len(x) \/ i = Len(x) + 1 \/ i > Len(x) + 1
      OBVIOUS
    <3> QED BY <3>1, <3>2, <3>3, <3>4, Zenon
  <2>5. a \o t = x \o s
    BY <2>3, <2>4, SameSequence, Zenon
  <2> QED BY <1>1, <2>5, Zenon DEF a, t
<1> QED BY <1>1, <1>2, Zenon

-----------------------------------------------------------------------------
(* Units and lengths.                                                        *)

\* The lengths of the client's messages do not wrap around: read_message adds them up
\* as 32-bit numbers, and D-Bus allows a message 2^27 bytes.
Fit == \A m \in DOMAIN Messages : 23 + Messages[m].fields + Messages[m].body < Word

\* The length of a message on the wire, without CHOOSE.
LEMMA WireLenIs ==
    ASSUME NEW m \in DOMAIN Messages
    PROVE  /\ WireLen(m) = 2 + ((Messages[m].fields + 7) \div 8) + (Messages[m].body \div 8)
           /\ WireLen(m) \in Nat /\ WireLen(m) >= 2 /\ m \in Nat /\ m >= 1
           /\ Messages[m].fields \in Nat /\ Messages[m].body \in Nat
<1> DEFINE f == Messages[m].fields
           b == Messages[m].body
           P(n) == n * Piece >= 16 + f /\ (n - 1) * Piece < 16 + f
           start == CHOOSE n \in 0..(2 + f) : P(n)
<1>0. Messages \in Seq([fields : Nat, body : Nat])
  BY ClientHandlerAssumption, Zenon
<1>1. m \in Nat /\ m >= 1 /\ Messages[m] \in [fields : Nat, body : Nat]
  BY <1>0, Elements, Zenon
<1>2. f \in Nat /\ b \in Nat
  BY <1>1, Zenon
<1> HIDE DEF f, b
<1>3. (f + 23) \div 8 \in 0..(2 + f) /\ P((f + 23) \div 8)
  BY <1>2 DEF Piece
<1>4. start \in 0..(2 + f) /\ P(start)
  BY <1>3, Zenon
<1> HIDE DEF start
<1>5. start = 2 + ((f + 7) \div 8)
  BY <1>2, <1>4 DEF Piece
<1>6. WireLen(m) = start + (b \div Piece)
  BY Zenon DEF WireLen, start, P, f, b
<1>7. (f + 7) \div 8 \in Nat /\ b \div 8 \in Nat
  BY <1>2
<1> QED BY <1>1, <1>2, <1>5, <1>6, <1>7 DEF Piece, f, b

\* read_message computes it.
LEMMA SizeIs ==
    ASSUME Fit, NEW m \in DOMAIN Messages
    PROVE  TotalSize(Messages[m].fields, Messages[m].body) \div Piece = WireLen(m)
<1> DEFINE f == Messages[m].fields
           b == Messages[m].body
<1>1. f \in Nat /\ b \in Nat /\ WireLen(m) = 2 + ((f + 7) \div 8) + (b \div 8)
  BY WireLenIs, Zenon
<1>2. Word \in Nat /\ 23 + f + b < Word /\ b % 8 = 0
  BY ClientHandlerAssumption, Zenon DEF Fit
<1> HIDE DEF f, b
<1>3. (f + 7) % Word = f + 7
  BY <1>1, <1>2
<1>4. (16 + ((f + 7) \div 8) * 8 + b) % Word = 16 + ((f + 7) \div 8) * 8 + b
  BY <1>1, <1>2
<1>5. TotalSize(f, b) = 16 + ((f + 7) \div 8) * 8 + b
  BY <1>3, <1>4, Zenon DEF TotalSize
<1>6. (16 + ((f + 7) \div 8) * 8 + b) \div 8 = 2 + ((f + 7) \div 8) + (b \div 8)
  BY <1>1, <1>2
<1> QED BY <1>1, <1>5, <1>6, Zenon DEF Piece, f, b

\* Units are told apart.
LEMMA UnitsDiffer ==
    /\ \A l, l1 : LU(l) = LU(l1) => l = l1
    /\ \A m, i, m1, i1 : PU(m, i) = PU(m1, i1) => m = m1 /\ i = i1
    /\ \A l : \A m \in DOMAIN Messages : \A i : LU(l) # PU(m, i)
    /\ \A l : LU(l) \notin PieceUnits
<1>1. \A l : LU(l)[1] = 0 /\ LU(l)[2] = l
  BY Zenon DEF LU
<1>2. \A m, i : PU(m, i)[1] = m /\ PU(m, i)[2] = i
  BY Zenon DEF PU
<1>3. \A m \in DOMAIN Messages : m # 0
  BY WireLenIs
<1>4. ASSUME NEW l, NEW m \in DOMAIN Messages, NEW i, LU(l) = PU(m, i) PROVE FALSE
  BY <1>1, <1>2, <1>3, <1>4
<1>5. \A l : LU(l) \notin PieceUnits
  BY <1>4, Zenon DEF PieceUnits
<1>6. ASSUME NEW l, NEW l1, LU(l) = LU(l1) PROVE l = l1
  BY <1>1, <1>6
<1>7. ASSUME NEW m, NEW i, NEW m1, NEW i1, PU(m, i) = PU(m1, i1) PROVE m = m1 /\ i = i1
  BY <1>2, <1>7
<1> QED BY <1>4, <1>5, <1>6, <1>7, Zenon

\* What there is on the socket.
LEMMA UnitIs ==
    /\ \A u \in PieceUnits : \E m \in DOMAIN Messages : \E i \in 1..WireLen(m) : u = PU(m, i)
    /\ \A m \in DOMAIN Messages : \A i \in 1..WireLen(m) : PU(m, i) \in PieceUnits
    /\ \A u \in Units : u \in PieceUnits \/ \E l \in Lines : u = LU(l)
    /\ \A l \in Lines : LU(l) \in Units
    /\ PieceUnits \subseteq Units /\ Units \subseteq AnyUnits
<1>1. \A u \in PieceUnits : \E m \in DOMAIN Messages : \E i \in 1..WireLen(m) : u = PU(m, i)
  BY Zenon DEF PieceUnits
<1>2. ASSUME NEW m \in DOMAIN Messages, NEW i \in 1..WireLen(m) PROVE PU(m, i) \in PieceUnits
  <2>1. PU(m, i) \in {PU(m, j) : j \in 1..WireLen(m)}
    BY Zenon
  <2> QED BY <2>1, Zenon DEF PieceUnits
<1>3. /\ \A u \in Units : u \in PieceUnits \/ \E l \in Lines : u = LU(l)
      /\ \A l \in Lines : LU(l) \in Units
  BY Zenon DEF Units
<1>4. PieceUnits \subseteq Units /\ Units \subseteq AnyUnits
  BY Zenon DEF Units, AnyUnits
<1> QED BY <1>1, <1>2, <1>3, <1>4, Zenon

\* The first unit of a message is a piece only of that one.
LEMMA PieceOf ==
    ASSUME NEW m, NEW i, PU(m, i) \in PieceUnits
    PROVE  m \in DOMAIN Messages /\ i \in 1..WireLen(m)
<1>1. PICK m1 \in DOMAIN Messages : \E i1 \in 1..WireLen(m1) : PU(m, i) = PU(m1, i1)
  BY UnitIs, Zenon
<1>2. PICK i1 \in 1..WireLen(m1) : PU(m, i) = PU(m1, i1)
  BY <1>1, Zenon
<1>3. m = m1 /\ i = i1
  BY <1>2, UnitsDiffer
<1> QED BY <1>3, Zenon

\* What a client sends next.
LEMMA NextUnitIs ==
    /\ \A l : NextUnit(LU(l)) = PU(1, 1) /\ NextUnit(LU(l))[1] = 1
    /\ \A m \in DOMAIN Messages : \A i \in 1..WireLen(m) :
          /\ i < WireLen(m) => NextUnit(PU(m, i)) = PU(m, i + 1) /\ NextUnit(PU(m, i))[1] = m
          /\ i = WireLen(m) => NextUnit(PU(m, i)) = PU(m + 1, 1) /\ NextUnit(PU(m, i))[1] = m + 1
<1>1. \A l : LU(l)[1] = 0
  BY Zenon DEF LU
<1>2. \A m, i : PU(m, i)[1] = m /\ PU(m, i)[2] = i
  BY Zenon DEF PU
<1>3. \A l : NextUnit(LU(l)) = PU(1, 1)
  BY <1>1, Zenon DEF NextUnit, PU
<1>4. ASSUME NEW m \in DOMAIN Messages, NEW i \in 1..WireLen(m)
      PROVE  /\ i < WireLen(m) => NextUnit(PU(m, i)) = PU(m, i + 1)
             /\ i = WireLen(m) => NextUnit(PU(m, i)) = PU(m + 1, 1)
  <2>1. m # 0 /\ (i = WireLen(m) => ~ (i < WireLen(m)))
    BY WireLenIs
  <2>2. NextUnit(PU(m, i)) = IF i < WireLen(m) THEN PU(m, i + 1) ELSE PU(m + 1, 1)
    BY <1>2, <2>1, Zenon DEF NextUnit, PU
  <2> QED BY <2>1, <2>2, Zenon
<1>5. \A l : NextUnit(LU(l))[1] = 1
  BY <1>2, <1>3
<1>6. ASSUME NEW m \in DOMAIN Messages, NEW i \in 1..WireLen(m)
      PROVE  /\ i < WireLen(m) => NextUnit(PU(m, i))[1] = m
             /\ i = WireLen(m) => NextUnit(PU(m, i))[1] = m + 1
  BY <1>2, <1>4
<1> QED BY <1>3, <1>4, <1>5, <1>6, Zenon

-----------------------------------------------------------------------------
(* What the client sends.                                                    *)

\* One more unit at the end of a sequence.
LEMMA OneMore ==
    ASSUME NEW S, NEW s \in Seq(S), NEW u \in S
    PROVE  /\ s \o <<u>> \in Seq(S) /\ Len(s) \in Nat /\ Len(s \o <<u>>) = Len(s) + 1
           /\ (s \o <<u>>)[Len(s) + 1] = u
           /\ \A i \in 1..Len(s) : (s \o <<u>>)[i] = s[i] /\ i \in 1..(Len(s) + 1)
  OBVIOUS

\* What is to be shown of the new unit, for the chain to go on.
LEMMA ChainGrows ==
    ASSUME NEW s \in Seq(Units), Chain(s), NEW u \in Units, NEW t \in Seq(Units),
           Len(t) = Len(s) + 1, t[Len(s) + 1] = u, \A i \in 1..Len(s) : t[i] = s[i],
           Follows(t, Len(s) + 1),
           u \in PieceUnits \/ \A i \in 1..Len(s) : s[i] # LU("BEGIN"),
           \A i \in 1..(Len(s) + 1) : \A m \in DOMAIN Messages : \A j \in 1..WireLen(m) :
               Whole(t, i, m, j)
    PROVE  Chain(t)
<1>0. Len(s) \in Nat
  OBVIOUS
<1>1. ASSUME NEW i \in 1..Len(t) PROVE Follows(t, i)
  <2>1. CASE i = Len(s) + 1
    BY <2>1, Zenon
  <2>2. CASE i # Len(s) + 1
    <3>1. i \in 1..Len(s) /\ (i > 1 => i - 1 \in 1..Len(s)) /\ 1..(i - 1) \subseteq 1..Len(s)
      BY <1>0, <2>2
    <3>2. Follows(s, i)
      BY <3>1, Zenon DEF Chain
    <3>3. t[i] = s[i] /\ (i > 1 => t[i - 1] = s[i - 1]) /\ \A k \in 1..(i - 1) : t[k] = s[k]
      BY <3>1, Zenon
    <3> QED BY <3>2, <3>3, Zenon DEF Follows
  <2> QED BY <2>1, <2>2, Zenon
<1>2. ASSUME NEW i \in 1..Len(t), NEW j \in 1..Len(t), t[i] = LU("BEGIN"), i < j
      PROVE  t[j] \in PieceUnits
  <2>1. i \in 1..Len(s) /\ t[i] = s[i]
    BY <1>0, <1>2
  <2>2. CASE j = Len(s) + 1
    BY <1>2, <2>1, <2>2, Zenon
  <2>3. CASE j # Len(s) + 1
    <3>1. j \in 1..Len(s)
      BY <1>0, <2>3
    <3> QED BY <1>2, <2>1, <3>1, Zenon DEF Chain
  <2> QED BY <2>2, <2>3, Zenon
<1> QED BY <1>1, <1>2, Zenon DEF Chain

\* A line, as long as BEGIN was not sent.
LEMMA ChainLine ==
    ASSUME NEW s \in Seq(Units), Chain(s), \A i \in 1..Len(s) : s[i] # LU("BEGIN"),
           NEW l \in Lines
    PROVE  s \o <<LU(l)>> \in Seq(Units) /\ Chain(s \o <<LU(l)>>)
<1> DEFINE u == LU(l)
           t == s \o <<u>>
           n == Len(s)
<1>1. u \in Units /\ u \notin PieceUnits
  BY UnitIs, UnitsDiffer, Zenon
<1>2. u = LU(l)
  BY Zenon
<1> HIDE DEF u
<1>3. /\ t \in Seq(Units) /\ n \in Nat /\ Len(t) = n + 1 /\ t[n + 1] = u
      /\ \A i \in 1..n : t[i] = s[i] /\ i \in 1..(n + 1)
  BY <1>1, OneMore
<1> HIDE DEF t
<1>4. ASSUME NEW i \in 1..n PROVE s[i] \notin PieceUnits
  <2>1. 1..(i - 1) \subseteq 1..n
    BY <1>3
  <2> QED BY <2>1, Zenon DEF Chain, Follows
<1>5. ASSUME n + 1 > 1 PROVE t[n] = s[n] /\ n \in 1..n /\ (n + 1) - 1 = n
  BY <1>3, <1>5
<1>6. Follows(t, n + 1)
  <2>1. t[n + 1] \notin PieceUnits
    BY <1>1, <1>3, Zenon
  <2>2. n + 1 > 1 => t[(n + 1) - 1] # LU("BEGIN")
    BY <1>5, Zenon
  <2>3. ASSUME n + 1 > 1, NEW m \in DOMAIN Messages PROVE t[(n + 1) - 1] # PU(m, WireLen(m))
    <3>1. WireLen(m) \in 1..WireLen(m)
      BY WireLenIs
    <3> QED BY <1>4, <1>5, <2>3, <3>1, UnitIs, Zenon
  <2> QED BY <2>1, <2>2, <2>3, Zenon DEF Follows
<1>7. ASSUME NEW i \in 1..(n + 1), NEW m \in DOMAIN Messages, NEW j \in 1..WireLen(m)
      PROVE  Whole(t, i, m, j)
  <2>1. PU(m, j) \in PieceUnits
    BY UnitIs, Zenon
  <2>2. i \in 1..n \/ i = n + 1
    BY <1>3
  <2>3. t[i] # PU(m, j)
    BY <1>1, <1>3, <1>4, <2>1, <2>2, Zenon
  <2> QED BY <2>3, Zenon DEF Whole
<1>8. Chain(t)
  BY <1>1, <1>3, <1>6, <1>7, ChainGrows, Zenon
<1> QED BY <1>2, <1>3, <1>8, Zenon DEF t

\* A message with w pieces P, side by side in the first n places of S; T has one
\* place more, for the piece after that of S[n].
Grown(n, w, S, T, P) ==
    /\ \A i \in 1..n : T[i] = S[i]
    /\ \A i \in 1..n : \A j \in 1..w : \A l \in 1..w :
           S[i] = P[j] /\ i - j + l \in 1..n => S[i - j + l] = P[l]
    /\ \A j \in 1..w : j < w /\ S[n] = P[j] => T[n + 1] = P[j + 1]
    /\ \A j \in 1..w : T[n + 1] = P[j] /\ j # 1 => S[n] = P[j - 1]

\* Its pieces are side by side in T.
LEMMA WholeGrows ==
    ASSUME NEW n \in Nat, NEW w \in Nat, NEW S, NEW T, NEW P, n # 0, Grown(n, w, S, T, P)
    PROVE  \A i \in 1..(n + 1) : \A j \in 1..w : \A l \in 1..w :
               T[i] = P[j] /\ i - j + l \in 1..(n + 1) => T[i - j + l] = P[l]
<1> SUFFICES ASSUME NEW i \in 1..(n + 1), NEW j \in 1..w, NEW l \in 1..w,
                    T[i] = P[j], i - j + l \in 1..(n + 1)
             PROVE  T[i - j + l] = P[l]
  BY Zenon
<1>0. n \in 1..n
  OBVIOUS
<1>1. CASE i \in 1..n /\ i - j + l \in 1..n
  BY <1>1, ZenonT(60) DEF Grown
<1>2. CASE i \in 1..n /\ i - j + l = n + 1
  <2>1. l - 1 \in 1..w /\ l - 1 < w /\ i - j + (l - 1) = n /\ (l - 1) + 1 = l
    BY <1>2
  <2>2. S[i] = P[j]
    BY <1>2, Zenon DEF Grown
  <2>3. S[i - j + (l - 1)] = P[l - 1]
    BY <1>0, <1>2, <2>1, <2>2, Zenon DEF Grown
  <2>4. T[n + 1] = P[(l - 1) + 1]
    BY <2>1, <2>3, Zenon DEF Grown
  <2> QED BY <1>2, <2>1, <2>4, Zenon
<1>3. CASE i = n + 1 /\ j = 1
  <2>1. l = 1 /\ i - j + l = n + 1
    BY <1>3
  <2> QED BY <1>3, <2>1, Zenon
<1>4. CASE i = n + 1 /\ j # 1
  <2>1. j - 1 \in 1..w /\ i - j + l = n - (j - 1) + l
    BY <1>4
  <2>2. S[n] = P[j - 1]
    BY <1>4, Zenon DEF Grown
  <2>3. CASE l = j
    <3>1. i - j + l = n + 1
      BY <1>4, <2>3
    <3> QED BY <1>4, <2>3, <3>1, Zenon
  <2>4. CASE l # j
    <3>1. i - j + l \in 1..n
      BY <1>4, <2>4
    <3>2. n - (j - 1) + l \in 1..n
      BY <2>1, <3>1, Zenon
    <3>3. S[n - (j - 1) + l] = P[l]
      BY <1>0, <2>1, <2>2, <3>2, Zenon DEF Grown
    <3> QED BY <2>1, <3>1, <3>3, Zenon DEF Grown
  <2> QED BY <2>3, <2>4, Zenon
<1>5. (i \in 1..n \/ i = n + 1) /\ (i - j + l \in 1..n \/ i - j + l = n + 1)
  OBVIOUS
<1> QED BY <1>1, <1>2, <1>3, <1>4, <1>5, Zenon

\* A piece, after BEGIN.
LEMMA ChainPiece ==
    ASSUME NEW s \in Seq(Units), Chain(s), NEW b \in 1..Len(s), s[b] = LU("BEGIN"),
           NextUnit(s[Len(s)])[1] \in DOMAIN Messages
    PROVE  /\ s \o <<NextUnit(s[Len(s)])>> \in Seq(Units) /\ Chain(s \o <<NextUnit(s[Len(s)])>>)
           /\ NextUnit(s[Len(s)]) \in Units
<1> DEFINE n == Len(s)
           u == NextUnit(s[n])
           t == s \o <<u>>
<1>1. n \in Nat /\ n # 0 /\ n \in 1..n /\ b \in 1..((n + 1) - 1) /\ (n + 1) - 1 = n /\ n + 1 > 1
      /\ (b = n \/ b < n)
  OBVIOUS
<1>2. \/ s[n] = LU("BEGIN") /\ u = PU(1, 1) /\ u[1] = 1
      \/ \E m \in DOMAIN Messages : \E j \in 1..WireLen(m) : s[n] = PU(m, j)
  <2>1. CASE b = n
    <3>1. NextUnit(LU("BEGIN")) = PU(1, 1) /\ NextUnit(LU("BEGIN"))[1] = 1
      BY NextUnitIs, Zenon
    <3> QED BY <2>1, <3>1, Zenon
  <2>2. CASE b < n
    <3>1. s[n] \in PieceUnits
      BY <1>1, <2>2, Zenon DEF Chain
    <3> QED BY <3>1, UnitIs, Zenon
  <2> QED BY <1>1, <2>1, <2>2, Zenon
<1>3. ASSUME NEW m \in DOMAIN Messages, NEW j \in 1..WireLen(m), s[n] = PU(m, j)
      PROVE  /\ j < WireLen(m) => u = PU(m, j + 1) /\ u[1] = m /\ j + 1 \in 1..WireLen(m)
             /\ j = WireLen(m) => u = PU(m + 1, 1) /\ u[1] = m + 1
             /\ j < WireLen(m) \/ j = WireLen(m)
  <2>1. j < WireLen(m) => j + 1 \in 1..WireLen(m)
    BY WireLenIs
  <2>2. j < WireLen(m) \/ j = WireLen(m)
    BY WireLenIs
  <2>3. /\ j < WireLen(m) => NextUnit(PU(m, j)) = PU(m, j + 1) /\ NextUnit(PU(m, j))[1] = m
        /\ j = WireLen(m) => NextUnit(PU(m, j)) = PU(m + 1, 1) /\ NextUnit(PU(m, j))[1] = m + 1
    BY NextUnitIs, Zenon
  <2> QED BY <1>3, <2>1, <2>2, <2>3, Zenon
<1>4. \A m \in DOMAIN Messages : 1 \in 1..WireLen(m)
  BY WireLenIs
<1>5. u[1] \in DOMAIN Messages
  BY Zenon
<1> HIDE DEF u
<1>6. u \in PieceUnits /\ u \in Units
  <2>1. CASE s[n] = LU("BEGIN") /\ u = PU(1, 1) /\ u[1] = 1
    BY <1>4, <1>5, <2>1, UnitIs, Zenon
  <2>2. ASSUME NEW m \in DOMAIN Messages, NEW j \in 1..WireLen(m), s[n] = PU(m, j)
        PROVE  u \in PieceUnits
    <3>1. CASE j < WireLen(m)
      BY <1>3, <2>2, <3>1, UnitIs
    <3>2. CASE j = WireLen(m)
      BY <1>3, <1>4, <1>5, <2>2, <3>2, UnitIs
    <3> QED BY <1>3, <2>2, <3>1, <3>2, Zenon
  <2> QED BY <1>2, <2>1, <2>2, UnitIs, Zenon
<1>7. /\ t \in Seq(Units) /\ Len(t) = n + 1 /\ t[n + 1] = u
      /\ \A i \in 1..n : t[i] = s[i] /\ i \in 1..(n + 1)
  BY <1>6, OneMore
<1> HIDE DEF t
<1>8. Follows(t, n + 1)
  <2>1. b \in 1..((n + 1) - 1) /\ t[b] = LU("BEGIN") /\ t[(n + 1) - 1] = s[n]
    BY <1>1, <1>7, Zenon
  <2>2. s[n] = LU("BEGIN") => u = PU(1, 1)
    BY <1>2, UnitsDiffer, Zenon
  <2>3. ASSUME NEW m \in DOMAIN Messages, s[n] = PU(m, WireLen(m)) PROVE u = PU(m + 1, 1)
    <3>1. WireLen(m) \in 1..WireLen(m)
      BY WireLenIs
    <3> QED BY <1>3, <2>3, <3>1, Zenon
  <2> QED BY <1>7, <2>1, <2>2, <2>3, Zenon DEF Follows
<1>9. ASSUME NEW i \in 1..(n + 1), NEW m \in DOMAIN Messages, NEW j \in 1..WireLen(m),
             t[i] = PU(m, j), NEW l \in 1..WireLen(m), i - j + l \in 1..(n + 1)
      PROVE  t[i - j + l] = PU(m, l)
  <2> DEFINE w == WireLen(m)
             P == [x \in 1..w |-> PU(m, x)]
  <2>0. w \in Nat
    BY WireLenIs, Zenon
  <2>1. \A x \in 1..w : P[x] = PU(m, x)
    BY Zenon
  <2> HIDE DEF P
  <2>2. ASSUME NEW i1 \in 1..n, NEW j1 \in 1..w, NEW l1 \in 1..w,
               s[i1] = P[j1], i1 - j1 + l1 \in 1..n
        PROVE  s[i1 - j1 + l1] = P[l1]
    <3>1. Whole(s, i1, m, j1)
      BY Zenon DEF Chain
    <3>2. s[i1] = PU(m, j1)
      BY <2>1, <2>2, Zenon
    <3>3. s[i1 - j1 + l1] = PU(m, l1)
      BY <2>2, <3>1, <3>2, Zenon DEF Whole
    <3> QED BY <2>1, <3>3, Zenon
  <2>3. ASSUME NEW j1 \in 1..w, j1 < w, s[n] = P[j1] PROVE t[n + 1] = P[j1 + 1]
    <3>1. u = PU(m, j1 + 1) /\ j1 + 1 \in 1..w
      BY <1>3, <2>1, <2>3, Zenon
    <3> QED BY <1>7, <2>1, <3>1, Zenon
  <2>4. ASSUME NEW j1 \in 1..w, t[n + 1] = P[j1], j1 # 1 PROVE s[n] = P[j1 - 1]
    <3>1. u = PU(m, j1)
      BY <1>7, <2>1, <2>4, Zenon
    <3>2. PICK m0 \in DOMAIN Messages : \E j0 \in 1..WireLen(m0) : s[n] = PU(m0, j0)
      BY <1>2, <2>4, <3>1, UnitsDiffer
    <3>3. PICK j0 \in 1..WireLen(m0) : s[n] = PU(m0, j0)
      BY <3>2, Zenon
    <3>4. m0 = m /\ j1 = j0 + 1
      BY <1>3, <2>4, <3>1, <3>3, UnitsDiffer
    <3>5. j1 - 1 = j0 /\ j0 \in 1..w
      BY <2>0, <3>4, SMTT(40)
    <3> QED BY <2>1, <3>3, <3>4, <3>5, Zenon
  <2>5. \A i1 \in 1..n : t[i1] = s[i1]
    BY <1>7, Zenon
  <2>6. t[i] = P[j]
    BY <1>9, <2>1, Zenon
  <2>7. Grown(n, w, s, t, P)
    BY <2>2, <2>3, <2>4, <2>5, ZenonT(40) DEF Grown
  <2> HIDE DEF w
  <2>8. t[i - j + l] = P[l]
    <3>1. n \in Nat /\ n # 0 /\ j \in 1..w /\ l \in 1..w
      BY <1>1, Zenon DEF w
    <3>2. \A i1 \in 1..(n + 1) : \A j1 \in 1..w : \A l1 \in 1..w :
              t[i1] = P[j1] /\ i1 - j1 + l1 \in 1..(n + 1) => t[i1 - j1 + l1] = P[l1]
      BY <2>0, <2>7, <3>1, WholeGrows, SMTT(40)
    <3> QED BY <1>9, <2>6, <3>1, <3>2, Zenon
  <2> QED BY <2>1, <2>8, Zenon DEF w
<1>10. \A i \in 1..(n + 1) : \A m \in DOMAIN Messages : \A j \in 1..WireLen(m) : Whole(t, i, m, j)
  BY <1>7, <1>9, ZenonT(40) DEF Whole
<1>11. Chain(t)
  BY <1>6, <1>7, <1>8, <1>10, ChainGrows, Zenon
<1> QED BY <1>6, <1>7, <1>11, Zenon DEF t, u

-----------------------------------------------------------------------------
(* Steps.                                                                    *)

\* The actions, one by one.
LEMMA Actions ==
    ASSUME [Next]_vars
    PROVE  \/ \E line \in Lines : \/ SendLine(line) \/ AuthLine(line)
                                  \/ DataLine(line) \/ BeginLine(line)
           \/ SendPiece \/ Close \/ Receive \/ ReadNull \/ Fill \/ DialogueEnds
           \/ Poll \/ ReadEnds \/ Recv \/ WriteAll \/ SendFds \/ WriteFails
           \/ \E fds \in BOOLEAN : Queue(fds)
           \/ UNCHANGED vars
  BY Zenon DEF Next, AuthStep, WriteStep, Rest

\* What leaves the outgoing half alone.
OutKept ==
    /\ queued' = queued /\ outbound' = outbound /\ received' = received
    /\ outSock' = outSock /\ held' = held
    /\ \/ pc' = pc \/ pc' = "left"
       \/ pc \in Dialogue \cup {"null"} /\ pc' \in Dialogue \cup {"run"}

\* All actions of the client and of the dialogue, and the reads.
LEMMA OthersKeepOut ==
    ASSUME [Next]_vars, ~ Receive, ~ Recv, ~ WriteAll, ~ SendFds,
           \A fds \in BOOLEAN : ~ Queue(fds)
    PROVE  OutKept
<1>1. ASSUME NEW line \in Lines, SendLine(line) PROVE OutKept
  BY <1>1, Zenon DEF SendLine, Send, OutKept, writeVars
<1>2. ASSUME NEW line \in Lines, AuthLine(line) PROVE OutKept
  <2>1. /\ queued' = queued /\ outbound' = outbound /\ received' = received
        /\ outSock' = outSock /\ held' = held
    BY <1>2, Zenon DEF AuthLine, Hear, writeVars, peerVars
  <2>2. pc = "lines" /\ pc' \in {"begin", "data", "lines", "left"}
    BY <1>2, Zenon DEF AuthLine, Say, Refuse, Leave
  <2> QED BY <2>1, <2>2, Zenon DEF OutKept, Dialogue
<1>3. ASSUME NEW line \in Lines, DataLine(line) PROVE OutKept
  <2>1. /\ queued' = queued /\ outbound' = outbound /\ received' = received
        /\ outSock' = outSock /\ held' = held
    BY <1>3, Zenon DEF DataLine, Hear, writeVars, peerVars
  <2>2. pc = "data" /\ pc' \in {"begin", "left"}
    BY <1>3, Zenon DEF DataLine, Say, Refuse, Leave
  <2> QED BY <2>1, <2>2, Zenon DEF OutKept, Dialogue
<1>4. ASSUME NEW line \in Lines, BeginLine(line) PROVE OutKept
  <2>1. /\ queued' = queued /\ outbound' = outbound /\ received' = received
        /\ outSock' = outSock /\ held' = held
    BY <1>4, Zenon DEF BeginLine, Hear, writeVars, peerVars
  <2>2. pc \in {"begin", "fd"} /\ pc' \in {"run", "fd", "left"}
    BY <1>4, Zenon DEF BeginLine, Start, Say, Refuse, Leave
  <2> QED BY <2>1, <2>2, Zenon DEF OutKept, Dialogue
<1>5. ASSUME SendPiece \/ Close PROVE OutKept
  BY <1>5, Zenon DEF SendPiece, Send, Close, OutKept, writeVars
<1>6. ASSUME ReadNull PROVE OutKept
  <2>1. /\ queued' = queued /\ outbound' = outbound /\ received' = received
        /\ outSock' = outSock /\ held' = held
    BY <1>6, Zenon DEF ReadNull, writeVars, peerVars
  <2>2. pc = "null" /\ pc' \in {"lines", "left"}
    BY <1>6, Zenon DEF ReadNull, Leave
  <2> QED BY <2>1, <2>2, Zenon DEF OutKept, Dialogue
<1>7. ASSUME Fill \/ DialogueEnds \/ ReadEnds \/ WriteFails PROVE OutKept
  BY <1>7, Zenon DEF Fill, DialogueEnds, ReadEnds, WriteFails, Leave, OutKept, writeVars, peerVars
<1>8. ASSUME Poll PROVE OutKept
  <2>1. /\ queued' = queued /\ outbound' = outbound /\ received' = received
        /\ outSock' = outSock /\ held' = held
    BY <1>8, Zenon DEF Poll, writeVars, peerVars
  <2>2. pc' = pc \/ pc' = "left"
    BY <1>8, Zenon DEF Poll, Suspend, HandOver, Leave
  <2> QED BY <2>1, <2>2, Zenon DEF OutKept
<1>9. ASSUME UNCHANGED vars PROVE OutKept
  BY <1>9, Zenon DEF vars, writeVars, peerVars, OutKept
<1> QED BY <1>1, <1>2, <1>3, <1>4, <1>5, <1>6, <1>7, <1>8, <1>9, Actions, Zenon

-----------------------------------------------------------------------------
(* The outgoing half.                                                        *)

OutNext == OutInv' /\ OutgoingInOrder'

\* It stays as it is, and what it is does not depend on the dialogue.
LEMMA OutStays ==
    ASSUME OutInv, OutgoingInOrder, OutKept
    PROVE  OutNext
<1>1. OutgoingInOrder'
  BY Zenon DEF OutgoingInOrder, OutKept
<1>2. CASE pc' = pc
  BY <1>1, <1>2, Zenon DEF OutKept, OutInv, OutNext
<1>3. CASE pc' = "left"
  BY <1>1, <1>3, Zenon DEF OutKept, OutInv, OutNext, Dialogue
<1>4. CASE pc \in Dialogue \cup {"null"} /\ pc' \in Dialogue \cup {"run"}
  BY <1>1, <1>4, Zenon DEF OutKept, OutInv, OutNext, Dialogue
<1> QED BY <1>2, <1>3, <1>4, Zenon DEF OutKept

\* The client reads.
LEMMA ReceiveOut ==
    ASSUME OutInv, OutgoingInOrder, Receive
    PROVE  OutNext
<1> DEFINE S == Nat \X Nat
<1>1. /\ outSock # <<>> /\ received' = Append(received, Head(outSock)) /\ outSock' = Tail(outSock)
      /\ queued' = queued /\ outbound' = outbound /\ pc' = pc /\ held' = held
  BY Zenon DEF Receive
<1>2. received \in Seq(S) /\ outSock \in Seq(S)
  BY Zenon DEF OutInv
<1> HIDE DEF S
<1>3. /\ Append(received, Head(outSock)) \o Tail(outSock) = received \o outSock
      /\ Head(outSock) \in S /\ Tail(outSock) \in Seq(S) /\ Len(Tail(outSock)) = Len(outSock) - 1
  BY <1>1, <1>2, FirstAndRest, Zenon
<1>4. received' \in Seq(S) /\ Len(received') = Len(received) + 1
  BY <1>1, <1>2, <1>3
<1>5. outSock' \in Seq(S) /\ Len(received') + Len(outSock') = Len(received) + Len(outSock)
  BY <1>1, <1>2, <1>3, <1>4
<1>6. received' \o outSock' = received \o outSock
  BY <1>1, <1>3, Zenon
<1>7. OutgoingInOrder'
  BY <1>6, Zenon DEF OutgoingInOrder
<1>8. OutInv'
  BY <1>1, <1>4, <1>5, Zenon DEF OutInv, S
<1> QED BY <1>7, <1>8, Zenon DEF OutNext

\* A message is put into the channel.
LEMMA QueueOut ==
    ASSUME OutInv, OutgoingInOrder, NEW fds \in BOOLEAN, Queue(fds)
    PROVE  OutNext
<1> DEFINE e == [n |-> queued + 1, next |-> 1, fds |-> fds]
           E == [n : Nat, next : Nat, fds : BOOLEAN]
<1>1. /\ queued' = queued + 1 /\ outbound' = Append(outbound, e)
      /\ pc' = pc /\ held' = held /\ outSock' = outSock /\ received' = received
  BY Zenon DEF Queue, peerVars
<1>2. queued \in Nat /\ outbound \in Seq(E) /\ Len(outbound) <= queued
  BY Zenon DEF OutInv
<1>3. e \in E /\ e.n = queued + 1 /\ e.next = 1
  BY <1>2
<1> HIDE DEF e, E
<1>4. /\ outbound' \in Seq(E) /\ Len(outbound') = Len(outbound) + 1 /\ Len(outbound) \in Nat
      /\ outbound'[Len(outbound) + 1] = e
      /\ \A j \in 1..Len(outbound) : outbound'[j] = outbound[j]
  BY <1>1, <1>2, <1>3
<1>5. queued' - Len(outbound') = queued - Len(outbound) /\ queued' \in Nat
      /\ Len(outbound') <= queued'
  BY <1>1, <1>2, <1>4
<1>6. ASSUME NEW j \in 1..Len(outbound')
      PROVE  outbound'[j].n = queued' - Len(outbound') + j /\ outbound'[j].next = 1
  <2>1. CASE j = Len(outbound) + 1
    BY <1>1, <1>2, <1>3, <1>4, <2>1
  <2>2. CASE j # Len(outbound) + 1
    <3>1. j \in 1..Len(outbound)
      BY <1>4, <2>2
    <3>2. outbound[j].n = queued - Len(outbound) + j /\ outbound[j].next = 1
      BY <3>1, Zenon DEF OutInv
    <3> QED BY <1>4, <1>5, <3>1, <3>2, Zenon
  <2> QED BY <2>1, <2>2, Zenon
<1>7. OutgoingInOrder'
  BY <1>1, Zenon DEF OutgoingInOrder
<1>8. OutInv'
  BY <1>1, <1>4, <1>5, <1>6, Zenon DEF OutInv, E
<1> QED BY <1>7, <1>8, Zenon DEF OutNext

\* It is taken out to be written.
LEMMA RecvOut ==
    ASSUME OutInv, OutgoingInOrder, Recv
    PROVE  OutNext
<1> DEFINE E == [n : Nat, next : Nat, fds : BOOLEAN]
<1>1. /\ pc = "run" /\ pc' = "write" /\ outbound # <<>> /\ held' = Head(outbound)
      /\ outbound' = Tail(outbound) /\ queued' = queued /\ outSock' = outSock
      /\ received' = received
  BY Zenon DEF Recv, peerVars
<1>2. queued \in Nat /\ outbound \in Seq(E) /\ Len(outbound) <= queued
  BY Zenon DEF OutInv
<1> HIDE DEF E
<1>3. /\ Head(outbound) \in E /\ Tail(outbound) \in Seq(E) /\ Head(outbound) = outbound[1]
      /\ 1 \in 1..Len(outbound) /\ Len(Tail(outbound)) = Len(outbound) - 1
      /\ \A i \in 1..(Len(outbound) - 1) : Tail(outbound)[i] = outbound[i + 1]
  BY <1>1, <1>2, FirstAndRest, Zenon
<1>4. outbound[1].n = queued - Len(outbound) + 1 /\ outbound[1].next = 1
  BY <1>3, Zenon DEF OutInv
<1>5. Len(outbound) \in Nat /\ Len(outbound') = Len(outbound) - 1 /\ Len(outbound') <= queued'
  BY <1>1, <1>2, <1>3
<1>6. ASSUME NEW j \in 1..Len(outbound')
      PROVE  outbound'[j].n = queued' - Len(outbound') + j /\ outbound'[j].next = 1
  <2>1. j \in 1..(Len(outbound) - 1) /\ j + 1 \in 1..Len(outbound)
    BY <1>5
  <2>2. outbound[j + 1].n = queued - Len(outbound) + (j + 1) /\ outbound[j + 1].next = 1
    BY <2>1, Zenon DEF OutInv
  <2>3. outbound'[j] = outbound[j + 1]
    BY <1>1, <1>3, <2>1, Zenon
  <2>4. queued - Len(outbound) + (j + 1) = queued' - Len(outbound') + j
    BY <1>1, <1>2, <1>5
  <2> QED BY <2>2, <2>3, <2>4, Zenon
<1>7. held'.n = queued' - Len(outbound') /\ held'.next = 1
  BY <1>1, <1>2, <1>3, <1>4, <1>5
<1>8. held' \in [n : Nat, next : 1..OutPieces, fds : BOOLEAN]
  BY <1>1, <1>3, <1>7 DEF E, OutPieces
<1>9. Len(received') + Len(outSock') = OutPieces * (held'.n - 1) + held'.next - 1
  <2>1. Len(received) + Len(outSock) = OutPieces * (queued - Len(outbound))
    BY <1>1, Zenon DEF OutInv
  <2> QED BY <1>1, <1>2, <1>5, <1>7, <2>1 DEF OutPieces
<1>10. OutgoingInOrder'
  BY <1>1, Zenon DEF OutgoingInOrder
<1>11. OutInv'
  <2>1. pc' \notin Dialogue \cup {"null", "run"}
    BY <1>1, Zenon DEF Dialogue
  <2>2. queued' \in Nat /\ outbound' \in Seq(E) /\ received' = received /\ outSock' = outSock
    BY <1>1, <1>2, <1>3, Zenon
  <2> QED BY <1>5, <1>6, <1>7, <1>8, <1>9, <2>1, <2>2, Zenon DEF OutInv, E
<1> QED BY <1>10, <1>11, Zenon DEF OutNext

\* A number and the piece of it that is at place 2 (n - 1) + k.
LEMMA PlaceOfPiece ==
    ASSUME NEW n \in Nat, NEW k \in 1..OutPieces, NEW i \in Nat,
           i - 1 = OutPieces * (n - 1) + k - 1
    PROVE  ((i - 1) \div OutPieces) + 1 = n /\ ((i - 1) % OutPieces) + 1 = k
  BY DEF OutPieces

\* One write of the message that is held.
LEMMA PutOut ==
    ASSUME OutInv, OutgoingInOrder, pc = "write", Put,
           queued' = queued, outbound' = outbound, received' = received
    PROVE  OutNext
<1> DEFINE S == Nat \X Nat
           x == <<held.n, held.next>>
           out == received \o outSock
           L == Len(received) + Len(outSock)
<1>1. outSock' = Append(outSock, x)
  BY Zenon DEF Put
<1>2. /\ received \in Seq(S) /\ outSock \in Seq(S) /\ queued \in Nat
      /\ held \in [n : Nat, next : 1..OutPieces, fds : BOOLEAN]
      /\ held.n = queued - Len(outbound) /\ L = OutPieces * (held.n - 1) + held.next - 1
  BY Zenon DEF OutInv
<1>3. held.n \in Nat /\ held.next \in 1..OutPieces /\ held.next \in Nat
  BY <1>2 DEF OutPieces
<1>4. x \in S
  BY <1>3, Zenon
<1> HIDE DEF x, S
<1>5. outSock' \in Seq(S) /\ Len(outSock') = Len(outSock) + 1
  BY <1>1, <1>2, <1>4
<1>6. /\ outSock'[Len(outSock) + 1] = x
      /\ \A i \in 1..Len(outSock) : outSock'[i] = outSock[i]
  BY <1>1, <1>2, <1>4
<1>7. Len(received) \in Nat /\ Len(outSock) \in Nat /\ L \in Nat
  BY <1>2
<1>8. received \o outSock' \in Seq(S) /\ Len(received \o outSock') = L + 1
  <2>1. received \o outSock' \in Seq(S) /\ Len(received \o outSock') = Len(received) + Len(outSock')
    BY <1>2, <1>5, Joined, Zenon
  <2> QED BY <1>5, <1>7, <2>1
<1>9. ASSUME NEW i \in 1..(L + 1)
      PROVE  (received \o outSock')[i] = <<((i - 1) \div OutPieces) + 1, ((i - 1) % OutPieces) + 1>>
  <2>1. CASE i = L + 1
    <3>1. (received \o outSock')[i] = x
      <4>1. Len(outSock) + 1 \in 1..Len(outSock') /\ i = Len(received) + (Len(outSock) + 1)
        BY <1>5, <1>7, <2>1
      <4> QED BY <1>2, <1>5, <1>6, <4>1, Joined
    <3>2. ((i - 1) \div OutPieces) + 1 = held.n /\ ((i - 1) % OutPieces) + 1 = held.next
      <4>1. i \in Nat /\ i - 1 = OutPieces * (held.n - 1) + held.next - 1
        BY <1>2, <1>7, <2>1
      <4> QED BY <1>3, <4>1, PlaceOfPiece
    <3> QED BY <3>1, <3>2, Zenon DEF x
  <2>2. CASE i # L + 1
    <3>1. i \in 1..L
      BY <1>7, <2>2
    <3>2. out \in Seq(S) /\ Len(out) = L
      BY <1>2, Joined, Zenon
    <3>3. i \in DOMAIN out
      BY <3>1, <3>2
    <3>4. out[i] = <<((i - 1) \div OutPieces) + 1, ((i - 1) % OutPieces) + 1>>
      BY <3>3, Zenon DEF OutgoingInOrder
    <3>5. (received \o outSock')[i] = out[i]
      <4>1. CASE i <= Len(received)
        <5>1. i \in 1..Len(received)
          BY <1>7, <3>1, <4>1
        <5> QED BY <1>2, <1>5, <5>1, Joined
      <4>2. CASE i > Len(received)
        <5>1. i - Len(received) \in 1..Len(outSock) /\ i - Len(received) \in 1..Len(outSock')
              /\ i = Len(received) + (i - Len(received))
          BY <1>5, <1>7, <3>1, <4>2
        <5>2. (received \o outSock')[i] = outSock'[i - Len(received)]
          BY <1>2, <1>5, <5>1, Joined
        <5>3. out[i] = outSock[i - Len(received)]
          BY <1>2, <5>1, Joined
        <5> QED BY <1>6, <5>1, <5>2, <5>3, Zenon
      <4>3. i <= Len(received) \/ i > Len(received)
        BY <1>7
      <4> QED BY <4>1, <4>2, <4>3, Zenon
    <3> QED BY <3>4, <3>5, Zenon
  <2> QED BY <2>1, <2>2, Zenon
<1>10. OutgoingInOrder'
  <2>1. DOMAIN (received' \o outSock') = 1..(L + 1)
    BY <1>8
  <2> QED BY <1>9, <2>1, Zenon DEF OutgoingInOrder
<1>11. Len(received') + Len(outSock') = L + 1
  BY <1>5, <1>7
<1>12. CASE held.next = OutPieces
  <2>1. pc' = "run" /\ held' = None
    BY <1>12, Zenon DEF Put
  <2>2. L + 1 = OutPieces * (queued' - Len(outbound'))
    BY <1>2, <1>3, <1>12, SMTT(40) DEF OutPieces
  <2>3. pc' # "write"
    BY <2>1, Zenon
  <2>4. OutInv'
    BY <1>2, <1>5, <1>11, <2>2, <2>3, Zenon DEF OutInv, S
  <2> QED BY <1>10, <2>4, Zenon DEF OutNext
<1>13. CASE held.next # OutPieces
  <2>1. pc' = "write" /\ held' = [held EXCEPT !.next = @ + 1, !.fds = FALSE]
    BY <1>13, Zenon DEF Put
  <2>2. /\ held' \in [n : Nat, next : 1..OutPieces, fds : BOOLEAN]
        /\ held'.n = held.n /\ held'.next = held.next + 1
    <3>1. held.next + 1 \in 1..OutPieces
      BY <1>3, <1>13 DEF OutPieces
    <3>2. held' = [n |-> held.n, next |-> held.next + 1, fds |-> FALSE]
      BY <1>2, <2>1, Zenon
    <3> QED BY <1>3, <3>1, <3>2, Zenon
  <2>3. L + 1 = OutPieces * (held'.n - 1) + held'.next - 1
    BY <1>2, <1>3, <1>7, <2>2, SMTT(40) DEF OutPieces
  <2>4. pc' \notin Dialogue \cup {"null", "run"}
    BY <2>1, Zenon DEF Dialogue
  <2>5. OutInv'
    BY <1>2, <1>5, <1>11, <2>2, <2>3, <2>4, Zenon DEF OutInv, S
  <2> QED BY <1>10, <2>5, Zenon DEF OutNext
<1> QED BY <1>12, <1>13, Zenon

\* All steps.
LEMMA OutStep ==
    ASSUME OutInv, OutgoingInOrder, [Next]_vars
    PROVE  OutNext
<1>1. CASE Receive
  BY <1>1, ReceiveOut, Zenon
<1>2. ASSUME NEW fds \in BOOLEAN, Queue(fds) PROVE OutNext
  BY <1>2, QueueOut, Zenon
<1>3. CASE Recv
  BY <1>3, RecvOut, Zenon
<1>4. CASE WriteAll \/ SendFds
  <2>1. pc = "write" /\ queued' = queued /\ outbound' = outbound /\ received' = received
    BY <1>4, Zenon DEF WriteAll, SendFds, peerVars
  <2>2. CASE Put
    BY <2>1, <2>2, PutOut, Zenon
  <2>3. CASE ~ Put
    <3>1. OutKept
      BY <1>4, <2>1, <2>3, Zenon DEF WriteAll, SendFds, Leave, OutKept
    <3> QED BY <3>1, OutStays, Zenon
  <2> QED BY <2>2, <2>3, Zenon
<1>5. CASE OutKept
  BY <1>5, OutStays, Zenon
<1> QED BY <1>1, <1>2, <1>3, <1>4, <1>5, OthersKeepOut, Zenon

-----------------------------------------------------------------------------
(* The client's half, and the end.                                           *)

\* Only the client changes what it has sent.
LEMMA SentStep ==
    ASSUME SentInv, [Next]_vars
    PROVE  SentInv'
<1>1. ASSUME NEW line \in Lines, SendLine(line) PROVE SentInv'
  <2>1. sent' = sent \o <<LU(line)>> /\ \A i \in DOMAIN sent : sent[i] # LU("BEGIN")
    BY <1>1, Zenon DEF SendLine, Send, Begun, LU
  <2>2. sent \in Seq(Units) /\ Chain(sent)
    BY Zenon DEF SentInv
  <2>3. \A i \in 1..Len(sent) : sent[i] # LU("BEGIN")
    BY <2>1, <2>2
  <2> QED BY <2>1, <2>2, <2>3, ChainLine, Zenon DEF SentInv
<1>2. ASSUME SendPiece PROVE SentInv'
  <2>1. /\ sent' = sent \o <<NextUnit(sent[Len(sent)])>>
        /\ NextUnit(sent[Len(sent)])[1] \in DOMAIN Messages
        /\ \E b \in DOMAIN sent : sent[b] = LU("BEGIN")
    BY <1>2, Zenon DEF SendPiece, Send, Begun, LU
  <2>2. sent \in Seq(Units) /\ Chain(sent)
    BY Zenon DEF SentInv
  <2>3. PICK b \in 1..Len(sent) : sent[b] = LU("BEGIN")
    BY <2>1, <2>2
  <2> QED BY <2>1, <2>2, <2>3, ChainPiece, Zenon DEF SentInv
<1>3. ASSUME NEW line \in Lines, AuthLine(line) \/ DataLine(line) \/ BeginLine(line)
      PROVE  sent' = sent
  BY <1>3, Zenon DEF AuthLine, DataLine, BeginLine, Hear, peerVars
<1>4. ASSUME Close \/ Receive \/ ReadNull \/ Fill \/ DialogueEnds \/ ReadEnds \/ Recv
      PROVE  sent' = sent
  BY <1>4, Zenon DEF Close, Receive, ReadNull, Fill, DialogueEnds, ReadEnds, Recv, peerVars
<1>5. ASSUME Poll \/ WriteAll \/ SendFds \/ WriteFails \/ \E fds \in BOOLEAN : Queue(fds)
      PROVE  sent' = sent
  BY <1>5, Zenon DEF Poll, WriteAll, SendFds, WriteFails, Queue, peerVars
<1>6. ASSUME UNCHANGED vars PROVE sent' = sent
  BY <1>6, Zenon DEF vars, peerVars
<1>7. sent' = sent => SentInv'
  BY Zenon DEF SentInv
<1> QED BY <1>1, <1>2, <1>3, <1>4, <1>5, <1>6, <1>7, Actions, Zenon

-----------------------------------------------------------------------------
(* The dialogue.                                                             *)

\* The end of a dialogue that lets a client in: e is where the uid was accepted.
Finished(h, e) ==
    \/ Len(h) = e + 1 /\ h[e + 1] = "BEGIN"
    \/ Len(h) = e + 2 /\ h[e + 1] = "NEGOTIATE_UNIX_FD" /\ h[e + 2] = "BEGIN"

\* A sequence made of two, place by place.
Parts(g, a, b) ==
    /\ Len(g) = Len(a) + Len(b)
    /\ \A k \in 1..Len(a) : g[k] = a[k]
    /\ \A k \in 1..Len(b) : g[Len(a) + k] = b[k]

\* What two sequences make when joined is known from its places.
LEMMA TwoParts ==
    ASSUME NEW S, NEW g \in Seq(S), NEW a \in Seq(S), NEW b \in Seq(S)
    PROVE  g = a \o b <=> Parts(g, a, b)
<1>1. a \o b \in Seq(S) /\ Len(a \o b) = Len(a) + Len(b)
      /\ (\A k \in 1..Len(a) : (a \o b)[k] = a[k])
      /\ (\A k \in 1..Len(b) : (a \o b)[Len(a) + k] = b[k])
  BY Joined
<1>2. ASSUME Len(g) = Len(a) + Len(b), \A k \in 1..Len(a) : g[k] = a[k],
             \A k \in 1..Len(b) : g[Len(a) + k] = b[k]
      PROVE  g = a \o b
  <2>1. ASSUME NEW k \in 1..Len(g) PROVE g[k] = (a \o b)[k]
    <3>1. CASE k \in 1..Len(a)
      BY <1>1, <1>2, <3>1, Zenon
    <3>2. CASE k \notin 1..Len(a)
      <4>1. k - Len(a) \in 1..Len(b) /\ k = Len(a) + (k - Len(a))
        BY <1>2, <3>2
      <4> QED BY <1>1, <1>2, <4>1, Zenon
    <3> QED BY <3>1, <3>2, Zenon
  <2> QED BY <1>1, <1>2, <2>1, SameSequence, Zenon
<1> QED BY <1>1, <1>2, Zenon DEF Parts

\* The parts of a dialogue that lets a client in.
Uids == {<<"AUTH EXTERNAL uid">>, <<"AUTH EXTERNAL", "DATA uid">>, <<"AUTH EXTERNAL", "DATA">>}
Ends == {<<"BEGIN">>, <<"NEGOTIATE_UNIX_FD", "BEGIN">>}
Words == {"AUTH EXTERNAL uid", "AUTH EXTERNAL", "DATA uid", "DATA", "NEGOTIATE_UNIX_FD", "BEGIN"}

\* Sequences of one and of two lines.
LEMMA ShortSequences ==
    ASSUME NEW S, NEW x \in S, NEW y \in S
    PROVE  /\ <<x>> \in Seq(S) /\ Len(<<x>>) = 1 /\ <<x>>[1] = x
           /\ <<x, y>> \in Seq(S) /\ Len(<<x, y>>) = 2 /\ <<x, y>>[1] = x /\ <<x, y>>[2] = y
  OBVIOUS

\* What is in them.
LEMMA PartsAre ==
    /\ \A a \in Uids : /\ a \in Seq(Words)
                       /\ \/ Len(a) = 1 /\ a[1] = "AUTH EXTERNAL uid"
                          \/ Len(a) = 2 /\ a[1] = "AUTH EXTERNAL" /\ a[2] \in {"DATA uid", "DATA"}
    /\ \A b \in Ends : /\ b \in Seq(Words)
                       /\ \/ Len(b) = 1 /\ b[1] = "BEGIN"
                          \/ Len(b) = 2 /\ b[1] = "NEGOTIATE_UNIX_FD" /\ b[2] = "BEGIN"
<1>1. ASSUME NEW a \in Uids
      PROVE  /\ a \in Seq(Words)
             /\ \/ Len(a) = 1 /\ a[1] = "AUTH EXTERNAL uid"
                \/ Len(a) = 2 /\ a[1] = "AUTH EXTERNAL" /\ a[2] \in {"DATA uid", "DATA"}
  <2> DEFINE A == "AUTH EXTERNAL uid"
             B == "AUTH EXTERNAL"
             C == "DATA uid"
             D == "DATA"
  <2>1. A \in Words /\ B \in Words /\ C \in Words /\ D \in Words /\ {C, D} = {"DATA uid", "DATA"}
    BY Zenon DEF Words
  <2>2. a = <<A>> \/ a = <<B, C>> \/ a = <<B, D>>
    BY Zenon DEF Uids
  <2>3. A = "AUTH EXTERNAL uid" /\ B = "AUTH EXTERNAL"
    BY Zenon
  <2> HIDE DEF A, B, C, D
  <2>4. CASE a = <<A>>
    BY <2>1, <2>3, <2>4, ShortSequences, Zenon
  <2>5. CASE a = <<B, C>>
    BY <2>1, <2>3, <2>5, ShortSequences, Zenon
  <2>6. CASE a = <<B, D>>
    BY <2>1, <2>3, <2>6, ShortSequences, Zenon
  <2> QED BY <2>2, <2>4, <2>5, <2>6, Zenon
<1>2. ASSUME NEW b \in Ends
      PROVE  /\ b \in Seq(Words)
             /\ \/ Len(b) = 1 /\ b[1] = "BEGIN"
                \/ Len(b) = 2 /\ b[1] = "NEGOTIATE_UNIX_FD" /\ b[2] = "BEGIN"
  <2> DEFINE A == "BEGIN"
             B == "NEGOTIATE_UNIX_FD"
  <2>1. A \in Words /\ B \in Words /\ A = "BEGIN" /\ B = "NEGOTIATE_UNIX_FD"
    BY Zenon DEF Words
  <2>2. b = <<A>> \/ b = <<B, A>>
    BY Zenon DEF Ends
  <2> HIDE DEF A, B
  <2>3. CASE b = <<A>>
    BY <2>1, <2>3, ShortSequences, Zenon
  <2>4. CASE b = <<B, A>>
    BY <2>1, <2>4, ShortSequences, Zenon
  <2> QED BY <2>2, <2>3, <2>4, Zenon
<1> QED BY <1>1, <1>2, Zenon

\* The lines from i on are a dialogue that lets a client in, place by place.
LEMMA SuffixIs ==
    ASSUME NEW h \in Seq(Lines), NEW i \in 1..Len(h), \A j \in 1..(i - 1) : h[j] \in Restarts
    PROVE  (\E a \in Uids, b \in Ends : SubSeq(h, i, Len(h)) = a \o b) <=>
             \E e \in 1..Len(h) : Identified(h, i, e) /\ Finished(h, e)
<1> DEFINE S == Lines \cup Words
           n == Len(h)
           g == SubSeq(h, i, n)
<1>2. DOMAIN h = 1..n /\ n \in Nat
  OBVIOUS
<1>3. h \in Seq(S)
  OBVIOUS
<1>4. ASSUME NEW a \in Uids PROVE a \in Seq(S)
  <2>1. a \in Seq(Words)
    BY PartsAre, Zenon
  <2> QED BY <2>1
<1>5. ASSUME NEW b \in Ends PROVE b \in Seq(S)
  <2>1. b \in Seq(Words)
    BY PartsAre, Zenon
  <2> QED BY <2>1
<1> HIDE DEF S
<1>6. /\ g \in Seq(S) /\ Len(g) = n - i + 1
      /\ \A k \in 1..(n - i + 1) : g[k] = h[i + k - 1]
  BY <1>2, <1>3
<1> HIDE DEF g
<1>9. 1 # 2
  OBVIOUS
<1>7. ASSUME NEW a \in Uids, NEW b \in Ends, g = a \o b
      PROVE  \E e \in 1..n : Identified(h, i, e) /\ Finished(h, e)
  <2>1. /\ n - i + 1 = Len(a) + Len(b)
        /\ \A k \in 1..Len(a) : g[k] = a[k]
        /\ \A k \in 1..Len(b) : g[Len(a) + k] = b[k]
    BY <1>4, <1>5, <1>6, <1>7, TwoParts DEF Parts
  <2>2. /\ \/ Len(a) = 1 /\ a[1] = "AUTH EXTERNAL uid"
           \/ Len(a) = 2 /\ a[1] = "AUTH EXTERNAL" /\ a[2] \in {"DATA uid", "DATA"}
        /\ \/ Len(b) = 1 /\ b[1] = "BEGIN"
           \/ Len(b) = 2 /\ b[1] = "NEGOTIATE_UNIX_FD" /\ b[2] = "BEGIN"
    BY PartsAre, Zenon
  <2> DEFINE e == i + Len(a) - 1
  <2>8. (Len(a) = 1 \/ Len(a) = 2) /\ (Len(b) = 1 \/ Len(b) = 2) /\ n - i + 1 = Len(a) + Len(b)
    BY <2>1, <2>2, Zenon
  <2>3. e \in 1..n /\ n = e + Len(b)
    BY <1>2, <2>8, SMTT(40)
  <2>4. ASSUME NEW k \in 1..Len(a) PROVE h[i + k - 1] = a[k]
    <3>1. k \in 1..(n - i + 1)
      BY <1>2, <2>8
    <3> QED BY <1>6, <2>1, <3>1, Zenon
  <2>5. ASSUME NEW k \in 1..Len(b) PROVE h[e + k] = b[k]
    <3>1. Len(a) + k \in 1..(n - i + 1) /\ i + (Len(a) + k) - 1 = e + k
      BY <1>2, <2>8
    <3> QED BY <1>6, <2>1, <3>1, Zenon
  <2>6. Identified(h, i, e)
    <3>1. CASE Len(a) = 1
      <4>1. e = i /\ i + 1 - 1 = i /\ 1 \in 1..Len(a)
        BY <3>1
      <4>2. h[i] = a[1]
        BY <2>4, <4>1, Zenon
      <4>3. h[i] = "AUTH EXTERNAL uid"
        BY <2>2, <3>1, <4>2, <1>9, Zenon
      <4> QED BY <4>1, <4>3, Zenon DEF Identified
    <3>2. CASE Len(a) = 2
      <4>1. e = i + 1 /\ i + 1 - 1 = i /\ i + 2 - 1 = e /\ 1 \in 1..Len(a) /\ 2 \in 1..Len(a)
        BY <3>2
      <4>2. h[i] = a[1] /\ h[e] = a[2]
        BY <2>4, <4>1, Zenon
      <4>3. h[i] = "AUTH EXTERNAL" /\ h[e] \in {"DATA uid", "DATA"}
        BY <2>2, <3>2, <4>2, <1>9, Zenon
      <4> QED BY <2>3, <4>1, <4>3, Zenon DEF Identified
    <3> QED BY <2>8, <3>1, <3>2, Zenon
  <2>7. Finished(h, e)
    <3>1. CASE Len(b) = 1
      <4>1. n = e + 1 /\ 1 \in 1..Len(b)
        BY <2>3, <3>1
      <4>2. h[e + 1] = "BEGIN"
        BY <2>2, <2>5, <3>1, <4>1, <1>9, Zenon
      <4> QED BY <4>1, <4>2, Zenon DEF Finished
    <3>2. CASE Len(b) = 2
      <4>1. n = e + 2 /\ 1 \in 1..Len(b) /\ 2 \in 1..Len(b)
        BY <2>3, <3>2
      <4>2. h[e + 1] = "NEGOTIATE_UNIX_FD" /\ h[e + 2] = "BEGIN"
        BY <2>2, <2>5, <3>2, <4>1, <1>9, Zenon
      <4> QED BY <4>1, <4>2, Zenon DEF Finished
    <3> QED BY <2>8, <3>1, <3>2, Zenon
  <2> QED BY <2>3, <2>6, <2>7, Zenon
<1>8. ASSUME NEW e \in 1..n, Identified(h, i, e), Finished(h, e)
      PROVE  \E a \in Uids, b \in Ends : g = a \o b
  <2>0. e \in 1..n /\ \A k \in 1..n : h[k] \in S
    BY <1>2, <1>3
  <2>1. PICK a \in Uids : /\ Len(a) = e - i + 1 /\ a \in Seq(S)
                          /\ \A k \in 1..Len(a) : h[i + k - 1] = a[k]
    <3>1. CASE e = i /\ h[i] = "AUTH EXTERNAL uid"
      <4>1. <<h[i]>> \in Uids /\ e = i
        BY <3>1, Zenon DEF Uids
      <4>2. /\ Len(<<h[i]>>) = e - i + 1 /\ <<h[i]>> \in Seq(S)
            /\ \A k \in 1..Len(<<h[i]>>) : h[i + k - 1] = <<h[i]>>[k]
        BY <2>0, <4>1
      <4> QED BY <4>1, <4>2, Zenon
    <3>2. CASE e = i + 1 /\ h[i] = "AUTH EXTERNAL" /\ h[e] \in {"DATA uid", "DATA"}
      <4>1. <<h[i], h[e]>> \in Uids /\ e = i + 1
        BY <3>2, Zenon DEF Uids
      <4>2. /\ Len(<<h[i], h[e]>>) = e - i + 1 /\ <<h[i], h[e]>> \in Seq(S)
            /\ \A k \in 1..Len(<<h[i], h[e]>>) : h[i + k - 1] = <<h[i], h[e]>>[k]
        BY <2>0, <4>1
      <4> QED BY <4>1, <4>2, Zenon
    <3> QED BY <1>8, <3>1, <3>2, Zenon DEF Identified
  <2>2. PICK b \in Ends : /\ Len(b) = n - e /\ b \in Seq(S)
                          /\ \A k \in 1..Len(b) : h[e + k] = b[k]
    <3>1. CASE n = e + 1 /\ h[e + 1] = "BEGIN"
      <4>1. <<h[n]>> \in Ends /\ n = e + 1
        BY <3>1, Zenon DEF Ends
      <4>2. /\ Len(<<h[n]>>) = n - e /\ <<h[n]>> \in Seq(S)
            /\ \A k \in 1..Len(<<h[n]>>) : h[e + k] = <<h[n]>>[k]
        BY <2>0, <4>1
      <4> QED BY <4>1, <4>2, Zenon
    <3>2. CASE n = e + 2 /\ h[e + 1] = "NEGOTIATE_UNIX_FD" /\ h[e + 2] = "BEGIN"
      <4>1. <<h[e + 1], h[n]>> \in Ends /\ n = e + 2
        BY <3>2, Zenon DEF Ends
      <4>2. /\ Len(<<h[e + 1], h[n]>>) = n - e /\ <<h[e + 1], h[n]>> \in Seq(S)
            /\ \A k \in 1..Len(<<h[e + 1], h[n]>>) : h[e + k] = <<h[e + 1], h[n]>>[k]
        BY <2>0, <4>1
      <4> QED BY <4>1, <4>2, Zenon
    <3> QED BY <1>8, <3>1, <3>2, Zenon DEF Finished
  <2>3. e = i \/ e = i + 1
    BY <1>8, Zenon DEF Identified
  <2>8. Len(a) = e - i + 1 /\ Len(b) = n - e
    BY <2>1, <2>2, Zenon
  <2>4. n - i + 1 = Len(a) + Len(b)
    BY <1>2, <2>0, <2>8
  <2>5. ASSUME NEW k \in 1..Len(a) PROVE g[k] = a[k]
    <3>1. k \in 1..(n - i + 1)
      BY <1>2, <2>0, <2>3, <2>8
    <3> QED BY <1>6, <2>1, <3>1, Zenon
  <2>6. ASSUME NEW k \in 1..Len(b) PROVE g[Len(a) + k] = b[k]
    <3>1. Len(a) + k \in 1..(n - i + 1) /\ i + (Len(a) + k) - 1 = e + k
      BY <1>2, <2>0, <2>3, <2>8
    <3>2. h[e + k] = b[k]
      BY <2>2, Zenon
    <3> QED BY <1>6, <3>1, <3>2, Zenon
  <2>7. g = a \o b
    <3>1. a \in Seq(S) /\ b \in Seq(S) /\ g \in Seq(S) /\ Len(g) = Len(a) + Len(b)
      BY <1>6, <2>1, <2>2, <2>4, Zenon
    <3>2. \A k \in 1..Len(a) : g[k] = a[k]
      BY <2>5, Zenon
    <3>3. \A k \in 1..Len(b) : g[Len(a) + k] = b[k]
      BY <2>6, Zenon
    <3>4. Parts(g, a, b)
      BY <3>1, <3>2, <3>3, Zenon DEF Parts
    <3> QED BY <3>1, <3>4, TwoParts, Zenon
  <2> QED BY <2>7, Zenon
<1> QED BY <1>7, <1>8, Zenon DEF g

\* The dialogues of Admits, place by place.
LEMMA AdmitsIs ==
    ASSUME NEW h \in Seq(Lines)
    PROVE  Admits(h) <=>
             \E i \in 1..Len(h) : \E e \in 1..Len(h) : Identified(h, i, e) /\ Finished(h, e)
<1>1. Admits(h) <=> \E i \in DOMAIN h : /\ \A j \in 1..(i - 1) : h[j] \in Restarts
                                        /\ \E a \in Uids, b \in Ends : SubSeq(h, i, Len(h)) = a \o b
  BY Zenon DEF Admits, Uids, Ends
<1>2. DOMAIN h = 1..Len(h)
  OBVIOUS
<1>3. ASSUME NEW i, NEW e, Identified(h, i, e) PROVE \A j \in 1..(i - 1) : h[j] \in Restarts
  BY <1>3, Zenon DEF Identified
<1> QED BY <1>1, <1>2, <1>3, SuffixIs, Zenon

\* A dialogue that lets a client in ends with BEGIN.
LEMMA AdmitsEnds ==
    ASSUME NEW h \in Seq(Lines), Admits(h)
    PROVE  Len(h) \in 1..Len(h) /\ h[Len(h)] = "BEGIN"
<1>1. PICK e \in 1..Len(h) : Finished(h, e)
  BY AdmitsIs, Zenon
<1>2. Len(h) \in Nat /\ e + 1 \in Nat /\ e + 2 \in Nat /\ Len(h) \in 1..Len(h)
  OBVIOUS
<1> QED BY <1>1, <1>2, Zenon DEF Finished

\* One more line.
LEMMA AppendIs ==
    ASSUME NEW S, NEW h \in Seq(S), NEW l \in S
    PROVE  /\ Append(h, l) \in Seq(S) /\ Len(Append(h, l)) = Len(h) + 1 /\ Len(h) \in Nat
           /\ DOMAIN h = 1..Len(h) /\ DOMAIN Append(h, l) = 1..(Len(h) + 1)
           /\ Append(h, l)[Len(h) + 1] = l
           /\ \A k \in 1..Len(h) : Append(h, l)[k] = h[k] /\ k \in 1..(Len(h) + 1)
           /\ \A k \in 1..(Len(h) + 1) : k \in 1..Len(h) \/ k = Len(h) + 1
  OBVIOUS

\* The shapes, one by one.
LEMMA ShapeIs ==
    ASSUME NEW h
    PROVE  /\ Shape(h, "null") <=> h = <<>>
           /\ Shape(h, "lines") <=> \A j \in 1..Len(h) : h[j] \in Restarts
           /\ Shape(h, "data") <=> /\ Len(h) > 0 /\ h[Len(h)] = "AUTH EXTERNAL"
                                   /\ \A j \in 1..(Len(h) - 1) : h[j] \in Restarts
           /\ Shape(h, "begin") <=> \E i \in 1..Len(h) : Identified(h, i, Len(h))
           /\ Shape(h, "fd") <=> /\ Len(h) > 0 /\ h[Len(h)] = "NEGOTIATE_UNIX_FD"
                                 /\ \E i \in 1..Len(h) : Identified(h, i, Len(h) - 1)
           /\ Shape(h, "run") <=> Admits(h) /\ h # <<>> /\ h[Len(h)] = "BEGIN"
  BY Zenon DEF Shape

\* An accepted uid stays where it was.
LEMMA IdentifiedStays ==
    ASSUME NEW h \in Seq(Lines), NEW l \in Lines, NEW i \in 1..Len(h), NEW e \in 1..Len(h),
           Identified(h, i, e)
    PROVE  Identified(Append(h, l), i, e)
<1> DEFINE g == Append(h, l)
           n == Len(h)
<1>1. Len(g) = n + 1 /\ n \in Nat /\ \A k \in 1..n : g[k] = h[k] /\ k \in 1..(n + 1)
  BY AppendIs, Zenon
<1>2. \A j \in 1..(i - 1) : j \in 1..n
  BY <1>1
<1> HIDE DEF g
<1>3. i \in 1..Len(g) /\ \A j \in 1..(i - 1) : g[j] \in Restarts
  <2>1. \A j \in 1..(i - 1) : h[j] \in Restarts
    BY Zenon DEF Identified
  <2> QED BY <1>1, <1>2, <2>1, Zenon
<1>4. g[i] = h[i] /\ g[e] = h[e] /\ e \in 1..Len(g)
  BY <1>1, Zenon
<1>5. Identified(g, i, e)
  BY <1>3, <1>4, Zenon DEF Identified
<1> QED BY <1>5, Zenon DEF g

\* What a line does to the shape of the dialogue.
LEMMA LineShapes ==
    ASSUME NEW h \in Seq(Lines), NEW l \in Lines
    PROVE  /\ Shape(h, "lines") /\ l = "AUTH EXTERNAL uid" => Shape(Append(h, l), "begin")
           /\ Shape(h, "lines") /\ l = "AUTH EXTERNAL" => Shape(Append(h, l), "data")
           /\ Shape(h, "lines") /\ l \in Restarts => Shape(Append(h, l), "lines")
           /\ Shape(h, "data") /\ l \in {"DATA uid", "DATA"} => Shape(Append(h, l), "begin")
           /\ Shape(h, "begin") /\ l = "NEGOTIATE_UNIX_FD" => Shape(Append(h, l), "fd")
           /\ Shape(h, "begin") /\ l = "BEGIN" => Shape(Append(h, l), "run")
           /\ Shape(h, "fd") /\ l = "BEGIN" => Shape(Append(h, l), "run")
<1> DEFINE g == Append(h, l)
           n == Len(h)
<1>1. /\ g \in Seq(Lines) /\ Len(g) = n + 1 /\ n \in Nat /\ g[n + 1] = l
      /\ \A k \in 1..n : g[k] = h[k] /\ k \in 1..(n + 1)
      /\ \A k \in 1..(n + 1) : k \in 1..n \/ k = n + 1
  BY AppendIs
<1>0. g # <<>>
  BY <1>1
<1> HIDE DEF g
<1>2. (n + 1) - 1 = n /\ n + 1 > 0 /\ n + 1 \in 1..(n + 1) /\ (n > 0 => n \in 1..n)
  <2>1. n \in Nat
    BY <1>1, Zenon
  <2> QED BY <2>1
<1>3. ASSUME \A j \in 1..n : h[j] \in Restarts
      PROVE  \A j \in 1..n : g[j] \in Restarts
  BY <1>1, <1>3, Zenon
<1>4. ASSUME Shape(h, "lines"), l = "AUTH EXTERNAL uid" PROVE Shape(g, "begin")
  <2>1. Identified(g, n + 1, Len(g))
    BY <1>1, <1>2, <1>3, <1>4, ShapeIs, Zenon DEF Identified
  <2> QED BY <1>1, <1>2, <2>1, ShapeIs, Zenon
<1>5. ASSUME Shape(h, "lines"), l = "AUTH EXTERNAL" PROVE Shape(g, "data")
  BY <1>1, <1>2, <1>3, <1>5, ShapeIs, Zenon
<1>6. ASSUME Shape(h, "lines"), l \in Restarts PROVE Shape(g, "lines")
  BY <1>1, <1>2, <1>3, <1>6, ShapeIs, Zenon
<1>7. ASSUME Shape(h, "data"), l \in {"DATA uid", "DATA"} PROVE Shape(g, "begin")
  <2>1. n > 0 /\ h[n] = "AUTH EXTERNAL" /\ \A j \in 1..(n - 1) : h[j] \in Restarts
    BY <1>7, ShapeIs, Zenon
  <2>6. n > 0 /\ n \in Nat
    BY <1>1, <2>1, Zenon
  <2>2. n \in 1..n /\ \A j \in 1..(n - 1) : j \in 1..n
    BY <2>6
  <2>3. \A j \in 1..(n - 1) : g[j] \in Restarts
    BY <1>1, <2>1, <2>2, Zenon
  <2>4. n \in 1..Len(g) /\ Len(g) = n + 1 /\ g[n] = "AUTH EXTERNAL" /\ Len(g) \in 1..Len(g)
    BY <1>1, <1>2, <2>1, <2>2, Zenon
  <2>5. Identified(g, n, Len(g))
    BY <1>1, <1>7, <2>3, <2>4, Zenon DEF Identified
  <2> QED BY <2>4, <2>5, ShapeIs, Zenon
<1>8. ASSUME Shape(h, "begin"), l = "NEGOTIATE_UNIX_FD" PROVE Shape(g, "fd")
  <2>1. PICK i \in 1..n : Identified(h, i, n)
    BY <1>8, ShapeIs, Zenon
  <2>2. n \in 1..n
    BY <1>1
  <2>3. Identified(g, i, n)
    BY <2>1, <2>2, IdentifiedStays, Zenon DEF g
  <2> QED BY <1>1, <1>2, <1>8, <2>3, ShapeIs, Zenon
<1>9. ASSUME Shape(h, "begin"), l = "BEGIN" PROVE Shape(g, "run")
  <2>1. PICK i \in 1..n : Identified(h, i, n)
    BY <1>9, ShapeIs, Zenon
  <2>2. n \in 1..n
    BY <1>1
  <2>3. Identified(g, i, n)
    BY <2>1, <2>2, IdentifiedStays, Zenon DEF g
  <2>4. Finished(g, n)
    BY <1>1, <1>9, Zenon DEF Finished
  <2>5. Admits(g)
    BY <1>1, <2>1, <2>2, <2>3, <2>4, AdmitsIs, Zenon
  <2> QED BY <1>0, <1>1, <1>9, <2>5, ShapeIs, Zenon
<1>10. ASSUME Shape(h, "fd"), l = "BEGIN" PROVE Shape(g, "run")
  <2>1. PICK i \in 1..n : Identified(h, i, n - 1)
    BY <1>10, ShapeIs, Zenon
  <2>2. n > 0 /\ h[n] = "NEGOTIATE_UNIX_FD"
    BY <1>10, ShapeIs, Zenon
  <2>3. n - 1 = i \/ n - 1 = i + 1
    BY <2>1, Zenon DEF Identified
  <2>9. n \in Nat
    BY <1>1, Zenon
  <2>4. n - 1 \in 1..n /\ n \in 1..n /\ (n - 1) + 1 = n /\ (n - 1) + 2 = n + 1
    BY <2>3, <2>9
  <2>5. Identified(g, i, n - 1)
    BY <2>1, <2>4, IdentifiedStays, Zenon DEF g
  <2>6. Finished(g, n - 1)
    BY <1>1, <1>10, <2>2, <2>4, Zenon DEF Finished
  <2>7. i \in 1..Len(g) /\ n - 1 \in 1..Len(g)
    BY <1>1, <2>4, Zenon
  <2>8. Admits(g)
    BY <1>1, <2>5, <2>6, <2>7, AdmitsIs, Zenon
  <2> QED BY <1>0, <1>1, <1>10, <2>8, ShapeIs, Zenon
<1> QED BY <1>4, <1>5, <1>6, <1>7, <1>8, <1>9, <1>10, Zenon DEF g

\* A line that is refused does not complete a dialogue.
RefusedAt(h, l) ==
    \/ Shape(h, "lines") /\ l \notin Restarts \cup {"AUTH EXTERNAL uid", "AUTH EXTERNAL"}
    \/ Shape(h, "data") /\ l \notin {"DATA uid", "DATA"}
    \/ l # "BEGIN"

\* Refuse answers with a line that cannot have completed the dialogue.
LEMMA RefusedLines ==
    ASSUME NEW h \in Seq(Lines), NEW l \in Lines, RefusedAt(h, l)
    PROVE  ~ Admits(Append(h, l))
<1> DEFINE g == Append(h, l)
           n == Len(h)
<1>1. /\ g \in Seq(Lines) /\ Len(g) = n + 1 /\ n \in Nat /\ g[n + 1] = l
      /\ \A k \in 1..n : g[k] = h[k] /\ k \in 1..(n + 1)
  BY AppendIs
<1> HIDE DEF g
<1>2. SUFFICES ASSUME Admits(g) PROVE FALSE
  BY Zenon DEF g
<1>3. PICK i \in 1..Len(g) : \E e \in 1..Len(g) : Identified(g, i, e) /\ Finished(g, e)
  BY <1>1, <1>2, AdmitsIs, Zenon
<1>4. PICK e \in 1..Len(g) : Identified(g, i, e) /\ Finished(g, e)
  BY <1>3, Zenon
<1>5. l = "BEGIN"
  BY <1>1, <1>2, AdmitsEnds, Zenon
<1>6. /\ g[i] \in {"AUTH EXTERNAL uid", "AUTH EXTERNAL"} /\ (e = i \/ e = i + 1)
      /\ e = i => g[i] = "AUTH EXTERNAL uid"
  <2>1. i # i + 1
    OBVIOUS
  <2> QED BY <1>4, <2>1, Zenon DEF Identified
<1>7. Len(g) = n + 1 /\ n \in Nat /\ (Len(g) = e + 1 \/ Len(g) = e + 2)
  BY <1>1, <1>4, Zenon DEF Finished
<1>12. e = i \/ e = i + 1
  BY <1>6, Zenon
<1>8. i \in 1..n /\ i <= e /\ e <= n
  BY <1>7, <1>12
<1>9. g[i] = h[i] /\ g[i] \notin Restarts
  BY <1>1, <1>6, <1>8, Zenon DEF Restarts
<1>10. CASE Shape(h, "lines")
  BY <1>8, <1>9, <1>10, ShapeIs, Zenon
<1>11. CASE Shape(h, "data")
  <2>1. h[n] = "AUTH EXTERNAL" /\ \A j \in 1..(n - 1) : h[j] \in Restarts
    BY <1>11, ShapeIs, Zenon
  <2>2. i \notin 1..(n - 1)
    BY <1>9, <2>1, Zenon
  <2>4. i = n /\ e = i
    BY <1>7, <1>8, <1>12, <2>2
  <2> QED BY <1>6, <1>9, <2>1, <2>4, Zenon
<1> QED BY <1>5, <1>10, <1>11, Zenon DEF RefusedAt

\* What occurs in a sequence with one more element.
Has(s, x) == \E i \in DOMAIN s : s[i] = x

\* Append adds the occurrence of the new element and no other.
LEMMA Occurs ==
    ASSUME NEW S, NEW h \in Seq(S), NEW l \in S
    PROVE  \A x : Has(Append(h, l), x) <=> Has(h, x) \/ l = x
<1> DEFINE g == Append(h, l)
           n == Len(h)
<1>1. /\ DOMAIN h = 1..n /\ DOMAIN g = 1..(n + 1) /\ g[n + 1] = l /\ n \in Nat
      /\ \A k \in 1..n : g[k] = h[k] /\ k \in 1..(n + 1)
      /\ \A k \in 1..(n + 1) : k \in 1..n \/ k = n + 1
  BY AppendIs
<1> HIDE DEF g
<1>2. n + 1 \in 1..(n + 1)
  BY <1>1
<1>3. ASSUME NEW x PROVE Has(g, x) <=> Has(h, x) \/ l = x
  BY <1>1, <1>2, Zenon DEF Has
<1> QED BY <1>3, Zenon DEF g

\* The steps that do not read a line leave the dialogue alone.
DialogueKept ==
    /\ heard' = heard /\ said' = said
    /\ \/ pc' = pc /\ why' = why
       \/ pc \in {"run", "write"} /\ pc' \in {"run", "write"} /\ why' = why
       \/ /\ pc # "left" /\ pc' = "left"
          /\ why' = "eof" \/ (pc \in {"run", "write"} /\ why' \in {"frame", "write", "wouldblock"})

\* Only authenticate_server and complete_auth, when they read a line, go on with the
\* dialogue; everything else keeps it.
LEMMA OthersKeepDialogue ==
    ASSUME [Next]_vars, ~ ReadNull,
           \A line \in Lines : ~ AuthLine(line) /\ ~ DataLine(line) /\ ~ BeginLine(line)
    PROVE  DialogueKept
<1>1. ASSUME NEW line \in Lines, SendLine(line) PROVE DialogueKept
  BY <1>1, Zenon DEF SendLine, Send, DialogueKept, authVars
<1>2. ASSUME SendPiece \/ Close \/ Receive \/ Fill PROVE DialogueKept
  BY <1>2, Zenon DEF SendPiece, Send, Close, Receive, Fill, DialogueKept, authVars
<1>3. ASSUME NEW fds \in BOOLEAN, Queue(fds) PROVE DialogueKept
  BY <1>3, Zenon DEF Queue, DialogueKept, authVars
<1>4. ASSUME DialogueEnds PROVE DialogueKept
  BY <1>4, Zenon DEF DialogueEnds, Leave, Dialogue, DialogueKept, authVars
<1>5. ASSUME ReadEnds PROVE DialogueKept
  BY <1>5, Zenon DEF ReadEnds, Leave, DialogueKept, authVars
<1>6. ASSUME Poll PROVE DialogueKept
  <2>1. heard' = heard /\ said' = said /\ pc = "run"
    BY <1>6, Zenon DEF Poll, authVars
  <2>2. (pc' = pc /\ why' = why) \/ (pc' = "left" /\ why' = "frame")
    BY <1>6, Zenon DEF Poll, Suspend, HandOver, Leave
  <2> QED BY <2>1, <2>2, Zenon DEF DialogueKept
<1>7. ASSUME Recv PROVE DialogueKept
  BY <1>7, Zenon DEF Recv, DialogueKept, authVars
<1>8. ASSUME WriteAll PROVE DialogueKept
  BY <1>8, Zenon DEF WriteAll, Put, DialogueKept, authVars
<1>9. ASSUME SendFds PROVE DialogueKept
  BY <1>9, Zenon DEF SendFds, Put, Leave, DialogueKept, authVars
<1>10. ASSUME WriteFails PROVE DialogueKept
  BY <1>10, Zenon DEF WriteFails, Leave, DialogueKept, authVars
<1>11. ASSUME UNCHANGED vars PROVE DialogueKept
  BY <1>11, Zenon DEF vars, authVars, DialogueKept
<1> QED BY <1>1, <1>2, <1>3, <1>4, <1>5, <1>6, <1>7, <1>8, <1>9, <1>10, <1>11, Actions, Zenon

\* A reply to a line.
LEMMA LineAnswered ==
    ASSUME DialogueInv, pc \in Dialogue, NEW line \in Lines, NEW reply \in Replies,
           heard' = Append(heard, line), said' = Append(said, reply),
           pc' \in Dialogue, why' = why, Shape(heard', pc'), line # "BEGIN",
           line = "NEGOTIATE_UNIX_FD" <=> reply = "AGREE_UNIX_FD"
    PROVE  DialogueInv'
<1>1. /\ heard \in Seq(Lines) /\ said \in Seq(Replies) /\ pc # "left" /\ why = "none"
      /\ Len(said) = Len(heard) /\ Agreed /\ \A i \in DOMAIN heard : heard[i] # "BEGIN"
  BY Zenon DEF DialogueInv, Dialogue
<1> DEFINE hs == Append(heard, line)
           ss == Append(said, reply)
<1>6. heard \in Seq(Lines)
  BY <1>1, Zenon
<1>7. said \in Seq(Replies)
  BY <1>1, Zenon
<1>8. hs \in Seq(Lines) /\ Len(hs) = Len(heard) + 1
  BY <1>6, AppendIs, Zenon
<1>9. ss \in Seq(Replies) /\ Len(ss) = Len(said) + 1
  BY <1>7, AppendIs, Zenon
<1>10. \A x : Has(hs, x) <=> Has(heard, x) \/ line = x
  BY <1>6, Occurs, Zenon
<1>11. \A x : Has(ss, x) <=> Has(said, x) \/ reply = x
  BY <1>7, Occurs, Zenon
<1> HIDE DEF hs, ss
<1>12. heard' = hs /\ said' = ss
  BY Zenon DEF hs, ss
<1>2. /\ heard' \in Seq(Lines) /\ said' \in Seq(Replies)
      /\ Len(heard') = Len(said')
  BY <1>1, <1>8, <1>9, <1>12, Zenon
<1>3. \A i \in DOMAIN heard' : heard'[i] # "BEGIN"
  <2>1. ~ Has(heard, "BEGIN")
    BY <1>1, Zenon DEF Has
  <2>2. ~ Has(hs, "BEGIN")
    BY <1>10, <2>1, Zenon
  <2> QED BY <1>12, <2>2, Zenon DEF Has
<1>4. Agreed'
  <2>1. Has(heard, "NEGOTIATE_UNIX_FD") <=> Has(said, "AGREE_UNIX_FD")
    BY <1>1, Zenon DEF Agreed, Has
  <2>2. Has(hs, "NEGOTIATE_UNIX_FD") <=> Has(ss, "AGREE_UNIX_FD")
    BY <1>10, <1>11, <2>1, Zenon
  <2> QED BY <1>12, <2>2, Zenon DEF Agreed, Has
<1>5. pc' \notin {"run", "write", "left"} /\ why' \notin {"frame", "write", "wouldblock", "auth"}
  BY <1>1, Zenon DEF Dialogue
<1> QED BY <1>1, <1>2, <1>3, <1>4, <1>5, Zenon DEF DialogueInv, Served

\* A line that ends the task.
LEMMA LineRefused ==
    ASSUME DialogueInv, pc \in Dialogue, NEW line \in Lines,
           heard' = Append(heard, line), said' = said, pc' = "left", why' = "auth",
           RefusedAt(heard, line)
    PROVE  DialogueInv'
<1>1. heard \in Seq(Lines) /\ said \in Seq(Replies)
  BY Zenon DEF DialogueInv
<1>2. heard' \in Seq(Lines) /\ ~ Admits(heard')
  BY <1>1, AppendIs, RefusedLines, Zenon
<1> QED BY <1>1, <1>2, Zenon DEF DialogueInv, Served, Dialogue

\* BEGIN in its place.
LEMMA LineBegins ==
    ASSUME DialogueInv, pc \in Dialogue, NEW line \in Lines, line = "BEGIN",
           heard' = Append(heard, line), said' = said, pc' = "run", why' = why,
           Shape(heard', "run")
    PROVE  DialogueInv'
<1>1. /\ heard \in Seq(Lines) /\ said \in Seq(Replies) /\ pc # "left" /\ why = "none"
      /\ Len(said) = Len(heard) /\ Agreed
  BY Zenon DEF DialogueInv, Dialogue
<1>2. heard \in Seq(Lines)
  BY <1>1, Zenon
<1> DEFINE hs == Append(heard, line)
<1>3. hs \in Seq(Lines) /\ Len(hs) = Len(heard) + 1 /\ Len(heard) \in Nat
  BY <1>2, AppendIs, Zenon
<1>4. \A x : Has(hs, x) <=> Has(heard, x) \/ line = x
  BY <1>2, Occurs, Zenon
<1> HIDE DEF hs
<1>5. heard' = hs
  BY Zenon DEF hs
<1>6. Agreed'
  <2>1. Has(heard, "NEGOTIATE_UNIX_FD") <=> Has(said, "AGREE_UNIX_FD")
    BY <1>1, Zenon DEF Agreed, Has
  <2>2. Has(hs, "NEGOTIATE_UNIX_FD") <=> Has(said, "AGREE_UNIX_FD")
    BY <1>4, <2>1, Zenon
  <2> QED BY <1>5, <2>2, Zenon DEF Agreed, Has
<1>7. Len(said') = Len(heard') - 1
  <2>1. \A n \in Nat : (n + 1) - 1 = n
    OBVIOUS
  <2> QED BY <1>1, <1>3, <1>5, <2>1, Zenon
<1>8. heard' \in Seq(Lines) /\ said' \in Seq(Replies)
  BY <1>1, <1>3, <1>5, Zenon
<1> QED BY <1>1, <1>6, <1>7, <1>8, Zenon DEF DialogueInv, Served, Dialogue

\* Every step keeps DialogueInv.
LEMMA DialogueStep ==
    ASSUME DialogueInv, [Next]_vars
    PROVE  DialogueInv'
<1>0. heard \in Seq(Lines)
  BY Zenon DEF DialogueInv
<1>1. ASSUME DialogueKept PROVE DialogueInv'
  <2>1. CASE pc' = pc /\ why' = why
    BY <1>1, <2>1, Zenon DEF DialogueKept, DialogueInv, Served, Agreed
  <2>2. CASE pc \in {"run", "write"} /\ pc' \in {"run", "write"} /\ why' = why
    BY <1>1, <2>2, Zenon DEF DialogueKept, DialogueInv, Served, Agreed, Dialogue
  <2>3. CASE /\ pc # "left" /\ pc' = "left"
             /\ why' = "eof" \/ (pc \in {"run", "write"} /\ why' \in {"frame", "write", "wouldblock"})
    BY <1>1, <2>3, Zenon DEF DialogueKept, DialogueInv, Served, Agreed, Dialogue
  <2> QED BY <1>1, <2>1, <2>2, <2>3, Zenon DEF DialogueKept
<1>2. ASSUME ReadNull PROVE DialogueInv'
  <2>1. /\ heard' = heard /\ said' = said /\ pc = "null"
        /\ (pc' = "lines" /\ why' = why) \/ (pc' = "left" /\ why' = "auth")
    BY <1>2, Zenon DEF ReadNull, Leave, authVars
  <2>2. /\ heard = <<>> /\ said \in Seq(Replies) /\ why = "none" /\ Len(said) = Len(heard)
        /\ Agreed /\ \A i \in DOMAIN heard : heard[i] # "BEGIN"
    BY <2>1, ShapeIs, Zenon DEF DialogueInv
  <2>3. \A j \in 1..Len(<<>>) : FALSE
    OBVIOUS
  <2>4. Shape(heard, "lines")
    BY <2>2, <2>3, ShapeIs, Zenon
  <2> QED BY <1>0, <2>1, <2>2, <2>4, Zenon DEF DialogueInv, Served, Agreed, Dialogue
<1>3. ASSUME NEW line \in Lines, AuthLine(line) PROVE DialogueInv'
  <2>1. heard' = Append(heard, line) /\ pc = "lines" /\ pc \in Dialogue
    BY <1>3, Zenon DEF AuthLine, Hear, Dialogue
  <2>2. Shape(heard, "lines")
    BY <2>1, Zenon DEF DialogueInv
  <2>3. CASE line = "AUTH EXTERNAL uid"
    <3>1. said' = Append(said, "OK") /\ pc' = "begin" /\ why' = why
      BY <1>3, <2>3, Zenon DEF AuthLine, Say, Restarts
    <3>2. Shape(heard', pc')
      BY <1>0, <2>1, <2>2, <2>3, <3>1, LineShapes, Zenon
    <3> QED BY <2>1, <2>3, <3>1, <3>2, LineAnswered, Zenon DEF Replies, Dialogue
  <2>4. CASE line = "AUTH EXTERNAL"
    <3>1. said' = Append(said, "DATA") /\ pc' = "data" /\ why' = why
      BY <1>3, <2>4, Zenon DEF AuthLine, Say, Restarts
    <3>2. Shape(heard', pc')
      BY <1>0, <2>1, <2>2, <2>4, <3>1, LineShapes, Zenon
    <3> QED BY <2>1, <2>4, <3>1, <3>2, LineAnswered, Zenon DEF Replies, Dialogue
  <2>5. CASE line \in Restarts
    <3>1. said' = Append(said, "REJECTED") /\ pc' = "lines" /\ why' = why
      BY <1>3, <2>5, Zenon DEF AuthLine, Say, Restarts
    <3>2. Shape(heard', pc')
      BY <1>0, <2>1, <2>2, <2>5, <3>1, LineShapes, Zenon
    <3>3. line # "BEGIN" /\ line # "NEGOTIATE_UNIX_FD"
      BY <2>5, Zenon DEF Restarts
    <3> QED BY <2>1, <3>1, <3>2, <3>3, LineAnswered, Zenon DEF Replies, Dialogue
  <2>6. CASE line \notin Restarts \cup {"AUTH EXTERNAL uid", "AUTH EXTERNAL"}
    <3>1. said' = said /\ pc' = "left" /\ why' = "auth"
      BY <1>3, <2>6, Zenon DEF AuthLine, Refuse, Leave
    <3>2. RefusedAt(heard, line)
      BY <2>2, <2>6, Zenon DEF RefusedAt
    <3> QED BY <2>1, <3>1, <3>2, LineRefused, Zenon
  <2> QED BY <2>3, <2>4, <2>5, <2>6, Zenon
<1>4. ASSUME NEW line \in Lines, DataLine(line) PROVE DialogueInv'
  <2>1. heard' = Append(heard, line) /\ pc = "data" /\ pc \in Dialogue
    BY <1>4, Zenon DEF DataLine, Hear, Dialogue
  <2>2. Shape(heard, "data")
    BY <2>1, Zenon DEF DialogueInv
  <2>3. CASE line \in {"DATA uid", "DATA"}
    <3>1. said' = Append(said, "OK") /\ pc' = "begin" /\ why' = why
      BY <1>4, <2>3, Zenon DEF DataLine, Say
    <3>2. Shape(heard', pc')
      BY <1>0, <2>1, <2>2, <2>3, <3>1, LineShapes, Zenon
    <3>3. line # "BEGIN" /\ line # "NEGOTIATE_UNIX_FD"
      BY <2>3, Zenon
    <3> QED BY <2>1, <3>1, <3>2, <3>3, LineAnswered, Zenon DEF Replies, Dialogue
  <2>4. CASE line \notin {"DATA uid", "DATA"}
    <3>1. said' = said /\ pc' = "left" /\ why' = "auth"
      BY <1>4, <2>4, Zenon DEF DataLine, Refuse, Leave
    <3>2. RefusedAt(heard, line)
      BY <2>2, <2>4, Zenon DEF RefusedAt
    <3> QED BY <2>1, <3>1, <3>2, LineRefused, Zenon
  <2> QED BY <2>3, <2>4, Zenon
<1>5. ASSUME NEW line \in Lines, BeginLine(line) PROVE DialogueInv'
  <2>1. heard' = Append(heard, line) /\ (pc = "begin" \/ pc = "fd") /\ pc \in Dialogue
    BY <1>5, Zenon DEF BeginLine, Hear, Dialogue
  <2>2. Shape(heard, pc)
    BY <2>1, Zenon DEF DialogueInv
  <2>3. CASE line = "BEGIN"
    <3>1. said' = said /\ pc' = "run" /\ why' = why
      BY <1>5, <2>3, Zenon DEF BeginLine, Start
    <3>2. Shape(heard', "run")
      BY <1>0, <2>1, <2>2, <2>3, LineShapes, Zenon
    <3> QED BY <2>1, <2>3, <3>1, <3>2, LineBegins, Zenon
  <2>4. CASE line = "NEGOTIATE_UNIX_FD" /\ pc = "begin"
    <3>1. said' = Append(said, "AGREE_UNIX_FD") /\ pc' = "fd" /\ why' = why
      BY <1>5, <2>4, Zenon DEF BeginLine, Say
    <3>2. Shape(heard', pc')
      BY <1>0, <2>1, <2>2, <2>4, <3>1, LineShapes, Zenon
    <3> QED BY <2>1, <2>4, <3>1, <3>2, LineAnswered, Zenon DEF Replies, Dialogue
  <2>5. CASE line # "BEGIN" /\ ~ (line = "NEGOTIATE_UNIX_FD" /\ pc = "begin")
    <3>1. said' = said /\ pc' = "left" /\ why' = "auth"
      BY <1>5, <2>5, Zenon DEF BeginLine, Refuse, Leave
    <3>2. RefusedAt(heard, line)
      BY <2>5, Zenon DEF RefusedAt
    <3> QED BY <2>1, <3>1, <3>2, LineRefused, Zenon
  <2> QED BY <2>3, <2>4, <2>5, Zenon
<1> QED BY <1>1, <1>2, <1>3, <1>4, <1>5, OthersKeepDialogue, Zenon

-----------------------------------------------------------------------------
(* From the socket to the frames.                                            *)

\* All units, in the order of the code's places: as NoByteLost joins them, and as
\* it is during the dialogue and in the loop.
LUs(h) == [i \in DOMAIN h |-> LU(h[i])]
Total(h, d, g, p, b, s) == LUs(h) \o d \o g \o p \o b \o s
Talk(h, b, s) == LUs(h) \o (b \o s)
Flow(h, d, g, p, s) == (LUs(h) \o d) \o (g \o (p \o s))

\* Lines as units.
LEMMA LinesAsUnits ==
    ASSUME NEW h \in Seq(Lines)
    PROVE  /\ LUs(h) \in Seq(Units) /\ LUs(h) \in Seq(AnyUnits) /\ Len(LUs(h)) = Len(h)
           /\ \A i \in 1..Len(h) : LUs(h)[i] = LU(h[i])
           /\ \A l \in Lines : LUs(Append(h, l)) = Append(LUs(h), LU(l))
<1>1. Len(h) \in Nat /\ DOMAIN h = 1..Len(h) /\ \A i \in 1..Len(h) : h[i] \in Lines
  OBVIOUS
<1>2. \A l \in Lines : LU(l) \in Units /\ LU(l) \in AnyUnits
  BY UnitIs, Zenon
<1>3. LUs(h) \in Seq(Units) /\ Len(LUs(h)) = Len(h) /\ \A i \in 1..Len(h) : LUs(h)[i] = LU(h[i])
  BY <1>1, <1>2 DEF LUs
<1>4. LUs(h) \in Seq(AnyUnits)
  BY <1>1, <1>2 DEF LUs
<1>5. ASSUME NEW l \in Lines PROVE LUs(Append(h, l)) = Append(LUs(h), LU(l))
  <2> DEFINE g == Append(h, l)
             n == Len(h)
             u == LU(l)
             x == LUs(h)
             y == Append(x, u)
  <2>1. /\ g \in Seq(Lines) /\ n \in Nat /\ DOMAIN g = 1..(n + 1) /\ g[n + 1] = l
        /\ \A k \in 1..n : g[k] = h[k]
        /\ \A k \in 1..(n + 1) : k \in 1..n \/ k = n + 1
    BY AppendIs
  <2>2. u \in Units /\ x \in Seq(Units) /\ Len(x) = n /\ \A i \in 1..n : x[i] = LU(h[i])
    BY <1>2, <1>3, Zenon
  <2> HIDE DEF g, u, x
  <2>3. /\ y \in Seq(Units) /\ DOMAIN y = 1..(n + 1) /\ y[n + 1] = u
        /\ \A k \in 1..n : y[k] = x[k]
    BY <2>1, <2>2, AppendIs
  <2> HIDE DEF y
  <2>4. ASSUME NEW i \in 1..(n + 1) PROVE LU(g[i]) = y[i]
    BY <2>1, <2>2, <2>3, Zenon DEF u
  <2>5. LUs(g) = [i \in 1..(n + 1) |-> LU(g[i])]
    BY <2>1, Zenon DEF LUs
  <2>6. y = [i \in 1..(n + 1) |-> y[i]]
    BY <2>3
  <2>7. LUs(g) = y
    BY <2>4, <2>5, <2>6, Zenon
  <2> QED BY <2>7, Zenon DEF g, y, x, u
<1> QED BY <1>3, <1>4, <1>5, Zenon

\* Sequences of units: \o stays among them, is associative and has a unit.
US == Seq(AnyUnits)

\* \o stays among the sequences of units, and <<>> adds nothing.
LEMMA UnitsJoin ==
    /\ <<>> \in US /\ Seq(Units) \subseteq US
    /\ \A a, b \in US : a \o b \in US
    /\ \A a \in US : a \o <<>> = a /\ <<>> \o a = a
<1>1. <<>> \in Seq(AnyUnits)
  OBVIOUS
<1>2. ASSUME NEW a \in Seq(Units) PROVE a \in Seq(AnyUnits)
  <2>1. Units \subseteq AnyUnits
    BY UnitIs, Zenon
  <2> QED BY <2>1
<1>3. ASSUME NEW a \in Seq(AnyUnits), NEW b \in Seq(AnyUnits) PROVE a \o b \in Seq(AnyUnits)
  BY Joined, Zenon
<1>4. ASSUME NEW a \in Seq(AnyUnits) PROVE a \o <<>> = a /\ <<>> \o a = a
  BY JoinedEmpty, Zenon
<1> QED BY <1>1, <1>2, <1>3, <1>4, Zenon DEF US

\* (a then b) then c.
Assoc(a, b, c) == (a \o b) \o c = a \o (b \o c)

\* The units before, between and after can be joined in either order.
LEMMA UnitsAssociate ==
    \A a, b, c \in US : Assoc(a, b, c)
<1>1. ASSUME NEW a \in Seq(AnyUnits), NEW b \in Seq(AnyUnits), NEW c \in Seq(AnyUnits)
      PROVE  (a \o b) \o c = a \o (b \o c)
  BY JoinedTwice
<1> QED BY <1>1, Zenon DEF US, Assoc

\* The two forms are what NoByteLost joins.
LEMMA Totals ==
    ASSUME NEW h \in Seq(Lines), NEW d \in US, NEW g \in US, NEW p \in US, NEW s \in US
    PROVE  /\ Total(h, <<>>, <<>>, <<>>, p, s) = Talk(h, p, s)
           /\ Total(h, d, g, p, <<>>, s) = Flow(h, d, g, p, s)
<1> DEFINE x == LUs(h)
<1>1. x \in US
  BY LinesAsUnits, Zenon DEF US
<1> HIDE DEF x
<1>2. ((((x \o <<>>) \o <<>>) \o <<>>) \o p) \o s = x \o (p \o s)
  <2>1. x \o <<>> = x
    BY <1>1, UnitsJoin, Zenon
  <2>2. (x \o p) \o s = x \o (p \o s)
    BY <1>1, UnitsAssociate, Zenon DEF Assoc
  <2> QED BY <2>1, <2>2, Zenon
<1> DEFINE xd == x \o d
<1>3. xd \in US
  BY <1>1, UnitsJoin, Zenon
<1> HIDE DEF xd
<1>4. (((xd \o g) \o p) \o <<>>) \o s = xd \o (g \o (p \o s))
  <2>1. xd \o g \in US /\ p \o s \in US
    BY <1>3, UnitsJoin, Zenon
  <2>2. ((xd \o g) \o p) \o <<>> = (xd \o g) \o p
    BY <2>1, UnitsJoin, Zenon
  <2>3. ((xd \o g) \o p) \o s = (xd \o g) \o (p \o s)
    <3> DEFINE y == xd \o g
    <3>1. y \in US
      BY <2>1, Zenon
    <3> HIDE DEF y
    <3>2. (y \o p) \o s = y \o (p \o s)
      BY <3>1, UnitsAssociate, Zenon DEF Assoc
    <3> QED BY <3>2, Zenon DEF y
  <2>4. (xd \o g) \o (p \o s) = xd \o (g \o (p \o s))
    <3> DEFINE q == p \o s
    <3>1. q \in US
      BY <2>1, Zenon
    <3> HIDE DEF q
    <3>2. (xd \o g) \o q = xd \o (g \o q)
      BY <1>3, <3>1, UnitsAssociate, ZenonT(30) DEF Assoc
    <3> QED BY <3>2, Zenon DEF q
  <2> QED BY <2>2, <2>3, <2>4, Zenon
<1> QED BY <1>2, <1>4, Zenon DEF Total, Talk, Flow, x, xd

\* More arrives on the socket.
TalkMore(h, b, s, u) == s \o u \in US /\ Talk(h, b, s \o u) = Talk(h, b, s) \o u
FlowMore(h, d, g, p, s, u) ==
    s \o u \in US /\ Flow(h, d, g, p, s \o u) = Flow(h, d, g, p, s) \o u

\* What the client sends is added at the end of what there is, in the dialogue and in
\* the loop.
LEMMA MoreArrives ==
    ASSUME NEW h \in Seq(Lines), NEW d \in US, NEW g \in US, NEW p \in US, NEW s \in US,
           NEW u \in US
    PROVE  TalkMore(h, p, s, u) /\ FlowMore(h, d, g, p, s, u)
<1> DEFINE x == LUs(h)
<1>1. x \in US
  BY LinesAsUnits, Zenon DEF US
<1> HIDE DEF x
<1>2. s \o u \in US /\ p \o s \in US /\ x \o d \in US
  BY <1>1, UnitsJoin, Zenon
<1> DEFINE ps == p \o s
           xd == x \o d
<1>3. p \o (s \o u) = ps \o u
  BY UnitsAssociate, ZenonT(30) DEF Assoc
<1>4. ps \in US /\ xd \in US
  BY <1>2, Zenon
<1> HIDE DEF ps, xd
<1>5. x \o (ps \o u) = (x \o ps) \o u
  BY <1>1, <1>4, UnitsAssociate, ZenonT(30) DEF Assoc
<1> DEFINE gps == g \o ps
<1>6. g \o (ps \o u) = gps \o u
  <2>1. Assoc(g, ps, u)
    BY <1>4, UnitsAssociate, Zenon
  <2> QED BY <2>1, Zenon DEF Assoc
<1>7. gps \in US
  BY <1>4, UnitsJoin, Zenon
<1> HIDE DEF gps
<1>8. xd \o (gps \o u) = (xd \o gps) \o u
  <2>1. Assoc(xd, gps, u)
    BY <1>4, <1>7, UnitsAssociate, Zenon
  <2> QED BY <2>1, Zenon DEF Assoc
<1>9. Talk(h, p, s \o u) = Talk(h, p, s) \o u
  BY <1>3, <1>5, Zenon DEF Talk, x, ps
<1>10. Flow(h, d, g, p, s \o u) = Flow(h, d, g, p, s) \o u
  <2>1. Flow(h, d, g, p, s \o u) = xd \o (g \o (ps \o u))
    BY <1>3, Zenon DEF Flow, x, xd
  <2>2. Flow(h, d, g, p, s) = xd \o gps
    BY Zenon DEF Flow, x, xd, ps, gps
  <2> QED BY <1>6, <1>8, <2>1, <2>2, Zenon
<1> QED BY <1>2, <1>9, <1>10, Zenon DEF TalkMore, FlowMore

\* A line is read, and the loop takes over what the buffer holds.
LEMMA LineTaken ==
    ASSUME NEW h \in Seq(Lines), NEW b \in US, NEW s \in US, NEW l \in Lines,
           b # <<>>, Head(b) = LU(l)
    PROVE  /\ Tail(b) \in US /\ Append(h, l) \in Seq(Lines)
           /\ Talk(Append(h, l), Tail(b), s) = Talk(h, b, s)
           /\ Flow(Append(h, l), <<>>, <<>>, Tail(b), s) = Talk(h, b, s)
<1> DEFINE x == LUs(h)
           y == LUs(Append(h, l))
           t == Tail(b)
<1>1. x \in US /\ y = Append(x, Head(b))
  BY LinesAsUnits, Zenon DEF US
<1>2. Append(h, l) \in Seq(Lines)
  BY AppendIs, Zenon
<1>3. y \in US
  BY <1>2, LinesAsUnits, Zenon DEF US
<1>4. t \in US /\ y \o t = x \o b
  BY <1>1, FirstAndRest, Zenon DEF US
<1> HIDE DEF x, y, t
<1>5. (y \o t) \o s = y \o (t \o s)
  BY <1>3, <1>4, UnitsAssociate, Zenon DEF Assoc
<1>6. (x \o b) \o s = x \o (b \o s)
  BY <1>1, UnitsAssociate, Zenon DEF Assoc
<1>7. y \o (t \o s) = x \o (b \o s)
  BY <1>4, <1>5, <1>6, Zenon
<1>8. t \o s \in US
  BY <1>4, UnitsJoin, Zenon
<1>9. y \o <<>> = y /\ <<>> \o (t \o s) = t \o s
  BY <1>3, <1>8, UnitsJoin, Zenon
<1> QED BY <1>2, <1>4, <1>7, <1>9, Zenon DEF Talk, Flow, x, y, t

\* Where a part of so many units ends that is taken out of two sequences.
Split(lp, ls, new, fp) ==
    new \in 0..(lp + ls) /\ fp = IF new < lp THEN new ELSE lp

\* The pending data is emptied before the socket is read (read_exact).
LEMMA SplitIs ==
    ASSUME NEW lg \in Nat, NEW lp \in Nat, NEW ls \in Nat, NEW new, NEW fp, Split(lp, ls, new, fp)
    PROVE  /\ new \in Nat /\ fp \in 0..lp /\ new - fp \in 0..ls
           /\ lg + new \in 0..(lg + (lp + ls))
           /\ (lp - fp) + (ls - (new - fp)) = (lg + (lp + ls)) - (lg + new)
           /\ \A i \in 1..((lp - fp) + (ls - (new - fp))) :
                 \/ /\ i \in 1..(lp - fp) /\ fp + i \in 1..lp /\ fp + i \in 1..(lp + ls)
                    /\ (lg + new) + i = lg + (fp + i)
                 \/ \E j \in 1..(ls - (new - fp)) :
                       /\ i = (lp - fp) + j /\ (new - fp) + j \in 1..ls
                       /\ lp + ((new - fp) + j) \in 1..(lp + ls)
                       /\ (lg + new) + i = lg + (lp + ((new - fp) + j))
<1>1. /\ new \in Nat /\ new <= lp + ls /\ fp \in Nat
      /\ (new < lp /\ fp = new) \/ (new >= lp /\ fp = lp)
  BY DEF Split
<1>2. /\ fp \in 0..lp /\ new - fp \in 0..ls /\ lg + new \in 0..(lg + (lp + ls))
      /\ (lp - fp) + (ls - (new - fp)) = (lg + (lp + ls)) - (lg + new)
  BY <1>1
<1>3. ASSUME NEW i \in 1..((lp - fp) + (ls - (new - fp)))
      PROVE  \/ /\ i \in 1..(lp - fp) /\ fp + i \in 1..lp /\ fp + i \in 1..(lp + ls)
                /\ (lg + new) + i = lg + (fp + i)
             \/ \E j \in 1..(ls - (new - fp)) :
                   /\ i = (lp - fp) + j /\ (new - fp) + j \in 1..ls
                   /\ lp + ((new - fp) + j) \in 1..(lp + ls)
                   /\ (lg + new) + i = lg + (lp + ((new - fp) + j))
  <2>1. CASE i <= lp - fp
    <3>1. fp = new
      BY <1>1, <2>1
    <3> QED BY <1>1, <2>1, <3>1
  <2>2. CASE i > lp - fp
    <3> DEFINE j == i - (lp - fp)
    <3>1. /\ j \in 1..(ls - (new - fp)) /\ i = (lp - fp) + j /\ (new - fp) + j \in 1..ls
          /\ lp + ((new - fp) + j) \in 1..(lp + ls)
          /\ (lg + new) + i = lg + (lp + ((new - fp) + j))
      BY <1>1, <1>2, <2>2
    <3> QED BY <3>1, Zenon
  <2> QED BY <1>1, <2>1, <2>2
<1> QED BY <1>1, <1>2, <1>3, Zenon

\* What is taken out of the pending data and of the socket is the beginning of what
\* was available.
TakenOff(S, g, p, s, new, fp) ==
    /\ SubSeq(p, fp + 1, Len(p)) \in Seq(S)
    /\ SubSeq(s, (new - fp) + 1, Len(s)) \in Seq(S)
    /\ SubSeq(g \o (p \o s), 1, Len(g) + new)
         \o (SubSeq(p, fp + 1, Len(p)) \o SubSeq(s, (new - fp) + 1, Len(s)))
       = g \o (p \o s)

\* read_exact takes the units in order and leaves the rest in order.
LEMMA Taken ==
    ASSUME NEW S, NEW g \in Seq(S), NEW p \in Seq(S), NEW s \in Seq(S),
           NEW new, NEW fp, Split(Len(p), Len(s), new, fp)
    PROVE  TakenOff(S, g, p, s, new, fp)
<1> DEFINE lg == Len(g)
           lp == Len(p)
           ls == Len(s)
           ps == p \o s
           a == g \o ps
           p2 == SubSeq(p, fp + 1, lp)
           s2 == SubSeq(s, (new - fp) + 1, ls)
           q == p2 \o s2
           k0 == lg + new
           r == SubSeq(a, k0 + 1, Len(a))
<1>1. lg \in Nat /\ lp \in Nat /\ ls \in Nat
  OBVIOUS
<1>2. /\ new \in Nat /\ fp \in 0..lp /\ new - fp \in 0..ls
      /\ k0 \in 0..(lg + (lp + ls))
      /\ (lp - fp) + (ls - (new - fp)) = (lg + (lp + ls)) - k0
      /\ \A i \in 1..((lp - fp) + (ls - (new - fp))) :
            \/ /\ i \in 1..(lp - fp) /\ fp + i \in 1..lp /\ fp + i \in 1..(lp + ls)
               /\ k0 + i = lg + (fp + i)
            \/ \E j \in 1..(ls - (new - fp)) :
                  /\ i = (lp - fp) + j /\ (new - fp) + j \in 1..ls
                  /\ lp + ((new - fp) + j) \in 1..(lp + ls)
                  /\ k0 + i = lg + (lp + ((new - fp) + j))
  BY <1>1, SplitIs
<1>3. fp \in 0..lp /\ new - fp \in 0..ls
  BY <1>2, Zenon
<1>4. /\ p2 \in Seq(S) /\ Len(p2) = lp - fp
      /\ \A i \in 1..(lp - fp) : p2[i] = p[fp + i]
  BY <1>3, Cut, Zenon
<1>5. /\ s2 \in Seq(S) /\ Len(s2) = ls - (new - fp)
      /\ \A i \in 1..(ls - (new - fp)) : s2[i] = s[(new - fp) + i]
  BY <1>3, Cut, Zenon
<1>6. /\ ps \in Seq(S) /\ Len(ps) = lp + ls /\ \A i \in 1..lp : ps[i] = p[i]
      /\ \A i \in 1..ls : ps[lp + i] = s[i]
  BY Joined
<1>7. ps \in Seq(S) /\ p2 \in Seq(S) /\ s2 \in Seq(S)
  BY <1>4, <1>5, <1>6, Zenon
<1> HIDE DEF ps, p2, s2
<1>8. a \in Seq(S) /\ Len(a) = lg + Len(ps) /\ \A i \in 1..Len(ps) : a[lg + i] = ps[i]
  BY <1>7, Joined
<1>9. /\ q \in Seq(S) /\ Len(q) = Len(p2) + Len(s2) /\ \A i \in 1..Len(p2) : q[i] = p2[i]
      /\ \A i \in 1..Len(s2) : q[Len(p2) + i] = s2[i]
  BY <1>7, Joined
<1>10. Len(a) = lg + (lp + ls) /\ a \in Seq(S) /\ k0 \in 0..Len(a)
  BY <1>2, <1>6, <1>8, Zenon
<1> HIDE DEF a, q, k0
<1>11. /\ r \in Seq(S) /\ Len(r) = Len(a) - k0 /\ \A i \in 1..(Len(a) - k0) : r[i] = a[k0 + i]
       /\ SubSeq(a, 1, k0) \o r = a
  BY <1>10, Cut, Zenon
<1> HIDE DEF r
<1>12. Len(q) = (lp - fp) + (ls - (new - fp)) /\ Len(r) = Len(q) /\ Len(r) = Len(a) - k0
  BY <1>2, <1>4, <1>5, <1>9, <1>10, <1>11, Zenon
<1>13. ASSUME NEW i \in 1..Len(q) PROVE q[i] = r[i]
  <2>1. r[i] = a[k0 + i]
    BY <1>11, <1>12, Zenon
  <2>2. CASE /\ i \in 1..(lp - fp) /\ fp + i \in 1..lp /\ fp + i \in 1..(lp + ls)
             /\ k0 + i = lg + (fp + i)
    <3>1. q[i] = p[fp + i]
      BY <1>4, <1>9, <2>2, Zenon
    <3>2. a[lg + (fp + i)] = p[fp + i]
      BY <1>6, <1>8, <2>2, Zenon
    <3> QED BY <2>1, <2>2, <3>1, <3>2, Zenon
  <2>3. ASSUME NEW j \in 1..(ls - (new - fp)),
               i = (lp - fp) + j, (new - fp) + j \in 1..ls,
               lp + ((new - fp) + j) \in 1..(lp + ls),
               k0 + i = lg + (lp + ((new - fp) + j))
        PROVE  q[i] = r[i]
    <3>1. q[i] = s[(new - fp) + j]
      BY <1>4, <1>5, <1>9, <2>3, Zenon
    <3>2. a[lg + (lp + ((new - fp) + j))] = s[(new - fp) + j]
      BY <1>6, <1>8, <2>3, Zenon
    <3> QED BY <2>1, <2>3, <3>1, <3>2, Zenon
  <2> QED BY <1>2, <1>12, <2>2, <2>3, Zenon
<1>14. q = r
  BY <1>9, <1>11, <1>12, <1>13, SameSequence, Zenon
<1> QED BY <1>4, <1>5, <1>11, <1>14, Zenon DEF TakenOff, a, p2, s2, q, r, ps, k0

\* The invariants about what is read, where the dialogue is going on and in the loop.
AtTalk(h, b, s, t) == h \in Seq(Lines) /\ b \in US /\ s \in US /\ Talk(h, b, s) = t
AtFlow(h, d, g, p, s, t) ==
    /\ h \in Seq(Lines) /\ d \in Seq(Units) /\ g \in US /\ p \in US /\ s \in US
    /\ Flow(h, d, g, p, s) = t
NothingRead == got = <<>> /\ pending = <<>> /\ handed = <<>> /\ frames = <<>>
StreamNext == StreamInv' /\ NoByteLost'

\* What the invariants say during the dialogue ...
LEMMA InDialogue ==
    ASSUME StreamInv, NoByteLost, pc \in Dialogue
    PROVE  ~ torn /\ NothingRead /\ AtTalk(heard, buffer, socket, sent)
<1>1. ~ torn /\ NothingRead /\ ReadTypes
  BY Zenon DEF StreamInv, NothingRead, Dialogue
<1>2. heard \in Seq(Lines) /\ buffer \in US /\ socket \in US
  BY <1>1, Zenon DEF ReadTypes, US
<1>3. Total(heard, <<>>, <<>>, <<>>, buffer, socket) = sent
  <2>1. Total(heard, handed, got, pending, buffer, socket) = sent
    BY <1>1, Zenon DEF NoByteLost, Total, LUs, LU, Dialogue
  <2> QED BY <1>1, <2>1, Zenon DEF NothingRead
<1>4. Total(heard, <<>>, <<>>, <<>>, buffer, socket) = Talk(heard, buffer, socket)
  BY <1>2, Totals, Zenon
<1> QED BY <1>1, <1>2, <1>3, <1>4, Zenon DEF AtTalk

\* ... and what is enough for them.
LEMMA ToDialogue ==
    ASSUME pc' \in Dialogue, ~ torn', NothingRead', AtTalk(heard', buffer', socket', sent')
    PROVE  StreamNext
<1>1. heard' \in Seq(Lines) /\ buffer' \in US /\ socket' \in US /\ <<>> \in US
  BY UnitsJoin, Zenon DEF AtTalk
<1>2. Total(heard', <<>>, <<>>, <<>>, buffer', socket') = Talk(heard', buffer', socket')
  BY <1>1, Totals, ZenonT(30)
<1>3. handed' = <<>> /\ got' = <<>> /\ pending' = <<>> /\ frames' = <<>>
  BY Zenon DEF NothingRead
<1>4. Total(heard', handed', got', pending', buffer', socket') = sent'
  BY <1>2, <1>3, Zenon DEF AtTalk
<1>5. NoByteLost'
  BY <1>4, Zenon DEF NoByteLost, Total, LUs, LU
<1>6. ReadTypes'
  <2>1. <<>> \in Seq(Units) /\ <<>> \in Seq(AnyUnits)
    OBVIOUS
  <2> QED BY <1>1, <1>3, <2>1, Zenon DEF ReadTypes, US
<1>7. FramesInv'
  <2>1. <<>> \in Seq(Seq(Units)) /\ \A n \in DOMAIN <<>> : FALSE
    OBVIOUS
  <2> QED BY <1>3, <2>1, Zenon DEF FramesInv, FramesAreMessages
<1> QED BY <1>3, <1>5, <1>6, <1>7, Zenon DEF StreamNext, StreamInv, Dialogue

\* The same in the loop.
LEMMA InLoop ==
    ASSUME StreamInv, NoByteLost, pc \in {"run", "write"}, ~ torn
    PROVE  /\ Boundary /\ FramesInv /\ buffer \in US
           /\ AtFlow(heard, handed, got, pending, socket, sent)
<1>1. Boundary /\ FramesInv /\ ReadTypes
  BY Zenon DEF StreamInv
<1>2. /\ heard \in Seq(Lines) /\ handed \in Seq(Units) /\ got \in US /\ pending \in US
      /\ buffer \in US /\ socket \in US
  BY <1>1, Zenon DEF ReadTypes, US
<1>3. handed \in US
  BY <1>2, UnitsJoin, Zenon
<1>4. Total(heard, handed, got, pending, <<>>, socket) = sent
  BY Zenon DEF NoByteLost, Total, LUs, LU, Dialogue
<1>5. Total(heard, handed, got, pending, <<>>, socket) = Flow(heard, handed, got, pending, socket)
  BY <1>2, <1>3, Totals, SMT
<1> QED BY <1>1, <1>2, <1>4, <1>5, Zenon DEF AtFlow

\* A step into the loop or within it keeps the stream when the units are still there.
LEMMA ToLoop ==
    ASSUME pc' \in {"run", "write"}, ~ torn' => /\ Boundary' /\ FramesInv' /\ buffer' \in US
                 /\ AtFlow(heard', handed', got', pending', socket', sent')
    PROVE  StreamNext
<1>1. CASE torn'
  BY <1>1, Zenon DEF StreamNext, StreamInv, NoByteLost, Dialogue
<1>2. CASE ~ torn'
  <2>1. /\ heard' \in Seq(Lines) /\ handed' \in Seq(Units) /\ got' \in US /\ pending' \in US
        /\ buffer' \in US /\ socket' \in US
    BY <1>2, Zenon DEF AtFlow
  <2>2. handed' \in US
    BY <2>1, UnitsJoin, Zenon
  <2>3. Total(heard', handed', got', pending', <<>>, socket')
          = Flow(heard', handed', got', pending', socket')
    BY <2>1, <2>2, Totals, SMT
  <2>4. Total(heard', handed', got', pending', <<>>, socket') = sent'
    BY <1>2, <2>3, Zenon DEF AtFlow
  <2>5. NoByteLost'
    BY <2>4, Zenon DEF NoByteLost, Total, LUs, LU, Dialogue
  <2>6. ReadTypes'
    BY <2>1, Zenon DEF ReadTypes, US
  <2> QED BY <1>2, <2>5, <2>6, Zenon DEF StreamNext, StreamInv, Dialogue
<1> QED BY <1>1, <1>2, Zenon

\* Leaving, with what was read as it is.
LEMMA ToEnd ==
    ASSUME StreamInv, pc' = "left", ~ torn' => FramesInv'
    PROVE  StreamNext
  BY Zenon DEF StreamNext, StreamInv, NoByteLost, Dialogue

\* What the client has sent is made of units.
LEMMA SentUnit ==
    ASSUME NEW s \in Seq(Units), NEW x, s \o <<x>> \in Seq(Units)
    PROVE  x \in Units /\ <<x>> \in US
<1> DEFINE T == Units \cup {x}
<1>1. s \in Seq(T) /\ x \in T
  OBVIOUS
<1> HIDE DEF T
<1>2. Len(s) \in Nat /\ Len(s \o <<x>>) = Len(s) + 1 /\ (s \o <<x>>)[Len(s) + 1] = x
  BY <1>1, OneMore
<1> DEFINE t == s \o <<x>>
<1>3. t \in Seq(Units) /\ Len(t) = Len(s) + 1 /\ Len(s) \in Nat /\ t[Len(s) + 1] = x
  BY <1>2, Zenon
<1> HIDE DEF t
<1>4. x \in Units
  <2>1. Len(s) + 1 \in 1..Len(t)
    BY <1>3
  <2> QED BY <1>3, <2>1
<1>5. x \in AnyUnits
  BY <1>4, UnitIs, Zenon
<1> QED BY <1>4, <1>5 DEF US

\* The client sends one more unit.
LEMMA SendStream ==
    ASSUME SentInv, SentInv', StreamInv, NoByteLost, DialogueInv, NEW x, Send(<<x>>)
    PROVE  StreamNext
<1>1. /\ sent' = sent \o <<x>> /\ socket' = socket \o <<x>> /\ pc' = pc /\ pc # "left"
      /\ heard' = heard /\ buffer' = buffer /\ pending' = pending /\ got' = got
      /\ torn' = torn /\ frames' = frames /\ handed' = handed
  BY Zenon DEF Send, authVars, readVars
<1>2. x \in Units /\ <<x>> \in US
  <2>1. sent \in Seq(Units) /\ sent \o <<x>> \in Seq(Units)
    BY <1>1, Zenon DEF SentInv
  <2> QED BY <2>1, SentUnit, Zenon
<1> DEFINE u == <<x>>
<1>6. u \in US
  BY <1>2, Zenon
<1>3. CASE pc \in Dialogue
  <2>1. ~ torn /\ NothingRead /\ AtTalk(heard, buffer, socket, sent)
    BY <1>3, InDialogue, Zenon
  <2>2. heard \in Seq(Lines) /\ buffer \in US /\ socket \in US
    BY <2>1, Zenon DEF AtTalk
  <2>3. /\ socket \o u \in US
        /\ Talk(heard, buffer, socket \o u) = Talk(heard, buffer, socket) \o u
    <3> HIDE DEF u
    <3>1. TalkMore(heard, buffer, socket, u)
      BY <1>6, <2>2, MoreArrives, Zenon
    <3> QED BY <3>1, Zenon DEF TalkMore
  <2>4. AtTalk(heard', buffer', socket', sent')
    BY <1>1, <2>1, <2>2, <2>3, Zenon DEF AtTalk
  <2>5. pc' \in Dialogue /\ ~ torn' /\ NothingRead'
    BY <1>1, <1>3, <2>1, Zenon DEF NothingRead
  <2> QED BY <2>4, <2>5, ToDialogue, Zenon
<1>4. CASE pc \in {"run", "write"}
  <2>1. CASE ~ torn
    <3>1. /\ Boundary /\ FramesInv /\ buffer \in US
          /\ AtFlow(heard, handed, got, pending, socket, sent)
      BY <1>4, <2>1, InLoop, Zenon
    <3>2. heard \in Seq(Lines) /\ handed \in US /\ got \in US /\ pending \in US /\ socket \in US
      BY <3>1, UnitsJoin, Zenon DEF AtFlow
    <3>3. /\ socket \o u \in US
          /\ Flow(heard, handed, got, pending, socket \o u)
               = Flow(heard, handed, got, pending, socket) \o u
      <4> HIDE DEF u
      <4>1. FlowMore(heard, handed, got, pending, socket, u)
        BY <1>6, <3>2, MoreArrives, Zenon
      <4> QED BY <4>1, Zenon DEF FlowMore
    <3>4. AtFlow(heard', handed', got', pending', socket', sent')
      BY <1>1, <3>1, <3>3, Zenon DEF AtFlow
    <3>5. Boundary' /\ FramesInv' /\ buffer' \in US /\ pc' \in {"run", "write"}
      BY <1>1, <1>4, <3>1, Zenon DEF Boundary, FramesInv, FramesAreMessages
    <3> QED BY <3>4, <3>5, ToLoop, Zenon
  <2>2. CASE torn
    BY <1>1, <1>4, <2>2, ToLoop, Zenon
  <2> QED BY <2>1, <2>2, Zenon
<1>5. CASE pc = "null"
  <2>1. /\ ~ torn /\ NothingRead /\ heard = <<>> /\ buffer = <<>> /\ socket # <<>>
        /\ Tail(socket) = sent /\ ReadTypes /\ FramesInv
    BY <1>5, Zenon DEF StreamInv, NothingRead
  <2>2. socket \in Seq(AnyUnits) /\ <<x>> \in Seq(AnyUnits)
    BY <1>2, <2>1, Zenon DEF ReadTypes, US
  <2>3. /\ socket \o <<x>> \in Seq(AnyUnits) /\ socket \o <<x>> # <<>>
        /\ Tail(socket \o <<x>>) = Tail(socket) \o <<x>>
    BY <2>1, <2>2
  <2>4. ReadTypes'
    BY <1>1, <2>1, <2>3, Zenon DEF ReadTypes
  <2>5. FramesInv' /\ NothingRead'
    BY <1>1, <2>1, Zenon DEF FramesInv, FramesAreMessages, NothingRead
  <2> QED BY <1>1, <1>5, <2>1, <2>3, <2>4, <2>5, Zenon
          DEF StreamNext, StreamInv, NoByteLost, Dialogue, NothingRead
<1> QED BY <1>1, <1>3, <1>4, <1>5, Zenon DEF DialogueInv

\* The null byte.
LEMMA NullStream ==
    ASSUME StreamInv, ReadNull
    PROVE  StreamNext
<1>1. /\ pc = "null" /\ socket' = Tail(socket) /\ (pc' = "lines" \/ pc' = "left")
      /\ sent' = sent /\ heard' = heard /\ buffer' = buffer /\ pending' = pending /\ got' = got
      /\ torn' = torn /\ frames' = frames /\ handed' = handed
  BY Zenon DEF ReadNull, Leave, peerVars, authVars, readVars
<1>2. /\ ~ torn /\ NothingRead /\ heard = <<>> /\ buffer = <<>> /\ socket # <<>>
      /\ Tail(socket) = sent /\ ReadTypes /\ FramesInv
  BY <1>1, Zenon DEF StreamInv, NothingRead
<1>3. CASE pc' = "lines"
  <2>1. socket \in Seq(AnyUnits) /\ heard \in Seq(Lines)
    BY <1>2, Zenon DEF ReadTypes
  <2>2. Tail(socket) \in Seq(AnyUnits)
    BY <1>2, <2>1, FirstAndRest, Zenon
  <2>3. sent \in US /\ <<>> \in US
    BY <1>2, <2>2, UnitsJoin, Zenon DEF US
  <2>4. <<>> \o sent = sent
    BY <2>3, UnitsJoin, Zenon
  <2>5. LUs(<<>>) = <<>>
    BY DEF LUs
  <2>6. Talk(<<>>, <<>>, sent) = sent
    BY <2>4, <2>5, Zenon DEF Talk
  <2>7. AtTalk(heard', buffer', socket', sent')
    BY <1>1, <1>2, <2>1, <2>3, <2>6, Zenon DEF AtTalk
  <2>8. pc' \in Dialogue /\ ~ torn' /\ NothingRead'
    BY <1>1, <1>2, <1>3, Zenon DEF NothingRead, Dialogue
  <2> QED BY <2>7, <2>8, ToDialogue, Zenon
<1>4. CASE pc' = "left"
  BY <1>1, <1>2, <1>4, ToEnd, Zenon DEF FramesInv, FramesAreMessages
<1> QED BY <1>1, <1>3, <1>4, Zenon

\* The buffer is filled.
LEMMA FillStream ==
    ASSUME StreamInv, NoByteLost, Fill
    PROVE  StreamNext
<1> DEFINE n == IF Len(socket) < BufCap THEN Len(socket) ELSE BufCap
<1>1. /\ pc \in Dialogue /\ pc' = pc /\ buffer = <<>>
      /\ buffer' = SubSeq(socket, 1, n) /\ socket' = SubSeq(socket, n + 1, Len(socket))
      /\ sent' = sent /\ heard' = heard /\ pending' = pending /\ got' = got
      /\ torn' = torn /\ frames' = frames /\ handed' = handed
  BY Zenon DEF Fill, peerVars, readVars
<1>2. ~ torn /\ NothingRead /\ AtTalk(heard, buffer, socket, sent)
  BY <1>1, InDialogue, Zenon
<1>3. socket \in US /\ socket \in Seq(AnyUnits)
  BY <1>2, Zenon DEF AtTalk, US
<1>4. BufCap \in Nat
  BY ClientHandlerAssumption, Zenon
<1>5. n \in 0..Len(socket)
  BY <1>3, <1>4
<1> HIDE DEF n
<1>6. buffer' \in US /\ socket' \in US /\ buffer' \o socket' = socket
  BY <1>1, <1>3, <1>5, Cut, Zenon DEF US
<1>7. <<>> \o socket = socket
  BY <1>3, UnitsJoin, Zenon
<1>8. AtTalk(heard', buffer', socket', sent')
  BY <1>1, <1>2, <1>6, <1>7, Zenon DEF AtTalk, Talk
<1>9. pc' \in Dialogue /\ ~ torn' /\ NothingRead'
  BY <1>1, <1>2, Zenon DEF NothingRead
<1> QED BY <1>8, <1>9, ToDialogue, Zenon

\* The next unit in the buffer is a line: a piece would follow a BEGIN that was
\* read before.
LEMMA LineComes ==
    ASSUME SentInv, DialogueInv, pc \in Dialogue, buffer # <<>>,
           AtTalk(heard, buffer, socket, sent), NEW line \in Lines, line = Head(buffer)[2]
    PROVE  Head(buffer) = LU(line)
<1> DEFINE x == LUs(heard)
           y == buffer \o socket
           n == Len(heard)
           u == Head(buffer)
<1>1. heard \in Seq(Lines) /\ buffer \in Seq(AnyUnits) /\ socket \in Seq(AnyUnits) /\ sent = x \o y
  BY Zenon DEF AtTalk, Talk, US
<1>2. /\ x \in Seq(AnyUnits) /\ Len(x) = n /\ n \in Nat
      /\ \A i \in 1..n : x[i] = LU(heard[i])
  <2>1. n \in Nat
    BY <1>1
  <2> QED BY <1>1, <2>1, LinesAsUnits, Zenon
<1>3. y \in Seq(AnyUnits) /\ Len(y) >= 1 /\ y[1] = u
  <2>1. u = buffer[1] /\ Len(buffer) >= 1
    BY <1>1
  <2> QED BY <1>1, <2>1, Joined
<1> HIDE DEF x, y, u
<1>4. /\ \A i \in 1..n : sent[i] = LU(heard[i])
      /\ n + 1 \in 1..Len(sent) /\ sent[n + 1] = u
  <2>1. /\ Len(x \o y) = Len(x) + Len(y) /\ \A i \in 1..Len(x) : (x \o y)[i] = x[i]
        /\ \A i \in 1..Len(y) : (x \o y)[Len(x) + i] = y[i]
    <3>1. x \in Seq(AnyUnits) /\ y \in Seq(AnyUnits)
      BY <1>2, <1>3, Zenon
    <3> QED BY <3>1, Joined, SMT
  <2>2. Len(y) \in Nat /\ Len(y) >= 1 /\ 1 \in 1..Len(y)
    BY <1>3
  <2>3. n + 1 \in 1..(n + Len(y))
    BY <1>2, <2>2
  <2> QED BY <1>1, <1>2, <1>3, <2>1, <2>2, <2>3, Zenon
<1>5. u \in Units /\ Follows(sent, n + 1)
  <2>1. sent \in Seq(Units) /\ Chain(sent)
    BY Zenon DEF SentInv
  <2>2. \A i \in 1..Len(sent) : sent[i] \in Units
    BY <2>1
  <2> QED BY <1>4, <2>1, <2>2, Zenon DEF Chain
<1>6. u \notin PieceUnits
  <2>1. SUFFICES ASSUME u \in PieceUnits PROVE FALSE
    BY Zenon
  <2>2. PICK k \in 1..((n + 1) - 1) : sent[k] = LU("BEGIN")
    BY <1>4, <1>5, <2>1, Zenon DEF Follows
  <2>3. k \in 1..n /\ n \in Nat
    <3>1. (n + 1) - 1 = n
      BY <1>2
    <3> QED BY <1>2, <3>1, Zenon
  <2>4. LU(heard[k]) = LU("BEGIN")
    BY <1>4, <2>2, <2>3, Zenon
  <2>5. heard[k] = "BEGIN"
    BY <2>4, UnitsDiffer, Zenon
  <2>6. k \in DOMAIN heard
    BY <1>1, <2>3
  <2> QED BY <2>5, <2>6, Zenon DEF DialogueInv
<1>7. PICK l \in Lines : u = LU(l)
  BY <1>5, <1>6, UnitIs, Zenon
<1>8. u[2] = l
  BY <1>7, Zenon DEF LU
<1> QED BY <1>7, <1>8, Zenon DEF u

\* A line is read.
LEMMA LineStream ==
    ASSUME SentInv, DialogueInv, StreamInv, NoByteLost,
           NEW line \in Lines, AuthLine(line) \/ DataLine(line) \/ BeginLine(line)
    PROVE  StreamNext
<1>1. /\ pc \in Dialogue /\ buffer # <<>> /\ line = Head(buffer)[2]
      /\ heard' = Append(heard, line) /\ buffer' = Tail(buffer)
      /\ socket' = socket /\ sent' = sent
  BY Zenon DEF AuthLine, DataLine, BeginLine, Hear, Dialogue, peerVars
<1>2. /\ got' = got /\ torn' = torn /\ frames' = frames /\ handed' = handed
      /\ \/ pc' \in Dialogue /\ pending' = pending
         \/ pc' = "run" /\ pending' = Tail(buffer)
         \/ pc' = "left"
  <2>1. CASE AuthLine(line)
    BY <2>1, Zenon DEF AuthLine, Say, Refuse, Leave, Dialogue, readVars
  <2>2. CASE DataLine(line)
    BY <2>2, Zenon DEF DataLine, Say, Refuse, Leave, Dialogue, readVars
  <2>3. CASE BeginLine(line)
    BY <2>3, Zenon DEF BeginLine, Start, Say, Refuse, Leave, Dialogue, readVars
  <2> QED BY <2>1, <2>2, <2>3, Zenon
<1>3. ~ torn /\ NothingRead /\ AtTalk(heard, buffer, socket, sent)
  BY <1>1, InDialogue, Zenon
<1>4. Head(buffer) = LU(line)
  BY <1>1, <1>3, LineComes, Zenon
<1>5. heard \in Seq(Lines) /\ buffer \in US /\ socket \in US /\ Talk(heard, buffer, socket) = sent
  BY <1>3, Zenon DEF AtTalk
<1>6. /\ Tail(buffer) \in US /\ Append(heard, line) \in Seq(Lines)
      /\ Talk(Append(heard, line), Tail(buffer), socket) = sent
      /\ Flow(Append(heard, line), <<>>, <<>>, Tail(buffer), socket) = sent
  BY <1>1, <1>4, <1>5, LineTaken, ZenonT(30)
<1>7. CASE pc' \in Dialogue /\ pending' = pending
  <2>1. AtTalk(heard', buffer', socket', sent')
    BY <1>1, <1>5, <1>6, Zenon DEF AtTalk
  <2>2. ~ torn' /\ NothingRead'
    BY <1>2, <1>3, <1>7, Zenon DEF NothingRead
  <2> QED BY <1>7, <2>1, <2>2, ToDialogue, Zenon
<1>8. CASE pc' = "run" /\ pending' = Tail(buffer)
  <2>1. handed' = <<>> /\ got' = <<>> /\ frames' = <<>>
    BY <1>2, <1>3, Zenon DEF NothingRead
  <2>2. <<>> \in Seq(Units) /\ <<>> \in Seq(Seq(Units)) /\ \A n \in DOMAIN <<>> : FALSE
    OBVIOUS
  <2>3. AtFlow(heard', handed', got', pending', socket', sent')
    BY <1>1, <1>5, <1>6, <1>8, <2>1, <2>2, UnitsJoin, Zenon DEF AtFlow
  <2>4. Boundary'
    BY <2>1, Zenon DEF Boundary
  <2>5. FramesInv'
    BY <2>1, <2>2, Zenon DEF FramesInv, FramesAreMessages
  <2>6. buffer' \in US
    BY <1>1, <1>6, Zenon
  <2> QED BY <1>8, <2>3, <2>4, <2>5, <2>6, ToLoop, Zenon
<1>9. CASE pc' = "left"
  <2>1. FramesInv
    BY <1>3, Zenon DEF StreamInv
  <2>2. FramesInv'
    BY <1>2, <2>1, Zenon DEF FramesInv, FramesAreMessages
  <2> QED BY <1>9, <2>2, ToEnd, Zenon
<1> QED BY <1>2, <1>7, <1>8, <1>9, Zenon

\* The steps that read nothing: the task stays where it is, goes between reading and
\* writing, or ends.
StreamKept ==
    /\ sent' = sent /\ heard' = heard /\ buffer' = buffer /\ pending' = pending /\ got' = got
    /\ torn' = torn /\ frames' = frames /\ handed' = handed /\ socket' = socket
    /\ \/ pc' = pc
       \/ pc \in {"run", "write"} /\ pc' \in {"run", "write"}
       \/ pc' = "left"

\* Closing, the outgoing half and the ends of the task keep the stream.
LEMMA OthersKeepStream ==
    ASSUME \/ Close \/ Receive \/ DialogueEnds \/ ReadEnds \/ WriteAll \/ SendFds \/ WriteFails
           \/ (\E fds \in BOOLEAN : Queue(fds)) \/ UNCHANGED vars
    PROVE  StreamKept
<1>1. ASSUME Close \/ Receive \/ DialogueEnds \/ ReadEnds \/ WriteFails PROVE StreamKept
  BY <1>1, Zenon DEF Close, Receive, DialogueEnds, ReadEnds, WriteFails, Leave, StreamKept,
     peerVars, authVars, readVars
<1>2. ASSUME WriteAll PROVE StreamKept
  BY <1>2, Zenon DEF WriteAll, Put, StreamKept, peerVars, authVars, readVars
<1>3. ASSUME SendFds PROVE StreamKept
  BY <1>3, Zenon DEF SendFds, Put, Leave, StreamKept, peerVars, authVars, readVars
<1>4. ASSUME NEW fds \in BOOLEAN, Queue(fds) PROVE StreamKept
  BY <1>4, Zenon DEF Queue, StreamKept, peerVars, authVars, readVars
<1>5. ASSUME UNCHANGED vars PROVE StreamKept
  BY <1>5, Zenon DEF vars, StreamKept, peerVars, authVars, readVars
<1> QED BY <1>1, <1>2, <1>3, <1>4, <1>5, Zenon

\* A step that keeps the stream keeps StreamInv and NoByteLost.
LEMMA StreamStays ==
    ASSUME StreamInv, NoByteLost, StreamKept
    PROVE  StreamNext
<1>1. CASE pc' = pc
  BY <1>1, Zenon DEF StreamNext, StreamKept, StreamInv, NoByteLost, Boundary, ReadTypes,
     FramesInv, FramesAreMessages
<1>2. CASE pc \in {"run", "write"} /\ pc' \in {"run", "write"}
  <2>1. CASE ~ torn
    <3>1. /\ Boundary /\ FramesInv /\ buffer \in US
          /\ AtFlow(heard, handed, got, pending, socket, sent)
      BY <1>2, <2>1, InLoop, Zenon
    <3>2. /\ Boundary' /\ FramesInv' /\ buffer' \in US
          /\ AtFlow(heard', handed', got', pending', socket', sent')
      BY <3>1, Zenon DEF StreamKept, Boundary, FramesInv, FramesAreMessages
    <3> QED BY <1>2, <3>2, ToLoop, Zenon
  <2>2. CASE torn
    BY <1>2, <2>2, ToLoop, Zenon DEF StreamKept
  <2> QED BY <2>1, <2>2, Zenon
<1>3. CASE pc' = "left"
  BY <1>3, ToEnd, Zenon DEF StreamKept, StreamInv, FramesInv, FramesAreMessages
<1> QED BY <1>1, <1>2, <1>3, Zenon DEF StreamKept

\* A message for the client is taken out of its channel, and the read is dropped.
LEMMA RecvStream ==
    ASSUME StreamInv, NoByteLost, Recv
    PROVE  StreamNext
<1>1. /\ pc = "run" /\ pc' = "write" /\ got' = <<>> /\ torn' = (torn \/ got # <<>>)
      /\ sent' = sent /\ heard' = heard /\ buffer' = buffer /\ pending' = pending
      /\ frames' = frames /\ handed' = handed /\ socket' = socket
  BY Zenon DEF Recv, peerVars, authVars
<1>2. CASE ~ torn'
  <2>1. ~ torn /\ got = <<>>
    BY <1>1, <1>2, Zenon
  <2>2. /\ Boundary /\ FramesInv /\ buffer \in US
        /\ AtFlow(heard, handed, got, pending, socket, sent)
    BY <1>1, <2>1, InLoop, Zenon
  <2>3. /\ Boundary' /\ FramesInv' /\ buffer' \in US
        /\ AtFlow(heard', handed', got', pending', socket', sent')
    BY <1>1, <2>1, <2>2, Zenon DEF Boundary, FramesInv, FramesAreMessages
  <2> QED BY <1>1, <2>3, ToLoop, Zenon
<1>3. CASE torn'
  BY <1>1, <1>3, ToLoop, Zenon
<1> QED BY <1>2, <1>3, Zenon

\* What the next read begins with: the client's next message, as far as it is there.
LEMMA NextMessage ==
    ASSUME SentInv, DialogueInv, Boundary, FramesInv, pc \in {"run", "write"},
           ~ torn, NEW a, a = got \o (pending \o socket), a \in US, a # <<>>,
           AtFlow(heard, handed, got, pending, socket, sent)
    PROVE  /\ Len(frames) + 1 \in DOMAIN Messages
           /\ \A l \in 1..WireLen(Len(frames) + 1) :
                 l \in 1..Len(a) => a[l] = PU(Len(frames) + 1, l)
<1> DEFINE x == LUs(heard)
           P == x \o handed
           d == Len(P)
           n == Len(frames)
           m == n + 1
<1>1. heard \in Seq(Lines) /\ handed \in Seq(Units) /\ sent = P \o a
  BY Zenon DEF AtFlow, Flow
<1>2. heard # <<>> /\ heard[Len(heard)] = "BEGIN"
  BY ShapeIs, Zenon DEF DialogueInv, Served
<1>3. x \in Seq(Units) /\ Len(x) = Len(heard) /\ x[Len(x)] = LU("BEGIN") /\ Len(x) >= 1
  <2>1. Len(heard) \in 1..Len(heard) /\ Len(heard) >= 1
    <3>1. heard # <<>>
      BY <1>2, Zenon
    <3> QED BY <1>1, <3>1
  <2>2. x \in Seq(Units) /\ Len(x) = Len(heard) /\ \A i \in 1..Len(heard) : x[i] = LU(heard[i])
    BY <1>1, LinesAsUnits, Zenon
  <2> QED BY <1>2, <2>1, <2>2, Zenon
<1> HIDE DEF x
<1>4. /\ P \in Seq(Units) /\ d = Len(x) + Len(handed) /\ d \in Nat /\ d >= 1
      /\ \A i \in 1..Len(handed) : P[Len(x) + i] = handed[i]
  <2>1. x \in Seq(Units) /\ handed \in Seq(Units)
    BY <1>1, <1>3, Zenon
  <2>2. P \in Seq(Units) /\ d = Len(x) + Len(handed)
        /\ \A i \in 1..Len(handed) : P[Len(x) + i] = handed[i]
    BY <2>1, Joined
  <2>3. Len(x) >= 1
    BY <1>3, Zenon
  <2>4. Len(x) \in Nat /\ Len(handed) \in Nat
    BY <2>1
  <2> QED BY <2>2, <2>3, <2>4
<1>5. handed = <<>> => P[d] = LU("BEGIN")
  <2>1. ASSUME handed = <<>> PROVE P = x
    BY <1>3, <2>1, JoinedEmpty, Zenon
  <2> QED BY <1>3, <2>1, Zenon
<1>6. handed # <<>> => P[d] = handed[Len(handed)]
  <2>1. ASSUME handed # <<>> PROVE Len(handed) \in 1..Len(handed)
    BY <1>1, <2>1
  <2> QED BY <1>4, <2>1, Zenon
<1> HIDE DEF P
<1>7. P \in Seq(AnyUnits) /\ a \in Seq(AnyUnits)
  <2>1. P \in Seq(Units)
    BY <1>4, Zenon
  <2> QED BY <2>1, UnitsJoin, Zenon DEF US
<1>8. /\ Len(sent) = d + Len(a) /\ \A i \in 1..d : sent[i] = P[i]
      /\ \A i \in 1..Len(a) : sent[d + i] = a[i]
  <2>1. /\ Len(P \o a) = d + Len(a) /\ \A i \in 1..d : (P \o a)[i] = P[i]
        /\ \A i \in 1..Len(a) : (P \o a)[d + i] = a[i]
    BY <1>7, Joined, SMT
  <2> QED BY <1>1, <2>1, Zenon
<1>9. Len(a) \in Nat /\ Len(a) >= 1 /\ 1 \in 1..Len(a)
  BY <1>7
<1>10. d \in Nat /\ d >= 1
  BY <1>4, Zenon
<1> HIDE DEF d
<1>11. d \in 1..d /\ d + 1 \in 1..(d + Len(a)) /\ d + 1 > 1 /\ (d + 1) - 1 = d
  BY <1>9, <1>10
<1>12. n \in Nat /\ (frames # <<>> => n \in DOMAIN frames) /\ (frames = <<>> => n = 0)
  <2>1. frames \in Seq(Seq(Units))
    BY Zenon DEF FramesInv
  <2> QED BY <2>1
<1>13. sent \in Seq(Units) /\ Chain(sent)
  BY Zenon DEF SentInv
<1>14. Follows(sent, d + 1) /\ sent[d + 1] \in Units /\ sent[d + 1] = a[1]
  <2>1. d + 1 \in 1..Len(sent)
    BY <1>8, <1>11, Zenon
  <2>2. sent[d + 1] \in Units
    BY <1>13, <2>1
  <2> QED BY <1>8, <1>9, <1>13, <2>1, <2>2, Zenon DEF Chain
<1>15. sent[d + 1] = PU(m, 1)
  <2>1. sent[d] = P[d]
    BY <1>8, <1>11, Zenon
  <2>2. CASE frames = <<>>
    <3>1. sent[d] = LU("BEGIN")
      BY <1>5, <2>1, <2>2, Zenon DEF Boundary
    <3>2. sent[d + 1] = PU(1, 1)
      BY <1>11, <1>14, <3>1, Zenon DEF Follows
    <3>3. 0 + 1 = 1
      OBVIOUS
    <3> QED BY <1>12, <2>2, <3>2, <3>3, Zenon
  <2>3. CASE frames # <<>>
    <3>1. sent[d] = PU(n, WireLen(n))
      BY <1>6, <2>1, <2>3, Zenon DEF Boundary
    <3>2. n \in DOMAIN Messages
      BY <1>12, <2>3, Zenon DEF FramesInv, FramesAreMessages
    <3> QED BY <1>11, <1>14, <3>1, <3>2, Zenon DEF Follows
  <2> QED BY <2>2, <2>3, Zenon
<1>16. m \in DOMAIN Messages /\ 1 \in 1..WireLen(m)
  <2>1. ASSUME NEW l \in Lines, PU(m, 1) = LU(l) PROVE FALSE
    <3>1. PU(m, 1)[1] = m /\ LU(l)[1] = 0
      BY Zenon DEF PU, LU
    <3>2. m # 0
      BY <1>12
    <3> QED BY <2>1, <3>1, <3>2, Zenon
  <2>2. PU(m, 1) \in PieceUnits
    BY <1>14, <1>15, <2>1, UnitIs, Zenon
  <2> QED BY <2>2, PieceOf, Zenon
<1>17. ASSUME NEW l \in 1..WireLen(m), l \in 1..Len(a) PROVE a[l] = PU(m, l)
  <2>1. Whole(sent, d + 1, m, 1)
    BY <1>8, <1>11, <1>13, <1>16, Zenon DEF Chain
  <2>2. (d + 1) - 1 + l = d + l /\ d + l \in 1..(d + Len(a))
    BY <1>9, <1>10, <1>17
  <2> QED BY <1>8, <1>15, <1>17, <2>1, <2>2, Zenon DEF Whole
<1> QED BY <1>16, <1>17, Zenon

\* The pieces of a message, in order.
LEMMA PiecesAre ==
    ASSUME NEW m \in DOMAIN Messages
    PROVE  /\ Pieces(m) \in Seq(Units) /\ Pieces(m) \in US /\ Len(Pieces(m)) = WireLen(m)
           /\ \A l \in 1..WireLen(m) : Pieces(m)[l] = PU(m, l)
<1> DEFINE w == WireLen(m)
<1>1. w \in Nat
  BY WireLenIs, Zenon
<1>2. \A l \in 1..w : PU(m, l) \in Units
  BY UnitIs, Zenon
<1>3. Pieces(m) = [l \in 1..w |-> PU(m, l)]
  BY Zenon DEF Pieces, PU
<1> HIDE DEF w
<1>4. Pieces(m) \in Seq(Units) /\ Len(Pieces(m)) = w /\ \A l \in 1..w : Pieces(m)[l] = PU(m, l)
  BY <1>1, <1>2, <1>3
<1>5. Pieces(m) \in US
  BY <1>4, UnitsJoin, Zenon
<1> QED BY <1>4, <1>5, Zenon DEF w

\* The beginnings of sequences that agree so far.
LEMMA SameBeginning ==
    ASSUME NEW S, NEW s \in Seq(S), NEW t \in Seq(S), NEW k \in Nat, k <= Len(s), k <= Len(t),
           \A i \in 1..k : s[i] = t[i]
    PROVE  SubSeq(s, 1, k) = SubSeq(t, 1, k)
<1> DEFINE a == SubSeq(s, 1, k)
           b == SubSeq(t, 1, k)
<1>1. a \in Seq(S) /\ Len(a) = k /\ \A i \in 1..k : a[i] = s[i]
  OBVIOUS
<1>2. b \in Seq(S) /\ Len(b) = k /\ \A i \in 1..k : b[i] = t[i]
  OBVIOUS
<1> HIDE DEF a, b
<1>3. a = b
  BY <1>1, <1>2, SameSequence, Zenon
<1> QED BY <1>3, Zenon DEF a, b

\* A frame that begins with a message and is as long is that message.
LEMMA FrameIs ==
    ASSUME NEW m \in DOMAIN Messages, NEW a \in US, Len(a) >= WireLen(m),
           \A l \in 1..WireLen(m) : a[l] = PU(m, l)
    PROVE  SubSeq(a, 1, WireLen(m)) = Pieces(m)
<1> DEFINE w == WireLen(m)
           p == Pieces(m)
<1>1. w \in Nat
  BY WireLenIs, Zenon
<1>2. p \in Seq(AnyUnits) /\ Len(p) = w /\ \A l \in 1..w : p[l] = PU(m, l)
  BY PiecesAre, Zenon DEF US
<1>3. a \in Seq(AnyUnits) /\ Len(a) >= w /\ \A l \in 1..w : a[l] = p[l]
  BY <1>2, Zenon DEF US
<1> HIDE DEF w, p
<1>4. Len(a) \in Nat /\ w <= Len(a) /\ w <= Len(p)
  BY <1>1, <1>2, <1>3
<1>5. p \in Seq(AnyUnits) /\ a \in Seq(AnyUnits) /\ \A l \in 1..w : a[l] = p[l]
  BY <1>2, <1>3, Zenon
<1>6. SubSeq(a, 1, w) = SubSeq(p, 1, w)
  BY <1>1, <1>4, <1>5, SameBeginning, Zenon
<1>7. SubSeq(p, 1, w) = p
  <2>1. p \in Seq(AnyUnits) /\ Len(p) = w
    BY <1>2, Zenon
  <2> QED BY <2>1
<1> QED BY <1>6, <1>7, Zenon DEF w, p

\* The size that read_message computes from the first pieces of a message.
Begins(a, m) == \A l \in 1..WireLen(m) : l \in 1..Len(a) => a[l] = PU(m, l)

\* The header of a message gives exactly its length, when the sum does not wrap.
LEMMA HeaderIs ==
    ASSUME Fit, NEW m \in DOMAIN Messages, NEW a \in US, Len(a) >= HeaderLen, Begins(a, m)
    PROVE  Sizes(SubSeq(a, 1, HeaderLen)) = {WireLen(m)}
<1> DEFINE w == WireLen(m)
           p == Pieces(m)
           hd == SubSeq(a, 1, HeaderLen)
<1>1. w \in Nat /\ w >= 2
  BY WireLenIs, Zenon
<1>2. p \in Seq(AnyUnits) /\ Len(p) = w /\ \A l \in 1..w : p[l] = PU(m, l)
  BY PiecesAre, Zenon DEF US
<1>3. a \in Seq(AnyUnits) /\ Len(a) >= 2 /\ \A l \in 1..w : l \in 1..Len(a) => a[l] = p[l]
  BY <1>2, Zenon DEF US, HeaderLen, Begins
<1>0. 2 \in Nat /\ HeaderLen = 2
  BY Zenon DEF HeaderLen
<1> HIDE DEF w, p
<1>4. /\ 2 <= Len(a) /\ 2 <= Len(p) /\ (\A i \in 1..2 : i \in 1..w /\ i \in 1..Len(a))
      /\ 1 \in 1..2 /\ 1 \in 1..w
  <2>1. Len(p) = w /\ Len(a) >= 2 /\ a \in Seq(AnyUnits)
    BY <1>2, <1>3, Zenon
  <2> QED BY <1>1, <2>1
<1>5. p \in Seq(AnyUnits) /\ a \in Seq(AnyUnits) /\ \A i \in 1..2 : a[i] = p[i]
  BY <1>2, <1>3, <1>4, Zenon
<1>6. SubSeq(a, 1, 2) = SubSeq(p, 1, 2)
  BY <1>0, <1>4, <1>5, SameBeginning, Zenon
<1>7. hd = SubSeq(Pieces(m), 1, HeaderLen)
  BY <1>0, <1>6, Zenon DEF p
<1>8. hd[1] = a[1]
  <2>1. SubSeq(a, 1, 2)[1] = a[1]
    BY <1>4, <1>5
  <2> QED BY <1>0, <2>1, Zenon
<1>9. hd[1] = PU(m, 1)
  BY <1>2, <1>4, <1>5, <1>8, Zenon
<1> HIDE DEF hd
<1>10. hd[1][1] = m
  <2>1. PU(m, 1)[1] = m
    BY Zenon DEF PU
  <2> QED BY <1>9, <2>1, Zenon
<1>11. Sizes(hd) = {TotalSize(Messages[m].fields, Messages[m].body) \div Piece}
  BY <1>7, <1>10, Zenon DEF Sizes
<1> QED BY <1>11, SizeIs, Zenon DEF hd

\* The read future is polled.  If no read was cut short, it ends with a message of the
\* client and the task goes on.
LEMMA PollStream ==
    ASSUME Fit, SentInv, DialogueInv, StreamInv, NoByteLost, Poll
    PROVE  StreamNext /\ (torn \/ (pc' = pc /\ why' = why)) /\ torn' = torn
<1>1. pc = "run" /\ Len(Available) > Len(got) /\ sent' = sent /\ heard' = heard /\ buffer' = buffer
  BY Zenon DEF Poll, peerVars, authVars
<1>2. \/ Suspend /\ Len(Available) < HeaderLen
      \/ /\ ~ (Len(Available) < HeaderLen)
         /\ \E size \in Sizes(SubSeq(Available, 1, HeaderLen)) :
               \/ Len(Available) < size /\ Suspend
               \/ ~ (Len(Available) < size) /\ HandOver(size)
  BY Zenon DEF Poll
<1>3. torn' = torn /\ (pc' = "run" \/ pc' = "left")
  BY <1>1, <1>2, Zenon DEF Suspend, HandOver, Leave
<1>4. CASE torn
  <2>1. CASE pc' = "run"
    BY <1>3, <1>4, <2>1, ToLoop, Zenon
  <2>2. CASE pc' = "left"
    BY <1>3, <1>4, <2>2, ToEnd, Zenon
  <2> QED BY <1>3, <1>4, <2>1, <2>2, Zenon
<1>5. CASE ~ torn
  <2> DEFINE a == got \o (pending \o socket)
             n == Len(frames)
             m == n + 1
             w == WireLen(m)
             past == LUs(heard) \o handed
  <2>1. /\ Boundary /\ FramesInv /\ buffer \in US
        /\ AtFlow(heard, handed, got, pending, socket, sent)
    BY <1>1, <1>5, InLoop, Zenon
  <2>2. /\ heard \in Seq(Lines) /\ handed \in Seq(Units) /\ got \in US /\ pending \in US
        /\ socket \in US /\ sent = past \o a
    BY <2>1, Zenon DEF AtFlow, Flow
  <2>3. pending \o socket \in US /\ LUs(heard) \in US /\ handed \in US
    BY <2>2, LinesAsUnits, UnitsJoin, Zenon DEF US
  <2>4. a \in US /\ past \in US
    BY <2>2, <2>3, UnitsJoin, Zenon
  <2>5. Available = a
    BY <2>2, UnitsAssociate, Zenon DEF Available, Assoc
  <2>6. a # <<>> /\ Len(a) \in Nat /\ Len(got) \in Nat
    <3>1. got \in Seq(AnyUnits) /\ a \in Seq(AnyUnits) /\ Len(a) > Len(got)
      BY <1>1, <2>2, <2>4, <2>5, Zenon DEF US
    <3> HIDE DEF a
    <3> QED BY <3>1
  <2>7. m \in DOMAIN Messages /\ Begins(a, m)
    BY <1>1, <1>5, <2>1, <2>4, <2>6, NextMessage, Zenon DEF Begins
  <2>8. w \in Nat /\ w >= 2 /\ n \in Nat
    <3>1. frames \in Seq(Seq(Units))
      BY <2>1, Zenon DEF FramesInv
    <3>2. n \in Nat
      BY <3>1
    <3> QED BY <2>7, <3>2, WireLenIs, Zenon
  <2>9. got # <<>> => Len(got) < w
    BY <2>1, Zenon DEF Boundary
  <2> HIDE DEF a, past
  <2>10. ASSUME Suspend, Len(a) < w PROVE StreamNext /\ pc' = pc /\ why' = why
    <3>1. /\ got' = a /\ pending' = <<>> /\ socket' = <<>> /\ pc' = pc /\ why' = why
          /\ frames' = frames /\ handed' = handed
      BY <2>5, <2>10, Zenon DEF Suspend
    <3>2. <<>> \in US /\ <<>> \o <<>> = <<>> /\ a \o <<>> = a
      BY <2>4, UnitsJoin, Zenon
    <3>3. AtFlow(heard', handed', got', pending', socket', sent')
      BY <1>1, <2>2, <2>4, <3>1, <3>2, Zenon DEF AtFlow, Flow, past
    <3>4. Boundary'
      BY <2>1, <2>10, <3>1, Zenon DEF Boundary
    <3>5. FramesInv'
      BY <1>3, <2>1, <3>1, Zenon DEF FramesInv, FramesAreMessages
    <3> QED BY <1>1, <2>1, <3>1, <3>3, <3>4, <3>5, ToLoop, Zenon
  <2>11. ASSUME HandOver(w), ~ (Len(a) < w) PROVE StreamNext /\ pc' = pc /\ why' = why
    <3> DEFINE new == w - Len(got)
               fp == IF new < Len(pending) THEN new ELSE Len(pending)
               fr == SubSeq(a, 1, w)
    <3>1. /\ frames' = Append(frames, fr) /\ handed' = handed \o fr /\ got' = <<>>
          /\ pending' = SubSeq(pending, fp + 1, Len(pending))
          /\ socket' = SubSeq(socket, (new - fp) + 1, Len(socket))
          /\ \/ pc' = pc /\ why' = why
             \/ fr \notin {Pieces(k) : k \in DOMAIN Messages}
      BY <2>5, <2>11, Zenon DEF HandOver
    <3>2. fr = Pieces(m)
      <4>1. \A l \in 1..w : l \in 1..Len(a)
        BY <2>6, <2>8, <2>11
      <4>2. \A l \in 1..w : a[l] = PU(m, l)
        BY <2>7, <4>1, Zenon DEF Begins
      <4>3. Len(a) >= w
        BY <2>6, <2>8, <2>11
      <4> QED BY <2>4, <2>7, <4>2, <4>3, FrameIs, Zenon
    <3>3. pc' = pc /\ why' = why
      BY <2>7, <3>1, <3>2, Zenon
    <3>4. fr \in Seq(Units) /\ fr \in US /\ Len(fr) = w /\ fr[w] = PU(m, w)
      <4>1. w \in 1..w
        BY <2>8
      <4> QED BY <2>7, <3>2, <4>1, PiecesAre, Zenon
    <3> HIDE DEF fr
    <3>5. Split(Len(pending), Len(socket), new, fp) /\ Len(got) + new = w
      <4> DEFINE ps == pending \o socket
      <4>1. got \in Seq(AnyUnits) /\ pending \in Seq(AnyUnits) /\ socket \in Seq(AnyUnits)
        BY <2>2, Zenon DEF US
      <4>2. ps \in Seq(AnyUnits) /\ Len(ps) = Len(pending) + Len(socket)
        BY <4>1, Joined, Zenon
      <4> HIDE DEF ps
      <4>3. Len(got \o ps) = Len(got) + Len(ps)
        BY <4>1, <4>2, Joined, Zenon
      <4>4. Len(a) = Len(got) + (Len(pending) + Len(socket))
        BY <4>2, <4>3, Zenon DEF a, ps
      <4>5. Len(got) \in Nat /\ Len(pending) \in Nat /\ Len(socket) \in Nat
        BY <4>1
      <4>6. Len(got) <= w
        <5>1. CASE got = <<>>
          <6>1. Len(<<>>) = 0
            BY Zenon
          <6>2. Len(got) = 0
            BY <5>1, <6>1, Zenon
          <6> QED BY <2>8, <6>2
        <5>2. CASE got # <<>>
          <6>1. Len(got) < w
            BY <2>9, <5>2, Zenon
          <6> QED BY <2>8, <4>5, <6>1
        <5> QED BY <5>1, <5>2, Zenon
      <4>7. new \in 0..(Len(pending) + Len(socket)) /\ Len(got) + new = w
        BY <2>8, <2>11, <4>4, <4>5, <4>6
      <4> QED BY <4>7, Zenon DEF Split
    <3> HIDE DEF new, fp
    <3> DEFINE q == pending' \o socket'
    <3>6. pending' \in US /\ socket' \in US /\ fr \o q = a
      <4>1. got \in Seq(AnyUnits) /\ pending \in Seq(AnyUnits) /\ socket \in Seq(AnyUnits)
        BY <2>2, Zenon DEF US
      <4>2. /\ SubSeq(pending, fp + 1, Len(pending)) \in Seq(AnyUnits)
            /\ SubSeq(socket, (new - fp) + 1, Len(socket)) \in Seq(AnyUnits)
            /\ SubSeq(got \o (pending \o socket), 1, Len(got) + new)
                 \o (SubSeq(pending, fp + 1, Len(pending))
                       \o SubSeq(socket, (new - fp) + 1, Len(socket)))
               = got \o (pending \o socket)
        <5>1. TakenOff(AnyUnits, got, pending, socket, new, fp)
          BY <3>5, <4>1, Taken, Zenon
        <5> QED BY <5>1, Zenon DEF TakenOff
      <4> QED BY <3>1, <3>5, <4>2, Zenon DEF US, a, fr
    <3>7. q \in US
      BY <3>6, UnitsJoin, Zenon
    <3> HIDE DEF q
    <3>8. (LUs(heard) \o (handed \o fr)) \o q = past \o a
      <4>1. Assoc(LUs(heard), handed, fr) /\ Assoc(past, fr, q)
        BY <2>3, <2>4, <3>4, <3>7, UnitsAssociate, Zenon
      <4>2. past \o fr = LUs(heard) \o (handed \o fr)
        BY <4>1, Zenon DEF Assoc, past
      <4> QED BY <3>6, <4>1, <4>2, Zenon DEF Assoc
    <3>9. handed' \in Seq(Units) /\ handed' # <<>> /\ handed'[Len(handed')] = PU(m, w)
      <4>1. /\ handed \o fr \in Seq(Units) /\ Len(handed \o fr) = Len(handed) + Len(fr)
            /\ \A i \in 1..Len(fr) : (handed \o fr)[Len(handed) + i] = fr[i]
        <5>1. handed \in Seq(Units) /\ fr \in Seq(Units)
          BY <2>2, <3>4, Zenon
        <5> QED BY <5>1, Joined
      <4>2. w \in 1..w /\ Len(handed) \in Nat
        BY <2>2, <2>8
      <4>3. Len(handed \o fr) = Len(handed) + w /\ (handed \o fr)[Len(handed) + w] = PU(m, w)
        BY <3>4, <4>1, <4>2, Zenon
      <4>4. Len(handed) + w # 0
        BY <2>8, <4>2
      <4>5. Len(<<>>) = 0
        BY Zenon
      <4> QED BY <3>1, <4>1, <4>3, <4>4, <4>5, Zenon
    <3>10. AtFlow(heard', handed', got', pending', socket', sent')
      <4>1. <<>> \in US /\ <<>> \o q = q
        BY <3>7, UnitsJoin, Zenon
      <4> QED BY <1>1, <2>2, <3>1, <3>6, <3>8, <3>9, <4>1, Zenon DEF AtFlow, Flow, q
    <3>11. /\ frames' \in Seq(Seq(Units)) /\ Len(frames') = m /\ frames' # <<>>
           /\ \A k \in DOMAIN frames' : k \in DOMAIN frames \/ k = m
           /\ \A k \in DOMAIN frames : frames'[k] = frames[k]
           /\ frames'[m] = fr
      <4>1. frames \in Seq(Seq(Units)) /\ fr \in Seq(Units)
        BY <2>1, <3>4, Zenon DEF FramesInv
      <4> DEFINE S == Seq(Units)
      <4>2. frames \in Seq(S) /\ fr \in S
        BY <4>1, Zenon
      <4> HIDE DEF S
      <4>3. /\ Append(frames, fr) \in Seq(S) /\ Len(Append(frames, fr)) = m
            /\ Append(frames, fr) # <<>>
            /\ \A k \in DOMAIN Append(frames, fr) : k \in DOMAIN frames \/ k = m
            /\ \A k \in DOMAIN frames : Append(frames, fr)[k] = frames[k]
            /\ Append(frames, fr)[m] = fr
        BY <4>2
      <4> QED BY <3>1, <4>3, Zenon DEF S
    <3>12. FramesInv'
      <4>1. \A k \in DOMAIN frames : k \in DOMAIN Messages /\ frames[k] = Pieces(k)
        BY <1>5, <2>1, Zenon DEF FramesInv, FramesAreMessages
      <4> QED BY <2>7, <3>2, <3>11, <4>1, Zenon DEF FramesInv, FramesAreMessages
    <3>13. Boundary'
      BY <3>1, <3>9, <3>11, Zenon DEF Boundary
    <3> QED BY <1>1, <2>1, <3>3, <3>10, <3>12, <3>13, ToLoop, Zenon
  <2>12. CASE Suspend /\ Len(a) < HeaderLen
    <3>1. Len(a) < w
      <4>1. Len(a) < 2
        BY <2>12, Zenon DEF HeaderLen
      <4> QED BY <2>6, <2>8, <4>1
    <3> QED BY <1>3, <2>10, <2>12, <3>1, Zenon
  <2>13. CASE /\ ~ (Len(a) < HeaderLen)
              /\ \E size \in Sizes(SubSeq(a, 1, HeaderLen)) :
                    \/ Len(a) < size /\ Suspend
                    \/ ~ (Len(a) < size) /\ HandOver(size)
    <3>1. Len(a) >= HeaderLen
      <4>1. ~ (Len(a) < 2)
        BY <2>13, Zenon DEF HeaderLen
      <4>2. Len(a) >= 2
        BY <2>6, <4>1
      <4> QED BY <4>2, Zenon DEF HeaderLen
    <3>2. Sizes(SubSeq(a, 1, HeaderLen)) = {w}
      BY <2>4, <2>7, <3>1, HeaderIs, Zenon
    <3>3. \/ Len(a) < w /\ Suspend
          \/ ~ (Len(a) < w) /\ HandOver(w)
      BY <2>13, <3>2, Zenon
    <3> QED BY <1>3, <2>10, <2>11, <3>3, Zenon
  <2> QED BY <1>2, <2>5, <2>12, <2>13, Zenon
<1> QED BY <1>4, <1>5, Zenon

\* Every step keeps StreamInv and NoByteLost.
LEMMA StreamStep ==
    ASSUME Fit, SentInv, SentInv', DialogueInv, StreamInv, NoByteLost, [Next]_vars
    PROVE  StreamNext
<1>1. ASSUME NEW line \in Lines, SendLine(line) PROVE StreamNext
  <2>1. Send(<<LU(line)>>)
    BY <1>1, Zenon DEF SendLine, LU
  <2> QED BY <2>1, SendStream, Zenon
<1>2. ASSUME SendPiece PROVE StreamNext
  <2>1. Send(<<NextUnit(sent[Len(sent)])>>)
    BY <1>2, Zenon DEF SendPiece
  <2> QED BY <2>1, SendStream, Zenon
<1>3. ASSUME NEW line \in Lines, AuthLine(line) \/ DataLine(line) \/ BeginLine(line)
      PROVE  StreamNext
  BY <1>3, LineStream, Zenon
<1>4. ASSUME \/ Close \/ Receive \/ DialogueEnds \/ ReadEnds \/ WriteAll \/ SendFds \/ WriteFails
             \/ (\E fds \in BOOLEAN : Queue(fds)) \/ UNCHANGED vars
      PROVE  StreamNext
  BY <1>4, OthersKeepStream, StreamStays, Zenon
<1> QED BY <1>1, <1>2, <1>3, <1>4, NullStream, FillStream, RecvStream, PollStream, Actions, Zenon

-----------------------------------------------------------------------------
(* Why the task ends.                                                        *)

\* What a step may do to the reason, the client's end of the socket and torn.
EndsKept ==
    /\ closed => closed'
    /\ torn => torn'
    /\ why' = why \/ why' \in {"auth", "wouldblock"} \/ (why' \in {"eof", "write"} /\ closed')

\* Every step but read_message's ends the task only for the client's doing, a failed
\* dialogue or a message with descriptors that met a full socket.
LEMMA OthersKeepEnds ==
    ASSUME [Next]_vars, ~ Poll
    PROVE  EndsKept
<1>1. ASSUME NEW line \in Lines, SendLine(line) PROVE EndsKept
  BY <1>1, Zenon DEF SendLine, Send, EndsKept, readVars
<1>2. ASSUME Receive PROVE EndsKept
  BY <1>2, Zenon DEF Receive, EndsKept, readVars
<1>17. ASSUME SendPiece PROVE EndsKept
  <2>1. closed' = closed /\ torn' = torn /\ why' = why
    BY <1>17, Zenon DEF SendPiece, Send, readVars
  <2> QED BY <2>1, Zenon DEF EndsKept
<1>16. ASSUME Fill PROVE EndsKept
  <2>1. closed' = closed /\ torn' = torn /\ why' = why
    BY <1>16, Zenon DEF Fill, readVars, peerVars
  <2> QED BY <2>1, Zenon DEF EndsKept
<1>12. ASSUME Close PROVE EndsKept
  BY <1>12, Zenon DEF Close, EndsKept, readVars
<1>3. ASSUME NEW fds \in BOOLEAN, Queue(fds) PROVE EndsKept
  BY <1>3, Zenon DEF Queue, EndsKept, readVars, peerVars
<1>4. ASSUME ReadNull PROVE EndsKept
  BY <1>4, Zenon DEF ReadNull, Leave, EndsKept, readVars, peerVars
<1>13. ASSUME DialogueEnds PROVE EndsKept
  <2>1. closed /\ closed' = closed /\ torn' = torn /\ why' = "eof"
    BY <1>13, Zenon DEF DialogueEnds, Leave, readVars, peerVars
  <2> QED BY <2>1, Zenon DEF EndsKept
<1>14. ASSUME ReadEnds PROVE EndsKept
  <2>1. closed /\ closed' = closed /\ torn' = torn /\ why' = "eof"
    BY <1>14, Zenon DEF ReadEnds, Leave, readVars, peerVars
  <2> QED BY <2>1, Zenon DEF EndsKept
<1>15. ASSUME WriteFails PROVE EndsKept
  <2>1. closed /\ closed' = closed /\ torn' = torn /\ why' = "write"
    BY <1>15, Zenon DEF WriteFails, Leave, readVars, peerVars
  <2> QED BY <2>1, Zenon DEF EndsKept
<1>5. ASSUME NEW line \in Lines, AuthLine(line) PROVE EndsKept
  BY <1>5, Zenon DEF AuthLine, Hear, Say, Refuse, Leave, EndsKept, readVars, peerVars
<1>6. ASSUME NEW line \in Lines, DataLine(line) PROVE EndsKept
  BY <1>6, Zenon DEF DataLine, Hear, Say, Refuse, Leave, EndsKept, readVars, peerVars
<1>7. ASSUME NEW line \in Lines, BeginLine(line) PROVE EndsKept
  BY <1>7, Zenon DEF BeginLine, Hear, Start, Say, Refuse, Leave, EndsKept, readVars, peerVars
<1>8. ASSUME Recv PROVE EndsKept
  BY <1>8, Zenon DEF Recv, EndsKept, peerVars
<1>9. ASSUME WriteAll PROVE EndsKept
  BY <1>9, Zenon DEF WriteAll, Put, EndsKept, readVars, peerVars
<1>10. ASSUME SendFds PROVE EndsKept
  BY <1>10, Zenon DEF SendFds, Put, Leave, EndsKept, readVars, peerVars
<1>11. ASSUME UNCHANGED vars PROVE EndsKept
  BY <1>11, Zenon DEF vars, EndsKept, readVars, peerVars
<1> QED BY <1>1, <1>2, <1>3, <1>4, <1>5, <1>6, <1>7, <1>8, <1>9, <1>10, <1>11, <1>12,
           <1>13, <1>14, <1>15, <1>16, <1>17, Actions, Zenon

\* Every step keeps EndsInv.
LEMMA EndsStep ==
    ASSUME Fit, SentInv, DialogueInv, StreamInv, NoByteLost, EndsInv, [Next]_vars
    PROVE  EndsInv'
<1>1. CASE Poll
  <2>1. closed' = closed /\ (why' = why \/ why' = "frame")
    BY <1>1, Zenon DEF Poll, Suspend, HandOver, Leave, peerVars
  <2>2. (torn \/ why' = why) /\ torn' = torn
    BY <1>1, PollStream, Zenon
  <2> QED BY <2>1, <2>2, Zenon DEF EndsInv
<1>2. CASE ~ Poll
  <2>1. EndsKept
    BY <1>2, OthersKeepEnds, Zenon
  <2> QED BY <2>1, Zenon DEF EndsKept, EndsInv
<1> QED BY <1>1, <1>2, Zenon

-----------------------------------------------------------------------------
(* The theorems.                                                             *)

\* The invariants hold at the beginning.
LEMMA InitInv ==
    ASSUME Init
    PROVE  ClientInv
<1>1. /\ sent = <<>> /\ closed = FALSE /\ received = <<>> /\ buffer = <<>> /\ heard = <<>>
      /\ said = <<>> /\ pc = "null" /\ why = "none" /\ pending = <<>> /\ got = <<>>
      /\ torn = FALSE /\ frames = <<>> /\ handed = <<>> /\ outbound = <<>>
      /\ outSock = <<>> /\ queued = 0
  BY Zenon DEF Init
<1>2. socket = <<LU("NUL")>> \/ socket = <<LU("other")>>
  BY Zenon DEF Init, LU
<1>3. /\ \A S : <<>> \in Seq(S)
      /\ Len(<<>>) = 0 /\ (\A i \in 1..Len(<<>>) : FALSE) /\ (\A i \in DOMAIN <<>> : FALSE)
  OBVIOUS
<1>4. SentInv
  <2>1. \A i \in 1..Len(sent) : FALSE
    BY <1>1, <1>3, Zenon
  <2> QED BY <1>1, <1>3, <2>1, Zenon DEF SentInv, Chain
<1>5. socket \in Seq(AnyUnits) /\ socket # <<>> /\ Tail(socket) = <<>>
  <2>1. PICK u \in AnyUnits : socket = <<u>>
    <3>1. LU("NUL") \in AnyUnits /\ LU("other") \in AnyUnits
      BY Zenon DEF AnyUnits
    <3> QED BY <1>2, <3>1, Zenon
  <2> QED BY <2>1
<1>6. StreamInv /\ NoByteLost
  <2>1. ReadTypes
    BY <1>1, <1>3, <1>5, Zenon DEF ReadTypes
  <2>2. FramesInv
    BY <1>1, <1>3, Zenon DEF FramesInv, FramesAreMessages
  <2>3. ~ torn
    BY <1>1, Zenon
  <2> QED BY <1>1, <1>5, <2>1, <2>2, <2>3, Zenon DEF StreamInv, NoByteLost, Dialogue
<1>7. DialogueInv
  <2>1. Shape(heard, "null") /\ Agreed /\ \A i \in DOMAIN heard : heard[i] # "BEGIN"
    BY <1>1, <1>3, ShapeIs, Zenon DEF Agreed
  <2> QED BY <1>1, <1>3, <2>1, Zenon DEF DialogueInv, Served, Dialogue
<1>8. OutInv
  <2>1. Len(outbound) = 0 /\ Len(received) = 0 /\ Len(outSock) = 0 /\ queued = 0
    BY <1>1, <1>3, Zenon
  <2>2. OutPieces * (0 - 0) = 0 + 0 /\ 0 \in Nat /\ 0 <= 0
    BY DEF OutPieces
  <2>3. \A j \in 1..Len(outbound) : FALSE
    BY <2>1
  <2>4. pc # "write"
    BY <1>1, Zenon
  <2> QED BY <1>1, <1>3, <2>1, <2>2, <2>3, <2>4, Zenon DEF OutInv
<1>9. OutgoingInOrder
  <2>1. received \o outSock = <<>>
    <3>1. <<>> \o <<>> = <<>>
      OBVIOUS
    <3> QED BY <1>1, <3>1, Zenon
  <2> QED BY <1>3, <2>1, Zenon DEF OutgoingInOrder
<1>10. EndsInv
  BY <1>1, Zenon DEF EndsInv
<1> QED BY <1>4, <1>6, <1>7, <1>8, <1>9, <1>10, Zenon DEF ClientInv

\* ClientInv holds in every reachable state, if the lengths of the client's messages
\* do not wrap around when read_message adds them up.
THEOREM ClientInvariant == Fit => (Spec => []ClientInv)
<1> SUFFICES ASSUME Fit PROVE Spec => []ClientInv
  BY Zenon
<1>1. Init => ClientInv
  BY InitInv, Zenon
<1>2. ASSUME ClientInv, [Next]_vars PROVE ClientInv'
  <2>1. /\ SentInv /\ StreamInv /\ NoByteLost /\ DialogueInv
        /\ OutInv /\ OutgoingInOrder /\ EndsInv
    BY <1>2, Zenon DEF ClientInv
  <2>2. SentInv'
    BY <1>2, <2>1, SentStep, Zenon
  <2>3. StreamInv' /\ NoByteLost'
    BY <1>2, <2>1, <2>2, StreamStep, Zenon DEF StreamNext
  <2>4. DialogueInv'
    BY <1>2, <2>1, DialogueStep, Zenon
  <2>5. OutInv' /\ OutgoingInOrder'
    BY <1>2, <2>1, OutStep, Zenon DEF OutNext
  <2>6. EndsInv'
    BY <1>2, <2>1, EndsStep, Zenon
  <2> QED BY <2>2, <2>3, <2>4, <2>5, <2>6, Zenon DEF ClientInv
<1> QED BY <1>1, <1>2, PTL DEF Spec

\* Messages leave for the client whole and in the order of its channel (Client::send
\* and its sendmsg), whatever the lengths are.
THEOREM AlwaysInOrder == Spec => []OutgoingInOrder
<1> DEFINE Inv == OutInv /\ OutgoingInOrder
<1>1. Init => Inv
  BY InitInv, Zenon DEF ClientInv
<1>2. ASSUME Inv, [Next]_vars PROVE Inv'
  BY <1>2, OutStep, Zenon DEF OutNext
<1>3. Inv => OutgoingInOrder
  BY Zenon
<1> QED BY <1>1, <1>2, <1>3, PTL DEF Spec

\* A client is served exactly when its lines were a complete dialogue of
\* authenticate_server and complete_auth.
THEOREM AlwaysComplete == Spec => []HandshakeComplete
<1>1. Init => DialogueInv
  BY InitInv, Zenon DEF ClientInv
<1>2. ASSUME DialogueInv, [Next]_vars PROVE DialogueInv'
  BY <1>2, DialogueStep, Zenon
<1>3. ASSUME DialogueInv PROVE HandshakeComplete
  <2>1. ASSUME pc \in Dialogue, Admits(heard) PROVE FALSE
    <3>1. heard \in Seq(Lines) /\ \A i \in DOMAIN heard : heard[i] # "BEGIN"
      BY <1>3, <2>1, Zenon DEF DialogueInv
    <3>2. Len(heard) \in 1..Len(heard) /\ heard[Len(heard)] = "BEGIN"
      BY <2>1, <3>1, AdmitsEnds, Zenon
    <3>3. DOMAIN heard = 1..Len(heard)
      <4>1. heard \in Seq(Lines)
        BY <3>1, Zenon
      <4> QED BY <4>1
    <3> QED BY <3>1, <3>2, <3>3, Zenon
  <2>2. ASSUME Served PROVE Admits(heard) /\ Len(said) = Len(heard) - 1 /\ Agreed
    BY <1>3, <2>2, ShapeIs, Zenon DEF DialogueInv
  <2> QED BY <2>1, <2>2, Zenon DEF HandshakeComplete, Served, Agreed
<1> QED BY <1>1, <1>2, <1>3, PTL DEF Spec

\* From the dialogue's buffer to the frames no unit is lost, repeated or moved, unless
\* a read was cut short (read_exact and the pending data).
THEOREM NothingLost == Fit => (Spec => []NoByteLost)
<1>1. ClientInv => NoByteLost
  BY Zenon DEF ClientInv
<1> QED BY <1>1, ClientInvariant, PTL

\* The frames read_message hands over are the client's messages, one after the other,
\* unless a read was cut short.
THEOREM AlwaysMessages == Fit => (Spec => []FramesAreMessages)
<1>1. ClientInv => FramesAreMessages
  BY Zenon DEF ClientInv, StreamInv, FramesInv, FramesAreMessages
<1> QED BY <1>1, ClientInvariant, PTL

\* The task of a client that keeps to the protocol and stays connected ends only when
\* a message with descriptors met a full socket or a read was cut short.
THEOREM AlwaysForCause == Fit => (Spec => []DroppedForCause)
<1>1. ClientInv => DroppedForCause
  BY Zenon DEF ClientInv, DialogueInv, EndsInv, DroppedForCause
<1> QED BY <1>1, ClientInvariant, PTL
=============================================================================
