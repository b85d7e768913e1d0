--------------------------- MODULE ClientHandler ---------------------------
(***************************************************************************)
(* One client's task from the first byte to the end of its loop: the SASL  *)
(* dialogue (src/auth.rs) and the reading and writing of messages          *)
(* (src/client.rs).                                                        *)
(*                                                                         *)
(* The socket carries units: the null byte, whole lines <<0, line>>, and   *)
(* eight-byte pieces of messages, <<m, i>> the i-th of message m.  The     *)
(* reader of the dialogue buffers: it may take in pieces of messages that  *)
(* follow the last line.  The loop is a select! of two branches; the read  *)
(* branch keeps what it has read in the future itself (got), and taking    *)
(* the other branch drops that future.                                     *)
(***************************************************************************)
EXTENDS Integers, Sequences

CONSTANTS Lines,        \* the lines a client may send
          Messages,     \* Messages[m]: lengths in bytes of message m, [fields, body]
          BufCap,       \* units the buffered reader takes in at once
          OutCap,       \* pieces the outgoing half of the socket holds
          Word,         \* lengths are unsigned and wrap around here
          MaxLines,     \* bound: lines a client sends
          MaxSize,      \* bound: pieces of a frame whose size is read from wrong bytes
          MaxOut        \* bound: messages for the client

ASSUME ClientHandlerAssumption ==
    /\ \A n \in {BufCap, OutCap} : n \in Nat \ {0}
    /\ \A n \in {Word, MaxLines, MaxSize, MaxOut} : n \in Nat
    /\ Messages \in Seq([fields : Nat, body : Nat])
    /\ \A m \in DOMAIN Messages : Messages[m].body % 8 = 0

VARIABLES sent,      \* what the client has sent after the null byte
          socket,    \* units sent and not yet read
          closed,    \* the client has closed its end
          buffer,    \* the BufReader of the dialogue
          heard,     \* history: lines read
          said,      \* history: replies to these lines
          pc, why,   \* where the task is, and why it has ended
          pending,   \* pending_data from pending_pos on
          got,       \* what the current read_message future has read
          torn,      \* history: a future that had read something was dropped
          frames,    \* history: what was given to Message::from_bytes
          handed,    \* history: the pieces of all frames, end to end
          outbound,  \* the channel of messages for the client
          held,      \* the message being written
          ready,     \* the runtime believes the socket to be writable
          outSock, received, queued

peerVars == <<sent, closed, received>>
authVars == <<buffer, heard, said>>
readVars == <<pending, got, torn, frames, handed>>
writeVars == <<outbound, held, ready, outSock, queued>>
vars == <<socket, pc, why, peerVars, authVars, readVars, writeVars>>

Restarts == {"AUTH", "AUTH OTHER", "CANCEL", "ERROR"}
Dialogue == {"lines", "data", "begin", "fd"}
OutPieces == 2     \* bound: a message to the client leaves in at most two writes
None == [n |-> 0, next |-> 0, fds |-> FALSE]

Init ==
    /\ sent = <<>> /\ closed = FALSE /\ received = <<>>
    /\ socket \in {<<<<0, "NUL">>>>, <<<<0, "other">>>>}
    /\ buffer = <<>> /\ heard = <<>> /\ said = <<>>
    /\ pc = "null" /\ why = "none"
    /\ pending = <<>> /\ got = <<>> /\ torn = FALSE /\ frames = <<>> /\ handed = <<>>
    /\ outbound = <<>> /\ held = None /\ ready = TRUE /\ outSock = <<>> /\ queued = 0

Leave(reason) == pc' = "left" /\ why' = reason

-----------------------------------------------------------------------------
(* The client.  It sends lines up to BEGIN and messages from there on, as    *)
(* early as it likes.  What it does after the task has ended is left out.    *)

Piece == 8         \* bytes; bodies are taken to be whole pieces
HeaderLen == 2     \* the 16 bytes of the fixed header

\* The layout of a message on the wire: the body starts at the next multiple of 8.
WireLen(m) ==
    LET start == CHOOSE n \in 0..(2 + Messages[m].fields) :
                    /\ n * Piece >= 16 + Messages[m].fields
                    /\ (n - 1) * Piece < 16 + Messages[m].fields
    IN  start + (Messages[m].body \div Piece)
Pieces(m) == [i \in 1..WireLen(m) |-> <<m, i>>]

\* What follows a unit: after BEGIN the first message, then piece by piece, one message
\* after the other.
NextUnit(u) ==
    IF u[1] = 0 THEN <<1, 1>>
    ELSE IF u[2] < WireLen(u[1]) THEN <<u[1], u[2] + 1>> ELSE <<u[1] + 1, 1>>

Begun == \E i \in DOMAIN sent : sent[i] = <<0, "BEGIN">>

Send(units) ==
    /\ ~ closed /\ pc # "left"
    /\ sent' = sent \o units
    /\ socket' = socket \o units
    /\ UNCHANGED <<closed, received, pc, why, authVars, readVars, writeVars>>

SendLine(line) == ~ Begun /\ Len(sent) < MaxLines /\ Send(<<<<0, line>>>>)

SendPiece ==
    /\ Begun
    /\ NextUnit(sent[Len(sent)])[1] \in DOMAIN Messages
    /\ Send(<<NextUnit(sent[Len(sent)])>>)

Close ==
    /\ ~ closed /\ closed' = TRUE /\ pc # "left"
    /\ UNCHANGED <<socket, pc, why, sent, received, authVars, readVars, writeVars>>

Receive ==
    /\ outSock # <<>> /\ pc # "left"
    /\ received' = Append(received, Head(outSock))
    /\ outSock' = Tail(outSock)
    /\ ready' = TRUE
    /\ UNCHANGED <<socket, pc, why, sent, closed, authVars, readVars, outbound, held, queued>>

-----------------------------------------------------------------------------
(* authenticate_server and complete_auth.                                    *)

ReadNull ==
    /\ pc = "null" /\ socket # <<>>
    /\ socket' = Tail(socket)
    /\ IF Head(socket) = <<0, "NUL">> THEN pc' = "lines" /\ UNCHANGED why ELSE Leave("auth")
    /\ UNCHANGED <<peerVars, authVars, readVars, writeVars>>

\* The buffered reader takes in what there is, lines or not.
Fill ==
    /\ pc \in Dialogue
    /\ buffer = <<>> /\ socket # <<>>
    /\ LET n == IF Len(socket) < BufCap THEN Len(socket) ELSE BufCap
       IN  /\ buffer' = SubSeq(socket, 1, n)
           /\ socket' = SubSeq(socket, n + 1, Len(socket))
    /\ UNCHANGED <<pc, why, heard, said, peerVars, readVars, writeVars>>

\* read_line and what follows from the line: the reply, and the next state of
\* the dialogue.
Hear(line) ==
    /\ buffer # <<>> /\ line = Head(buffer)[2]
    /\ heard' = Append(heard, line)
    /\ buffer' = Tail(buffer)
    /\ UNCHANGED <<socket, peerVars, writeVars>>

Say(reply, next) ==
    /\ said' = Append(said, reply)
    /\ pc' = next
    /\ UNCHANGED <<why, readVars>>

Refuse == Leave("auth") /\ UNCHANGED <<said, readVars>>

\* The loop over AUTH lines.  A uid that does not parse is an unexpected line.
AuthLine(line) ==
    /\ pc = "lines" /\ Hear(line)
    /\ CASE line = "AUTH EXTERNAL uid" -> Say("OK", "begin")
         [] line = "AUTH EXTERNAL"     -> Say("DATA", "data")
         [] line \in Restarts          -> Say("REJECTED", "lines")
         [] OTHER                      -> Refuse

\* Slip: whatever follows the challenge is taken for an answer.
DataLineAny(line) == pc = "data" /\ Hear(line) /\ Say("OK", "begin")

\* The answer to the DATA challenge: a uid, or nothing.
DataLine(line) ==
    /\ pc = "data" /\ Hear(line)
    /\ IF line \in {"DATA uid", "DATA"} THEN Say("OK", "begin") ELSE Refuse

\* Slip: what the reader has taken in beyond BEGIN is dropped with the reader.
StartAfresh ==
    /\ pc' = "run"
    /\ pending' = <<>>
    /\ UNCHANGED <<why, said, got, torn, frames, handed>>

\* The rest of the buffer becomes the handler's pending_data.
Start ==
    /\ pc' = "run"
    /\ pending' = Tail(buffer)
    /\ UNCHANGED <<why, said, got, torn, frames, handed>>

BeginLine(line) ==
    /\ pc \in {"begin", "fd"} /\ Hear(line)
    /\ CASE line = "BEGIN" -> Start
         [] line = "NEGOTIATE_UNIX_FD" /\ pc = "begin" -> Say("AGREE_UNIX_FD", "fd")
         [] OTHER -> Refuse

DialogueEnds ==
    /\ pc \in Dialogue \cup {"null"}
    /\ closed /\ buffer = <<>> /\ socket = <<>>
    /\ Leave("eof")
    /\ UNCHANGED <<socket, peerVars, authVars, readVars, writeVars>>

-----------------------------------------------------------------------------
(* read_message.                                                             *)

\* Slip: the fields are not padded.
TotalSizeUnpadded(fields, body) == (16 + fields + body) % Word

\* In bytes, as unsigned words.
TotalSize(fields, body) ==
    LET padded == (((fields + 7) % Word) \div 8) * 8
    IN  (16 + padded + body) % Word

\* The size read from the first pieces: wrong bytes give any size, more than the
\* future already waits with.
Sizes(header) ==
    IF \E m \in DOMAIN Messages : header = SubSeq(Pieces(m), 1, HeaderLen)
    THEN LET m == Messages[header[1][1]] IN {TotalSize(m.fields, m.body) \div Piece}
    ELSE {n \in HeaderLen..MaxSize : n > Len(got)}

\* What the future can have without waiting: read_exact looks into the pending
\* data first and then at the stream.
Available == got \o pending \o socket

Suspend ==
    /\ got' = Available
    /\ pending' = <<>> /\ socket' = <<>>
    /\ UNCHANGED <<pc, why, torn, frames, handed>>

\* A whole frame is taken out, parsed and handed to the event loop.
HandOver(size) ==
    LET frame == SubSeq(Available, 1, size)
        new   == size - Len(got)
        fromPending == IF new < Len(pending) THEN new ELSE Len(pending)
    IN  /\ frames' = Append(frames, frame) /\ handed' = handed \o frame
        /\ got' = <<>>
        /\ pending' = SubSeq(pending, fromPending + 1, Len(pending))
        /\ socket' = SubSeq(socket, new - fromPending + 1, Len(socket))
        /\ \/ UNCHANGED <<pc, why>>
           \/ frame \notin {Pieces(m) : m \in DOMAIN Messages} /\ Leave("frame")
        /\ UNCHANGED torn

\* Slip: a frame is complete only if something follows the fixed header.
PollLonger ==
    /\ pc = "run" /\ Len(Available) > Len(got)
    /\ IF Len(Available) <= HeaderLen
       THEN Suspend
       ELSE \E size \in Sizes(SubSeq(Available, 1, HeaderLen)) :
               IF Len(Available) < size THEN Suspend ELSE HandOver(size)
    /\ UNCHANGED <<peerVars, authVars, writeVars>>

\* The runtime polls the future.
Poll ==
    /\ pc = "run" /\ Len(Available) > Len(got)
    /\ IF Len(Available) < HeaderLen
       THEN Suspend
       ELSE \E size \in Sizes(SubSeq(Available, 1, HeaderLen)) :
               IF Len(Available) < size THEN Suspend ELSE HandOver(size)
    /\ UNCHANGED <<peerVars, authVars, writeVars>>

\* Slip: nothing to read is taken for the end of the stream.
ReadEndsEarly ==
    /\ pc = "run" /\ pending = <<>> /\ socket = <<>>
    /\ Leave("eof")
    /\ UNCHANGED <<socket, peerVars, authVars, readVars, writeVars>>

\* The end of the stream, inside a message or not.
ReadEnds ==
    /\ pc = "run" /\ closed /\ pending = <<>> /\ socket = <<>>
    /\ Leave("eof")
    /\ UNCHANGED <<socket, peerVars, authVars, readVars, writeVars>>

-----------------------------------------------------------------------------
(* The outgoing half.                                                        *)

\* The event loop puts a message into the channel.
Queue(fds) ==
    /\ pc \in {"run", "write"} /\ queued < MaxOut
    /\ queued' = queued + 1
    /\ outbound' = Append(outbound, [n |-> queued + 1, next |-> 1, fds |-> fds])
    /\ UNCHANGED <<socket, pc, why, peerVars, authVars, readVars, held, ready, outSock>>

\* The second branch of select! wins: the read future is dropped.
Recv ==
    /\ pc = "run" /\ outbound # <<>>
    /\ held' = Head(outbound) /\ outbound' = Tail(outbound)
    /\ got' = <<>> /\ torn' = (torn \/ got # <<>>)
    /\ pc' = "write"
    /\ UNCHANGED <<socket, why, peerVars, authVars, pending, frames, handed, ready,
                   outSock, queued>>

Room == Len(outSock) < OutCap

\* Slip: what a partial send left over is not sent.
PutPartial ==
    /\ outSock' = Append(outSock, <<held.n, held.next>>)
    /\ pc' = "run" /\ held' = None
    /\ UNCHANGED <<why, ready>>

\* One write system call that finds room; descriptors travel with the first.
Put ==
    /\ outSock' = Append(outSock, <<held.n, held.next>>)
    /\ IF held.next = OutPieces
       THEN pc' = "run" /\ held' = None
       ELSE pc' = pc /\ held' = [held EXCEPT !.next = @ + 1, !.fds = FALSE]
    /\ UNCHANGED <<why, ready>>

\* write_all waits for room.
WriteAll ==
    /\ pc = "write" /\ ~ held.fds /\ ~ closed
    /\ \/ Room /\ Put
       \/ ~ Room /\ ready /\ ready' = FALSE /\ UNCHANGED <<pc, why, held, outSock>>
    /\ UNCHANGED <<socket, peerVars, authVars, readVars, outbound, queued>>

\* writable().await, then sendmsg in try_io, which does not wait: readiness may be
\* out of date, and WouldBlock is an error like any other.
SendFds ==
    /\ pc = "write" /\ held.fds /\ ~ closed
    /\ ready
    /\ \/ Room /\ Put
       \/ ~ Room /\ Leave("wouldblock") /\ ready' = FALSE /\ UNCHANGED <<held, outSock>>
    /\ UNCHANGED <<socket, peerVars, authVars, readVars, outbound, queued>>

WriteFails ==
    /\ pc = "write" /\ closed
    /\ Leave("write")
    /\ UNCHANGED <<socket, peerVars, authVars, readVars, writeVars>>

-----------------------------------------------------------------------------
\* The client may fall silent wherever the task waits for it.
Rest ==
    /\ pc \in {"null", "left", "run"} \cup Dialogue
    /\ UNCHANGED vars

AuthStep == ReadNull \/ Fill \/ DialogueEnds
              \/ \E line \in Lines : AuthLine(line) \/ DataLine(line) \/ BeginLine(line)
WriteStep == WriteAll \/ SendFds \/ WriteFails

Next ==
    \/ \E line \in Lines : SendLine(line)
    \/ SendPiece \/ Close \/ Receive
    \/ AuthStep \/ Poll \/ ReadEnds \/ Recv \/ WriteStep
    \/ \E fds \in BOOLEAN : Queue(fds)
    \/ Rest

Spec == Init /\ [][Next]_vars

\* The runtime keeps polling the task, select! picks at random among branches
\* that are ready, and the client reads what it is sent.
FairSpec ==
    /\ Spec
    /\ WF_vars(AuthStep) /\ SF_vars(Poll) /\ WF_vars(WriteStep) /\ WF_vars(Receive)

-----------------------------------------------------------------------------
TypeOK ==
    /\ pc \in {"null", "run", "write", "left"} \cup Dialogue
    /\ why \in {"none", "auth", "eof", "frame", "write", "wouldblock"}
    /\ closed \in BOOLEAN /\ ready \in BOOLEAN
    /\ heard \in Seq(Lines)
    /\ Len(said) <= Len(heard)
    /\ Len(buffer) <= BufCap /\ Len(outSock) <= OutCap
    /\ held.n \in 0..queued /\ held.next \in 0..OutPieces
    /\ queued \in 0..MaxOut

\* The dialogues that let a client in: attempts that are turned down, then
\* EXTERNAL with a uid at once or after the challenge, then BEGIN.
Admits(h) ==
    \E i \in DOMAIN h :
        /\ \A j \in 1..(i - 1) : h[j] \in Restarts
        /\ \E a \in {<<"AUTH EXTERNAL uid">>, <<"AUTH EXTERNAL", "DATA uid">>,
                      <<"AUTH EXTERNAL", "DATA">>},
              b \in {<<"BEGIN">>, <<"NEGOTIATE_UNIX_FD", "BEGIN">>} :
              SubSeq(h, i, Len(h)) = a \o b

\* A client is served exactly when its lines were one of the complete dialogues,
\* however they arrived; each line but BEGIN got one reply, and descriptors were
\* agreed to only if the client asked.
HandshakeComplete ==
    LET served == pc \in {"run", "write"} \/ why \in {"frame", "write", "wouldblock"}
    IN  /\ served => Admits(heard) /\ Len(said) = Len(heard) - 1
        /\ served => ((\E i \in DOMAIN heard : heard[i] = "NEGOTIATE_UNIX_FD")
                        <=> (\E i \in DOMAIN said : said[i] = "AGREE_UNIX_FD"))
        /\ pc \in Dialogue => ~ Admits(heard)

\* "Extract any remaining buffered data - this is critical!": from the dialogue
\* to the loop no unit is lost, repeated or moved; what was read, what is being
\* read and what is waiting is what the client sent.  Only dropping a future
\* that has read part of a message loses anything.
NoByteLost ==
    pc \notin {"null", "left"} /\ ~ torn =>
        [i \in DOMAIN heard |-> <<0, heard[i]>>] \o handed
            \o got \o pending \o (IF pc \in Dialogue THEN buffer ELSE <<>>) \o socket
        = sent

\* The n-th frame given to Message::from_bytes is the n-th message of the client,
\* in however many pieces it came, as long as no read was cut short.
FramesAreMessages ==
    ~ torn => \A n \in DOMAIN frames : n \in DOMAIN Messages /\ frames[n] = Pieces(n)

\* "SAFETY: The data is valid D-Bus message bytes that we just read": every frame
\* given to Message::from_bytes is a message of the client.
ValidMessageBytes ==
    \A n \in DOMAIN frames : \E m \in DOMAIN Messages : frames[n] = Pieces(m)

\* Messages to the client leave whole and in the order of the channel, over any
\* number of partial writes and with or without descriptors.
OutgoingInOrder ==
    LET out == received \o outSock
    IN  \A i \in DOMAIN out :
            out[i] = <<((i - 1) \div OutPieces) + 1, ((i - 1) % OutPieces) + 1>>

\* A client that keeps to the protocol and stays connected is dropped in two cases
\* only: a message with descriptors met a full socket, or a read was cut short.
DroppedForCause ==
    /\ why = "auth" => heard = <<>> \/ ~ Admits(heard)
    /\ why \in {"eof", "write"} => closed
    /\ why = "frame" => torn

\* Every message that is completely sent is handed to the event loop, unless the
\* task ends or a read is cut short: neither the dialogue's buffer nor outgoing
\* traffic holds it up.
MessagesArrive ==
    \A m \in DOMAIN Messages :
        (\E i \in DOMAIN sent : sent[i] = <<m, WireLen(m)>>)
            ~> Len(frames) >= m \/ pc = "left" \/ torn
=============================================================================
