CONSTANTS
    Lines = {"AUTH", "AUTH EXTERNAL", "AUTH EXTERNAL uid", "DATA uid", "NEGOTIATE_UNIX_FD", "BEGIN", "other"}
    Messages <- TwoMessages
    BufCap = 3
    OutCap = 2
    Word = 65536
    MaxLines = 4
    MaxSize = 6
    MaxOut = 2
SPECIFICATION FairSpec
INVARIANTS HandshakeComplete NoByteLost FramesAreMessages OutgoingInOrder 
PROPERTY MessagesArrive
