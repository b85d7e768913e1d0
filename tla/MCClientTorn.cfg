CONSTANTS
    Lines = {"AUTH", "AUTH EXTERNAL", "AUTH EXTERNAL uid", "DATA uid", "NEGOTIATE_UNIX_FD", "BEGIN", "other"}
    Messages <- TwoMessages
    BufCap = 3
    OutCap = 2
    Word = 65536
    MaxLines = 2
    MaxSize = 6
    MaxOut = 2
SPECIFICATION Spec
INVARIANT ValidMessageBytes
