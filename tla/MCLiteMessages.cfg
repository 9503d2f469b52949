SPECIFICATION FairSpec
CONSTANTS
    s1 = s1  s2 = s2  s3 = s3  r1 = r1  r2 = r2  w1 = w1  w2 = w2  c1 = c1  c2 = c2
    SEND_REPLY_WAIT = SEND_REPLY_WAIT
    IMM_SEND_ONLY_FLAG = IMM_SEND_ONLY_FLAG
    Zero = Zero  Error = Error  None = None
    Senders = {s1, s2, s3}
    Receivers = {r1, r2}
    Words = {w1, w2}
    ProcessOf <- TwoProcesses
    WordOf <- TwoShare
    Recvs <- RecvCounts
    PlainSends = 1
    MaxRefusals = 1
    SendSize <- SendSizes
    MaxRetSize <- Rooms
    ReceiveSize <- RecvSizes
    ReplySize <- ReplySizes
    IMM_MAX_PORT = 4
    LIMITATION = 4
    WordSize = 16
CONSTRAINT OneOfThree
INVARIANT TypeOK
INVARIANT OwnReply
INVARIANT ReceiveTrue
 
INVARIANT ArgumentsKept
INVARIANT PortIsThere
 
 
CHECK_DEADLOCK FALSE
