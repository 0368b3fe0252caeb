\* Message queues with three processes and two queues; semaphores with two and with
\* three processes.
SPECIFICATION MCSpec
CONSTANTS
    p1 = p1
    p2 = p2
    p3 = p3
    Proc = {p1, p2, p3}
    None = NoProc
    Queue = {q1, q2}
    msgtql = 2
    msgseg = 1
    msgmnb = 2
    Sends <- AllSends
    Receives <- AllReceives
    Limits = {1}
    MaxSeq = 1
SYMMETRY Perms
INVARIANTS SemSleepers UndoRight MsgSleepers MessagesKept
PROPERTIES AllOrNothing
