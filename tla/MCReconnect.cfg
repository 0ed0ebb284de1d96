CONSTANTS
    a = a
    b = b
    a1 = a1
    a2 = a2
    b1 = b1
    End <- MCEnd
    Talker <- MCB
    Typist <- MCEnd
    Mover <- MCA
    Tries = 1
    QueueLimit = 0
    Punch <- MCPunch2
    Owner <- MCOwner2
SPECIFICATION MCTalkingSpec
PROPERTIES Reconnects
ACTION_CONSTRAINT MCCoarse
