CONSTANTS
    a = a
    b = b
    a1 = a1
    a2 = a2
    b1 = b1
    End <- MCEnd
    Talker <- MCA
    Typist <- MCA
    Mover <- MCA
    Tries = 1
    QueueLimit = 0
    Punch <- MCPunch3
    Owner <- MCOwner3
SPECIFICATION MCOrderly
INVARIANTS PunchingTypeOK NoStuckPacket OpenWhenConnected
SYMMETRY MCSymmetry
CONSTRAINT MCBusy
