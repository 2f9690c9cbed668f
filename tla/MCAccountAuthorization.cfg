CONSTANTS
    Requests = {r1, r2, r3}
    NoReply = NoReply
    MaxSessions = 2
    MaxSignIns = 1
SPECIFICATION Spec
INVARIANTS HandsOverOnce PopupOnItsPage PollsOnItsPage
PROPERTIES HandsOverShownCode WaitEnds
CHECK_DEADLOCK FALSE
