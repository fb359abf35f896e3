SPECIFICATION FairSpec
CONSTANTS
    Senders = {s1}
    Removers = {r1, r2}
    IO = io
    Messages = {1, 2, 3}
    Size <- MCSize
    MaxSendSize = 2
    SendCompleteClose = TRUE
    MaxAccepted = 3
INVARIANTS
    NoLostWakeup
    NetworkCloseOnce
    PostCloseAlone
PROPERTIES
    ChannelSpec
    ClosingCloses
