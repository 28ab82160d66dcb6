SPECIFICATION MCSpec
CONSTANTS
    client = client
    server = server
    c1 = c1
    c2 = c2
    Peer = {client, server}
    Call <- Calls
    Caller <- OneEach
    MaxChunks <- FirstChunks
    MaxReplies <- SecondRepliesTwice
    Sockets = {s1, s2, s3}
    MaxHangups = 2
    SelfIsBound = FALSE
INVARIANTS CallbackOnce WaitingCallIsSomewhere ClientInStep
PROPERTIES EveryCallSettles
CHECK_DEADLOCK FALSE
