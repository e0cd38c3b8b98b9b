SPECIFICATION FairSpec
CONSTANTS
    Slaves = {"lan"}
    Masters = {"wan"}
    FDs = {fd1, fd2}
    MaxSocks = 2
    MaxPackets = 2
    MaxEvents = 1
INVARIANTS
    Attributed
    RelayedOnce
    StealsAtMostOne
PROPERTY SocketServed
