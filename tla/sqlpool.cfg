\* Three handlers, at most four connections (a fifth identifier would show
\* one too many), a database that refuses, and a pool given up at any time.
SPECIFICATION FairSpec
CONSTANTS
    c1 = c1  c2 = c2  c3 = c3
    s1 = s1  s2 = s2  s3 = s3  s4 = s4  s5 = s5
    NoConn = NoConn
    Client <- ThreeClients
    Conn <- FiveConns
    MinConn = 3
    MaxConn = 4
    Budget = 1
    Faults <- BothFaults
INVARIANTS
    TokenPerConn
    OneUser
    SizeExact
    AbortExplained
PROPERTIES
    Service
    EveryRequestServed
    CloseCompletes
