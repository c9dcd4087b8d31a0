\* Two requests through a proxy with every kind of route, one service without TLS.
SPECIFICATION FairSpec
CONSTANTS
    c1 = c1
    c2 = c2
    bmcweb = bmcweb
    dump = dump
    license = license
    Clients = {c1, c2}
    Paths <- AnyPaths
    Config <- Extended
    Services = {bmcweb, dump, license}
    Secure = {bmcweb, license}
    Failures = TRUE
    None = None
INVARIANTS
    TypeOK
    AnsweredExactlyOnce
    RelayedByARoute
PROPERTIES
    EveryRequestAnswered
CHECK_DEADLOCK FALSE
