SPECIFICATION FairSpec
CONSTANTS
    c1 = c1
    n1 = n1
    n2 = n2
    yes = yes
    no = no
    Call <- MCCall
    Resolver <- MCResolver
    Node <- MCNode
    Home <- MCHome
    Target <- MCTarget
    Approving <- MCApproving
    HasRedis = TRUE
    FailClose = TRUE
INVARIANTS
    TypeOK
    OkMeansMine
    Consent
    AnswersExact
PROPERTIES
    WaitsEnd
    ResolvesEnd
    Implements
CHECK_DEADLOCK FALSE
