\* The claim that a shutdown lets delivered work finish.
SPECIFICATION Spec
CONSTANTS
    push1 = push1
    push2 = push2
    pr = pr
    app = app
    h1 = h1
    NoInstallation = NoInstallation
    Deliveries <- MCDeliveries
    Requests = {pr}
    Installations = {app}
    Humans = {h1}
    Quoting = {}
    Kind <- MCKind
    Request <- MCRequest
    Installation <- MCInstallation
    FetchCalls = 1
    PageSize = 1
    ProcessingTimeout = 2
    InstallationTokenMargin = 2
    TokenLifetime = 3
    MaxTime = 4
    MaxMishaps = 0
INVARIANT ExitDropsNothing
\* Every delivery has been dealt with and the clock has reached its bound.
CHECK_DEADLOCK FALSE
