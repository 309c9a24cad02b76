SPECIFICATION FairSpec
CONSTANTS
    Dsns <- MCDsns
    Offers <- MCOffers
    Allows = {}
    Callers = {c1, c2}
    NoCaller = NoCaller
    MaxCalls = 3
    MaxConns = 1
    MaxTime = 5
    Track = 3
    Lim = 8
CHECK_DEADLOCK FALSE
INVARIANTS ReadyMeansAccepted PasswordGuarded OneRetrier HealthExact
PROPERTIES DeadlineKept CallsReturn
