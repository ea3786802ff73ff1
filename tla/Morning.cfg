SPECIFICATION Spec
CONSTANTS
    MaxAttempts = 2
    Horizon = 8
    SealAge = 2
    Lookback = 3
    PublicationLag = 2
    Symbols <- MCSymbols
    Worlds <- MCWorlds
    Machines <- MCMachines
    SettledUniverse = 2
    Quarantined <- MCQuarantined
    CalendarLead = 2
    FirstMorning = 6
    SettledAtStart = 2
    MaxRuns = 3
    MaxEvents = 4
    MaxErrors = 1
    MaxDeaths = 1
INVARIANTS
    TypeOK
    LedgerIsSound
    PairIsReal
    RecordingsAreJudged
    GoIsTheMarket
PROPERTY
    NeverUnlearned
    ReadyIsServed
CHECK_DEADLOCK FALSE
