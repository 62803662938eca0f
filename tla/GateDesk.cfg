SPECIFICATION FairSpec
CONSTANTS
    g1 = g1
    easter = easter
    standalone = standalone
    NoBot = NoBot
    NoGate = NoGate
    Gates = {g1}
    Bots <- MCBots
    Daemons = {easter}
    Taps = 2
    Budget = 2
INVARIANTS
    TypeOK
    WaitingIsAnswerable
    AskedOncePerBot
PROPERTIES
    KeepsPromise
    EveryGateAsked
