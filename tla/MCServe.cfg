\* Three servers: one crashes, one lags, one stays.  The game may expire.
CONSTANTS
    a = a  b = b  c = c  o1 = o1  o2 = o2  g1 = g1  g2 = g2
    Server = {a, b, c}
    Orch = {o1}
    Game = {g1}
    New = {}
    Home <- HomeOfOne
    Mortal = {a}
    Lagging = {b}
    Expiring = {g1}
    Errors = FALSE
    None = None
SPECIFICATION FairSpec
INVARIANTS OneLiveOwner
PROPERTIES GamesAreServed ExpiredIsUnlisted
CHECK_DEADLOCK FALSE
