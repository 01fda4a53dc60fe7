\* Two servers: one that is dead when the client comes, and one that may
\* crash.  Two moves fill both directions.
CONSTANTS
    a = a  b = b  c = c
    Server = {a, b}
    Dead = {a}
    Mortal = {b}
    Errors = TRUE
    MaxMoves = 2
    None = None
SPECIFICATION FairSpec
INVARIANTS TypeOK NotFoundIsTrue OneLateSend OneLoopLeft
PROPERTIES DirectSpec SidesEndTogether CallIsAnswered
CHECK_DEADLOCK FALSE
