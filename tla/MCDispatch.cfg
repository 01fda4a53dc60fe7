\* Two streams, one ringing at a player nobody plays, one without a valid key; one
\* request per worker, channels of one task: the pool grows and shrinks, the
\* channels fill.
CONSTANTS
    s1 = s1  s2 = s2  g1 = g1  p1 = p1  p2 = p2  w1 = w1  w2 = w2
    Session = {s1, s2}
    SessionId = {1, 2}
    Draw <- DistinctDraw
    Game = {g1}
    Player = {p1, p2}
    NoGame = NoGame
    NoMove = NoMove
    BadKey = BadKey
    Moves <- RingOrBadKey
    Worker = {w1, w2}
    RequestPerWorker = 1
    MaxChannelSize = 1
    Arrivals <- NoPairs
    Departures <- NoPairs
    Assignments <- OneGame
    Saved <- BothSaved
SPECIFICATION Spec
SYMMETRY WorkerSymmetry
INVARIANTS DispatchInBounds FrozenWhileDispatching NoTaskDiscarded
    EndedSessionLeavesNoRequest OwnVerdict
PROPERTIES FullChannelIsForever
CHECK_DEADLOCK FALSE
