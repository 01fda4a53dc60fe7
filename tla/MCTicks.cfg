\* The response scheduler and one stream under fairness.
CONSTANTS
    s1 = s1  s2 = s2  g1 = g1  p1 = p1  p2 = p2  w1 = w1  w2 = w2
    Session = {s1}
    SessionId = {1}
    Draw <- DistinctDraw
    Game = {g1}
    Player = {p1}
    NoGame = NoGame
    NoMove = NoMove
    BadKey = BadKey
    Moves <- OneMove
    Worker = {w1}
    RequestPerWorker = 1
    MaxChannelSize = 1
    Arrivals <- NoPairs
    Departures <- NoPairs
    Assignments <- OneGame
    Saved <- OneSaved
SPECIFICATION TalkingSpec
PROPERTIES SchedulerTicks
CHECK_DEADLOCK FALSE
