\* One player, one server.
CONSTANTS
    p1 = p1  p2 = p2  g1 = g1  g2 = g2  s1 = s1  s2 = s2
    Player = {p1}
    Leaving = {}
    Game = {g1}
    Into <- IntoOne
    MaxPlayers = 2
    Timeout = 1
    Server = {s1}
    Loaded <- OneServer
    Errors = {}
SPECIFICATION Spec
INVARIANTS JoinedWasAdded
CHECK_DEADLOCK FALSE
