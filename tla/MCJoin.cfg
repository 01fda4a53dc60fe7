\* Two players join a game with room for one, and leave it, next to a server that
\* does not have it; the calls of one player and of that server may fail.
CONSTANTS
    p1 = p1  p2 = p2  g1 = g1  g2 = g2  s1 = s1  s2 = s2
    Player = {p1, p2}
    Leaving = {p1, p2}
    Game = {g1, g2}
    Into <- IntoOne
    MaxPlayers = 1
    Timeout = 1
    Server = {s1, s2}
    Loaded <- OneEach
    Errors = {p1, s2}
SPECIFICATION FairSpec
INVARIANTS TypeOK RoomKept SuccessIsTrue
PROPERTIES JoinEnds LobbySpec
CHECK_DEADLOCK FALSE
