\* Two orchestrators, one of which may crash; any call may fail, and a game is
\* created meanwhile.
CONSTANTS
    a = a  b = b  c = c  o1 = o1  o2 = o2  g1 = g1  g2 = g2
    Server = {a, b}
    Orch = {o1, o2}
    Game = {g2}
    New = {g2}
    Home <- HomeOfNone
    Mortal = {o1}
    Lagging = {}
    Expiring = {}
    Errors = TRUE
    None = None
SPECIFICATION FairSpec
PROPERTIES ControllerTakesOver
CHECK_DEADLOCK FALSE
