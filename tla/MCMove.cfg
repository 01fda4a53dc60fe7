\* Two servers, one of which lags or crashes, and its two games: any call of a
\* pass may fail, and the controller may crash.
CONSTANTS
    a = a  b = b  c = c  o1 = o1  o2 = o2  g1 = g1  g2 = g2
    Server = {a, b}
    Orch = {o1}
    Game = {g1, g2}
    New = {}
    Home <- HomeOfTwo
    Mortal = {a, o1}
    Lagging = {a}
    Expiring = {}
    Errors = TRUE
    None = None
SPECIFICATION Spec
INVARIANTS TypeOK MapIsMoved
PROPERTIES LastCopyKept
CHECK_DEADLOCK FALSE
