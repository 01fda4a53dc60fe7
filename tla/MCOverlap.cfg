\* Two orchestrators whose passes overlap, two servers that crash.
CONSTANTS
    a = a  b = b  c = c  o1 = o1  o2 = o2  g1 = g1  g2 = g2
    Server = {a, b}
    Orch = {o1, o2}
    Game = {g1}
    New = {}
    Home <- HomeOfOne
    Mortal = {a, b}
    Lagging = {}
    Expiring = {}
    Errors = FALSE
    None = None
SPECIFICATION Spec
PROPERTIES LastCopyKept
CHECK_DEADLOCK FALSE
