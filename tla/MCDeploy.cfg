\* One user key, three calls against a limit of one game, and each process is
\* started twice at most.
CONSTANTS
    o = o  q = q  a = a  b = b  h1 = h1  h2 = h2  c1 = c1  c2 = c2  c3 = c3  u = u
    Server = {a, b}
    Orch = {o, q}
    Host <- HostOf
    Setup <- Deployments
    Mortal = {o, a}
    Faults = {b}
    MaxStarts = 2
    Client = {u}
    Call = {c1, c2, c3}
    Traffic <- TrafficOf
    Day = 2
    KeyOf <- KeyOfBoth
    IssuerOf <- IssuerOfBoth
    Empty = Empty  Garbled = Garbled  Missing = Missing  Malformed = Malformed
    Failed = Failed  Nil = Nil  None = None
SPECIFICATION FairSpec
INVARIANTS TypeOK PlainOnlyIfEmpty SharedSecretFits NothingIsSilent PerDay WaitHelps
 
CHECK_DEADLOCK FALSE
