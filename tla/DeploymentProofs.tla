--------------------------- MODULE DeploymentProofs ---------------------------
(***************************************************************************)
(* Theorems about Deployment for every set of processes, clients and       *)
(* calls, and whatever the settings are: its types, who sees a user key,   *)
(* when one is refused, what a process tells before it ends, and what the  *)
(* daily limit limits.                                                     *)
(***************************************************************************)
EXTENDS Deployment, FiniteSetTheorems, FunctionTheorems, TLAPS

-----------------------------------------------------------------------------
(* Type correctness: the processes.                                         *)

LEMMA InitBootType == Init => BootType
BY BootAssumption DEF Init, BootInit, BootType, Running

LEMMA BootTypeUnchanged == BootType /\ UNCHANGED bootVars => BootType'
BY DEF BootType, bootVars, Running, Conf

\* What is made of the settings is a certificate or a CA, nothing, or an error.
LEMMA CredentialsType ==
    ASSUME NEW c
    PROVE  /\ GetAuthCredentials(c) \in {Nil, Failed} \cup Certificates
           /\ GetTLSClientCA(c) \in {Nil, Failed} \cup CAs
BY DEF GetAuthCredentials, GetTLSClientCA, Credentials

LEMMA LoggerTypes ==
    ASSUME NEW p
    PROVE  /\ WriteErrLogger(p) \in SUBSET {"error"}
           /\ WriteWarningLogger(p) \in SUBSET {"warning"}
BY DEF WriteErrLogger, WriteWarningLogger

Ends == {"exit", "panic", "killed"}
Tales == SUBSET {"stdout", "error", "warning", "trace"}

LEMMA EndType ==
    ASSUME BootType, NEW p \in Process, NEW how \in Ends, NEW what \in Tales,
           End(p, how, what), UNCHANGED <<plan, addr>>,
           starts' \in [Process -> 0 .. MaxStarts],
           \A x \in Process \ {p} : starts'[x] = starts[x]
    PROVE  BootType'
<1> USE DEF BootType
<1>1. stage' \in [Process -> {"off", "db", "tls", "listen", "serve", "serving"}]
      /\ \A x \in Process : Running(x)' => Running(x) /\ x # p
  BY DEF End, Running
<1>2. \A x \in Process : Running(x)' =>
         starts'[x] > 0 /\ x \in DOMAIN Setup[plan'] /\ Conf(x)' # Failed
  BY <1>1 DEF Conf
<1>3. /\ creds' \in [Process -> {Nil} \cup Certificates]
      /\ \A x \in Process : creds'[x] # Nil => Running(x)'
  BY DEF End, Running
<1>4. /\ tunnel' \in [Orch -> {Nil} \cup CAs]
      /\ \A o \in Orch : tunnel'[o] # Nil => Running(o)'
  BY DEF End, Running, Process
<1>5. listener' \subseteq {x \in Process : stage'[x] \in {"serve", "serving"}}
  BY DEF End
<1>6. ended' \in [Process -> {"no", "exit", "panic", "killed"}] /\ told' \in [Process -> Tales]
  BY DEF End, Ends, Tales
<1> QED
  BY <1>1, <1>2, <1>3, <1>4, <1>5, <1>6 DEF Tales

LEMMA ExitType ==
    ASSUME BootType, NEW p \in Process, Exit(p), UNCHANGED <<plan, starts, addr>>
    PROVE  BootType'
<1>1. told[p] \cup WriteErrLogger(p) \in Tales
  BY LoggerTypes DEF BootType, Tales
<1> QED
  BY <1>1, EndType DEF Exit, Ends, BootType

LEMMA BeginType ==
    ASSUME BootType, NEW p \in Process, Begin(p)
    PROVE  BootType'
<1>1. starts' \in [Process -> 0 .. MaxStarts] /\ starts'[p] > 0
      /\ \A x \in Process \ {p} : starts'[x] = starts[x]
  BY BootAssumption DEF Begin, BootType
<1>2. CASE End(p, "exit", {"stdout"})
  BY <1>1, <1>2, EndType DEF Begin, Ends, Tales
<1>3. CASE /\ Conf(p) # Failed
           /\ Goto(p, "db")
           /\ told' = [told EXCEPT ![p] = {}]
           /\ ended' = [ended EXCEPT ![p] = "no"]
           /\ UNCHANGED <<creds, tunnel, listener>>
  BY <1>1, <1>3 DEF Begin, Goto, BootType, Running, Conf
<1> QED
  BY <1>2, <1>3 DEF Begin

LEMMA StartClientType ==
    ASSUME BootType, NEW p \in Process, StartClient(p)
    PROVE  BootType'
<1>1. CASE Exit(p)
  BY <1>1, ExitType DEF StartClient, Connect
<1>2. CASE stage[p] = "db" /\ Goto(p, "tls")
           /\ UNCHANGED <<plan, starts, addr, creds, tunnel, listener, ended, told>>
  BY <1>2 DEF Goto, BootType, Running, Conf
<1> QED
  BY <1>1, <1>2 DEF StartClient, Connect

LEMMA SecureType ==
    ASSUME BootType, NEW p \in Process, Secure(p)
    PROVE  BootType'
<1> DEFINE own == GetAuthCredentials(Conf(p))
           gs == IF p \in Orch THEN GetTLSClientCA(Conf(p)) ELSE Nil
<1>1. CASE Exit(p)
  BY <1>1, ExitType DEF Secure
<1>2. CASE /\ stage[p] = "tls" /\ Failed \notin {own, gs}
           /\ creds' = [creds EXCEPT ![p] = own]
           /\ tunnel' = [o \in Orch |-> IF o = p THEN gs ELSE tunnel[o]]
           /\ told' = [told EXCEPT ![p] = @ \cup IF own = Nil THEN WriteWarningLogger(p)
                                                             ELSE {}]
           /\ Goto(p, "listen")
           /\ UNCHANGED <<plan, starts, addr, listener, ended>>
  <2>1. own \in {Nil} \cup Certificates /\ (p \in Orch => gs \in {Nil} \cup CAs)
    BY <1>2, CredentialsType
  <2>2. told' \in [Process -> Tales]
    BY <1>2, LoggerTypes DEF BootType, Tales
  <2> HIDE DEF own, gs
  <2> QED
    BY <1>2, <2>1, <2>2 DEF Goto, BootType, Tales, Running, Conf
<1> QED
  BY <1>1, <1>2 DEF Secure

LEMMA ListenType ==
    ASSUME BootType, NEW p \in Process, Listen(p)
    PROVE  BootType'
<1>1. CASE Exit(p)
  BY <1>1, ExitType DEF Listen
<1>2. CASE /\ stage[p] = "listen" /\ Goto(p, "serve")
           /\ listener' \in {listener, listener \cup {p}}
           /\ told' \in {told, [told EXCEPT ![p] = @ \cup WriteErrLogger(p)]}
           /\ UNCHANGED <<plan, starts, addr, creds, tunnel, ended>>
  <2>1. told' \in [Process -> Tales]
    BY <1>2, LoggerTypes DEF BootType, Tales
  <2>2. listener' \subseteq {x \in Process : stage'[x] \in {"serve", "serving"}}
    BY <1>2 DEF Goto, BootType
  <2>3. /\ stage' \in [Process -> {"off", "db", "tls", "listen", "serve", "serving"}]
        /\ \A x \in Process : Running(x)' <=> Running(x)
    BY <1>2 DEF Goto, BootType, Running
  <2>4. \A x \in Process : Conf(x)' = Conf(x)
    BY <1>2 DEF Conf
  <2>5. BootType
    OBVIOUS
  <2> QED
    BY <1>2, <2>1, <2>2, <2>3, <2>4, <2>5 DEF BootType, Tales, Process
<1> QED
  BY <1>1, <1>2 DEF Listen

LEMMA ServeType ==
    ASSUME BootType, NEW p \in Process, Serve(p)
    PROVE  BootType'
<1>1. CASE End(p, "panic", told[p] \cup {"trace"})
  <2>1. told[p] \cup {"trace"} \in Tales
    BY DEF BootType, Tales
  <2> QED
    BY <1>1, <2>1, EndType DEF Serve, Ends, BootType
<1>2. CASE stage[p] = "serve" /\ Goto(p, "serving")
           /\ UNCHANGED <<plan, starts, addr, creds, tunnel, listener, ended, told>>
  BY <1>2 DEF Goto, BootType, Running, Conf
<1> QED
  BY <1>1, <1>2 DEF Serve

LEMMA BootTypeStep ==
    ASSUME BootType, BootNext
    PROVE  BootType'
<1>1. ASSUME NEW p \in Process, Begin(p) \/ StartClient(p) \/ Secure(p) \/ Listen(p) \/ Serve(p)
      PROVE  BootType'
  BY <1>1, BeginType, StartClientType, SecureType, ListenType, ServeType
<1>2. ASSUME NEW s \in Server, Publish(s)
      PROVE  BootType'
  <2>1. starts[s] \in 1 .. MaxStarts
    BY <1>2 DEF Publish, BootType, Running, Process
  <2> QED
    BY <1>2, <2>1 DEF Publish, BootType, Running, Conf
<1>3. ASSUME NEW p \in Process, Kill(p)
      PROVE  BootType'
  BY <1>3, EndType DEF Kill, Ends, Tales, BootType
<1>4. CASE AddrExpires
  BY <1>4 DEF AddrExpires, BootType, Running, Conf
<1> QED
  BY <1>1, <1>2, <1>3, <1>4 DEF BootNext, ServerMain, OrchMain, Process

-----------------------------------------------------------------------------
(* Type correctness: the daily limit.                                       *)

LEMMA InitLimitType == Init => LimitType /\ HandlerType
<1> SUFFICES ASSUME Init PROVE LimitType /\ HandlerType
  OBVIOUS
<1>1. -1 \in -1 .. Day /\ Day \in 0 .. Day /\ 0 \in Nat
  BY DayAssumption
<1>2. LimitType
  <2>1. step \in [Call -> {"idle", "renew", "number", "store", "invalid", "refused", "failed"}]
    BY DEF Init, LimitInit
  <2>2. cntr \in [Call -> Nat] /\ age \in [Call -> 0 .. Day]
    BY <1>1 DEF Init, LimitInit
  <2>3. counter = 0 /\ ttl = -1 /\ quiet = Day /\ slipped = {} /\ rested = {} /\ loose = FALSE
    BY DEF Init, LimitInit
  <2>4. ttl \in -1 .. Day /\ ttl # 0 /\ counter \in Nat /\ quiet \in 0 .. Day
    BY <2>3, DayAssumption
  <2>5. slipped \subseteq Call /\ rested \subseteq Call /\ loose \in BOOLEAN
    BY <2>3
  <2> QED
    BY <2>1, <2>2, <2>3, <2>4, <2>5 DEF LimitType
<1>3. HandlerType
  BY DEF Init, LimitInit, HandlerType
<1> QED
  BY <1>2, <1>3

LEMMA LimitTypeUnchanged ==
    LimitType /\ HandlerType /\ UNCHANGED limitVars => (LimitType /\ HandlerType)'
BY DEF LimitType, HandlerType, limitVars

LEMMA IncrType ==
    ASSUME LimitType, HandlerType, NEW c \in Call, NEW h \in Orch \X (1 .. MaxStarts),
           Incr(c, h)
    PROVE  (LimitType /\ HandlerType)'
<1> USE DEF LimitType, HandlerType, Incr, Advance
<1>1. step' \in {[step EXCEPT ![c] = "renew"], [step EXCEPT ![c] = "failed"]}
  OBVIOUS
<1>2. HandlerType'
  BY <1>1
<1>3. counter' \in Nat /\ (counter' = 0 => ttl = -1) /\ cntr' \in [Call -> Nat]
  OBVIOUS
<1>4. quiet' \in 0 .. Day
  BY DayAssumption
<1> QED
  BY <1>1, <1>2, <1>3, <1>4

LEMMA RenewType ==
    ASSUME LimitType, HandlerType, NEW c \in Call, NEW limit, Renew(c, limit)
    PROVE  (LimitType /\ HandlerType)'
<1> USE DEF LimitType, HandlerType, Renew, Advance
<1>1. step' \in {[step EXCEPT ![c] = s] : s \in {"refused", "number", "failed"}}
  OBVIOUS
<1>2. HandlerType'
  BY <1>1
<1>3. ttl' \in -1 .. Day /\ ttl' # 0 /\ (counter = 0 => ttl' = -1)
  BY DayAssumption
<1>4. age' \in [Call -> 0 .. Day] /\ quiet' \in 0 .. Day
  BY DayAssumption
<1> QED
  BY <1>1, <1>2, <1>3, <1>4

LEMMA CreateGameType ==
    ASSUME BootType, LimitType, HandlerType, NEW c \in Call, CreateGame(c)
    PROVE  (LimitType /\ HandlerType)'
<1>1. ASSUME NEW o \in Orch, Serving(o), Incr(c, <<o, starts[o]>>)
      PROVE  (LimitType /\ HandlerType)'
  <2>1. starts[o] \in 1 .. MaxStarts
    BY <1>1 DEF Serving, Running, BootType, Process
  <2> QED
    BY <1>1, <2>1, IncrType
<1>2. ASSUME NEW limit, Renew(c, limit)
      PROVE  (LimitType /\ HandlerType)'
  BY <1>2, RenewType
<1>3. CASE Number(c) \/ Drop(c)
  <2>1. /\ step' \in {[step EXCEPT ![c] = s] : s \in {"store", "invalid", "failed"}}
        /\ step[c] # "idle"
        /\ UNCHANGED <<handler, cntr, counter, ttl, age, slipped, quiet, rested, loose>>
    BY <1>3 DEF Number, Drop, Advance
  <2> QED
    BY <2>1 DEF LimitType, HandlerType
<1> QED
  BY <1>1, <1>2, <1>3 DEF CreateGame

LEMMA TickType ==
    ASSUME LimitType, HandlerType, Tick
    PROVE  (LimitType /\ HandlerType)'
<1> USE DEF LimitType, HandlerType, Tick
<1>1. age' \in [Call -> 0 .. Day] /\ quiet' \in 0 .. Day
  BY DayAssumption
<1>2. /\ ttl' \in -1 .. Day /\ ttl' # 0
      /\ counter' \in Nat /\ (counter' = 0 => ttl' = -1)
  BY DayAssumption
<1>3. slipped' \subseteq Call
  OBVIOUS
<1> QED
  BY <1>1, <1>2, <1>3

-----------------------------------------------------------------------------
(* Type correctness: the clients.                                           *)

LEMMA InitUserType == Init => UserType
BY DEF Init, UserType

LEMMA IssuedUnchanged ==
    UNCHANGED plan => \A u \in Client : Issued(u)' = Issued(u)
BY DEF Issued, Conf

LEMMA UserTypeUnchanged == UserType /\ UNCHANGED <<plan, userVars>> => UserType'
BY IssuedUnchanged DEF UserType, userVars

LEMMA UserTypeStep ==
    ASSUME BootType, UserType, NEW u \in Client, User(u)
    PROVE  UserType'
<1> USE DEF UserType, Move
<1>0. \A x \in Client : Issued(x)' = Issued(x)
  BY IssuedUnchanged DEF User, bootVars
<1>1. CASE Join(u)
  <2>1. PICK o \in Orch :
           /\ Serving(o)
           /\ key' = [key EXCEPT ![u] = EncryptUserKey(u, Conf(o).secret)]
           /\ exposed' = IF creds[o] = Nil THEN exposed \cup {<<"client", o>>} ELSE exposed
    BY <1>1 DEF Join
  <2>2. EncryptUserKey(u, Conf(o).secret) \in Issued(u)
    BY <2>1 DEF Issued, Serving, Running, BootType, Process
  <2>3. /\ key' \in [Client -> {Nil} \cup UNION {Issued(x) : x \in Client}]
        /\ \A x \in Client : at'[x] # "out" => key'[x] \in Issued(x)
    BY <1>1, <2>1, <2>2 DEF Join
  <2> QED
    BY <1>0, <1>1, <2>1, <2>3 DEF Join
<1>2. CASE Find(u)
  <2>1. PICK o \in Orch, id \in addr :
           /\ Serving(o)
           /\ via' = [via EXCEPT ![u] = <<o, starts[o]>>]
           /\ to' = [to EXCEPT ![u] = id]
           /\ exposed' = IF creds[o] = Nil THEN exposed \cup {<<"client", o>>} ELSE exposed
    BY <1>2 DEF Find
  <2>2. starts[o] \in 1 .. MaxStarts /\ id \in Server \X (1 .. MaxStarts)
    BY <2>1 DEF Serving, Running, BootType, Process
  <2>3. via' = [via EXCEPT ![u] = <<o, starts[o]>>] /\ to' = [to EXCEPT ![u] = id]
    BY <2>1
  <2> QED
    BY <1>0, <1>2, <2>1, <2>2 DEF Find
<1>3. CASE Dial(u)
  <2>1. PICK s \in {"unimplemented", "notfound", "playing", "refused", "unavailable"} : Move(u, s)
    BY <1>3 DEF Dial, Answer
  <2>2. via[u] \in Orch \X (1 .. MaxStarts)
    BY <1>3 DEF Dial
  <2>3. exposed' \subseteq ({"client"} \X Orch) \cup (Orch \X Process)
    <3>1. \A q \in Peers(u) : q \in Process
      BY DEF Peers, At, BootType
    <3>2. via[u][1] \in Orch
      BY <2>2
    <3> QED
      BY <1>3, <3>1, <3>2 DEF Dial
  <2> QED
    BY <1>0, <1>3, <2>1, <2>3 DEF Dial
<1>4. CASE ExitGame(u)
  BY <1>0, <1>4 DEF ExitGame, Exited
<1>5. CASE Lose(u)
  BY <1>0, <1>5 DEF Lose
<1> QED
  BY <1>1, <1>2, <1>3, <1>4, <1>5 DEF User

LEMMA TypeStep ==
    ASSUME TypeOK, [Next]_vars
    PROVE  TypeOK'
<1> USE DEF TypeOK
<1>1. CASE BootNext /\ UNCHANGED <<limitVars, userVars>>
  <2>1. UNCHANGED plan
    BY <1>1 DEF BootNext, ServerMain, OrchMain, Begin, StartClient, Connect, Secure, Listen,
                Serve, Publish, Kill, AddrExpires
  <2> QED
    BY <1>1, <2>1, BootTypeStep, LimitTypeUnchanged, UserTypeUnchanged
<1>2. ASSUME NEW u \in Client, User(u)
      PROVE  TypeOK'
  BY <1>2, UserTypeStep, BootTypeUnchanged, LimitTypeUnchanged DEF User
<1>3. ASSUME NEW c \in Call, CreateGame(c)
      PROVE  TypeOK'
  BY <1>3, CreateGameType, BootTypeUnchanged, UserTypeUnchanged DEF CreateGame, bootVars
<1>4. CASE Tick /\ UNCHANGED <<bootVars, userVars>>
  BY <1>4, TickType, BootTypeUnchanged, UserTypeUnchanged DEF bootVars
<1>5. CASE UNCHANGED vars
  BY <1>5, BootTypeUnchanged, LimitTypeUnchanged, UserTypeUnchanged DEF vars, bootVars
<1> QED
  BY <1>1, <1>2, <1>3, <1>4, <1>5 DEF Next

\* Every variable keeps its type, whoever is started, killed or called: a
\* process runs with settings it could load, and its credentials are usable.
THEOREM DeploymentTypeCorrect == Spec => []TypeOK
<1>1. Init => TypeOK
  BY InitBootType, InitLimitType, InitUserType DEF TypeOK
<1> QED
  BY <1>1, TypeStep, PTL DEF Spec

-----------------------------------------------------------------------------
(* The settings: what a process loads is what its operator wants.           *)

\* A setting is taken from the first layer that gives it.
LEMMA LoadTakes ==
    ASSUME NEW env, NEW file, NEW defaults, NEW fields, NEW numbers, NEW k \in fields,
           Load(env, file, defaults, fields, numbers) # Failed
    PROVE  LET c == Load(env, file, defaults, fields, numbers)
           IN /\ c[k] = IF k \in DOMAIN env /\ env[k] # Empty THEN env[k]
                        ELSE IF file \notin {Missing, Malformed} /\ k \in DOMAIN file
                        THEN file[k]
                        ELSE IF k \in DOMAIN defaults THEN defaults[k]
                        ELSE IF k \in numbers THEN 0 ELSE Empty
              /\ k \in numbers => c[k] # Garbled \/ c[k] = 0
<1> DEFINE given == IF file = Missing THEN [j \in {} |-> Empty] ELSE file
           own == Restrict(env, {j \in DOMAIN env : env[j] # Empty})
           values == Merge(env, given, defaults)
           first == IF k \in DOMAIN own THEN own[k]
                    ELSE IF k \in DOMAIN given THEN given[k] ELSE defaults[k]
<1>1. /\ file # Malformed
      /\ Decode(values, fields, numbers) # Failed
      /\ Load(env, file, defaults, fields, numbers) = Decode(values, fields, numbers)
  BY DEF Load
<1>2. /\ DOMAIN values = DOMAIN own \cup DOMAIN given \cup DOMAIN defaults
      /\ k \in DOMAIN values => values[k] = first
  BY DEF Merge, Over
<1>3. /\ DOMAIN own = {j \in DOMAIN env : env[j] # Empty}
      /\ k \in DOMAIN own => own[k] = env[k]
  BY DEF Restrict
<1>4. /\ file = Missing => DOMAIN given = {}
      /\ file # Missing => given = file
  OBVIOUS
<1> HIDE DEF values, own, given
<1>5. /\ Decode(values, fields, numbers)[k] =
             IF k \in DOMAIN values THEN values[k] ELSE IF k \in numbers THEN 0 ELSE Empty
      /\ k \in numbers \cap DOMAIN values => values[k] # Garbled
  BY <1>1 DEF Decode
<1> QED
  BY <1>1, <1>2, <1>3, <1>4, <1>5

LEMMA WantedIs ==
    ASSUME NEW p, NEW k
    PROVE  LET s == Setup[plan][p]
           IN Wanted(p, k) = IF k \in DOMAIN s.env /\ s.env[k] # Empty THEN s.env[k]
                             ELSE IF s.file \notin {Missing, Malformed} /\ k \in DOMAIN s.file
                             THEN s.file[k] ELSE Empty
<1> DEFINE s == Setup[plan][p]
           values == {s.env[j] : j \in {k} \cap DOMAIN s.env} \ {Empty}
           written == IF s.file \in {Missing, Malformed} THEN {}
                      ELSE {s.file[j] : j \in {k} \cap DOMAIN s.file}
<1>1. Wanted(p, k) = CHOOSE v \in IF values # {} THEN values ELSE written \cup {Empty} :
                        v = Empty => values \cup written \subseteq {Empty}
  BY DEF Wanted
<1>2. IF k \in DOMAIN s.env /\ s.env[k] # Empty THEN values = {s.env[k]} ELSE values = {}
  OBVIOUS
<1>3. IF s.file \notin {Missing, Malformed} /\ k \in DOMAIN s.file
      THEN written = {s.file[k]} ELSE written = {}
  OBVIOUS
<1> HIDE DEF values, written
<1> QED
  BY <1>1, <1>2, <1>3

\* The parts of the TLS settings and the secret have no default of their own.
LEMMA LoadedIsWanted ==
    ASSUME plan \in DOMAIN Setup, NEW p \in DOMAIN Setup[plan], Conf(p) # Failed,
           NEW k \in Parts \cup {"secret"} \cup
                     (IF p \in Orch THEN {"gameserver_base64_ssl_ca"} ELSE {})
    PROVE  Conf(p)[k] = Wanted(p, k)
<1> DEFINE s == Setup[plan][p]
<1>1. p \in Process /\ (p \in Server <=> p \notin Orch)
  BY BootAssumption DEF Process
<1>2. CASE p \in Server
  <2>1. Conf(p) = Load(ServerBound(s.env), s.file, ServerDefaults, ServerFields, ServerNumbers)
    BY <1>2 DEF Conf, Loaded, LoadServerConfig
  <2>2. k \in ServerFields /\ k \notin ServerNumbers
    BY <1>1, <1>2 DEF ServerFields, ServerNumbers, Common, Parts
  <2>3. k \in DOMAIN ServerDefaults => ServerDefaults[k] = Empty
    <3>1. k \in Parts \cup {"secret"}
      BY <1>1, <1>2
    <3>2. k \notin DOMAIN LogDefaults
      BY <3>1 DEF LogDefaults, Parts
    <3>3. k \in DOMAIN NoParts => NoParts[k] = Empty
      BY DEF NoParts
    <3>4. k \in DOMAIN Over(NoParts, LogDefaults) => Over(NoParts, LogDefaults)[k] = Empty
      BY <3>2, <3>3 DEF Over
    <3> DEFINE rest ==
                  [addr |-> Empty, hostnamesuffix |-> Empty, gameovermessages |-> "Game Over",
                   maxchannelsize |-> 15, requestsperworker |-> 10, responseintervalms |-> 15,
                   syncintervalms |-> 1000, downtimethresholdms |-> 5000]
    <3>5. ServerDefaults = Over(Over(NoParts, LogDefaults), rest)
      BY DEF ServerDefaults
    <3>6. k \notin DOMAIN rest
      BY <3>1 DEF Parts
    <3> HIDE DEF rest
    <3> QED
      BY <3>4, <3>5, <3>6 DEF Over
  <2>4. /\ k \in DOMAIN ServerBound(s.env) <=> k \in DOMAIN s.env
        /\ k \in DOMAIN s.env => ServerBound(s.env)[k] = s.env[k]
    BY <2>2 DEF ServerBound, Restrict
  <2> QED
    BY <2>1, <2>2, <2>3, <2>4, LoadTakes, WantedIs
<1>3. CASE p \in Orch
  <2>1. Conf(p) = Load(OrchBound(s.env), s.file, OrchDefaults, OrchFields, OrchNumbers)
    BY <1>1, <1>3 DEF Conf, Loaded, LoadOrchConfig
  <2>2. k \in OrchFields /\ k \notin OrchNumbers
    BY <1>3 DEF OrchFields, OrchNumbers, Common, Parts
  <2>3. k \in DOMAIN OrchDefaults => OrchDefaults[k] = Empty
    BY <1>3 DEF OrchDefaults, NoParts, LogDefaults, Over, Parts, DBKeys
  <2>4. /\ k \in DOMAIN OrchBound(s.env) <=> k \in DOMAIN s.env
        /\ k \in DOMAIN s.env => OrchBound(s.env)[k] = s.env[k]
    BY <2>2 DEF OrchBound, Restrict
  <2> QED
    BY <2>1, <2>2, <2>3, <2>4, LoadTakes, WantedIs
<1> QED
  BY <1>1, <1>2, <1>3

\* The limit of games is a number.
LEMMA LimitIsANumber ==
    ASSUME plan \in DOMAIN Setup, NEW o \in Orch \cap DOMAIN Setup[plan], Conf(o) # Failed
    PROVE  Conf(o).dailyusergamelimit \in Int
<1> DEFINE s == Setup[plan][o]
           k == "dailyusergamelimit"
<1>1. Conf(o) = Load(OrchBound(s.env), s.file, OrchDefaults, OrchFields, OrchNumbers)
  BY BootAssumption DEF Conf, Loaded, LoadOrchConfig
<1>2. k \in OrchFields /\ k \in OrchNumbers
  BY DEF OrchFields, OrchNumbers
<1>3. k \in DOMAIN OrchDefaults => OrchDefaults[k] = 999999
  BY DEF OrchDefaults, NoParts, LogDefaults, Over, Parts, DBKeys
<1>4. /\ k \in DOMAIN OrchBound(s.env) <=> k \in DOMAIN s.env
      /\ k \in DOMAIN s.env => OrchBound(s.env)[k] = s.env[k]
  BY <1>2 DEF OrchBound, Restrict
<1>5. /\ k \in DOMAIN s.env => s.env[k] \in Int \cup {Garbled, Empty}
      /\ s.file \notin {Missing, Malformed} /\ k \in DOMAIN s.file =>
            s.file[k] \in Int \cup {Garbled}
  BY <1>2, SetupAssumption
<1>6. Conf(o)[k] \in Int \cup {Garbled} /\ (Conf(o)[k] # Garbled \/ Conf(o)[k] = 0)
  BY <1>1, <1>2, <1>3, <1>4, <1>5, LoadTakes
<1> QED
  BY <1>6

-----------------------------------------------------------------------------
(* What a process has made of its settings stays that until it ends.        *)

\* From "listen" on, main has made its credentials.
Ready(p) == stage[p] \in {"listen", "serve", "serving"}

CredsFollow ==
    \A p \in Process : Ready(p) =>
        /\ creds[p] = GetAuthCredentials(Conf(p))
        /\ p \in Orch => tunnel[p] = GetTLSClientCA(Conf(p))

LevelsFollow ==
    levels = [p \in Process |-> IF Running(p) THEN Conf(p).logoptions ELSE {}]

\* The orchestrator of a stream was ready when it was found, and still is if it
\* still is that process.
ViaReady ==
    \A u \in Client : at[u] = "dial" =>
        /\ via[u][2] <= starts[via[u][1]]
        /\ Beats(via[u]) => Ready(via[u][1])

FollowInv == CredsFollow /\ LevelsFollow /\ ViaReady

LEMMA FollowInit == Init => FollowInv
BY DEF Init, BootInit, FollowInv, CredsFollow, LevelsFollow, ViaReady, Ready, Running

\* A step that leaves the process as it is, or ends it.
LEMMA FollowEnd ==
    ASSUME TypeOK, CredsFollow, LevelsFollow, NEW p \in Process, NEW how, NEW what,
           End(p, how, what), UNCHANGED plan
    PROVE  (CredsFollow /\ LevelsFollow)'
<1>1. \A x \in Process \ {p} : stage'[x] = stage[x] /\ creds'[x] = creds[x]
                              /\ levels'[x] = levels[x]
                              /\ (x \in Orch => tunnel'[x] = tunnel[x])
  BY DEF End, TypeOK, BootType
<1>2. stage'[p] = "off"
  BY DEF End, TypeOK, BootType
<1>3. \A x \in Process : Conf(x)' = Conf(x)
  BY DEF Conf
<1>4. levels' = [x \in Process |-> IF Running(x)' THEN Conf(x)'.logoptions ELSE {}]
  <2>1. levels' = [x \in Process |-> IF x = p THEN {} ELSE levels[x]]
    BY DEF End, LevelsFollow
  <2>2. \A x \in Process \ {p} : Running(x)' <=> Running(x)
    BY <1>1 DEF Running
  <2> QED
    BY <1>2, <1>3, <2>1, <2>2 DEF LevelsFollow, Running
<1> QED
  BY <1>1, <1>2, <1>3, <1>4 DEF CredsFollow, LevelsFollow, Ready

LEMMA FollowBoot ==
    ASSUME TypeOK, CredsFollow, LevelsFollow, BootNext
    PROVE  (CredsFollow /\ LevelsFollow)'
<1> USE DEF TypeOK, BootType
<1>1. ASSUME NEW p \in Process, Begin(p)
      PROVE  (CredsFollow /\ LevelsFollow)'
  <2>1. CASE End(p, "exit", {"stdout"})
    BY <1>1, <2>1, FollowEnd DEF Begin
  <2>2. CASE InitLogger(p, Conf(p)) /\ Goto(p, "db") /\ UNCHANGED <<creds, tunnel>>
    <3>1. levels'[p] = Conf(p).logoptions /\ stage'[p] = "db"
      BY <2>2 DEF InitLogger, Goto, LevelsFollow
    <3>2. /\ \A x \in Process \ {p} : stage'[x] = stage[x] /\ levels'[x] = levels[x]
          /\ levels' = [x \in Process |-> levels'[x]]
      BY <2>2 DEF InitLogger, Goto, LevelsFollow
    <3>3. \A x \in Process : Conf(x)' = Conf(x)
      BY <1>1 DEF Begin, Conf
    <3>4. CredsFollow'
      BY <2>2, <3>1, <3>2, <3>3 DEF CredsFollow, Ready
    <3>5. LevelsFollow'
      BY <3>1, <3>2, <3>3 DEF LevelsFollow, Running
    <3> QED
      BY <3>4, <3>5
  <2> QED
    BY <1>1, <2>1, <2>2 DEF Begin
<1>2. ASSUME NEW p \in Process, StartClient(p)
      PROVE  (CredsFollow /\ LevelsFollow)'
  <2>1. CASE Exit(p)
    BY <1>2, <2>1, FollowEnd DEF StartClient, Connect, Exit
  <2>2. CASE stage[p] = "db" /\ Goto(p, "tls") /\ UNCHANGED <<plan, levels, creds, tunnel>>
    BY <2>2 DEF Goto, CredsFollow, LevelsFollow, Ready, Running, Conf
  <2> QED
    BY <1>2, <2>1, <2>2 DEF StartClient, Connect
<1>3. ASSUME NEW p \in Process, Secure(p)
      PROVE  (CredsFollow /\ LevelsFollow)'
  <2> DEFINE own == GetAuthCredentials(Conf(p))
             gs == IF p \in Orch THEN GetTLSClientCA(Conf(p)) ELSE Nil
  <2>1. CASE Exit(p)
    BY <1>3, <2>1, FollowEnd DEF Secure, Exit
  <2>2. CASE /\ stage[p] = "tls" /\ Goto(p, "listen")
             /\ creds' = [creds EXCEPT ![p] = own]
             /\ tunnel' = [o \in Orch |-> IF o = p THEN gs ELSE tunnel[o]]
             /\ UNCHANGED <<plan, levels>>
    <3>1. /\ creds'[p] = own
          /\ p \in Orch => tunnel'[p] = GetTLSClientCA(Conf(p))
      BY <2>2
    <3>2. \A x \in Process \ {p} : stage'[x] = stage[x] /\ creds'[x] = creds[x]
                                  /\ (x \in Orch => tunnel'[x] = tunnel[x])
      BY <2>2 DEF Goto
    <3>3. \A x \in Process : Conf(x)' = Conf(x) /\ (Running(x)' <=> Running(x))
      BY <2>2 DEF Conf, Goto, Running
    <3> HIDE DEF gs
    <3>4. LevelsFollow'
      BY <2>2, <3>3 DEF LevelsFollow
    <3>5. ASSUME NEW x \in Process, Ready(x)'
          PROVE  /\ creds'[x] = GetAuthCredentials(Conf(x))
                 /\ x \in Orch => tunnel'[x] = GetTLSClientCA(Conf(x))
      <4>1. CASE x = p
        BY <3>1, <4>1
      <4>2. CASE x # p
        BY <3>2, <3>5, <4>2 DEF CredsFollow, Ready
      <4> QED
        BY <4>1, <4>2
    <3> QED
      BY <3>3, <3>4, <3>5 DEF CredsFollow
  <2> QED
    BY <1>3, <2>1, <2>2 DEF Secure
<1>4. ASSUME NEW p \in Process, Listen(p) \/ Serve(p)
      PROVE  (CredsFollow /\ LevelsFollow)'
  <2>1. ASSUME NEW how, NEW what, End(p, how, what)
        PROVE  (CredsFollow /\ LevelsFollow)'
    BY <1>4, <2>1, FollowEnd DEF Listen, Serve
  <2>2. ASSUME NEW t, Ready(p), Goto(p, t), t \in {"serve", "serving"},
               UNCHANGED <<plan, levels, creds, tunnel>>
        PROVE  (CredsFollow /\ LevelsFollow)'
    BY <2>2 DEF Goto, CredsFollow, LevelsFollow, Ready, Running, Conf
  <2> QED
    BY <1>4, <2>1, <2>2 DEF Listen, Serve, Exit, Ready
<1>5. CASE UNCHANGED <<plan, stage, levels, creds, tunnel>>
  BY <1>5 DEF CredsFollow, LevelsFollow, Ready, Running, Conf
<1>6. ASSUME NEW s \in Server, Publish(s)
      PROVE  (CredsFollow /\ LevelsFollow)'
  BY <1>5, <1>6 DEF Publish
<1>7. ASSUME NEW p \in Process, Kill(p)
      PROVE  (CredsFollow /\ LevelsFollow)'
  BY <1>7, FollowEnd DEF Kill
<1>8. CASE AddrExpires
  BY <1>5, <1>8 DEF AddrExpires
<1> QED
  BY <1>1, <1>2, <1>3, <1>4, <1>6, <1>7, <1>8 DEF BootNext, ServerMain, OrchMain, Process

\* A process that runs was ready unless it started since; ids are not reused.
LEMMA ReadyStays ==
    ASSUME TypeOK, BootNext, NEW p \in Process
    PROVE  /\ starts'[p] >= starts[p]
           /\ starts'[p] = starts[p] /\ Running(p)' /\ Ready(p) => Ready(p)'
           /\ starts'[p] = starts[p] /\ Running(p)' => Running(p)
<1> USE DEF TypeOK, BootType, Ready, Running, Goto
<1>1. ASSUME NEW x \in Process, Begin(x)
      PROVE  /\ starts'[x] = starts[x] + 1
             /\ x # p => starts'[p] = starts[p] /\ stage'[p] = stage[p]
  BY <1>1 DEF Begin, End
<1>2. ASSUME NEW x \in Process, StartClient(x) \/ Secure(x) \/ Listen(x) \/ Serve(x) \/ Kill(x)
      PROVE  /\ starts' = starts /\ (x # p => stage'[p] = stage[p])
             /\ stage'[x] # "off" => stage[x] # "off"
             /\ stage'[x] # "off" /\ Ready(x) => Ready(x)'
  BY <1>2 DEF StartClient, Connect, Secure, Listen, Serve, Kill, Exit, End
<1>3. ASSUME NEW s \in Server, Publish(s) \/ AddrExpires
      PROVE  starts' = starts /\ stage' = stage
  BY <1>3 DEF Publish, AddrExpires
<1>4. CASE AddrExpires
  BY <1>4 DEF AddrExpires
<1> QED
  BY <1>1, <1>2, <1>3, <1>4 DEF BootNext, ServerMain, OrchMain, Process

LEMMA ViaReadyBoot ==
    ASSUME TypeOK, ViaReady, BootNext, UNCHANGED userVars
    PROVE  ViaReady'
<1> SUFFICES ASSUME NEW u \in Client, at[u] = "dial"
             PROVE  /\ via[u][2] <= starts'[via[u][1]]
                    /\ Beats(via[u])' => Ready(via[u][1])'
  BY DEF ViaReady, userVars, Beats
<1>1. PICK p \in Process, n \in 1 .. MaxStarts : via[u] = <<p, n>>
  BY DEF TypeOK, UserType, Process
<1>2. n <= starts[p] /\ (Beats(via[u]) => Ready(p))
  BY <1>1 DEF ViaReady
<1>3. starts[p] \in Nat /\ starts'[p] \in Nat
  BY <1>1, BootTypeStep DEF TypeOK, BootType
<1>4. starts'[p] >= starts[p]
      /\ (starts'[p] = starts[p] /\ Running(p)' => Running(p) /\ (Ready(p) => Ready(p)'))
  BY <1>1, ReadyStays
<1>5. Beats(via[u])' <=> Running(p)' /\ starts'[p] = n
  BY <1>1 DEF Beats, userVars
<1>6. Beats(via[u]) <=> Running(p) /\ starts[p] = n
  BY <1>1 DEF Beats
<1>7. n <= starts'[p] /\ (Beats(via[u])' => Ready(p)')
  BY <1>1, <1>2, <1>3, <1>4, <1>5, <1>6, BootAssumption
<1>8. Ready(via[u][1])' <=> Ready(p)'
  BY <1>1 DEF Ready, userVars
<1> QED
  BY <1>1, <1>7, <1>8

LEMMA FollowUnchanged == UNCHANGED bootVars /\ CredsFollow /\ LevelsFollow =>
                             (CredsFollow /\ LevelsFollow)'
BY DEF bootVars, CredsFollow, LevelsFollow, Ready, Running, Conf

LEMMA ViaReadyUser ==
    ASSUME TypeOK, ViaReady, NEW u \in Client, User(u)
    PROVE  ViaReady'
<1> USE DEF TypeOK, UserType, Move
<1>1. \A x : (Beats(x)' <=> Beats(x)) /\ (Ready(x)' <=> Ready(x)) /\ starts' = starts
  BY DEF User, bootVars, Beats, Ready, Running
<1>2. CASE Find(u)
  <2>1. PICK o \in Orch : Serving(o) /\ via' = [via EXCEPT ![u] = <<o, starts[o]>>]
    BY <1>2 DEF Find
  <2>2. via'[u][1] = o /\ via'[u][2] = starts[o] /\ Ready(o) /\ starts[o] \in Nat
    BY <2>1 DEF Serving, Ready, Process, BootType
  <2>3. \A x \in Client \ {u} : at'[x] = at[x] /\ via'[x] = via[x]
    BY <1>2, <2>1 DEF Find
  <2> QED
    BY <1>1, <2>2, <2>3 DEF ViaReady, Beats
<1>3. CASE ~Find(u)
  <2>1. via' = via /\ \A x \in Client : at'[x] = "dial" => at[x] = "dial"
    BY <1>3 DEF User, Join, Dial, Answer, ExitGame, Exited, Lose
  <2> QED
    BY <1>1, <2>1 DEF ViaReady, Beats
<1> QED
  BY <1>2, <1>3

LEMMA FollowStep ==
    ASSUME TypeOK, FollowInv, [Next]_vars
    PROVE  FollowInv'
<1> USE DEF FollowInv
<1>1. CASE BootNext /\ UNCHANGED <<limitVars, userVars>>
  BY <1>1, FollowBoot, ViaReadyBoot
<1>2. ASSUME NEW u \in Client, User(u)
      PROVE  FollowInv'
  BY <1>2, FollowUnchanged, ViaReadyUser DEF User
<1>3. CASE UNCHANGED <<bootVars, userVars>>
  <2>1. ViaReady'
    BY <1>3 DEF ViaReady, Beats, Ready, Running, bootVars, userVars
  <2> QED
    BY <1>3, <2>1, FollowUnchanged
<1> QED
  BY <1>1, <1>2, <1>3 DEF Next, vars, CreateGame

\* What a process has made of its settings is what they say, to its end.
THEOREM SettingsStay == Spec => []FollowInv
BY FollowInit, FollowStep, DeploymentTypeCorrect, PTL DEF Spec

-----------------------------------------------------------------------------
(* Who sees a user key.                                                     *)

\* Without credentials a process has a part of its TLS settings empty.
LEMMA NoCredentials ==
    ASSUME plan \in DOMAIN Setup, NEW p \in DOMAIN Setup[plan], Conf(p) # Failed,
           GetAuthCredentials(Conf(p)) = Nil
    PROVE  NoTLS(p)
<1>1. \E k \in Parts : Conf(p)[k] = Empty
  BY MaterialAssumption DEF GetAuthCredentials, Credentials, Parts
<1> QED
  BY <1>1, LoadedIsWanted DEF NoTLS

LEMMA NoTunnel ==
    ASSUME plan \in DOMAIN Setup, NEW o \in Orch \cap DOMAIN Setup[plan], Conf(o) # Failed,
           GetTLSClientCA(Conf(o)) = Nil
    PROVE  Wanted(o, "gameserver_base64_ssl_ca") = Empty
<1>1. Conf(o)["gameserver_base64_ssl_ca"] = Empty
  BY MaterialAssumption DEF GetTLSClientCA
<1> QED
  BY <1>1, LoadedIsWanted

LEMMA WantedStays ==
    UNCHANGED plan => \A p : (NoTLS(p)' <=> NoTLS(p)) /\ \A k : Wanted(p, k)' = Wanted(p, k)
BY DEF NoTLS, Wanted

LEMMA PlainUnchanged == PlainOnlyIfEmpty /\ UNCHANGED <<plan, exposed>> => PlainOnlyIfEmpty'
BY WantedStays DEF PlainOnlyIfEmpty

LEMMA PlainStep ==
    ASSUME TypeOK, FollowInv, PlainOnlyIfEmpty, NEW u \in Client, User(u)
    PROVE  PlainOnlyIfEmpty'
<1> USE DEF TypeOK, BootType, FollowInv
<1>1. UNCHANGED plan
  BY DEF User, bootVars
<1>2. \A p : (NoTLS(p)' <=> NoTLS(p)) /\ \A k : Wanted(p, k)' = Wanted(p, k)
  BY <1>1, WantedStays
<1>3. ASSUME NEW p \in Process, Serving(p), creds[p] = Nil
      PROVE  NoTLS(p)
  BY <1>3, NoCredentials DEF Serving, Running, CredsFollow, Ready
<1>4. ASSUME NEW o \in Orch, Serving(o),
             exposed' = IF creds[o] = Nil THEN exposed \cup {<<"client", o>>} ELSE exposed
      PROVE  PlainOnlyIfEmpty'
  BY <1>2, <1>3, <1>4 DEF PlainOnlyIfEmpty, Process
<1>5. CASE Join(u) \/ Find(u) \/ ExitGame(u)
  BY <1>4, <1>5 DEF Join, Find, ExitGame
<1>6. CASE Dial(u)
  <2> DEFINE o == via[u][1]
  <2>1. at[u] = "dial" /\ Beats(via[u]) /\ o \in Orch
    BY <1>6 DEF Dial, UserType
  <2>2. Running(o) /\ Ready(o) /\ o \in DOMAIN Setup[plan] /\ Conf(o) # Failed
    BY <2>1 DEF ViaReady, Beats, Process
  <2>3. tunnel[o] = Nil => Wanted(o, "gameserver_base64_ssl_ca") = Empty
    BY <2>1, <2>2, NoTunnel DEF CredsFollow, Process
  <2>4. ASSUME tunnel[o] = Nil, NEW q \in Peers(u), creds[q] = Nil
        PROVE  NoTLS(q)
    BY <2>4, <1>3 DEF Peers, At
  <2>5. \/ exposed' = exposed
        \/ /\ tunnel[o] = Nil
           /\ \E q \in Peers(u) : creds[q] = Nil /\ exposed' = exposed \cup {<<o, q>>}
    BY <1>6 DEF Dial
  <2> HIDE DEF o
  <2> QED
    BY <1>2, <2>3, <2>4, <2>5 DEF PlainOnlyIfEmpty
<1>7. CASE Lose(u)
  BY <1>1, <1>7, PlainUnchanged DEF Lose
<1> QED
  BY <1>5, <1>6, <1>7 DEF User

LEMMA PlanStays == [Next]_vars => UNCHANGED plan
<1>1. BootNext => UNCHANGED plan
  BY DEF BootNext, ServerMain, OrchMain, Begin, StartClient, Connect, Secure, Listen, Serve,
         Publish, Kill, AddrExpires
<1> QED
  BY <1>1 DEF Next, User, CreateGame, bootVars, vars

\* A user key crosses a hop in plain text only where an operator left a part of
\* the TLS settings empty, on the tunnel at both ends: whatever the settings,
\* whoever restarts and whoever answers at an address.
THEOREM PlainText == Spec => []PlainOnlyIfEmpty
<1>1. Init => PlainOnlyIfEmpty
  BY DEF Init, PlainOnlyIfEmpty
<1>2. TypeOK /\ FollowInv /\ PlainOnlyIfEmpty /\ [Next]_vars => PlainOnlyIfEmpty'
  <2> SUFFICES ASSUME TypeOK, FollowInv, PlainOnlyIfEmpty, [Next]_vars
               PROVE  PlainOnlyIfEmpty'
    OBVIOUS
  <2>1. CASE \E u \in Client : User(u)
    BY <2>1, PlainStep
  <2>2. CASE UNCHANGED exposed
    BY <2>2, PlanStays, PlainUnchanged
  <2> QED
    BY <2>1, <2>2 DEF Next, userVars, vars, CreateGame
<1> QED
  BY <1>1, <1>2, DeploymentTypeCorrect, SettingsStay, PTL DEF Spec

-----------------------------------------------------------------------------
(* When a user key is refused.                                              *)

\* Two processes of the deployment are to have different secrets.
SecretsDiffer ==
    \E o \in Orch \cap DOMAIN Setup[plan], p \in DOMAIN Setup[plan] :
        Wanted(o, "secret") # Wanted(p, "secret")

\* A key that does not open was made with another secret.
LEMMA RefusedFor ==
    ASSUME TypeOK, NEW u \in Client, at[u] # "out", NEW p \in Process, Running(p),
           DecryptUserKey(key[u], Conf(p).secret) # u
    PROVE  SecretsDiffer
<1> USE DEF TypeOK
<1>1. PICK o \in Orch \cap DOMAIN Setup[plan] :
         Conf(o) # Failed /\ key[u] = EncryptUserKey(u, Conf(o).secret)
  BY DEF UserType, Issued
<1>2. Conf(o).secret # Conf(p).secret
  BY <1>1 DEF EncryptUserKey, DecryptUserKey
<1>3. p \in DOMAIN Setup[plan] /\ Conf(p) # Failed /\ plan \in DOMAIN Setup
  BY DEF BootType
<1>4. Conf(p)["secret"] = Wanted(p, "secret") /\ Conf(o)["secret"] = Wanted(o, "secret")
  BY <1>1, <1>3, LoadedIsWanted
<1> QED
  BY <1>1, <1>2, <1>3, <1>4 DEF SecretsDiffer

LEMMA RefusedStep ==
    ASSUME TypeOK, NEW u \in Client, User(u), NEW x \in Client, at'[x] = "refused"
    PROVE  at[x] = "refused" \/ SecretsDiffer
<1> USE DEF TypeOK, UserType, Move
<1>1. CASE Dial(u)
  <2>1. ASSUME NEW q \in Peers(u), Answer(u, q) = "refused"
        PROVE  SecretsDiffer
    <3>1. q \in Process /\ Running(q) /\ DecryptUserKey(key[u], Conf(q).secret) # u
      BY <2>1 DEF Answer, Peers, At, Serving, Running, BootType
    <3> QED
      BY <1>1, <3>1, RefusedFor DEF Dial
  <2> QED
    BY <1>1, <2>1 DEF Dial
<1>2. CASE ExitGame(u)
  <2>1. ASSUME NEW o \in Orch, Serving(o), Exited(u, o) = "refused"
        PROVE  SecretsDiffer
    BY <1>2, <2>1, RefusedFor DEF Exited, ExitGame, Serving, Running, Process
  <2> QED
    BY <1>2, <2>1 DEF ExitGame
<1>3. CASE Join(u) \/ Find(u) \/ Lose(u)
  BY <1>3 DEF Join, Find, Lose
<1> QED
  BY <1>1, <1>2, <1>3 DEF User

\* With the same secret everywhere, from whichever layer, no user key is ever
\* refused, by a server or by another orchestrator.
THEOREM SecretFits == Spec => []SharedSecretFits
<1>1. Init => SharedSecretFits
  BY DEF Init, SharedSecretFits
<1>2. TypeOK /\ SharedSecretFits /\ [Next]_vars => SharedSecretFits'
  <2> SUFFICES ASSUME TypeOK, SharedSecretFits, [Next]_vars,
                      NEW x \in Client, at'[x] = "refused"
               PROVE  SecretsDiffer'
    BY DEF SharedSecretFits, SecretsDiffer
  <2>1. at[x] = "refused" \/ SecretsDiffer
    <3>1. CASE \E u \in Client : User(u)
      BY <3>1, RefusedStep
    <3>2. CASE UNCHANGED at
      BY <3>2
    <3> QED
      BY <3>1, <3>2 DEF Next, userVars, vars, CreateGame
  <2>2. SecretsDiffer
    BY <2>1 DEF SharedSecretFits, SecretsDiffer
  <2> QED
    BY <2>2, PlanStays, WantedStays DEF SecretsDiffer
<1> QED
  BY <1>1, <1>2, DeploymentTypeCorrect, PTL DEF Spec

-----------------------------------------------------------------------------
(* What a process tells before it ends.                                     *)

\* The process p has told why it ended, or was told not to.
Tells(p) ==
    ended[p] \in {"exit", "panic"} =>
        \/ told[p] \cap {"stdout", "error", "trace"} # {}
        \/ Conf(p) # Failed /\ "ERROR" \notin Conf(p).logoptions

LEMMA TellsStep ==
    ASSUME TypeOK, LevelsFollow, BootNext, NEW p \in DOMAIN Setup[plan], Tells(p)
    PROVE  Tells(p)'
<1> USE DEF TypeOK
<1>0. p \in Process /\ Conf(p)' = Conf(p)
  BY PlanStays, BootAssumption DEF BootType, Conf, BootNext, ServerMain, OrchMain, Begin,
     StartClient, Connect, Secure, Listen, Serve, Publish, Kill, AddrExpires
<1>1. ASSUME NEW x \in Process, Running(x), Exit(x)
      PROVE  Tells(p)'
  <2>1. CASE x = p
    <3>1. WriteErrLogger(p) = {"error"} \/ (Conf(p) # Failed /\ "ERROR" \notin Conf(p).logoptions)
      BY <1>1, <2>1 DEF WriteErrLogger, LevelsFollow, BootType
    <3>2. told'[p] = told[p] \cup WriteErrLogger(p)
      BY <1>1, <2>1 DEF Exit, End, BootType
    <3> QED
      BY <1>0, <3>1, <3>2 DEF Tells
  <2>2. CASE x # p
    BY <1>0, <1>1, <2>2 DEF Exit, End, Tells, BootType
  <2> QED
    BY <2>1, <2>2
<1>2. ASSUME ended'[p] = ended[p], told[p] \subseteq told'[p]
      PROVE  Tells(p)'
  BY <1>0, <1>2 DEF Tells
<1>3. ASSUME NEW x \in Process, Begin(x)
      PROVE  Tells(p)'
  BY <1>0, <1>3 DEF Begin, End, Tells, BootType
<1>4. ASSUME NEW x \in Process, StartClient(x) \/ Secure(x) \/ Listen(x)
      PROVE  Tells(p)'
  <2>1. Running(x)
    BY <1>4 DEF StartClient, Connect, Secure, Listen, Running
  <2>2. CASE Exit(x)
    BY <1>1, <2>1, <2>2
  <2>3. CASE ~Exit(x)
    <3>1. ended' = ended /\ told[p] \subseteq told'[p]
      <4>1. ASSUME told' = told \/ \E t : told' = [told EXCEPT ![x] = told[x] \cup t]
            PROVE  told[p] \subseteq told'[p]
        BY <1>0, <4>1 DEF BootType
      <4>2. CASE StartClient(x)
        BY <2>3, <4>2 DEF StartClient, Connect
      <4>3. CASE Secure(x)
        BY <2>3, <4>1, <4>3 DEF Secure
      <4>4. CASE Listen(x)
        BY <2>3, <4>1, <4>4 DEF Listen
      <4> QED
        BY <1>4, <4>2, <4>3, <4>4
    <3> QED
      BY <1>2, <3>1
  <2> QED
    BY <2>2, <2>3
<1>5. ASSUME NEW x \in Process, Serve(x) \/ Kill(x)
      PROVE  Tells(p)'
  BY <1>0, <1>5 DEF Serve, Kill, End, Tells, BootType
<1>6. CASE UNCHANGED <<ended, told>>
  BY <1>2, <1>6
<1> QED
  BY <1>3, <1>4, <1>5, <1>6 DEF BootNext, ServerMain, OrchMain, Process, Publish, AddrExpires

\* A process that ends by itself says so, unless errors are not to be logged:
\* whatever is wrong with its settings, its log file, its database or its port.
THEOREM Told == Spec => []NothingIsSilent
<1>1. NothingIsSilent <=> \A p \in DOMAIN Setup[plan] : Tells(p)
  BY DEF NothingIsSilent, Tells
<1>2. Init => NothingIsSilent
  BY BootAssumption DEF Init, BootInit, NothingIsSilent
<1>3. TypeOK /\ FollowInv /\ NothingIsSilent /\ [Next]_vars => NothingIsSilent'
  <2> SUFFICES ASSUME TypeOK, FollowInv, NothingIsSilent, [Next]_vars
               PROVE  NothingIsSilent'
    OBVIOUS
  <2>1. CASE BootNext
    <3>1. \A p \in DOMAIN Setup[plan] : Tells(p)'
      BY <1>1, <2>1, TellsStep DEF FollowInv
    <3> QED
      BY <3>1, PlanStays DEF NothingIsSilent, Tells
  <2>2. CASE UNCHANGED bootVars
    BY <2>2 DEF bootVars, NothingIsSilent, Conf
  <2> QED
    BY <2>1, <2>2 DEF Next, vars, User, CreateGame
<1> QED
  BY <1>2, <1>3, DeploymentTypeCorrect, SettingsStay, PTL DEF Spec

-----------------------------------------------------------------------------
(* Counting calls.                                                          *)

Limit(c) == Conf(handler[c][1]).dailyusergamelimit

\* The calls that the key as it is has counted, up to the last that let one pass.
Held == ({c \in Call : step[c] = "renew"} \cup Today) \ slipped

Counted ==
    /\ \A c \in Held : cntr[c] \in 1 .. counter
    /\ \A c, d \in Held : cntr[c] = cntr[d] => c = d

Passed ==
    /\ \A c \in Call : step[c] \in {"idle", "renew"} => age[c] = Day
    /\ \A c \in Call : step[c] = "idle" => c \notin slipped \cup rested
    /\ \A c \in Call : step[c] = "renew" => cntr[c] >= 1
    /\ \A c \in Today : step[c] # "idle" /\ Limit(c) \in Int /\ cntr[c] \in 1 .. Limit(c)
    /\ \A c \in Today \ slipped : ttl + age[c] >= Day

Rested ==
    /\ counter > 0 /\ ~loose => ttl >= 1 /\ ttl + quiet <= Day
    /\ \A c \in rested : step[c] \in {"renew", "refused"} => cntr[c] = 1
    /\ \A c \in Call : step[c] = "refused" => Limit(c) \in Int /\ cntr[c] > Limit(c)

CountInv == Counted /\ Passed /\ Rested

LEMMA CountInit == Init => CountInv
<1> SUFFICES ASSUME Init PROVE CountInv
  OBVIOUS
<1>1. /\ Today = {} /\ Held = {} /\ slipped = {} /\ rested = {} /\ counter = 0
      /\ \A c \in Call : step[c] = "idle" /\ age[c] = Day
  BY DayAssumption DEF Init, LimitInit, Today, Held
<1> QED
  BY <1>1 DEF CountInv, Counted, Passed, Rested

\* The limit of a call does not change while the call keeps its handler.
LEMMA LimitStays ==
    ASSUME UNCHANGED plan, NEW c, handler'[c] = handler[c]
    PROVE  Limit(c)' = Limit(c)
BY DEF Limit, Conf

LEMMA CountIncr ==
    ASSUME TypeOK, CountInv, NEW c \in Call, NEW h, Incr(c, h), UNCHANGED plan
    PROVE  CountInv'
<1> USE DEF TypeOK, LimitType
<1>1. /\ step[c] = "idle" /\ age[c] = Day /\ c \notin Today /\ c \notin Held
      /\ c \notin slipped /\ c \notin rested
  BY DEF Incr, CountInv, Passed, Today, Held
<1>2. /\ Today' = Today
      /\ \A x \in Call \ {c} : step'[x] = step[x] /\ handler'[x] = handler[x] /\ cntr'[x] = cntr[x]
      /\ UNCHANGED <<ttl, age, slipped>> /\ quiet' = 0
      /\ counter' \in {counter, counter + 1}
  BY DEF Incr, Advance, Today, HandlerType
<1>3. \A x \in Call \ {c} : Limit(x)' = Limit(x)
  BY <1>2, LimitStays
<1>4. \/ step'[c] = "renew" /\ counter' = counter + 1 /\ cntr'[c] = counter + 1
         /\ Held' = Held \cup {c}
      \/ step'[c] = "failed" /\ cntr' = cntr /\ Held' = Held
  BY <1>1, <1>2 DEF Incr, Advance, Held
<1>5. Counted'
  BY <1>1, <1>2, <1>4 DEF CountInv, Counted, Held, Today
<1>6. Passed'
  <2>1. \A x \in Call : step'[x] \in {"idle", "renew"} => age'[x] = Day
    BY <1>1, <1>2 DEF CountInv, Passed
  <2>2. \A x \in Call : step'[x] = "idle" => x \notin slipped' \cup rested'
    BY <1>1, <1>2, <1>4 DEF CountInv, Passed, Incr
  <2>3. \A x \in Call : step'[x] = "renew" => cntr'[x] >= 1
    BY <1>2, <1>4 DEF CountInv, Passed
  <2>4. \A x \in Today' : step'[x] # "idle" /\ Limit(x)' \in Int /\ cntr'[x] \in 1 .. Limit(x)'
    BY <1>1, <1>2, <1>3 DEF CountInv, Passed, Today
  <2>5. \A x \in Today' \ slipped' : ttl' + age'[x] >= Day
    BY <1>2 DEF CountInv, Passed
  <2> QED
    BY <2>1, <2>2, <2>3, <2>4, <2>5 DEF Passed
<1>7. Rested'
  <2>1. counter' > 0 /\ ~loose' => ttl' >= 1 /\ ttl' + quiet' <= Day
    <3>0. loose' = (loose \/ counter = 0) \/ (loose' = loose /\ counter' = counter)
      BY DEF Incr
    <3>1. counter' > 0 /\ ~loose' => counter > 0 /\ ~loose
      <4>1. CASE loose' = (loose \/ counter = 0)
        <5>1. ~loose' => ~loose /\ counter # 0
          BY <4>1
        <5> QED
          BY <5>1
      <4> QED
        BY <3>0, <4>1
    <3> QED
      BY <1>2, <3>1, DayAssumption DEF CountInv, Rested
  <2>2. ASSUME quiet = Day, ~loose
        PROVE  counter = 0
    BY <2>2 DEF CountInv, Rested
  <2>3. \A x \in rested' : step'[x] \in {"renew", "refused"} => cntr'[x] = 1
    BY <1>1, <1>2, <1>4, <2>2 DEF Incr, CountInv, Rested
  <2>4. \A x \in Call : step'[x] = "refused" => Limit(x)' \in Int /\ cntr'[x] > Limit(x)'
    BY <1>2, <1>3, <1>4 DEF CountInv, Rested
  <2> QED
    BY <2>1, <2>3, <2>4 DEF Rested
<1> QED
  BY <1>5, <1>6, <1>7 DEF CountInv

LEMMA CountRenew ==
    ASSUME TypeOK, CountInv, NEW c \in Call, Renew(c, Limit(c)), Limit(c) \in Int,
           UNCHANGED plan
    PROVE  CountInv'
<1> USE DEF TypeOK, LimitType
<1>1. /\ step[c] = "renew" /\ cntr[c] >= 1 /\ age[c] = Day
      /\ c \notin slipped => c \in Held
  BY DEF Renew, CountInv, Passed, Held
<1>2. /\ UNCHANGED <<handler, cntr, counter, slipped, rested>> /\ quiet' = 0
      /\ step' \in {[step EXCEPT ![c] = s] : s \in {"refused", "number", "failed"}}
      /\ \A x \in Call \ {c} : step'[x] = step[x] /\ age'[x] = age[x]
      /\ step'[c] \in {"refused", "number", "failed"}
  BY DEF Renew, Advance
<1>3. \A x \in Call : Limit(x)' = Limit(x)
  BY <1>2, LimitStays
<1>4. /\ step'[c] = "number" => age'[c] = 0 /\ ~(cntr[c] > Limit(c))
                                /\ ttl' = (IF counter > 0 THEN Day ELSE ttl)
      /\ step'[c] # "number" => age'[c] = Day
      /\ step'[c] = "refused" => cntr[c] > Limit(c)
      /\ \/ ttl' = (IF counter > 0 THEN Day ELSE ttl) /\ loose' = FALSE
         \/ ttl' = ttl /\ loose' = loose
  BY <1>1 DEF Renew, Advance
<1>5. Today' \subseteq Today \cup {c} /\ (c \in Today' => step'[c] = "number")
  <2>1. \A x \in Call : x # c /\ age'[x] < Day => age[x] < Day
    BY <1>2
  <2>2. ~(Day < Day)
    BY DayAssumption
  <2> QED
    BY <1>2, <1>4, <2>1, <2>2 DEF Today
<1>6. Held' \subseteq Held
  BY <1>1, <1>2, <1>5 DEF Held
<1>7. Counted'
  BY <1>2, <1>6 DEF CountInv, Counted
<1>8. Passed'
  <2>1. \A x \in Call : step'[x] \in {"idle", "renew"} => age'[x] = Day
    BY <1>2 DEF CountInv, Passed
  <2>2. \A x \in Call : /\ step'[x] = "idle" => x \notin slipped' \cup rested'
                        /\ step'[x] = "renew" => cntr'[x] >= 1
    BY <1>2 DEF CountInv, Passed
  <2>3. \A x \in Today' : step'[x] # "idle" /\ Limit(x)' \in Int /\ cntr'[x] \in 1 .. Limit(x)'
    <3>1. \A x \in Today :
             x # c => step'[x] # "idle" /\ Limit(x)' \in Int /\ cntr'[x] \in 1 .. Limit(x)'
      BY <1>2, <1>3 DEF CountInv, Passed, Today
    <3>2. c \in Today' => step'[c] # "idle" /\ Limit(c)' \in Int /\ cntr'[c] \in 1 .. Limit(c)'
      BY <1>1, <1>2, <1>3, <1>4, <1>5
    <3> QED
      BY <1>5, <3>1, <3>2
  <2>4. ASSUME NEW x \in Today' \ slipped'
        PROVE  ttl' + age'[x] >= Day
    <3>1. x \in Held /\ counter >= 1
      BY <1>1, <1>2, <1>5 DEF Held, CountInv, Counted
    <3>2. x \in Call /\ age'[x] \in 0 .. Day
      BY <1>2, <1>4, DayAssumption DEF Today
    <3>3. x # c => ttl + age'[x] >= Day
      <4> SUFFICES ASSUME x # c PROVE ttl + age'[x] >= Day
        OBVIOUS
      <4>1. x \in Today \ slipped /\ age'[x] = age[x]
        BY <1>2, <1>5, <3>2
      <4> QED
        BY <4>1 DEF CountInv, Passed
    <3> QED
      BY <1>4, <1>5, <3>1, <3>2, <3>3, DayAssumption
  <2> QED
    BY <2>1, <2>2, <2>3, <2>4 DEF Passed
<1>9. Rested'
  <2>1. counter' > 0 /\ ~loose' => ttl' >= 1 /\ ttl' + quiet' <= Day
    BY <1>2, <1>4, DayAssumption DEF CountInv, Rested
  <2>2. \A x \in rested' : step'[x] \in {"renew", "refused"} => cntr'[x] = 1
    BY <1>1, <1>2 DEF CountInv, Rested
  <2>3. \A x \in Call : step'[x] = "refused" => Limit(x)' \in Int /\ cntr'[x] > Limit(x)'
    BY <1>2, <1>3, <1>4 DEF CountInv, Rested
  <2> QED
    BY <2>1, <2>2, <2>3 DEF Rested
<1> QED
  BY <1>7, <1>8, <1>9 DEF CountInv

\* Number and Drop end the work on a call that has been counted.
LEMMA CountRest ==
    ASSUME TypeOK, CountInv, NEW c \in Call, Number(c) \/ Drop(c), UNCHANGED plan
    PROVE  CountInv'
<1> USE DEF TypeOK, LimitType
<1>1. /\ UNCHANGED <<handler, cntr, counter, ttl, age, slipped, quiet, rested, loose>>
      /\ \A x \in Call \ {c} : step'[x] = step[x]
      /\ step[c] # "idle" /\ step'[c] \in {"store", "invalid", "failed"}
  BY DEF Number, Drop, Advance
<1>2. \A x \in Call : Limit(x)' = Limit(x)
  BY <1>1, LimitStays
<1>3. Today' = Today /\ Held' \subseteq Held
  BY <1>1 DEF Today, Held
<1>4. Counted'
  BY <1>1, <1>3 DEF CountInv, Counted
<1>5. Passed'
  <2>1. \A x \in Call : /\ step'[x] \in {"idle", "renew"} => age'[x] = Day
                        /\ step'[x] = "idle" => x \notin slipped' \cup rested'
                        /\ step'[x] = "renew" => cntr'[x] >= 1
    BY <1>1 DEF CountInv, Passed
  <2>2. \A x \in Today' : step'[x] # "idle" /\ Limit(x)' \in Int /\ cntr'[x] \in 1 .. Limit(x)'
    BY <1>1, <1>2, <1>3 DEF CountInv, Passed, Today
  <2>3. \A x \in Today' \ slipped' : ttl' + age'[x] >= Day
    BY <1>1, <1>3 DEF CountInv, Passed
  <2> QED
    BY <2>1, <2>2, <2>3 DEF Passed
<1>6. Rested'
  BY <1>1, <1>2 DEF CountInv, Rested
<1> QED
  BY <1>4, <1>5, <1>6 DEF CountInv

\* When the key expires the calls it has counted are a day old, or have slipped.
LEMMA CountTick ==
    ASSUME TypeOK, CountInv, Tick, UNCHANGED plan
    PROVE  CountInv'
<1> USE DEF TypeOK, LimitType
<1>1. /\ UNCHANGED <<step, handler, cntr, rested, loose>>
      /\ slipped \subseteq slipped'
      /\ \A x \in Call : /\ age[x] \in 0 .. Day
                         /\ age'[x] = IF age[x] < Day THEN age[x] + 1 ELSE Day
  BY DEF Tick
<1>2. \A x \in Call : Limit(x)' = Limit(x)
  BY <1>1, LimitStays
<1>3. Today' \subseteq Today
  BY <1>1, DayAssumption DEF Today
<1>4. Held' \subseteq Held
  BY <1>1, <1>3 DEF Held
<1>5. \A x \in Today \ slipped : ttl >= 1 /\ ttl + age[x] >= Day
  BY DayAssumption DEF CountInv, Passed, Today
<1>6. CASE ttl = 1
  <2>1. /\ counter' = 0 /\ ttl' = -1 /\ slipped' = slipped \cup {x \in Call : step[x] = "renew"}
        /\ quiet' \in 0 .. Day
    BY <1>6, DayAssumption DEF Tick
  <2>2. Today' \ slipped' = {}
    <3> SUFFICES ASSUME NEW x \in Today', x \notin slipped'
                 PROVE  FALSE
      OBVIOUS
    <3>1. x \in Today \ slipped /\ x \in Call /\ age'[x] < Day
      BY <1>1, <1>3 DEF Today
    <3> QED
      BY <1>1, <1>5, <1>6, <3>1, DayAssumption
  <2>3. Held' = {}
    BY <1>1, <2>1, <2>2 DEF Held
  <2>4. Counted'
    BY <2>3 DEF Counted
  <2>5. Passed'
    <3>1. \A x \in Call : /\ step'[x] \in {"idle", "renew"} => age'[x] = Day
                          /\ step'[x] = "idle" => x \notin slipped' \cup rested'
                          /\ step'[x] = "renew" => cntr'[x] >= 1
      BY <1>1, <2>1, DayAssumption DEF CountInv, Passed
    <3>2. \A x \in Today' : step'[x] # "idle" /\ Limit(x)' \in Int /\ cntr'[x] \in 1 .. Limit(x)'
      BY <1>1, <1>2, <1>3 DEF CountInv, Passed, Today
    <3> QED
      BY <2>2, <3>1, <3>2 DEF Passed
  <2>6. Rested'
    BY <1>1, <1>2, <2>1 DEF CountInv, Rested
  <2> QED
    BY <2>4, <2>5, <2>6 DEF CountInv
<1>7. CASE ttl # 1
  <2>1. /\ counter' = counter /\ slipped' = slipped
        /\ ttl' = IF ttl > 1 THEN ttl - 1 ELSE -1
        /\ quiet' = IF quiet < Day THEN quiet + 1 ELSE Day
    BY <1>7 DEF Tick
  <2>2. Counted'
    BY <1>1, <1>4, <2>1 DEF CountInv, Counted
  <2>3. Passed'
    <3>1. \A x \in Call : /\ step'[x] \in {"idle", "renew"} => age'[x] = Day
                          /\ step'[x] = "idle" => x \notin slipped' \cup rested'
                          /\ step'[x] = "renew" => cntr'[x] >= 1
      BY <1>1, <2>1, DayAssumption DEF CountInv, Passed
    <3>2. \A x \in Today' : step'[x] # "idle" /\ Limit(x)' \in Int /\ cntr'[x] \in 1 .. Limit(x)'
      BY <1>1, <1>2, <1>3 DEF CountInv, Passed, Today
    <3>3. ASSUME NEW x \in Today' \ slipped'
          PROVE  ttl' + age'[x] >= Day
      <4>1. x \in Today \ slipped /\ x \in Call /\ age[x] < Day
        BY <1>3, <2>1, <3>3 DEF Today
      <4> QED
        BY <1>1, <1>5, <1>7, <2>1, <4>1, DayAssumption
    <3> QED
      BY <3>1, <3>2, <3>3 DEF Passed
  <2>4. Rested'
    <3>1. counter' > 0 /\ ~loose' => ttl' >= 1 /\ ttl' + quiet' <= Day
      BY <1>1, <1>7, <2>1, DayAssumption DEF CountInv, Rested
    <3> QED
      BY <1>1, <1>2, <3>1 DEF CountInv, Rested
  <2> QED
    BY <2>2, <2>3, <2>4 DEF CountInv
<1> QED
  BY <1>6, <1>7

\* Whoever handles a call that goes on has loaded a limit.
LEMMA HandlerLimit ==
    ASSUME TypeOK, NEW c \in Call, step[c] # "idle", Beats(handler[c])
    PROVE  Limit(c) \in Int
<1>1. PICK o \in Orch, n \in 1 .. MaxStarts : handler[c] = <<o, n>>
  BY DEF TypeOK, HandlerType
<1>2. o \in DOMAIN Setup[plan] /\ Conf(o) # Failed /\ plan \in DOMAIN Setup
  BY <1>1 DEF Beats, TypeOK, BootType, Process
<1> QED
  BY <1>1, <1>2, LimitIsANumber DEF Limit

LEMMA CountStep ==
    ASSUME TypeOK, CountInv, [Next]_vars
    PROVE  CountInv'
<1>0. UNCHANGED plan
  BY PlanStays
<1>1. ASSUME NEW c \in Call, CreateGame(c)
      PROVE  CountInv'
  <2>1. ASSUME NEW h, Incr(c, h)
        PROVE  CountInv'
    BY <1>0, <2>1, CountIncr
  <2>2. CASE Beats(handler[c]) /\ Renew(c, Limit(c))
    <3>1. step[c] # "idle"
      BY <2>2 DEF Renew
    <3>2. Limit(c) \in Int
      BY <2>2, <3>1, HandlerLimit
    <3> QED
      BY <1>0, <2>2, <3>2, CountRenew
  <2>3. CASE Number(c) \/ Drop(c)
    BY <1>0, <2>3, CountRest
  <2> QED
    BY <1>1, <2>1, <2>2, <2>3 DEF CreateGame, Limit
<1>2. CASE Tick
  BY <1>0, <1>2, CountTick
<1>3. CASE UNCHANGED limitVars
  <2>1. \A x \in Call : Limit(x)' = Limit(x)
    BY <1>0, <1>3, LimitStays DEF limitVars
  <2>2. Today' = Today /\ Held' = Held
    BY <1>3 DEF limitVars, Today, Held
  <2> QED
    BY <1>3, <2>1, <2>2 DEF limitVars, CountInv, Counted, Passed, Rested, Today
<1> QED
  BY <1>1, <1>2, <1>3 DEF Next, vars, User

\* The calls that passed within the last day have distinct values of the counter,
\* none above it, and its key outlives the day of each; a key that has a TTL
\* expires within a day of the last call.
THEOREM CountsHold == Spec => []CountInv
BY CountInit, CountStep, DeploymentTypeCorrect, PTL DEF Spec

\* Calls with different counts, none above its limit: one of them is the last.
LEMMA LastOfToday ==
    ASSUME TypeOK, CountInv, Today # {}
    PROVE  \E c \in Today : Cardinality(Today \ slipped) <= Limit(c)
<1> DEFINE T == Today \ slipped
           n == Cardinality(T)
<1>1. /\ counter \in Nat
      /\ \A x \in T : cntr[x] \in 1 .. counter
      /\ \A x, y \in T : cntr[x] = cntr[y] => x = y
  BY DEF TypeOK, LimitType, CountInv, Counted, Held
<1>2. IsFiniteSet(T) /\ n \in Nat
  <2> DEFINE f == [x \in T |-> cntr[x]]
  <2>1. f \in Injection(T, 1 .. counter)
    BY <1>1, Fun_IsInj
  <2> QED
    BY <1>1, <2>1, FS_Interval, FS_Injection, FS_CardinalityType
<1>3. CASE T = {}
  BY <1>3, FS_EmptySet DEF CountInv, Passed
<1>4. CASE T # {}
  <2>1. \E x \in T : cntr[x] >= n
    <3> SUFFICES ASSUME \A x \in T : cntr[x] \in 1 .. (n - 1)
                 PROVE  FALSE
      BY <1>1, <1>2
    <3> DEFINE f == [x \in T |-> cntr[x]]
    <3>1. f \in [T -> 1 .. (n - 1)]
      OBVIOUS
    <3>2. IsFiniteSet(1 .. (n - 1)) /\ Cardinality(1 .. (n - 1)) < Cardinality(T)
      <4>1. n # 0
        BY <1>2, <1>4, FS_EmptySet
      <4>2. /\ IsFiniteSet(1 .. (n - 1))
            /\ Cardinality(1 .. (n - 1)) = IF 1 > n - 1 THEN 0 ELSE (n - 1) - 1 + 1
        <5>1. n - 1 \in Int /\ 1 \in Int
          BY <1>2
        <5> HIDE DEF n
        <5> QED
          BY <5>1, FS_Interval
      <4> HIDE DEF T
      <4> QED
        BY <1>2, <4>1, <4>2
    <3>3. \E x, y \in T : x # y /\ f[x] = f[y]
      <4> HIDE DEF f, T, n
      <4> QED
        BY <1>2, <3>1, <3>2, FS_PigeonHole
    <3> QED
      BY <1>1, <3>3
  <2> QED
    BY <1>1, <1>2, <2>1 DEF CountInv, Passed
<1> QED
  BY <1>3, <1>4

\* Within any 24 hours no more calls pass than the highest of the limits they
\* met, but for those whose key expired between their Incr and their Expire.
THEOREM DailyLimit == Spec => []PerDay
<1>1. TypeOK /\ CountInv => PerDay
  BY LastOfToday DEF PerDay, Limit
<1> QED
  BY <1>1, CountsHold, DeploymentTypeCorrect, PTL

\* Whoever waits for 24 hours may create a game again, unless a call failed
\* between its Incr and its Expire.
THEOREM WaitingHelps == Spec => []WaitHelps
<1>1. TypeOK /\ CountInv => WaitHelps
  BY DEF WaitHelps, CountInv, Rested, TypeOK, LimitType, Limit
<1> QED
  BY <1>1, CountsHold, DeploymentTypeCorrect, PTL
=============================================================================
