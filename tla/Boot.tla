-------------------------------- MODULE Boot --------------------------------
(***************************************************************************)
(* The life of the processes: main of the gameserver and of the            *)
(* orchestrator, from the configuration to the listening socket, and what  *)
(* a gameserver publishes meanwhile.  A step is what main does up to the   *)
(* next thing that others can see or disturb.                              *)
(***************************************************************************)
EXTENDS Settings

CONSTANTS
    Server, Orch,
    Host,       \* Host[p]: the machine of the process p
    Setup,      \* Setup[d][p]: env and file of p in the deployment d
    Mortal,     \* processes that may be killed
    Faults,     \* processes whose log file or database may be out of reach
    MaxStarts   \* bound: how often a process is started

Process == Server \cup Orch

ASSUME BootAssumption ==
    /\ Server \cap Orch = {}
    /\ Mortal \cup Faults \subseteq Process
    /\ \A d \in DOMAIN Setup : DOMAIN Setup[d] \subseteq Process
    /\ MaxStarts \in Nat

\* A setting that is a number is given as one, or cannot be used.
ASSUME SetupAssumption ==
    \A d \in DOMAIN Setup : \A p \in DOMAIN Setup[d] :
        LET s == Setup[d][p]
            numbers == ServerNumbers \cup OrchNumbers
        IN /\ \A k \in numbers \cap DOMAIN s.env : s.env[k] \in Int \cup {Garbled, Empty}
           /\ s.file \notin {Missing, Malformed} =>
                 \A k \in numbers \cap DOMAIN s.file : s.file[k] \in Int \cup {Garbled}

VARIABLES
    plan,       \* the deployment
    stage,      \* stage[p]: where main is, "off" when the process does not run
    starts,     \* starts[p]: how often p was started
    levels,     \* levels[p]: the flags ERROR, WARNING and INFORMATION
    creds,      \* creds[p]: grpc.Creds of its server
    tunnel,     \* tunnel[o]: GSCredentials
    listener,   \* processes that hold their port
    addr,       \* keys gserver:{id}:addr; an id is drawn at each start
    ended,      \* ended[p]: how its last process ended
    told        \* told[p]: what that process has told about itself

bootVars == <<plan, stage, starts, levels, creds, tunnel, listener, addr,
              ended, told>>

BootInit ==
    /\ plan \in DOMAIN Setup
    /\ stage = [p \in Process |-> "off"]
    /\ starts = [p \in Process |-> 0]
    /\ levels = [p \in Process |-> {}]
    /\ creds = [p \in Process |-> Nil]
    /\ tunnel = [o \in Orch |-> Nil]
    /\ listener = {} /\ addr = {}
    /\ ended = [p \in Process |-> "no"]
    /\ told = [p \in Process |-> {}]

Running(p) == stage[p] # "off"
Serving(p) == stage[p] = "serving"

\* What each process loads at every start; nobody edits the settings.
Loaded ==
    [d \in DOMAIN Setup |-> [p \in DOMAIN Setup[d] |->
        IF p \in Server THEN LoadServerConfig(Setup[d][p].env, Setup[d][p].file)
        ELSE LoadOrchConfig(Setup[d][p].env, Setup[d][p].file)]]
Conf(p) == Loaded[plan][p]

-----------------------------------------------------------------------------
(* The end of a process.                                                    *)

End(p, how, what) ==
    /\ stage' = [stage EXCEPT ![p] = "off"]
    /\ ended' = [ended EXCEPT ![p] = how]
    /\ told' = [told EXCEPT ![p] = what]
    /\ levels' = [levels EXCEPT ![p] = {}]
    /\ creds' = [creds EXCEPT ![p] = Nil]
    /\ tunnel' = [o \in Orch |-> IF o = p THEN Nil ELSE tunnel[o]]
    /\ listener' = listener \ {p}

WriteErrLogger(p) == IF "ERROR" \in levels[p] THEN {"error"} ELSE {}
WriteWarningLogger(p) == IF "WARNING" \in levels[p] THEN {"warning"} ELSE {}

\* WriteErrLogger and os.Exit(1).
Exit(p) == End(p, "exit", told[p] \cup WriteErrLogger(p))

Goto(p, s) == stage' = [stage EXCEPT ![p] = s]

-----------------------------------------------------------------------------
(* main.                                                                    *)

\* The log file is opened and, once too long, cleared, which may fail where
\* Faults says so; then the flags are set.
InitLogger(p, c) == levels' = [levels EXCEPT ![p] = c.logoptions]

\* Mutated: what fails before there is a logger is written to the logger.
BeginLogging(p) ==
    /\ p \in DOMAIN Setup[plan]
    /\ stage[p] = "off"
    /\ starts[p] < MaxStarts
    /\ starts' = [starts EXCEPT ![p] = @ + 1]
    /\ LET c == Conf(p) IN
       \/ /\ c # Failed
          /\ InitLogger(p, c)
          /\ Goto(p, "db")
          /\ told' = [told EXCEPT ![p] = {}]
          /\ ended' = [ended EXCEPT ![p] = "no"]
          /\ UNCHANGED <<creds, tunnel, listener>>
       \/ /\ c = Failed \/ p \in Faults
          /\ End(p, "exit", {})
    /\ UNCHANGED <<plan, addr>>

\* Configuration and logger; what fails here is printed.
Begin(p) ==
    /\ p \in DOMAIN Setup[plan]
    /\ stage[p] = "off"
    /\ starts[p] < MaxStarts
    /\ starts' = [starts EXCEPT ![p] = @ + 1]
    /\ LET c == Conf(p) IN
       \/ /\ c # Failed
          /\ InitLogger(p, c)
          /\ Goto(p, "db")
          /\ told' = [told EXCEPT ![p] = {}]
          /\ ended' = [ended EXCEPT ![p] = "no"]
          /\ UNCHANGED <<creds, tunnel, listener>>
       \/ /\ c = Failed \/ p \in Faults
          /\ End(p, "exit", {"stdout"})
    /\ UNCHANGED <<plan, addr>>

\* The client of the database, and a first ping.
Connect(p, tls) ==
    /\ stage[p] = "db"
    /\ LET nodes == Conf(p).dbshardnodes
           usable == nodes # Empty /\ tls # Failed /\ TrimSplit(nodes) # <<>>
       IN \/ /\ usable
             /\ Goto(p, "tls")
             /\ UNCHANGED <<levels, creds, tunnel, listener, ended, told>>
          \/ (~usable \/ p \in Faults) /\ Exit(p)
    /\ UNCHANGED <<plan, starts, addr>>

StartClient(p) ==
    Connect(p, IF p \in Orch THEN GetTLSClientMutual(Conf(p)) ELSE GetTLSClient(Conf(p)))

\* The credentials.  Once the socket is known to be of use, or to go without
\* TLS, the schedulers start.
Secure(p) ==
    /\ stage[p] = "tls"
    /\ LET own == GetAuthCredentials(Conf(p))
           gs == IF p \in Orch THEN GetTLSClientCA(Conf(p)) ELSE Nil
       IN \/ /\ Failed \notin {own, gs}
             /\ creds' = [creds EXCEPT ![p] = own]
             /\ tunnel' = [o \in Orch |-> IF o = p THEN gs ELSE tunnel[o]]
             /\ told' = [told EXCEPT ![p] = @ \cup IF own = Nil THEN WriteWarningLogger(p)
                                                               ELSE {}]
             /\ Goto(p, "listen")
             /\ UNCHANGED <<levels, listener, ended>>
          \/ Failed \in {own, gs} /\ Exit(p)
    /\ UNCHANGED <<plan, starts, addr>>

\* Port 0 is any free port.
PortTaken(p) ==
    /\ Conf(p).port # 0
    /\ \E q \in listener : Host[q] = Host[p] /\ Conf(q).port = Conf(p).port

\* An orchestrator exits when the port is taken; a gameserver logs it and
\* goes on, with no listener.
Listen(p) ==
    /\ stage[p] = "listen"
    /\ \/ /\ ~PortTaken(p)
          /\ listener' = listener \cup {p}
          /\ Goto(p, "serve")
          /\ UNCHANGED <<levels, creds, tunnel, ended, told>>
       \/ /\ PortTaken(p) /\ p \in Server
          /\ told' = [told EXCEPT ![p] = @ \cup WriteErrLogger(p)]
          /\ Goto(p, "serve")
          /\ UNCHANGED <<levels, creds, tunnel, listener, ended>>
       \/ PortTaken(p) /\ p \in Orch /\ Exit(p)
    /\ UNCHANGED <<plan, starts, addr>>


\* Serve with no listener panics, which the runtime reports.
Serve(p) ==
    /\ stage[p] = "serve"
    /\ \/ /\ p \in listener
          /\ Goto(p, "serving")
          /\ UNCHANGED <<levels, creds, tunnel, listener, ended, told>>
       \/ p \notin listener /\ End(p, "panic", told[p] \cup {"trace"})
    /\ UNCHANGED <<plan, starts, addr>>

ServerMain(s) == Begin(s) \/ StartClient(s) \/ Secure(s) \/ Listen(s) \/ Serve(s)
OrchMain(o) == Begin(o) \/ StartClient(o) \/ Secure(o) \/ Listen(o) \/ Serve(o)

-----------------------------------------------------------------------------
\* gsync sets the address of the server as soon as it is started.
Publish(s) ==
    /\ stage[s] \in {"listen", "serve", "serving"}
    /\ addr' = addr \cup {<<s, starts[s]>>}
    /\ UNCHANGED <<plan, stage, starts, levels, creds, tunnel, listener, ended, told>>

Beats(id) == Running(id[1]) /\ starts[id[1]] = id[2]

\* The TTL of a key that is not set again runs out.
AddrExpires ==
    /\ \E id \in addr : ~Beats(id) /\ addr' = addr \ {id}
    /\ UNCHANGED <<plan, stage, starts, levels, creds, tunnel, listener, ended, told>>

Kill(p) ==
    /\ p \in Mortal
    /\ Running(p)
    /\ End(p, "killed", told[p])
    /\ UNCHANGED <<plan, starts, addr>>

\* gserverAddr, and the processes that answer there.
GServerAddr(s) ==
    [host |-> IF Conf(s).addr = Empty THEN Host[s] ELSE Conf(s).addr, port |-> Conf(s).port]
At(a) == {p \in listener : Serving(p) /\ Host[p] = a.host /\ Conf(p).port = a.port /\ a.port # 0}

BootNext ==
    \/ \E s \in Server : ServerMain(s) \/ Publish(s)
    \/ \E o \in Orch : OrchMain(o)
    \/ \E p \in Process : Kill(p)
    \/ AddrExpires

\* A gameserver that was started goes on, and keys nobody sets again expire.
BootFairness ==
    /\ \A s \in Server : WF_bootVars(Running(s) /\ ServerMain(s))
    /\ WF_bootVars(AddrExpires)
=============================================================================
