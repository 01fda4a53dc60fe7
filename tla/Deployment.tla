----------------------------- MODULE Deployment -----------------------------
(***************************************************************************)
(* Orchestrators and gameservers that are configured, started and killed   *)
(* independently, and what a user sees of them: a key is issued by one     *)
(* orchestrator and used through another on a gameserver they find, and    *)
(* games are created against the daily limit of whoever handles the call.  *)
(***************************************************************************)
EXTENDS Boot, GameLimit

CONSTANTS
    Client,
    Traffic     \* Traffic[d]: clients and calls in the deployment d

ASSUME TrafficAssumption ==
    /\ DOMAIN Traffic = DOMAIN Setup
    /\ \A d \in DOMAIN Setup : Traffic[d] \subseteq Client \cup Call

VARIABLES
    at,         \* at[u]: where the stream of the client u is
    key,        \* key[u]: its user key
    via, to,    \* the orchestrator and the server of the stream, by their ids
    exposed     \* hops on which a user key went in plain text (history)

userVars == <<at, key, via, to, exposed>>
vars == <<bootVars, limitVars, userVars>>

Init ==
    /\ BootInit
    /\ LimitInit
    /\ at = [u \in Client |-> "out"]
    /\ key = [u \in Client |-> Nil]
    /\ via = [u \in Client |-> None]
    /\ to = [u \in Client |-> None]
    /\ exposed = {}

Move(u, s) == at' = [at EXCEPT ![u] = s]

-----------------------------------------------------------------------------
(* A client.                                                                *)

\* JoinGame, whose answer has the key.
Join(u) ==
    /\ at[u] = "out"
    /\ \E o \in Orch :
          /\ Serving(o)
          /\ key' = [key EXCEPT ![u] = EncryptUserKey(u, Conf(o).secret)]
          /\ exposed' = IF creds[o] = Nil THEN exposed \cup {<<"client", o>>} ELSE exposed
    /\ Move(u, "joined")
    /\ UNCHANGED <<via, to>>

\* ProxyGameboard of any orchestrator finds an address.
Find(u) ==
    /\ at[u] = "joined"
    /\ \E o \in Orch, id \in addr :
          /\ Serving(o)
          /\ via' = [via EXCEPT ![u] = <<o, starts[o]>>]
          /\ to' = [to EXCEPT ![u] = id]
          /\ exposed' = IF creds[o] = Nil THEN exposed \cup {<<"client", o>>} ELSE exposed
    /\ Move(u, "dial")
    /\ UNCHANGED key

Peers(u) == At(GServerAddr(to[u][1]))

\* What the process q answers to StreamGameboard: an orchestrator does not
\* implement it, a server that is not the one looked for has no such game, and
\* the one that is checks the key.
Answer(u, q) ==
    IF q \in Orch THEN "unimplemented"
    ELSE IF ~Beats(to[u]) \/ q # to[u][1] THEN "notfound"
    ELSE IF DecryptUserKey(key[u], Conf(q).secret) = u THEN "playing" ELSE "refused"

\* Whoever answers at the address of the server.  With credentials the peer
\* has to prove its name by the CA, or the stream fails; without, the dial
\* waits for a peer that has no TLS either.
Dial(u) ==
    /\ at[u] = "dial" /\ Beats(via[u])
    /\ LET ca == tunnel[via[u][1]]
           fits == {q \in Peers(u) : IF ca = Nil THEN creds[q] = Nil
                                     ELSE creds[q] # Nil /\ IssuerOf[creds[q]] = ca}
       IN \/ \E q \in fits :
                /\ exposed' = IF ca = Nil THEN exposed \cup {<<via[u][1], q>>} ELSE exposed
                /\ Move(u, Answer(u, q))
          \/ /\ ca # Nil /\ fits = {}
             /\ Move(u, "unavailable")
             /\ UNCHANGED exposed
    /\ UNCHANGED <<key, via, to>>

\* ExitGame of any orchestrator, which opens the key on its own.
Exited(u, o) == IF DecryptUserKey(key[u], Conf(o).secret) = u THEN "left" ELSE "refused"

ExitGame(u) ==
    /\ at[u] \in {"joined", "playing"}
    /\ \E o \in Orch :
          /\ Serving(o)
          /\ Move(u, Exited(u, o))
          /\ exposed' = IF creds[o] = Nil THEN exposed \cup {<<"client", o>>} ELSE exposed
    /\ UNCHANGED <<key, via, to>>

\* The stream ends with a process it goes through.
Lose(u) ==
    /\ \/ at[u] = "dial" /\ ~Beats(via[u])
       \/ at[u] = "playing" /\ ~(Beats(via[u]) /\ Beats(to[u]))
    /\ Move(u, "lost")
    /\ UNCHANGED <<key, via, to, exposed>>

User(u) ==
    /\ Join(u) \/ Find(u) \/ Dial(u) \/ ExitGame(u) \/ Lose(u)
    /\ UNCHANGED <<bootVars, limitVars>>

CreateGame(c) ==
    /\ \/ \E o \in Orch : Serving(o) /\ Incr(c, <<o, starts[o]>>)
       \/ /\ handler[c] # None
          /\ IF Beats(handler[c])
             THEN Renew(c, Conf(handler[c][1]).dailyusergamelimit) \/ Number(c)
             ELSE Drop(c)
    /\ UNCHANGED <<bootVars, userVars>>

Next ==
    \/ BootNext /\ UNCHANGED <<limitVars, userVars>>
    \/ \E u \in Client \cap Traffic[plan] : User(u)
    \/ \E c \in Call \cap Traffic[plan] : CreateGame(c)
    \/ Tick /\ UNCHANGED <<bootVars, userVars>>

Spec == Init /\ [][Next]_vars
FairSpec == Spec /\ BootFairness

-----------------------------------------------------------------------------
BootType ==
    /\ plan \in DOMAIN Setup
    /\ stage \in [Process -> {"off", "db", "tls", "listen", "serve", "serving"}]
    /\ starts \in [Process -> 0 .. MaxStarts]
    /\ \A p \in Process : Running(p) =>
          starts[p] > 0 /\ p \in DOMAIN Setup[plan] /\ Conf(p) # Failed
    /\ creds \in [Process -> {Nil} \cup Certificates]
    /\ tunnel \in [Orch -> {Nil} \cup CAs]
    /\ \A p \in Process : creds[p] # Nil => Running(p)
    /\ \A o \in Orch : tunnel[o] # Nil => Running(o)
    /\ listener \subseteq {p \in Process : stage[p] \in {"serve", "serving"}}
    /\ addr \subseteq Server \X (1 .. MaxStarts)
    /\ ended \in [Process -> {"no", "exit", "panic", "killed"}]
    /\ told \in [Process -> SUBSET {"stdout", "error", "warning", "trace"}]

\* The user keys an orchestrator of the deployment makes for u.
Issued(u) ==
    {EncryptUserKey(u, Conf(o).secret) :
        o \in {p \in Orch \cap DOMAIN Setup[plan] : Conf(p) # Failed}}

UserType ==
    /\ at \in [Client -> {"out", "joined", "dial", "playing", "refused", "notfound",
                           "unavailable", "unimplemented", "left", "lost"}]
    /\ key \in [Client -> {Nil} \cup UNION {Issued(u) : u \in Client}]
    /\ \A u \in Client : at[u] # "out" => key[u] \in Issued(u)
    /\ via \in [Client -> {None} \cup Orch \X (1 .. MaxStarts)]
    /\ to \in [Client -> {None} \cup Server \X (1 .. MaxStarts)]
    /\ \A u \in Client : at[u] \notin {"out", "joined", "left", "refused"} =>
          via[u] \in Orch \X (1 .. MaxStarts) /\ to[u] \in Server \X (1 .. MaxStarts)
    /\ exposed \subseteq ({"client"} \X Orch) \cup (Orch \X Process)

\* A call has a handler from its Incr on.
HandlerType ==
    /\ handler \in [Call -> {None} \cup Orch \X (1 .. MaxStarts)]
    /\ \A c \in Call : IF step[c] = "idle" THEN handler[c] = None
                       ELSE handler[c] \in Orch \X (1 .. MaxStarts)

TypeOK == BootType /\ LimitType /\ HandlerType /\ UserType

\* What the operator of p wants the setting k to be, "" when it is not given:
\* the variable, or else what is in the file.
Wanted(p, k) ==
    LET s == Setup[plan][p]
        values == {s.env[j] : j \in {k} \cap DOMAIN s.env} \ {Empty}
        written == IF s.file \in {Missing, Malformed} THEN {}
                   ELSE {s.file[j] : j \in {k} \cap DOMAIN s.file}
    IN CHOOSE v \in IF values # {} THEN values ELSE written \cup {Empty} :
          v = Empty => values \cup written \subseteq {Empty}

NoTLS(p) == \E k \in Parts : Wanted(p, k) = Empty

\* "if you want an unencrypted TCP Socket use """, "Leave as "" to disable SSL on
\* the tunnel": a user key crosses a hop in plain text only where an operator
\* left a part of the TLS settings empty, on the tunnel at both of its ends.
\* No other mistake in the settings, no restart and no taken port opens a hop.
PlainOnlyIfEmpty ==
    \A hop \in exposed :
        IF hop[1] = "client" THEN NoTLS(hop[2])
        ELSE Wanted(hop[1], "gameserver_base64_ssl_ca") = Empty /\ NoTLS(hop[2])

\* "Shared secret required on both the Orchestrator and GameServers": a user
\* is refused, by a server or by another orchestrator, only when the secrets
\* of two processes differ, whichever layers they come from and whoever
\* restarted.
SharedSecretFits ==
    (\E u \in Client : at[u] = "refused") =>
        \E o \in Orch \cap DOMAIN Setup[plan], p \in DOMAIN Setup[plan] :
            Wanted(o, "secret") # Wanted(p, "secret")

\* Whatever goes wrong before or while a process listens, it tells: a process
\* that ends by itself has printed, logged or been reported by the runtime,
\* unless errors are not to be logged.
NothingIsSilent ==
    \A p \in DOMAIN Setup[plan] : ended[p] \in {"exit", "panic"} =>
        \/ told[p] \cap {"stdout", "error", "trace"} # {}
        \/ Conf(p) # Failed /\ "ERROR" \notin Conf(p).logoptions

\* gsync publishes the address before the server listens.  An address with a
\* port does lead to its server, or is gone in the end.
Published(s) == \E n \in 1 .. MaxStarts : <<s, n>> \in addr

\* "Defines the maximum games that a user can create per 24 hours": within any
\* 24 hours no more calls pass than the highest limit allows, but for those
\* whose key expired between their Incr and their Expire.
PerDay ==
    Today # {} => \E c \in Today :
        Cardinality(Today \ slipped) <= Conf(handler[c][1]).dailyusergamelimit

\* "daily limit reached, wait 24 hours": a call that comes after 24 hours of
\* quiet passes, unless the counter was left without its TTL by a call that
\* failed between Incr and Expire.
WaitHelps ==
    \A c \in rested : step[c] = "refused" =>
        Conf(handler[c][1]).dailyusergamelimit < 1
=============================================================================
