---------------------------- MODULE MCDeployment ----------------------------
(***************************************************************************)
(* An orchestrator or two and gameservers on another machine, in           *)
(* deployments an operator may make of them.                               *)
(***************************************************************************)
EXTENDS Deployment, TLC

CONSTANTS o, q, a, b, h1, h2, c1, c2, c3, u

KeyOfBoth == [cert1 |-> "key1", cert2 |-> "key2"]
IssuerOfBoth == [cert1 |-> "ca1", cert2 |-> "ca2"]
HostOf == o :> h1 @@ q :> h1 @@ a :> h2 @@ b :> h2

Basic == [dbshardnodes |-> <<"n1", Empty>>, secret |-> "s1"]
TLS(cert, k, ca) == [base64_ssl_certificate |-> cert, base64_ssl_privatekey |-> k,
                     base64_ssl_ca |-> ca]
Good == TLS("cert1", "key1", "ca1")
On(n) == [port |-> n] @@ Basic
Limited == [port |-> 8080, dailyusergamelimit |-> 1] @@ Basic
CA(x) == [gameserver_base64_ssl_ca |-> x]
NoEnv == [j \in {} |-> Empty]

In(env, file) == [env |-> env, file |-> file]
All(x, y, z) == o :> x @@ a :> y @@ b :> z

Deployments ==
    [plain |-> All(In(NoEnv, Limited), In(On(1), Missing), In(NoEnv, On(2))),
     secure |-> All(In(CA("ca1") @@ [secret |-> "s1"],
                       [secret |-> "s0"] @@ Good @@ Limited),
                    In([secret |-> Empty], Good @@ On(1)),
                    In([base64_ssl_certificate |-> Empty], Good @@ On(1))),
     half |-> All(In(CA("ca1"), [base64_ssl_ca |-> Empty] @@ Good @@ Limited),
                  In(NoEnv, [base64_ssl_privatekey |-> Empty] @@ Good @@ On(1)),
                  In(TLS("cert2", "key2", "ca2"), On(2))),
     wrong |-> All(In(NoEnv, Limited),
                   In(NoEnv, TLS("cert1", "key2", "ca1") @@ On(1)),
                   In([port |-> Garbled], On(2))),
     apart |-> All(In(NoEnv, Limited), In([secret |-> "s2"], On(1)), In(NoEnv, Good @@ Basic)),
     broken |-> All(In(CA(Garbled), Limited), In(NoEnv, Malformed),
                    In([logoptions |-> {"WARNING"}, dbshardnodes |-> <<Empty>>], On(2))),
     twins |-> o :> In([secret |-> "s1"], [secret |-> "s0"] @@ Limited)
                @@ q :> In([port |-> 8081, secret |-> Empty], Limited)
                @@ a :> In(NoEnv, On(1)),
     limited |-> q :> In(NoEnv, Limited)]

\* Three calls against a limit of one, one call to an orchestrator that is
\* killed, and a client wherever it may get a key.
TrafficOf ==
    [d \in DOMAIN Deployments |-> CASE d = "limited" -> Call
                                     [] d = "wrong" -> {u, c1}
                                     [] OTHER -> {u}]
=============================================================================
