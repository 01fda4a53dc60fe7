------------------------------ MODULE Settings ------------------------------
(***************************************************************************)
(* The settings of a process, and the credentials made from them.  A       *)
(* setting is given by the environment, by the file or by the program; a   *)
(* layer is a function on the keys it gives.  Values that the code cannot  *)
(* use, whatever they look like, are Garbled.                              *)
(***************************************************************************)
EXTENDS Integers, Sequences, Functions

CONSTANTS
    Empty,      \* the text ""
    Garbled,    \* a text that is neither a number nor base64 of PEM
    Missing,    \* there is no configuration file
    Malformed,  \* there is one that is not YAML
    Failed,     \* an error instead of a result
    Nil,        \* no credentials: no TLS
    KeyOf,      \* KeyOf[c]: the private key of the certificate c
    IssuerOf    \* IssuerOf[c]: the CA that signed the certificate c

ASSUME KeyAssumption == DOMAIN KeyOf = DOMAIN IssuerOf

Certificates == DOMAIN KeyOf
CAs == {IssuerOf[c] : c \in Certificates}

ASSUME MaterialAssumption ==
    /\ Nil # Failed
    /\ {Nil, Failed, Empty} \cap (Certificates \cup CAs) = {}

-----------------------------------------------------------------------------
(* The keys both programs read.                                             *)

Parts == {"base64_ssl_certificate", "base64_ssl_privatekey", "base64_ssl_ca"}
DBKeys == {"dbshardnodes", "dbusername", "dbpassword", "db_base64_ssl_certificate",
           "db_base64_ssl_privatekey", "db_base64_ssl_ca"}
LogKeys == {"logfile", "logoptions", "maxlogsizekb", "logstdout"}
Common == {"port", "secret"} \cup Parts \cup DBKeys \cup LogKeys

\* The layer f over the layer g (the operator @@ of TLC is opaque to provers).
Over(f, g) == [k \in DOMAIN f \cup DOMAIN g |-> IF k \in DOMAIN f THEN f[k] ELSE g[k]]

NoParts ==
    [k \in Parts \cup (DBKeys \ {"dbshardnodes", "dbusername", "dbpassword"}) |-> Empty]
LogDefaults ==
    [logfile |-> "orbstrike.log", logoptions |-> {"ERROR", "WARNING"},
     maxlogsizekb |-> 500, logstdout |-> TRUE]

\* Mutated: the file precedes the environment.
MergeFileFirst(env, file, defaults) ==
    Over(file, Over(Restrict(env, {k \in DOMAIN env : env[k] # Empty}), defaults))

\* viper: a variable that is set but empty counts as not given, the
\* environment precedes the file, and the file the defaults.
Merge(env, file, defaults) ==
    Over(Restrict(env, {k \in DOMAIN env : env[k] # Empty}), Over(file, defaults))

\* A key no layer gives has the zero value of its type.
Decode(values, fields, numbers) ==
    IF \E k \in numbers \cap DOMAIN values : values[k] = Garbled THEN Failed
    ELSE [k \in fields |-> IF k \in DOMAIN values THEN values[k]
                           ELSE IF k \in numbers THEN 0 ELSE Empty]

\* Without a file the environment will do; one that cannot be read will not.
Load(env, file, defaults, fields, numbers) ==
    IF file = Malformed THEN Failed
    ELSE LET given == IF file = Missing THEN [k \in {} |-> Empty] ELSE file
         IN Decode(Merge(env, given, defaults), fields, numbers)

-----------------------------------------------------------------------------
(* conf.Config of the gameserver, and of the orchestrator.  Every field is  *)
(* bound to a variable of its name.                                         *)

ServerNumbers == {"port", "maxlogsizekb", "maxchannelsize", "requestsperworker",
                  "responseintervalms", "syncintervalms", "downtimethresholdms"}
ServerFields == Common \cup ServerNumbers \cup {"addr", "hostnamesuffix", "gameovermessages"}
ServerBound(env) == Restrict(env, DOMAIN env \cap ServerFields)
ServerDefaults ==
    Over(Over(NoParts, LogDefaults),
         [addr |-> Empty, hostnamesuffix |-> Empty, gameovermessages |-> "Game Over",
          maxchannelsize |-> 15, requestsperworker |-> 10, responseintervalms |-> 15,
          syncintervalms |-> 1000, downtimethresholdms |-> 5000])

LoadServerConfig(env, file) ==
    Load(ServerBound(env), file, ServerDefaults, ServerFields, ServerNumbers)

OrchNumbers == {"port", "timeoutmin", "maxlogsizekb", "focontrollerdowntimethresholdms",
                "failoverintervalms", "gamejointimeoutsec", "gamelifetimemin",
                "dailyusergamelimit"}
OrchFields == Common \cup OrchNumbers \cup {"gameserver_base64_ssl_ca"}
OrchBound(env) == Restrict(env, DOMAIN env \cap OrchFields)
OrchDefaults ==
    Over(Over(NoParts, LogDefaults),
         [gameserver_base64_ssl_ca |-> Empty, timeoutmin |-> 180,
          focontrollerdowntimethresholdms |-> 3000, failoverintervalms |-> 1000,
          gamelifetimemin |-> 180, dailyusergamelimit |-> 999999,
          gamejointimeoutsec |-> 10])

LoadOrchConfig(env, file) ==
    Load(OrchBound(env), file, OrchDefaults, OrchFields, OrchNumbers)

-----------------------------------------------------------------------------
(* Credentials: those of a listener or client with a certificate, and those *)
(* of a client that only checks the other's.  What cannot be decoded fails  *)
(* when it is used.                                                         *)

Credentials(cert, key, ca) ==
    IF Empty \in {cert, key, ca} THEN Nil
    ELSE IF cert \in Certificates /\ key = KeyOf[cert] /\ ca \in CAs THEN cert
    ELSE Failed

\* Mutated: material that cannot be used is taken for none.
GetAuthCredentialsLenient(c) ==
    LET r == Credentials(c["base64_ssl_certificate"], c["base64_ssl_privatekey"],
                         c["base64_ssl_ca"])
    IN IF r = Failed THEN Nil ELSE r

GetAuthCredentials(c) ==
    Credentials(c["base64_ssl_certificate"], c["base64_ssl_privatekey"], c["base64_ssl_ca"])

GetTLSClient(c) ==
    Credentials(c["db_base64_ssl_certificate"], c["db_base64_ssl_privatekey"],
                c["db_base64_ssl_ca"])

\* Its twin in the orchestrator.
GetTLSClientMutual(c) == GetTLSClient(c)

\* Mutated: a CA that cannot be used is used.
GetTLSClientCAUnchecked(c) ==
    LET ca == c["gameserver_base64_ssl_ca"] IN IF ca = Empty THEN Nil ELSE ca

GetTLSClientCA(c) ==
    LET ca == c["gameserver_base64_ssl_ca"] IN
    IF ca = Empty THEN Nil ELSE IF ca \in CAs THEN ca ELSE Failed

\* The addresses of a list, without the blank ones.
TrimSplit(list) == SelectSeq(list, LAMBDA x : x # Empty)

-----------------------------------------------------------------------------
(* User keys: authenticated encryption under the hash of the secret.  Only  *)
(* the same secret opens what it sealed.                                    *)

EncryptUserKey(id, secret) == [id |-> id, secret |-> secret]
DecryptUserKey(userkey, secret) == IF userkey.secret = secret THEN userkey.id ELSE Failed
=============================================================================
