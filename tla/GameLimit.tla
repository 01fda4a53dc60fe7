------------------------------ MODULE GameLimit ------------------------------
(***************************************************************************)
(* The daily limit of CreateGame, for one identifier: a counter in Redis   *)
(* that every call increments and then gives a day to live.                *)
(***************************************************************************)
EXTENDS Integers, FiniteSets

CONSTANTS
    Call,       \* CreateGame calls
    Day,        \* ticks of a day
    None

ASSUME DayAssumption == Day \in Nat \ {0}

VARIABLES
    step,       \* step[c]: where the call is
    handler,    \* handler[c]: the orchestrator that handles it
    cntr,       \* cntr[c]: what its Incr returned
    counter,    \* identifier:{id}:counter, 0 when there is no key
    ttl,        \* ticks the key has left, -1 without a TTL
    age,        \* age[c]: ticks since the call passed the limit (history)
    slipped,    \* calls whose key expired between Incr and Expire (history)
    quiet,      \* ticks since the last call of the user (history)
    rested,     \* calls that came after a day of quiet (history)
    loose       \* no Expire has followed the Incr that made the key (history)

limitVars == <<step, handler, cntr, counter, ttl, age, slipped, quiet, rested, loose>>

LimitInit ==
    /\ step = [c \in Call |-> "idle"]
    /\ handler = [c \in Call |-> None]
    /\ cntr = [c \in Call |-> 0]
    /\ counter = 0 /\ ttl = -1
    /\ age = [c \in Call |-> Day]
    /\ slipped = {} /\ quiet = Day /\ rested = {} /\ loose = FALSE

Advance(c, s) == step' = [step EXCEPT ![c] = s]

-----------------------------------------------------------------------------
(* CreateGame.  A call to Redis may fail, after it took effect or not.      *)

\* Incr: it makes the key, without a TTL, or keeps the TTL of one that is there.
Incr(c, o) ==
    /\ step[c] = "idle"
    /\ handler' = [handler EXCEPT ![c] = o]
    /\ quiet' = 0
    /\ \/ /\ counter' = counter + 1
          /\ loose' = (loose \/ counter = 0)
          /\ rested' = IF quiet = Day /\ ~loose THEN rested \cup {c} ELSE rested
          /\ \/ cntr' = [cntr EXCEPT ![c] = counter'] /\ Advance(c, "renew")
             \/ Advance(c, "failed") /\ UNCHANGED cntr
       \/ /\ Advance(c, "failed")
          /\ UNCHANGED <<counter, loose, rested, cntr>>
    /\ UNCHANGED <<ttl, age, slipped>>

\* Mutated: Expire leaves a TTL as it is.
RenewOnce(c, limit) ==
    /\ step[c] = "renew"
    /\ ttl' = IF counter > 0 /\ ttl = -1 THEN Day ELSE ttl
    /\ IF cntr[c] > limit
       THEN Advance(c, "refused") /\ UNCHANGED age
       ELSE Advance(c, "number") /\ age' = [age EXCEPT ![c] = 0]
    /\ loose' = FALSE
    /\ quiet' = 0
    /\ UNCHANGED <<handler, cntr, counter, slipped, rested>>

\* Mutated: Expire is called with another key.
RenewOther(c, limit) ==
    /\ step[c] = "renew"
    /\ IF cntr[c] > limit
       THEN Advance(c, "refused") /\ UNCHANGED age
       ELSE Advance(c, "number") /\ age' = [age EXCEPT ![c] = 0]
    /\ loose' = FALSE
    /\ quiet' = 0
    /\ UNCHANGED <<handler, cntr, counter, ttl, slipped, rested>>

\* Expire: a day from now, for a key that is still there.  Then the counter
\* this call has read is compared with the limit.
Renew(c, limit) ==
    /\ step[c] = "renew"
    /\ \/ /\ ttl' = IF counter > 0 THEN Day ELSE ttl
          /\ loose' = FALSE
          /\ \/ cntr[c] > limit /\ Advance(c, "refused") /\ UNCHANGED age
             \/ ~(cntr[c] > limit) /\ Advance(c, "number") /\ age' = [age EXCEPT ![c] = 0]
             \/ Advance(c, "failed") /\ UNCHANGED age
       \/ Advance(c, "failed") /\ UNCHANGED <<ttl, age, loose>>
    /\ quiet' = 0
    /\ UNCHANGED <<handler, cntr, counter, slipped, rested>>

\* The number of the game, and what is wrong with the request.  A call that
\* ends here has been counted.
Number(c) ==
    /\ step[c] = "number"
    /\ step' \in {[step EXCEPT ![c] = s] : s \in {"store", "invalid", "failed"}}
    /\ UNCHANGED <<handler, cntr, counter, ttl, age, slipped, quiet, rested, loose>>

\* The orchestrator that handles the call ends.
Drop(c) ==
    /\ step[c] \in {"renew", "number"}
    /\ Advance(c, "failed")
    /\ UNCHANGED <<handler, cntr, counter, ttl, age, slipped, quiet, rested, loose>>

\* Time.
Tick ==
    /\ ttl' = IF ttl > 1 THEN ttl - 1 ELSE -1
    /\ counter' = IF ttl = 1 THEN 0 ELSE counter
    /\ age' = [c \in Call |-> IF age[c] < Day THEN age[c] + 1 ELSE Day]
    /\ quiet' = IF quiet < Day THEN quiet + 1 ELSE Day
    /\ slipped' = IF ttl = 1 THEN slipped \cup {c \in Call : step[c] = "renew"} ELSE slipped
    /\ UNCHANGED <<step, handler, cntr, rested, loose>>

-----------------------------------------------------------------------------
LimitType ==
    /\ step \in [Call -> {"idle", "renew", "number", "store", "invalid", "refused", "failed"}]
    /\ cntr \in [Call -> Nat] /\ counter \in Nat
    /\ ttl \in -1 .. Day /\ ttl # 0
    /\ counter = 0 => ttl = -1
    /\ age \in [Call -> 0 .. Day] /\ quiet \in 0 .. Day
    /\ slipped \subseteq Call /\ rested \subseteq Call
    /\ loose \in BOOLEAN

Today == {c \in Call : age[c] < Day}
=============================================================================
