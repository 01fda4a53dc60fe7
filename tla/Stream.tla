------------------------------- MODULE Stream -------------------------------
(***************************************************************************)
(* What a stream to a gameserver promises its client, however it gets      *)
(* there: moves and boards arrive in order and without gaps, the verdict   *)
(* of the server comes after all of its boards, and nothing arrives once   *)
(* the stream has ended.  The n-th message of a direction is the number n. *)
(***************************************************************************)
EXTENDS Naturals, Sequences

VARIABLES
    given,      \* moves the client has sent
    taken,      \* moves handed to the server, in the order they came
    sent,       \* boards the server has sent
    received,   \* boards handed to the client, in the order they came
    verdict,    \* how the server ended the stream, "none" while it has not
    result      \* how the stream ended for the client

vars == <<given, taken, sent, received, verdict, result>>

Init ==
    /\ given = 0 /\ taken = <<>>
    /\ sent = 0 /\ received = <<>>
    /\ verdict = "none" /\ result = "none"

Give ==
    /\ given' = given + 1
    /\ UNCHANGED <<taken, sent, received, verdict, result>>

Take ==
    /\ result = "none"
    /\ Len(taken) < given
    /\ taken' = Append(taken, Len(taken) + 1)
    /\ UNCHANGED <<given, sent, received, verdict, result>>

\* A board answers a move.
Send ==
    /\ verdict = "none"
    /\ sent < Len(taken)
    /\ sent' = sent + 1
    /\ UNCHANGED <<given, taken, received, verdict, result>>

Receive ==
    /\ result = "none"
    /\ Len(received) < sent
    /\ received' = Append(received, Len(received) + 1)
    /\ UNCHANGED <<given, taken, sent, verdict, result>>

Decide ==
    /\ verdict = "none"
    /\ verdict' \in {"over", "lost"}
    /\ UNCHANGED <<given, taken, sent, received, result>>

\* The stream ends with the verdict of the server, once all of its boards
\* have arrived, or for a reason of its own.
End ==
    /\ result = "none"
    /\ result' # "none"
    /\ result' = "over" => verdict = "over" /\ Len(received) = sent
    /\ result' = "lost" => verdict = "lost"
    /\ UNCHANGED <<given, taken, sent, received, verdict>>

Next == Give \/ Take \/ Send \/ Receive \/ Decide \/ End

Spec == Init /\ [][Next]_vars
=============================================================================
