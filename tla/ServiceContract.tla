-------------------------- MODULE ServiceContract --------------------------
(* What a client of a service is promised: a service that was published    *)
(* answers every request from the same state, or says that it failed.      *)
CONSTANTS Requests, NoReply, Failure, state

VARIABLES serving, reply

vars == <<serving, reply>>

Init == serving = FALSE /\ reply = NoReply

Publish ==
    /\ ~serving
    /\ serving' = TRUE
    /\ UNCHANGED reply

Answer(x) ==
    /\ serving
    /\ reply' = [input |-> x, seen |-> state]
    /\ UNCHANGED serving

Fail ==
    /\ serving
    /\ reply' = Failure
    /\ UNCHANGED serving

Next == Publish \/ Fail \/ \E x \in Requests : Answer(x)

Spec == Init /\ [][Next]_vars

=============================================================================
