------------------------- MODULE InteropValidation -------------------------
(* What a strategy for interop access lists promises, whichever way it     *)
(* asks the supervisors: a transaction is let through only after one of    *)
(* them approved it, and turned away only if none asked on its behalf did. *)
CONSTANT Requests

VARIABLES
    heard,      \* [Requests -> kinds of answers supervisors gave]
    verdict     \* [Requests -> pending, accept, reject]

Answers == {"ok", "invalid", "down"}

Init ==
    /\ heard = [r \in Requests |-> {}]
    /\ verdict = [r \in Requests |-> "pending"]

Hear(r, a) ==
    /\ heard' = [heard EXCEPT ![r] = @ \cup {a}]
    /\ UNCHANGED verdict

Accept(r) ==
    /\ verdict[r] = "pending" /\ "ok" \in heard[r]
    /\ verdict' = [verdict EXCEPT ![r] = "accept"] /\ UNCHANGED heard

Reject(r) ==
    /\ verdict[r] = "pending" /\ "ok" \notin heard[r]
    /\ verdict' = [verdict EXCEPT ![r] = "reject"] /\ UNCHANGED heard

Next == \E r \in Requests :
    \/ \E a \in Answers : Hear(r, a)
    \/ Accept(r)
    \/ Reject(r)

Spec == Init /\ [][Next]_<<heard, verdict>>
=============================================================================
