----------------------------- MODULE AsyncCalls -----------------------------
(***************************************************************************)
(* What async_invoke promises its caller (module LevinConnection has how): *)
(* a call that is not refused on the spot has its callback called once,    *)
(* with the peer's answer to that call or with an error, and sooner or     *)
(* later it is called.                                                     *)
(***************************************************************************)
CONSTANT Calls

VARIABLE outcome      \* [Calls -> what the caller knows]

Init == outcome = [c \in Calls |-> "not made"]

Accept(c) == outcome[c] = "not made" /\ outcome' = [outcome EXCEPT ![c] = "pending"]
Refuse(c) == outcome[c] = "not made" /\ outcome' = [outcome EXCEPT ![c] = "refused"]
Answer(c) == outcome[c] = "pending"  /\ outcome' = [outcome EXCEPT ![c] = "answered"]
Fail(c)   == outcome[c] = "pending"  /\ outcome' = [outcome EXCEPT ![c] = "failed"]

Next == \E c \in Calls : Accept(c) \/ Refuse(c) \/ Answer(c) \/ Fail(c)

Safety == Init /\ [][Next]_outcome

Spec == /\ Safety
        /\ \A c \in Calls : WF_outcome(Answer(c) \/ Fail(c))
=============================================================================
