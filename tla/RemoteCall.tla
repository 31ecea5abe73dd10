----------------------------- MODULE RemoteCall -----------------------------
(***************************************************************************)
(* What a remote call promises its caller: the service runs at most once   *)
(* for it; an answer is the answer to this call; a call that is refused,   *)
(* or whose context was done before it began, never runs; a call that      *)
(* fails in any other way may have run, or may run yet.                    *)
(***************************************************************************)
EXTENDS Integers

CONSTANT Calls

VARIABLES
  executed,  \* how often the service has run for each call
  outcome    \* what each caller has got

vars == <<executed, outcome>>

Uncalled == [of |-> 0, what |-> "uncalled"]
Pending  == [of |-> 0, what |-> "pending"]
Failed   == [of |-> 0, what |-> "failed"]
Expired  == [of |-> 0, what |-> "expired"]
Value(c)   == [of |-> c, what |-> "value"]
Refusal(c) == [of |-> c, what |-> "refused"]

Init ==
  /\ executed = [c \in Calls |-> 0]
  /\ outcome = [c \in Calls |-> Uncalled]

Become(c, old, new) ==
  /\ outcome[c] = old
  /\ outcome' = [outcome EXCEPT ![c] = new]
  /\ UNCHANGED executed

Call(c)   == Become(c, Uncalled, Pending)
Expire(c) == Become(c, Uncalled, Expired)
Fail(c)   == Become(c, Pending, Failed)
Answer(c) == executed[c] = 1 /\ Become(c, Pending, Value(c))
Refuse(c) == executed[c] = 0 /\ Become(c, Pending, Refusal(c))

Execute(c) ==
  /\ outcome[c] \in {Pending, Failed}
  /\ executed[c] = 0
  /\ executed' = [executed EXCEPT ![c] = 1]
  /\ UNCHANGED outcome

Next == \E c \in Calls : \/ Call(c) \/ Expire(c) \/ Fail(c)
                         \/ Answer(c) \/ Refuse(c) \/ Execute(c)

Spec == Init /\ [][Next]_vars

=============================================================================
