-------------------------- MODULE SessionLifecycle --------------------------
(***************************************************************************)
(* What rotating refresh tokens promise about a session, the chain of      *)
(* tokens that starts with one login: it begins once, lasts for a while,   *)
(* and when it is over nothing brings it back.                             *)
(***************************************************************************)
CONSTANT Sessions

VARIABLE state   \* [Sessions -> "absent", "open" or "over"]

Move(s, from, to) ==
  /\ state[s] = from
  /\ state' = [state EXCEPT ![s] = to]

Init == state = [s \in Sessions |-> "absent"]

Begin(s) == Move(s, "absent", "open")

End(s) == Move(s, "open", "over")

Next == \E s \in Sessions : Begin(s) \/ End(s)

Spec == Init /\ [][Next]_state
=============================================================================
