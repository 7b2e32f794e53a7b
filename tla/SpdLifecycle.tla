---------------------------- MODULE SpdLifecycle ----------------------------
(***************************************************************************)
(* What the SPD workflow promises about table spds, whatever the number of *)
(* replicas and messages: an SPD is drafted, submitted once and decided,   *)
(* in this order and never back.  Whether a decision may be replaced by a  *)
(* later one is the constant Redecidable.                                  *)
(***************************************************************************)
CONSTANTS
  Spds,
  Redecidable   \* BOOLEAN

VARIABLE status

Decisions == {"APPROVED", "REJECTED"}

Move(s, from, to) ==
  /\ status[s] \in from
  /\ status' = [status EXCEPT ![s] = to]

Init == status \in [Spds -> {"ABSENT", "SUBMITTED"}]

Create(s) == Move(s, {"ABSENT"}, "DRAFT")

Submit(s) == Move(s, {"DRAFT"}, "SUBMITTED")

Decide(s) ==
  \E v \in Decisions :
    Move(s, {"SUBMITTED"} \cup (IF Redecidable THEN Decisions ELSE {}), v)

Next == \E s \in Spds : Create(s) \/ Submit(s) \/ Decide(s)

Spec == Init /\ [][Next]_status
=============================================================================
