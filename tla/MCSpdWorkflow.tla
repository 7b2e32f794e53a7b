--------------------------- MODULE MCSpdWorkflow ---------------------------
(* Instances of SpdWorkflow for TLC: a clerk without a deciding role, one or  *)
(* two approvers, a draft and an imported SPD.                                   *)
EXTENDS SpdWorkflow, TLC

CONSTANTS clerk, boss, fin,   \* users
          s1, s2              \* SPDs

MCUsers == {clerk, boss, fin}
MCPair == {clerk, boss}
MCRole == clerk :> "USER" @@ boss :> "APPROVER" @@ fin :> "FINANCE"
MCMembers == {clerk, boss}

\* s2 was imported with its one approval, addressed to boss ...
LegacyOne == << [spd |-> s2, approver |-> boss] >>

\* ... or with two steps, the second one for anybody.
LegacySteps ==
  << [spd |-> s2, approver |-> boss], [spd |-> s2, approver |-> NoUser] >>

LegacyNone == <<>>
=============================================================================
