---------------------------- MODULE MCAuditTrail ----------------------------
(* Instance of AuditTrail for TLC: a manager creates a budget and reads one,  *)
(* another user tries both; the imported row cannot be decrypted.             *)
EXTENDS AuditTrail, TLC

CONSTANTS make, view, grab, peek, \* requests
          sealed                  \* an imported budget

MCRequests == {make, view, grab, peek}
MCManager == {make, view}

MCAction ==
  [q \in MCRequests |-> IF q \in {make, grab} THEN "CREATE_BUDGET" ELSE "VIEW_BUDGET"]
=============================================================================
