------------------------------ MODULE MCPaging ------------------------------
(* Paging over three imported rows, two of them of one day and one of those *)
(* without its columns, an SPD of today, one whose transaction began before *)
(* it and ends after it, and a new one.  A row of another unit is hidden.   *)
EXTENDS Paging

CONSTANTS old1, old2, old3, today, late, new, foreign

MCStamp ==
  [r \in Rows |-> CASE r \in {old1, old2} -> 1 [] r = old3 -> 2 [] r = late -> 3
                    [] r \in {today, foreign} -> 4 [] r = new -> 5]
=============================================================================
