--------------------------- MODULE MCReportCache ---------------------------
(* ReportCache with interchangeable requests.                              *)
EXTENDS ReportCache, TLC

Symmetry == Permutations(Requests)
=============================================================================
