SPECIFICATION Spec
CONSTANTS
  Summaries = {s1}
  CSVs = {c1}
  Nobody = Nobody
  Requests = {q1, q2}
  Started = {TRUE, FALSE}
  TTL = 2
  Latency = 1
  MaxWrites = 2
  MaxTime = 4
  MaxOutages = 1
INVARIANT AnswersFresh
 
INVARIANT NeverBack
SYMMETRY Symmetry
CHECK_DEADLOCK FALSE
