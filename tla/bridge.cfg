\* One request of the reference command on each system, or two Codex requests.
\* A bridge that has served its requests may stop: no deadlock check.
SPECIFICATION FairSpec
CONSTANTS
  Systems <- BothSystems
  MaxLines = 2
  Reqs = {q1, q2}
  MaxChanges = 1
INVARIANTS TypeOK  StoppedTreeIsGone TraceIsTheAnswers
PROPERTIES RequestsEnd 
CHECK_DEADLOCK FALSE
