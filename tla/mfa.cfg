\* Two requests at a time, from the first enrolment on: three time steps, the code of
\* the first in plain digits and that of the second in others, two sets of recovery
\* codes, one mailed code.
SPECIFICATION Spec
CONSTANTS
  Requests = {q1, q2}
  Secrets = {1}
  MaxStep = 3
  BackupCodes = {b1, b2}
  EmailCodes = {e1}
  PlainSteps = {1}
  WideSteps = {2}
  MaxAttempts = 1
  Wrong = Wrong
SYMMETRY Symmetry
INVARIANTS
  TypeOK
  AcceptedOnce
  ReplayedOnce
  GuessesAreBounded
CHECK_DEADLOCK FALSE
