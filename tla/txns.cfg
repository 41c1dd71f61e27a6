\* Two clients, two workers, three requests sent up to twice.
CONSTANTS
  Client = {c1, c2}
  Worker = {w1, w2}
  Case <- Cases
  Key <- Keys
  RequestOf <- Requests
  MaxSends = 2
  Nobody = Nobody
SPECIFICATION Spec
SYMMETRY Sessions
INVARIANTS AdvancesOnce JoinNotMissed KeyLoggedOnce
CHECK_DEADLOCK FALSE
