\* One client and one worker, each request sent once.
CONSTANTS
  Client = {c1}
  Worker = {w1}
  Case <- Cases
  Key <- Keys
  RequestOf <- Requests
  MaxSends = 1
  Nobody = Nobody
SPECIFICATION Spec
INVARIANTS AdvancesOnceEver
CHECK_DEADLOCK FALSE
