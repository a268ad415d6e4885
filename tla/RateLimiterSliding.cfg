CONSTANTS
  IPs = {ip1, ip2}
  Limit = 2
  Window = 2
  MaxTime = 6
  MaxRequests = 6
SPECIFICATION MCSpec
INVARIANTS SlidingWindow

