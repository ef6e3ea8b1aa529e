SPECIFICATION RGFairSpec
CONSTANTS
  Callers = {c1, c2, c3}
  Keys = {k1, k2, k3}
  Flights = {f1, f2, f3}
  NoFlight = NoFlight
  NoKey = NoKey
  MaxActive = 2
INVARIANTS
  FlightsShared
  NoGhostTickets
PROPERTIES
  CallsEnd
