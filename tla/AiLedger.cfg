SPECIFICATION FairSpec
CONSTANTS
  drafting = drafting  rewrite = rewrite
  c1 = c1  c2 = c2  g1 = g1  g2 = g2  g3 = g3
  Calls = {c1, c2}
  Generations = {g1, g2}
  Advisory = {g2}
  Profiles = {drafting, rewrite}
  Reservation <- MCReservation
  Costs = {1, 27}
  Cap = 12
  Limits = {5, 12}
  MaxMonth = 2
  MaxApplied = 2
  None = None
INVARIANTS ReservationsFit AcceptedIsApplied
PROPERTIES ReservationsDecided
