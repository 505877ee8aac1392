\* Shifts at employers whose centre moves and whose members come and go, every
\* rule, and two handlers at once on the booking of a personal shift.
CONSTANTS
  None = None  u1 = u1  u2 = u2  acme = acme  bistro = bistro
  site = site  edge = edge  far = far
  Users = {u1, u2}
  Employers = {acme, bistro}
  Locs = {site, edge, far}
  Near <- MCNear
  Keys = {"a", "A", "x", "y"}
  Slots = {1, 2}
  Events <- WorkplaceEvents
  MaxClockSkew = 1
  MaxQueuedAge = 2
  MaxNow = 4
SPECIFICATION WorkplaceSpec
CONSTRAINT OneStory
INVARIANTS VerifiedIffOnSite ClosableWhereItStarted
