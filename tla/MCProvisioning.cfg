SPECIFICATION Spec
CONSTANTS
  Requests = {r1, r2}
  Emails = {e1, e2}
  Handles = {h1, h2}
  Publishers = {p1, p2}
  Consumers = {c1, c2}
  MaxFaults = 1
  None = None
INVARIANTS PeopleAreUnique PublishedIsAccountedFor
PROPERTIES RegisteredIsPublished RegisteredGetsWallet
CHECK_DEADLOCK FALSE
