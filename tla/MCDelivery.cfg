SPECIFICATION DeliverySpec
CONSTANTS
  Ann = Ann
  Shop = Shop
  Owners = {Ann, Shop}
  RolesOf <- DeliveryRoles
  Consumers = {c1, c2}
  Envelopes <- DeliveryEnvelopes
  Phones = {p1, p2}
  PushTokens = {t1, t2, t3}
  MaxCopies = 2
  MaxDeviceCalls = 2
  MaxPushFaults = 1
  Gateways = {g1}
  Replicas = {r1, r2}
  Sockets = {k1, k2, k3}
  Users = {u1}
  Staff = {s1}
  Unknown = Unknown
  MaxMessages = 2
  MaxChatFaults = 1
  Requests = {q1, q2}
  Clients = {a1}
  Asked = {"set config", "pin verify"}
  Bearers = {"user", "support"}
  Switches = {"auth_routes", "pin_verification"}
  MaxRequests = 2
  MaxArrivals = 3
  MaxRedisFaults = 1
  People = {h1, h2}
  Ratings = {0, 3, 19}
  Pages <- PageSizes
  Readers = {x1}
  IntLimit = 8
  MaxRows = 3
  MaxReads = 1
SYMMETRY DeliverySymmetry
INVARIANTS
  PushesHold
  DevicesHold
  ChatHolds
  LimitsHold
  SwitchesHold
  SupportHolds
CHECK_DEADLOCK FALSE
