CONSTANTS
  Missions = {m1}
  Pods = {p1}
  Disputes = {x1}
  Sessions = {s1, s2}
  Parties = {}
  Amounts = {}
  OpenStatuts = {"OUVERT"}
  ClosedStatuts = {"CLOS_ACCEPTE"}
  None = None
SPECIFICATION Spec
SYMMETRY Symmetry
INVARIANTS TypeOK ClosedOnEvidence PaperworkFollowsTransport DeliveredIsAudited
PROPERTY FollowsLifecycle
