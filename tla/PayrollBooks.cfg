\* One order that changes hands, a provider call and a build under way, two months and the one after.
SPECIFICATION Spec
CONSTANTS
  w1 = w1
  w2 = w2
  o1 = o1
  b1 = b1
  c1 = c1
  Workers <- TwoWorkers
  Admin = Admin
  NoWorker = NoWorker
  Orders <- OneOrder
  Builds <- OneBuild
  Calls <- OneCall
  LastMonth = 2
  Drafted = {1, 2}
  Targets = {"PROCESSING", "COMPLETED", "DISPUTED", "REFUNDED"}
SYMMETRY Symmetry
INVARIANTS
  ReversalFollowsApproval
  CountedInOneMonth
PROPERTIES
  OnlyRacersRewrite
