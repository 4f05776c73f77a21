CONSTANTS
  t1 = t1
  t2 = t2
  Orders = {o1}
  Topics <- TwoTopics
  Servers = {s1}
  MaxFaults = 1
  Handlers = {h1, h2}
  MaxLog = 1
  MaxInboxFaults = 1
SPECIFICATION LiveSpec
INVARIANTS DoneIsAudited LostOnlyInEveryTopic
PROPERTIES ImplementsAuditTrail PaidIsAudited
CHECK_DEADLOCK FALSE
