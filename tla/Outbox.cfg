CONSTANTS
  t1 = t1
  t2 = t2
  Orders = {o1, o2}
  Topics <- TwoTopics
  Servers = {s1, s2}
  MaxFaults = 1
SYMMETRY Symmetric
SPECIFICATION OutboxSpec
INVARIANTS PaymentHasEvent ProducedHasCopies
CHECK_DEADLOCK FALSE
