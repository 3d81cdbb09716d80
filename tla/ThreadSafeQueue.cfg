\* Two producers, two consumers, two closers, a queue of two slots.
SPECIFICATION Spec
CONSTANTS
  Producers = {p1, p2}
  Consumers = {c1, c2}
  Closers = {x1, x2}
  MaxSize = 2
  MaxPushes = 2
INVARIANTS NoLostWakeup
PROPERTIES RefinesClosableQueue ConsumersReturn
CHECK_DEADLOCK FALSE
