\* Two executors, two stages with any cap, two interrupts.
CONSTANTS
  e1 = e1
  e2 = e2
  Executors <- TwoExecutors
  Caps = {"none", "cgroup", "rapl"}
  MaxStages = 2
  MaxInterrupts = 2
SPECIFICATION FairSpec
INVARIANTS NoCapLeft CappedAsAsked
PROPERTIES StagesEnd
CHECK_DEADLOCK FALSE
