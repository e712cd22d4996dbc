SPECIFICATION Spec
CONSTANTS
  d1 = d1  d2 = d2  d3 = d3  all = all
  Data = {d1, d2, d3}
  Rank <- MCRank
  Prefix = {all}
  Under <- MCUnder
  FreshnessPeriod <- MCFreshnessPeriod
  Limits = {0, 2, 3}
  Counts = {1, 3}
  NoCount = 9
  NoRound = NoRound
  EraseLimit = 2
  Policies = {"lru", "priority_fifo"}
INVARIANTS TypeOK QueuesHoldTable WithinLimit TimersMatchQueues EraseReachesAll
PROPERTIES EvictsInOrder EvictsOldest
