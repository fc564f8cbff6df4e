\* One recall over three records, with one mutation during it.
SPECIFICATION Spec
CONSTANTS
  NumRecords = 3
  Profiles <- SomeProfiles
  Users = {"u", "v"}
  Projects = {"p", "q"}
  TopKs <- SomeTopKs
  Budgets = {0, 3}
  MaxMutations = 1
INVARIANTS TypeOK RankedTopK MatchesInSight BudgetUsedWell HitsInScope
