SPECIFICATION Spec
CONSTANTS
  Countries = {us}
  Versions = {1, 2, 3, 4}
  Format2 = {1, 2, 4}
  FirstStored <- MCFirstStored
  Seeders <- MCSeeders
  Release <- rel
  KeptOthers = 2
  PrunedPerRun = 1
  Budgets <- MCBudgets
  Requests = {r1, r2}
  Asked = {1}
  NoParts = {4}
  Capacity = 1
SYMMETRY Symmetry
INVARIANTS ServingIsKept RecentAreKept AnswersAreTrue WaitersHaveABuild
