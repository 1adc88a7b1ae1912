SPECIFICATION EmptySpec
CONSTANTS
  Clients = {c1, c2}
  Folders = {1, 2}
  app = app
  web = web
  x = x
  Ids = {app, web, x}
  NameOf <- TwoNames
  None = None
  Bad = Bad
  Repositories <- SmallRepositories
  Drafts <- SmallDrafts
  Budgets <- SmallBudgets
  Names = {n1, n2}
  n1 = n1
  Keys = {k1}
  MaxConfigs = 3
  MaxMishaps = 1
INVARIANTS ProjectIdsResolve
CHECK_DEADLOCK FALSE
