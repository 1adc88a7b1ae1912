SPECIFICATION StartSpec
CONSTANTS
  Clients = {c1, c2}
  f1 = f1
  f2 = f2
  x = x
  y = y
  f3 = f3
  f4 = f4
  feed = feed
  fx = fx
  Paths = {f1, f2, f3, f4}
  Inside <- SmallInside
  Contents = {x, y, Blank, Dashes, feed, fx}
  Halves <- SmallHalves
  Blank = Blank
  Dashes = Dashes
  None = None
  Folder = Folder
  Link = Link
  top = top
  h1 = h1
  h2 = h2
  x_ = x_
  h_ = h_
  Bad = Bad
  main = main
  run = run
  Body = top
  NoWords = NoWords
  Limit = 9
  Headings <- SmallHeadings
  Words <- SmallWords
  Outdented <- SmallOutdented
  Docs <- SmallDocs
  NewDocs <- SmallNewDocs
  Updates <- SmallUpdates
  DocBudgets <- SmallDocBudgets
  Disks <- SmallDisks
  NewText <- SmallText
  Patches <- SmallPatches
  Budgets <- SmallBudgets
  Files <- SmallFiles
  Texts <- SmallCode
  Names <- SmallNames
  StartTexts <- SmallTrees
  GraphBudgets <- SmallGraphBudgets
SYMMETRY Symmetric
INVARIANTS TypeOK PatchesAreExact CallsAreExact PatchesKeepDocuments IndexIsHonest
CHECK_DEADLOCK FALSE
