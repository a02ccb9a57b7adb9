CONSTANTS
  c1 = c1
  c2 = c2
  r1 = r1
  r2 = r2
  d1 = d1
  d2 = d2
  NoVal = NoVal
  NoClient = NoClient
  Clients <- MCClients
  RAs <- MCRAs
  Decs <- MCDecs
  MaxGen = 1
SPECIFICATION FairSpec
INVARIANTS TypeOK GotoInv
PROPERTIES WholeTarget ToldMeansMoved EveryGotoAnswered Atomic

