SPECIFICATION Spec
CONSTANTS
  r1 = r1
  r2 = r2
  r3 = r3
  r4 = r4
  o1 = o1
  o2 = o2
  None = None
  Expired = Expired
  Workers = {w1}
  RequestIds = {r1, r2}
  Users = {1, 2}
  Orgs = {o1, o2}
  Org <- MCOrg
  MaxDepth = 0
INVARIANTS
  BulkAdvances
