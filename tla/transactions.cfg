SPECIFICATION FairSpec
CONSTANTS
  headers = headers
  orders = orders
  p1 = p1
  p2 = p2
  Col = {headers, orders}
  ID = {1, 2}
  Value = {0, 1}
  NoModel = NoModel
  Proc = {p1, p2}
  Model <- MCModel
  Filter <- MCFilter
  Roles <- MCRoles
INVARIANTS
  Integrity
  QueryIsComplete
PROPERTIES
  Isolation
  AllOrNothing
  OpenReturns
