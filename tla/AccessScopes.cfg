\* Every request of one client: with every grant and pair of grants, and while operators intervene.
CONSTANTS
  m1 = m1  m2 = m2  app1 = app1  app2 = app2
  Apps = {app1, app2}
  Namespaces = {m1, m2}
  Shared = Shared
  Global = Global
  Wildcard = Wildcard
  Absent = Absent
  Handlers = {r1}
  Processes = {p1}
  Seeds <- MCSeeds
SPECIFICATION Spec
SYMMETRY ScopeSymmetry
INVARIANTS
  TypeOK
  AnswersWithinGrants
  ReadsStayInScope
  WritesStayInScope
  RevokedForGood
  NamespacesNeedTheirFlags
