\* The two services whose lock order is tag before alias, in bulk.
CONSTANTS
  v1 = v1  t1 = t1  t2 = t2  a1 = a1  a2 = a2  s1 = s1  s2 = s2
  Vocabularies = {v1}
  Tags = {t1, t2}
  Aliases = {a1, a2}
  Assignments = {s1, s2}
  Namespaced = {a2, s2}
  NoRow = NoRow
  Requests = {r1, r2}
  Services = {"deactivate_tag", "reactivate_tag_alias"}
  Seeds <- MCTables
  MaxSelected = 2
  MaxSessions = 3
SPECIFICATION Spec
SYMMETRY RequestSymmetry
\* The transactions are used up: nobody has to start another.
CHECK_DEADLOCK FALSE
INVARIANTS
  ReactivationsCannotDeadlock
