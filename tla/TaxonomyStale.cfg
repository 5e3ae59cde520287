\* A PATCH overlaps a delete and undoes it.
CONSTANTS
  v1 = v1  t1 = t1  t2 = t2  a1 = a1  s1 = s1  s2 = s2
  app = app  merchant = merchant
  Vocabularies = {v1}
  Tags = {t1, t2}
  Aliases = {a1}
  Slugs = {s1, s2}
  App <- MCApp
  Ns <- MCNs
  Shared = Shared
  Global = Global
  NoRow = NoRow
  NoSlug = NoSlug
  Requests = {r1, r2}
  Services = {"update_tag", "deactivate_tag"}
  Seeds <- OnlyPopulated
  MaxCalls = 2
SPECIFICATION Spec
\* The calls are used up: nobody has to call again.
CHECK_DEADLOCK FALSE
INVARIANTS
  EventsNameEveryChange
