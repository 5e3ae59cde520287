\* Two callers at a time, every service, from a populated, a dormant, a retired and a bare taxonomy.
CONSTANTS
  v1 = v1  t1 = t1  t2 = t2  a1 = a1  s1 = s1  s2 = s2
  app = app  merchant = merchant
  Vocabularies = {v1}
  Tags = {t1, t2}
  Aliases = {a1}
  Slugs = {s1, s2}
  App <- MCApp
  Ns <- MCNs
  Shared = Shared
  Global = Global
  NoRow = NoRow
  NoSlug = NoSlug
  Requests = {r1, r2}
  Services = {"create_vocabulary", "update_vocabulary", "deactivate_vocabulary",
    "reactivate_vocabulary", "create_tag", "update_tag", "deactivate_tag", "reactivate_tag",
    "create_tag_alias", "update_tag_alias", "deactivate_tag_alias", "reactivate_tag_alias"}
  Seeds <- AllTables
  MaxCalls = 3
SPECIFICATION Spec
SYMMETRY RequestSymmetry
\* The calls are used up: nobody has to call again.
CHECK_DEADLOCK FALSE
INVARIANTS
  TypeOK
  ScopesContained
  AliasFollowsTag
  CheckedUnderLock
  EventsTellTheTable
PROPERTIES
  TagDeletesAreReal
  KillSwitchProtects
