\* One merchant, whose calls wait for the rows and the slugs of one another.
CONSTANTS
  v1 = v1  t1 = t1  t2 = t2  a1 = a1  s1 = s1  s2 = s2
  app = app  merchant = merchant
  Vocabularies = {v1}
  Tags = {t1, t2}
  Aliases = {a1}
  Slugs = {s1, s2}
  App <- OneApp
  Ns <- OneNs
  Shared = Shared
  Global = Global
  NoRow = NoRow
  NoSlug = NoSlug
  Requests = {r1, r2}
  Services = {"create_tag", "update_tag_alias", "deactivate_tag", "reactivate_tag", "reactivate_tag_alias"}
  Seeds <- OneMerchant
  MaxCalls = 4
SPECIFICATION FairSpec
\* The calls are used up: nobody has to call again.
CHECK_DEADLOCK FALSE
INVARIANTS
  DeadlocksNeedSlugs
PROPERTIES
  CallsFinish
