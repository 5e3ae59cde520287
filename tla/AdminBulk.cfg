\* Two transactions at a time, each with up to two rows: bulk actions and single calls.
CONSTANTS
  v1 = v1  t1 = t1  t2 = t2  a1 = a1  a2 = a2  s1 = s1  s2 = s2
  Vocabularies = {v1}
  Tags = {t1, t2}
  Aliases = {a1, a2}
  Assignments = {s1, s2}
  Namespaced = {a2, s2}
  NoRow = NoRow
  Requests = {r1, r2}
  Services = {"deactivate_vocabulary", "reactivate_vocabulary", "deactivate_tag", "reactivate_tag",
    "deactivate_tag_alias", "reactivate_tag_alias", "update_tag_alias", "remove_tag_assignment"}
  Seeds <- MCTables
  MaxSelected = 2
  MaxSessions = 3
SPECIFICATION Spec
SYMMETRY RequestSymmetry
\* The transactions are used up: nobody has to start another.
CHECK_DEADLOCK FALSE
INVARIANTS
  TypeOK
  AliasFollowsTag
  DeadlocksNeedBulk
PROPERTIES
  AllOrNothing
