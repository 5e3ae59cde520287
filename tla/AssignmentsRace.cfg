\* Every service, two writers of one resource, globally and for a merchant, under a tag that changes.
CONSTANTS
  Tags = {1, 2}
  Global = Global
  Merchant = Merchant
  Scopes = {Global, Merchant}
  Compatible <- AllPairs
  Initially <- MCInitially
  Requests = {r1, r2}
  Nobody = Nobody
  Services = {"assign_tag", "remove_tag_assignment", "bulk_assign_tags", "bulk_remove_tags",
    "replace_resource_tags"}
  MaxBulk = 2
  MaxCalls = 2
  MaxToggles = 1
SPECIFICATION FairSpec
\* The calls are used up: nobody has to call again.
CHECK_DEADLOCK FALSE
INVARIANTS
  TypeOK
  EventsTellTheRows
  DeadlocksHaveCauses
PROPERTIES
  CallsAreExact
  CallsFinish
