\* Every permitted lookup of one slug while the rows with that slug change.
CONSTANTS
  Apps = {app1, app2}
  Namespaces = {m1, m2}
  Shared = Shared
  Global = Global
  Wildcard = Wildcard
  Absent = Absent
  Types = {t1, t2}
  AnyType = AnyType
  Clients <- MCClients
  MaxRows = 3
SPECIFICATION Spec
SYMMETRY RowSymmetry
INVARIANTS
  TypeOK
  ResolvesTheLadder
  StableRowsAreFound
  OnlyTypesAreAmbiguous
  AliasesWidenNothing
