------------------------------ MODULE MCAccess ------------------------------
(* Instances of Access for TLC.                                            *)
EXTENDS Access, TLC
CONSTANTS m1, m2, app1, app2

Full == {g \in Grants : g.scopes = ApiScopes}
OneOrTwo == {{g} : g \in Grants} \union {{g, h} : g, h \in Full}
Merchant == [app |-> app1, ns |-> m1, scopes |-> ApiScopes]
Everyone == [app |-> Shared, ns |-> Wildcard, scopes |-> ApiScopes]

(* Every grant and every pair of full grants, undisturbed; and a merchant  *)
(* client while two things happen to it, a tenant-wide one while one does. *)
MCSeeds ==
  {[grants |-> gs, flags |-> Flags, operations |-> 0] : gs \in OneOrTwo}
  \union {[grants |-> {Merchant}, flags |-> Flags, operations |-> 2],
          [grants |-> {Everyone, Merchant}, flags |-> Flags, operations |-> 1]}

ScopeSymmetry == Permutations(Apps) \union Permutations(Namespaces)
=============================================================================
