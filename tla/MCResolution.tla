---------------------------- MODULE MCResolution ----------------------------
(* Instances of Resolution for TLC.                                        *)
EXTENDS Resolution, TLC

(* Clients with one full grant, or two.                                    *)
MCClients ==
  LET full == {g \in Grants : g.scopes = ApiScopes} IN {{g, h} : g, h \in full}

RowSymmetry == Permutations(Apps) \union Permutations(Namespaces) \union Permutations(Types)
=============================================================================
