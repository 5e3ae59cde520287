------------------------------- MODULE Grants -------------------------------
(***************************************************************************)
(* Who reaches which rows: the scope filters of octonomy/core/selectors.py,*)
(* the grants of octonomy/service_auth, and the decision that              *)
(* octonomy/core/auth.py takes for one request from the grants its client  *)
(* holds in the tenant.  Everything here is a function of a request and a  *)
(* set of grants; when each is read is the subject of module Access.       *)
(***************************************************************************)
CONSTANTS
  Apps,        \* application ids
  Namespaces,  \* namespaces, each a type and an id
  Shared,      \* application_id None: a shared row, a tenant-wide grant, no application named
  Global,      \* namespace None
  Wildcard,    \* namespace_wildcard of a grant
  Absent       \* the request's body has no application_id

ASSUME GrantsAssumption ==
  /\ Shared \notin Apps /\ Absent \notin Apps /\ Shared # Absent
  /\ Global \notin Namespaces /\ Wildcard \notin Namespaces /\ Global # Wildcard

Ids == Apps \union {Shared}
Spaces == Namespaces \union {Global}

-----------------------------------------------------------------------------
(* Rows.  A namespaced row sits below an application (namespace_scope_     *)
(* check); assignments always name one.                                    *)
Scopes == {s \in [app : Ids, ns : Spaces] : s.ns # Global => s.app # Shared}
AssignmentScopes == {s \in Scopes : s.app # Shared}

Compatible_by_application(row, target) == \* mutant: the namespaces are not compared
  target.app \in {Shared, row.app}

(* validate_tag_vocabulary, validate_alias_tag, validate_tag_for_assignment*)
Compatible(row, target) == target.app \in {Shared, row.app} /\ target.ns \in {Global, row.ns}

namespace_q(ns, include_global) == {ns} \union (IF include_global THEN {Global} ELSE {})

(* The applications a lookup is bound to; Ids, that is None in the code,   *)
(* binds it to nothing.                                                    *)
apply_application_filter(ids, include_shared) ==
  ids \union (IF include_shared THEN {Shared} ELSE {})

Visible(ns, include_global, ids, include_shared) ==
  {s \in Scopes : /\ s.ns \in namespace_q(ns, include_global)
                  /\ s.app \in apply_application_filter(ids, include_shared)}

-----------------------------------------------------------------------------
(* Grants of one client in one tenant: tenant-wide or of an application,   *)
(* of the global namespace, of one namespace, or of all of them.           *)
ApiScopes == {"read", "write"}
Grants ==
  {g \in [app : Ids, ns : Spaces \union {Wildcard}, scopes : SUBSET ApiScopes] :
     g.ns \in Namespaces => g.app # Shared}

has_scope(g, scope) == scope \in g.scopes
grant_matches_namespace(g, ns) == g.ns \in {ns, Wildcard}

grant_authorizes_any_application(g, app, ns, scope) == \* mutant: a namespaced request may name no application
  /\ has_scope(g, scope)
  /\ g.app \in {Shared, app}
  /\ grant_matches_namespace(g, ns)

grant_authorizes(g, app, ns, scope) ==
  /\ has_scope(g, scope)
  /\ g.app \in {Shared, app}
  /\ ns # Global => app # Shared
  /\ grant_matches_namespace(g, ns)

-----------------------------------------------------------------------------
(* A request: the view, the version of the API, the namespace headers, the *)
(* application_id of the query and of the body, and the query parameters   *)
(* include_global, include_shared and, for tag resolution, scope.          *)
Reads == {"list", "detail", "resolve", "tag_resources", "resource_tags"}
Writes == {"create", "update", "delete", "assign", "unassign"}
Qualifiers == {"none", "global", "merchant"}
Requests ==
  [view : Reads \union Writes, v2 : BOOLEAN, ns : Spaces, query : Ids,
   body : Ids \union {Absent}, include_global : BOOLEAN, include_shared : BOOLEAN,
   scope : Qualifiers]

required_scope(q) == IF q.view \in Reads THEN "read" ELSE "write"

(* resolve_scope_context: v1 refuses namespace headers.                    *)
Routable(q) == q.v2 \/ q.ns = Global
_wants_global(q) == q.v2 /\ (q.include_global \/ (q.view = "resolve" /\ q.scope = "global"))
requested_scope_contexts(q) == namespace_q(q.ns, _wants_global(q))

(* A read names applications in its query only.                            *)
application_ids_from_request(q) ==
  (IF q.view \in Reads THEN {q.query} ELSE {q.query, q.body}) \intersect Apps
application_targets(q) ==
  IF application_ids_from_request(q) = {} THEN {Shared} ELSE application_ids_from_request(q)

authorized_by_some_application(gs, q) == \* mutant: the union over the named applications
  {ns \in requested_scope_contexts(q) : \E app \in application_targets(q) :
     \E g \in gs : grant_authorizes(g, app, ns, required_scope(q))}

(* The requested namespaces that are granted for every named application.  *)
authorized_scope_contexts(gs, q) ==
  {ns \in requested_scope_contexts(q) : \A app \in application_targets(q) :
     \E g \in gs : grant_authorizes(g, app, ns, required_scope(q))}
request_include_global_unasked(gs, q) == \* mutant: wherever it is authorized
  \A app \in application_targets(q) :
    \E g \in gs : grant_authorizes(g, app, Global, required_scope(q))

request_include_global(gs, q) == Global \in authorized_scope_contexts(gs, q)

(* Whether a write may refer to global rows: not an opt-in of the request. *)
request_authorizes_global_references(gs, q) ==
  \A app \in application_targets(q) :
    \E g \in gs : grant_authorizes(g, app, Global, required_scope(q))

(* The applications granted in the request's namespace, for a PATCH.       *)
authorized_application_ids(gs, q) ==
  LET granted == {g \in gs : has_scope(g, required_scope(q)) /\ grant_matches_namespace(g, q.ns)}
  IN IF \E g \in granted : g.app = Shared THEN Ids ELSE {g.app : g \in granted}

has_permission(gs, q) == q.ns \in authorized_scope_contexts(gs, q)

(* application_filter_params: a PATCH may find a row that its body cannot  *)
(* move; everything else acts in the applications it named.                *)
application_filter_params_patched(gs, q) == \* mutant: a PATCH is bound to nothing
  IF q.view = "update" \/ application_ids_from_request(q) = {}
  THEN Ids ELSE application_ids_from_request(q)

application_filter_params(gs, q) ==
  IF q.view = "update" THEN authorized_application_ids(gs, q)
  ELSE IF application_ids_from_request(q) = {} THEN Ids
  ELSE application_ids_from_request(q)

-----------------------------------------------------------------------------
(* effective_resolution_scope: the qualifier `scope` of tag resolution pins*)
(* the namespace; an unauthorized or senseless pin is refused.             *)
ResolutionAllowed(q, authorized_global) ==
  /\ q.scope = "global" => authorized_global
  /\ q.scope = "merchant" => q.ns # Global
ResolutionScope(q) == IF q.scope = "global" THEN Global ELSE q.ns
ResolutionIncludesGlobal(q, authorized_global) == q.scope = "none" /\ authorized_global

(* Scopes that resolution may match: without an application, only shared   *)
(* rows of a global request (filter_no_application_resolution).            *)
ResolutionRows(ns, include_global, app) ==
  {s \in Scopes :
     /\ s.ns \in namespace_q(ns, include_global)
     /\ IF app = Shared THEN s.app = Shared \/ (ns # Global /\ s.ns = ns)
                        ELSE s.app \in {Shared, app}}

=============================================================================
