------------------------------- MODULE Access -------------------------------
(***************************************************************************)
(* One API client's requests from routing to answer, while operators       *)
(* revoke its token, remove grants, change the rollout flags and restart   *)
(* processes.  Routing (core/versioning.py) and BearerTokenPermission      *)
(* (core/auth.py) run before the view; the client, its grants and the rows *)
(* are separate statements outside a common transaction, so each is read   *)
(* at a moment of its own.  Flags are read when a process boots.           *)
(*                                                                         *)
(* Rows appear as their scopes: which rows of a scope exist is of no       *)
(* concern here, and a view is taken to show all that its query admits.    *)
(***************************************************************************)
EXTENDS Grants, Naturals, FiniteSets

CONSTANTS
  Handlers,      \* requests of the client in flight
  Processes,     \* web processes, each with the settings it booted with
  Seeds          \* first: the grants, the flags, and (bound) what operators and time may do

Flags == {"SCHEMA", "READ", "AUTH", "V2_API", "WRITE"}

(* _NAMESPACE_FLAG_RULES, E010 to E015: what a flag requires.              *)
FlagRules ==
  {<<"READ", "SCHEMA">>, <<"AUTH", "READ">>, <<"WRITE", "SCHEMA">>, <<"WRITE", "READ">>,
   <<"V2_API", "READ">>, <<"V2_API", "AUTH">>}

Bootable_without_E015(flags) == \* mutant: V2_API no longer requires AUTH
  \A rule \in FlagRules \ {<<"V2_API", "AUTH">>} : rule[1] \in flags => rule[2] \in flags

(* namespace_flag_dependencies: `manage.py check` before a process serves. *)
Bootable(flags) == \A rule \in FlagRules : rule[1] \in flags => rule[2] \in flags

ASSUME AccessAssumption ==
  /\ Seeds \subseteq [grants : SUBSET Grants, flags : SUBSET Flags, operations : Nat]
  /\ \A seed \in Seeds : Bootable(seed.flags)
-----------------------------------------------------------------------------
VARIABLES
  client,      \* the ServiceClient row: active, expired, and last_used_at within its interval
  grants,      \* its grants in the tenant
  env,         \* the flags of the deployment
  booted,      \* the flags of each process
  operations,  \* what operators and time may still do
  (* Each request: where it is, the request, its process, the client as it *)
  (* was read, the grants as they were read, and what the answer shows,    *)
  (* carries inside (the tags of assignments), counts, writes and lets     *)
  (* written rows refer to.                                                *)
  pc, request, process, instance, cached, answer,
  (* Observation only: the grants held at some moment since the request    *)
  (* came, the end of the token, and which requests came after it.         *)
  held, ended, late

handlerVars == <<pc, request, process, instance, cached, answer>>
vars == <<client, grants, env, booted, operations, handlerVars, held, ended, late>>

Clients == [active : BOOLEAN, expired : BOOLEAN, fresh : BOOLEAN]
NoClient == [active |-> FALSE, expired |-> FALSE, fresh |-> FALSE]
Answers == [shown : SUBSET Scopes, carried : SUBSET Scopes, counted : SUBSET Scopes,
            written : SUBSET Scopes, referred : SUBSET Scopes]
NoAnswer == [shown |-> {}, carried |-> {}, counted |-> {}, written |-> {}, referred |-> {}]
NoRequest == [view |-> "list", v2 |-> FALSE, ns |-> Global, query |-> Shared, body |-> Absent,
              include_global |-> FALSE, include_shared |-> TRUE, scope |-> "none"]
Points == {"idle", "routed", "authenticated", "authorized", "permitted", "answered"}

Init ==
  /\ client \in {c \in Clients : c.active /\ ~c.expired}
  /\ \E seed \in Seeds :
       /\ grants = seed.grants
       /\ env = seed.flags
       /\ operations = seed.operations
  /\ booted = [p \in Processes |-> env]
  /\ pc = [r \in Handlers |-> "idle"]
  /\ request = [r \in Handlers |-> NoRequest]
  /\ process \in [Handlers -> Processes]
  /\ instance = [r \in Handlers |-> NoClient]
  /\ cached = [r \in Handlers |-> {}]
  /\ answer = [r \in Handlers |-> NoAnswer]
  /\ held = [r \in Handlers |-> {}]
  /\ ended = FALSE
  /\ late = [r \in Handlers |-> FALSE]

-----------------------------------------------------------------------------
(* The request is over: answered, refused, or lost with its process.       *)
Forget(rs) ==
  /\ pc' = [r \in Handlers |-> IF r \in rs THEN "idle" ELSE pc[r]]
  /\ request' = [r \in Handlers |-> IF r \in rs THEN NoRequest ELSE request[r]]
  /\ instance' = [r \in Handlers |-> IF r \in rs THEN NoClient ELSE instance[r]]
  /\ cached' = [r \in Handlers |-> IF r \in rs THEN {} ELSE cached[r]]
  /\ answer' = [r \in Handlers |-> IF r \in rs THEN NoAnswer ELSE answer[r]]
  /\ held' = [r \in Handlers |-> IF r \in rs THEN {} ELSE held[r]]
  /\ late' = [r \in Handlers |-> IF r \in rs THEN FALSE ELSE late[r]]
  /\ UNCHANGED process

Refuse(r) == Forget({r}) /\ UNCHANGED client

write_enabled(r, ns) == ns # Global => "WRITE" \in booted[process[r]]

(* What a client sends: a null application_id only where the body has one  *)
(* to set, the parameters only to the views that read them.                *)
Sendable(q) ==
  /\ q.body = Shared => q.view \in {"create", "update"}
  /\ q.scope # "none" => q.view = "resolve"
  /\ ~q.include_shared => q.view \in {"list", "detail", "update", "delete"}

(* Routing: versions, headers and the edge gate _reject_if_v2_api_disabled,*)
(* all before authentication.                                              *)
Route(r) ==
  /\ pc[r] = "idle"
  /\ \E q \in Requests, p \in Processes :
       /\ Sendable(q)
       /\ Routable(q)
       /\ q.ns # Global => "V2_API" \in booted[p]
       /\ request' = [request EXCEPT ![r] = q]
       /\ process' = [process EXCEPT ![r] = p]
  /\ pc' = [pc EXCEPT ![r] = "routed"]
  /\ held' = [held EXCEPT ![r] = grants]
  /\ late' = [late EXCEPT ![r] = ended]
  /\ UNCHANGED <<client, grants, env, booted, operations, instance, cached, answer, ended>>

(* authenticate_client: the row as it is now.                              *)
authenticate_client(r) ==
  /\ pc[r] = "routed"
  /\ IF client.active /\ ~client.expired
     THEN /\ instance' = [instance EXCEPT ![r] = client]
          /\ pc' = [pc EXCEPT ![r] = "authenticated"]
          /\ UNCHANGED <<client, request, process, cached, answer, held, late>>
     ELSE Refuse(r)
  /\ UNCHANGED <<grants, env, booted, operations, ended>>

(* request_tenant_grants: one query, kept for the rest of the request; and *)
(* what has_permission decides from it, the write gate last.               *)
Authorize(r) ==
  /\ pc[r] = "authenticated"
  /\ IF /\ has_permission(grants, request[r])
        /\ request[r].view \in Writes => write_enabled(r, request[r].ns)
     THEN /\ cached' = [cached EXCEPT ![r] = grants]
          /\ pc' = [pc EXCEPT ![r] = "authorized"]
          /\ UNCHANGED <<client, request, process, instance, answer, held, late>>
     ELSE Refuse(r)
  /\ UNCHANGED <<grants, env, booted, operations, ended>>

mark_client_used_saving_all(r) == \* mutant: save() of the instance, not of last_used_at only
  /\ pc[r] = "authorized"
  /\ client' = IF instance[r].fresh THEN client ELSE [instance[r] EXCEPT !.fresh = TRUE]
  /\ pc' = [pc EXCEPT ![r] = "permitted"]
  /\ UNCHANGED <<grants, env, booted, operations, request, process, instance, cached, answer,
                 held, ended, late>>

(* The interval is measured on the instance of the authentication; the     *)
(* UPDATE names one column.                                                *)
mark_client_used(r) ==
  /\ pc[r] = "authorized"
  /\ client' = IF instance[r].fresh THEN client ELSE [client EXCEPT !.fresh = TRUE]
  /\ pc' = [pc EXCEPT ![r] = "permitted"]
  /\ UNCHANGED <<grants, env, booted, operations, request, process, instance, cached, answer,
                 held, ended, late>>

-----------------------------------------------------------------------------
(* The views.  Each decides from the request and the grants it was         *)
(* permitted by, never from what the client holds by now.                  *)
Includes(r) == request_include_global(cached[r], request[r])
Found(r, include_global) ==
  Visible(request[r].ns, include_global, application_filter_params(cached[r], request[r]),
          request[r].include_shared)

(* filter_tags and filter_aliases: the application of the query, if any.   *)
Listed(r) ==
  LET q == request[r]
  IN Visible(q.ns, Includes(r), IF q.query = Shared THEN Ids ELSE {q.query}, q.include_shared)

(* assignments_for_tenant with the application of the query, if any.       *)
FoundAssignments(r) ==
  {s \in AssignmentScopes : /\ s.ns \in namespace_q(request[r].ns, Includes(r))
                            /\ request[r].query \in {Shared, s.app}}

Shown(r) ==
  LET q == request[r]
  IN CASE q.view = "list"              -> Listed(r)
       [] q.view = "detail"            -> Found(r, Includes(r))
       [] q.view = "resolve"           ->
            ResolutionRows(ResolutionScope(q), ResolutionIncludesGlobal(q, Includes(r)), q.query)
       [] q.view = "tag_resources"     -> Found(r, Includes(r)) \union FoundAssignments(r)
       [] q.view = "resource_tags"     -> FoundAssignments(r)

(* The tags that assignments of these scopes may have, each of which is    *)
(* shown whole with its assignment: nothing but validate_tag_for_assignment*)
(* bounds their scopes, neither include_global nor the grants do.          *)
TagsOf(assignments) == {s \in Scopes : \E a \in assignments : Compatible(a, s)}

Carried(r) == IF request[r].view = "resource_tags" THEN TagsOf(FoundAssignments(r)) ELSE {}

(* usage_count_filter: the assignments behind the usage counts of v2; the  *)
(* counts of v1 are of the whole tenant, by design.                        *)
Counted(r) ==
  LET q == request[r]
      ids == application_ids_from_request(q)
  IN IF ~q.v2 \/ q.view \in {"delete", "unassign"} THEN {} ELSE
     {s \in AssignmentScopes :
        /\ s.ns \in namespace_q(q.ns, q.view # "update" /\ Includes(r))
        /\ ids # {} => s.app \in ids}

Reply(r, shown, carried, written, referred) ==
  /\ answer' = [answer EXCEPT ![r] =
       [shown |-> shown, carried |-> carried, counted |-> Counted(r),
        written |-> written, referred |-> referred]]
  /\ pc' = [pc EXCEPT ![r] = "answered"]
  /\ UNCHANGED <<client, grants, env, booted, operations, request, process, instance, cached,
                 held, ended, late>>

Reject(r) == Refuse(r) /\ UNCHANGED <<grants, env, booted, operations, ended>>

At(r, views) == pc[r] = "permitted" /\ request[r].view \in views

Read(r) ==
  /\ At(r, Reads)
  /\ IF \/ request[r].view = "resource_tags" /\ request[r].query = Shared
        \/ request[r].view = "resolve" /\ ~ResolutionAllowed(request[r], Includes(r))
     THEN Reject(r)
     ELSE Reply(r, Shown(r), Carried(r), {}, {})

(* The row a serializer lets a written row refer to, and the service's     *)
(* check of it; `optional` as a vocabulary or a parent is.                 *)
Referable(r, row) ==
  {s \in Scopes :
     /\ s.ns \in namespace_q(request[r].ns,
                             request_authorizes_global_references(cached[r], request[r]))
     /\ Compatible(row, s)}

(* A service writes `row`: the scope checks of the serializer, the gate of *)
(* guard_namespace_write_enabled, then the write; and what the view answers*)
(* with.                                                                   *)
Write_unchecked(r, row, referred, shown, carried) == \* mutant: a null application passes in a namespaced request
  IF write_enabled(r, row.ns)
  THEN Reply(r, shown, carried, {row}, referred)
  ELSE Reject(r)

Write(r, row, referred, shown, carried) ==
  IF row \in Scopes /\ write_enabled(r, row.ns)
  THEN Reply(r, shown, carried, {row}, referred)
  ELSE Reject(r)

(* POST and PATCH answer with the row, which has no other inside.          *)
WriteAndShow(r, row, referred) == Write(r, row, referred, {row}, {})

(* create_payload_with_scope: the query's application stands in for the    *)
(* body's in a namespaced request; an explicit null is refused there.      *)
Row(r) ==
  LET q == request[r]
  IN [ns  |-> q.ns,
      app |-> IF q.body # Absent THEN q.body ELSE IF q.ns # Global THEN q.query ELSE Shared]

create(r) ==
  /\ At(r, {"create"})
  /\ \/ WriteAndShow(r, Row(r), {})
     \/ \E s \in Referable(r, Row(r)) : WriteAndShow(r, Row(r), {s})

(* guard_scope_immutable: a PATCH whose body names another application; one*)
(* that names a namespace is refused alike (update_data_with_body_scope).  *)
Moves(r, row) == request[r].body \notin {Absent, row.app}

update_falling_back(r) == \* mutant: the PATCH finds global rows as a GET does
  /\ At(r, {"update"})
  /\ \E row \in Found(r, Includes(r)) :
       IF Moves(r, row)
       THEN Reject(r)
       ELSE \/ WriteAndShow(r, row, {})
            \/ \E s \in Referable(r, row) : WriteAndShow(r, row, {s})

update(r) ==
  /\ At(r, {"update"})
  /\ \E row \in Found(r, FALSE) :
       IF Moves(r, row)
       THEN Reject(r)
       ELSE \/ WriteAndShow(r, row, {})
            \/ \E s \in Referable(r, row) : WriteAndShow(r, row, {s})

delete(r) ==
  /\ At(r, {"delete"})
  /\ \E row \in Found(r, FALSE) : Write(r, row, {}, {}, {})

(* The assignment views take application_id from the body only.  One and   *)
(* bulk answer with the assignments.                                       *)
assign(r) ==
  /\ At(r, {"assign"})
  /\ \E s \in Scopes :
       IF request[r].body \notin Apps \/ s \notin Referable(r, Row(r))
       THEN Reject(r)
       ELSE WriteAndShow(r, Row(r), {s})

(* A replacement may be without any tag.  It answers with the tags that the*)
(* resource has in the end, which need not all be of this request.         *)
replace(r) ==
  /\ At(r, {"assign"})
  /\ \E referred \in {{}} \union {{s} : s \in Scopes} :
       IF request[r].body \notin Apps \/ ~(referred \subseteq Referable(r, Row(r)))
       THEN Reject(r)
       ELSE Write(r, Row(r), referred, {}, TagsOf({Row(r)}))

unassign(r) ==
  /\ At(r, {"unassign"})
  /\ IF request[r].body \notin Apps THEN Reject(r) ELSE Write(r, Row(r), {}, {}, {})

(* No row of the id in the request's scope.                                *)
NotFound(r) ==
  /\ At(r, {"detail", "tag_resources", "update", "delete"})
  /\ Reject(r)

Answer(r) ==
  /\ pc[r] = "answered"
  /\ Reject(r)

-----------------------------------------------------------------------------
(* Operators and time.                                                     *)
Operate ==
  /\ operations > 0
  /\ operations' = operations - 1

(* revoke_service_token: save(update_fields=["is_active", ...]).           *)
revoke_service_token ==
  /\ Operate
  /\ client' = [client EXCEPT !.active = FALSE]
  /\ ended' = TRUE
  /\ UNCHANGED <<grants, env, booted, handlerVars, held, late>>

Expire ==
  /\ Operate
  /\ client' = [client EXCEPT !.expired = TRUE]
  /\ ended' = TRUE
  /\ UNCHANGED <<grants, env, booted, handlerVars, held, late>>

(* LAST_USED_UPDATE_INTERVAL goes by.                                      *)
Elapse ==
  /\ client.fresh
  /\ client' = [client EXCEPT !.fresh = FALSE]
  /\ UNCHANGED <<grants, env, booted, operations, handlerVars, held, ended, late>>

(* No command edits grants; in the database one may be taken away.         *)
RemoveGrant ==
  /\ Operate
  /\ \E g \in grants : grants' = grants \ {g}
  /\ UNCHANGED <<client, env, booted, handlerVars, held, ended, late>>

SetFlag ==
  /\ Operate
  /\ \E f \in Flags : env' = IF f \in env THEN env \ {f} ELSE env \union {f}
  /\ UNCHANGED <<client, grants, booted, handlerVars, held, ended, late>>

(* A process is replaced; its requests are lost.                           *)
Boot(p) ==
  /\ booted[p] # env
  /\ Bootable(env)
  /\ booted' = [booted EXCEPT ![p] = env]
  /\ Forget({r \in Handlers : process[r] = p})
  /\ UNCHANGED <<client, grants, env, operations, ended>>

View(r) ==
  \/ Read(r) \/ create(r) \/ update(r) \/ delete(r)
  \/ assign(r) \/ replace(r) \/ unassign(r) \/ NotFound(r)
Handle(r) ==
  Route(r) \/ authenticate_client(r) \/ Authorize(r) \/ mark_client_used(r) \/ View(r) \/ Answer(r)

Next ==
  \/ \E r \in Handlers : Handle(r)
  \/ \E p \in Processes : Boot(p)
  \/ revoke_service_token \/ Expire \/ Elapse \/ RemoveGrant \/ SetFlag

Spec == Init /\ [][Next]_vars

-----------------------------------------------------------------------------
(* Properties.                                                             *)

(* Every variable keeps its type.                                          *)
TypeOK ==
  /\ client \in Clients /\ grants \subseteq Grants
  /\ env \subseteq Flags /\ booted \in [Processes -> SUBSET Flags]
  /\ operations \in Nat
  /\ pc \in [Handlers -> Points]
  /\ request \in [Handlers -> Requests] /\ process \in [Handlers -> Processes]
  /\ instance \in [Handlers -> Clients] /\ cached \in [Handlers -> SUBSET Grants]
  /\ answer \in [Handlers -> Answers]
  /\ held \in [Handlers -> SUBSET Grants] /\ ended \in BOOLEAN /\ late \in [Handlers -> BOOLEAN]

Reaches(g, scope, s) ==
  has_scope(g, scope) /\ grant_matches_namespace(g, s.ns) /\ (s.app = Shared \/ g.app \in {Shared, s.app})
WithinGrants(gs, q, rows) == \A s \in rows : \E g \in gs : Reaches(g, required_scope(q), s)

(* Whatever a request is shown, has counted in v2 or writes belongs to an  *)
(* application and a namespace that one grant of its client covered at some*)
(* moment of the request, for reading or for writing as the view requires; *)
(* the rows a tenant shares are covered by the grants of every application.*)
(* The tag of an assignment is covered like any other row, with the one    *)
(* exception that docs/api.md:186-188 promises: a global tag comes with an *)
(* assignment to it that is covered, though no grant covers the tag.       *)
(* Several lookups filter rows, and permission is decided before any.      *)
CarriedBy(r, t) ==
  /\ t.ns = Global
  /\ \E a \in answer[r].shown \union answer[r].written :
       a.ns = request[r].ns /\ Compatible(a, t)
AnswersWithinGrants ==
  \A r \in Handlers :
    /\ WithinGrants(held[r], request[r], answer[r].shown \union answer[r].written)
    /\ \A t \in answer[r].carried : WithinGrants(held[r], request[r], {t}) \/ CarriedBy(r, t)
    /\ request[r].v2 => WithinGrants(held[r], request[r], answer[r].counted)

(* A request without a namespace, of v1 or of v2, never meets a namespaced *)
(* row, not even as the tag of an assignment; one with a namespace never   *)
(* meets a row of another, and selects global rows only where it asks for  *)
(* them (docs/operations.md, "every read path filters them out of v1/global*)
(* results").  Global tags that its assignments carry it meets unasked.    *)
ReadsStayInScope ==
  \A r \in Handlers :
    /\ \A s \in answer[r].shown :
         \/ s.ns = request[r].ns
         \/ s.ns = Global /\ _wants_global(request[r])
    /\ \A t \in answer[r].carried : t.ns \in {request[r].ns, Global}

(* A write lands in the namespace of its request and nowhere else, and lets*)
(* a namespaced row refer to a global one only if the client held a global *)
(* grant for every application the request names.                          *)
WritesStayInScope ==
  \A r \in Handlers :
    /\ \A s \in answer[r].written : s.ns = request[r].ns
    /\ \A s \in answer[r].referred : s.ns # request[r].ns =>
         /\ s.ns = Global
         /\ \A app \in application_targets(request[r]) :
              \E g \in held[r] : Reaches(g, "write", [app |-> app, ns |-> Global])

(* A request that comes after the token was revoked or has expired is never*)
(* permitted, whatever the requests in flight at that moment still save.   *)
RevokedForGood ==
  \A r \in Handlers : late[r] => pc[r] \in {"idle", "routed"}

(* Namespaced rows are served only by processes that booted with the whole *)
(* rollout ladder below V2_API, and written only with WRITE on top of it,  *)
(* however operators set the flags: the boot check, the edge gate and the  *)
(* write gate together.                                                    *)
NamespacesNeedTheirFlags ==
  \A r \in Handlers :
    /\ request[r].ns # Global => {"SCHEMA", "READ", "AUTH", "V2_API"} \subseteq booted[process[r]]
    /\ (\E s \in answer[r].written : s.ns # Global) => "WRITE" \in booted[process[r]]

=============================================================================
