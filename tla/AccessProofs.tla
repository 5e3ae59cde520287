----------------------------- MODULE AccessProofs -----------------------------
(***************************************************************************)
(* Theorems about Access, for any applications, namespaces, grants, flags, *)
(* processes and requests in flight.                                       *)
(*                                                                         *)
(* First what the decisions of Grants imply, then what a step can do to one*)
(* request (NextShape), then the invariants, each shown inductive relative *)
(* to those before it.                                                     *)
(***************************************************************************)
EXTENDS Access, TLAPS

-----------------------------------------------------------------------------
(* What permission implies.                                                *)

(* The row is shared, or of an application that the request names, or the  *)
(* request names none and so needs a tenant-wide grant.                    *)
InReach(q, s) ==
  \/ s.app = Shared
  \/ application_ids_from_request(q) = {}
  \/ s.app \in application_ids_from_request(q)

(* A row in an authorized namespace and within the named applications is   *)
(* reached by one of the grants.                                           *)
LEMMA AuthorizedIsReached ==
  ASSUME NEW gs, NEW q, NEW s,
         s.ns \in authorized_scope_contexts(gs, q), InReach(q, s)
  PROVE  \E g \in gs : Reaches(g, required_scope(q), s)
<1>1. \A app \in application_targets(q) :
        \E g \in gs : grant_authorizes(g, app, s.ns, required_scope(q))
  BY DEF authorized_scope_contexts
<1>2. CASE application_ids_from_request(q) = {}
  <2>1. PICK g \in gs : grant_authorizes(g, Shared, s.ns, required_scope(q))
    BY <1>1, <1>2 DEF application_targets
  <2>2. Reaches(g, required_scope(q), s)
    BY <2>1 DEF Reaches, grant_authorizes
  <2> QED BY <2>2
<1>3. CASE application_ids_from_request(q) # {}
  <2>1. PICK app \in application_targets(q) : s.app = Shared \/ s.app = app
    BY <1>3 DEF InReach, application_targets
  <2>2. PICK g \in gs : grant_authorizes(g, app, s.ns, required_scope(q))
    BY <1>1
  <2>3. Reaches(g, required_scope(q), s)
    BY <2>1, <2>2 DEF Reaches, grant_authorizes
  <2> QED BY <2>3
<1> QED BY <1>2, <1>3

(* Global rows are included only where they are authorized and wanted.     *)
LEMMA IncludedIsAuthorized ==
  ASSUME NEW gs, NEW q, request_include_global(gs, q)
  PROVE  /\ Global \in authorized_scope_contexts(gs, q)
         /\ q.ns = Global \/ _wants_global(q)
BY DEF request_include_global, authorized_scope_contexts, requested_scope_contexts, namespace_q

(* A row is proper to a request that is permitted by gs: its namespace is  *)
(* the request's own, or global, authorized and wanted.                    *)
InScope(gs, q, s) ==
  /\ s.ns \in authorized_scope_contexts(gs, q)
  /\ s.ns = q.ns \/ (s.ns = Global /\ _wants_global(q))

LEMMA FilteredIsInScope ==
  ASSUME NEW gs, NEW q, has_permission(gs, q), NEW s, NEW b \in BOOLEAN,
         b => request_include_global(gs, q),
         s.ns \in namespace_q(q.ns, b)
  PROVE  InScope(gs, q, s)
<1>1. q.ns \in authorized_scope_contexts(gs, q)
  BY DEF has_permission
<1>2. CASE s.ns = q.ns
  BY <1>1, <1>2 DEF InScope
<1>3. CASE s.ns # q.ns
  <2>1. s.ns = Global /\ b
    BY <1>3 DEF namespace_q
  <2> QED BY <2>1, <1>3, IncludedIsAuthorized DEF InScope
<1> QED BY <1>2, <1>3

(* Rows that an answer may show, count or change.                          *)
Proper(gs, q, rows) ==
  \A s \in rows : InScope(gs, q, s) /\ \E g \in gs : Reaches(g, required_scope(q), s)

LEMMA ProperIfNamed ==
  ASSUME NEW gs, NEW q, has_permission(gs, q), NEW rows,
         \A s \in rows : InReach(q, s) /\ InScope(gs, q, s)
  PROVE  Proper(gs, q, rows)
<1> SUFFICES ASSUME NEW s \in rows
             PROVE  InScope(gs, q, s) /\ \E g \in gs : Reaches(g, required_scope(q), s)
  BY DEF Proper
<1>1. InReach(q, s) /\ s.ns \in authorized_scope_contexts(gs, q)
  BY DEF InScope
<1> QED BY <1>1, AuthorizedIsReached

-----------------------------------------------------------------------------
(* The views.  Each lemma is about one request that was permitted.         *)

(* A read names the application of its query, or none.                     *)
LEMMA ReadNames ==
  ASSUME NEW q \in Requests, q.view \in Reads
  PROVE  \/ q.query = Shared /\ application_ids_from_request(q) = {}
         \/ q.query \in Apps /\ application_ids_from_request(q) = {q.query}
BY GrantsAssumption DEF Requests, application_ids_from_request, Ids

LEMMA IncludesIsBoolean == \A r : Includes(r) \in BOOLEAN
BY DEF Includes, request_include_global

LEMMA ListedIsProper ==
  ASSUME NEW r \in Handlers, request[r] \in Requests, request[r].view \in Reads,
         has_permission(cached[r], request[r])
  PROVE  Listed(r) \subseteq Scopes /\ Proper(cached[r], request[r], Listed(r))
<1> DEFINE q == request[r]
<1>1. SUFFICES ASSUME NEW s \in Listed(r)
               PROVE  InReach(q, s) /\ InScope(cached[r], q, s)
  BY ProperIfNamed DEF Listed, Visible
<1>2. s.ns \in namespace_q(q.ns, Includes(r))
  BY DEF Listed, Visible
<1>3. InScope(cached[r], q, s)
  BY <1>2, IncludesIsBoolean, FilteredIsInScope DEF Includes
<1>4. InReach(q, s)
  <2>1. s.app = Shared \/ q.query = Shared \/ s.app = q.query
    BY DEF Listed, Visible, apply_application_filter
  <2> QED BY <2>1, ReadNames, GrantsAssumption DEF InReach
<1> QED BY <1>3, <1>4

(* The rows that application_filter_params lets a view find, of a PATCH    *)
(* those of every granted application.                                     *)
LEMMA FoundIsProper ==
  ASSUME NEW r \in Handlers, request[r] \in Requests,
         has_permission(cached[r], request[r]),
         NEW b \in BOOLEAN, b => Includes(r), request[r].view = "update" => ~b
  PROVE  Found(r, b) \subseteq Scopes /\ Proper(cached[r], request[r], Found(r, b))
<1> DEFINE q == request[r]
           gs == cached[r]
           ids == application_ids_from_request(q)
<1>1. Found(r, b) \subseteq Scopes
  BY DEF Found, Visible
<1>2. \A s \in Found(r, b) : InScope(gs, q, s)
  BY FilteredIsInScope DEF Found, Visible, Includes
<1>3. CASE q.view # "update"
  <2>1. \A s \in Found(r, b) : InReach(q, s)
    BY <1>3 DEF Found, Visible, application_filter_params, apply_application_filter, InReach
  <2> QED BY <1>1, <1>2, <2>1, ProperIfNamed
<1>4. CASE q.view = "update"
  <2> DEFINE granted == {g \in gs : /\ has_scope(g, required_scope(q))
                                    /\ grant_matches_namespace(g, q.ns)}
  <2> SUFFICES ASSUME NEW s \in Found(r, b)
               PROVE  \E g \in gs : Reaches(g, required_scope(q), s)
    BY <1>1, <1>2 DEF Proper
  <2>1. s.ns = q.ns
    BY <1>4 DEF Found, Visible, namespace_q
  <2>2. s.app = Shared \/ s.app \in authorized_application_ids(gs, q)
    BY <1>4 DEF Found, Visible, application_filter_params, apply_application_filter
  <2>3. CASE s.app = Shared
    BY <1>2, <2>3, AuthorizedIsReached DEF InReach, InScope
  <2>4. CASE s.app # Shared
    <3>1. \E g \in granted : g.app \in {Shared, s.app}
      BY <2>2, <2>4 DEF authorized_application_ids
    <3> QED BY <3>1, <2>1 DEF Reaches
  <2> QED BY <2>3, <2>4
<1> QED BY <1>3, <1>4

LEMMA AssignmentsAreProper ==
  ASSUME NEW r \in Handlers, request[r] \in Requests, request[r].view \in Reads,
         has_permission(cached[r], request[r])
  PROVE  FoundAssignments(r) \subseteq Scopes /\ Proper(cached[r], request[r], FoundAssignments(r))
<1> DEFINE q == request[r]
<1>1. SUFFICES ASSUME NEW s \in FoundAssignments(r)
               PROVE  InReach(q, s) /\ InScope(cached[r], q, s)
  BY ProperIfNamed DEF FoundAssignments, AssignmentScopes
<1>2. s.ns \in namespace_q(q.ns, Includes(r))
  BY DEF FoundAssignments
<1>3. InScope(cached[r], q, s)
  BY <1>2, IncludesIsBoolean, FilteredIsInScope DEF Includes
<1>4. InReach(q, s)
  BY ReadNames, GrantsAssumption DEF FoundAssignments, InReach
<1> QED BY <1>3, <1>4

(* A tag that an assignment carries is of the assignment's namespace or    *)
(* global, and of its application or shared.                               *)
LEMMA CarriedIsCompatible ==
  ASSUME NEW rows, NEW t \in TagsOf(rows)
  PROVE  \E a \in rows : t.app \in {Shared, a.app} /\ t.ns \in {Global, a.ns} /\ Compatible(a, t)
BY DEF TagsOf, Compatible

(* The tags that one view may carry: each comes with an assignment of the  *)
(* request's own namespace that the request may be shown or has written, or*)
(* is of the kind it may be shown anyway.                                  *)
Bearable(gs, q, rows, t) ==
  \/ \E g \in gs : Reaches(g, required_scope(q), t)
  \/ t.ns = Global /\ \E a \in rows : a.ns = q.ns /\ Compatible(a, t)

LEMMA CarriedIsBearable ==
  ASSUME NEW gs, NEW q, NEW rows, NEW t \in TagsOf(rows),
         Proper(gs, q, rows)
  PROVE  t.ns \in {q.ns, Global} /\ Bearable(gs, q, rows, t)
<1>1. PICK a \in rows : t.app \in {Shared, a.app} /\ t.ns \in {Global, a.ns} /\ Compatible(a, t)
  BY CarriedIsCompatible
<1>2. InScope(gs, q, a) /\ \E g \in gs : Reaches(g, required_scope(q), a)
  BY DEF Proper
<1>3. a.ns \in {q.ns, Global}
  BY <1>2 DEF InScope
<1>4. CASE t.ns = a.ns
  <2>1. \E g \in gs : Reaches(g, required_scope(q), t)
    BY <1>1, <1>2, <1>4 DEF Reaches
  <2> QED BY <1>3, <1>4, <2>1 DEF Bearable
<1>5. CASE t.ns = Global /\ a.ns # Global
  BY <1>1, <1>3, <1>5 DEF Bearable
<1> QED BY <1>1, <1>4, <1>5

(* Resolution without an application is of shared rows: a namespaced       *)
(* request without one has no permission.                                  *)
LEMMA ResolvedIsProper ==
  ASSUME NEW r \in Handlers, request[r] \in Requests, request[r].view = "resolve",
         has_permission(cached[r], request[r]),
         ResolutionAllowed(request[r], Includes(r))
  PROVE  Shown(r) \subseteq Scopes /\ Proper(cached[r], request[r], Shown(r))
<1> DEFINE q == request[r]
           ns == ResolutionScope(q)
           b == ResolutionIncludesGlobal(q, Includes(r))
<1>0. Shown(r) = ResolutionRows(ns, b, q.query)
  BY DEF Shown
<1>1. SUFFICES ASSUME NEW s \in ResolutionRows(ns, b, q.query)
               PROVE  InReach(q, s) /\ InScope(cached[r], q, s)
  BY <1>0, ProperIfNamed DEF ResolutionRows
<1>2. s.ns = q.ns \/ (s.ns = Global /\ Includes(r))
  BY DEF ResolutionRows, namespace_q, ResolutionScope, ResolutionIncludesGlobal, ResolutionAllowed
<1>3. InScope(cached[r], q, s)
  <2>1. s.ns \in namespace_q(q.ns, Includes(r))
    BY <1>2 DEF namespace_q
  <2> QED BY <2>1, IncludesIsBoolean, FilteredIsInScope DEF Includes
<1>4. q.view \in Reads
  BY DEF Reads
<1>5. InReach(q, s)
  <2>1. q.query = Shared => s.app = Shared
    <3>1. ASSUME q.query = Shared, s.app # Shared
          PROVE  FALSE
      <4>1. application_targets(q) = {Shared} /\ s.ns # Global
        BY <1>4, <3>1, ReadNames, GrantsAssumption
           DEF application_targets, ResolutionRows
      <4>2. \E g \in cached[r] : grant_authorizes(g, Shared, s.ns, required_scope(q))
        BY <1>3, <4>1 DEF InScope, authorized_scope_contexts
      <4> QED BY <4>1, <4>2 DEF grant_authorizes
    <3> QED BY <3>1
  <2>2. q.query # Shared => s.app \in {Shared, q.query}
    BY DEF ResolutionRows
  <2> QED BY <1>4, <2>1, <2>2, ReadNames DEF InReach
<1> QED BY <1>3, <1>5

LEMMA ShownIsProper ==
  ASSUME NEW r \in Handlers, request[r] \in Requests, request[r].view \in Reads,
         has_permission(cached[r], request[r]),
         request[r].view = "resolve" => ResolutionAllowed(request[r], Includes(r))
  PROVE  Shown(r) \subseteq Scopes /\ Proper(cached[r], request[r], Shown(r))
<1>1. Found(r, Includes(r)) \subseteq Scopes /\ Proper(cached[r], request[r], Found(r, Includes(r)))
  BY IncludesIsBoolean, FoundIsProper DEF Reads
<1>2. CASE request[r].view = "list"
  BY <1>2, ListedIsProper DEF Shown
<1>3. CASE request[r].view = "detail"
  BY <1>3, <1>1 DEF Shown
<1>4. CASE request[r].view = "resolve"
  BY <1>4, ResolvedIsProper
<1>5. CASE request[r].view = "tag_resources"
  BY <1>5, <1>1, AssignmentsAreProper DEF Shown, Proper
<1>6. CASE request[r].view = "resource_tags"
  BY <1>6, AssignmentsAreProper DEF Shown
<1> QED BY <1>2, <1>3, <1>4, <1>5, <1>6 DEF Reads

(* The assignments behind the counts of v2.                                *)
LEMMA CountedIsProper ==
  ASSUME NEW r \in Handlers, request[r] \in Requests,
         has_permission(cached[r], request[r])
  PROVE  Counted(r) \subseteq Scopes /\ Proper(cached[r], request[r], Counted(r))
<1> DEFINE q == request[r]
           b == q.view # "update" /\ Includes(r)
<1>1. SUFFICES ASSUME NEW s \in Counted(r)
               PROVE  InReach(q, s) /\ InScope(cached[r], q, s)
  BY ProperIfNamed DEF Counted, AssignmentScopes
<1>2. s.ns \in namespace_q(q.ns, b) /\ b \in BOOLEAN
  BY DEF Counted, Includes, request_include_global
<1>3. InScope(cached[r], q, s)
  BY <1>2, FilteredIsInScope DEF Includes
<1>4. InReach(q, s)
  BY DEF Counted, InReach
<1> QED BY <1>3, <1>4

(* The row a create or an assignment writes.                               *)
LEMMA RowIsProper ==
  ASSUME NEW r \in Handlers, request[r] \in Requests, request[r].view \in Writes,
         has_permission(cached[r], request[r]),
         Row(r) \in Scopes
  PROVE  Row(r).ns = request[r].ns /\ Proper(cached[r], request[r], {Row(r)})
<1> DEFINE q == request[r]
<1>1. Row(r).ns = q.ns
  BY DEF Row
<1>2. InScope(cached[r], q, Row(r))
  BY <1>1 DEF InScope, has_permission
<1>3. request[r].view \notin Reads
  BY DEF Reads, Writes
<1>4. Row(r).app \in Ids
  BY DEF Scopes
<1>5. InReach(q, Row(r))
  BY <1>3, <1>4 DEF Row, InReach, application_ids_from_request, Requests, Ids
<1> QED BY <1>1, <1>2, <1>5, ProperIfNamed

-----------------------------------------------------------------------------
(* What is so of every request on its way: it is of the shape its point    *)
(* says, and what it was permitted by was held.                            *)
Served ==
  \A r \in Handlers :
    /\ pc[r] = "idle" => request[r] = NoRequest
    /\ pc[r] # "answered" => answer[r] = NoAnswer
    /\ pc[r] # "idle" => grants \subseteq held[r]
    /\ pc[r] \in {"authorized", "permitted", "answered"} =>
         cached[r] \subseteq held[r] /\ has_permission(cached[r], request[r])

(* What a view may reply.                                                  *)
Decent(r, shown, carried, written, referred) ==
  /\ pc[r] = "permitted"
  /\ shown \subseteq Scopes /\ carried \subseteq Scopes
  /\ \A t \in carried : /\ t.ns \in {request[r].ns, Global}
                        /\ Bearable(cached[r], request[r], shown \union written, t)
  /\ written \subseteq Scopes /\ referred \subseteq Scopes
  /\ Proper(cached[r], request[r], shown \union written)
  /\ \A s \in written : s.ns = request[r].ns /\ write_enabled(r, s.ns)
  /\ \A s \in referred :
       /\ request[r].view \in Writes
       /\ s.ns \in namespace_q(request[r].ns,
                               request_authorizes_global_references(cached[r], request[r]))

(* The row of a write is one that the request may change.                  *)
LEMMA WriteIsDecent ==
  ASSUME NEW r \in Handlers, pc[r] = "permitted", request[r].view \in Writes,
         NEW row, NEW referred, referred \subseteq Referable(r, row),
         row \in Scopes => /\ row.ns = request[r].ns
                           /\ Proper(cached[r], request[r], {row}),
         NEW shown \in SUBSET {row}, NEW carried \in {{}, TagsOf({row})},
         Write(r, row, referred, shown, carried)
  PROVE  \/ Reject(r)
         \/ /\ Reply(r, shown, carried, {row}, referred)
            /\ Decent(r, shown, carried, {row}, referred)
<1>1. CASE row \in Scopes /\ write_enabled(r, row.ns)
  <2>1. Reply(r, shown, carried, {row}, referred)
    BY <1>1 DEF Write
  <2>4. carried \subseteq Scopes
    BY DEF TagsOf
  <2>5. \A t \in carried : /\ t.ns \in {request[r].ns, Global}
                          /\ Bearable(cached[r], request[r], {row}, t)
    BY <1>1, CarriedIsBearable
  <2>6. shown \union {row} = {row}
    OBVIOUS
  <2>2. referred \subseteq Scopes
    BY DEF Referable
  <2>3. \A s \in referred :
          s.ns \in namespace_q(request[r].ns,
                               request_authorizes_global_references(cached[r], request[r]))
    BY DEF Referable
  <2> QED BY <1>1, <2>1, <2>2, <2>3, <2>4, <2>5, <2>6 DEF Decent
<1>2. CASE ~(row \in Scopes /\ write_enabled(r, row.ns))
  BY <1>2 DEF Write
<1> QED BY <1>1, <1>2

(* A view refuses, or its reply is decent.                                 *)
LEMMA ViewIsDecent ==
  ASSUME TypeOK, Served, NEW r \in Handlers, View(r)
  PROVE  \/ Reject(r)
         \/ \E shown, carried, written, referred :
              /\ Reply(r, shown, carried, written, referred)
              /\ Decent(r, shown, carried, written, referred)
<1> DEFINE q == request[r]
<1>1. q \in Requests
  BY DEF TypeOK
<1>2. pc[r] = "permitted"
  BY DEF View, Read, create, update, delete, assign, replace, unassign, NotFound, At
<1>3. has_permission(cached[r], q)
  BY <1>2 DEF Served
<1>4. CASE Read(r)
  <2>1. q.view \in Reads
    BY <1>4 DEF Read, At
  <2>2. CASE ~Reject(r)
    <3>1. /\ Reply(r, Shown(r), Carried(r), {}, {})
          /\ q.view = "resolve" => ResolutionAllowed(q, Includes(r))
      BY <1>4, <2>2 DEF Read
    <3>2. Shown(r) \subseteq Scopes /\ Proper(cached[r], q, Shown(r))
      BY <1>1, <1>3, <2>1, <3>1, ShownIsProper
    <3>3. Carried(r) \subseteq Scopes /\ Carried(r) \subseteq TagsOf(Shown(r))
      BY DEF Carried, Shown, TagsOf
    <3>4. \A t \in Carried(r) : t.ns \in {q.ns, Global} /\ Bearable(cached[r], q, Shown(r), t)
      BY <3>2, <3>3, CarriedIsBearable
    <3>5. Shown(r) \union {} = Shown(r)
      OBVIOUS
    <3>6. Decent(r, Shown(r), Carried(r), {}, {})
      BY <1>2, <3>2, <3>3, <3>4, <3>5 DEF Decent
    <3> QED BY <3>1, <3>6
  <2> QED BY <2>2
<1>5. CASE create(r)
  <2>1. q.view \in Writes
    BY <1>5 DEF create, At, Writes
  <2>2. PICK referred : /\ referred \subseteq Referable(r, Row(r))
                        /\ Write(r, Row(r), referred, {Row(r)}, {})
    BY <1>5 DEF create, WriteAndShow
  <2> QED BY <1>1, <1>2, <1>3, <2>1, <2>2, RowIsProper, WriteIsDecent
<1>6. CASE assign(r)
  <2>1. q.view \in Writes
    BY <1>6 DEF assign, At, Writes
  <2>2. CASE ~Reject(r)
    <3>1. PICK referred : /\ referred \subseteq Referable(r, Row(r))
                          /\ Write(r, Row(r), referred, {Row(r)}, {})
      BY <1>6, <2>2 DEF assign, WriteAndShow
    <3> QED BY <1>1, <1>2, <1>3, <2>1, <3>1, RowIsProper, WriteIsDecent
  <2> QED BY <2>2
<1>7. CASE unassign(r)
  <2>1. q.view \in Writes
    BY <1>7 DEF unassign, At, Writes
  <2>2. CASE ~Reject(r)
    <3>1. Write(r, Row(r), {}, {}, {})
      BY <1>7, <2>2 DEF unassign
    <3> QED BY <1>1, <1>2, <1>3, <2>1, <3>1, RowIsProper, WriteIsDecent
  <2> QED BY <2>2
<1>8. \A row \in Found(r, FALSE) :
        row \in Scopes /\ row.ns = q.ns /\ Proper(cached[r], q, {row})
  <2>1. Found(r, FALSE) \subseteq Scopes /\ Proper(cached[r], q, Found(r, FALSE))
    BY <1>1, <1>3, FoundIsProper
  <2>2. \A row \in Found(r, FALSE) : row.ns = q.ns
    BY DEF Found, Visible, namespace_q
  <2> QED BY <2>1, <2>2 DEF Proper
<1>9. CASE update(r)
  <2>1. q.view \in Writes
    BY <1>9 DEF update, At, Writes
  <2>2. CASE ~Reject(r)
    <3>1. PICK row \in Found(r, FALSE) :
            \E referred : /\ referred \subseteq Referable(r, row)
                          /\ Write(r, row, referred, {row}, {})
      BY <1>9, <2>2 DEF update, WriteAndShow
    <3> QED BY <1>2, <1>8, <2>1, <3>1, WriteIsDecent
  <2> QED BY <2>2
<1>10. CASE delete(r)
  <2>1. q.view \in Writes
    BY <1>10 DEF delete, At, Writes
  <2>2. PICK row \in Found(r, FALSE) : Write(r, row, {}, {}, {})
    BY <1>10 DEF delete
  <2> QED BY <1>2, <1>8, <2>1, <2>2, WriteIsDecent
<1>11. CASE NotFound(r)
  BY <1>11 DEF NotFound
<1>12. CASE replace(r)
  <2>1. q.view \in Writes
    BY <1>12 DEF replace, At, Writes
  <2>2. CASE ~Reject(r)
    <3>1. PICK referred : /\ referred \subseteq Referable(r, Row(r))
                          /\ Write(r, Row(r), referred, {}, TagsOf({Row(r)}))
      BY <1>12, <2>2 DEF replace
    <3> QED BY <1>1, <1>2, <1>3, <2>1, <3>1, RowIsProper, WriteIsDecent
  <2> QED BY <2>2
<1> QED BY <1>4, <1>5, <1>6, <1>7, <1>9, <1>10, <1>11, <1>12 DEF View

-----------------------------------------------------------------------------
(* Type correctness and Served, which are shown together.                  *)
LEMMA ReplyTyped ==
  ASSUME TypeOK, NEW r \in Handlers, NEW shown, NEW carried, NEW written, NEW referred,
         Reply(r, shown, carried, written, referred),
         Decent(r, shown, carried, written, referred), Served
  PROVE  TypeOK'
<1>1. Counted(r) \subseteq Scopes
  BY CountedIsProper DEF TypeOK, Served, Decent
<1>2. answer' \in [Handlers -> Answers]
  BY <1>1 DEF TypeOK, Reply, Decent, Answers
<1>3. pc' \in [Handlers -> Points]
  BY DEF TypeOK, Reply, Points
<1> QED BY <1>2, <1>3 DEF TypeOK, Reply

LEMMA ForgetTyped ==
  ASSUME TypeOK, NEW rs, Forget(rs)
  PROVE  /\ pc' \in [Handlers -> Points]
         /\ request' \in [Handlers -> Requests] /\ process' \in [Handlers -> Processes]
         /\ instance' \in [Handlers -> Clients] /\ cached' \in [Handlers -> SUBSET Grants]
         /\ answer' \in [Handlers -> Answers]
         /\ held' \in [Handlers -> SUBSET Grants] /\ late' \in [Handlers -> BOOLEAN]
<1>1. NoRequest \in Requests
  BY DEF NoRequest, Requests, Reads, Writes, Qualifiers, Ids, Spaces
<1>2. NoClient \in Clients /\ NoAnswer \in Answers
  BY DEF NoClient, Clients, NoAnswer, Answers
<1> QED BY <1>1, <1>2 DEF TypeOK, Forget, Points

LEMMA RejectTyped ==
  ASSUME TypeOK, NEW r \in Handlers, Reject(r)
  PROVE  TypeOK'
BY ForgetTyped DEF TypeOK, Reject, Refuse

LEMMA ViewTyped ==
  ASSUME TypeOK, Served, NEW r \in Handlers, View(r)
  PROVE  TypeOK'
BY ViewIsDecent, ReplyTyped, RejectTyped

LEMMA TypeInit == Init => TypeOK
<1> SUFFICES ASSUME Init PROVE TypeOK
  OBVIOUS
<1>1. NoRequest \in Requests
  BY DEF NoRequest, Requests, Reads, Writes, Qualifiers, Ids, Spaces
<1>2. NoClient \in Clients /\ NoAnswer \in Answers
  BY DEF NoClient, Clients, NoAnswer, Answers
<1>3. grants \subseteq Grants /\ env \subseteq Flags /\ operations \in Nat
  BY AccessAssumption DEF Init
<1> QED BY <1>1, <1>2, <1>3 DEF Init, TypeOK, Points

LEMMA TypeStep == TypeOK /\ Served /\ [Next]_vars => TypeOK'
<1> SUFFICES ASSUME TypeOK, Served, [Next]_vars PROVE TypeOK'
  OBVIOUS
<1>1. ASSUME NEW r \in Handlers, Route(r) PROVE TypeOK'
  <2>1. /\ pc' \in [Handlers -> Points] /\ request' \in [Handlers -> Requests]
        /\ process' \in [Handlers -> Processes]
    BY <1>1 DEF TypeOK, Route, Points
  <2>2. held' \in [Handlers -> SUBSET Grants] /\ late' \in [Handlers -> BOOLEAN]
    BY <1>1 DEF TypeOK, Route
  <2> QED BY <1>1, <2>1, <2>2 DEF TypeOK, Route
<1>2. ASSUME NEW r \in Handlers, authenticate_client(r) PROVE TypeOK'
  <2>1. CASE client.active /\ ~client.expired
    BY <1>2, <2>1 DEF TypeOK, authenticate_client, Points
  <2>2. CASE ~(client.active /\ ~client.expired)
    BY <1>2, <2>2, RejectTyped DEF authenticate_client, Reject
  <2> QED BY <2>1, <2>2
<1>3. ASSUME NEW r \in Handlers, Authorize(r) PROVE TypeOK'
  <2>1. CASE Refuse(r)
    BY <1>3, <2>1, RejectTyped DEF Authorize, Reject
  <2>2. CASE ~Refuse(r)
    BY <1>3, <2>2 DEF TypeOK, Authorize, Points
  <2> QED BY <2>1, <2>2
<1>4. ASSUME NEW r \in Handlers, mark_client_used(r) PROVE TypeOK'
  <2>1. client' \in Clients
    BY <1>4 DEF TypeOK, mark_client_used, Clients
  <2> QED BY <1>4, <2>1 DEF TypeOK, mark_client_used, Points
<1>5. ASSUME NEW r \in Handlers, View(r) PROVE TypeOK'
  BY <1>5, ViewTyped
<1>6. ASSUME NEW r \in Handlers, Answer(r) PROVE TypeOK'
  BY <1>6, RejectTyped DEF Answer
<1>7. ASSUME NEW p \in Processes, Boot(p) PROVE TypeOK'
  <2>1. booted' \in [Processes -> SUBSET Flags]
    BY <1>7 DEF TypeOK, Boot
  <2> QED BY <1>7, <2>1, ForgetTyped DEF TypeOK, Boot
<1>8. CASE revoke_service_token
  <2>1. client' \in Clients
    BY <1>8 DEF TypeOK, revoke_service_token, Clients
  <2>2. operations' \in Nat
    BY <1>8 DEF TypeOK, revoke_service_token, Operate
  <2> QED BY <1>8, <2>1, <2>2 DEF TypeOK, revoke_service_token, handlerVars
<1>9. CASE Expire
  <2>1. client' \in Clients
    BY <1>9 DEF TypeOK, Expire, Clients
  <2>2. operations' \in Nat
    BY <1>9 DEF TypeOK, Expire, Operate
  <2> QED BY <1>9, <2>1, <2>2 DEF TypeOK, Expire, handlerVars
<1>10. CASE Elapse
  BY <1>10 DEF TypeOK, Elapse, handlerVars, Clients
<1>11. CASE RemoveGrant
  BY <1>11 DEF TypeOK, RemoveGrant, Operate, handlerVars
<1>12. CASE SetFlag
  BY <1>12 DEF TypeOK, SetFlag, Operate, handlerVars
<1>13. CASE UNCHANGED vars
  BY <1>13 DEF TypeOK, vars, handlerVars
<1> QED BY <1>1, <1>2, <1>3, <1>4, <1>5, <1>6, <1>7, <1>8, <1>9, <1>10, <1>11, <1>12, <1>13
        DEF Next, Handle

(* A request that is over leaves nothing behind.                           *)
LEMMA ServedInit == Init => Served
BY DEF Init, Served

LEMMA ForgetServed ==
  ASSUME TypeOK, Served, NEW rs, Forget(rs), grants' = grants
  PROVE  Served'
BY DEF TypeOK, Served, Forget

LEMMA ServedStep == TypeOK /\ Served /\ [Next]_vars => Served'
<1> SUFFICES ASSUME TypeOK, Served, [Next]_vars PROVE Served'
  OBVIOUS
<1>0. ASSUME NEW r \in Handlers, Reject(r) PROVE Served'
  BY <1>0, ForgetServed DEF Reject, Refuse
<1>1. ASSUME NEW r \in Handlers, Route(r) PROVE Served'
  BY <1>1 DEF TypeOK, Served, Route
<1>2. ASSUME NEW r \in Handlers, authenticate_client(r) PROVE Served'
  <2>1. CASE client.active /\ ~client.expired
    BY <1>2, <2>1 DEF TypeOK, Served, authenticate_client
  <2>2. CASE ~(client.active /\ ~client.expired)
    BY <1>0, <1>2, <2>2 DEF authenticate_client, Reject
  <2> QED BY <2>1, <2>2
<1>3. ASSUME NEW r \in Handlers, Authorize(r) PROVE Served'
  <2>1. CASE Refuse(r)
    BY <1>0, <1>3, <2>1 DEF Authorize, Reject
  <2>2. CASE ~Refuse(r)
    BY <1>3, <2>2 DEF TypeOK, Served, Authorize
  <2> QED BY <2>1, <2>2
<1>4. ASSUME NEW r \in Handlers, mark_client_used(r) PROVE Served'
  BY <1>4 DEF TypeOK, Served, mark_client_used
<1>5. ASSUME NEW r \in Handlers, View(r) PROVE Served'
  <2>1. CASE Reject(r)
    BY <1>0, <2>1
  <2>2. ASSUME NEW shown, NEW carried, NEW written, NEW referred,
               Reply(r, shown, carried, written, referred), pc[r] = "permitted"
        PROVE  Served'
    BY <2>2 DEF TypeOK, Served, Reply
  <2> QED BY <1>5, <2>1, <2>2, ViewIsDecent DEF Decent
<1>6. ASSUME NEW r \in Handlers, Answer(r) PROVE Served'
  BY <1>0, <1>6 DEF Answer
<1>7. ASSUME NEW p \in Processes, Boot(p) PROVE Served'
  BY <1>7, ForgetServed DEF Boot
<1>8. CASE RemoveGrant
  BY <1>8 DEF TypeOK, Served, RemoveGrant, handlerVars
<1>9. CASE revoke_service_token \/ Expire \/ Elapse \/ SetFlag \/ UNCHANGED vars
  BY <1>9 DEF Served, revoke_service_token, Expire, Elapse, SetFlag, vars, handlerVars
<1> QED BY <1>1, <1>2, <1>3, <1>4, <1>5, <1>6, <1>7, <1>8, <1>9 DEF Next, Handle

LEMMA AlwaysServed == Spec => [](TypeOK /\ Served)
<1>1. Init => TypeOK /\ Served
  BY TypeInit, ServedInit
<1>2. TypeOK /\ Served /\ [Next]_vars => (TypeOK /\ Served)'
  BY TypeStep, ServedStep
<1> QED BY <1>1, <1>2, PTL DEF Spec

(* Every variable keeps its type, for any grants, flags and number of      *)
(* requests in flight.                                                     *)
THEOREM TypeCorrect == Spec => []TypeOK
BY AlwaysServed, PTL

-----------------------------------------------------------------------------
(* Answers.  A request that is answered was so before, or its view has just*)
(* replied; its scope and what was held for it stay as they were.          *)
Stays(r) ==
  /\ request'[r] = request[r] /\ process'[r] = process[r] /\ held'[r] = held[r]
  /\ booted'[process[r]] = booted[process[r]]
Replied(r) ==
  \E shown, carried, written, referred :
    /\ Decent(r, shown, carried, written, referred)
    /\ answer'[r] = [shown |-> shown, carried |-> carried, counted |-> Counted(r),
                     written |-> written, referred |-> referred]

LEMMA AnswerStep ==
  ASSUME TypeOK, Served, [Next]_vars, NEW r \in Handlers, pc'[r] = "answered"
  PROVE  /\ Stays(r)
         /\ (pc[r] = "answered" /\ answer'[r] = answer[r]) \/ Replied(r)
<1> DEFINE Same == Stays(r) /\ pc[r] = "answered" /\ answer'[r] = answer[r]
<1>1. ASSUME NEW q \in Handlers, Reject(q) PROVE Same
  BY <1>1 DEF TypeOK, Reject, Refuse, Forget, Stays
<1>2. ASSUME NEW q \in Handlers, Route(q) PROVE Same
  BY <1>2 DEF TypeOK, Route, Stays
<1>3. ASSUME NEW q \in Handlers, authenticate_client(q) PROVE Same
  <2>1. CASE client.active /\ ~client.expired
    BY <1>3, <2>1 DEF TypeOK, authenticate_client, Stays
  <2>2. CASE ~(client.active /\ ~client.expired)
    BY <1>1, <1>3, <2>2 DEF authenticate_client, Reject
  <2> QED BY <2>1, <2>2
<1>4. ASSUME NEW q \in Handlers, Authorize(q) PROVE Same
  <2>1. CASE Refuse(q)
    BY <1>1, <1>4, <2>1 DEF Authorize, Reject
  <2>2. CASE ~Refuse(q)
    BY <1>4, <2>2 DEF TypeOK, Authorize, Stays
  <2> QED BY <2>1, <2>2
<1>5. ASSUME NEW q \in Handlers, mark_client_used(q) PROVE Same
  BY <1>5 DEF TypeOK, mark_client_used, Stays
<1>6. ASSUME NEW q \in Handlers, View(q), ~Reject(q)
      PROVE  Stays(r) /\ ((pc[r] = "answered" /\ answer'[r] = answer[r]) \/ Replied(r))
  <2>1. PICK shown, carried, written, referred :
          Reply(q, shown, carried, written, referred) /\ Decent(q, shown, carried, written, referred)
    BY <1>6, ViewIsDecent
  <2>2. Stays(r)
    BY <2>1 DEF Reply, Stays
  <2>3. CASE q = r
    BY <2>1, <2>2, <2>3 DEF TypeOK, Reply, Replied
  <2>4. CASE q # r
    BY <2>1, <2>2, <2>4 DEF TypeOK, Reply
  <2> QED BY <2>3, <2>4, <2>2
<1>7. ASSUME NEW q \in Handlers, Answer(q) PROVE Same
  BY <1>1, <1>7 DEF Answer
<1>8. ASSUME NEW p \in Processes, Boot(p) PROVE Same
  BY <1>8 DEF TypeOK, Boot, Forget, Stays
<1>9. CASE revoke_service_token \/ Expire \/ Elapse \/ RemoveGrant \/ SetFlag \/ UNCHANGED vars
  BY <1>9 DEF revoke_service_token, Expire, Elapse, RemoveGrant, SetFlag, vars, handlerVars, Stays
<1> QED BY <1>1, <1>2, <1>3, <1>4, <1>5, <1>6, <1>7, <1>8, <1>9 DEF Next, Handle

LEMMA AnswersInit == Init => AnswersWithinGrants /\ ReadsStayInScope /\ WritesStayInScope
BY DEF Init, AnswersWithinGrants, ReadsStayInScope, WritesStayInScope, WithinGrants, NoAnswer

LEMMA AnswersStep ==
  TypeOK /\ Served /\ AnswersWithinGrants /\ [Next]_vars => AnswersWithinGrants'
<1> SUFFICES ASSUME TypeOK, Served, AnswersWithinGrants, [Next]_vars, NEW r \in Handlers
             PROVE  /\ WithinGrants(held[r], request[r], answer[r].shown \union answer[r].written)'
                    /\ (\A t \in answer[r].carried :
                          WithinGrants(held[r], request[r], {t}) \/ CarriedBy(r, t))'
                    /\ (request[r].v2 => WithinGrants(held[r], request[r], answer[r].counted))'
  BY DEF AnswersWithinGrants
<1>1. CASE pc'[r] # "answered"
  BY <1>1, ServedStep DEF Served, WithinGrants, NoAnswer
<1>2. CASE pc'[r] = "answered"
  <2>1. Stays(r)
    BY <1>2, AnswerStep
  <2>2. CASE pc[r] = "answered" /\ answer'[r] = answer[r]
    BY <2>1, <2>2 DEF Stays, AnswersWithinGrants, WithinGrants, CarriedBy
  <2>3. CASE Replied(r)
    <3>1. PICK shown, carried, written, referred :
            /\ Decent(r, shown, carried, written, referred)
            /\ answer'[r] = [shown |-> shown, carried |-> carried, counted |-> Counted(r),
                             written |-> written, referred |-> referred]
      BY <2>3 DEF Replied
    <3>2. cached[r] \subseteq held[r] /\ has_permission(cached[r], request[r])
      BY <3>1 DEF Decent, Served
    <3>3. Proper(cached[r], request[r], Counted(r))
      BY <3>2, CountedIsProper DEF TypeOK
    <3>4. WithinGrants(held[r], request[r], shown \union written)
      BY <3>1, <3>2 DEF Decent, Proper, WithinGrants
    <3>5. WithinGrants(held[r], request[r], Counted(r))
      BY <3>2, <3>3 DEF Proper, WithinGrants
    <3>6. ASSUME NEW t \in carried
          PROVE  \/ WithinGrants(held[r], request[r], {t})
                 \/ /\ t.ns = Global
                    /\ \E a \in shown \union written : a.ns = request[r].ns /\ Compatible(a, t)
      <4>1. Bearable(cached[r], request[r], shown \union written, t)
        BY <3>1 DEF Decent
      <4> QED BY <3>2, <4>1 DEF Bearable, WithinGrants
    <3>7. (\A t \in answer[r].carried :
             WithinGrants(held[r], request[r], {t}) \/ CarriedBy(r, t))'
      BY <2>1, <3>1, <3>6 DEF Stays, WithinGrants, CarriedBy
    <3> QED BY <2>1, <3>1, <3>4, <3>5, <3>7 DEF Stays, WithinGrants
  <2> QED BY <1>2, <2>2, <2>3, AnswerStep
<1> QED BY <1>1, <1>2

LEMMA ScopeStep ==
  TypeOK /\ Served /\ ReadsStayInScope /\ WritesStayInScope /\ [Next]_vars =>
    ReadsStayInScope' /\ WritesStayInScope'
<1> SUFFICES ASSUME TypeOK, Served, ReadsStayInScope, WritesStayInScope, [Next]_vars
             PROVE  ReadsStayInScope' /\ WritesStayInScope'
  OBVIOUS
<1> DEFINE
      Reading(r) ==
        /\ \A s \in answer[r].shown :
             s.ns = request[r].ns \/ (s.ns = Global /\ _wants_global(request[r]))
        /\ \A t \in answer[r].carried : t.ns \in {request[r].ns, Global}
      Writing(r) == \A s \in answer[r].written : s.ns = request[r].ns
      Referring(r) == \A s \in answer[r].referred : s.ns # request[r].ns =>
        /\ s.ns = Global
        /\ \A app \in application_targets(request[r]) :
             \E g \in held[r] : Reaches(g, "write", [app |-> app, ns |-> Global])
<1>0. SUFFICES ASSUME NEW r \in Handlers PROVE Reading(r)' /\ Writing(r)' /\ Referring(r)'
  BY DEF ReadsStayInScope, WritesStayInScope
<1>1. CASE pc'[r] # "answered"
  BY <1>1, ServedStep DEF Served, NoAnswer
<1>2. CASE pc'[r] = "answered"
  <2>1. Stays(r)
    BY <1>2, AnswerStep
  <2>2. CASE pc[r] = "answered" /\ answer'[r] = answer[r]
    <3>1. Reading(r) /\ Writing(r) /\ Referring(r)
      BY DEF ReadsStayInScope, WritesStayInScope
    <3> QED BY <2>1, <2>2, <3>1 DEF Stays
  <2>3. CASE Replied(r)
    <3>1. PICK shown, carried, written, referred :
            /\ Decent(r, shown, carried, written, referred)
            /\ answer'[r] = [shown |-> shown, carried |-> carried, counted |-> Counted(r),
                             written |-> written, referred |-> referred]
      BY <2>3 DEF Replied
    <3>2. Reading(r)'
      BY <2>1, <3>1 DEF Stays, Decent, Proper, InScope
    <3>3. Writing(r)'
      BY <2>1, <3>1 DEF Stays, Decent
    <3>4. ASSUME NEW s \in referred, s.ns # request[r].ns
          PROVE  /\ s.ns = Global
                 /\ \A app \in application_targets(request[r]) :
                      \E g \in held[r] : Reaches(g, "write", [app |-> app, ns |-> Global])
      <4>1. s.ns = Global /\ request_authorizes_global_references(cached[r], request[r])
        BY <3>1, <3>4 DEF Decent, namespace_q
      <4>2. required_scope(request[r]) = "write"
        BY <3>1 DEF Decent, required_scope, Reads, Writes
      <4>3. cached[r] \subseteq held[r]
        BY <3>1 DEF Decent, Served
      <4>4. \A app \in application_targets(request[r]) :
              \E g \in cached[r] : grant_authorizes(g, app, Global, "write")
        BY <4>1, <4>2 DEF request_authorizes_global_references
      <4>5. \A app, g : grant_authorizes(g, app, Global, "write") =>
              Reaches(g, "write", [app |-> app, ns |-> Global])
        BY DEF grant_authorizes, Reaches
      <4> QED BY <4>1, <4>3, <4>4, <4>5
    <3>5. Referring(r)'
      BY <2>1, <3>1, <3>4 DEF Stays
    <3> QED BY <3>2, <3>3, <3>5
  <2> QED BY <1>2, <2>2, <2>3, AnswerStep
<1> QED BY <1>1, <1>2

(* Whatever a client asks for, with whatever grants and while they go:     *)
(* what it is shown, has counted or writes was within them, but for the    *)
(* global tags that the assignments it is shown carry.                     *)
THEOREM AnswersCovered == Spec => []AnswersWithinGrants
<1>1. Init => AnswersWithinGrants
  BY AnswersInit
<1> QED BY <1>1, AlwaysServed, AnswersStep, PTL DEF Spec

(* Requests meet rows of their own namespace, and global ones only where   *)
(* they ask for them or an assignment of theirs carries one.               *)
THEOREM ReadsKeepScope == Spec => []ReadsStayInScope
<1>1. Init => ReadsStayInScope /\ WritesStayInScope
  BY AnswersInit
<1> QED BY <1>1, AlwaysServed, ScopeStep, PTL DEF Spec

(* Writes land in their own namespace, and refer out of it only to global  *)
(* rows and with global grants.                                            *)
THEOREM WritesKeepScope == Spec => []WritesStayInScope
<1>1. Init => ReadsStayInScope /\ WritesStayInScope
  BY AnswersInit
<1> QED BY <1>1, AlwaysServed, ScopeStep, PTL DEF Spec

-----------------------------------------------------------------------------
(* Revocation.  A token that ended is not valid again.                     *)
Revoked ==
  /\ ended => ~client.active \/ client.expired
  /\ \A r \in Handlers : late[r] => ended
  /\ RevokedForGood

LEMMA RevokedStep == TypeOK /\ Served /\ Revoked /\ [Next]_vars => Revoked'
<1> SUFFICES ASSUME TypeOK, Served, Revoked, [Next]_vars PROVE Revoked'
  OBVIOUS
<1> USE DEF Revoked, RevokedForGood
<1>0. ASSUME NEW rs, Forget(rs), client' = client, ended' = ended PROVE Revoked'
  BY <1>0 DEF TypeOK, Forget
<1>1. ASSUME NEW r \in Handlers, Reject(r) PROVE Revoked'
  BY <1>0, <1>1 DEF Reject, Refuse
<1>2. ASSUME NEW r \in Handlers, Route(r) PROVE Revoked'
  BY <1>2 DEF TypeOK, Route
<1>3. ASSUME NEW r \in Handlers, authenticate_client(r) PROVE Revoked'
  <2>1. CASE client.active /\ ~client.expired
    BY <1>3, <2>1 DEF TypeOK, authenticate_client
  <2>2. CASE ~(client.active /\ ~client.expired)
    BY <1>1, <1>3, <2>2 DEF authenticate_client, Reject
  <2> QED BY <2>1, <2>2
<1>4. ASSUME NEW r \in Handlers, Authorize(r) PROVE Revoked'
  <2>1. CASE Refuse(r)
    BY <1>1, <1>4, <2>1 DEF Authorize, Reject
  <2>2. CASE ~Refuse(r)
    BY <1>4, <2>2 DEF TypeOK, Authorize
  <2> QED BY <2>1, <2>2
<1>5. ASSUME NEW r \in Handlers, mark_client_used(r) PROVE Revoked'
  <2>1. client'.active = client.active /\ client'.expired = client.expired
    BY <1>5 DEF TypeOK, mark_client_used, Clients
  <2> QED BY <1>5, <2>1 DEF TypeOK, mark_client_used
<1>6. ASSUME NEW r \in Handlers, View(r) PROVE Revoked'
  <2>1. ASSUME NEW shown, NEW carried, NEW written, NEW referred,
               Reply(r, shown, carried, written, referred), pc[r] = "permitted"
        PROVE  Revoked'
    BY <2>1 DEF TypeOK, Reply
  <2> QED BY <1>1, <1>6, <2>1, ViewIsDecent DEF Decent
<1>7. ASSUME NEW r \in Handlers, Answer(r) PROVE Revoked'
  BY <1>1, <1>7 DEF Answer
<1>8. ASSUME NEW p \in Processes, Boot(p) PROVE Revoked'
  BY <1>0, <1>8 DEF Boot
<1>9. CASE revoke_service_token \/ Expire \/ Elapse
  <2>1. /\ client'.active => client.active
        /\ client.expired => client'.expired
        /\ ended' => ended \/ ~client'.active \/ client'.expired
    BY <1>9 DEF TypeOK, revoke_service_token, Expire, Elapse, Clients
  <2> QED BY <1>9, <2>1 DEF TypeOK, revoke_service_token, Expire, Elapse, handlerVars
<1>10. CASE RemoveGrant \/ SetFlag \/ UNCHANGED vars
  BY <1>10 DEF RemoveGrant, SetFlag, vars, handlerVars
<1> QED BY <1>2, <1>3, <1>4, <1>5, <1>6, <1>7, <1>8, <1>9, <1>10 DEF Next, Handle

(* Nothing that a request in flight saves brings a revoked token back.     *)
THEOREM RevocationHolds == Spec => []RevokedForGood
<1>1. Init => Revoked
  BY DEF Init, Revoked, RevokedForGood
<1>2. Revoked => RevokedForGood
  BY DEF Revoked
<1> QED BY <1>1, <1>2, AlwaysServed, RevokedStep, PTL DEF Spec

-----------------------------------------------------------------------------
(* The rollout flags.  Every process booted with flags that the check      *)
(* admits, and routed a namespaced request with V2_API among them.         *)
Deployed ==
  /\ \A p \in Processes : Bootable(booted[p])
  /\ \A r \in Handlers :
       /\ request[r].ns # Global => "V2_API" \in booted[process[r]]
       /\ (\E s \in answer[r].written : s.ns # Global) => "WRITE" \in booted[process[r]]

LEMMA DeployedInit == Init => Deployed
<1> SUFFICES ASSUME Init PROVE Deployed
  OBVIOUS
<1>1. Bootable(env)
  BY AccessAssumption DEF Init
<1> QED BY <1>1 DEF Init, Deployed, NoRequest, NoAnswer

LEMMA DeployedStep == TypeOK /\ Served /\ Deployed /\ [Next]_vars => Deployed'
<1> SUFFICES ASSUME TypeOK, Served, Deployed, [Next]_vars PROVE Deployed'
  OBVIOUS
<1> USE DEF Deployed
<1>0. ASSUME NEW r \in Handlers, Reject(r) PROVE Deployed'
  BY <1>0 DEF TypeOK, Reject, Refuse, Forget, NoRequest, NoAnswer
<1>1. ASSUME NEW r \in Handlers, Route(r) PROVE Deployed'
  <2>1. answer[r] = NoAnswer
    BY <1>1 DEF Route, Served
  <2> QED BY <1>1, <2>1 DEF TypeOK, Route, NoAnswer
<1>2. ASSUME NEW r \in Handlers, authenticate_client(r) PROVE Deployed'
  <2>1. CASE client.active /\ ~client.expired
    BY <1>2, <2>1 DEF TypeOK, authenticate_client
  <2>2. CASE ~(client.active /\ ~client.expired)
    BY <1>0, <1>2, <2>2 DEF authenticate_client, Reject
  <2> QED BY <2>1, <2>2
<1>3. ASSUME NEW r \in Handlers, Authorize(r) PROVE Deployed'
  <2>1. CASE Refuse(r)
    BY <1>0, <1>3, <2>1 DEF Authorize, Reject
  <2>2. CASE ~Refuse(r)
    BY <1>3, <2>2 DEF TypeOK, Authorize
  <2> QED BY <2>1, <2>2
<1>4. ASSUME NEW r \in Handlers, mark_client_used(r) PROVE Deployed'
  BY <1>4 DEF mark_client_used
<1>5. ASSUME NEW r \in Handlers, View(r) PROVE Deployed'
  <2>1. ASSUME NEW shown, NEW carried, NEW written, NEW referred,
               Reply(r, shown, carried, written, referred), Decent(r, shown, carried, written, referred)
        PROVE  Deployed'
    <3>1. (\E s \in written : s.ns # Global) => "WRITE" \in booted[process[r]]
      BY <2>1 DEF Decent, write_enabled
    <3> QED BY <2>1, <3>1 DEF TypeOK, Reply
  <2> QED BY <1>0, <1>5, <2>1, ViewIsDecent
<1>6. ASSUME NEW r \in Handlers, Answer(r) PROVE Deployed'
  BY <1>0, <1>6 DEF Answer
<1>7. ASSUME NEW p \in Processes, Boot(p) PROVE Deployed'
  <2>1. \A q \in Processes : Bootable(booted'[q])
    BY <1>7 DEF TypeOK, Boot
  <2>2. \A r \in Handlers : process[r] # p =>
          /\ request'[r] = request[r] /\ answer'[r] = answer[r] /\ process'[r] = process[r]
          /\ booted'[process[r]] = booted[process[r]]
    BY <1>7 DEF TypeOK, Boot, Forget
  <2>3. \A r \in Handlers : process[r] = p => request'[r] = NoRequest /\ answer'[r] = NoAnswer
    BY <1>7 DEF TypeOK, Boot, Forget
  <2> QED BY <2>1, <2>2, <2>3 DEF NoRequest, NoAnswer
<1>8. CASE revoke_service_token \/ Expire \/ Elapse \/ RemoveGrant \/ SetFlag \/ UNCHANGED vars
  BY <1>8 DEF revoke_service_token, Expire, Elapse, RemoveGrant, SetFlag, vars, handlerVars
<1> QED BY <1>1, <1>2, <1>3, <1>4, <1>5, <1>6, <1>7, <1>8 DEF Next, Handle

(* However the flags are set and whenever processes boot, namespaced rows  *)
(* are served on the whole ladder, and written with WRITE on top of it.    *)
THEOREM RolloutHolds == Spec => []NamespacesNeedTheirFlags
<1>1. TypeOK /\ Deployed => NamespacesNeedTheirFlags
  <2>1. ASSUME NEW flags, Bootable(flags), "V2_API" \in flags
        PROVE  {"SCHEMA", "READ", "AUTH"} \subseteq flags
    <3>1. "READ" \in flags /\ "AUTH" \in flags
      BY <2>1 DEF Bootable, FlagRules
    <3> QED BY <2>1, <3>1 DEF Bootable, FlagRules
  <2>2. ASSUME Deployed, TypeOK PROVE NamespacesNeedTheirFlags
    BY <2>1, <2>2 DEF Deployed, NamespacesNeedTheirFlags, TypeOK
  <2> QED BY <2>2
<1> QED BY <1>1, AlwaysServed, DeployedInit, DeployedStep, PTL DEF Spec

=============================================================================
