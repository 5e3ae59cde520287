----------------------------- MODULE Resolution -----------------------------
(***************************************************************************)
(* Looking a slug up: GET tag-resolution (resolve_tag_reference) and the   *)
(* assignment of a tag by the slug or the id of an alias                   *)
(* (resolve_assignable_alias, BulkAssignSerializer.resolve_tag_ids), by    *)
(* permitted requests, while other transactions change the rows.           *)
(*                                                                         *)
(* The state is the active rows that have one slug.  tag-resolution reads  *)
(* the tags, and if there are none, in a second statement, the aliases;    *)
(* every other lookup is one statement.  Several rows with the slug are    *)
(* told apart by a ladder of scopes, computed by the database.             *)
(***************************************************************************)
EXTENDS Grants, Naturals, Sequences, FiniteSets

CONSTANTS
  Types, AnyType,  \* types of tags; no type in the query
  Clients,         \* the sets of grants that clients hold
  MaxRows          \* bound: active rows with the slug

ASSUME ResolutionAssumption ==
  /\ Clients \subseteq SUBSET Grants
  /\ AnyType \notin Types
  /\ MaxRows \in Nat

(* A tag, unique by scope and type; an alias, unique by scope, with the    *)
(* scope of its active canonical tag (which has a slug of its own).        *)
TagRows == [scope : Scopes, type : Types]
AliasRows == {a \in [scope : Scopes, target : Scopes] : Compatible(a.scope, a.target)}

(* A lookup once its request is permitted: the scope it looks in, whether  *)
(* that includes global rows, the application and the type.                *)
Lookups == {"resolve", "alias_slug", "alias_slugs", "alias_id"}
Calls == [lookup : Lookups, ns : Spaces, include_global : BOOLEAN, app : Ids,
          type : Types \union {AnyType}]

permitted(view) ==
  {p \in Clients \X {q \in Requests : q.view = view /\ Routable(q)} : has_permission(p[1], p[2])}

(* The views tag_resolution, and assignment_collection and bulk_assign.    *)
tag_resolution ==
  {[lookup |-> "resolve", ns |-> ResolutionScope(p[2]), app |-> p[2].query, type |-> type,
    include_global |-> ResolutionIncludesGlobal(p[2], request_include_global(p[1], p[2]))] :
     type \in Types \union {AnyType},
     p \in {p \in permitted("resolve") :
             ResolutionAllowed(p[2], request_include_global(p[1], p[2]))}}

assignment_lookups ==
  {[lookup |-> lookup, ns |-> p[2].ns, app |-> p[2].body, type |-> AnyType,
    include_global |-> request_authorizes_global_references(p[1], p[2])] :
     lookup \in Lookups \ {"resolve"},
     p \in {p \in permitted("assign") : p[2].body \in Apps}}

-----------------------------------------------------------------------------
VARIABLES
  tags, aliases,  \* the active rows that have the slug
  pc, call,
  answer,
  steady          \* observation only: the rows active ever since the tags were read

table == <<tags, aliases>>
vars == <<tags, aliases, pc, call, answer, steady>>

NoScope == [app |-> Shared, ns |-> Global]
(* What a lookup returns: a tag; an alias and its tag; an ambiguity of     *)
(* types or of applications; nothing.                                      *)
OfTag(t) == [kind |-> "tag", scope |-> t.scope, target |-> t.scope]
OfAlias(a) == [kind |-> "alias", scope |-> a.scope, target |-> a.target]
Failure(kind) == [kind |-> kind, scope |-> NoScope, target |-> NoScope]
Failures == {"none", "several types", "several applications"}
Answers == [kind : {"tag", "alias"}, scope : Scopes, target : Scopes]
           \union {Failure(kind) : kind \in Failures}
NoCall == [lookup |-> "resolve", ns |-> Global, include_global |-> FALSE, app |-> Shared,
           type |-> AnyType]

-----------------------------------------------------------------------------
(* resolution_priority, the CASE of the queries; a global request that     *)
(* names no application has none.                                          *)
resolution_priority_by_namespace(c, s) == \* mutant: as if no application were named
  IF s.ns = c.ns THEN 0 ELSE 1

resolution_priority(c, s) ==
  IF c.app = Shared THEN IF s.ns = c.ns THEN 0 ELSE 1
  ELSE IF s.app # c.app THEN 2
  ELSE IF s.ns = c.ns THEN 0 ELSE 1

most_specific_matches(c, rows) ==
  {row \in rows : \A other \in rows :
     resolution_priority(c, row.scope) <= resolution_priority(c, other.scope)}

active_tags_for_resolution(c) ==
  {t \in tags : /\ t.scope \in ResolutionRows(c.ns, c.include_global, c.app)
                /\ c.type \in {AnyType, t.type}}

active_aliases_of_any_tag(c) == \* mutant: the namespace of the canonical tag is not filtered
  {a \in aliases : a.scope \in ResolutionRows(c.ns, c.include_global, c.app)}

active_aliases_of_the_namespace(c) == \* mutant: no fallback to global aliases
  {a \in aliases : /\ a.scope \in ResolutionRows(c.ns, FALSE, c.app)
                   /\ a.target.ns \in namespace_q(c.ns, c.include_global)}

active_aliases_for_resolution(c) ==
  {a \in aliases : /\ a.scope \in ResolutionRows(c.ns, c.include_global, c.app)
                   /\ a.target.ns \in namespace_q(c.ns, c.include_global)}

-----------------------------------------------------------------------------
(* The ladder as alias_services.py documents it, the reference for all of  *)
(* the above: the scopes a lookup may match, the most specific first.      *)
Ladder(c) ==
  LET shared == [app |-> Shared, ns |-> Global]
      app_global == [app |-> c.app, ns |-> Global]
      exact == [app |-> c.app, ns |-> c.ns]
  IN IF c.app = Shared THEN <<shared>>
     ELSE IF c.ns = Global THEN <<app_global, shared>>
     ELSE IF c.include_global THEN <<exact, app_global, shared>>
     ELSE <<exact>>

Rung(c, s) == CHOOSE i \in DOMAIN Ladder(c) : Ladder(c)[i] = s
OnLadder(c, s) == \E i \in DOMAIN Ladder(c) : Ladder(c)[i] = s

Tagged(c, ts) == {t \in ts : OnLadder(c, t.scope) /\ c.type \in {AnyType, t.type}}
Aliased(c, as) == {a \in as : OnLadder(c, a.scope) /\ OnLadder(c, a.target)}
Top(c, rows) == {r \in rows : \A o \in rows : Rung(c, r.scope) <= Rung(c, o.scope)}

RightAnswer(c, ts, as) ==
  LET canonical == IF c.lookup = "resolve" THEN Top(c, Tagged(c, ts)) ELSE {}
      alias == Top(c, Aliased(c, as))
  IN IF Cardinality(canonical) > 1 THEN Failure("several types")
     ELSE IF canonical # {} THEN OfTag(CHOOSE t \in canonical : TRUE)
     ELSE IF alias # {} THEN OfAlias(CHOOSE a \in alias : TRUE)
     ELSE Failure("none")

-----------------------------------------------------------------------------
Unique_tags_only(ts, as) == \* mutant: aliases lost their unique constraints
  Cardinality(ts) + Cardinality(as) <= MaxRows

Unique(ts, as) ==
  /\ Cardinality(ts) + Cardinality(as) <= MaxRows
  /\ \A a, b \in as : a.scope = b.scope => a = b

Init ==
  /\ tags = {} /\ aliases = {}
  /\ pc = "idle"
  /\ call = NoCall
  /\ answer = Failure("none")
  /\ steady = [tags |-> {}, aliases |-> {}]

(* The lookup ends with an answer for c, the table being what it is.       *)
Return(c, a) ==
  /\ pc' = "answered"
  /\ call' = c
  /\ answer' = a
  /\ steady' = IF pc = "idle" THEN [tags |-> tags, aliases |-> aliases] ELSE steady
  /\ UNCHANGED table

(* raise_canonical_ambiguity                                               *)
canonical_ambiguity(c, candidates) ==
  IF c.type = AnyType /\ Cardinality({t.type : t \in candidates}) > 1
  THEN Failure("several types")
  ELSE Failure("several applications")

(* resolve_tag_reference, its first statement: tags of the application     *)
(* before shared ones, then the most specific.                             *)
resolve_tags ==
  /\ pc = "idle"
  /\ \E c \in tag_resolution :
       LET found == active_tags_for_resolution(c)
           app_tags == {t \in found : c.app # Shared /\ t.scope.app = c.app}
           candidates == most_specific_matches(c, IF app_tags = {} THEN found ELSE app_tags)
       IN IF found = {}
          THEN /\ pc' = "tags read"
               /\ call' = c
               /\ steady' = [tags |-> tags, aliases |-> aliases]
               /\ UNCHANGED <<table, answer>>
          ELSE Return(c, IF Cardinality(candidates) > 1
                         THEN canonical_ambiguity(c, candidates)
                         ELSE OfTag(CHOOSE t \in candidates : TRUE))

(* Its second statement, with unique_resolution_match.                     *)
resolve_aliases ==
  /\ pc = "tags read"
  /\ LET top == most_specific_matches(call, active_aliases_for_resolution(call))
     IN Return(call, IF top = {} THEN Failure("none")
                     ELSE IF Cardinality(top) > 1 THEN Failure("several applications")
                     ELSE OfAlias(CHOOSE a \in top : TRUE))

(* resolve_assignable_alias by slug, and active_aliases_for_resolution_bulk*)
(* with resolve_tag_ids, for each slug: the first row in the order of      *)
(* priority, name and id.                                                  *)
first_alias ==
  /\ pc = "idle"
  /\ \E c \in assignment_lookups :
       /\ c.lookup \in {"alias_slug", "alias_slugs"}
       /\ LET top == most_specific_matches(c, active_aliases_for_resolution(c))
          IN IF top = {} THEN Return(c, Failure("none"))
                         ELSE \E a \in top : Return(c, OfAlias(a))

(* resolve_assignable_alias by id: row_matches_scope of the alias and of   *)
(* its tag, then the application of the alias.                             *)
alias_of_id ==
  /\ pc = "idle"
  /\ \E c \in assignment_lookups, a \in aliases :
       /\ c.lookup = "alias_id"
       /\ Return(c, IF /\ a.scope.ns \in namespace_q(c.ns, c.include_global)
                       /\ a.target.ns \in namespace_q(c.ns, c.include_global)
                       /\ a.scope.app \in {Shared, c.app}
                    THEN OfAlias(a) ELSE Failure("none"))

Respond ==
  /\ pc = "answered"
  /\ pc' = "idle"
  /\ call' = NoCall
  /\ answer' = Failure("none")
  /\ steady' = [tags |-> {}, aliases |-> {}]
  /\ UNCHANGED table

-----------------------------------------------------------------------------
(* Other transactions commit (module TaxonomyWrites).  What they do after  *)
(* the answer no longer matters to it.                                     *)
Commit(ts, as) ==
  /\ pc # "answered"
  /\ Unique(ts, as)
  /\ tags' = ts
  /\ aliases' = as
  /\ steady' = [tags |-> steady.tags \intersect ts, aliases |-> steady.aliases \intersect as]
  /\ UNCHANGED <<pc, call, answer>>

(* A tag or an alias is created, reactivated or renamed to the slug.       *)
Appear ==
  \/ \E t \in TagRows \ tags : Commit(tags \union {t}, aliases)
  \/ \E a \in AliasRows \ aliases : Commit(tags, aliases \union {a})

(* A tag or an alias is renamed or deactivated, or the canonical tag of    *)
(* aliases is, which takes them along.                                     *)
Disappear ==
  \/ \E t \in tags : Commit(tags \ {t}, aliases)
  \/ \E gone \in SUBSET aliases :
       /\ gone # {}
       /\ Cardinality({a.target : a \in gone}) = 1
       /\ Commit(tags, aliases \ gone)

(* update_tag gives a tag another type, update_tag_alias an alias another  *)
(* canonical tag.                                                          *)
Change ==
  \/ \E t \in tags : \E u \in TagRows \ tags :
       u.scope = t.scope /\ Commit((tags \ {t}) \union {u}, aliases)
  \/ \E a \in aliases : \E b \in AliasRows \ aliases :
       b.scope = a.scope /\ Commit(tags, (aliases \ {a}) \union {b})

Next ==
  resolve_tags \/ resolve_aliases \/ first_alias \/ alias_of_id \/ Respond
  \/ Appear \/ Disappear \/ Change

Spec == Init /\ [][Next]_vars

-----------------------------------------------------------------------------
(* Properties.                                                             *)

(* Every variable keeps its type, and the rows stay unique.                *)
TypeOK ==
  /\ tags \subseteq TagRows /\ aliases \subseteq AliasRows
  /\ \A a, b \in aliases : a.scope = b.scope => a = b
  /\ pc \in {"idle", "tags read", "answered"}
  /\ call \in Calls /\ answer \in Answers
  /\ steady.tags \subseteq tags /\ steady.aliases \subseteq aliases

(* A lookup by slug answers what the documented ladder says of the rows as *)
(* they are when it answers, the most specific scope first and canonical   *)
(* tags before aliases.  The one exception is the gap between the two      *)
(* statements of tag-resolution: a canonical tag that came after the tags  *)
(* were read is passed over for the ladder's alias.                        *)
ResolvesTheLadder ==
  pc = "answered" /\ call.lookup # "alias_id" =>
    \/ answer = RightAnswer(call, tags, aliases)
    \/ /\ Tagged(call, tags) # {} /\ Tagged(call, steady.tags) = {}
       /\ answer = RightAnswer(call, {}, aliases)

(* Whatever other transactions do meanwhile, a row that matched throughout *)
(* is answered, or one at least as specific is: a tag never gives way to an*)
(* alias, nor an application's row to a shared one.                        *)
StableRowsAreFound ==
  pc = "answered" /\ call.lookup # "alias_id" =>
    /\ \A t \in Tagged(call, steady.tags) : call.lookup = "resolve" =>
         \/ answer.kind = "tag" /\ Rung(call, answer.scope) <= Rung(call, t.scope)
         \/ answer.kind = "several types"
    /\ \A a \in Aliased(call, steady.aliases) :
         \/ answer.kind \in {"tag", "several types"}
         \/ answer.kind = "alias" /\ Rung(call, answer.scope) <= Rung(call, a.scope)

(* Of a permitted request, only the types of tags in one scope are ever    *)
(* ambiguous, and only when it names no type: "through the HTTP surface the*)
(* ladder is always a strict total order", because a namespaced request    *)
(* without an application has no permission.                               *)
OnlyTypesAreAmbiguous ==
  /\ answer.kind # "several applications"
  /\ answer.kind = "several types" => call.type = AnyType
  /\ pc = "tags read" \/ (pc = "answered" /\ call.lookup \in {"alias_slug", "alias_slugs"}) =>
       Cardinality(most_specific_matches(call, active_aliases_for_resolution(call))) <= 1

(* An alias, whether by slug or by id, reaches no tag that its request     *)
(* could not have reached by the tag's own slug: the scope of the alias is *)
(* checked and so is that of its tag.                                      *)
AliasesWidenNothing ==
  pc = "answered" /\ answer.kind = "alias" => OnLadder(call, answer.target)

=============================================================================
