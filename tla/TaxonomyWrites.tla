---------------------------- MODULE TaxonomyWrites ----------------------------
(***************************************************************************)
(* Concurrent writers of the taxonomy: the create_, update_, deactivate_   *)
(* and reactivate_ services of octonomy/tags (services.py,                 *)
(* alias_services.py, vocabulary_services.py), called by REST views and    *)
(* admin forms over one PostgreSQL database at READ COMMITTED.             *)
(*                                                                         *)
(* A caller loads the row without a lock, and the service works on that    *)
(* instance.  Every unlocked read and every statement that may wait for    *)
(* another transaction is a step, the last one with the commit: for a row  *)
(* that is locked, for an active slug that is written and not committed,   *)
(* for a foreign key to a locked row.  Audit log and outbox rows are in the*)
(* same transaction: what the events say is recorded in the last step.     *)
(***************************************************************************)
EXTENDS Integers, FiniteSets

CONSTANTS
  Vocabularies, Tags, Aliases, \* the rows, present or yet to be created
  Slugs,      \* stands for every plain column, unique among active rows of a scope
  App, Ns,    \* the immutable scope of each row: application_id and namespace
  Shared,     \* application_id NULL
  Global,     \* namespace NULL
  NoRow, NoSlug,
  Requests,   \* concurrent service calls
  Services,   \* the services that are called
  Seeds,      \* the tables the calls may find
  MaxCalls    \* bound: service calls in a behaviour

Rows == Vocabularies \union Tags \union Aliases
Fields == {"active", "slug", "link"}

(* A row: is_active, its plain columns, and its foreign key: the vocabulary*)
(* of a tag, the canonical tag of an alias.                                *)
Content == [active : BOOLEAN, slug : Slugs, link : Rows \union {NoRow}]
Missing == [active |-> FALSE, slug |-> NoSlug, link |-> NoRow]
Targets(x) == IF x \in Tags THEN Vocabularies \union {NoRow}
              ELSE IF x \in Aliases THEN Tags ELSE {NoRow}
Kind(x) == IF x \in Tags THEN Tags ELSE IF x \in Aliases THEN Aliases ELSE Vocabularies

Creates == {"create_vocabulary", "create_tag", "create_tag_alias"}
Updates == {"update_vocabulary", "update_tag", "update_tag_alias"}
Deactivations == {"deactivate_vocabulary", "deactivate_tag", "deactivate_tag_alias"}
Reactivations == {"reactivate_vocabulary", "reactivate_tag", "reactivate_tag_alias"}
ServicesOf(x) ==
  IF x \in Tags
  THEN {"create_tag", "update_tag", "deactivate_tag", "reactivate_tag"}
  ELSE IF x \in Aliases
  THEN {"create_tag_alias", "update_tag_alias", "deactivate_tag_alias", "reactivate_tag_alias"}
  ELSE {"create_vocabulary", "update_vocabulary", "deactivate_vocabulary",
        "reactivate_vocabulary"}

(* validate_tag_parent, validate_tag_vocabulary and validate_alias_tag     *)
(* agree on scopes: the target is shared or of the same application, and   *)
(* global or of the same namespace.                                        *)
Fits(x, target) == App[target] \in {Shared, App[x]} /\ Ns[target] \in {Global, Ns[x]}

ASSUME ScopesAssumption ==
  /\ Vocabularies \intersect Tags = {} /\ Vocabularies \intersect Aliases = {}
  /\ Tags \intersect Aliases = {} /\ NoRow \notin Rows /\ NoSlug \notin Slugs
  /\ \A x \in Rows : Ns[x] # Global => App[x] # Shared  \* namespace_scope_check
  /\ Services \subseteq Creates \union Updates \union Deactivations \union Reactivations
  /\ MaxCalls \in Nat
ASSUME SeedsAssumption ==
  \A table \in Seeds :
    /\ table \in [Rows -> Content \union {Missing}]
    /\ \A x \in Rows : table[x] # Missing => table[x].link \in Targets(x)
    /\ \A x \in Rows : LET link == table[x].link IN
         link # NoRow => Fits(x, link) /\ table[link] # Missing
    /\ \A a \in Aliases : table[a].active => table[table[a].link].active
-----------------------------------------------------------------------------
VARIABLES
  rows,           \* the committed tables
  write_enabled,  \* NAMESPACE_WRITE_ENABLED of the deployment
  (* Each request: where it is, the call it makes, the instance it loaded,  *)
  (* the rows it has locked FOR UPDATE, the tag reactivate_tag_alias chose  *)
  (* to lock and the attempts it has made.                                  *)
  pc, call, copy, holding, chosen, attempt,
  calls,
  (* Observation only: the table as a consumer rebuilds it from the events, *)
  (* the *.deactivated events per row, the tags update_tag ever saved, and  *)
  (* whether two calls ever overlapped.                                     *)
  mirror, deactivations, patched, overlapped

tableVars == <<rows, mirror, deactivations, patched>>
localVars == <<call, copy, chosen, attempt>>
callVars == <<calls, overlapped>>
vars == <<tableVars, write_enabled, pc, localVars, holding, callVars>>

NoCall == [service |-> "none", row |-> NoRow, sent |-> {}, data |-> Missing]
Points == {"idle", "called", "checked", "chosen", "locked", "ready", "saving", "saved"}
MaxAttempts == 3  \* of reactivate_tag_alias

Exists(x) == rows[x] # Missing
Writable(x) == Ns[x] # Global => write_enabled    \* guard_namespace_write_enabled

(* The INSERT or UPDATE of a row is under way ("saving"), or is done and   *)
(* not committed ("saved"): the row is locked, though not as FOR UPDATE.   *)
Writing(r) == pc[r] \in {"saving", "saved"}
Locks(r) == holding[r] \union (IF Writing(r) THEN {call[r].row} ELSE {})
Free(r, x) == \A q \in Requests \ {r} : x \notin Locks(q)

(* The columns named in `fields` replaced: what an in-memory instance      *)
(* becomes, and what a consumer makes of an event.                         *)
Merge(row, fields, data) ==
  [active |-> IF "active" \in fields THEN data.active ELSE row.active,
   slug   |-> IF "slug" \in fields THEN data.slug ELSE row.slug,
   link   |-> IF "link" \in fields THEN data.link ELSE row.link]
WithActive(row, b) == [row EXCEPT !.active = b]

Edited(r) == Merge(copy[r], call[r].sent, call[r].data)
Changed(r) ==
  {f \in call[r].sent : \/ f = "active" /\ copy[r].active # call[r].data.active
                        \/ f = "slug" /\ copy[r].slug # call[r].data.slug
                        \/ f = "link" /\ copy[r].link # call[r].data.link}

(* The partial unique indexes over active rows.                            *)
Clash(x, row, y, other) ==
  /\ row.active /\ other.active /\ row.slug = other.slug
  /\ y \in Kind(x) \ {x} /\ App[y] = App[x] /\ Ns[y] = Ns[x]
Duplicate(x, row) == \E y \in Kind(x) : Clash(x, row, y, rows[y])

VocabularyValid(x, v, require_active) ==
  v = NoRow \/ (Fits(x, v) /\ (require_active => rows[v].active))
AliasTagValid(x, t) == rows[t].active /\ Fits(x, t)

-----------------------------------------------------------------------------
Init ==
  /\ rows \in Seeds
  /\ mirror = rows
  /\ deactivations = [x \in Rows |-> 0]
  /\ patched = {}
  /\ write_enabled \in BOOLEAN
  /\ pc = [r \in Requests |-> "idle"]
  /\ call = [r \in Requests |-> NoCall]
  /\ copy = [r \in Requests |-> Missing]
  /\ holding = [r \in Requests |-> {}]
  /\ chosen = [r \in Requests |-> NoRow]
  /\ attempt = [r \in Requests |-> 0]
  /\ calls = 0
  /\ overlapped = FALSE

(* The call is over, whatever became of it: the transaction is committed   *)
(* or rolled back, and its locks are gone.                                 *)
Finish(r) ==
  /\ pc' = [pc EXCEPT ![r] = "idle"]
  /\ call' = [call EXCEPT ![r] = NoCall]
  /\ copy' = [copy EXCEPT ![r] = Missing]
  /\ holding' = [holding EXCEPT ![r] = {}]
  /\ chosen' = [chosen EXCEPT ![r] = NoRow]
  /\ attempt' = [attempt EXCEPT ![r] = 0]

Refuse(r) == Finish(r) /\ UNCHANGED tableVars
At(r, point, service) == pc[r] = point /\ call[r].service = service

Goto(r, point) ==
  /\ pc' = [pc EXCEPT ![r] = point]
  /\ UNCHANGED <<tableVars, localVars>>

(* What a caller can send: a new row; a PATCH of one field (bound); a bare *)
(* id.  The serializer has looked the foreign key up.                      *)
Contents(x) == {c \in Content : c.link \in Targets(x) /\ (c.link # NoRow => Exists(c.link))}
CallsOn(x) ==
  {c \in [service : Services \intersect ServicesOf(x), row : {x},
          sent : {{}, Fields} \union {{f} : f \in Fields}, data : Contents(x) \union {Missing}] :
     \/ c.service \in Creates /\ ~Exists(x) /\ c.sent = Fields /\ c.data # Missing
     \/ /\ c.service \in Updates /\ Exists(x) /\ c.data # Missing
        /\ \E f \in Fields : c.sent = {f} /\ c.data = Merge(rows[x], {f}, c.data)
     \/ /\ c.service \in Deactivations \union Reactivations /\ Exists(x)
        /\ c.sent = {} /\ c.data = Missing}

(* A caller loads the instance, unlocked, and calls the service; ids are   *)
(* fresh, so nobody else creates the same row.  A service refuses a        *)
(* namespaced row before anything else while the kill-switch is off.       *)
CallService(r) ==
  /\ pc[r] = "idle"
  /\ calls < MaxCalls
  /\ \E x \in Rows : \E c \in CallsOn(x) :
       /\ Writable(x)
       /\ Exists(x) \/ \A q \in Requests : call[q].row # x
       /\ call' = [call EXCEPT ![r] = c]
       /\ copy' = [copy EXCEPT ![r] = rows[x]]
  /\ pc' = [pc EXCEPT ![r] = "called"]
  /\ calls' = calls + 1
  /\ overlapped' = (overlapped \/ \E q \in Requests : pc[q] # "idle")
  /\ UNCHANGED <<tableVars, write_enabled, holding, chosen, attempt>>

(* The checks a service makes before its transaction, on unlocked reads;   *)
(* an update that changes nothing returns here.                            *)
RelationsValidAnyScope(r) == \* mutant: looks at is_active only
  LET link == Edited(r).link
  IN link # NoRow /\ "link" \in Changed(r) => rows[link].active

RelationsValid(r) ==
  LET x == call[r].row
      link == Edited(r).link
  IN CASE call[r].service = "create_tag"       -> VocabularyValid(x, link, TRUE)
       [] call[r].service = "update_tag"       -> VocabularyValid(x, link, "link" \in Changed(r))
       [] call[r].service = "update_tag_alias" -> AliasTagValid(x, link)
       [] OTHER                                -> TRUE

CheckRelations(r) ==
  /\ pc[r] = "called"
  /\ call[r].service \in (Creates \ {"create_tag_alias"}) \union Updates
  /\ IF RelationsValid(r) /\ (call[r].service \in Updates => Changed(r) # {})
     THEN Goto(r, "checked") /\ UNCHANGED holding
     ELSE Refuse(r)
  /\ UNCHANGED <<write_enabled, callVars>>

ChooseTagAliasFirst(r) == \* mutant: reads the tag_id FOR UPDATE, locking alias before tag
  /\ At(r, "called", "reactivate_tag_alias")
  /\ Free(r, call[r].row)
  /\ chosen' = [chosen EXCEPT ![r] = rows[call[r].row].link]
  /\ holding' = [holding EXCEPT ![r] = {call[r].row}]
  /\ pc' = [pc EXCEPT ![r] = "chosen"]
  /\ UNCHANGED <<tableVars, write_enabled, call, copy, attempt, callVars>>

(* reactivate_tag_alias: the unlocked read of the current tag_id.          *)
ChooseTag(r) ==
  /\ At(r, "called", "reactivate_tag_alias")
  /\ chosen' = [chosen EXCEPT ![r] = rows[call[r].row].link]
  /\ pc' = [pc EXCEPT ![r] = "chosen"]
  /\ UNCHANGED <<tableVars, write_enabled, call, copy, holding, attempt, callVars>>

(* Tag.objects.select_for_update(), the first statement of every           *)
(* transaction that takes locks on more than one row, and what the service *)
(* checks on the locked tag.                                               *)
LockTag(r, t, goes_on) ==
  /\ Free(r, t)
  /\ IF goes_on
     THEN Goto(r, "locked") /\ holding' = [holding EXCEPT ![r] = @ \union {t}]
     ELSE Refuse(r)
  /\ UNCHANGED <<write_enabled, callVars>>

LockCanonicalTagUnchecked(r) == \* mutant: trusts the check made before the lock
  /\ At(r, "called", "create_tag_alias") \/ At(r, "checked", "update_tag_alias")
  /\ LockTag(r, Edited(r).link, TRUE)
LockOwnTagStale(r) ==      \* mutant: decides on the instance loaded without a lock
  /\ pc[r] = "called"
  /\ \/ /\ call[r].service = "deactivate_tag"
        /\ LockTag(r, call[r].row, copy[r].active)
     \/ /\ call[r].service = "reactivate_tag"
        /\ LockTag(r, call[r].row, ~rows[call[r].row].active)

LockCanonicalTag(r) ==
  /\ At(r, "called", "create_tag_alias") \/ At(r, "checked", "update_tag_alias")
  /\ LockTag(r, Edited(r).link, AliasTagValid(call[r].row, Edited(r).link))
LockOwnTag(r) ==
  /\ pc[r] = "called"
  /\ \/ /\ call[r].service = "deactivate_tag"
        /\ LockTag(r, call[r].row, rows[call[r].row].active)
     \/ /\ call[r].service = "reactivate_tag"
        /\ LockTag(r, call[r].row, ~rows[call[r].row].active)
LockChosenTag(r) ==
  /\ pc[r] = "chosen"
  /\ LockTag(r, chosen[r], TRUE)

-----------------------------------------------------------------------------
(* Waiting for an active slug: what the transaction of q has written and   *)
(* not committed, the row as it was and as it will be, is neither there nor*)
(* gone for a unique index, and whoever enters the slug waits for q.       *)
NewRow(r) == IF call[r].service \in Reactivations
             THEN WithActive(rows[call[r].row], TRUE) ELSE Edited(r)
Uncommitted(q) ==
  (IF Writing(q) \/ At(q, "locked", "deactivate_tag") THEN {rows[call[q].row]} ELSE {})
    \union (IF pc[q] = "saved" THEN {Edited(q)} ELSE {})
SlugWait(r, q) ==
  /\ pc[r] \in {"saving", "ready"} /\ q # r
  /\ \E other \in Uncommitted(q) : Clash(call[r].row, NewRow(r), call[q].row, other)

(* Foreign keys are checked at the commit (Django declares them DEFERRABLE *)
(* INITIALLY DEFERRED); the check of a changed one waits for whoever has   *)
(* locked the referenced row FOR UPDATE.                                   *)
KeyWait(r, q) ==
  LET link == Edited(r).link
  IN /\ pc[r] = "saved" /\ q # r
     /\ link \notin {NoRow, rows[call[r].row].link} /\ link \in holding[q]

(* objects.create, and instance.save() of every column of the instance, not*)
(* the changed ones only; a duplicate active slug is a ConflictError.      *)
BeginWrite(r) ==
  /\ \/ pc[r] = "checked" /\ call[r].service # "update_tag_alias"
     \/ pc[r] = "locked" /\ call[r].service \in {"create_tag_alias", "update_tag_alias"}
  /\ Free(r, call[r].row)
  /\ Goto(r, "saving")
  /\ UNCHANGED <<write_enabled, holding, callVars>>

EnterSlug(r) ==
  /\ pc[r] = "saving"
  /\ \A q \in Requests : ~SlugWait(r, q)
  /\ IF Duplicate(call[r].row, Edited(r))
     THEN Refuse(r)
     ELSE Goto(r, "saved") /\ UNCHANGED holding
  /\ UNCHANGED <<write_enabled, callVars>>

(* The commits.  Commit(r, x, row, fields): row x becomes `row`, and its   *)
(* event tells of `fields` of it.                                          *)
Commit(r, x, row, fields) ==
  /\ rows' = [rows EXCEPT ![x] = row]
  /\ mirror' = [mirror EXCEPT ![x] = Merge(@, fields, row)]
  /\ Finish(r)
  /\ UNCHANGED <<write_enabled, callVars>>

InsertRow(r) ==
  /\ \A q \in Requests : ~KeyWait(r, q)
  /\ Commit(r, call[r].row, Edited(r), Fields)
  /\ UNCHANGED <<deactivations, patched>>

create_vocabulary(r) == At(r, "saved", "create_vocabulary") /\ InsertRow(r)
create_tag(r) == At(r, "saved", "create_tag") /\ InsertRow(r)
create_tag_alias(r) == At(r, "saved", "create_tag_alias") /\ InsertRow(r)

(* The event of a saved instance names the fields that the call changed.   *)
SaveInstance(r) ==
  LET x == call[r].row
  IN /\ \A q \in Requests : ~KeyWait(r, q)
     /\ Commit(r, x, Edited(r), Changed(r))
     /\ patched' = IF x \in Tags THEN patched \union {x} ELSE patched
     /\ UNCHANGED deactivations

update_vocabulary(r) == At(r, "saved", "update_vocabulary") /\ SaveInstance(r)
update_tag(r) == At(r, "saved", "update_tag") /\ SaveInstance(r)
update_tag_alias(r) == At(r, "saved", "update_tag_alias") /\ SaveInstance(r)

(* The instance's is_active decides; save(update_fields=["is_active", ...]).*)
DeactivateRow(r) ==
  LET x == call[r].row
  IN IF ~copy[r].active
     THEN Refuse(r) /\ UNCHANGED <<write_enabled, callVars>>
     ELSE /\ Free(r, x)
          /\ Commit(r, x, WithActive(rows[x], FALSE), {"active"})
          /\ deactivations' = [deactivations EXCEPT ![x] = @ + 1]
          /\ UNCHANGED patched

deactivate_vocabulary(r) == At(r, "called", "deactivate_vocabulary") /\ DeactivateRow(r)
deactivate_tag_alias(r) == At(r, "called", "deactivate_tag_alias") /\ DeactivateRow(r)

-----------------------------------------------------------------------------
(* deactivate_tag, with the tag locked: lock its active aliases one by one,*)
CascadeOf(t) == {a \in Aliases : rows[a].link = t /\ rows[a].active}

LockNextAlias(r) ==
  /\ At(r, "locked", "deactivate_tag")
  /\ \E a \in CascadeOf(call[r].row) \ holding[r] :
       Free(r, a) /\ holding' = [holding EXCEPT ![r] = @ \union {a}]
  /\ UNCHANGED <<tableVars, write_enabled, pc, localVars, callVars>>

deactivate_tag_ungated(r) == \* mutant: the cascade ignores the kill-switch
  LET t == call[r].row
      off == {t} \union CascadeOf(t)
  IN /\ At(r, "locked", "deactivate_tag")
     /\ CascadeOf(t) \subseteq holding[r]
     /\ rows' = [x \in Rows |-> IF x \in off THEN WithActive(rows[x], FALSE) ELSE rows[x]]
     /\ mirror' = [x \in Rows |-> IF x \in off THEN WithActive(mirror[x], FALSE) ELSE mirror[x]]
     /\ Finish(r)
     /\ UNCHANGED <<deactivations, patched, write_enabled, callVars>>
deactivate_tag_quietly(r) == \* mutant: no event for the cascaded aliases
  LET t == call[r].row
      off == {t} \union CascadeOf(t)
  IN /\ At(r, "locked", "deactivate_tag")
     /\ CascadeOf(t) \subseteq holding[r]
     /\ \A a \in CascadeOf(t) : Writable(a)
     /\ rows' = [x \in Rows |-> IF x \in off THEN WithActive(rows[x], FALSE) ELSE rows[x]]
     /\ mirror' = [mirror EXCEPT ![t] = WithActive(@, FALSE)]
     /\ Finish(r)
     /\ UNCHANGED <<deactivations, patched, write_enabled, callVars>>

(* refuse the whole deactivation if the kill-switch protects one of them,  *)
(* then deactivate tag and aliases, with one event each.                   *)
deactivate_tag(r) ==
  LET t == call[r].row
      off == {t} \union CascadeOf(t)
  IN /\ At(r, "locked", "deactivate_tag")
     /\ CascadeOf(t) \subseteq holding[r]
     /\ IF \E a \in CascadeOf(t) : ~Writable(a)
        THEN Refuse(r)
        ELSE /\ rows' = [x \in Rows |-> IF x \in off THEN WithActive(rows[x], FALSE) ELSE rows[x]]
             /\ mirror' =
                  [x \in Rows |-> IF x \in off THEN WithActive(mirror[x], FALSE) ELSE mirror[x]]
             /\ deactivations' =
                  [x \in Rows |-> IF x \in off THEN deactivations[x] + 1 ELSE deactivations[x]]
             /\ Finish(r)
             /\ UNCHANGED patched
     /\ UNCHANGED <<write_enabled, callVars>>

LockVocabularyNot(r) ==    \* mutant: reads the vocabulary without FOR UPDATE
  /\ At(r, "locked", "reactivate_tag")
  /\ IF VocabularyValid(call[r].row, rows[call[r].row].link, TRUE)
     THEN Goto(r, "ready") /\ UNCHANGED holding
     ELSE Refuse(r)
  /\ UNCHANGED <<write_enabled, callVars>>

(* reactivate_tag, with the tag locked: lock its vocabulary, re-validate,  *)
LockVocabulary(r) ==
  LET t == call[r].row
      v == rows[t].link
  IN /\ At(r, "locked", "reactivate_tag")
     /\ v # NoRow => Free(r, v)
     /\ IF VocabularyValid(t, v, TRUE)
        THEN Goto(r, "ready") /\ holding' = [holding EXCEPT ![r] = @ \union ({v} \ {NoRow})]
        ELSE Refuse(r)
     /\ UNCHANGED <<write_enabled, callVars>>

LockAliasKeepingLocks(r) == \* mutant: the next attempt starts inside the transaction of this one
  LET a == call[r].row
      repointed == rows[a].link # chosen[r]
  IN /\ At(r, "locked", "reactivate_tag_alias")
     /\ Free(r, a)
     /\ \/ /\ repointed /\ attempt[r] + 1 < MaxAttempts
           /\ pc' = [pc EXCEPT ![r] = "called"]
           /\ attempt' = [attempt EXCEPT ![r] = @ + 1]
           /\ chosen' = [chosen EXCEPT ![r] = NoRow]
           /\ holding' = [holding EXCEPT ![r] = @ \union {a}]
           /\ UNCHANGED <<tableVars, call, copy>>
        \/ /\ ~repointed /\ ~rows[a].active /\ AliasTagValid(a, chosen[r])
           /\ Goto(r, "ready")
           /\ holding' = [holding EXCEPT ![r] = @ \union {a}]
        \/ /\ IF repointed THEN attempt[r] + 1 = MaxAttempts
              ELSE rows[a].active \/ ~AliasTagValid(a, chosen[r])
           /\ Refuse(r)
     /\ UNCHANGED <<write_enabled, callVars>>

LockAliasStubborn(r) ==     \* mutant: tries again with the tag_id it read first, without a bound
  LET a == call[r].row
      repointed == rows[a].link # chosen[r]
  IN /\ At(r, "locked", "reactivate_tag_alias")
     /\ Free(r, a)
     /\ \/ /\ repointed
           /\ Goto(r, "chosen")
           /\ holding' = [holding EXCEPT ![r] = {}]
        \/ /\ ~repointed /\ ~rows[a].active /\ AliasTagValid(a, chosen[r])
           /\ Goto(r, "ready")
           /\ holding' = [holding EXCEPT ![r] = @ \union {a}]
        \/ /\ ~repointed /\ (rows[a].active \/ ~AliasTagValid(a, chosen[r]))
           /\ Refuse(r)
     /\ UNCHANGED <<write_enabled, callVars>>

(* reactivate_tag_alias, with the chosen tag locked: lock the alias; if it *)
(* was re-pointed meanwhile roll back and try again, three times in all.   *)
LockAlias(r) ==
  LET a == call[r].row
      repointed == rows[a].link # chosen[r]
  IN /\ At(r, "locked", "reactivate_tag_alias")
     /\ Free(r, a)
     /\ \/ /\ repointed /\ attempt[r] + 1 < MaxAttempts
           /\ pc' = [pc EXCEPT ![r] = "called"]
           /\ attempt' = [attempt EXCEPT ![r] = @ + 1]
           /\ chosen' = [chosen EXCEPT ![r] = NoRow]
           /\ holding' = [holding EXCEPT ![r] = {}]
           /\ UNCHANGED <<tableVars, call, copy>>
        \/ /\ ~repointed /\ ~rows[a].active /\ AliasTagValid(a, chosen[r])
           /\ Goto(r, "ready")
           /\ holding' = [holding EXCEPT ![r] = @ \union {a}]
        \/ /\ IF repointed THEN attempt[r] + 1 = MaxAttempts
              ELSE rows[a].active \/ ~AliasTagValid(a, chosen[r])
           /\ Refuse(r)
     /\ UNCHANGED <<write_enabled, callVars>>

(* reactivate_vocabulary has nothing to validate.                          *)
LockOwnVocabulary(r) ==
  LET v == call[r].row
  IN /\ At(r, "called", "reactivate_vocabulary")
     /\ Free(r, v)
     /\ IF rows[v].active
        THEN Refuse(r)
        ELSE Goto(r, "ready") /\ holding' = [holding EXCEPT ![r] = @ \union {v}]
     /\ UNCHANGED <<write_enabled, callVars>>

(* The flip of a reactivation, with its rows locked and validated.         *)
Reactivate(r) ==
  LET x == call[r].row
  IN /\ \A q \in Requests : ~SlugWait(r, q)
     /\ IF Duplicate(x, NewRow(r))
        THEN Refuse(r) /\ UNCHANGED <<write_enabled, callVars>>
        ELSE /\ Commit(r, x, NewRow(r), {"active"})
             /\ UNCHANGED <<deactivations, patched>>

reactivate_vocabulary(r) == At(r, "ready", "reactivate_vocabulary") /\ Reactivate(r)
reactivate_tag(r) == At(r, "ready", "reactivate_tag") /\ Reactivate(r)
reactivate_tag_alias(r) == At(r, "ready", "reactivate_tag_alias") /\ Reactivate(r)

(* The worker is killed or loses its connection: PostgreSQL rolls back.    *)
Die(r) ==
  /\ pc[r] # "idle"
  /\ Refuse(r)
  /\ UNCHANGED <<write_enabled, callVars>>

-----------------------------------------------------------------------------
(* The rows that the next statement of a request locks.                    *)
Wanted(r) ==
  LET x == call[r].row
      s == call[r].service
  IN CASE pc[r] = "called" ->
            IF s = "create_tag_alias" THEN {Edited(r).link}
            ELSE IF \/ s \in {"deactivate_tag", "reactivate_tag", "reactivate_vocabulary"}
                    \/ s \in {"deactivate_vocabulary", "deactivate_tag_alias"} /\ copy[r].active
            THEN {x} ELSE {}
       [] pc[r] = "checked" -> IF s = "update_tag_alias" THEN {Edited(r).link} ELSE {x}
       [] pc[r] = "chosen" -> {chosen[r]}
       [] pc[r] = "locked" ->
            IF s = "deactivate_tag" THEN CascadeOf(x) \ holding[r]
            ELSE IF s = "reactivate_tag" THEN {rows[x].link} \ {NoRow} ELSE {x}
       [] OTHER -> {}

(* Requests that wait for one another in a circle and for nobody else, and *)
(* PostgreSQL's deadlock detector, which aborts one of them.               *)
RowWait(r, q) == q # r /\ Wanted(r) \intersect Locks(q) # {}
WaitsFor(r, q) == RowWait(r, q) \/ SlugWait(r, q) \/ KeyWait(r, q)
Stuck(S) == S # {} /\ \A r \in S : \E q \in S : WaitsFor(r, q)
Circle(S) == Stuck(S) /\ \A T \in SUBSET S : Stuck(T) => T = S

DetectDeadlock(r) ==
  /\ \E S \in SUBSET Requests : r \in S /\ Circle(S)
  /\ Refuse(r)
  /\ UNCHANGED <<write_enabled, callVars>>

-----------------------------------------------------------------------------
Proceed(r) ==
  \/ CheckRelations(r) \/ ChooseTag(r)
  \/ LockCanonicalTag(r) \/ LockOwnTag(r) \/ LockChosenTag(r)
  \/ LockNextAlias(r) \/ LockVocabulary(r) \/ LockAlias(r) \/ LockOwnVocabulary(r)
  \/ BeginWrite(r) \/ EnterSlug(r)
  \/ create_vocabulary(r) \/ create_tag(r) \/ create_tag_alias(r)
  \/ update_vocabulary(r) \/ update_tag(r) \/ update_tag_alias(r)
  \/ deactivate_vocabulary(r) \/ deactivate_tag_alias(r) \/ deactivate_tag(r)
  \/ reactivate_vocabulary(r) \/ reactivate_tag(r) \/ reactivate_tag_alias(r)
  \/ DetectDeadlock(r)

Next == \E r \in Requests : CallService(r) \/ Proceed(r) \/ Die(r)

Spec == Init /\ [][Next]_vars

(* A request that can go on goes on: gunicorn runs it, PostgreSQL grants a *)
(* lock that is free and breaks a circle.  Nobody has to call or to die.   *)
FairSpec == Spec /\ \A r \in Requests : WF_vars(Proceed(r))

-----------------------------------------------------------------------------
(* Every variable stays in its domain; a link always names a row of the    *)
(* right table, the attempts of reactivate_tag_alias never exceed three,   *)
(* and whoever has no transaction open holds no lock.                      *)
TypeOK ==
  /\ rows \in [Rows -> Content \union {Missing}]
  /\ mirror \in [Rows -> Content \union {Missing}]
  /\ deactivations \in [Rows -> Nat]
  /\ patched \subseteq Tags
  /\ write_enabled \in BOOLEAN
  /\ pc \in [Requests -> Points]
  /\ \A r \in Requests : /\ call[r].row \in Rows \union {NoRow}
                         /\ call[r].sent \subseteq Fields
                         /\ call[r].data \in Content \union {Missing}
  /\ copy \in [Requests -> Content \union {Missing}]
  /\ holding \in [Requests -> SUBSET Rows]
  /\ chosen \in [Requests -> Rows \union {NoRow}]
  /\ attempt \in [Requests -> 0..MaxAttempts - 1]
  /\ calls \in 0..MaxCalls
  /\ overlapped \in BOOLEAN
  /\ \A x \in Rows : Exists(x) => rows[x].link \in Targets(x)
  /\ \A r \in Requests : holding[r] # {} => pc[r] \in {"locked", "ready", "saving", "saved"}

(* A row never refers to a row outside its scope, whatever stale instance  *)
(* is saved over whatever it was re-pointed to meanwhile (NS-1).           *)
ScopesContained == \A x \in Rows : rows[x].link # NoRow => Fits(x, rows[x].link)

(* An active alias has an active canonical tag, in every interleaving of   *)
(* creation, re-pointing, reactivation and the cascade.  update_tag is the *)
(* exception: it writes is_active without looking at the aliases, be it    *)
(* sent or only stale in the saved instance.                               *)
AliasFollowsTag ==
  \A a \in Aliases : rows[a].active => rows[rows[a].link].active \/ rows[a].link \in patched

(* What a reactivation has checked is still so when it flips the row: the  *)
(* row is inactive, and what it refers to is active and in scope (the      *)
(* check-then-write race reactivate_tag's docstring says it closes).       *)
CheckedUnderLock ==
  \A r \in Requests : pc[r] = "ready" =>
    LET x == call[r].row
        link == rows[x].link
    IN ~rows[x].active /\ (link # NoRow => rows[link].active /\ Fits(x, link))

(* A tag.deactivated event is emitted only when the tag goes from active to*)
(* inactive, however many deletes of it overlap.                           *)
TagDeletesAreReal ==
  [][\A t \in Tags : deactivations'[t] # deactivations[t] =>
       rows[t].active /\ ~rows'[t].active]_vars

(* While the write kill-switch is off no namespaced row changes, not even  *)
(* through the cascade of a global tag.                                    *)
KillSwitchProtects ==
  [][~write_enabled => \A x \in Rows : Ns[x] # Global => rows'[x] = rows[x]]_vars

(* A consumer that applies the events has the table (docs/events.md,       *)
(* "Event types"): every change is told, and nothing else is.  It takes    *)
(* calls that do not overlap: see EventsNameEveryChange.                   *)
EventsTellTheTable == overlapped \/ mirror = rows

(* Requests wait for one another in a circle only if one of them waits for *)
(* an active slug that another has written and not committed: two calls    *)
(* that exchange slugs, or a new tag whose commit waits for the vocabulary *)
(* that a reactivation of the same slug has locked.  Row locks alone, taken*)
(* tag before alias and tag before vocabulary, never close a circle.       *)
DeadlocksNeedSlugs ==
  \A S \in SUBSET Requests : Circle(S) => \E r, q \in S : SlugWait(r, q)

(* Every call comes to an end: a circle is broken by the detector, nobody  *)
(* waits otherwise for who does not go on, and the retries are bounded.    *)
CallsFinish == \A r \in Requests : pc[r] # "idle" ~> pc[r] = "idle"

(* Claims of the documentation that the code does not keep.                *)
(* docs/api.md: "Aliases can only point at active canonical tags, and      *)
(* deactivating a tag also deactivates its aliases."                       *)
AliasTagsAreActive == \A a \in Aliases : rows[a].active => rows[rows[a].link].active

(* docs/events.md: "repeated deletes ... emit nothing".                    *)
RepeatedDeletesAreSilent ==
  [][\A x \in Rows : deactivations'[x] # deactivations[x] =>
       rows[x].active /\ ~rows'[x].active]_vars

(* docs/events.md: "before/after on *.updated events contain only the      *)
(* fields that actually changed" - and the other columns did not.          *)
EventsNameEveryChange == mirror = rows
=============================================================================
