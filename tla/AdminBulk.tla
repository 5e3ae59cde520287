------------------------------ MODULE AdminBulk ------------------------------
(***************************************************************************)
(* Bulk actions of the operator admin (core/admin_base.py, _run_bulk, and  *)
(* assignments/admin.py, remove_selected) beside single calls of the same  *)
(* services.  A bulk action loads the selected rows without locks, then    *)
(* runs one service per row in one transaction: the services' own          *)
(* transactions become savepoints, their locks are kept to the end, what   *)
(* they write is visible to others only at the commit, and one rejection   *)
(* rolls everything back.  A single call, from REST or from a form, is a   *)
(* selection of one row.                                                   *)
(*                                                                         *)
(* PostgreSQL at READ COMMITTED: a statement sees what is committed and    *)
(* what its own transaction wrote, and waits for the locks it needs.  The  *)
(* services on one row by itself are the subject of TaxonomyWrites; slugs, *)
(* whose conflicts are one more rejection, are left out here.              *)
(***************************************************************************)
EXTENDS Naturals, Sequences, FiniteSets

CONSTANTS
  Vocabularies, Tags, Aliases, Assignments,  \* the rows
  Namespaced,   \* the rows of a namespace, under the write kill-switch
  NoRow,
  Requests,     \* transactions at a time
  Services,     \* the services that are called
  Seeds,        \* the tables they may find
  MaxSelected,  \* bound: rows in a selection
  MaxSessions   \* bound: transactions in a behaviour

Rows == Vocabularies \union Tags \union Aliases \union Assignments

(* is_active (of an assignment: it exists) and the foreign key.            *)
Content == [active : BOOLEAN, link : Rows \union {NoRow}]

Deactivations == {"deactivate_vocabulary", "deactivate_tag", "deactivate_tag_alias",
                  "remove_tag_assignment"}
Reactivations == {"reactivate_vocabulary", "reactivate_tag", "reactivate_tag_alias"}
Kind(service) ==
  CASE service \in {"deactivate_vocabulary", "reactivate_vocabulary"} -> Vocabularies
    [] service \in {"deactivate_tag", "reactivate_tag"} -> Tags
    [] service = "remove_tag_assignment" -> Assignments
    [] OTHER -> Aliases

ASSUME AdminAssumption ==
  /\ NoRow \notin Rows /\ NoRow \notin Content /\ Namespaced \subseteq Rows
  /\ Vocabularies \intersect Tags = {} /\ Vocabularies \intersect Aliases = {}
  /\ Vocabularies \intersect Assignments = {} /\ Tags \intersect Aliases = {}
  /\ Tags \intersect Assignments = {} /\ Aliases \intersect Assignments = {}
  /\ Services \subseteq Deactivations \union Reactivations \union {"update_tag_alias"}
  /\ MaxSelected \in Nat /\ MaxSessions \in Nat
  /\ \A table \in Seeds :
       /\ table \in [Rows -> Content]
       /\ \A t \in Tags : table[t].link \in Vocabularies \union {NoRow}
       /\ \A a \in Aliases : table[a].link \in Tags
       /\ \A a \in Aliases : table[a].active => table[table[a].link].active
-----------------------------------------------------------------------------
VARIABLES
  rows,           \* the committed tables
  write_enabled,  \* NAMESPACE_WRITE_ENABLED
  (* Each transaction: where it is, its service and selection, the rows    *)
  (* that were active when it loaded them, how many are done, the locks it *)
  (* holds, those it held when the current service began, what it wrote,   *)
  (* and for aliases the tag to lock and the attempts made.                *)
  pc, session, loaded, done, holding, earlier, written, chosen, attempt,
  sessions

localVars == <<pc, session, loaded, done, holding, earlier, written, chosen, attempt>>
vars == <<rows, write_enabled, localVars, sessions>>

Points == {"idle", "next", "cascade", "chosen", "tag locked"}
NoSession == [service |-> "deactivate_tag", selection |-> <<>>, link |-> NoRow]
Nothing == [x \in Rows |-> NoRow]

View(r, x) == IF written[r][x] = NoRow THEN rows[x] ELSE written[r][x]
Current(r) == session[r].selection[done[r] + 1]
At(r, point, service) == pc[r] = point /\ session[r].service = service
Writable(x) == write_enabled \/ x \notin Namespaced
Free(r, x) == \A q \in Requests \ {r} : x \notin holding[q]
Writing(r, x, content) == [written[r] EXCEPT ![x] = content]
Switched(r, x, b) == Writing(r, x, [View(r, x) EXCEPT !.active = b])

Init ==
  /\ rows \in Seeds
  /\ write_enabled \in BOOLEAN
  /\ pc = [r \in Requests |-> "idle"]
  /\ session = [r \in Requests |-> NoSession]
  /\ loaded = [r \in Requests |-> {}]
  /\ done = [r \in Requests |-> 0]
  /\ holding = [r \in Requests |-> {}]
  /\ earlier = [r \in Requests |-> {}]
  /\ written = [r \in Requests |-> Nothing]
  /\ chosen = [r \in Requests |-> NoRow]
  /\ attempt = [r \in Requests |-> 0]
  /\ sessions = 0

-----------------------------------------------------------------------------
(* The transaction is over, and its locks are gone.                        *)
EndKeepingLocks(r) == \* mutant: the locks survive the transaction
  /\ pc' = [pc EXCEPT ![r] = "idle"]
  /\ session' = [session EXCEPT ![r] = NoSession]
  /\ loaded' = [loaded EXCEPT ![r] = {}]
  /\ done' = [done EXCEPT ![r] = 0]
  /\ earlier' = [earlier EXCEPT ![r] = {}]
  /\ written' = [written EXCEPT ![r] = Nothing]
  /\ chosen' = [chosen EXCEPT ![r] = NoRow]
  /\ attempt' = [attempt EXCEPT ![r] = 0]
  /\ UNCHANGED holding

End(r) ==
  /\ pc' = [pc EXCEPT ![r] = "idle"]
  /\ session' = [session EXCEPT ![r] = NoSession]
  /\ loaded' = [loaded EXCEPT ![r] = {}]
  /\ done' = [done EXCEPT ![r] = 0]
  /\ holding' = [holding EXCEPT ![r] = {}]
  /\ earlier' = [earlier EXCEPT ![r] = {}]
  /\ written' = [written EXCEPT ![r] = Nothing]
  /\ chosen' = [chosen EXCEPT ![r] = NoRow]
  /\ attempt' = [attempt EXCEPT ![r] = 0]

(* SERVICE_ERRORS, or any other error: the whole selection is rolled back. *)
RollBack(r) == End(r) /\ UNCHANGED <<rows, write_enabled, sessions>>

(* The transaction goes on at another point.                               *)
Goto(r, point, locks, writes) ==
  /\ pc' = [pc EXCEPT ![r] = point]
  /\ holding' = [holding EXCEPT ![r] = locks]
  /\ written' = [written EXCEPT ![r] = writes]
  /\ UNCHANGED <<rows, write_enabled, sessions, session, loaded, done, earlier, chosen, attempt>>

(* The service returns: the next row, or the commit.                       *)
CompleteRowByRow(r, locks, writes) == \* mutant: no transaction around the loop
  /\ rows' = [x \in Rows |-> IF writes[x] = NoRow THEN rows[x] ELSE writes[x]]
  /\ IF done[r] + 1 = Len(session[r].selection)
     THEN End(r)
     ELSE /\ pc' = [pc EXCEPT ![r] = "next"]
          /\ done' = [done EXCEPT ![r] = @ + 1]
          /\ holding' = [holding EXCEPT ![r] = {}]
          /\ attempt' = [attempt EXCEPT ![r] = 0]
          /\ UNCHANGED <<session, loaded, earlier, written, chosen>>
  /\ UNCHANGED <<write_enabled, sessions>>

Complete(r, locks, writes) ==
  /\ IF done[r] + 1 = Len(session[r].selection)
     THEN /\ rows' = [x \in Rows |-> IF writes[x] = NoRow THEN rows[x] ELSE writes[x]]
          /\ End(r)
     ELSE /\ pc' = [pc EXCEPT ![r] = "next"]
          /\ done' = [done EXCEPT ![r] = @ + 1]
          /\ holding' = [holding EXCEPT ![r] = locks]
          /\ earlier' = [earlier EXCEPT ![r] = locks]
          /\ written' = [written EXCEPT ![r] = writes]
          /\ attempt' = [attempt EXCEPT ![r] = 0]
          /\ UNCHANGED <<rows, session, loaded, chosen>>
  /\ UNCHANGED <<write_enabled, sessions>>

(* rows = list(queryset), in the order of the changelist, whichever column *)
(* the operator sorted it by; or the one row of a REST call or of a form.  *)
Selections(service) ==
  {s \in UNION {[1..n -> Kind(service)] : n \in 1..MaxSelected} :
     /\ \A i, j \in DOMAIN s : s[i] = s[j] => i = j
     /\ service = "update_tag_alias" => Len(s) = 1
     /\ service = "remove_tag_assignment" => \A i \in DOMAIN s : rows[s[i]].active}

RunBulk(r) ==
  /\ pc[r] = "idle"
  /\ sessions < MaxSessions
  /\ \E service \in Services : \E s \in Selections(service), t \in Tags \union {NoRow} :
       /\ (service = "update_tag_alias") = (t # NoRow)
       /\ session' = [session EXCEPT ![r] = [service |-> service, selection |-> s, link |-> t]]
       /\ loaded' = [loaded EXCEPT ![r] = {s[i] : i \in {i \in DOMAIN s : rows[s[i]].active}}]
  /\ pc' = [pc EXCEPT ![r] = "next"]
  /\ sessions' = sessions + 1
  /\ UNCHANGED <<rows, write_enabled, done, holding, earlier, written, chosen, attempt>>

(* guard_namespace_write_enabled, the first thing every service does.      *)
Refused(r) ==
  /\ pc[r] = "next"
  /\ ~Writable(Current(r))
  /\ RollBack(r)

Serves(r, services) ==
  pc[r] = "next" /\ session[r].service \in services /\ Writable(Current(r))

-----------------------------------------------------------------------------
(* deactivate_vocabulary and deactivate_tag_alias decide on the loaded     *)
(* instance; reactivate_vocabulary and remove_tag_assignment on the locked *)
(* row.                                                                    *)
DeactivateLoaded(r) ==
  /\ Serves(r, {"deactivate_vocabulary", "deactivate_tag_alias"})
  /\ IF Current(r) \in loaded[r]
     THEN /\ Free(r, Current(r))
          /\ Complete(r, holding[r] \union {Current(r)}, Switched(r, Current(r), FALSE))
     ELSE Complete(r, holding[r], written[r])

reactivate_vocabulary(r) ==
  /\ Serves(r, {"reactivate_vocabulary"})
  /\ Free(r, Current(r))
  /\ Complete(r, holding[r] \union {Current(r)}, Switched(r, Current(r), TRUE))

remove_tag_assignment(r) ==
  /\ Serves(r, {"remove_tag_assignment"})
  /\ Free(r, Current(r))
  /\ IF rows[Current(r)].active
     THEN Complete(r, holding[r] \union {Current(r)}, Switched(r, Current(r), FALSE))
     ELSE Complete(r, holding[r], written[r])

-----------------------------------------------------------------------------
(* deactivate_tag: lock the tag, write it, lock its active aliases, write  *)
(* them unless the kill-switch forbids one.                                *)
Cascade(r) ==
  {a \in Aliases : View(r, a).link = Current(r) /\ View(r, a).active}

LockOwnTag(r) ==
  /\ Serves(r, {"deactivate_tag", "reactivate_tag"})
  /\ Free(r, Current(r))
  /\ LET t == Current(r)
         locks == holding[r] \union {t}
     IN IF View(r, t).active = (session[r].service = "reactivate_tag")
        THEN Complete(r, locks, written[r])
        ELSE IF session[r].service = "deactivate_tag"
        THEN Goto(r, "cascade", locks, Switched(r, t, FALSE))
        ELSE IF View(r, t).link = NoRow
        THEN Complete(r, locks, Switched(r, t, TRUE))
        ELSE Goto(r, "tag locked", locks, written[r])

LockAliases(r) ==
  /\ pc[r] = "cascade"
  /\ \E a \in Cascade(r) \ holding[r] :
       Free(r, a) /\ Goto(r, "cascade", holding[r] \union {a}, written[r])

deactivate_tag(r) ==
  /\ pc[r] = "cascade"
  /\ Cascade(r) \subseteq holding[r]
  /\ IF \A a \in Cascade(r) : Writable(a)
     THEN Complete(r, holding[r],
            [x \in Rows |-> IF x \in Cascade(r) THEN [View(r, x) EXCEPT !.active = FALSE]
                                                ELSE written[r][x]])
     ELSE RollBack(r)

(* reactivate_tag: lock the vocabulary, which must be active.              *)
reactivate_tag(r) ==
  /\ At(r, "tag locked", "reactivate_tag")
  /\ LET v == View(r, Current(r)).link
     IN /\ Free(r, v)
        /\ IF View(r, v).active
           THEN Complete(r, holding[r] \union {v}, Switched(r, Current(r), TRUE))
           ELSE RollBack(r)

-----------------------------------------------------------------------------
(* reactivate_tag_alias: read the tag_id, lock that tag, lock the alias.   *)
ChooseTag(r) ==
  /\ Serves(r, {"reactivate_tag_alias", "update_tag_alias"})
  /\ chosen' = [chosen EXCEPT ![r] = IF session[r].service = "update_tag_alias"
                                     THEN session[r].link ELSE View(r, Current(r)).link]
  /\ pc' = [pc EXCEPT ![r] = "chosen"]
  /\ UNCHANGED <<rows, write_enabled, sessions, session, loaded, done, holding, earlier,
                 written, attempt>>

LockChosenTag(r) ==
  /\ pc[r] = "chosen"
  /\ Free(r, chosen[r])
  /\ IF session[r].service = "update_tag_alias" /\ ~View(r, chosen[r]).active
     THEN RollBack(r)
     ELSE Goto(r, "tag locked", holding[r] \union {chosen[r]}, written[r])

(* _AliasRepointed rolls the savepoint back, which releases its locks;     *)
(* after three attempts, ConflictError.                                    *)
RepointedContinuing(r) == \* mutant: continue instead of raise, the locks are kept
  IF attempt[r] = 2 THEN RollBack(r) ELSE
  /\ pc' = [pc EXCEPT ![r] = "next"]
  /\ holding' = [holding EXCEPT ![r] = @ \union {Current(r)}]
  /\ attempt' = [attempt EXCEPT ![r] = @ + 1]
  /\ UNCHANGED <<rows, write_enabled, sessions, session, loaded, done, earlier, written, chosen>>

Repointed(r) ==
  IF attempt[r] = 2 THEN RollBack(r) ELSE
  /\ pc' = [pc EXCEPT ![r] = "next"]
  /\ holding' = [holding EXCEPT ![r] = earlier[r]]
  /\ attempt' = [attempt EXCEPT ![r] = @ + 1]
  /\ UNCHANGED <<rows, write_enabled, sessions, session, loaded, done, earlier, written, chosen>>

reactivate_unvalidated(r) == \* mutant: no validate_alias_tag under the lock
  /\ At(r, "tag locked", "reactivate_tag_alias")
  /\ Free(r, Current(r))
  /\ IF View(r, Current(r)).link # chosen[r] THEN Repointed(r)
     ELSE Complete(r, holding[r] \union {Current(r)}, Switched(r, Current(r), TRUE))

reactivate_tag_alias(r) ==
  /\ At(r, "tag locked", "reactivate_tag_alias")
  /\ Free(r, Current(r))
  /\ LET a == Current(r)
         locks == holding[r] \union {a}
     IN IF View(r, a).link # chosen[r] THEN Repointed(r)
        ELSE IF View(r, a).active THEN Complete(r, locks, written[r])
        ELSE IF View(r, chosen[r]).active THEN Complete(r, locks, Switched(r, a, TRUE))
        ELSE RollBack(r)

(* update_tag_alias re-points an alias: it saves every column of the       *)
(* loaded instance.                                                        *)
update_tag_alias(r) ==
  /\ At(r, "tag locked", "update_tag_alias")
  /\ Free(r, Current(r))
  /\ Complete(r, holding[r] \union {Current(r)},
       Writing(r, Current(r), [active |-> Current(r) \in loaded[r], link |-> chosen[r]]))

-----------------------------------------------------------------------------
(* Waiting.  What the next statement of a transaction has to lock.         *)
Wanted(r) ==
  CASE pc[r] = "next" ->
         IF session[r].service \in {"deactivate_vocabulary", "deactivate_tag_alias"}
         THEN {Current(r)} \intersect loaded[r]
         ELSE IF session[r].service \in {"reactivate_tag_alias", "update_tag_alias"}
         THEN {} ELSE {Current(r)}
    [] pc[r] = "cascade" -> Cascade(r) \ holding[r]
    [] pc[r] = "chosen" -> {chosen[r]}
    [] pc[r] = "tag locked" ->
         {IF session[r].service = "reactivate_tag" THEN View(r, Current(r)).link ELSE Current(r)}
    [] OTHER -> {}

Blocked(r) == Wanted(r) # {} /\ \A x \in Wanted(r) : ~Free(r, x)
BlockedBy(r, q) == Blocked(r) /\ r # q /\ Wanted(r) \intersect holding[q] # {}

(* Transactions that wait for one another in a circle, and for nobody else.*)
Waiting(S) == S # {} /\ \A r \in S : \E q \in S : BlockedBy(r, q)
Circle(S) == Waiting(S) /\ \A T \in SUBSET S : Waiting(T) => T = S

(* deadlock_timeout: PostgreSQL aborts one of them, an error that no       *)
(* handler expects.                                                        *)
DetectDeadlock(r) ==
  /\ \E S \in SUBSET Requests : r \in S /\ Circle(S)
  /\ RollBack(r)

Serve(r) ==
  \/ RunBulk(r) \/ Refused(r)
  \/ DeactivateLoaded(r) \/ reactivate_vocabulary(r) \/ remove_tag_assignment(r)
  \/ LockOwnTag(r) \/ LockAliases(r) \/ deactivate_tag(r) \/ reactivate_tag(r)
  \/ ChooseTag(r) \/ LockChosenTag(r) \/ reactivate_tag_alias(r) \/ update_tag_alias(r)
  \/ DetectDeadlock(r)

Next == \E r \in Requests : Serve(r)
Spec == Init /\ [][Next]_vars

-----------------------------------------------------------------------------
(* Properties.                                                             *)

(* Every variable keeps its type; nobody holds a row with another, nor any *)
(* row outside a transaction.                                              *)
TypeOK ==
  /\ rows \in [Rows -> Content] /\ write_enabled \in BOOLEAN
  /\ pc \in [Requests -> Points]
  /\ \A r \in Requests :
       /\ session[r].service \in Services \union {"deactivate_tag"}
       /\ pc[r] # "idle" => done[r] < Len(session[r].selection)
       /\ loaded[r] \subseteq Rows /\ earlier[r] \subseteq holding[r] /\ holding[r] \subseteq Rows
       /\ written[r] \in [Rows -> Content \union {NoRow}]
       /\ chosen[r] \in Tags \union {NoRow} /\ attempt[r] \in 0..2
       /\ \A x \in Rows : written[r][x] # NoRow => x \in holding[r]
       /\ pc[r] = "idle" => holding[r] = {} /\ written[r] = Nothing
       /\ \A q \in Requests \ {r} : holding[r] \intersect holding[q] = {}

(* A transaction leaves the tables as they were, or with its whole         *)
(* selection switched and nothing else but aliases of its deactivated tags:*)
(* "never a partially processed batch", whatever is rejected, deadlocks or *)
(* commits in between.  Of rows that a service judges by the loaded        *)
(* instance, those loaded inactive are not looked at again.                *)
Selected(r) == {session[r].selection[i] : i \in DOMAIN session[r].selection}
Switches(r) ==
  LET service == session[r].service
      sight == IF service \in {"deactivate_vocabulary", "deactivate_tag_alias"}
               THEN loaded[r] ELSE Selected(r)
  IN /\ \A x \in Selected(r) \intersect sight :
          service # "update_tag_alias" => rows'[x].active = (service \in Reactivations)
     /\ \A x \in Rows : rows'[x] # rows[x] =>
          \/ x \in Selected(r)
          \/ service = "deactivate_tag" /\ rows[x].link \in Selected(r) /\ ~rows'[x].active
AllOrNothing ==
  [][\A r \in Requests : pc[r] # "idle" /\ rows' # rows =>
       \/ pc'[r] = pc[r] /\ done'[r] = done[r]
       \/ pc'[r] = "idle" /\ Switches(r)]_vars

(* An active alias has an active canonical tag, also where bulk actions on *)
(* tags and on aliases, in any order of their rows, keep their locks and   *)
(* their writes to themselves until they commit.                           *)
AliasFollowsTag ==
  \A a \in Aliases : rows[a].active => rows[rows[a].link].active

(* Transactions wait for one another in a circle only for a lock that one  *)
(* of them kept from an earlier row of its selection: the row locks of     *)
(* single calls close no circle (for waits of slugs see TaxonomyWrites),   *)
(* and every bulk action can be repeated row by row.                       *)
DeadlocksNeedBulk ==
  \A S \in SUBSET Requests : Circle(S) =>
    \E r, q \in S : BlockedBy(r, q) /\ Wanted(r) \intersect earlier[q] # {}

(* "The lock order is ALWAYS tag -> alias (matching deactivate_tag's       *)
(* cascade), so a concurrent reactivate/deactivate pair cannot deadlock":  *)
(* the docstring of reactivate_tag_alias, whose only caller is the bulk    *)
(* action.                                                                 *)
ReactivationsCannotDeadlock ==
  \A S \in SUBSET Requests : Circle(S) =>
    {"reactivate_tag_alias", "deactivate_tag"} \ {session[r].service : r \in S} # {}

=============================================================================
