----------------------------- MODULE Assignments -----------------------------
(***************************************************************************)
(* Concurrent writers of the tags of one external resource:                *)
(* octonomy/assignments/services.py over tag_assignments at READ COMMITTED.*)
(* A row exists per (scope, tag).  Every unlocked read, every row lock and *)
(* every insert is a step; what a transaction wrote is visible to others   *)
(* when it commits, and an insert waits for an uncommitted insert or delete*)
(* of the same key, as the unique constraint makes it do.                  *)
(***************************************************************************)
EXTENDS Integers, FiniteSets, SequencesExt

CONSTANTS
  Tags,
  Scopes,      \* the namespaces in which the resource is tagged
  Global,      \* the one that is no namespace
  Compatible,  \* the <<scope, tag>> that application and namespace allow
  Initially,   \* what the calls may find: the rows, the active tags, the kill-switch
  Requests, Nobody,
  Services,
  MaxBulk,     \* MAX_BULK_TAGS
  MaxCalls,    \* bound: service calls in a behaviour
  MaxToggles   \* bound: deactivations, reactivations and renamings of tags

Keys == Compatible
Removers == {"remove_tag_assignment", "bulk_remove_tags"}
Assigners == {"assign_tag", "bulk_assign_tags"}

ASSUME AssignmentsAssumption ==
  /\ IsFiniteSet(Tags) /\ IsFiniteSet(Scopes) /\ Global \in Scopes
  /\ Compatible \subseteq Scopes \X Tags
  /\ Initially \subseteq [rows : SUBSET Compatible, active : SUBSET Tags, enabled : BOOLEAN]
  /\ Nobody \notin Requests
  /\ Services \subseteq Removers \union Assigners \union {"replace_resource_tags"}
  /\ {MaxBulk, MaxCalls, MaxToggles} \subseteq Nat

VARIABLES
  present,     \* the committed rows
  newest,      \* all keys, most recently inserted first: the table's ordering
  tag_active,  \* the tags with is_active
  by_name,     \* all tags in Tag.Meta.ordering: by name
  lock,        \* per key: the transaction that locked, inserted or deleted it
  write_enabled,
  (* Each request: where it is, its arguments, the order in which it got its*)
  (* tags, the rows its current statement or loop has still to handle, and  *)
  (* its events so far.                                                     *)
  pc, service, scope, tags, order, todo, created, removed,
  calls, toggles,
  (* Observation only: created minus removed events per row, and the keys   *)
  (* that other transactions changed since the request began its own.       *)
  balance, disturbed

dbVars == <<present, newest, lock, balance, disturbed>>
argVars == <<service, scope, tags, order>>
requestVars == <<pc, argVars, todo, created, removed>>
envVars == <<tag_active, by_name, write_enabled, calls, toggles>>
vars == <<dbVars, requestVars, envVars>>

Unlocked == [owner |-> Nobody, kind |-> "none"]
HeldBy(r, kind) == {k \in Keys : lock[k] = [owner |-> r, kind |-> kind]}
Others(k, r) == lock[k].owner \notin {Nobody, r}

(* What a query of r returns: committed rows and its own changes.          *)
Visible(r) == (present \union HeldBy(r, "inserted")) \ HeldBy(r, "deleted")
InScopeOrGlobal(r) ==       \* mutant: the filter of reads, which adds the global rows
  {k \in Keys : k[1] \in {scope[r], Global}}
InScope(r) == {k \in Keys : k[1] = scope[r]}        \* for_exact_scope
Requested(r) == {k \in InScope(r) : k[2] \in tags[r]}

(* SELECT ... FOR UPDATE locks in the table's ordering; the assigning loop *)
(* takes the tags in the order in which get_assignable_tags read them.     *)
FirstIn(seq, wanted) ==
  seq[CHOOSE i \in DOMAIN seq : seq[i] \in wanted /\ \A j \in 1..i-1 : seq[j] \notin wanted]
NextToLock(r) == FirstIn(newest, todo[r])
TagsToAssign(r) == {t \in Tags : <<scope[r], t>> \in todo[r]}
NextToAssignAsSent(r) ==    \* mutant: the order of the caller's list, any order
  <<scope[r], FirstIn(IF r = CHOOSE q \in Requests : TRUE THEN order[r] ELSE Reverse(order[r]),
                      TagsToAssign(r))>>
NextToAssign(r) == <<scope[r], FirstIn(order[r], TagsToAssign(r))>>

(* A row that is inserted becomes the newest.                              *)
Place(k) == CHOOSE i \in DOMAIN newest : newest[i] = k
Newest(k) == [i \in DOMAIN newest |-> CASE i = 1 -> k
                                         [] i \in 2..Place(k) -> newest[i - 1]
                                         [] OTHER -> newest[i]]

-----------------------------------------------------------------------------
Init ==
  /\ \E first \in Initially :
       /\ present = first.rows
       /\ tag_active = first.active
       /\ write_enabled = first.enabled
  /\ newest = SetToSeq(Keys)
  /\ by_name = SetToSeq(Tags)
  /\ lock = [k \in Keys |-> Unlocked]
  /\ pc = [r \in Requests |-> "idle"]
  /\ service = [r \in Requests |-> "none"]
  /\ scope = [r \in Requests |-> Global]
  /\ tags = [r \in Requests |-> {}]
  /\ order = [r \in Requests |-> <<>>]
  /\ todo = [r \in Requests |-> {}]
  /\ created = [r \in Requests |-> {}]
  /\ removed = [r \in Requests |-> {}]
  /\ calls = 0 /\ toggles = 0
  /\ balance = [k \in Keys |-> IF k \in present THEN 1 ELSE 0]
  /\ disturbed = [r \in Requests |-> {}]

At(r, point, s) == pc[r] = point /\ service[r] = s
Goto(r, point) == pc' = [pc EXCEPT ![r] = point]

(* A call: the kill-switch and the bulk limit come first.                  *)
CallService(r) ==
  /\ pc[r] = "idle"
  /\ calls < MaxCalls /\ calls' = calls + 1
  /\ \E s \in Services, sc \in Scopes, ts \in SUBSET Tags :
       /\ sc # Global => write_enabled
       /\ Cardinality(ts) <= MaxBulk
       /\ s # "replace_resource_tags" => ts # {}
       /\ s \in {"assign_tag", "remove_tag_assignment"} => Cardinality(ts) = 1
       /\ service' = [service EXCEPT ![r] = s]
       /\ scope' = [scope EXCEPT ![r] = sc]
       /\ tags' = [tags EXCEPT ![r] = ts]
  /\ Goto(r, "called")
  /\ disturbed' = [disturbed EXCEPT ![r] = {}]
  /\ UNCHANGED <<present, newest, lock, balance, order, todo, created, removed>>
  /\ UNCHANGED <<tag_active, by_name, write_enabled, toggles>>

ReleaseNothing(r) ==        \* mutant: the transaction stays open
  /\ Goto(r, "idle")
  /\ service' = [service EXCEPT ![r] = "none"]
  /\ scope' = [scope EXCEPT ![r] = Global]
  /\ tags' = [tags EXCEPT ![r] = {}]
  /\ order' = [order EXCEPT ![r] = <<>>]
  /\ created' = [created EXCEPT ![r] = {}]
  /\ removed' = [removed EXCEPT ![r] = {}]
  /\ UNCHANGED <<lock, newest, envVars>>

(* The transaction is over: its locks are gone and so is the call.         *)
Release(r) ==
  /\ lock' = [k \in Keys |-> IF lock[k].owner = r THEN Unlocked ELSE lock[k]]
  /\ Goto(r, "idle")
  /\ service' = [service EXCEPT ![r] = "none"]
  /\ scope' = [scope EXCEPT ![r] = Global]
  /\ tags' = [tags EXCEPT ![r] = {}]
  /\ order' = [order EXCEPT ![r] = <<>>]
  /\ created' = [created EXCEPT ![r] = {}]
  /\ removed' = [removed EXCEPT ![r] = {}]
  /\ UNCHANGED <<newest, envVars>>

RollBack(r) ==
  /\ Release(r)
  /\ todo' = [todo EXCEPT ![r] = {}]
  /\ disturbed' = [disturbed EXCEPT ![r] = {}]
  /\ UNCHANGED <<present, balance>>

(* Rows inserted and deleted become so for everybody, together with the    *)
(* events; a statement of another transaction that waits for a deleted row *)
(* does not get it, not even if the key is inserted again.                 *)
Commit(r, events_created, events_removed) ==
  LET changed == HeldBy(r, "inserted") \union events_removed
  IN /\ present' = (present \union HeldBy(r, "inserted")) \ events_removed
     /\ balance' = [k \in Keys |-> balance[k] + (IF k \in events_created THEN 1 ELSE 0)
                                             - (IF k \in events_removed THEN 1 ELSE 0)]
     /\ todo' = [q \in Requests |->
                   IF q = r THEN {}
                   ELSE IF pc[q] \in {"locking", "locking_rest"} THEN todo[q] \ events_removed
                   ELSE todo[q]]
     /\ disturbed' = [q \in Requests |-> IF q = r THEN {} ELSE disturbed[q] \union changed]
     /\ Release(r)

(* get_assignable_tags and validate_tag_for_assignment, on an unlocked     *)
(* read of the tags; bulk_assign_tags and assign_tag go on to assign,      *)
(* replace_resource_tags to lock what it removes.                          *)
ValidateTags(r) ==
  /\ pc[r] = "called"
  /\ service[r] \notin Removers
  /\ IF \A t \in tags[r] : t \in tag_active /\ <<scope[r], t>> \in Compatible
     THEN /\ Goto(r, "checked")
          /\ order' = [order EXCEPT ![r] = by_name]
          /\ UNCHANGED <<dbVars, service, scope, tags, todo, created, removed, envVars>>
     ELSE RollBack(r)

BeginAssigning(r) ==
  /\ pc[r] = "checked" /\ service[r] \in Assigners
  /\ Goto(r, "assigning")
  /\ todo' = [todo EXCEPT ![r] = Requested(r)]
  /\ UNCHANGED <<dbVars, argVars, created, removed, envVars>>

(* The first FOR UPDATE statement of the removers and of the replacement.  *)
BeginLocking(r) ==
  /\ \/ pc[r] = "called" /\ service[r] \in Removers
     \/ At(r, "checked", "replace_resource_tags")
  /\ Goto(r, "locking")
  /\ todo' = [todo EXCEPT ![r] = Visible(r) \intersect
                (IF service[r] \in Removers THEN Requested(r) ELSE InScope(r) \ Requested(r))]
  /\ UNCHANGED <<dbVars, argVars, created, removed, envVars>>

LockNext(r) ==
  LET k == NextToLock(r)
  IN /\ pc[r] \in {"locking", "locking_rest"}
     /\ todo[r] # {}
     /\ ~Others(k, r)
     /\ lock' = [lock EXCEPT ![k] = [owner |-> r, kind |-> "locked"]]
     /\ todo' = [todo EXCEPT ![r] = @ \ {k}]
     /\ UNCHANGED <<present, newest, balance, disturbed>>
     /\ UNCHANGED <<pc, argVars, created, removed, envVars>>

(* Delete what was locked, one event per row.                              *)
RemoveLocked(r) == todo[r] = {} /\ Commit(r, {}, HeldBy(r, "locked"))
remove_tag_assignment(r) == At(r, "locking", "remove_tag_assignment") /\ RemoveLocked(r)
bulk_remove_tags(r) == At(r, "locking", "bulk_remove_tags") /\ RemoveLocked(r)

(* replace_resource_tags deletes them, too, and locks what remains.        *)
RemoveOutdated(r) ==
  LET outdated == HeldBy(r, "locked")
  IN /\ At(r, "locking", "replace_resource_tags") /\ todo[r] = {}
     /\ lock' = [k \in Keys |-> IF k \in outdated THEN [owner |-> r, kind |-> "deleted"]
                                ELSE lock[k]]
     /\ removed' = [removed EXCEPT ![r] = outdated]
     /\ todo' = [todo EXCEPT ![r] = (Visible(r) \intersect InScope(r)) \ outdated]
     /\ Goto(r, "locking_rest")
     /\ UNCHANGED <<present, newest, balance, disturbed, argVars, created, envVars>>

AssignMissing(r) ==
  /\ pc[r] = "locking_rest" /\ todo[r] = {}
  /\ Goto(r, "assigning")
  /\ todo' = [todo EXCEPT ![r] = Requested(r) \ HeldBy(r, "locked")]
  /\ UNCHANGED <<dbVars, argVars, created, removed, envVars>>

-----------------------------------------------------------------------------
(* get_or_create, one tag after the other: the lookup,                     *)
LookUp(r) ==
  /\ pc[r] = "assigning" /\ todo[r] # {}
  /\ IF NextToAssign(r) \in Visible(r)
     THEN todo' = [todo EXCEPT ![r] = @ \ {NextToAssign(r)}] /\ UNCHANGED pc
     ELSE Goto(r, "inserting") /\ UNCHANGED todo
  /\ UNCHANGED <<dbVars, argVars, created, removed, envVars>>

(* the insert, which the unique constraint makes wait or fail,             *)
Insert(r) ==
  LET k == NextToAssign(r)
  IN /\ pc[r] = "inserting"
     /\ ~(Others(k, r) /\ lock[k].kind \in {"inserted", "deleted"})
     /\ IF k \in present
        THEN /\ Goto(r, "refetching")
             /\ UNCHANGED <<newest, lock, todo, created>>
        ELSE /\ lock' = [lock EXCEPT ![k] = [owner |-> r, kind |-> "inserted"]]
             /\ newest' = Newest(k)
             /\ created' = [created EXCEPT ![r] = @ \union {k}]
             /\ todo' = [todo EXCEPT ![r] = @ \ {k}]
             /\ Goto(r, "assigning")
     /\ UNCHANGED <<present, balance, disturbed, argVars, removed, envVars>>

RefetchAsCreated(r) ==      \* mutant: the loser of the race reports a creation
  /\ pc[r] = "refetching"
  /\ todo' = [todo EXCEPT ![r] = @ \ {NextToAssign(r)}]
  /\ created' = [created EXCEPT ![r] = @ \union {NextToAssign(r)}]
  /\ Goto(r, "assigning")
  /\ UNCHANGED <<dbVars, argVars, removed, envVars>>
RefetchByInserting(r) ==    \* mutant: tries the insert again instead
  /\ pc[r] = "refetching"
  /\ Goto(r, "inserting")
  /\ UNCHANGED <<dbVars, argVars, todo, created, removed, envVars>>

(* and after an IntegrityError the winner's row, unless it is gone again:  *)
(* then DoesNotExist ends the call.                                        *)
Refetch(r) ==
  /\ pc[r] = "refetching"
  /\ IF NextToAssign(r) \in Visible(r)
     THEN /\ todo' = [todo EXCEPT ![r] = @ \ {NextToAssign(r)}]
          /\ Goto(r, "assigning")
          /\ UNCHANGED <<dbVars, argVars, created, removed, envVars>>
     ELSE RollBack(r)

(* When every tag is there the transaction commits with its events.        *)
CommitAssigned(r) == todo[r] = {} /\ Commit(r, created[r], removed[r])
assign_tag(r) == At(r, "assigning", "assign_tag") /\ CommitAssigned(r)
bulk_assign_tags(r) == At(r, "assigning", "bulk_assign_tags") /\ CommitAssigned(r)
replace_resource_tags(r) == At(r, "assigning", "replace_resource_tags") /\ CommitAssigned(r)

-----------------------------------------------------------------------------
(* Whom r waits for, and PostgreSQL's deadlock detector, which aborts a    *)
(* member of a circle.                                                     *)
Blocker(r) ==
  CASE pc[r] \in {"locking", "locking_rest"} /\ todo[r] # {} -> lock[NextToLock(r)]
    [] pc[r] = "inserting" /\ lock[NextToAssign(r)].kind \in {"inserted", "deleted"}
         -> lock[NextToAssign(r)]
    [] OTHER -> Unlocked
WaitsFor(r) == {Blocker(r).owner} \ {Nobody, r}
Circle(members) ==
  members # {} /\ \A r \in members : WaitsFor(r) # {} /\ WaitsFor(r) \subseteq members

AbortDeadlock(r) ==
  /\ \E members \in SUBSET Requests : r \in members /\ Circle(members)
  /\ RollBack(r)

(* The worker dies or loses its connection.                                *)
Die(r) == pc[r] # "idle" /\ RollBack(r)

(* deactivate_tag, reactivate_tag or update_tag of a name, none of which   *)
(* looks at assignments.                                                   *)
ToggleTag(t) ==
  /\ toggles < MaxToggles /\ toggles' = toggles + 1
  /\ tag_active' = IF t \in tag_active THEN tag_active \ {t} ELSE tag_active \union {t}
  /\ UNCHANGED <<dbVars, requestVars, by_name, write_enabled, calls>>
RenameTag ==
  /\ toggles < MaxToggles /\ toggles' = toggles + 1
  /\ \E s \in [1..Cardinality(Tags) -> Tags] :
       ToSet(s) = Tags /\ s # by_name /\ by_name' = s
  /\ UNCHANGED <<dbVars, requestVars, tag_active, write_enabled, calls>>

Finish(r) ==
  \/ assign_tag(r) \/ bulk_assign_tags(r) \/ replace_resource_tags(r)
  \/ remove_tag_assignment(r) \/ bulk_remove_tags(r)
Proceed(r) ==
  \/ ValidateTags(r) \/ BeginAssigning(r) \/ BeginLocking(r) \/ LockNext(r)
  \/ RemoveOutdated(r) \/ AssignMissing(r) \/ LookUp(r) \/ Insert(r) \/ Refetch(r)
  \/ Finish(r)
  \/ AbortDeadlock(r)

Next ==
  \/ \E r \in Requests : CallService(r) \/ Proceed(r) \/ Die(r)
  \/ \E t \in Tags : ToggleTag(t)
  \/ RenameTag

Spec == Init /\ [][Next]_vars

(* Whoever can go on goes on, and PostgreSQL resolves deadlocks.           *)
FairSpec == Spec /\ \A r \in Requests : WF_vars(Proceed(r))

-----------------------------------------------------------------------------
Points == {"idle", "called", "checked", "locking", "locking_rest", "assigning", "inserting",
           "refetching"}

(* Every variable stays in its domain, and whoever is not in a transaction *)
(* holds no lock.                                                          *)
TypeOK ==
  /\ present \subseteq Keys
  /\ Len(newest) = Cardinality(Keys) /\ ToSet(newest) = Keys
  /\ tag_active \subseteq Tags
  /\ ToSet(by_name) = Tags /\ Len(by_name) = Cardinality(Tags)
  /\ lock \in [Keys -> [owner : Requests, kind : {"locked", "inserted", "deleted"}]
                         \union {Unlocked}]
  /\ write_enabled \in BOOLEAN
  /\ pc \in [Requests -> Points]
  /\ service \in [Requests -> Services \union {"none"}]
  /\ scope \in [Requests -> Scopes]
  /\ tags \in [Requests -> SUBSET Tags]
  /\ \A r \in Requests : ToSet(order[r]) \in {{}, Tags}
  /\ {todo, created, removed, disturbed} \subseteq [Requests -> SUBSET Keys]
  /\ calls \in 0..MaxCalls /\ toggles \in 0..MaxToggles
  /\ balance \in [Keys -> Int]
  /\ \A k \in Keys : lock[k].owner # Nobody => pc[lock[k].owner] \notin {"idle", "called", "checked"}

(* A consumer of the events has the table: one assignment.created per row  *)
(* that came into being, one assignment.removed per row that ended, however*)
(* many idempotent writers and removers overlapped.                        *)
EventsTellTheRows == \A k \in Keys : balance[k] = (IF k \in present THEN 1 ELSE 0)

(* When a replacement commits, the resource has exactly the requested tags *)
(* in its scope, but for what others changed since it was called; an       *)
(* assignment has its tags and a removal none of them, with the same       *)
(* exception; no call changes the rows of another scope.                   *)
Exact(r) ==
  /\ \A k \in InScope(r) \ disturbed[r] :
       /\ service[r] \notin Removers /\ k[2] \in tags[r] => k \in present'
       /\ service[r] \in Removers /\ k[2] \in tags[r] => k \notin present'
       /\ service[r] = "replace_resource_tags" /\ k[2] \notin tags[r] => k \notin present'
  /\ \A k \in Keys : k[1] # scope[r] => (k \in present' <=> k \in present)
CallsAreExact == [][\A r \in Requests : Finish(r) => Exact(r)]_vars

(* Writers that keep to one order never deadlock: assignments insert in    *)
(* the order of the tags' names and removals lock in the order of the      *)
(* table.  It takes a replacement, which does both in three statements, or *)
(* a tag that was renamed after one of two writers read its tags.          *)
DeadlocksHaveCauses ==
  \A members \in SUBSET Requests :
    Circle(members) =>
      \/ \E r \in members : service[r] = "replace_resource_tags"
      \/ \E q, r \in members : order[q] # order[r]

(* Every call ends, by deadlock detection if it must.                      *)
CallsFinish == \A r \in Requests : pc[r] # "idle" ~> pc[r] = "idle"
=============================================================================
