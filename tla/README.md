# Octonomy in TLA+

Octonomy is a multi-tenant tag service: a Django/PostgreSQL application in which REST clients
and administrators maintain vocabularies, tags and aliases, assign tags to external resources,
and receive every change as an event. This directory models the parts of it that are hard to
test, checks them with TLC on small instances and proves theorems about them with TLAPS.

Paths below are relative to the repository; `PROJECT.json` maps every definition to the lines
it models.

## 1. The system

### Components, state and operations

| Component | Code | State | Operations |
|---|---|---|---|
| Taxonomy writes | `octonomy/tags/{services,alias_services,vocabulary_services}.py` | `vocabularies`, `tags`, `tag_aliases`: `is_active`, plain columns, a foreign key; the scope (tenant, application, namespace) of a row never changes | create, update, deactivate, reactivate for each kind of row |
| Assignment writes | `octonomy/assignments/services.py` | `tag_assignments`, unique per scope, resource and tag | `assign_tag`, `remove_tag_assignment`, `bulk_assign_tags`, `bulk_remove_tags`, `replace_resource_tags` |
| Outbox recording | `octonomy/events/services.py` | `outbox_events` | a row inserted in the transaction of the change it tells of |
| Outbox dispatcher | `octonomy/events/dispatch.py` | `outbox_events`: status, attempts, recoveries, due time, claim id, claim deadline | claim, publish, complete, recover; run by a timer, a cron job or a loop |
| Slug resolution | `octonomy/tags/alias_services.py:362-544`, `alias_selectors.py` | none | resolve a slug along the ladder application and namespace, application, shared; tags before aliases |
| Authentication and grants | `octonomy/core/auth.py`, `octonomy/service_auth` | `service_clients`, their grants | authenticate, authorize, `mark_client_used` |
| Kill-switch and rollout | `core/auth.py:90`, `core/checks.py`, `config/settings.py` | environment flags, read when a process boots | gate namespaced writes and their dispatch; refuse inconsistent flags at boot |
| Audit log | `octonomy/audit` | `audit_logs` | a row inserted in the transaction of the change |
| Admin site | `octonomy/core/admin_base.py`, `*/admin.py` | none | the same services; bulk actions in one outer transaction |
| HTTP layer, operations | `*/views.py`, `core/versioning.py`, `config`, `deploy`, `scripts` | none shared | routing, paging, envelopes, metrics, deployment |

### How they interact

    REST view / admin form
       | 1. loads the row, no lock          (stale from here on)
       v
    service -- BEGIN; SELECT ... FOR UPDATE; write; audit_logs; outbox_events; COMMIT
                                                                    |
    dispatcher A, dispatcher B, ...   <---- outbox_events ----------+
       claim (txn) -> publish (no txn) -> complete (txn) ... recover expired (txn)
                        |
                        v
                     consumer, at least once, deduplicates by event id

All coordination is through PostgreSQL at READ COMMITTED: row locks, `SKIP LOCKED`, unique
indexes, foreign keys and the deadlock detector. There are no threads and no in-process queues.

### What is hard about it

* A dispatcher may die, or outlive its claim, between claiming and completing; another one then
  recovers and claims the row again while the first is still publishing.
* The services act on instances loaded before their transaction. Some re-read them under a lock
  (`deactivate_tag`, all reactivations), some do not (`update_*`, `deactivate_tag_alias`,
  `deactivate_vocabulary`).
* A tag, its vocabulary and its aliases are locked together by several services, in an order
  that has to be the same everywhere; `reactivate_tag_alias` must guess which tag to lock and
  retries when it guessed wrong.
* Idempotent writers of one resource race on a unique constraint; the loser must report no
  event, and a replacement locks, deletes and inserts in one transaction.
* The kill-switch is an environment variable: each process has the value it booted with.

`PROJECT.json` "hazards" lists these at the lines where they bite.

### What makes each component correct

* Dispatcher: every event is settled in the end; published means the destination took it,
  dead-lettered means it was refused `max_attempts` times; a worker that lost its claim changes
  nothing; a duplicate delivery has a fault behind it; paused means paused.
* Taxonomy: active aliases have active tags; references stay in scope; what a reactivation
  checked still holds when it commits; one event per real change; no circle of row locks.
* Assignments: the results of bulk calls are exact, one event per row that comes and goes,
  calls end, deadlocks only where the code cannot avoid them.
* Resolution: the answer is the one the documented ladder gives, also when rows change between
  its two statements; a row that matched throughout is not missed; an alias is no detour around
  the scope of its tag.
* Authentication and grants: what a request is shown, has counted or writes is within the grants
  its client held; a namespace is not entered or left unasked, but for the global tags that its
  assignments carry; a revoked token stays revoked.
* Kill-switch and rollout: namespaced rows are served and written only by processes that booted
  with all the flags this takes.
* Admin: a selection is processed whole or not at all; bulk actions keep the invariants of the
  services they run; they wait in a circle only for locks of earlier rows.

## 2. The modules

| Module | What it is |
|---|---|
| `OutboxDelivery` | what the outbox promises: taken, reached, refused, given back, confirmed, abandoned; no workers, claims or clocks |
| `OutboxDispatch` | the dispatcher processes over the table; implements `OutboxDelivery` |
| `OutboxDispatchProofs` | the theorems about `OutboxDispatch` |
| `TaxonomyWrites` | overlapping calls of the twelve taxonomy services |
| `TaxonomyWritesProofs` | the theorems about `TaxonomyWrites` |
| `Assignments` | overlapping calls of the five assignment services on one resource |
| `AssignmentsProofs` | the theorems about `Assignments` |
| `AdminBulk` | bulk actions of the admin and single calls: several services in one transaction |
| `AdminBulkProofs` | the theorems about `AdminBulk` |
| `Grants` | functions only: scopes, filters, requests, grants and what a set of grants authorizes |
| `Access` | the requests of one client from routing to answer, while operators intervene; extends `Grants` |
| `AccessProofs` | the theorems about `Access` |
| `Resolution` | looking a slug up while the rows that have it change; extends `Grants` |
| `ResolutionProofs` | the theorems about `Resolution` |
| `MC*` | small instances and symmetry for TLC |

In each module some definitions are variants marked `mutant`: plausible bugs of the code,
unused by the specification. Substituted for the definition that follows them, they make the
property `PROJECT.json` names fail.

### OutboxDispatch

One worker is one run of `dispatch_outbox_events`. `pc` follows the code: `dispatch` is the loop
(lines 196-213), `claiming` is inside the transaction of `_claim_next_event` after its SELECT,
`publishing` is inside `transport.publish`, `accepted` and `raised` are after it, the two
`marking_` points are inside the completion transaction, `recover` and `recovering` are
`_recover_expired_claims`. `event` and `held` are the in-memory event and its claim id. A row
locked by a transaction is skipped by the other queries (`Locked`).

Time is relative: `available_at` and `claim_expires_at` count the ticks that are left, and `Tick`
lowers them; `Horizon` is where ages stop being told apart, and among rows of the same age any
order is possible. `claims`, `accepted`, `refused` and `faults` only observe. A fault is a crash,
a lost answer, or a worker that keeps a claim past its publish timeout (`Overrun`).

### TaxonomyWrites

A request is one service call. `CallService` is the view: it loads the instance (`copy`) and
calls the service with what the client sent. Then one step per unlocked read and per statement
that may wait, the last one with the commit. `holding` is the set of rows locked FOR UPDATE. An
INSERT or UPDATE begins (`BeginWrite`: the row is free, and locked from here on), enters its active
slug (`EnterSlug`: a committed one is a ConflictError, an uncommitted one, written or given up, is
waited for: `SlugWait`), and commits (`KeyWait`: a changed foreign key waits for whoever has locked
the row it refers to). `Wanted` is what the next statement locks, `DetectDeadlock` PostgreSQL's
answer to a circle. `mirror` is the table as a consumer of the events would rebuild it.

Abstractions: all plain columns are one column `slug`, which is also the unique one; a PATCH
sends one field (the full-row save makes several fields no different); the parent of a tag has
only a scope check and is left out, and with it the wait of a commit for a locked parent, whose
holder waits for no tag and so closes no further circle of row locks; writes after which nothing
is waited for (deactivations, and the flip of a reactivation) are one step with their commit; `write_enabled` is fixed in a behaviour, because a web process
keeps the value it booted with; ids are fresh, so nobody else creates the same row.

### Assignments

The assignments of one resource, a row per scope and tag. A transaction's uncommitted inserts
and deletes are kept in `lock`; `Visible` is what its queries return. A statement that locks
several rows does so in the table's ordering (`newest`), assigning goes in the order in which the
tags were read (`order`, by name). `disturbed` records what other transactions changed since the
call began, which is what "exact" must make allowance for. Tags are deactivated, reactivated
and renamed meanwhile by `ToggleTag` and `RenameTag`.

Abstractions: a removal's DELETE and COMMIT are one step after its locks; the two refetches after
an IntegrityError, Django's and the service's, are one; `assigned_by` and alias forms are left out.
The waits between an insert's foreign-key check and a service that locks the tag FOR UPDATE are
left out too: each such service locks a single tag, as the first lock of its transaction, and no
assignment rows, so these waits end and close no cycle.

### AdminBulk

A transaction is a session: a service and a selection of rows, loaded without locks. A REST call
is a selection of one row. `_run_bulk` wraps the services in one outer transaction, so the
services' own transactions are savepoints: `holding` grows from row to row, `earlier` is what was
held when the current row began (the savepoint, to which `_AliasRepointed` rolls back), `written`
is what only the transaction itself sees (`View`). `Complete` is the return of a service: the
next row, or the commit. `RollBack` is any error. What a service decides by the instance loaded
before the transaction it decides by `loaded`: of the rows a vocabulary or alias deactivation
finds inactive there, the table is not looked at again. `Wanted` is the lock of a transaction's
next statement, `DetectDeadlock` PostgreSQL's answer to a circle.

Abstractions: no slugs, whose conflicts are one more rejection and whose waits are those of
`TaxonomyWrites`; of the updates only the
re-pointing of an alias, because it alone makes a reactivation start over; creations, which no bulk
action runs; the order in which one statement locks several aliases is any order.

### Grants and Access

`Grants` translates the selectors and the decisions of `core/auth.py` as functions of a request
and a set of grants. A row is its scope, an application (or `Shared`) and a namespace (or
`Global`); a lookup is the set of scopes it admits, and every row of those scopes counts as
shown. That is the question of isolation, and no more: which rows exist, and in what order they
are listed, is left out.

The tag of an assignment is a row of its own in an answer. GET of a resource's tags selects
assignments by namespace and application and nests each one's whole tag; a replacement answers
with the tags the resource has in the end. No filter and no grant applies to those tags, only
the checks when they were assigned (`TagsOf`). An answer keeps them apart, in `carried`: an exact
merchant grant is so given the global tags that its namespace has assigned, which `docs/api.md`
calls the intended contract. The properties grant exactly that exception: without it TLC finds
`AnswersWithinGrants` violated by this very request.

A request in `Access` goes through `routed` (version, headers, edge gate), `authenticated`,
`authorized` (the grants are read once and cached; the kill-switch is the last check),
`permitted` (`mark_client_used`) and `answered`. Each step is one statement of the database, so
operators may act between any two: revoke the token, let it expire, take a grant away, set a flag,
restart a process. `instance` and `cached` are what the request read, and everything after reads
those and not the table. `held`, `ended` and `late` only observe; `held` is what the client held
when its request came, of which everything later is a part, since no command adds a grant.
`booted` is per process, because the flags are read from the environment at boot, where
`FlagRules` (E010 to E015) refuse inconsistent ones.

Abstractions: one client and one tenant (the grants are selected by both, and rows by tenant, in
every query); whether a client sends a scope that its form forbids is left to the guards that
refuse it; writes of the three kinds of taxonomy rows are alike; a refusal is a refusal,
whatever its status. A row that a tenant shares among its applications counts as within reach
of a grant of any of them, which is what sharing means (`filter_tags` shows it to all).

### Resolution

The state is the active rows that have one slug. A lookup is a permitted request of
`Grants`: `tag_resolution` and `assignment_lookups` compute which combinations of namespace,
fallback and application get past `has_permission`. `resolve_tags` and `resolve_aliases` are the
two statements of a resolution, between which `Appear`, `Disappear` and `Change` commit; the
lookups of assignments are one statement. `Ladder` and `RightAnswer` are the reference: the
docstring's list of scopes from the most specific, without priorities or filters. `steady` is what
was active throughout. In the gap between the statements a new tag may be passed over for an
alias, and an alias that is turned into a tag may be missed; the documentation promises no more,
and the properties say exactly that.

## 3. The runs

| Run | Question | Instance |
|---|---|---|
| `OutboxRace` | claims stolen, recovered, completed late | 1 event, 2 workers, 2 attempts, claim timeout 2, publish timeout 1, 3 faults; 214 thousand states |
| `OutboxLive` | is every event settled, and do paused rows rest? | 2 events, 1 of them namespaced, 2 workers, limit 1, 1 fault, 2 flips, under `FairSpec`; 526 thousand states |
| `TaxonomyRace` | safety of all twelve services | 1 vocabulary, 2 tags, 1 alias, 2 requests, 3 calls, 4 initial tables; 255 thousand states |
| `TaxonomyLive` | which circles of waiting are there, and does every call end? | one merchant, so that the slugs of 2 tags clash, the 5 services that wait most, 2 requests, 4 calls, 2 initial tables, under `FairSpec`; 79 thousand states |
| `AssignmentsRace` | exactness, events, deadlocks, and does every call end? | all five services, 2 tags, 2 scopes, 2 requests, 2 calls, 1 toggle or renaming, 3 initial tables, under `FairSpec`; 124 thousand states |
| `AdminBulk` | whole selections, deadlocks, aliases of active tags | 1 vocabulary, 2 tags, 2 aliases, 2 assignments, 2 transactions at a time, 3 in all, up to 2 rows each, every consistent table; 417 thousand states |
| `AccessScopes` | isolation of scopes, revocation, rollout | every request; every grant and pair of full grants; 2 applications, 2 namespaces; operators act twice on a merchant's client, once on a tenant-wide one; 1.04 million states |
| `ResolutionLadder` | the right answer, also in the gap | every permitted lookup of clients with one or two full grants, every table of up to 3 rows, 2 applications, 2 namespaces, 2 types; 372 thousand states |
| `TaxonomyOrphan`, `TaxonomyRepeat`, `TaxonomyStale`, `AdminDeadlock` | the documentation against the code | see section 5 |

Why the bounds are enough. A claim is stolen with two workers: one holds the old claim, the other
recovers and claims again; three faults allow a steal, a lost answer and a crash in one behaviour,
and two attempts separate "failed" from "dead-lettered". A third worker could only repeat what
the second does, and the theorems of section 4 hold for any number. In the taxonomy two
overlapping calls show every race between a check and a write, a third call changes the world
between two others, and `TaxonomyLive` needs four: a reactivation and the three re-pointings
that exhaust `reactivate_tag_alias`. One tag is shared and global and the other belongs to a
merchant, so that scopes can be wrong. For assignments two tags are the least with which two
orders exist, and the same holds of the two rows of a selection. In `AccessScopes` one request is
enough, since requests share nothing but the client's row, to which each writes at most
`last_used_at`; two grants are enough because a decision asks for one grant per application that a
request names, of which there are at most two. Three rows fill the longest ladder. Applications,
namespaces and types are interchangeable: the initial states name some of them, but the steps and
the properties do not, so checking one of several symmetric states is sound. `CHECK_DEADLOCK
FALSE` in the runs with a bound on calls says only that the calls are used up.

Every run with a bound on calls or faults says nothing about what accumulates over longer
behaviours; the theorems of section 4 do: they state every invariant and every action property
of these runs for any bound.

### Fairness

`OutboxDispatch!FairSpec` has weak fairness of each worker's own steps, of which starting a run
is one, and of time. The deployments justify it: the systemd timer, the cron job and the compose
loop start the command again and again, with `--retry-failed`, and every statement of it ends
because `publish` has a timeout. Nothing forces crashes, new events or redeployments, and the
number of faults is bounded. `EventuallySettled` asks of a namespaced row that writes are
enabled from some time on. `TaxonomyWrites` and `Assignments` have weak fairness of a request's
next step: gunicorn runs it, and PostgreSQL grants a lock that is free and breaks a circle. With two requests weak
fairness is enough; a lock that is always taken by somebody else before one gets it would need
more calls than there are.

## 4. The theorems

`OutboxDispatchProofs`, all for any sets of events and workers and any configuration, from
`ConstantsAssumption` (types, finitely many events) and `PowersAssumption` (powers of two up to
`retry_max` are natural numbers, an arithmetic fact the provers do not know):

| Theorem | Property |
|---|---|
| `TypeCorrect` | `TypeOK` |
| `ExclusiveOwnership` | `OneOwner` |
| `LocksProtectRows` | `LockedRowIsStable` |
| `AccountingHolds` | `ClaimsAccounted` |
| `PublishedMeansAccepted` | `PublishedWasAccepted`, which no run checks apart from the refinement that implies it |
| `DeadLetterMeansRefused` | `DeadLetterWasRefused` |
| `DuplicatesHold` | `DuplicatesNeedFaults` |
| `SettledRowsAreFinal` | `SettledIsFinal` |
| `StaleWorkersAreInert` | `StaleWorkerIsInert` |
| `KillSwitchPauses` | `PausedOnceDrained` |
| `DispatcherKeepsPromise` | `KeepsDeliveryPromise`, the refinement of `OutboxDelivery` |

The inductive invariant is built in layers, each shown inductive relative to those before it.

1. `Typed`: `TypeOK`, and a worker about to act on a row has one in hand.
2. `Owned`: row locks are exclusive and the locked row is as its query selected it; a
   processing row is under its newest claim and every other row under none; a worker at work
   holds a claim that was really issued, and no two hold the same. `OneOwner` alone is not
   inductive: that a fresh claim differs from all those still held by stale workers needs
   `HeldIssued`, that a completion finds nobody else's lock needs the lock conjuncts.
3. `Answering`: a worker that remembers an answer was given one for the claim it holds.
   With it every step is a step of `OutboxDelivery`, from which `ClaimsAccounted` follows.
4. `Settlement`: published rows were accepted, and the refused claims are at least as many as the
   attempts that did not publish.
5. `Guarded`: what a worker is recovering has expired, and what it works on passes the gate it
   booted with.
6. `Billed`: the claims under which an event was accepted or is being published (`Loose`) are no
   more than the faults, and one. The one (`Grace`) is the claim that published the row, or the
   current one while its holder is `Healthy`: at work, with no more than the publish timeout of
   its time spent. A healthy claim cannot be recovered, because a worker starts a run only with a
   claim timeout above the publish timeout (`Booted`), so it is lost only to a crash, a lost answer
   or an overrun, and each of these pays for it.

`TaxonomyWritesProofs`, for any tables, scopes, services and requests, from `ScopesAssumption`
(the tables are disjoint, a namespaced row has an application) and `SeedsAssumption` (the tables
the calls find are consistent):

| Theorem | Property |
|---|---|
| `TypeCorrect` | `TypeOK` |
| `ScopesHold` | `ScopesContained` |
| `AliasesFollow` | `AliasFollowsTag` |
| `ChecksHold` | `CheckedUnderLock` |
| `EventsTold` | `EventsTellTheTable` |
| `KillSwitchHolds` | `KillSwitchProtects` |
| `TagDeletesHold` | `TagDeletesAreReal` |
| `DeadlocksHold` | `DeadlocksNeedSlugs` |

The inductive invariant `Inv` has, next to the types (`Shape`), the links of the rows (`Table`)
and the properties themselves: `Asked`, what the call of a request is and that the kill-switch
let it in; `Placed`, what a request holds locked at each point of its service and what it knows
of the locked rows; and `Exclusive`, that no two requests have locked the same row, FOR UPDATE or
by a write. Every step
either leaves the table alone or is `Written`: it changes only rows that nobody else has locked.
So what the others know stays true (`OthersKeep`), and each action is left with what it does to
its own request and to the properties (one lemma `...Keeps` per action). `AliasFollowsTag` is not
inductive alone: that the tag of an alias about to be saved or reactivated is active and locked is
in `Placed`, so no alias becomes active behind a cascade that holds the same tag. `Quiet`, `Saves` and `Cascades` then sort the
steps by what they write, which gives the two action properties and, with `Observed` and `Told`
about the consumer's copy, `EventsTellTheTable`. For `DeadlocksNeedSlugs`, suppose requests that
wait for one another and none of them for a slug (`Plain`): whoever has locked a vocabulary waits
for nobody (`VocabulariesAreLast`), hence no commit waits (`NobodyWaitsAtCommit`), hence aliases are
locked by cascades only, two of which never have aliases of one tag (`CascadesDoNotWait`), hence
nobody who has locked a tag waits (`TagsAreFirst`), and there is no such set.

`AssignmentsProofs`, for any tags, scopes, compatible pairs, services and numbers of requests and
calls, from `AssignmentsAssumption` (types, finitely many tags and scopes):

| Theorem | Property |
|---|---|
| `TypeCorrect` | `TypeOK` |
| `EventsTell` | `EventsTellTheRows` |
| `CallsAreExactAlways` | `CallsAreExact` |
| `DeadlocksHaveCausesAlways` | `DeadlocksHaveCauses` |

`LocksMatchRows` relates the locks to the committed rows: what a transaction inserted is not there
yet, what it locked or deleted still is. `EventsTellTheRows` is not inductive without it: that a
commit's created events are of rows that were absent, and its removed events of rows that were
present, is exactly this. Of each call the invariant says what it holds at which point (`Staged`),
what it has done of its request but for what others have changed (`Worked`), and that what it still
has to lock or insert comes after what it has (`Ordered`). A commit of another call takes none of
its locks (`Apart`, `OthersKeep`), and an insert, which changes the table's ordering, moves only a
row that nobody has locked (`NewestListed`). `CallsAreExact` then is `Worked` with nothing left to
do. For `DeadlocksHaveCauses`: a remover waits only for a remover that locked the row, and is
ahead in the table's ordering (`RemoverWaits`), an inserting call only for one that inserted the
row, ahead in the order of the tags (`AssigningWaits`); so a circle would run ever further along
one finite sequence (`NoCircle`, from the library's `WFMin`).

`AdminBulkProofs`, for any tables, selections and numbers of transactions, from `AdminAssumption`
(the tables are disjoint, and what the transactions may find is consistent):

| Theorem | Property |
|---|---|
| `TypeCorrect` | `TypeOK` |
| `AliasesFollow` | `AliasFollowsTag` |
| `BatchesAreWhole` | `AllOrNothing` |
| `DeadlocksNeedEarlierLocks` | `DeadlocksNeedBulk` |

Others see what a transaction wrote only at its commit, so the invariant is about writes that are
still private: `Proper` (they are of rows it has locked, in the direction of its service, and an
alias is activated only while its active tag is locked), `Sealed` (no active alias is left of a tag
that `deactivate_tag` is done with, seen with the writes) and `Processed` (the rows of the selection
up to the current one are as the service leaves them). At the commit these three turn into
`AliasFollowsTag` and `AllOrNothing`. `Proper` and the rest speak of the locks from earlier rows,
so that an `_AliasRepointed` rollback to the savepoint keeps them. `Placed` says which locks are
the current row's: its tag's and that tag's aliases', in this order. A cascade therefore waits only
for a lock kept from an earlier row (`CascadeWaitsForEarlier`), one that has its tag waits otherwise
only for a cascade (`TagLockedWaits`), and whoever has not locked its tag yet holds nothing for the
current row: no circle closes with the locks of current rows alone.

`AccessProofs`, for any applications, namespaces, grants, handlers, processes and seeds, from
`GrantsAssumption` (the special values are not applications or namespaces) and
`AccessAssumption` (the seeds are of the right types, and their flags can boot):

| Theorem | Property |
|---|---|
| `TypeCorrect` | `TypeOK` |
| `AnswersCovered` | `AnswersWithinGrants` |
| `ReadsKeepScope` | `ReadsStayInScope` |
| `WritesKeepScope` | `WritesStayInScope` |
| `RevocationHolds` | `RevokedForGood` |
| `RolloutHolds` | `NamespacesNeedTheirFlags` |

The properties of answers need one invariant, `Served`: a request past authorization carries
the grants it was permitted by, they permit it, and they are among those held. From it and
lemmas about the functions of `Grants` follows, view by view, that whatever the view's
query admits is proper: its namespace is the request's or a global one that was authorized, its
application is shared, or one the request names, or one that a grant covers. A tag that is carried
is proper as well, or global and carried by a proper assignment (`CarriedIsBearable`). `RevokedForGood` is
not inductive alone: that a token once ended stays so, although the requests in flight save the
client's row, is `Revoked`. `NamespacesNeedTheirFlags` rests on `Deployed`: a process has booted
only with flags that the rules allow.

`ResolutionProofs`, for any clients, types and bound on the rows, from `GrantsAssumption`:

| Theorem | Property |
|---|---|
| `TypeCorrect` | `TypeOK` |
| `LadderHolds` | `ResolvesTheLadder` |
| `StableRowsHold` | `StableRowsAreFound` |
| `AliasesAreNoDetour` | `AliasesWidenNothing` |
| `AmbiguityIsOfTypes` | `OnlyTypesAreAmbiguous` |

A permitted lookup in a namespace names an application (`LookupsAreNamed`): this is where
resolution rests on the grants. For such a call the filters admit exactly the ladder
(`LadderIsAdmitted`, `TargetsAreAdmitted`), the priorities order it strictly (`PriorityIsRung`),
preferring the application's tags changes nothing (`ApplicationFirst`), and several rows on one
rung are tags that differ by type (`SeveralTypes`, `OneAlias`). So each statement computes its part
of `RightAnswer`. The invariant `LookedUp` adds what the gap needs: between the statements no tag
has matched throughout.

Only model-checked: liveness (`EventuallySettled` and the two `CallsFinish`), which with ENABLED is
out of the prover's reach, and the four violations of section 5. What a recursive definition
computes for every input, by induction over data, would be out of reach, too.
No module declares a RECURSIVE operator.

## 5. Where the documentation and the code differ

* `TaxonomyOrphan`: `docs/api.md` says that aliases can only point at active tags. A PATCH of
  `is_active` through `update_tag` does not cascade. `AliasFollowsTag` is what does hold: the
  only orphans are aliases of tags `update_tag` has saved.
* `TaxonomyRepeat`: `docs/events.md` says that repeated deletes emit nothing. Overlapping
  deletes of an alias or a vocabulary emit twice. `TagDeletesAreReal` is what does hold: tags
  are re-read under the lock.
* `TaxonomyStale`: `docs/events.md` says that an update event has the fields that changed.
  The full-row save of a stale instance changes others too, up to undoing a delete.
  `EventsTellTheTable` is what does hold: calls that do not overlap tell everything.

* `AdminDeadlock`: the docstring of `reactivate_tag_alias` says that its lock order, tag before
  alias, excludes deadlocks with `deactivate_tag`. It does, for single calls; but its only caller
  is the bulk action, whose one transaction keeps the locks of earlier rows. `DeadlocksNeedBulk`
  is what does hold: a circle needs a lock kept from an earlier row.

Also noticed, without a claim that it contradicts: single calls can deadlock over slugs.
`reactivate_tag` keeps the vocabulary locked while its flip waits for a slug that `create_tag` has
written and not committed, whose commit waits for the vocabulary (`TaxonomyLive` meets this circle).
`DeadlocksHold` leaves room for one more, two PATCHes that exchange the slugs of two rows; no run
here has it, for `update_tag` is not among the services of `TaxonomyLive`, which it would make too
large. PostgreSQL aborts one of the calls, with an error that is no ConflictError. And
`docs/architecture.md:54` calls deactivation one-way through the public API, while a PATCH of
`is_active` to true is accepted.

## 6. Not modelled

* How a token is generated, hashed and compared, and which error a refusal becomes: what is
  modelled is whether the client's row is active and not expired when it is read.
* A second tenant. Every query names the tenant of the request, and grants are read by it.
* Searching, ordering and paging of lists, OpenAPI, error envelopes, metrics and logging: output.
* Of `core/checks.py`, the checks of secrets, hosts, static files and applied migrations; the
  rules between the rollout flags are in `Access`.
* Migrations, settings, scripts and deployment files: configuration. The settings that the
  dispatcher reads are CONSTANTS of `OutboxDispatch`.
* The webhook's wire format and signature, and the payloads of events.
* The audit log: its rows are inserted with the events, in the same step.
* The parent of a tag, whose only check is its scope, and `assigned_by`.
* SQLite, which has no row locks and which `docs/deployment.md` rejects in production.

Events are assumed to be recorded: `build_outbox_event` skips a call without an audit context, and
no caller omits it. Assigning a tag that was deactivated after it was read is possible in
`Assignments` and violates nothing the documentation says: a tag that is deactivated later keeps
its assignments, too.

## 7. Plan

In order of importance:

1. A composition: a change, its event, its delivery and a consumer that deduplicates and rebuilds
   the table, on top of `OutboxDelivery`.
