---------------------------- MODULE OutboxDispatch ----------------------------
(***************************************************************************)
(* The transactional outbox dispatcher of octonomy/events/dispatch.py: any *)
(* number of dispatcher processes (a systemd timer, a Kubernetes CronJob   *)
(* and the compose loop all run `dispatch_outbox_events`) share the table  *)
(* outbox_events.  Every database transaction is two steps, the SELECT ... *)
(* FOR UPDATE SKIP LOCKED that takes the row lock and the save that        *)
(* commits, so that a crash, another worker or the clock can come between  *)
(* them.                                                                   *)
(*                                                                         *)
(* Time is relative: available_at and claim_expires_at hold the number of  *)
(* ticks until the instant the column names, and Tick brings every instant *)
(* one tick nearer.  `x <= now()` in the code is therefore `x <= 0` here.  *)
(***************************************************************************)
EXTENDS Integers, FiniteSets

CONSTANTS
  Events,         \* the outbox rows, numbered in (created_at, id) order
  Namespaced,     \* those whose namespace_type is not NULL
  Workers,        \* the dispatcher processes of the deployment
  NoEvent,        \* "this worker has no event in hand"
  Limit,          \* --limit
  RetryFailed,    \* --retry-failed
  MaxAttempts,    \* OUTBOX_MAX_ATTEMPTS
  RetryBase,      \* OUTBOX_RETRY_BASE_SECONDS
  RetryMax,       \* OUTBOX_RETRY_MAX_SECONDS
  ClaimTimeout,   \* OUTBOX_CLAIM_TIMEOUT_SECONDS
  PublishTimeout, \* OUTBOX_WEBHOOK_TIMEOUT_SECONDS; 0 for the logging transport
  Horizon,        \* bound: how long past an instant the model still tells ages apart
  MaxFaults,      \* bound: crashes, overruns and lost answers in a behaviour
  MaxFlips        \* bound: redeployments that change the write kill-switch

-----------------------------------------------------------------------------
(* The effective parameters of a run: dispatch_outbox_events clamps every  *)
(* setting before it uses it.                                              *)
AtLeast(bound, x) == IF x < bound THEN bound ELSE x
limit == AtLeast(0, Limit)
max_attempts == AtLeast(1, MaxAttempts)
retry_base == AtLeast(1, RetryBase)
retry_max == AtLeast(retry_base, RetryMax)
claim_timeout == AtLeast(1, ClaimTimeout)

ASSUME ConstantsAssumption ==
  /\ Events \subseteq Nat /\ IsFiniteSet(Events)
  /\ Namespaced \subseteq Events
  /\ NoEvent \notin Events
  /\ RetryFailed \in BOOLEAN
  /\ {Limit, MaxAttempts, RetryBase, RetryMax, ClaimTimeout} \subseteq Int
  /\ {PublishTimeout, Horizon, MaxFaults, MaxFlips} \subseteq Nat

(* An arithmetic fact about the exponents RetryDelay uses.                 *)
ASSUME PowersAssumption == \A n \in 0..retry_max : 2^n \in Nat

(* _retry_delay_seconds.  Past retry_max attempts the power exceeds        *)
(* retry_max, so the minimum is retry_max itself.                          *)
RetryDelay(attempt_number) ==
  LET exponent == AtLeast(0, attempt_number - 1)
      backoff  == retry_base * 2^exponent
  IN IF exponent > retry_max \/ backoff > retry_max THEN retry_max ELSE backoff

-----------------------------------------------------------------------------
VARIABLES
  (* The columns of outbox_events.  "absent": the row is not committed yet. *)
  status, attempts, recoveries, available_at, claim_id, claim_expires_at,
  (* Each worker: where it is, the `event` it has in hand, the claim id it  *)
  (* holds in memory, the iterations its loop has left, and the             *)
  (* NAMESPACE_WRITE_ENABLED its process booted with.                       *)
  pc, event, held, left, writes_on,
  (* The kill-switch of the environment, read when a process boots.         *)
  switch, flips,
  (* Observation only: how many claims each row has had (claim ids are      *)
  (* numbered per row: a uuid4 is fresh), which of them the destination     *)
  (* accepted, which ones publish() raised for, and the faults so far.      *)
  claims, accepted, refused, faults

rowVars == <<status, attempts, recoveries, available_at, claim_id, claim_expires_at>>
workerVars == <<pc, event, held, left, writes_on>>
switchVars == <<switch, flips>>
ghostVars == <<claims, accepted, refused, faults>>
vars == <<rowVars, workerVars, switchVars, ghostVars>>

NoClaim == 0
Statuses == {"absent", "pending", "processing", "published", "failed", "dead_letter"}
Settled(e) == status[e] \in {"published", "dead_letter"}

(* Program points.  In a transaction: the row `event` is locked.           *)
InTransaction == {"claiming", "marking_published", "marking_failed", "recovering"}
Answered == {"accepted", "raised"}
Holding == {"publishing", "marking_published", "marking_failed"} \union Answered
Points == {"idle", "dispatch", "recover"} \union InTransaction \union Holding

Locked(e) == \E w \in Workers : pc[w] \in InTransaction /\ event[w] = e

(* _gate_namespaced_dispatch                                               *)
Gated(w, e) == e \in Namespaced => writes_on[w]

(* ORDER BY instant, created_at, id.  Instants more than Horizon ticks ago *)
(* are indistinguishable: any order among those rows is possible.          *)
Before(instant, e, f) ==
  \/ instant[e] < instant[f]
  \/ instant[e] = instant[f] /\ (e < f \/ instant[e] = -Horizon)
FirstBy(instant, rows) == {e \in rows : \A f \in rows \ {e} : Before(instant, e, f)}

(* The three queries, each after the ways in which it could be wrong that  *)
(* the properties below must notice.                                       *)
ClaimableUnlocked(w) ==   \* no FOR UPDATE SKIP LOCKED
  {e \in Events : /\ status[e] = "pending" \/ (RetryFailed /\ status[e] = "failed")
                  /\ available_at[e] <= 0
                  /\ Gated(w, e)}
ClaimableUnsettled(w) ==  \* excludes "published" only
  {e \in Events : /\ status[e] \in {"pending", "failed", "dead_letter"}
                  /\ available_at[e] <= 0
                  /\ Gated(w, e)
                  /\ ~Locked(e)}

(* _next_event: the rows the claim query selects from, SKIP LOCKED.        *)
Claimable(w) ==
  {e \in Events : /\ status[e] = "pending" \/ (RetryFailed /\ status[e] = "failed")
                  /\ available_at[e] <= 0
                  /\ Gated(w, e)
                  /\ ~Locked(e)}

ExpiredUngated(w) ==      \* recovery forgets the kill-switch
  {e \in Events : status[e] = "processing" /\ claim_expires_at[e] <= 0 /\ ~Locked(e)}
ExpiredAnyAge(w) ==       \* recovery forgets the deadline
  {e \in Events : status[e] = "processing" /\ Gated(w, e) /\ ~Locked(e)}

(* _next_expired_claim                                                     *)
Expired(w) ==
  {e \in Events : /\ status[e] = "processing"
                  /\ claim_expires_at[e] <= 0
                  /\ Gated(w, e)
                  /\ ~Locked(e)}

ClaimedEventByStatus(w) == \* the completion forgets the claim id
  {e \in Events : e = event[w] /\ status[e] = "processing" /\ ~Locked(e)}

(* _claimed_event: the completion query finds the row only under the same  *)
(* claim, and only when nobody else has it locked.                         *)
ClaimedEvent(w) ==
  {e \in Events : /\ e = event[w]
                  /\ status[e] = "processing"
                  /\ claim_id[e] = held[w]
                  /\ ~Locked(e)}

-----------------------------------------------------------------------------
Init ==
  /\ status = [e \in Events |-> "absent"]
  /\ attempts = [e \in Events |-> 0]
  /\ recoveries = [e \in Events |-> 0]
  /\ available_at = [e \in Events |-> 0]
  /\ claim_id = [e \in Events |-> NoClaim]
  /\ claim_expires_at = [e \in Events |-> 0]
  /\ pc = [w \in Workers |-> "idle"]
  /\ event = [w \in Workers |-> NoEvent]
  /\ held = [w \in Workers |-> NoClaim]
  /\ left = [w \in Workers |-> 0]
  /\ writes_on = [w \in Workers |-> FALSE]
  /\ switch \in BOOLEAN
  /\ flips = 0
  /\ claims = [e \in Events |-> 0]
  /\ accepted = [e \in Events |-> {}]
  /\ refused = [e \in Events |-> {}]
  /\ faults = 0

(* A mutation commits with its event: the row appears, due at once.        *)
CreateOutboxEvent(e) ==
  /\ status[e] = "absent"
  /\ status' = [status EXCEPT ![e] = "pending"]
  /\ available_at' = [available_at EXCEPT ![e] = 0]
  /\ UNCHANGED <<attempts, recoveries, claim_id, claim_expires_at>>
  /\ UNCHANGED <<workerVars, switchVars, ghostVars>>

(* The scheduler starts a process, which reads its settings.  A claim      *)
(* timeout that does not exceed the publish timeout is ImproperlyConfigured.*)
StartRun(w) ==
  /\ pc[w] = "idle"
  /\ claim_timeout > PublishTimeout
  /\ pc' = [pc EXCEPT ![w] = "dispatch"]
  /\ left' = [left EXCEPT ![w] = limit]
  /\ writes_on' = [writes_on EXCEPT ![w] = switch]
  /\ UNCHANGED <<rowVars, event, held, switchVars, ghostVars>>

SelectNextEventUnlimited(w) == \* mutant: --limit is not tested
  /\ pc[w] = "dispatch"
  /\ \E e \in FirstBy(available_at, Claimable(w)) : event' = [event EXCEPT ![w] = e]
  /\ pc' = [pc EXCEPT ![w] = "claiming"]
  /\ left' = [left EXCEPT ![w] = @ - 1]
  /\ UNCHANGED <<rowVars, held, writes_on, switchVars, ghostVars>>

(* One turn of the dispatch loop: _claim_next_event selects and locks.     *)
SelectNextEvent(w) ==
  /\ pc[w] = "dispatch"
  /\ left[w] > 0
  /\ \E e \in FirstBy(available_at, Claimable(w)) : event' = [event EXCEPT ![w] = e]
  /\ pc' = [pc EXCEPT ![w] = "claiming"]
  /\ left' = [left EXCEPT ![w] = @ - 1]
  /\ UNCHANGED <<rowVars, held, writes_on, switchVars, ghostVars>>

SaveClaimReusingId(w) ==  \* mutant: the claim id is the row's, not a fresh one
  LET e == event[w] IN
  /\ pc[w] = "claiming"
  /\ status' = [status EXCEPT ![e] = "processing"]
  /\ claims' = [claims EXCEPT ![e] = @ + 1]
  /\ claim_id' = [claim_id EXCEPT ![e] = 1]
  /\ claim_expires_at' = [claim_expires_at EXCEPT ![e] = claim_timeout]
  /\ held' = [held EXCEPT ![w] = 1]
  /\ pc' = [pc EXCEPT ![w] = "publishing"]
  /\ UNCHANGED <<attempts, recoveries, available_at, event, left, writes_on>>
  /\ UNCHANGED <<switchVars, accepted, refused, faults>>

(* ... and saves the claim.                                                *)
SaveClaim(w) ==
  LET e == event[w] IN
  /\ pc[w] = "claiming"
  /\ status' = [status EXCEPT ![e] = "processing"]
  /\ claims' = [claims EXCEPT ![e] = @ + 1]
  /\ claim_id' = [claim_id EXCEPT ![e] = claims[e] + 1]
  /\ claim_expires_at' = [claim_expires_at EXCEPT ![e] = claim_timeout]
  /\ held' = [held EXCEPT ![w] = claims[e] + 1]
  /\ pc' = [pc EXCEPT ![w] = "publishing"]
  /\ UNCHANGED <<attempts, recoveries, available_at, event, left, writes_on>>
  /\ UNCHANGED <<switchVars, accepted, refused, faults>>

EndDispatchLoopForGood(w) == \* mutant: an idle run exits before recovery
  /\ pc[w] = "dispatch"
  /\ left[w] = 0 \/ Claimable(w) = {}
  /\ pc' = [pc EXCEPT ![w] = IF left[w] = limit THEN "idle" ELSE "recover"]
  /\ left' = [left EXCEPT ![w] = limit]
  /\ UNCHANGED <<rowVars, event, held, writes_on, switchVars, ghostVars>>

(* The loop is over: nothing claimable, or the limit is used up.           *)
EndDispatchLoop(w) ==
  /\ pc[w] = "dispatch"
  /\ left[w] = 0 \/ Claimable(w) = {}
  /\ pc' = [pc EXCEPT ![w] = "recover"]
  /\ left' = [left EXCEPT ![w] = limit]
  /\ UNCHANGED <<rowVars, event, held, writes_on, switchVars, ghostVars>>

-----------------------------------------------------------------------------
(* transport.publish, outside any transaction.  The destination takes the  *)
(* event and answers 2xx; or it does not take it and publish raises; or it *)
(* takes it and the answer is lost, so publish raises all the same.        *)
Accepts(w) ==
  accepted' = [accepted EXCEPT ![event[w]] = @ \union {held[w]}]
Raises(w) ==
  refused' = [refused EXCEPT ![event[w]] = @ \union {held[w]}]

PublishReturns(w) ==
  /\ pc[w] = "publishing"
  /\ Accepts(w)
  /\ pc' = [pc EXCEPT ![w] = "accepted"]
  /\ UNCHANGED <<rowVars, event, held, left, writes_on, switchVars, claims, refused, faults>>

PublishRaises(w) ==
  /\ pc[w] = "publishing"
  /\ Raises(w)
  /\ pc' = [pc EXCEPT ![w] = "raised"]
  /\ UNCHANGED <<rowVars, event, held, left, writes_on, switchVars, claims, accepted, faults>>

PublishAnswerLost(w) ==
  /\ pc[w] = "publishing"
  /\ faults < MaxFaults
  /\ Accepts(w)
  /\ Raises(w)
  /\ faults' = faults + 1
  /\ pc' = [pc EXCEPT ![w] = "raised"]
  /\ UNCHANGED <<rowVars, event, held, left, writes_on, switchVars, claims>>

-----------------------------------------------------------------------------
(* The completion transaction of _publish_claimed_event.                   *)
Release(w) ==
  /\ pc' = [pc EXCEPT ![w] = "dispatch"]
  /\ event' = [event EXCEPT ![w] = NoEvent]
  /\ held' = [held EXCEPT ![w] = NoClaim]

LockClaimedEventBlindly(w) == \* mutant: completes as published whatever publish did
  /\ pc[w] \in Answered
  /\ ClaimedEvent(w) # {}
  /\ pc' = [pc EXCEPT ![w] = "marking_published"]
  /\ UNCHANGED <<rowVars, event, held, left, writes_on, switchVars, ghostVars>>

LockClaimedEvent(w) ==
  /\ pc[w] \in Answered
  /\ ClaimedEvent(w) # {}
  /\ pc' = [pc EXCEPT ![w] = IF @ = "accepted" THEN "marking_published" ELSE "marking_failed"]
  /\ UNCHANGED <<rowVars, event, held, left, writes_on, switchVars, ghostVars>>

ClaimLostAsAttempt(w) ==  \* mutant: a stale worker counts its attempt all the same
  /\ pc[w] \in Answered
  /\ ClaimedEvent(w) = {}
  /\ attempts' = [attempts EXCEPT ![event[w]] = @ + 1]
  /\ Release(w)
  /\ UNCHANGED <<status, recoveries, available_at, claim_id, claim_expires_at>>
  /\ UNCHANGED <<left, writes_on, switchVars, ghostVars>>

(* outbox_claim_lost and outbox_delivered_but_claim_lost: log and go on.   *)
ClaimLost(w) ==
  /\ pc[w] \in Answered
  /\ ClaimedEvent(w) = {}
  /\ Release(w)
  /\ UNCHANGED <<rowVars, left, writes_on, switchVars, ghostVars>>

ClearClaim(e) ==
  /\ claim_id' = [claim_id EXCEPT ![e] = NoClaim]
  /\ claim_expires_at' = [claim_expires_at EXCEPT ![e] = 0]

MarkPublished(w) ==
  LET e == event[w] IN
  /\ pc[w] = "marking_published"
  /\ status' = [status EXCEPT ![e] = "published"]
  /\ attempts' = [attempts EXCEPT ![e] = @ + 1]
  /\ ClearClaim(e)
  /\ Release(w)
  /\ UNCHANGED <<recoveries, available_at, left, writes_on, switchVars, ghostVars>>

MarkFailedLate(w) ==      \* mutant: compares the attempts before this one
  LET e == event[w]
      exhausted == attempts[e] >= max_attempts
  IN
  /\ pc[w] = "marking_failed"
  /\ attempts' = [attempts EXCEPT ![e] = @ + 1]
  /\ status' = [status EXCEPT ![e] = IF exhausted THEN "dead_letter" ELSE "failed"]
  /\ available_at' =
       [available_at EXCEPT ![e] = IF exhausted THEN @ ELSE RetryDelay(attempts[e] + 1)]
  /\ ClearClaim(e)
  /\ Release(w)
  /\ UNCHANGED <<recoveries, left, writes_on, switchVars, ghostVars>>

(* The last attempt dead-letters the event and leaves available_at alone.  *)
MarkFailed(w) ==
  LET e == event[w]
      exhausted == attempts[e] + 1 >= max_attempts
  IN
  /\ pc[w] = "marking_failed"
  /\ attempts' = [attempts EXCEPT ![e] = @ + 1]
  /\ status' = [status EXCEPT ![e] = IF exhausted THEN "dead_letter" ELSE "failed"]
  /\ available_at' =
       [available_at EXCEPT ![e] = IF exhausted THEN @ ELSE RetryDelay(attempts[e] + 1)]
  /\ ClearClaim(e)
  /\ Release(w)
  /\ UNCHANGED <<recoveries, left, writes_on, switchVars, ghostVars>>

-----------------------------------------------------------------------------
(* _recover_expired_claims, after the dispatch loop.                       *)
SelectExpiredClaim(w) ==
  /\ pc[w] = "recover"
  /\ left[w] > 0
  /\ \E e \in FirstBy(claim_expires_at, Expired(w)) : event' = [event EXCEPT ![w] = e]
  /\ pc' = [pc EXCEPT ![w] = "recovering"]
  /\ left' = [left EXCEPT ![w] = @ - 1]
  /\ UNCHANGED <<rowVars, held, writes_on, switchVars, ghostVars>>

MarkRecoveredAsAttempt(w) == \* mutant: a recovery is counted as an attempt
  LET e == event[w] IN
  /\ pc[w] = "recovering"
  /\ attempts' = [attempts EXCEPT ![e] = @ + 1]
  /\ status' = [status EXCEPT ![e] = "pending"]
  /\ available_at' = [available_at EXCEPT ![e] = RetryDelay(attempts[e] + 1)]
  /\ ClearClaim(e)
  /\ pc' = [pc EXCEPT ![w] = "recover"]
  /\ event' = [event EXCEPT ![w] = NoEvent]
  /\ UNCHANGED <<recoveries, held, left, writes_on, switchVars, ghostVars>>

(* Back to pending, after a delay on the recoveries that is never shorter  *)
(* than the one the row earned by its attempts.                            *)
MarkRecovered(w) ==
  LET e == event[w] IN
  /\ pc[w] = "recovering"
  /\ recoveries' = [recoveries EXCEPT ![e] = @ + 1]
  /\ status' = [status EXCEPT ![e] = "pending"]
  /\ available_at' =
       [available_at EXCEPT
          ![e] = AtLeast(RetryDelay(attempts[e]), RetryDelay(recoveries[e] + 1))]
  /\ ClearClaim(e)
  /\ pc' = [pc EXCEPT ![w] = "recover"]
  /\ event' = [event EXCEPT ![w] = NoEvent]
  /\ UNCHANGED <<attempts, held, left, writes_on, switchVars, ghostVars>>

(* The heartbeat metric reads and the process exits.                       *)
EndRun(w) ==
  /\ pc[w] = "recover"
  /\ left[w] = 0 \/ Expired(w) = {}
  /\ pc' = [pc EXCEPT ![w] = "idle"]
  /\ left' = [left EXCEPT ![w] = 0]
  /\ writes_on' = [writes_on EXCEPT ![w] = FALSE]
  /\ UNCHANGED <<rowVars, event, held, switchVars, ghostVars>>

-----------------------------------------------------------------------------
(* The process dies (a signal, the machine, an error in a completion       *)
(* transaction): its transaction rolls back and its memory is gone.        *)
Crash(w) ==
  /\ pc[w] # "idle"
  /\ faults < MaxFaults
  /\ faults' = faults + 1
  /\ pc' = [pc EXCEPT ![w] = "idle"]
  /\ event' = [event EXCEPT ![w] = NoEvent]
  /\ held' = [held EXCEPT ![w] = NoClaim]
  /\ left' = [left EXCEPT ![w] = 0]
  /\ writes_on' = [writes_on EXCEPT ![w] = FALSE]
  /\ UNCHANGED <<rowVars, switchVars, claims, accepted, refused>>

(* Worker w still works under the row's current claim.                     *)
Holds(w, e) ==
  /\ pc[w] \in Holding /\ event[w] = e
  /\ status[e] = "processing" /\ claim_id[e] = held[w]

(* The rows whose live holder uses up, in this tick, the time the publish  *)
(* timeout grants it: each is a fault, an overrun.                         *)
Overrun ==
  {e \in Events : /\ claim_expires_at[e] = claim_timeout - PublishTimeout
                  /\ \E w \in Workers : Holds(w, e)}

Tick ==
  /\ faults + Cardinality(Overrun) <= MaxFaults
  /\ faults' = faults + Cardinality(Overrun)
  /\ available_at' = [e \in Events |-> AtLeast(-Horizon, available_at[e] - 1)]
  /\ claim_expires_at' =
       [e \in Events |-> IF status[e] = "processing"
                         THEN AtLeast(-Horizon, claim_expires_at[e] - 1)
                         ELSE claim_expires_at[e]]
  /\ UNCHANGED <<status, attempts, recoveries, claim_id>>
  /\ UNCHANGED <<workerVars, switchVars, claims, accepted, refused>>

(* A redeployment turns the kill-switch; running processes keep theirs.    *)
FlipSwitch ==
  /\ flips < MaxFlips
  /\ flips' = flips + 1
  /\ switch' = ~switch
  /\ UNCHANGED <<rowVars, workerVars, ghostVars>>

Publish(w) == PublishReturns(w) \/ PublishRaises(w) \/ PublishAnswerLost(w)

(* What a running process does of its own accord.                          *)
Run(w) ==
  \/ StartRun(w) \/ SelectNextEvent(w) \/ SaveClaim(w) \/ EndDispatchLoop(w)
  \/ Publish(w) \/ LockClaimedEvent(w) \/ ClaimLost(w)
  \/ MarkPublished(w) \/ MarkFailed(w)
  \/ SelectExpiredClaim(w) \/ MarkRecovered(w) \/ EndRun(w)

Next ==
  \/ \E e \in Events : CreateOutboxEvent(e)
  \/ \E w \in Workers : Run(w) \/ Crash(w)
  \/ Tick
  \/ FlipSwitch

Spec == Init /\ [][Next]_vars

(* The scheduler starts every process again and again, a running process   *)
(* keeps running, and time passes.  Nothing forces a crash, a redeployment *)
(* or a new event.                                                         *)
Fairness == WF_vars(Tick) /\ \A w \in Workers : WF_vars(Run(w))
FairSpec == Spec /\ Fairness

-----------------------------------------------------------------------------
RowsTyped ==
  /\ status \in [Events -> Statuses]
  /\ attempts \in [Events -> Nat]
  /\ recoveries \in [Events -> Nat]
  /\ available_at \in [Events -> Int]
  /\ claim_id \in [Events -> Nat]
  /\ claim_expires_at \in [Events -> Int]

WorkersTyped ==
  /\ pc \in [Workers -> Points]
  /\ event \in [Workers -> Events \union {NoEvent}]
  /\ held \in [Workers -> Nat]
  /\ left \in [Workers -> Nat]
  /\ writes_on \in [Workers -> BOOLEAN]

GhostsTyped ==
  /\ switch \in BOOLEAN
  /\ flips \in 0..MaxFlips
  /\ claims \in [Events -> Nat]
  /\ accepted \in [Events -> SUBSET Nat]
  /\ refused \in [Events -> SUBSET Nat]
  /\ faults \in 0..MaxFaults

(* Every variable stays in its domain; in particular the fault and flip    *)
(* budgets are never overdrawn.                                            *)
TypeOK == RowsTyped /\ WorkersTyped /\ GhostsTyped

(* Every claim a row ever had ended exactly once, as an attempt or as a    *)
(* recovery, except the one it is processing under: nothing a stale worker *)
(* does is counted, nothing is counted twice (docs/events.md: "Recovery    *)
(* bumps recoveries, never attempts").                                     *)
ClaimsAccounted ==
  \A e \in Events :
    claims[e] = attempts[e] + recoveries[e] + (IF status[e] = "processing" THEN 1 ELSE 0)

(* A row in the hands of a worker that still owns it is under its newest   *)
(* claim, and two workers never own the same row: whatever was stolen,     *)
(* recovered and claimed again, at most one of them can complete it.       *)
OneOwner ==
  \A e \in Events, v, w \in Workers : Holds(v, e) /\ Holds(w, e) => v = w

(* Two transactions never have the same row locked, and a lock is on a row *)
(* in the state its query selected: the save that follows overwrites       *)
(* nothing that another worker committed in between.                       *)
LockedRowIsStable ==
  \A w \in Workers : pc[w] \in InTransaction =>
    /\ \A v \in Workers \ {w} : pc[v] \in InTransaction => event[v] # event[w]
    /\ pc[w] = "claiming" => status[event[w]] \in {"pending", "failed"}
    /\ pc[w] = "recovering" => status[event[w]] = "processing"
    /\ pc[w] \in {"marking_published", "marking_failed"} => Holds(w, event[w])

(* A published event reached its destination (at-least-once delivery).     *)
PublishedWasAccepted ==
  \A e \in Events : status[e] = "published" => accepted[e] # {}

(* A dead-lettered event was refused max_attempts times: no recovery and   *)
(* no stolen claim is held against it.                                     *)
DeadLetterWasRefused ==
  \A e \in Events : status[e] = "dead_letter" =>
    attempts[e] = max_attempts /\ Cardinality(refused[e]) >= max_attempts

(* The destination sees an event twice only after something went wrong: a  *)
(* crash, a lost answer, or a worker that outlived its publish timeout.    *)
(* The check that claim_timeout exceeds the transport's timeout is what    *)
(* keeps a healthy worker from losing its claim.                           *)
DuplicatesNeedFaults ==
  \A e \in Events : Cardinality(accepted[e]) <= 1 + faults

(* A claim ends only by its own holder's completion, or by the recovery of *)
(* a claim that had expired: a worker whose claim was stolen never changes *)
(* the row (tests/events/test_outbox_claim_races.py).                      *)
ClaimEndsRightfully ==
  \A e \in Events :
    status[e] = "processing" /\ claim_id'[e] # claim_id[e] =>
      \/ /\ status'[e] \in {"published", "failed", "dead_letter"}
         /\ \E w \in Workers : Holds(w, e) /\ pc'[w] = "dispatch" /\ held'[w] # held[w]
      \/ status'[e] = "pending" /\ claim_expires_at[e] <= 0
StaleWorkerIsInert == [][ClaimEndsRightfully]_vars

(* published and dead_letter are terminal.                                 *)
SettledIsFinal ==
  [][\A e \in Events :
       Settled(e) => status'[e] = status[e] /\ attempts'[e] = attempts[e]]_vars

(* Once the kill-switch is off and every process that booted before is     *)
(* gone, the dispatcher leaves namespaced rows alone: it neither claims    *)
(* them, nor publishes them, nor recovers them.                            *)
Drained == ~switch /\ \A w \in Workers : ~writes_on[w]
NamespacedRowsRest ==
  \A e \in Namespaced :
    /\ status[e] # "absent" => status'[e] = status[e]
    /\ accepted'[e] = accepted[e]
PausedOnceDrained == [][Drained => NamespacedRowsRest]_vars

(* The promise to the consumer.                                            *)
Phase(s) ==
  CASE s = "absent"               -> "unrecorded"
    [] s \in {"pending", "failed"} -> "waiting"
    [] s = "processing"           -> "taken"
    [] s = "published"            -> "delivered"
    [] s = "dead_letter"          -> "abandoned"

Delivery == INSTANCE OutboxDelivery WITH
  Items <- Events, MaxTries <- max_attempts,
  phase <- [e \in Events |-> Phase(status[e])],
  takings <- claims, tries <- attempts, reached <- accepted, rejected <- refused

KeepsDeliveryPromise == Delivery!DSpec

(* Every event is settled in the end when failed rows are retried: a       *)
(* global one whatever the kill-switch does, a namespaced one if writes    *)
(* stay enabled from some time on.                                         *)
EventuallySettled ==
  \A e \in Events :
    <>[](e \in Namespaced => switch) => (status[e] = "pending" ~> Settled(e))
=============================================================================
