------------------------- MODULE OutboxDispatchProofs -------------------------
(***************************************************************************)
(* Theorems about the outbox dispatcher, for any number of rows, workers,  *)
(* attempts, faults and redeployments and any timeouts.                    *)
(***************************************************************************)
EXTENDS OutboxDispatch, FiniteSetTheorems, TLAPS

-----------------------------------------------------------------------------
(* The clamped parameters are what the code takes them for.                *)
LEMMA Parameters ==
  /\ limit \in Nat
  /\ max_attempts \in Nat \ {0}
  /\ retry_base \in Nat \ {0}
  /\ retry_max \in Nat \ {0}
  /\ claim_timeout \in Nat \ {0}
  BY ConstantsAssumption
     DEF limit, max_attempts, retry_base, retry_max, claim_timeout, AtLeast

(* A retry delay is a natural number of ticks, and never exceeds retry_max.*)
LEMMA RetryDelayBounded ==
  ASSUME NEW n \in Nat
  PROVE  RetryDelay(n) \in Nat /\ RetryDelay(n) <= retry_max
  <1>1. AtLeast(0, n - 1) \in Nat
    BY DEF AtLeast
  <1>2. CASE AtLeast(0, n - 1) > retry_max
    BY <1>2, Parameters DEF RetryDelay
  <1>3. CASE ~(AtLeast(0, n - 1) > retry_max)
    <2>1. AtLeast(0, n - 1) \in 0..retry_max
      BY <1>1, <1>3, Parameters
    <2>2. 2^AtLeast(0, n - 1) \in Nat
      BY <2>1, PowersAssumption
    <2>3. retry_base * 2^AtLeast(0, n - 1) \in Nat
      BY <2>2, Parameters
    <2> HIDE DEF AtLeast
    <2>4. QED
      BY <2>3, <1>3, Parameters DEF RetryDelay
  <1>4. QED
    BY <1>2, <1>3

LEMMA AtLeastInt ==
  ASSUME NEW b \in Int, NEW x \in Int
  PROVE  AtLeast(b, x) \in Int /\ AtLeast(b, x) >= b /\ AtLeast(b, x) >= x
  BY DEF AtLeast

(* Finitely many rows can overrun in one tick.                             *)
LEMMA OverrunCount == Cardinality(Overrun) \in Nat
  <1>1. IsFiniteSet(Overrun)
    BY ConstantsAssumption, FS_Subset DEF Overrun
  <1>2. QED
    BY <1>1, FS_CardinalityType

(* A worker that is about to act on a row has a row in hand.               *)
InHand ==
  \A w \in Workers : pc[w] \in InTransaction \union Holding => event[w] \in Events

-----------------------------------------------------------------------------
(* Type correctness needs InHand (a NoEvent has no column to update), so   *)
(* the two are shown together.                                             *)
Typed == TypeOK /\ InHand

LEMMA TypedInit == Init => Typed
  BY ConstantsAssumption
     DEF Init, Typed, TypeOK, RowsTyped, WorkersTyped, GhostsTyped, InHand, Statuses, Points, InTransaction, Holding, Answered, NoClaim

LEMMA HandOf ==
  ASSUME Typed, NEW w \in Workers, pc[w] \in InTransaction \union Holding
  PROVE  event[w] \in Events
  BY DEF Typed, InHand

LEMMA TypedStep == Typed /\ [Next]_vars => Typed'
  <1> SUFFICES ASSUME Typed, [Next]_vars PROVE Typed'
    OBVIOUS
  <1> USE DEF Statuses, Points, InTransaction, Holding, Answered,
              NoClaim, rowVars, workerVars, switchVars, ghostVars
  <1>a. RowsTyped /\ WorkersTyped /\ GhostsTyped /\ InHand
    BY DEF Typed, TypeOK
  <1> SUFFICES RowsTyped' /\ WorkersTyped' /\ GhostsTyped' /\ InHand'
    BY DEF Typed, TypeOK
  <1>1. ASSUME NEW e \in Events, CreateOutboxEvent(e)
        PROVE  RowsTyped' /\ WorkersTyped' /\ GhostsTyped' /\ InHand'
    BY <1>a, <1>1 DEF CreateOutboxEvent, RowsTyped, WorkersTyped, GhostsTyped, InHand
  <1>2. ASSUME NEW w \in Workers, StartRun(w)
        PROVE  RowsTyped' /\ WorkersTyped' /\ GhostsTyped' /\ InHand'
    BY <1>a, <1>2, Parameters DEF StartRun, RowsTyped, WorkersTyped, GhostsTyped, InHand
  <1>3. ASSUME NEW w \in Workers, SelectNextEvent(w)
        PROVE  RowsTyped' /\ WorkersTyped' /\ GhostsTyped' /\ InHand'
    BY <1>a, <1>3
       DEF SelectNextEvent, FirstBy, Claimable, RowsTyped, WorkersTyped, GhostsTyped, InHand
  <1>4. ASSUME NEW w \in Workers, SaveClaim(w)
        PROVE  RowsTyped' /\ WorkersTyped' /\ GhostsTyped' /\ InHand'
    <2>1. event[w] \in Events
      BY <1>4, HandOf DEF SaveClaim
    <2>2. claims[event[w]] + 1 \in Nat /\ claim_timeout \in Int
      BY <1>a, <2>1, Parameters DEF GhostsTyped
    <2>3. RowsTyped'
      BY <1>a, <1>4, <2>1, <2>2 DEF SaveClaim, RowsTyped
    <2>4. WorkersTyped' /\ InHand'
      BY <1>a, <1>4, <2>1, <2>2 DEF SaveClaim, WorkersTyped, InHand
    <2>5. GhostsTyped'
      BY <1>a, <1>4, <2>1, <2>2 DEF SaveClaim, GhostsTyped
    <2>6. QED
      BY <2>3, <2>4, <2>5
  <1>5. ASSUME NEW w \in Workers, EndDispatchLoop(w)
        PROVE  RowsTyped' /\ WorkersTyped' /\ GhostsTyped' /\ InHand'
    BY <1>a, <1>5, Parameters DEF EndDispatchLoop, RowsTyped, WorkersTyped, GhostsTyped, InHand
  <1>6. ASSUME NEW w \in Workers, Publish(w)
        PROVE  RowsTyped' /\ WorkersTyped' /\ GhostsTyped' /\ InHand'
    <2>1. event[w] \in Events
      BY <1>6, HandOf DEF Publish, PublishReturns, PublishRaises, PublishAnswerLost
    <2>2. held[w] \in Nat
      BY <1>a DEF WorkersTyped
    <2>3. RowsTyped'
      BY <1>a, <1>6
      DEF Publish, PublishReturns, PublishRaises, PublishAnswerLost, RowsTyped
    <2>4. WorkersTyped' /\ InHand'
      BY <1>a, <1>6, <2>1
      DEF Publish, PublishReturns, PublishRaises, PublishAnswerLost, WorkersTyped, InHand
    <2>5. faults' \in 0..MaxFaults
      BY <1>a, <1>6, ConstantsAssumption
      DEF Publish, PublishReturns, PublishRaises, PublishAnswerLost, GhostsTyped
    <2>6. accepted' \in [Events -> SUBSET Nat]
      BY <1>a, <1>6, <2>1, <2>2
      DEF Publish, PublishReturns, PublishRaises, PublishAnswerLost, GhostsTyped, Accepts
    <2>7. refused' \in [Events -> SUBSET Nat]
      BY <1>a, <1>6, <2>1, <2>2
      DEF Publish, PublishReturns, PublishRaises, PublishAnswerLost, GhostsTyped, Raises
    <2>8. GhostsTyped'
      BY <1>a, <1>6, <2>5, <2>6, <2>7
      DEF Publish, PublishReturns, PublishRaises, PublishAnswerLost, GhostsTyped
    <2>9. QED
      BY <2>3, <2>4, <2>8
  <1>7. ASSUME NEW w \in Workers, LockClaimedEvent(w)
        PROVE  RowsTyped' /\ WorkersTyped' /\ GhostsTyped' /\ InHand'
    BY <1>a, <1>7 DEF LockClaimedEvent, RowsTyped, WorkersTyped, GhostsTyped, InHand
  <1>8. ASSUME NEW w \in Workers, ClaimLost(w)
        PROVE  RowsTyped' /\ WorkersTyped' /\ GhostsTyped' /\ InHand'
    BY <1>a, <1>8 DEF ClaimLost, Release, RowsTyped, WorkersTyped, GhostsTyped, InHand
  <1>9. ASSUME NEW w \in Workers, MarkPublished(w)
        PROVE  RowsTyped' /\ WorkersTyped' /\ GhostsTyped' /\ InHand'
    <2>1. event[w] \in Events
      BY <1>9, HandOf DEF MarkPublished
    <2>2. attempts[event[w]] + 1 \in Nat
      BY <1>a, <2>1 DEF RowsTyped
    <2>3. RowsTyped'
      BY <1>a, <1>9, <2>1, <2>2 DEF MarkPublished, ClearClaim, RowsTyped
    <2>4. WorkersTyped' /\ InHand' /\ GhostsTyped'
      BY <1>a, <1>9, <2>1 DEF MarkPublished, Release, WorkersTyped, InHand, GhostsTyped
    <2>5. QED
      BY <2>3, <2>4
  <1>10. ASSUME NEW w \in Workers, MarkFailed(w)
         PROVE  RowsTyped' /\ WorkersTyped' /\ GhostsTyped' /\ InHand'
    <2>1. event[w] \in Events
      BY <1>10, HandOf DEF MarkFailed
    <2>2. attempts[event[w]] + 1 \in Nat /\ available_at[event[w]] \in Int
      BY <1>a, <2>1 DEF RowsTyped
    <2>3. RetryDelay(attempts[event[w]] + 1) \in Int
      BY <2>2, RetryDelayBounded
    <2>4. RowsTyped'
      BY <1>a, <1>10, <2>1, <2>2, <2>3 DEF MarkFailed, ClearClaim, RowsTyped
    <2>5. WorkersTyped' /\ InHand' /\ GhostsTyped'
      BY <1>a, <1>10, <2>1 DEF MarkFailed, Release, WorkersTyped, InHand, GhostsTyped
    <2>6. QED
      BY <2>4, <2>5
  <1>11. ASSUME NEW w \in Workers, SelectExpiredClaim(w)
         PROVE  RowsTyped' /\ WorkersTyped' /\ GhostsTyped' /\ InHand'
    BY <1>a, <1>11
       DEF SelectExpiredClaim, FirstBy, Expired, RowsTyped, WorkersTyped, GhostsTyped, InHand
  <1>12. ASSUME NEW w \in Workers, MarkRecovered(w)
         PROVE  RowsTyped' /\ WorkersTyped' /\ GhostsTyped' /\ InHand'
    <2>1. event[w] \in Events
      BY <1>12, HandOf DEF MarkRecovered
    <2>2. attempts[event[w]] \in Nat /\ recoveries[event[w]] + 1 \in Nat
      BY <1>a, <2>1 DEF RowsTyped
    <2>3. /\ RetryDelay(attempts[event[w]]) \in Int
          /\ RetryDelay(recoveries[event[w]] + 1) \in Int
      BY <2>2, RetryDelayBounded
    <2>4. AtLeast(RetryDelay(attempts[event[w]]), RetryDelay(recoveries[event[w]] + 1)) \in Int
      BY <2>3, AtLeastInt
    <2>5. RowsTyped'
      BY <1>a, <1>12, <2>1, <2>2, <2>4 DEF MarkRecovered, ClearClaim, RowsTyped
    <2>6. WorkersTyped' /\ InHand' /\ GhostsTyped'
      BY <1>a, <1>12 DEF MarkRecovered, WorkersTyped, InHand, GhostsTyped
    <2>7. QED
      BY <2>5, <2>6
  <1>13. ASSUME NEW w \in Workers, EndRun(w)
         PROVE  RowsTyped' /\ WorkersTyped' /\ GhostsTyped' /\ InHand'
    BY <1>a, <1>13 DEF EndRun, RowsTyped, WorkersTyped, GhostsTyped, InHand
  <1>14. ASSUME NEW w \in Workers, Crash(w)
         PROVE  RowsTyped' /\ WorkersTyped' /\ GhostsTyped' /\ InHand'
    BY <1>a, <1>14, ConstantsAssumption
       DEF Crash, RowsTyped, WorkersTyped, GhostsTyped, InHand
  <1>15. ASSUME Tick
         PROVE  RowsTyped' /\ WorkersTyped' /\ GhostsTyped' /\ InHand'
    <2>1. GhostsTyped'
      BY <1>a, <1>15, OverrunCount, ConstantsAssumption DEF Tick, GhostsTyped
    <2>2. \A e \in Events : /\ AtLeast(-Horizon, available_at[e] - 1) \in Int
                            /\ AtLeast(-Horizon, claim_expires_at[e] - 1) \in Int
      <3>1. -Horizon \in Int
        BY ConstantsAssumption
      <3>2. TAKE e \in Events
      <3>3. available_at[e] - 1 \in Int /\ claim_expires_at[e] - 1 \in Int
        BY <1>a DEF RowsTyped
      <3>4. QED
        BY <3>1, <3>3, AtLeastInt
    <2>3. RowsTyped'
      BY <1>a, <1>15, <2>2 DEF Tick, RowsTyped
    <2>4. WorkersTyped' /\ InHand'
      BY <1>a, <1>15 DEF Tick, WorkersTyped, InHand
    <2>5. QED
      BY <2>1, <2>3, <2>4
  <1>16. ASSUME FlipSwitch
         PROVE  RowsTyped' /\ WorkersTyped' /\ GhostsTyped' /\ InHand'
    BY <1>a, <1>16, ConstantsAssumption
       DEF FlipSwitch, RowsTyped, WorkersTyped, GhostsTyped, InHand
  <1>17. ASSUME UNCHANGED vars
         PROVE  RowsTyped' /\ WorkersTyped' /\ GhostsTyped' /\ InHand'
    BY <1>a, <1>17 DEF vars, RowsTyped, WorkersTyped, GhostsTyped, InHand
  <1>18. QED
    BY <1>1, <1>2, <1>3, <1>4, <1>5, <1>6, <1>7, <1>8, <1>9, <1>10, <1>11, <1>12, <1>13,
       <1>14, <1>15, <1>16, <1>17
    DEF Next, Run

(* Every variable stays in its domain, whatever the workers, the clock and *)
(* the operator do.                                                        *)
THEOREM TypeCorrect == Spec => []TypeOK
  <1>1. Spec => []Typed
    BY TypedInit, TypedStep, PTL DEF Spec
  <1>2. QED
    BY <1>1, PTL DEF Typed

-----------------------------------------------------------------------------
(* Who owns a row.  The inductive invariant: row locks are exclusive and   *)
(* the locked row is still as it was selected; a processing row is under   *)
(* its newest claim and any other row under none; a worker at work holds a *)
(* claim its row really had, and no two workers hold the same one.         *)
CurrentClaim ==
  \A e \in Events : IF status[e] = "processing"
                    THEN claims[e] > 0 /\ claim_id[e] = claims[e]
                    ELSE claim_id[e] = NoClaim

HeldIssued ==
  \A w \in Workers : pc[w] \in Holding => held[w] \in 1..claims[event[w]]

DistinctHeld ==
  \A v, w \in Workers :
    pc[v] \in Holding /\ pc[w] \in Holding /\ event[v] = event[w] /\ held[v] = held[w] => v = w

LockExclusive ==
  \A v, w \in Workers :
    pc[v] \in InTransaction /\ pc[w] \in InTransaction /\ event[v] = event[w] => v = w

LockedAsSelected ==
  \A w \in Workers :
    /\ pc[w] = "claiming" => status[event[w]] \in {"pending", "failed"}
    /\ pc[w] = "recovering" => status[event[w]] = "processing"
    /\ pc[w] \in {"marking_published", "marking_failed"} =>
         status[event[w]] = "processing" /\ claim_id[event[w]] = held[w]

Owned == CurrentClaim /\ HeldIssued /\ DistinctHeld /\ LockExclusive /\ LockedAsSelected

LEMMA OwnedInit == Init => Owned
  BY DEF Init, Owned, CurrentClaim, HeldIssued, DistinctHeld, LockExclusive, LockedAsSelected,
         InTransaction, Holding, Answered, NoClaim

LEMMA OwnedStep == Typed /\ Owned /\ [Next]_vars => Owned'
  <1> SUFFICES ASSUME Typed, Owned, [Next]_vars PROVE Owned'
    OBVIOUS
  <1> USE DEF InTransaction, Holding, Answered, NoClaim
  <1>a. RowsTyped /\ WorkersTyped /\ claims \in [Events -> Nat] /\ InHand
    BY DEF Typed, TypeOK, GhostsTyped
  <1>b. CurrentClaim /\ HeldIssued /\ DistinctHeld /\ LockExclusive /\ LockedAsSelected
    BY DEF Owned
  <1> USE DEF rowVars, workerVars, switchVars, ghostVars
  <1>1. ASSUME NEW e \in Events, CreateOutboxEvent(e) PROVE Owned'
    BY <1>a, <1>b, <1>1
       DEF CreateOutboxEvent, Owned, CurrentClaim, HeldIssued, DistinctHeld, LockExclusive,
           LockedAsSelected, RowsTyped, InHand
  <1>2. ASSUME NEW w \in Workers, StartRun(w) \/ EndDispatchLoop(w) \/ EndRun(w) PROVE Owned'
    BY <1>a, <1>b, <1>2
       DEF StartRun, EndDispatchLoop, EndRun, Owned, CurrentClaim, HeldIssued, DistinctHeld,
           LockExclusive, LockedAsSelected, WorkersTyped
  <1>3. ASSUME NEW w \in Workers, SelectNextEvent(w) PROVE Owned'
    <2>1. PICK e \in Claimable(w) : event' = [event EXCEPT ![w] = e]
      BY <1>3 DEF SelectNextEvent, FirstBy
    <2>2. e \in Events /\ status[e] \in {"pending", "failed"} /\ ~Locked(e)
      BY <2>1 DEF Claimable
    <2>3. pc' = [pc EXCEPT ![w] = "claiming"] /\ UNCHANGED <<rowVars, held, claims>>
      BY <1>3 DEF SelectNextEvent
    <2>4. CurrentClaim' /\ HeldIssued' /\ DistinctHeld'
      BY <1>a, <1>b, <2>1, <2>3 DEF CurrentClaim, HeldIssued, DistinctHeld, WorkersTyped
    <2>5. LockExclusive'
      BY <1>a, <1>b, <2>1, <2>2, <2>3 DEF LockExclusive, Locked, WorkersTyped
    <2>6. LockedAsSelected'
      BY <1>a, <1>b, <2>1, <2>2, <2>3 DEF LockedAsSelected, WorkersTyped
    <2>7. QED
      BY <2>4, <2>5, <2>6 DEF Owned
  <1>4. ASSUME NEW w \in Workers, SaveClaim(w) PROVE Owned'
    <2>1. event[w] \in Events /\ pc[w] = "claiming"
      BY <1>4, HandOf DEF SaveClaim
    <2>2. claims[event[w]] \in Nat
      BY <1>a, <2>1
    <2>3. CurrentClaim'
      BY <1>a, <1>b, <1>4, <2>1, <2>2 DEF SaveClaim, CurrentClaim, RowsTyped
    <2>4. HeldIssued'
      BY <1>a, <1>b, <1>4, <2>1, <2>2 DEF SaveClaim, HeldIssued, WorkersTyped, InHand
    <2>5. DistinctHeld'
      BY <1>a, <1>b, <1>4, <2>1, <2>2 DEF SaveClaim, DistinctHeld, HeldIssued, WorkersTyped
    <2>6. LockExclusive'
      BY <1>a, <1>b, <1>4, <2>1 DEF SaveClaim, LockExclusive, WorkersTyped
    <2>7. LockedAsSelected'
      BY <1>a, <1>b, <1>4, <2>1
         DEF SaveClaim, LockedAsSelected, LockExclusive, WorkersTyped, RowsTyped, InHand
    <2>8. QED
      BY <2>3, <2>4, <2>5, <2>6, <2>7 DEF Owned
  <1>5. ASSUME NEW w \in Workers, Publish(w) PROVE Owned'
    BY <1>a, <1>b, <1>5
       DEF Publish, PublishReturns, PublishRaises, PublishAnswerLost, Owned, CurrentClaim,
           HeldIssued, DistinctHeld, LockExclusive, LockedAsSelected, WorkersTyped
  <1>6. ASSUME NEW w \in Workers, LockClaimedEvent(w) PROVE Owned'
    <2>1. status[event[w]] = "processing" /\ claim_id[event[w]] = held[w] /\ ~Locked(event[w])
      BY <1>6 DEF LockClaimedEvent, ClaimedEvent
    <2>2. /\ pc[w] \in Answered
          /\ pc'[w] \in {"marking_published", "marking_failed"}
          /\ \A v \in Workers \ {w} : pc'[v] = pc[v]
          /\ UNCHANGED <<rowVars, event, held, claims>>
      BY <1>6, <1>a DEF LockClaimedEvent, WorkersTyped
    <2>3. CurrentClaim' /\ HeldIssued' /\ DistinctHeld'
      BY <1>a, <1>b, <2>2 DEF CurrentClaim, HeldIssued, DistinctHeld, WorkersTyped
    <2>4. LockExclusive'
      BY <1>a, <1>b, <2>1, <2>2 DEF LockExclusive, Locked, WorkersTyped
    <2>5. LockedAsSelected'
      BY <1>a, <1>b, <2>1, <2>2 DEF LockedAsSelected, WorkersTyped
    <2>6. QED
      BY <2>3, <2>4, <2>5 DEF Owned
  <1>7. ASSUME NEW w \in Workers, ClaimLost(w) \/ Crash(w) PROVE Owned'
    <2>1. /\ pc'[w] \in {"idle", "dispatch"}
          /\ \A v \in Workers \ {w} : pc'[v] = pc[v] /\ event'[v] = event[v] /\ held'[v] = held[v]
          /\ UNCHANGED <<rowVars, claims>>
      BY <1>a, <1>7 DEF ClaimLost, Crash, Release, WorkersTyped
    <2>2. QED
      BY <1>a, <1>b, <2>1
         DEF Owned, CurrentClaim, HeldIssued, DistinctHeld, LockExclusive, LockedAsSelected
  <1>8. ASSUME NEW w \in Workers, MarkPublished(w) \/ MarkFailed(w) \/ MarkRecovered(w)
        PROVE Owned'
    <2>1. event[w] \in Events /\ pc[w] \in InTransaction
      BY <1>8, HandOf DEF MarkPublished, MarkFailed, MarkRecovered
    <2>2. /\ pc'[w] \in {"dispatch", "recover"}
          /\ \A v \in Workers \ {w} : pc'[v] = pc[v] /\ event'[v] = event[v] /\ held'[v] = held[v]
          /\ UNCHANGED claims
      BY <1>a, <1>8 DEF MarkPublished, MarkFailed, MarkRecovered, Release, WorkersTyped
    <2>3. /\ status'[event[w]] # "processing" /\ claim_id'[event[w]] = NoClaim
          /\ \A e \in Events \ {event[w]} : status'[e] = status[e] /\ claim_id'[e] = claim_id[e]
      BY <1>a, <1>8, <2>1 DEF MarkPublished, MarkFailed, MarkRecovered, ClearClaim, RowsTyped
    <2>4. CurrentClaim'
      BY <1>b, <2>2, <2>3 DEF CurrentClaim
    <2>5. HeldIssued' /\ DistinctHeld' /\ LockExclusive'
      BY <1>b, <2>2 DEF HeldIssued, DistinctHeld, LockExclusive
    <2>6. LockedAsSelected'
      BY <1>a, <1>b, <2>1, <2>2, <2>3 DEF LockedAsSelected, LockExclusive, InHand
    <2>7. QED
      BY <2>4, <2>5, <2>6 DEF Owned
  <1>9. ASSUME NEW w \in Workers, SelectExpiredClaim(w) PROVE Owned'
    <2>1. PICK e \in Expired(w) : event' = [event EXCEPT ![w] = e]
      BY <1>9 DEF SelectExpiredClaim, FirstBy
    <2>2. e \in Events /\ status[e] = "processing" /\ ~Locked(e)
      BY <2>1 DEF Expired
    <2>3. pc' = [pc EXCEPT ![w] = "recovering"] /\ UNCHANGED <<rowVars, held, claims>>
      BY <1>9 DEF SelectExpiredClaim
    <2>4. CurrentClaim' /\ HeldIssued' /\ DistinctHeld'
      BY <1>a, <1>b, <2>1, <2>3 DEF CurrentClaim, HeldIssued, DistinctHeld, WorkersTyped
    <2>5. LockExclusive'
      BY <1>a, <1>b, <2>1, <2>2, <2>3 DEF LockExclusive, Locked, WorkersTyped
    <2>6. LockedAsSelected'
      BY <1>a, <1>b, <2>1, <2>2, <2>3 DEF LockedAsSelected, WorkersTyped
    <2>7. QED
      BY <2>4, <2>5, <2>6 DEF Owned
  <1>10. ASSUME Tick \/ FlipSwitch \/ UNCHANGED vars PROVE Owned'
    BY <1>b, <1>10
       DEF Tick, FlipSwitch, vars, Owned, CurrentClaim, HeldIssued, DistinctHeld, LockExclusive,
           LockedAsSelected
  <1>11. QED
    BY <1>1, <1>2, <1>3, <1>4, <1>5, <1>6, <1>7, <1>8, <1>9, <1>10 DEF Next, Run

LEMMA AlwaysOwned == Spec => [](Typed /\ Owned)
  BY TypedInit, TypedStep, OwnedInit, OwnedStep, PTL DEF Spec

(* Two workers never own the same row.                                     *)
THEOREM ExclusiveOwnership == Spec => []OneOwner
  <1>1. Typed /\ Owned => OneOwner
    BY DEF Owned, DistinctHeld, OneOwner, Holds
  <1>2. QED
    BY <1>1, AlwaysOwned, PTL

(* A locked row is still as it was when its transaction selected it.       *)
THEOREM LocksProtectRows == Spec => []LockedRowIsStable
  <1>1. Typed /\ Owned => LockedRowIsStable
    BY DEF Typed, InHand, Owned, LockExclusive, LockedAsSelected, LockedRowIsStable, Holds,
           InTransaction, Holding, Answered
  <1>2. QED
    BY <1>1, AlwaysOwned, PTL

-----------------------------------------------------------------------------
(* What a worker remembers of its publish call is what happened, and only  *)
(* claims that were made have answers.                                     *)
Remembered ==
  \A w \in Workers :
    /\ pc[w] = "publishing" => held[w] \notin accepted[event[w]] \union refused[event[w]]
    /\ pc[w] \in {"accepted", "marking_published"} =>
         held[w] \in accepted[event[w]] \ refused[event[w]]
    /\ pc[w] \in {"raised", "marking_failed"} => held[w] \in refused[event[w]]

AnswersIssued ==
  \A e \in Events : accepted[e] \union refused[e] \subseteq 1..claims[e]

Answering == Remembered /\ AnswersIssued

LEMMA AnsweringInit == Init => Answering
  BY DEF Init, Answering, Remembered, AnswersIssued

LEMMA AnsweringStep == Typed /\ Owned /\ Answering /\ [Next]_vars => Answering'
  <1> SUFFICES ASSUME Typed, Owned, Answering, [Next]_vars PROVE Answering'
    OBVIOUS
  <1> USE DEF rowVars, workerVars, switchVars, ghostVars
  <1>a. RowsTyped /\ WorkersTyped /\ GhostsTyped /\ InHand
    BY DEF Typed, TypeOK
  <1>b. HeldIssued /\ DistinctHeld /\ Remembered /\ AnswersIssued
    BY DEF Owned, Answering
  <1>1. ASSUME NEW w \in Workers, SaveClaim(w) PROVE Answering'
    <2>1. event[w] \in Events /\ claims[event[w]] \in Nat
      BY <1>1, <1>a, HandOf DEF SaveClaim, InTransaction, GhostsTyped
    <2>2. /\ claims' = [claims EXCEPT ![event[w]] = @ + 1]
          /\ held' = [held EXCEPT ![w] = claims[event[w]] + 1]
          /\ pc' = [pc EXCEPT ![w] = "publishing"]
          /\ UNCHANGED <<event, accepted, refused>>
      BY <1>1 DEF SaveClaim
    <2>3. claims[event[w]] + 1 \notin accepted[event[w]] \union refused[event[w]]
      BY <1>b, <2>1 DEF AnswersIssued
    <2>4. Remembered'
      BY <1>a, <1>b, <2>1, <2>2, <2>3 DEF Remembered, WorkersTyped
    <2>5. AnswersIssued'
      BY <1>a, <1>b, <2>1, <2>2 DEF AnswersIssued, GhostsTyped
    <2>6. QED
      BY <2>4, <2>5 DEF Answering
  <1>2. ASSUME NEW w \in Workers, Publish(w) PROVE Answering'
    <2>1. event[w] \in Events /\ held[w] \in 1..claims[event[w]] /\ pc[w] = "publishing"
      BY <1>2, <1>b, HandOf
         DEF Publish, PublishReturns, PublishRaises, PublishAnswerLost, Holding, HeldIssued
    <2>2. UNCHANGED <<event, held, claims>>
      BY <1>2 DEF Publish, PublishReturns, PublishRaises, PublishAnswerLost
    <2>3. held[w] \notin accepted[event[w]] \union refused[event[w]]
      BY <1>b, <2>1 DEF Remembered
    <2>4. \A v \in Workers \ {w} :
            /\ pc'[v] = pc[v]
            /\ pc[v] \in Holding /\ event[v] = event[w] => held[v] # held[w]
      BY <1>a, <1>b, <1>2, <2>1
         DEF Publish, PublishReturns, PublishRaises, PublishAnswerLost, WorkersTyped,
             DistinctHeld, Holding
    <2>5. /\ \A e \in Events : /\ accepted'[e] \in {accepted[e], accepted[e] \union {held[w]}}
                               /\ refused'[e] \in {refused[e], refused[e] \union {held[w]}}
          /\ \A e \in Events \ {event[w]} : accepted'[e] = accepted[e] /\ refused'[e] = refused[e]
      BY <1>a, <1>2, <2>1
         DEF Publish, PublishReturns, PublishRaises, PublishAnswerLost, Accepts, Raises, GhostsTyped
    <2>6. AnswersIssued'
      BY <1>b, <2>1, <2>2, <2>5 DEF AnswersIssued
    <2>7. \/ /\ pc'[w] = "accepted"
             /\ held[w] \in accepted'[event[w]] \ refused'[event[w]]
          \/ pc'[w] = "raised" /\ held[w] \in refused'[event[w]]
      BY <1>a, <1>2, <2>1, <2>3
         DEF Publish, PublishReturns, PublishRaises, PublishAnswerLost, Accepts, Raises,
             GhostsTyped, WorkersTyped
    <2>8. Remembered'
      <3>1. SUFFICES ASSUME NEW v \in Workers
            PROVE /\ pc'[v] = "publishing" =>
                       held[v] \notin accepted'[event[v]] \union refused'[event[v]]
                  /\ pc'[v] \in {"accepted", "marking_published"} =>
                       held[v] \in accepted'[event[v]] \ refused'[event[v]]
                  /\ pc'[v] \in {"raised", "marking_failed"} => held[v] \in refused'[event[v]]
        BY <2>2 DEF Remembered
      <3>2. CASE v = w
        BY <2>7, <3>2
      <3>3. CASE v # w
        <4>1. pc'[v] = pc[v] /\ (pc[v] \in Holding /\ event[v] = event[w] => held[v] # held[w])
          BY <2>4, <3>3
        <4>2. pc[v] \in Holding => event[v] \in Events
          BY <1>a DEF InHand
        <4>3. QED
          BY <1>b, <2>5, <4>1, <4>2 DEF Remembered, Holding, Answered
      <3>4. QED
        BY <3>2, <3>3
    <2>9. QED
      BY <2>6, <2>8 DEF Answering
  <1>3. ASSUME NEW w \in Workers, LockClaimedEvent(w) PROVE Answering'
    BY <1>a, <1>b, <1>3
       DEF LockClaimedEvent, Answering, Remembered, AnswersIssued, WorkersTyped, Answered
  <1>4. ASSUME NEW w \in Workers,
               \/ StartRun(w) \/ SelectNextEvent(w) \/ EndDispatchLoop(w) \/ ClaimLost(w)
               \/ MarkPublished(w) \/ MarkFailed(w)
               \/ SelectExpiredClaim(w) \/ MarkRecovered(w) \/ EndRun(w) \/ Crash(w)
        PROVE  Answering'
    <2>1. /\ pc'[w] \in {"idle", "dispatch", "recover", "claiming", "recovering"}
          /\ \A v \in Workers \ {w} : pc'[v] = pc[v] /\ event'[v] = event[v] /\ held'[v] = held[v]
          /\ UNCHANGED <<claims, accepted, refused>>
      BY <1>a, <1>4
         DEF StartRun, SelectNextEvent, EndDispatchLoop, ClaimLost, MarkPublished, MarkFailed,
             SelectExpiredClaim, MarkRecovered, EndRun, Crash, Release, WorkersTyped
    <2>2. QED
      BY <1>b, <2>1 DEF Answering, Remembered, AnswersIssued
  <1>5. ASSUME Tick \/ FlipSwitch \/ UNCHANGED vars \/ \E e \in Events : CreateOutboxEvent(e)
        PROVE  Answering'
    BY <1>b, <1>5
       DEF Tick, FlipSwitch, vars, CreateOutboxEvent, Answering, Remembered, AnswersIssued
  <1>6. QED
    BY <1>1, <1>2, <1>3, <1>4, <1>5 DEF Next, Run

LEMMA AlwaysAnswering == Spec => [](Typed /\ Owned /\ Answering)
  BY TypedInit, TypedStep, OwnedInit, OwnedStep, AnsweringInit, AnsweringStep, PTL DEF Spec

-----------------------------------------------------------------------------
(* Every step of the dispatcher is a step of the delivery promise, or none.*)
Phases == [e \in Events |-> Phase(status[e])]

LEMMA PhaseStep ==
  ASSUME NEW e \in Events, NEW s, status \in [Events -> Statuses],
         status' = [status EXCEPT ![e] = s]
  PROVE  Phases' = [Phases EXCEPT ![e] = Phase(s)]
  BY DEF Phases

LEMMA DeliveryInit == Init => Delivery!DInit
  BY DEF Init, Delivery!DInit, Phase

LEMMA DeliveryStep ==
  Typed /\ Owned /\ Answering /\ [Next]_vars => [Delivery!DNext]_(Delivery!dvars)
  <1> SUFFICES ASSUME Typed, Owned, Answering, [Next]_vars
               PROVE  [Delivery!DNext]_(Delivery!dvars)
    OBVIOUS
  <1> USE DEF rowVars, workerVars, switchVars, ghostVars
  <1>a. /\ status \in [Events -> Statuses]
        /\ attempts \in [Events -> Nat]
        /\ claims \in [Events -> Nat]
    BY DEF Typed, TypeOK, RowsTyped, GhostsTyped
  <1>b. CurrentClaim /\ LockedAsSelected /\ HeldIssued /\ Remembered
    BY DEF Owned, Answering
  <1>1. ASSUME NEW e \in Events, CreateOutboxEvent(e) PROVE Delivery!Record(e)
    <2>1. status' = [status EXCEPT ![e] = "pending"] /\ status[e] = "absent"
      BY <1>1 DEF CreateOutboxEvent
    <2>2. Phases' = [Phases EXCEPT ![e] = "waiting"]
      BY <1>a, <2>1, PhaseStep DEF Phase
    <2>3. Phases[e] = "unrecorded"
      BY <2>1 DEF Phases, Phase
    <2>4. QED
      BY <1>1, <2>2, <2>3 DEF Delivery!Record, Phases, CreateOutboxEvent
  <1>2. ASSUME NEW w \in Workers, SaveClaim(w)
        PROVE  event[w] \in Events /\ Delivery!Take(event[w])
    <2>1. event[w] \in Events /\ status[event[w]] \in {"pending", "failed"}
      BY <1>2, <1>b, HandOf DEF SaveClaim, InTransaction, LockedAsSelected
    <2>2. Phases' = [Phases EXCEPT ![event[w]] = "taken"]
      BY <1>a, <1>2, <2>1, PhaseStep DEF SaveClaim, Phase
    <2>3. Phases[event[w]] = "waiting"
      BY <2>1 DEF Phases, Phase
    <2>4. QED
      BY <1>2, <2>1, <2>2, <2>3 DEF Delivery!Take, Phases, SaveClaim
  <1>3. ASSUME NEW w \in Workers, Publish(w)
        PROVE  /\ event[w] \in Events
               /\ held[w] \in 1..claims[event[w]]
               /\ Delivery!Answer(event[w], held[w])
    <2>1. /\ event[w] \in Events
          /\ held[w] \in 1..claims[event[w]]
          /\ held[w] \notin accepted[event[w]] \union refused[event[w]]
      BY <1>3, <1>b, HandOf
         DEF Publish, PublishReturns, PublishRaises, PublishAnswerLost, Holding, HeldIssued,
             Remembered
    <2>2. UNCHANGED <<status, attempts, claims>>
      BY <1>3 DEF Publish, PublishReturns, PublishRaises, PublishAnswerLost
    <2>3. QED
      BY <1>3, <2>1, <2>2
         DEF Publish, PublishReturns, PublishRaises, PublishAnswerLost, Accepts, Raises,
             Delivery!Answer
  <1>4. ASSUME NEW w \in Workers, MarkPublished(w)
        PROVE  event[w] \in Events /\ Delivery!Confirm(event[w])
    <2>1. event[w] \in Events /\ status[event[w]] = "processing" /\ claims[event[w]] = held[w]
      BY <1>4, <1>b, HandOf DEF MarkPublished, InTransaction, LockedAsSelected, CurrentClaim
    <2>2. held[w] \in accepted[event[w]] \ refused[event[w]]
      BY <1>4, <1>b DEF MarkPublished, Remembered
    <2>3. Phases' = [Phases EXCEPT ![event[w]] = "delivered"]
      BY <1>a, <1>4, <2>1, PhaseStep DEF MarkPublished, Phase
    <2>4. Phases[event[w]] = "taken"
      BY <2>1 DEF Phases, Phase
    <2>5. QED
      BY <1>4, <2>1, <2>2, <2>3, <2>4 DEF Delivery!Confirm, Phases, MarkPublished
  <1>5. ASSUME NEW w \in Workers, MarkFailed(w)
        PROVE  event[w] \in Events /\ Delivery!Reject(event[w])
    <2>1. event[w] \in Events /\ status[event[w]] = "processing" /\ claims[event[w]] = held[w]
      BY <1>5, <1>b, HandOf DEF MarkFailed, InTransaction, LockedAsSelected, CurrentClaim
    <2>2. held[w] \in refused[event[w]]
      BY <1>5, <1>b DEF MarkFailed, Remembered
    <2>3. /\ attempts[event[w]] + 1 < max_attempts =>
               Phases' = [Phases EXCEPT ![event[w]] = "waiting"]
          /\ ~(attempts[event[w]] + 1 < max_attempts) =>
               Phases' = [Phases EXCEPT ![event[w]] = "abandoned"]
      <3>1. attempts[event[w]] + 1 < max_attempts <=> ~(attempts[event[w]] + 1 >= max_attempts)
        BY <1>a, <2>1, Parameters
      <3>2. CASE attempts[event[w]] + 1 < max_attempts
        <4>1. status' = [status EXCEPT ![event[w]] = "failed"]
          BY <1>5, <3>1, <3>2 DEF MarkFailed
        <4>2. QED
          BY <1>a, <2>1, <3>2, <4>1, PhaseStep DEF Phase
      <3>3. CASE ~(attempts[event[w]] + 1 < max_attempts)
        <4>1. status' = [status EXCEPT ![event[w]] = "dead_letter"]
          BY <1>5, <3>1, <3>3 DEF MarkFailed
        <4>2. QED
          BY <1>a, <2>1, <3>3, <4>1, PhaseStep DEF Phase
      <3>4. QED
        BY <3>2, <3>3
    <2>4. Phases[event[w]] = "taken"
      BY <2>1 DEF Phases, Phase
    <2>5. UNCHANGED <<claims, accepted, refused>>
          /\ attempts' = [attempts EXCEPT ![event[w]] = @ + 1]
      BY <1>5 DEF MarkFailed
    <2>6. QED
      BY <2>1, <2>2, <2>3, <2>4, <2>5 DEF Delivery!Reject, Phases
  <1>6. ASSUME NEW w \in Workers, MarkRecovered(w)
        PROVE  event[w] \in Events /\ Delivery!GiveBack(event[w])
    <2>1. event[w] \in Events /\ status[event[w]] = "processing"
      BY <1>6, <1>b, HandOf DEF MarkRecovered, InTransaction, LockedAsSelected
    <2>2. Phases' = [Phases EXCEPT ![event[w]] = "waiting"]
      BY <1>a, <1>6, <2>1, PhaseStep DEF MarkRecovered, Phase
    <2>3. Phases[event[w]] = "taken"
      BY <2>1 DEF Phases, Phase
    <2>4. QED
      BY <1>6, <2>1, <2>2, <2>3 DEF Delivery!GiveBack, Phases, MarkRecovered
  <1>7. ASSUME \/ Tick \/ FlipSwitch \/ UNCHANGED vars
               \/ \E w \in Workers :
                    \/ StartRun(w) \/ SelectNextEvent(w) \/ EndDispatchLoop(w)
                    \/ LockClaimedEvent(w) \/ ClaimLost(w)
                    \/ SelectExpiredClaim(w) \/ EndRun(w) \/ Crash(w)
        PROVE  UNCHANGED Delivery!dvars
    <2>1. UNCHANGED <<status, attempts, claims, accepted, refused>>
      BY <1>7
         DEF Tick, FlipSwitch, vars, StartRun, SelectNextEvent, EndDispatchLoop,
             LockClaimedEvent, ClaimLost, SelectExpiredClaim, EndRun, Crash
    <2>2. QED
      BY <2>1 DEF Delivery!dvars
  <1>8. QED
    BY <1>1, <1>2, <1>3, <1>4, <1>5, <1>6, <1>7 DEF Next, Run, Delivery!DNext

(* The dispatcher keeps the delivery promise: at-least-once, no published  *)
(* event that never arrived, no dead letter without max_attempts refusals. *)
THEOREM DispatcherKeepsPromise == Spec => KeepsDeliveryPromise
  BY DeliveryInit, DeliveryStep, AlwaysAnswering, PTL DEF Spec, Delivery!DSpec, KeepsDeliveryPromise

-----------------------------------------------------------------------------
(* How one step changes one row, seen from outside: the row is recorded,   *)
(* taken, completed, given back, or only its answers grow.                 *)
RowKept(e) ==
  UNCHANGED <<status[e], attempts[e], recoveries[e], claims[e]>>

RowRecorded(e) ==
  /\ status[e] = "absent" /\ status'[e] = "pending"
  /\ UNCHANGED <<attempts[e], recoveries[e], claims[e], accepted[e], refused[e]>>

RowTaken(e) ==
  /\ status[e] \in {"pending", "failed"} /\ status'[e] = "processing"
  /\ claims'[e] = claims[e] + 1
  /\ UNCHANGED <<attempts[e], recoveries[e], accepted[e], refused[e]>>

RowPublished(e) ==
  /\ status[e] = "processing" /\ status'[e] = "published"
  /\ claims[e] \in accepted[e] \ refused[e]
  /\ attempts'[e] = attempts[e] + 1
  /\ UNCHANGED <<recoveries[e], claims[e], accepted[e], refused[e]>>

RowFailed(e) ==
  /\ status[e] = "processing"
  /\ status'[e] = IF attempts[e] + 1 >= max_attempts THEN "dead_letter" ELSE "failed"
  /\ claims[e] \in refused[e]
  /\ attempts'[e] = attempts[e] + 1
  /\ UNCHANGED <<recoveries[e], claims[e], accepted[e], refused[e]>>

RowRecovered(e) ==
  /\ status[e] = "processing" /\ status'[e] = "pending"
  /\ recoveries'[e] = recoveries[e] + 1
  /\ UNCHANGED <<attempts[e], claims[e], accepted[e], refused[e]>>

AnswersGrow(e) == accepted[e] \subseteq accepted'[e] /\ refused[e] \subseteq refused'[e]

LEMMA RowStep ==
  ASSUME Typed, Owned, Answering, [Next]_vars, NEW e \in Events
  PROVE  /\ AnswersGrow(e)
         /\ \/ RowKept(e) \/ RowRecorded(e) \/ RowTaken(e) \/ RowPublished(e)
            \/ RowFailed(e) \/ RowRecovered(e)
  <1> USE DEF rowVars, workerVars, switchVars, ghostVars
  <1>a. /\ status \in [Events -> Statuses]
        /\ attempts \in [Events -> Nat]
        /\ recoveries \in [Events -> Nat]
        /\ claims \in [Events -> Nat]
        /\ accepted \in [Events -> SUBSET Nat]
        /\ refused \in [Events -> SUBSET Nat]
    BY DEF Typed, TypeOK, RowsTyped, GhostsTyped
  <1>b. CurrentClaim /\ LockedAsSelected /\ HeldIssued /\ Remembered
    BY DEF Owned, Answering
  <1>1. ASSUME NEW f \in Events, CreateOutboxEvent(f)
        PROVE  AnswersGrow(e) /\ (RowKept(e) \/ RowRecorded(e))
    BY <1>a, <1>1 DEF CreateOutboxEvent, RowKept, RowRecorded, AnswersGrow
  <1>2. ASSUME NEW w \in Workers, SaveClaim(w)
        PROVE  AnswersGrow(e) /\ (RowKept(e) \/ RowTaken(e))
    <2>1. event[w] \in Events /\ status[event[w]] \in {"pending", "failed"}
      BY <1>2, <1>b, HandOf DEF SaveClaim, InTransaction, LockedAsSelected
    <2>2. QED
      BY <1>a, <1>2, <2>1 DEF SaveClaim, RowKept, RowTaken, AnswersGrow
  <1>3. ASSUME NEW w \in Workers, Publish(w) PROVE AnswersGrow(e) /\ RowKept(e)
    BY <1>a, <1>3
       DEF Publish, PublishReturns, PublishRaises, PublishAnswerLost, Accepts, Raises,
           RowKept, AnswersGrow
  <1>4. ASSUME NEW w \in Workers, MarkPublished(w)
        PROVE  AnswersGrow(e) /\ (RowKept(e) \/ RowPublished(e))
    <2>1. event[w] \in Events /\ status[event[w]] = "processing" /\ claims[event[w]] = held[w]
      BY <1>4, <1>b, HandOf DEF MarkPublished, InTransaction, LockedAsSelected, CurrentClaim
    <2>2. held[w] \in accepted[event[w]] \ refused[event[w]]
      BY <1>4, <1>b DEF MarkPublished, Remembered
    <2>3. QED
      BY <1>a, <1>4, <2>1, <2>2 DEF MarkPublished, RowKept, RowPublished, AnswersGrow
  <1>5. ASSUME NEW w \in Workers, MarkFailed(w)
        PROVE  AnswersGrow(e) /\ (RowKept(e) \/ RowFailed(e))
    <2>1. event[w] \in Events /\ status[event[w]] = "processing" /\ claims[event[w]] = held[w]
      BY <1>5, <1>b, HandOf DEF MarkFailed, InTransaction, LockedAsSelected, CurrentClaim
    <2>2. held[w] \in refused[event[w]]
      BY <1>5, <1>b DEF MarkFailed, Remembered
    <2>3. QED
      BY <1>a, <1>5, <2>1, <2>2 DEF MarkFailed, RowKept, RowFailed, AnswersGrow
  <1>6. ASSUME NEW w \in Workers, MarkRecovered(w)
        PROVE  AnswersGrow(e) /\ (RowKept(e) \/ RowRecovered(e))
    <2>1. event[w] \in Events /\ status[event[w]] = "processing"
      BY <1>6, <1>b, HandOf DEF MarkRecovered, InTransaction, LockedAsSelected
    <2>2. QED
      BY <1>a, <1>6, <2>1 DEF MarkRecovered, RowKept, RowRecovered, AnswersGrow
  <1>7. ASSUME \/ Tick \/ FlipSwitch \/ UNCHANGED vars
               \/ \E w \in Workers :
                    \/ StartRun(w) \/ SelectNextEvent(w) \/ EndDispatchLoop(w)
                    \/ LockClaimedEvent(w) \/ ClaimLost(w)
                    \/ SelectExpiredClaim(w) \/ EndRun(w) \/ Crash(w)
        PROVE  AnswersGrow(e) /\ RowKept(e)
    <2>1. UNCHANGED <<status, attempts, recoveries, claims, accepted, refused>>
      BY <1>7
         DEF Tick, FlipSwitch, vars, StartRun, SelectNextEvent, EndDispatchLoop,
             LockClaimedEvent, ClaimLost, SelectExpiredClaim, EndRun, Crash
    <2>2. QED
      BY <2>1 DEF RowKept, AnswersGrow
  <1>8. QED
    BY <1>1, <1>2, <1>3, <1>4, <1>5, <1>6, <1>7 DEF Next, Run

-----------------------------------------------------------------------------
(* Each claim of a row is accounted for exactly once.                      *)
LEMMA AccountedStep ==
  Typed /\ Owned /\ Answering /\ ClaimsAccounted /\ [Next]_vars => ClaimsAccounted'
  <1> SUFFICES ASSUME Typed, Owned, Answering, ClaimsAccounted, [Next]_vars, NEW e \in Events
      PROVE claims'[e] = attempts'[e] + recoveries'[e]
                           + (IF status'[e] = "processing" THEN 1 ELSE 0)
    BY DEF ClaimsAccounted
  <1>1. claims[e] = attempts[e] + recoveries[e] + (IF status[e] = "processing" THEN 1 ELSE 0)
    BY DEF ClaimsAccounted
  <1>2. attempts[e] \in Nat /\ recoveries[e] \in Nat /\ claims[e] \in Nat
    BY DEF Typed, TypeOK, RowsTyped, GhostsTyped
  <1>3. QED
    BY <1>1, <1>2, RowStep
       DEF RowKept, RowRecorded, RowTaken, RowPublished, RowFailed, RowRecovered

THEOREM AccountingHolds == Spec => []ClaimsAccounted
  <1>1. Init => ClaimsAccounted
    BY DEF Init, ClaimsAccounted
  <1>2. QED
    BY <1>1, AlwaysAnswering, AccountedStep, PTL DEF Spec

(* Settlement: a published row was accepted; a row not yet settled has     *)
(* attempts left; and the refusals of claims that are over pay for every   *)
(* attempt but the one that published.                                     *)
Over(e) == refused[e] \ (IF status[e] = "processing" THEN {claims[e]} ELSE {})
Unpaid(e) == attempts[e] - (IF status[e] = "published" THEN 1 ELSE 0)

Settlement ==
  \A e \in Events :
    /\ status[e] = "published" => accepted[e] # {}
    /\ status[e] \in {"absent", "pending", "processing", "failed"} => attempts[e] < max_attempts
    /\ status[e] = "dead_letter" => attempts[e] = max_attempts
    /\ Cardinality(Over(e)) >= Unpaid(e)

LEMMA RefusalsFinite ==
  ASSUME Typed, Answering, NEW e \in Events
  PROVE  IsFiniteSet(refused[e])
  <1>1. refused[e] \subseteq 1..claims[e] /\ claims[e] \in Nat
    BY DEF Answering, AnswersIssued, Typed, TypeOK, GhostsTyped
  <1>2. IsFiniteSet(1..claims[e])
    BY <1>1, FS_Interval
  <1>3. QED
    BY <1>1, <1>2, FS_Subset

LEMMA SettlementStep ==
  Typed /\ Owned /\ Answering /\ Settlement /\ [Next]_vars => Settlement'
  <1> SUFFICES ASSUME Typed, Owned, Answering, Settlement, [Next]_vars, NEW e \in Events
      PROVE  /\ status'[e] = "published" => accepted'[e] # {}
             /\ status'[e] \in {"absent", "pending", "processing", "failed"} =>
                  attempts'[e] < max_attempts
             /\ status'[e] = "dead_letter" => attempts'[e] = max_attempts
             /\ Cardinality(Over(e)') >= Unpaid(e)'
    BY DEF Settlement
  <1>1. /\ status[e] = "published" => accepted[e] # {}
        /\ status[e] \in {"absent", "pending", "processing", "failed"} =>
             attempts[e] < max_attempts
        /\ status[e] = "dead_letter" => attempts[e] = max_attempts
        /\ Cardinality(Over(e)) >= Unpaid(e)
    BY DEF Settlement
  <1>2. attempts[e] \in Nat /\ claims[e] \in Nat /\ max_attempts \in Nat
    BY Parameters DEF Typed, TypeOK, RowsTyped, GhostsTyped
  <1>3. Typed' /\ Answering'
    BY TypedStep, AnsweringStep
  <1>4. IsFiniteSet(refused[e]) /\ IsFiniteSet(refused'[e])
    <2>1. IsFiniteSet(refused[e])
      BY RefusalsFinite
    <2>2. refused'[e] \subseteq 1..claims'[e] /\ claims'[e] \in Nat
      BY <1>3 DEF Answering, AnswersIssued, Typed, TypeOK, GhostsTyped
    <2>3. IsFiniteSet(1..claims'[e])
      BY <2>2, FS_Interval
    <2>4. QED
      BY <2>1, <2>2, <2>3, FS_Subset
  <1>5. IsFiniteSet(Over(e)) /\ IsFiniteSet(Over(e)')
    BY <1>4, FS_Subset DEF Over
  <1>6. Cardinality(Over(e)) \in Nat /\ Cardinality(Over(e)') \in Nat
    BY <1>5, FS_CardinalityType
  <1>7. Over(e) \subseteq Over(e)' => Cardinality(Over(e)') >= Cardinality(Over(e))
    BY <1>5, <1>6, FS_Subset
  <1>8. refused[e] \subseteq 1..claims[e] /\ AnswersGrow(e)
    BY RowStep DEF Answering, AnswersIssued
  <1>9. CASE RowKept(e)
    <2>1. Over(e) \subseteq Over(e)' /\ Unpaid(e)' = Unpaid(e)
      BY <1>8, <1>9 DEF RowKept, Over, Unpaid, AnswersGrow
    <2>2. QED
      BY <1>1, <1>2, <1>6, <1>7, <1>8, <1>9, <2>1 DEF RowKept, AnswersGrow, Unpaid
  <1>10. CASE RowRecorded(e) \/ RowRecovered(e) \/ RowTaken(e)
    <2>1. Over(e) \subseteq Over(e)' /\ Unpaid(e)' = Unpaid(e)
      BY <1>2, <1>8, <1>10 DEF RowRecorded, RowRecovered, RowTaken, Over, Unpaid
    <2>2. QED
      BY <1>1, <1>2, <1>6, <1>7, <1>10, <2>1 DEF RowRecorded, RowRecovered, RowTaken, Unpaid
  <1>11. CASE RowPublished(e)
    <2>1. Over(e) \subseteq Over(e)' /\ Unpaid(e)' = Unpaid(e)
      BY <1>2, <1>11 DEF RowPublished, Over, Unpaid
    <2>2. QED
      BY <1>1, <1>2, <1>6, <1>7, <1>11, <2>1 DEF RowPublished, Unpaid
  <1>12. CASE RowFailed(e)
    <2>1. Over(e)' = Over(e) \union {claims[e]} /\ claims[e] \notin Over(e)
      BY <1>12 DEF RowFailed, Over
    <2>2. Cardinality(Over(e)') = Cardinality(Over(e)) + 1
      BY <1>5, <2>1, FS_AddElement
    <2>3. Unpaid(e)' = Unpaid(e) + 1
      BY <1>2, <1>12 DEF RowFailed, Unpaid
    <2>4. QED
      BY <1>1, <1>2, <1>6, <1>12, <2>2, <2>3 DEF RowFailed, Unpaid
  <1>13. QED
    BY <1>9, <1>10, <1>11, <1>12, RowStep

LEMMA AlwaysSettlement == Spec => [](Typed /\ Owned /\ Answering /\ Settlement)
  <1>1. Init => Settlement
    <2>1. Cardinality({}) = 0
      BY FS_EmptySet
    <2>2. QED
      BY <2>1, Parameters DEF Init, Settlement, Over, Unpaid
  <1>2. QED
    BY <1>1, AlwaysAnswering, SettlementStep, PTL DEF Spec

(* No event is recorded as published that the destination never accepted.  *)
THEOREM PublishedMeansAccepted == Spec => []PublishedWasAccepted
  <1>1. Settlement => PublishedWasAccepted
    BY DEF Settlement, PublishedWasAccepted
  <1>2. QED
    BY <1>1, AlwaysSettlement, PTL

(* A dead letter has max_attempts refusals behind it.                      *)
THEOREM DeadLetterMeansRefused == Spec => []DeadLetterWasRefused
  <1>1. Typed /\ Answering /\ Settlement => DeadLetterWasRefused
    <2> SUFFICES ASSUME Typed, Answering, Settlement, NEW e \in Events, status[e] = "dead_letter"
                 PROVE  attempts[e] = max_attempts /\ Cardinality(refused[e]) >= max_attempts
      BY DEF DeadLetterWasRefused
    <2>1. Over(e) = refused[e] /\ Unpaid(e) = attempts[e]
      BY DEF Over, Unpaid, Typed, TypeOK, RowsTyped
    <2>2. QED
      BY <2>1 DEF Settlement
  <1>2. QED
    BY <1>1, AlwaysSettlement, PTL

(* A settled row never changes again.                                      *)
THEOREM SettledRowsAreFinal == Spec => SettledIsFinal
  <1>1. Typed /\ Owned /\ Answering /\ [Next]_vars =>
          (\A e \in Events : Settled(e) => status'[e] = status[e] /\ attempts'[e] = attempts[e])
    BY RowStep
       DEF Settled, RowKept, RowRecorded, RowTaken, RowPublished, RowFailed, RowRecovered
  <1>2. QED
    BY <1>1, AlwaysAnswering, PTL DEF Spec, SettledIsFinal

-----------------------------------------------------------------------------
(* A row is recovered only while its claim is expired, and a process works *)
(* on a namespaced row only if it booted with writes enabled.              *)
RecoversExpired ==
  \A w \in Workers : pc[w] = "recovering" => claim_expires_at[event[w]] <= 0

GateKept ==
  \A w \in Workers :
    pc[w] \in InTransaction \union Holding /\ event[w] \in Namespaced => writes_on[w]

Guarded == RecoversExpired /\ GateKept

LEMMA GuardedInit == Init => Guarded
  BY DEF Init, Guarded, RecoversExpired, GateKept, InTransaction, Holding, Answered

LEMMA GuardedStep == Typed /\ Owned /\ Guarded /\ [Next]_vars => Guarded'
  <1> SUFFICES ASSUME Typed, Owned, Guarded, [Next]_vars PROVE Guarded'
    OBVIOUS
  <1> USE DEF InTransaction, Holding, Answered, rowVars, workerVars, switchVars, ghostVars
  <1>a. RowsTyped /\ WorkersTyped /\ InHand /\ RecoversExpired /\ GateKept /\ LockExclusive
    BY DEF Typed, TypeOK, Guarded, Owned
  <1>1. ASSUME NEW w \in Workers, SelectNextEvent(w) \/ SelectExpiredClaim(w) PROVE Guarded'
    <2>1. PICK e \in Events : /\ event' = [event EXCEPT ![w] = e]
                              /\ Gated(w, e)
                              /\ pc[w] = "recover" => claim_expires_at[e] <= 0
      BY <1>1 DEF SelectNextEvent, SelectExpiredClaim, FirstBy, Claimable, Expired
    <2>2. /\ pc[w] \in {"dispatch", "recover"}
          /\ pc' = [pc EXCEPT ![w] = IF pc[w] = "recover" THEN "recovering" ELSE "claiming"]
          /\ UNCHANGED <<claim_expires_at, writes_on>>
      BY <1>1 DEF SelectNextEvent, SelectExpiredClaim
    <2>3. QED
      BY <1>a, <2>1, <2>2 DEF Guarded, RecoversExpired, GateKept, Gated, WorkersTyped
  <1>2. ASSUME NEW w \in Workers, SaveClaim(w) PROVE Guarded'
    <2>1. event[w] \in Events /\ pc[w] = "claiming"
      BY <1>2, HandOf DEF SaveClaim
    <2>2. \A v \in Workers : pc[v] = "recovering" => event[v] # event[w]
      BY <1>a, <2>1 DEF LockExclusive
    <2>3. /\ pc' = [pc EXCEPT ![w] = "publishing"]
          /\ \A e \in Events \ {event[w]} : claim_expires_at'[e] = claim_expires_at[e]
          /\ UNCHANGED <<event, writes_on>>
      BY <1>a, <1>2, <2>1 DEF SaveClaim, RowsTyped
    <2>4. QED
      BY <1>a, <2>1, <2>2, <2>3 DEF Guarded, RecoversExpired, GateKept, WorkersTyped, InHand
  <1>3. ASSUME NEW w \in Workers, Publish(w) \/ LockClaimedEvent(w) PROVE Guarded'
    <2>1. /\ pc[w] \in Holding /\ pc'[w] \in Holding
          /\ \A v \in Workers \ {w} : pc'[v] = pc[v]
          /\ UNCHANGED <<event, claim_expires_at, writes_on>>
      BY <1>a, <1>3
         DEF Publish, PublishReturns, PublishRaises, PublishAnswerLost, LockClaimedEvent,
             WorkersTyped
    <2>2. QED
      BY <1>a, <2>1 DEF Guarded, RecoversExpired, GateKept
  <1>4. ASSUME NEW w \in Workers, MarkPublished(w) \/ MarkFailed(w) \/ MarkRecovered(w)
        PROVE  Guarded'
    <2>1. event[w] \in Events
      BY <1>4, HandOf DEF MarkPublished, MarkFailed, MarkRecovered
    <2>2. /\ pc'[w] \in {"dispatch", "recover"}
          /\ \A v \in Workers \ {w} : pc'[v] = pc[v] /\ event'[v] = event[v]
          /\ UNCHANGED writes_on
      BY <1>a, <1>4 DEF MarkPublished, MarkFailed, MarkRecovered, Release, WorkersTyped
    <2>3. \A e \in Events : claim_expires_at'[e] \in {claim_expires_at[e], 0}
      BY <1>a, <1>4, <2>1 DEF MarkPublished, MarkFailed, MarkRecovered, ClearClaim, RowsTyped
    <2>4. QED
      BY <1>a, <2>2, <2>3 DEF Guarded, RecoversExpired, GateKept, InHand
  <1>5. ASSUME NEW w \in Workers,
               StartRun(w) \/ EndDispatchLoop(w) \/ ClaimLost(w) \/ EndRun(w) \/ Crash(w)
        PROVE  Guarded'
    <2>1. /\ pc'[w] \in {"idle", "dispatch", "recover"}
          /\ \A v \in Workers \ {w} :
               pc'[v] = pc[v] /\ event'[v] = event[v] /\ writes_on'[v] = writes_on[v]
          /\ UNCHANGED claim_expires_at
      BY <1>a, <1>5 DEF StartRun, EndDispatchLoop, ClaimLost, EndRun, Crash, Release, WorkersTyped
    <2>2. QED
      BY <1>a, <2>1 DEF Guarded, RecoversExpired, GateKept
  <1>6. ASSUME Tick PROVE Guarded'
    <2>1. ASSUME NEW e \in Events, claim_expires_at[e] <= 0
          PROVE  claim_expires_at'[e] <= 0
      <3>1. claim_expires_at[e] \in Int /\ Horizon \in Nat
        BY <1>a, ConstantsAssumption DEF RowsTyped
      <3>2. QED
        BY <1>6, <2>1, <3>1 DEF Tick, AtLeast
    <2>2. QED
      BY <1>a, <1>6, <2>1 DEF Tick, Guarded, RecoversExpired, GateKept, InHand
  <1>7. ASSUME FlipSwitch \/ UNCHANGED vars \/ \E e \in Events : CreateOutboxEvent(e)
        PROVE  Guarded'
    BY <1>a, <1>7
       DEF FlipSwitch, vars, CreateOutboxEvent, Guarded, RecoversExpired, GateKept
  <1>8. QED
    BY <1>1, <1>2, <1>3, <1>4, <1>5, <1>6, <1>7 DEF Next, Run

LEMMA AlwaysGuarded == Spec => [](Typed /\ Owned /\ Answering /\ Guarded)
  BY GuardedInit, GuardedStep, AlwaysAnswering, PTL DEF Spec

(* A worker whose claim was stolen never changes the row.                  *)
THEOREM StaleWorkersAreInert == Spec => StaleWorkerIsInert
  <1>1. ASSUME Typed, Owned, Guarded, [Next]_vars, NEW e \in Events,
               status[e] = "processing", claim_id'[e] # claim_id[e]
        PROVE  \/ /\ status'[e] \in {"published", "failed", "dead_letter"}
                  /\ \E w \in Workers : Holds(w, e) /\ pc'[w] = "dispatch" /\ held'[w] # held[w]
               \/ status'[e] = "pending" /\ claim_expires_at[e] <= 0
    <2> USE DEF InTransaction, Holding, Answered, rowVars, workerVars, switchVars, ghostVars
    <2>a. /\ RowsTyped /\ WorkersTyped /\ InHand
          /\ CurrentClaim /\ LockedAsSelected /\ HeldIssued
          /\ RecoversExpired
          /\ claims \in [Events -> Nat]
      BY <1>1 DEF Typed, TypeOK, GhostsTyped, Owned, Guarded
    <2>1. ASSUME NEW w \in Workers, MarkPublished(w) \/ MarkFailed(w)
          PROVE  /\ status'[e] \in {"published", "failed", "dead_letter"}
                 /\ Holds(w, e) /\ pc'[w] = "dispatch" /\ held'[w] # held[w]
      <3>1. event[w] \in Events /\ pc[w] \in {"marking_published", "marking_failed"}
        BY <1>1, <2>1, HandOf DEF MarkPublished, MarkFailed
      <3>2. event[w] = e
        BY <1>1, <2>a, <2>1, <3>1 DEF MarkPublished, MarkFailed, ClearClaim, RowsTyped
      <3>3. held[w] > 0 /\ Holds(w, e)
        BY <2>a, <3>1, <3>2 DEF LockedAsSelected, CurrentClaim, Holds
      <3>4. pc'[w] = "dispatch" /\ held'[w] = 0
        BY <2>a, <2>1 DEF MarkPublished, MarkFailed, Release, WorkersTyped, NoClaim
      <3>5. status'[e] \in {"published", "failed", "dead_letter"}
        BY <2>a, <2>1, <3>1, <3>2 DEF MarkPublished, MarkFailed, RowsTyped
      <3>6. QED
        BY <3>3, <3>4, <3>5
    <2>2. ASSUME NEW w \in Workers, MarkRecovered(w)
          PROVE  status'[e] = "pending" /\ claim_expires_at[e] <= 0
      <3>1. event[w] \in Events
        BY <1>1, <2>2, HandOf DEF MarkRecovered
      <3>2. event[w] = e
        BY <1>1, <2>a, <2>2, <3>1 DEF MarkRecovered, ClearClaim, RowsTyped
      <3>3. QED
        BY <2>a, <2>2, <3>1, <3>2 DEF MarkRecovered, RowsTyped, RecoversExpired
    <2>3. ASSUME NEW w \in Workers, SaveClaim(w) PROVE FALSE
      <3>1. event[w] \in Events /\ status[event[w]] \in {"pending", "failed"}
        BY <1>1, <2>a, <2>3, HandOf DEF SaveClaim, LockedAsSelected
      <3>2. event[w] = e
        BY <1>1, <2>a, <2>3, <3>1 DEF SaveClaim, RowsTyped
      <3>3. QED
        BY <1>1, <3>1, <3>2
    <2>4. ASSUME \/ Tick \/ FlipSwitch \/ UNCHANGED vars
                 \/ \E f \in Events : CreateOutboxEvent(f)
                 \/ \E w \in Workers :
                      \/ StartRun(w) \/ SelectNextEvent(w) \/ EndDispatchLoop(w) \/ Publish(w)
                      \/ LockClaimedEvent(w) \/ ClaimLost(w)
                      \/ SelectExpiredClaim(w) \/ EndRun(w) \/ Crash(w)
          PROVE  FALSE
      <3>1. UNCHANGED claim_id
        BY <2>4
           DEF Tick, FlipSwitch, vars, CreateOutboxEvent, StartRun, SelectNextEvent,
               EndDispatchLoop, Publish, PublishReturns, PublishRaises, PublishAnswerLost,
               LockClaimedEvent, ClaimLost, SelectExpiredClaim, EndRun, Crash
      <3>2. QED
        BY <1>1, <3>1
    <2>5. QED
      BY <1>1, <2>1, <2>2, <2>3, <2>4 DEF Next, Run
  <1>2. Typed /\ Owned /\ Guarded /\ [Next]_vars => ClaimEndsRightfully
    BY <1>1 DEF ClaimEndsRightfully
  <1>3. QED
    BY <1>2, AlwaysGuarded, PTL DEF Spec, StaleWorkerIsInert

(* With the kill-switch off and no older process left, namespaced rows are *)
(* neither claimed, nor published, nor recovered.                          *)
THEOREM KillSwitchPauses == Spec => PausedOnceDrained
  <1>1. ASSUME Typed, Guarded, [Next]_vars, Drained, NEW e \in Namespaced
        PROVE  (status[e] # "absent" => status'[e] = status[e]) /\ accepted'[e] = accepted[e]
    <2> USE DEF InTransaction, Holding, Answered, rowVars, workerVars, switchVars, ghostVars
    <2>a. /\ RowsTyped /\ InHand /\ accepted \in [Events -> SUBSET Nat]
          /\ e \in Events
          /\ \A w \in Workers : pc[w] \in InTransaction \union Holding => event[w] # e
      BY <1>1, ConstantsAssumption
         DEF Typed, TypeOK, GhostsTyped, Guarded, GateKept, Drained
    <2>1. ASSUME NEW w \in Workers,
                 \/ SaveClaim(w) \/ Publish(w) \/ MarkPublished(w) \/ MarkFailed(w)
                 \/ MarkRecovered(w)
          PROVE  status'[e] = status[e] /\ accepted'[e] = accepted[e]
      <3>1. event[w] # e
        BY <2>a, <2>1
           DEF SaveClaim, Publish, PublishReturns, PublishRaises, PublishAnswerLost,
               MarkPublished, MarkFailed, MarkRecovered
      <3>2. QED
        BY <2>a, <2>1, <3>1
           DEF SaveClaim, Publish, PublishReturns, PublishRaises, PublishAnswerLost, Accepts,
               MarkPublished, MarkFailed, MarkRecovered, RowsTyped
    <2>2. ASSUME NEW f \in Events, CreateOutboxEvent(f)
          PROVE  (status[e] # "absent" => status'[e] = status[e]) /\ accepted'[e] = accepted[e]
      BY <2>a, <2>2 DEF CreateOutboxEvent, RowsTyped
    <2>3. ASSUME \/ Tick \/ FlipSwitch \/ UNCHANGED vars
                 \/ \E w \in Workers :
                      \/ StartRun(w) \/ SelectNextEvent(w) \/ EndDispatchLoop(w)
                      \/ LockClaimedEvent(w) \/ ClaimLost(w)
                      \/ SelectExpiredClaim(w) \/ EndRun(w) \/ Crash(w)
          PROVE  status'[e] = status[e] /\ accepted'[e] = accepted[e]
      BY <2>3
         DEF Tick, FlipSwitch, vars, StartRun, SelectNextEvent, EndDispatchLoop,
             LockClaimedEvent, ClaimLost, SelectExpiredClaim, EndRun, Crash
    <2>4. QED
      BY <1>1, <2>1, <2>2, <2>3 DEF Next, Run
  <1>2. Typed /\ Guarded /\ [Next]_vars => (Drained => NamespacedRowsRest)
    BY <1>1 DEF NamespacedRowsRest
  <1>3. QED
    BY <1>2, AlwaysGuarded, PTL DEF Spec, PausedOnceDrained
-----------------------------------------------------------------------------
(* What duplicates cost.  The claims under which an event was, or is about *)
(* to be, accepted are paid for by one fault each, but for one: the claim  *)
(* that published the row, or the current one while its holder has used up *)
(* neither its time nor its answer.                                        *)
Publishing(e) == {w \in Workers : pc[w] = "publishing" /\ event[w] = e}
Loose(e) == accepted[e] \union {held[w] : w \in Publishing(e)}
Healthy(e) ==
  /\ claim_expires_at[e] >= claim_timeout - PublishTimeout
  /\ \E w \in Workers :
       Holds(w, e) /\ pc[w] \in {"publishing", "accepted", "marking_published"}
Grace(e) == IF status[e] = "published" \/ Healthy(e) THEN 1 ELSE 0

Booted == \A w \in Workers : pc[w] # "idle" => claim_timeout > PublishTimeout
Billed == Booted /\ \A e \in Events : Cardinality(Loose(e)) <= faults + Grace(e)

LEMMA LooseIssued ==
  ASSUME Typed, Owned, Answering, NEW e \in Events
  PROVE  /\ Loose(e) \subseteq 1..claims[e]
         /\ IsFiniteSet(Loose(e)) /\ Cardinality(Loose(e)) \in Nat
  <1>1. claims[e] \in Nat /\ accepted[e] \subseteq 1..claims[e]
    BY DEF Typed, TypeOK, GhostsTyped, Answering, AnswersIssued
  <1>2. Loose(e) \subseteq 1..claims[e]
    BY <1>1 DEF Loose, Publishing, Owned, HeldIssued, Holding, Answered
  <1>3. IsFiniteSet(1..claims[e])
    BY <1>1, FS_Interval
  <1>4. IsFiniteSet(Loose(e))
    BY <1>2, <1>3, FS_Subset
  <1>5. QED
    BY <1>2, <1>4, FS_CardinalityType

(* Nothing new is owed, or it is paid for.                                 *)
LEMMA BillKept ==
  ASSUME Typed, Owned, Answering, Billed, NEW e \in Events, Loose(e)' \subseteq Loose(e),
         faults' \in Nat, faults' >= faults, Grace(e)' >= Grace(e) \/ faults' >= faults + 1
  PROVE  Cardinality(Loose(e)') <= faults' + Grace(e)'
  <1>1. Cardinality(Loose(e)') <= Cardinality(Loose(e)) /\ Cardinality(Loose(e)') \in Nat
    BY LooseIssued, FS_Subset, FS_CardinalityType
  <1>2. Cardinality(Loose(e)) \in Nat /\ Cardinality(Loose(e)) <= faults + Grace(e)
    BY LooseIssued DEF Billed
  <1>3. faults \in Nat
    BY ConstantsAssumption DEF Typed, TypeOK, GhostsTyped
  <1>4. Grace(e) \in {0, 1} /\ Grace(e)' \in {0, 1}
    BY DEF Grace
  <1>5. QED
    BY <1>1, <1>2, <1>3, <1>4

(* A row whose claim is at work within its time is nobody's to recover, and*)
(* its holder's answer is not a refusal.                                   *)
LEMMA HealthyHolds ==
  ASSUME Typed, Owned, Guarded, Booted, NEW e \in Events, Healthy(e),
         NEW w \in Workers, event[w] = e
  PROVE  /\ pc[w] # "recovering"
         /\ pc[w] # "marking_failed"
         /\ pc[w] # "claiming"
  <1>1. PICK v \in Workers : Holds(v, e) /\ pc[v] \in {"publishing", "accepted", "marking_published"}
    BY DEF Healthy
  <1>2. claim_timeout > PublishTimeout /\ claim_timeout \in Int /\ PublishTimeout \in Int
        /\ claim_expires_at[e] \in Int
    BY <1>1, Parameters, ConstantsAssumption DEF Booted, Typed, TypeOK, RowsTyped
  <1>3. claim_expires_at[e] > 0
    BY <1>2 DEF Healthy
  <1>4. pc[w] # "recovering"
    BY <1>2, <1>3 DEF Guarded, RecoversExpired
  <1>5. pc[w] # "marking_failed"
    BY <1>1 DEF Owned, LockedAsSelected, DistinctHeld, Holds, Holding, Answered
  <1>6. pc[w] # "claiming"
    BY <1>1 DEF Owned, LockedAsSelected, Holds
  <1>7. QED
    BY <1>4, <1>5, <1>6

LEMMA BilledStep ==
  Typed /\ Owned /\ Answering /\ Guarded /\ Billed /\ [Next]_vars => Billed'
  <1> SUFFICES ASSUME Typed, Owned, Answering, Guarded, Billed, [Next]_vars PROVE Billed'
    OBVIOUS
  <1> USE DEF rowVars, workerVars, switchVars, ghostVars
  <1>a. /\ RowsTyped /\ WorkersTyped /\ InHand /\ Booted
        /\ accepted \in [Events -> SUBSET Nat] /\ claims \in [Events -> Nat]
    BY DEF Typed, TypeOK, GhostsTyped, Billed
  <1>b. faults \in Nat /\ MaxFaults \in Nat
    BY ConstantsAssumption DEF Typed, TypeOK, GhostsTyped
  <1>c. Booted'
    <2>1. CASE Tick \/ FlipSwitch \/ UNCHANGED vars \/ \E e \in Events : CreateOutboxEvent(e)
      BY <1>a, <2>1 DEF Booted, Tick, FlipSwitch, vars, CreateOutboxEvent
    <2>2. ASSUME NEW w \in Workers, Run(w) \/ Crash(w) PROVE Booted'
      <3>1. pc[w] # "idle" \/ claim_timeout > PublishTimeout
        BY <2>2
           DEF Run, Crash, StartRun, SelectNextEvent, SaveClaim, EndDispatchLoop, Publish,
               PublishReturns, PublishRaises, PublishAnswerLost, LockClaimedEvent, ClaimLost,
               MarkPublished, MarkFailed, SelectExpiredClaim, MarkRecovered, EndRun, Answered
      <3>2. QED
        BY <1>a, <3>1 DEF Booted
    <2>3. QED
      BY <2>1, <2>2 DEF Next
  <1> SUFFICES ASSUME NEW e \in Events PROVE Cardinality(Loose(e)') <= faults' + Grace(e)'
    BY <1>c DEF Billed
  <1>d. Grace(e) \in {0, 1} /\ Grace(e)' \in {0, 1} /\ (Grace(e) = 0 \/ Grace(e)' = 1 => Grace(e)' >= Grace(e))
    BY DEF Grace
  <1> DEFINE Goal == Cardinality(Loose(e)') <= faults' + Grace(e)'
  <1>1. ASSUME NEW f \in Events, CreateOutboxEvent(f) PROVE Goal
    <2>1. Loose(e)' = Loose(e) /\ faults' = faults
      BY <1>1 DEF CreateOutboxEvent, Loose, Publishing
    <2>2. Grace(e)' = 1 \/ Grace(e) = 0
      BY <1>a, <1>1 DEF CreateOutboxEvent, Grace, Healthy, Holds, RowsTyped
    <2>3. QED
      BY <1>b, <1>d, <2>1, <2>2, BillKept
  <1>2. ASSUME NEW w \in Workers,
               \/ StartRun(w) \/ SelectNextEvent(w) \/ EndDispatchLoop(w)
               \/ SelectExpiredClaim(w) \/ EndRun(w)
        PROVE  Goal
    <2>1. /\ pc[w] \in {"idle", "dispatch", "recover"}
          /\ pc'[w] \in {"idle", "dispatch", "recover", "claiming", "recovering"}
          /\ \A v \in Workers \ {w} : pc'[v] = pc[v] /\ event'[v] = event[v]
          /\ UNCHANGED <<rowVars, held, accepted, faults>>
      BY <1>a, <1>2
         DEF StartRun, SelectNextEvent, EndDispatchLoop, SelectExpiredClaim, EndRun, WorkersTyped
    <2>2. Loose(e)' = Loose(e)
      BY <2>1 DEF Loose, Publishing
    <2>3. Grace(e)' = 1 \/ Grace(e) = 0
      BY <2>1 DEF Grace, Healthy, Holds
    <2>4. QED
      BY <1>b, <1>d, <2>1, <2>2, <2>3, BillKept
  <1>3. ASSUME NEW w \in Workers, LockClaimedEvent(w) \/ PublishReturns(w) PROVE Goal
    <2>1. event[w] \in Events
      BY <1>3, HandOf DEF LockClaimedEvent, PublishReturns, Holding, InTransaction
    <2>2. /\ pc[w] \in {"publishing", "accepted", "raised"}
          /\ pc[w] = "publishing" => pc'[w] = "accepted"
          /\ pc[w] = "accepted" => pc'[w] = "marking_published"
          /\ pc[w] = "raised" => pc'[w] = "marking_failed"
          /\ \A v \in Workers \ {w} : pc'[v] = pc[v]
          /\ UNCHANGED <<rowVars, event, held, faults>>
          /\ accepted' = IF pc[w] = "publishing"
                         THEN [accepted EXCEPT ![event[w]] = @ \union {held[w]}] ELSE accepted
      BY <1>a, <1>3 DEF LockClaimedEvent, PublishReturns, Accepts, Answered, WorkersTyped
    <2>3. Loose(e)' \subseteq Loose(e)
      BY <1>a, <2>1, <2>2 DEF Loose, Publishing
    <2>4. Grace(e)' = 1 \/ Grace(e) = 0
      BY <1>a, <2>2 DEF Grace, Healthy, Holds, Holding, Answered
    <2>5. QED
      BY <1>b, <1>d, <2>2, <2>3, <2>4, BillKept
  <1>4. ASSUME NEW w \in Workers, SaveClaim(w) PROVE Goal
    <2>1. event[w] \in Events /\ pc[w] = "claiming" /\ status[event[w]] \in {"pending", "failed"}
      BY <1>4, HandOf DEF SaveClaim, InTransaction, Owned, LockedAsSelected
    <2>2. /\ pc' = [pc EXCEPT ![w] = "publishing"]
          /\ held' = [held EXCEPT ![w] = claims[event[w]] + 1]
          /\ status' = [status EXCEPT ![event[w]] = "processing"]
          /\ claim_id' = [claim_id EXCEPT ![event[w]] = claims[event[w]] + 1]
          /\ claim_expires_at' = [claim_expires_at EXCEPT ![event[w]] = claim_timeout]
          /\ UNCHANGED <<event, accepted, faults>>
      BY <1>4 DEF SaveClaim
    <2>3. CASE event[w] = e
      <3>1. Loose(e)' \subseteq Loose(e) \union {claims[e] + 1}
        BY <1>a, <2>1, <2>2, <2>3 DEF Loose, Publishing, WorkersTyped
      <3>2. Grace(e)' = 1
        <4>1. claim_timeout \in Int /\ PublishTimeout \in Nat
          BY Parameters, ConstantsAssumption
        <4>2. claim_expires_at'[e] = claim_timeout
          BY <1>a, <2>2, <2>3 DEF RowsTyped
        <4>3. Holds(w, e)' /\ pc'[w] = "publishing"
          BY <1>a, <2>2, <2>3 DEF RowsTyped, WorkersTyped, Holds, Holding
        <4>4. QED
          BY <4>1, <4>2, <4>3 DEF Grace, Healthy
      <3>3. Grace(e) = 0
        BY <2>1, <2>3 DEF Grace, Healthy, Holds
      <3>4. Cardinality(Loose(e)) \in Nat /\ Cardinality(Loose(e)) <= faults
        BY <1>b, <3>3, LooseIssued DEF Billed
      <3>5. /\ IsFiniteSet(Loose(e) \union {claims[e] + 1})
            /\ Cardinality(Loose(e) \union {claims[e] + 1}) \in Nat
            /\ Cardinality(Loose(e) \union {claims[e] + 1}) <= Cardinality(Loose(e)) + 1
        <4>1. IsFiniteSet(Loose(e))
          BY LooseIssued
        <4>2. IsFiniteSet(Loose(e) \union {claims[e] + 1})
          BY <4>1, FS_AddElement
        <4>3. Cardinality(Loose(e) \union {claims[e] + 1}) \in
                {Cardinality(Loose(e)), Cardinality(Loose(e)) + 1}
          BY <4>1, FS_AddElement
        <4>4. QED
          BY <3>4, <4>2, <4>3
      <3>6. Cardinality(Loose(e)') \in Nat
            /\ Cardinality(Loose(e)') <= Cardinality(Loose(e) \union {claims[e] + 1})
        BY <3>1, <3>5, FS_Subset, FS_CardinalityType
      <3>7. QED
        BY <1>b, <2>2, <3>2, <3>4, <3>5, <3>6
    <2>4. CASE event[w] # e
      <3>1. Loose(e)' = Loose(e)
        BY <1>a, <2>1, <2>2, <2>4 DEF Loose, Publishing, WorkersTyped
      <3>2. Grace(e)' = 1 \/ Grace(e) = 0
        BY <1>a, <2>1, <2>2, <2>4 DEF Grace, Healthy, Holds, RowsTyped, WorkersTyped
      <3>3. QED
        BY <1>b, <1>d, <2>2, <3>1, <3>2, BillKept
    <2>5. QED
      BY <2>3, <2>4
  <1>5. ASSUME NEW w \in Workers, PublishRaises(w) PROVE Goal
    <2>1. /\ pc[w] = "publishing" /\ pc' = [pc EXCEPT ![w] = "raised"]
          /\ UNCHANGED <<rowVars, event, held, accepted, faults>>
      BY <1>5 DEF PublishRaises
    <2>2. Loose(e)' \subseteq Loose(e)
      BY <1>a, <2>1 DEF Loose, Publishing, WorkersTyped
    <2>3. CASE event[w] = e
      <3>1. held[w] \in Loose(e) /\ held[w] \notin Loose(e)'
        <4>1. held[w] \in Loose(e)
          BY <2>1, <2>3 DEF Loose, Publishing
        <4>2. held[w] \notin accepted[e]
          BY <2>1, <2>3 DEF Answering, Remembered
        <4>3. \A v \in Publishing(e)' : held'[v] # held[w]
          BY <1>a, <2>1, <2>3 DEF Publishing, WorkersTyped, Owned, DistinctHeld, Holding
        <4>4. QED
          BY <2>1, <4>1, <4>2, <4>3 DEF Loose
      <3>2. IsFiniteSet(Loose(e)) /\ Cardinality(Loose(e)) \in Nat
            /\ Cardinality(Loose(e)) <= faults + Grace(e)
        BY LooseIssued DEF Billed
      <3>3. IsFiniteSet(Loose(e) \ {held[w]})
            /\ Cardinality(Loose(e) \ {held[w]}) = Cardinality(Loose(e)) - 1
        BY <3>1, <3>2, FS_RemoveElement
      <3>4. Loose(e)' \subseteq Loose(e) \ {held[w]}
        BY <2>2, <3>1
      <3>5. Cardinality(Loose(e)') \in Nat
            /\ Cardinality(Loose(e)') <= Cardinality(Loose(e) \ {held[w]})
        BY <3>3, <3>4, FS_Subset, FS_CardinalityType
      <3>6. QED
        BY <1>b, <1>d, <2>1, <3>2, <3>3, <3>5
    <2>4. CASE event[w] # e
      <3>1. Grace(e)' = 1 \/ Grace(e) = 0
        BY <1>a, <2>1, <2>4 DEF Grace, Healthy, Holds, WorkersTyped
      <3>2. QED
        BY <1>b, <1>d, <2>1, <2>2, <3>1, BillKept
    <2>5. QED
      BY <2>3, <2>4
  <1>6. ASSUME NEW w \in Workers, PublishAnswerLost(w) \/ Crash(w) PROVE Goal
    <2>1. faults' = faults + 1
      BY <1>6 DEF PublishAnswerLost, Crash
    <2>2. Loose(e)' \subseteq Loose(e)
      <3>1. CASE PublishAnswerLost(w)
        <4>1. event[w] \in Events
          BY <3>1, HandOf DEF PublishAnswerLost, Holding
        <4>2. QED
          BY <1>a, <3>1, <4>1 DEF PublishAnswerLost, Accepts, Loose, Publishing, WorkersTyped
      <3>2. CASE Crash(w)
        BY <1>a, <3>2 DEF Crash, Loose, Publishing, WorkersTyped
      <3>3. QED
        BY <1>6, <3>1, <3>2
    <2>3. QED
      BY <1>b, <2>1, <2>2, BillKept
  <1>7. ASSUME NEW w \in Workers, ClaimLost(w) PROVE Goal
    <2>1. /\ pc[w] \in {"accepted", "raised"} /\ ClaimedEvent(w) = {}
          /\ pc' = [pc EXCEPT ![w] = "dispatch"]
          /\ \A v \in Workers \ {w} : event'[v] = event[v] /\ held'[v] = held[v]
          /\ UNCHANGED <<rowVars, accepted, faults>>
      BY <1>a, <1>7 DEF ClaimLost, Release, Answered, WorkersTyped
    <2>2. Loose(e)' \subseteq Loose(e)
      BY <1>a, <2>1 DEF Loose, Publishing, WorkersTyped
    <2>3. ASSUME Healthy(e) PROVE Healthy(e)'
      <3>1. PICK v \in Workers :
              Holds(v, e) /\ pc[v] \in {"publishing", "accepted", "marking_published"}
        BY <2>3 DEF Healthy
      <3>2. v # w
        <4> SUFFICES ASSUME v = w PROVE FALSE
          OBVIOUS
        <4>1. Locked(e)
          BY <2>1, <3>1 DEF ClaimedEvent, Holds
        <4>2. PICK u \in Workers : pc[u] \in InTransaction /\ event[u] = e
          BY <4>1 DEF Locked
        <4>3. pc[u] = "marking_published"
          BY <2>3, <4>2, HealthyHolds, <1>a DEF InTransaction
        <4>4. u = w
          BY <3>1, <4>2, <4>3 DEF Owned, LockedAsSelected, DistinctHeld, Holds, Holding, Answered
        <4>5. QED
          BY <2>1, <4>3, <4>4
      <3>3. Holds(v, e)' /\ pc'[v] = pc[v]
        BY <1>a, <2>1, <3>1, <3>2 DEF Holds, WorkersTyped
      <3>4. QED
        BY <2>1, <2>3, <3>1, <3>3 DEF Healthy
    <2>4. Grace(e)' = 1 \/ Grace(e) = 0
      BY <2>1, <2>3 DEF Grace
    <2>5. QED
      BY <1>b, <1>d, <2>1, <2>2, <2>4, BillKept
  <1>8. ASSUME NEW w \in Workers, MarkPublished(w) \/ MarkFailed(w) \/ MarkRecovered(w)
        PROVE  Goal
    <2>1. event[w] \in Events /\ pc[w] \in {"marking_published", "marking_failed", "recovering"}
      BY <1>8, HandOf DEF MarkPublished, MarkFailed, MarkRecovered, InTransaction
    <2>2. /\ pc'[w] \in {"dispatch", "recover"} /\ event'[w] = NoEvent
          /\ \A v \in Workers \ {w} : pc'[v] = pc[v] /\ event'[v] = event[v] /\ held'[v] = held[v]
          /\ UNCHANGED <<accepted, faults>>
      BY <1>a, <1>8 DEF MarkPublished, MarkFailed, MarkRecovered, Release, WorkersTyped
    <2>3. \A f \in Events \ {event[w]} :
            /\ status'[f] = status[f] /\ claim_id'[f] = claim_id[f]
            /\ claim_expires_at'[f] = claim_expires_at[f]
      BY <1>a, <1>8, <2>1 DEF MarkPublished, MarkFailed, MarkRecovered, ClearClaim, RowsTyped
    <2>4. Loose(e)' \subseteq Loose(e)
      BY <2>1, <2>2 DEF Loose, Publishing
    <2>5. Grace(e)' = 1 \/ Grace(e) = 0
      <3>1. CASE event[w] # e
        BY <2>1, <2>2, <2>3, <3>1 DEF Grace, Healthy, Holds
      <3>2. CASE event[w] = e /\ pc[w] = "marking_published"
        BY <1>a, <1>8, <3>2 DEF MarkPublished, MarkFailed, MarkRecovered, Grace, RowsTyped
      <3>3. CASE event[w] = e /\ pc[w] # "marking_published"
        <4>1. status[e] = "processing"
          BY <2>1, <3>3 DEF Owned, LockedAsSelected
        <4>2. ~Healthy(e)
          BY <1>a, <2>1, <3>3, HealthyHolds
        <4>3. QED
          BY <4>1, <4>2 DEF Grace
      <3>4. QED
        BY <3>1, <3>2, <3>3
    <2>6. QED
      BY <1>b, <1>d, <2>2, <2>4, <2>5, BillKept
  <1>9. ASSUME Tick PROVE Goal
    <2>1. /\ faults' = faults + Cardinality(Overrun)
          /\ claim_expires_at' =
               [f \in Events |-> IF status[f] = "processing"
                                 THEN AtLeast(-Horizon, claim_expires_at[f] - 1)
                                 ELSE claim_expires_at[f]]
          /\ UNCHANGED <<status, claim_id, pc, event, held, accepted>>
      BY <1>9 DEF Tick
    <2>2. Loose(e)' = Loose(e)
      BY <2>1 DEF Loose, Publishing
    <2>3. Cardinality(Overrun) \in Nat
      BY OverrunCount
    <2>4. CASE e \in Overrun
      <3>1. Cardinality(Overrun) >= 1
        <4>1. IsFiniteSet(Overrun)
          BY ConstantsAssumption, FS_Subset DEF Overrun
        <4>2. Cardinality(Overrun) # 0
          BY <2>4, <4>1, FS_EmptySet
        <4>3. QED
          BY <2>3, <4>2
      <3>2. QED
        BY <1>b, <2>1, <2>2, <2>3, <3>1, BillKept
    <2>5. CASE e \notin Overrun
      <3>1. ASSUME Healthy(e) PROVE Healthy(e)'
        <4>1. PICK v \in Workers :
                Holds(v, e) /\ pc[v] \in {"publishing", "accepted", "marking_published"}
          BY <3>1 DEF Healthy
        <4>2. claim_expires_at[e] # claim_timeout - PublishTimeout
          BY <2>5, <4>1 DEF Overrun
        <4>3. /\ claim_expires_at[e] \in Int /\ claim_timeout \in Int
              /\ PublishTimeout \in Int /\ Horizon \in Int
          BY <1>a, Parameters, ConstantsAssumption DEF RowsTyped
        <4>4. claim_expires_at[e] - 1 >= claim_timeout - PublishTimeout
          BY <3>1, <4>2, <4>3 DEF Healthy
        <4>5. claim_expires_at'[e] = AtLeast(-Horizon, claim_expires_at[e] - 1)
          BY <2>1, <4>1 DEF Holds
        <4>6. claim_expires_at'[e] >= claim_timeout - PublishTimeout
          <5>1. -Horizon \in Int /\ claim_expires_at[e] - 1 \in Int
            BY <4>3
          <5>2. /\ claim_expires_at'[e] >= claim_expires_at[e] - 1
                /\ claim_expires_at'[e] \in Int
            BY <4>5, <5>1, AtLeastInt
          <5>3. QED
            BY <4>3, <4>4, <5>2
        <4>7. Holds(v, e)' /\ pc'[v] = pc[v]
          BY <2>1, <4>1 DEF Holds
        <4>8. QED
          BY <4>1, <4>6, <4>7 DEF Healthy
      <3>2. Grace(e)' = 1 \/ Grace(e) = 0
        BY <2>1, <3>1 DEF Grace
      <3>3. QED
        BY <1>b, <1>d, <2>1, <2>2, <2>3, <3>2, BillKept
    <2>6. QED
      BY <2>4, <2>5
  <1>10. ASSUME FlipSwitch \/ UNCHANGED vars PROVE Goal
    <2>1. UNCHANGED <<rowVars, workerVars, accepted, faults>>
      BY <1>10 DEF FlipSwitch, vars
    <2>2. Loose(e)' = Loose(e) /\ Grace(e)' = Grace(e)
      BY <2>1 DEF Loose, Publishing, Grace, Healthy, Holds
    <2>3. QED
      BY <1>b, <1>d, <2>1, <2>2, BillKept
  <1>11. QED
    BY <1>1, <1>2, <1>3, <1>4, <1>5, <1>6, <1>7, <1>8, <1>9, <1>10 DEF Next, Run, Publish

LEMMA BilledInit == Init => Billed
  <1> SUFFICES ASSUME Init PROVE Billed
    OBVIOUS
  <1>1. \A e \in Events : Loose(e) = {}
    BY DEF Init, Loose, Publishing
  <1>2. Cardinality({}) = 0 /\ faults = 0
    BY FS_EmptySet DEF Init
  <1>3. Booted
    BY DEF Init, Booted
  <1>4. \A e \in Events : Grace(e) \in {0, 1}
    BY DEF Grace
  <1>5. QED
    BY <1>1, <1>2, <1>3, <1>4 DEF Billed

(* An event reaches its destination a second time only after a crash, a    *)
(* lost answer or a worker that outlived its publish timeout, one of them  *)
(* per duplicate, however long the dispatcher runs.                        *)
THEOREM DuplicatesHold == Spec => []DuplicatesNeedFaults
  <1>1. Typed /\ Owned /\ Answering /\ Billed => DuplicatesNeedFaults
    <2> SUFFICES ASSUME Typed, Owned, Answering, Billed, NEW e \in Events
                 PROVE  Cardinality(accepted[e]) <= 1 + faults
      BY DEF DuplicatesNeedFaults
    <2>1. accepted[e] \subseteq Loose(e)
      BY DEF Loose
    <2>2. Cardinality(accepted[e]) \in Nat
          /\ Cardinality(accepted[e]) <= Cardinality(Loose(e))
      BY <2>1, LooseIssued, FS_Subset, FS_CardinalityType
    <2>3. faults \in Nat /\ Grace(e) \in {0, 1}
      BY ConstantsAssumption DEF Typed, TypeOK, GhostsTyped, Grace
    <2>4. Cardinality(Loose(e)) \in Nat /\ Cardinality(Loose(e)) <= faults + Grace(e)
      BY LooseIssued DEF Billed
    <2>5. QED
      BY <2>2, <2>3, <2>4
  <1>2. Spec => [](Typed /\ Owned /\ Answering /\ Guarded /\ Billed)
    BY AlwaysGuarded, BilledInit, BilledStep, PTL DEF Spec
  <1>3. QED
    BY <1>1, <1>2, PTL
=============================================================================
