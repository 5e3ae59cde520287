---------------------------- MODULE OutboxDelivery ----------------------------
(***************************************************************************)
(* What the outbox promises its consumers (docs/events.md, "Delivery and   *)
(* replay semantics"), without workers, claims tokens, clocks or crashes:  *)
(* an event is taken for delivery any number of times; each taking may     *)
(* reach the destination, be refused, or both when the answer is lost, at  *)
(* any later time; the event ends delivered only on the strength of a      *)
(* taking the destination accepted, and ends abandoned only after          *)
(* MaxTries takings were refused.                                          *)
(***************************************************************************)
EXTENDS Integers, FiniteSets

CONSTANTS
  Items,    \* what is to be delivered
  MaxTries  \* how many refusals abandon an item; at least 1

VARIABLES
  phase,     \* per item: not recorded yet, waiting, taken, delivered, abandoned
  takings,   \* per item: how often it was taken, which numbers the takings
  tries,     \* per item: the takings that ended with a known answer
  reached,   \* per item: the takings the destination accepted
  rejected   \* per item: the takings whose delivery failed or seemed to

dvars == <<phase, takings, tries, reached, rejected>>

DInit ==
  /\ phase = [i \in Items |-> "unrecorded"]
  /\ takings = [i \in Items |-> 0]
  /\ tries = [i \in Items |-> 0]
  /\ reached = [i \in Items |-> {}]
  /\ rejected = [i \in Items |-> {}]

Record(i) ==
  /\ phase[i] = "unrecorded"
  /\ phase' = [phase EXCEPT ![i] = "waiting"]
  /\ UNCHANGED <<takings, tries, reached, rejected>>

Take(i) ==
  /\ phase[i] = "waiting"
  /\ phase' = [phase EXCEPT ![i] = "taken"]
  /\ takings' = [takings EXCEPT ![i] = @ + 1]
  /\ UNCHANGED <<tries, reached, rejected>>

(* Taking n, the current one or a forgotten one, gets its only answer.     *)
Answer(i, n) ==
  /\ n \in 1..takings[i]
  /\ n \notin reached[i] \union rejected[i]
  /\ \/ reached' = [reached EXCEPT ![i] = @ \union {n}] /\ UNCHANGED rejected
     \/ rejected' = [rejected EXCEPT ![i] = @ \union {n}] /\ UNCHANGED reached
     \/ /\ reached' = [reached EXCEPT ![i] = @ \union {n}]
        /\ rejected' = [rejected EXCEPT ![i] = @ \union {n}]
  /\ UNCHANGED <<phase, takings, tries>>

Confirm(i) ==
  /\ phase[i] = "taken"
  /\ takings[i] \in reached[i] \ rejected[i]
  /\ phase' = [phase EXCEPT ![i] = "delivered"]
  /\ tries' = [tries EXCEPT ![i] = @ + 1]
  /\ UNCHANGED <<takings, reached, rejected>>

Reject(i) ==
  /\ phase[i] = "taken"
  /\ takings[i] \in rejected[i]
  /\ tries' = [tries EXCEPT ![i] = @ + 1]
  /\ phase' = [phase EXCEPT ![i] = IF tries[i] + 1 < MaxTries THEN "waiting" ELSE "abandoned"]
  /\ UNCHANGED <<takings, reached, rejected>>

(* The taking is forgotten: nobody knows what became of it.                *)
GiveBack(i) ==
  /\ phase[i] = "taken"
  /\ phase' = [phase EXCEPT ![i] = "waiting"]
  /\ UNCHANGED <<takings, tries, reached, rejected>>

DNext ==
  \E i \in Items :
    \/ Record(i) \/ Take(i) \/ Confirm(i) \/ Reject(i) \/ GiveBack(i)
    \/ \E n \in 1..takings[i] : Answer(i, n)

DSpec == DInit /\ [][DNext]_dvars
=============================================================================
