---------------------------- MODULE AssignmentsProofs ----------------------------
(***************************************************************************)
(* Theorems about Assignments, for any tags, scopes and calls.  The        *)
(* inductive invariant ties the locks to the committed rows (an inserted   *)
(* row is not there yet, a locked or deleted one still is), and says of    *)
(* every call what it has locked and written of what it was asked for, but *)
(* for the rows that others changed meanwhile, and in which order.         *)
(***************************************************************************)
EXTENDS Assignments, FiniteSetTheorems, WellFoundedInduction, TLAPS

Early == {"idle", "called", "checked"}
Locking == {"locking", "locking_rest"}
Assigning == {"assigning", "inserting", "refetching"}

(* All elements of S in some order.                                        *)
Listings(S) == {s \in [1..Cardinality(S) -> S] : ToSet(s) = S}
LockSet == [owner : Requests, kind : {"locked", "inserted", "deleted"}] \union {Unlocked}

Shape ==
  /\ present \in SUBSET Keys
  /\ newest \in Listings(Keys)
  /\ tag_active \in SUBSET Tags
  /\ by_name \in Listings(Tags)
  /\ lock \in [Keys -> LockSet]
  /\ write_enabled \in BOOLEAN
  /\ pc \in [Requests -> Points]
  /\ service \in [Requests -> Services \union {"none"}]
  /\ scope \in [Requests -> Scopes]
  /\ tags \in [Requests -> SUBSET Tags]
  /\ order \in [Requests -> Listings(Tags) \union {<<>>}]
  /\ todo \in [Requests -> SUBSET Keys]
  /\ created \in [Requests -> SUBSET Keys]
  /\ removed \in [Requests -> SUBSET Keys]
  /\ disturbed \in [Requests -> SUBSET Keys]
  /\ calls \in 0..MaxCalls /\ toggles \in 0..MaxToggles
  /\ balance \in [Keys -> Int]

(* What a transaction inserted is not committed, what it locked or deleted *)
(* is.                                                                     *)
LocksMatchRows ==
  \A k \in Keys : /\ lock[k].kind = "inserted" => k \notin present
                  /\ lock[k].kind \in {"locked", "deleted"} => k \in present

(* Which locks a call has at which point.                                  *)
Staged(r) ==
  /\ created[r] = HeldBy(r, "inserted") /\ removed[r] = HeldBy(r, "deleted")
  /\ pc[r] \in Early => todo[r] = {} /\ \A k \in Keys : lock[k].owner # r
  /\ pc[r] \in Locking => created[r] = {}
  /\ pc[r] = "locking" => removed[r] = {}
  /\ pc[r] # "idle" => service[r] \in Services
  /\ pc[r] = "checked" => service[r] \notin Removers
  /\ pc[r] = "locking" => service[r] \notin Assigners
  /\ pc[r] = "locking_rest" => service[r] = "replace_resource_tags"
  /\ pc[r] \in Assigning => service[r] \notin Removers
  /\ service[r] \in Assigners => HeldBy(r, "locked") = {}
  /\ service[r] # "replace_resource_tags" => removed[r] = {}
  /\ pc[r] \in Locking => \A k \in todo[r] : k \in present /\ lock[k].owner # r
  /\ pc[r] \in Assigning => todo[r] \subseteq Requested(r) /\ todo[r] \intersect created[r] = {}
  /\ pc[r] \in {"inserting", "refetching"} => todo[r] # {}
  /\ pc[r] \notin {"idle", "called"} /\ service[r] \notin Removers =>
       order[r] \in Listings(Tags)

(* What it has done of what it was asked for, but for what others changed. *)
Worked(r) ==
  /\ \A k \in Keys : lock[k].owner = r => k \in InScope(r)
  /\ todo[r] \subseteq InScope(r)
  /\ pc[r] = "locking" /\ service[r] \in Removers =>
       /\ todo[r] \union HeldBy(r, "locked") \subseteq Requested(r)
       /\ Requested(r) \intersect present \subseteq
            todo[r] \union HeldBy(r, "locked") \union disturbed[r]
  /\ pc[r] = "locking" /\ service[r] = "replace_resource_tags" =>
       /\ (todo[r] \union HeldBy(r, "locked")) \intersect Requested(r) = {}
       /\ (InScope(r) \ Requested(r)) \intersect present \subseteq
            todo[r] \union HeldBy(r, "locked") \union disturbed[r]
  /\ pc[r] \in {"locking_rest"} \union Assigning =>
       /\ created[r] \subseteq Requested(r) /\ removed[r] \intersect Requested(r) = {}
       /\ service[r] = "replace_resource_tags" =>
            (InScope(r) \ Requested(r)) \intersect present \subseteq removed[r] \union disturbed[r]
  /\ pc[r] \in Assigning =>
       Requested(r) \subseteq todo[r] \union disturbed[r] \union present \union created[r]

(* x comes before any y in the sequence.                                   *)
Precedes(seq, x, y) == \E i \in DOMAIN seq : seq[i] = x /\ \A j \in 1..i : seq[j] # y

(* What it still has to lock or insert comes after what it has.            *)
Ordered(r) ==
  /\ pc[r] = "locking" =>
       \A a \in HeldBy(r, "locked"), b \in todo[r] : Precedes(newest, a, b)
  /\ pc[r] \in Assigning =>
       \A a \in created[r], b \in todo[r] : Precedes(order[r], a[2], b[2])

Call(r) == Staged(r) /\ Worked(r) /\ Ordered(r)

Inv ==
  /\ Shape /\ LocksMatchRows /\ EventsTellTheRows
  /\ \A r \in Requests : Call(r)

-----------------------------------------------------------------------------
(* Sequences.                                                              *)

(* A set of numbers has a least element.                                   *)
LEMMA Least ==
  ASSUME NEW T \in SUBSET Nat, T # {}
  PROVE  \E x \in T : \A y \in T : x <= y
<1>1. \E x \in T : \A y \in T : <<y, x>> \notin OpToRel(<, Nat)
  BY WFMin, NatLessThanWellFounded
<1>2. \A x, y \in Nat : <<y, x>> \notin OpToRel(<, Nat) => x <= y
  BY DEF OpToRel
<1> QED BY <1>1, <1>2

(* FirstIn finds an element of the set, and it precedes the others.        *)
LEMMA FirstInSet ==
  ASSUME NEW n \in Nat, NEW seq, DOMAIN seq = 1..n, NEW S, \E i \in 1..n : seq[i] \in S
  PROVE  /\ FirstIn(seq, S) \in S
         /\ \A y \in S : y # FirstIn(seq, S) => Precedes(seq, FirstIn(seq, S), y)
<1> DEFINE T == {i \in 1..n : seq[i] \in S}
           first == CHOOSE i \in DOMAIN seq : seq[i] \in S /\ \A j \in 1..i-1 : seq[j] \notin S
<1>1. T \in SUBSET Nat /\ T # {}
  OBVIOUS
<1>2. PICK i \in T : \A j \in T : i <= j
  BY <1>1, Least
<1>3. i \in DOMAIN seq /\ seq[i] \in S /\ \A j \in 1..i-1 : seq[j] \notin S
  <2>1. \A j \in 1..i-1 : j \in 1..n /\ ~(i <= j)
    BY <1>2
  <2> QED BY <1>2, <2>1
<1>4. first \in DOMAIN seq /\ seq[first] \in S /\ \A j \in 1..first-1 : seq[j] \notin S
  BY <1>3
<1>5. FirstIn(seq, S) = seq[first]
  BY DEF FirstIn
<1> HIDE DEF first
<1>6. ASSUME NEW y \in S, y # seq[first]
      PROVE  Precedes(seq, seq[first], y)
  <2>1. first \in 1..n
    BY <1>4
  <2>2. \A j \in 1..first : j = first \/ j \in 1..first-1
    BY <2>1
  <2>3. \A j \in 1..first : seq[j] # y
    BY <1>4, <1>6, <2>2
  <2> QED BY <1>4, <2>3 DEF Precedes
<1> QED BY <1>4, <1>5, <1>6

(* Nobody waits in a circle for what comes later in one sequence.          *)
LEMMA NoCircle ==
  ASSUME NEW n \in Nat, NEW seq, DOMAIN seq = 1..n, NEW M, M # {}, NEW f,
         \A r \in M : \E i \in 1..n : seq[i] = f[r],
         \A r \in M : \E q \in M : Precedes(seq, f[r], f[q])
  PROVE  FALSE
<1> DEFINE Before(i) == \E r \in M : \A j \in 1..i : seq[j] # f[r]
           T == {d \in 0..n : Before(n - d)}
<1>1. T # {} /\ T \in SUBSET Nat
  <2>1. PICK r \in M : TRUE
    OBVIOUS
  <2>2. Before(0)
    BY <2>1
  <2>3. n - n = 0 /\ n \in 0..n
    OBVIOUS
  <2> HIDE DEF Before
  <2>4. n \in T
    BY <2>2, <2>3
  <2>5. \A d \in T : d \in Nat
    OBVIOUS
  <2> QED BY <2>4, <2>5
<1>2. PICK d \in T : \A e \in T : d <= e
  BY <1>1, Least
<1>3. PICK r \in M : \A j \in 1..(n - d) : seq[j] # f[r]
  BY <1>2
<1>4. PICK q \in M : Precedes(seq, f[r], f[q])
  OBVIOUS
<1>5. PICK i \in 1..n : seq[i] = f[r] /\ \A j \in 1..i : seq[j] # f[q]
  BY <1>4 DEF Precedes
<1>6. i > n - d
  <2>1. i \notin 1..(n - d)
    BY <1>3, <1>5
  <2>2. d \in 0..n
    BY <1>2
  <2> QED BY <1>5, <2>1, <2>2
<1>7. Before(i)
  BY <1>5
<1> HIDE DEF Before
<1>8. n - i \in 0..n /\ n - (n - i) = i
  BY <1>5
<1>9. n - i \in T
  BY <1>7, <1>8
<1>10. d <= n - i
  BY <1>2, <1>9
<1> QED BY <1>2, <1>5, <1>6, <1>10

(* A finite set can be listed, and SetToSeq does.                          *)
LEMMA Listed ==
  ASSUME NEW S, IsFiniteSet(S)
  PROVE  /\ Cardinality(S) \in Nat
         /\ SetToSeq(S) \in Listings(S)
         /\ \A s \in Listings(S) : /\ DOMAIN s = 1..Cardinality(S) /\ ToSet(s) = S
                                   /\ \A x \in S : \E i \in 1..Cardinality(S) : s[i] = x
<1> DEFINE n == Cardinality(S)
<1>1. n \in Nat /\ ExistsBijection(1..n, S)
  BY FS_CardinalityType
<1> HIDE DEF n
<1>2. PICK f \in Bijection(1..n, S) : TRUE
  BY <1>1 DEF ExistsBijection
<1>3. f \in [1..n -> S] /\ IsInjective(f)
  BY <1>2 DEF Bijection, Injection, IsInjective
<1>4. SetToSeq(S) \in [1..n -> S] /\ IsInjective(SetToSeq(S))
  <2>1. SetToSeq(S) = CHOOSE g \in [1..n -> S] : IsInjective(g)
    BY DEF SetToSeq, n
  <2> QED BY <1>3, <2>1
<1>5. SetToSeq(S) \in Injection(1..n, S)
  BY <1>4 DEF Injection
<1>6. IsFiniteSet(1..n) /\ Cardinality(1..n) = n
  <2>1. 1 \in Int /\ n \in Int
    BY <1>1
  <2>2. /\ IsFiniteSet(1..n)
        /\ Cardinality(1..n) = IF 1 > n THEN 0 ELSE n - 1 + 1
    BY <2>1, FS_Interval
  <2> QED BY <1>1, <2>2
<1>7. SetToSeq(S) \in Surjection(1..n, S)
  BY <1>5, <1>6, FS_Injection DEF n
<1>8. ToSet(SetToSeq(S)) = S
  BY <1>4, <1>7 DEF Surjection, ToSet
<1>9. ASSUME NEW s \in Listings(S)
      PROVE  /\ DOMAIN s = 1..n /\ ToSet(s) = S
             /\ \A x \in S : \E i \in 1..n : s[i] = x
  BY DEF Listings, ToSet, n
<1> QED BY <1>1, <1>4, <1>8, <1>9 DEF n, Listings

LEMMA KeysFinite == IsFiniteSet(Keys) /\ IsFiniteSet(Tags)
<1>1. IsFiniteSet(Tags) /\ IsFiniteSet(Scopes) /\ Compatible \subseteq Scopes \X Tags
  BY AssignmentsAssumption
<1>2. IsFiniteSet(Scopes \X Tags)
  BY <1>1, FS_Product
<1> QED BY <1>1, <1>2, FS_Subset DEF Keys

(* A row that is inserted becomes the newest; the others keep their order. *)
LEMMA NewestListed ==
  ASSUME newest \in Listings(Keys), NEW k \in Keys
  PROVE  /\ Newest(k) \in Listings(Keys)
         /\ \A a, b \in Keys \ {k} : Precedes(newest, a, b) => Precedes(Newest(k), a, b)
<1> DEFINE n == Cardinality(Keys)
           p == Place(k)
<1>1. n \in Nat /\ DOMAIN newest = 1..n /\ \A x \in Keys : \E i \in 1..n : newest[i] = x
  BY Listed, KeysFinite
<1>2. \A i \in 1..n : newest[i] \in Keys
  BY DEF Listings
<1> HIDE DEF n
<1>3. p \in 1..n /\ newest[p] = k
  BY <1>1 DEF Place
<1> HIDE DEF p
<1>4. /\ DOMAIN Newest(k) = 1..n
      /\ \A i \in 1..n : Newest(k)[i] = IF i = 1 THEN k ELSE IF i \in 2..p THEN newest[i - 1]
                                        ELSE newest[i]
  BY <1>1 DEF Newest, p
<1>5. \A i \in 2..p : i - 1 \in 1..n
  BY <1>1, <1>3
<1>6. Newest(k) \in [1..n -> Keys]
  <2>1. Newest(k) = [i \in 1..n |-> Newest(k)[i]]
    BY <1>1 DEF Newest
  <2>2. \A i \in 1..n : Newest(k)[i] \in Keys
    BY <1>2, <1>4, <1>5
  <2> HIDE DEF Newest
  <2> QED BY <2>1, <2>2
<1>7. ASSUME NEW i \in 1..n, newest[i] # k
      PROVE  \E m \in 1..n : /\ Newest(k)[m] = newest[i]
                             /\ (m \in 2..p /\ m = i + 1) \/ (m = i /\ i > p)
  <2>1. CASE i < p
    <3>1. i + 1 \in 2..p /\ i + 1 \in 1..n /\ i + 1 # 1 /\ (i + 1) - 1 = i
      BY <1>1, <1>3, <2>1
    <3>2. Newest(k)[i + 1] = newest[(i + 1) - 1]
      BY <1>4, <3>1
    <3>3. Newest(k)[i + 1] = newest[i]
      BY <3>1, <3>2
    <3> HIDE DEF Newest
    <3> QED BY <3>1, <3>3
  <2>2. CASE ~(i < p)
    <3>1. i # p
      BY <1>3, <1>7
    <3>2. i > p /\ i \notin 2..p /\ i # 1
      BY <1>1, <1>3, <2>2, <3>1
    <3> QED BY <1>4, <3>2
  <2> QED BY <2>1, <2>2
<1>8. ToSet(Newest(k)) = Keys
  <2>1. ASSUME NEW x \in Keys
        PROVE  \E m \in 1..n : Newest(k)[m] = x
    <3>1. CASE x = k
      <4>1. 1 \in 1..n
        BY <1>1, <1>3
      <4> QED BY <1>4, <3>1, <4>1
    <3>2. CASE x # k
      BY <1>1, <1>7, <3>2
    <3> QED BY <3>1, <3>2
  <2> HIDE DEF Newest
  <2> QED BY <1>4, <1>6, <2>1 DEF ToSet
<1>9. ASSUME NEW a \in Keys \ {k}, NEW b \in Keys \ {k}, Precedes(newest, a, b)
      PROVE  Precedes(Newest(k), a, b)
  <2>1. PICK i \in 1..n : newest[i] = a /\ \A j \in 1..i : newest[j] # b
    BY <1>1, <1>9 DEF Precedes
  <2>2. PICK m \in 1..n : /\ Newest(k)[m] = a
                          /\ (m \in 2..p /\ m = i + 1) \/ (m = i /\ i > p)
    BY <1>7, <2>1
  <2>3. ASSUME NEW j \in 1..m
        PROVE  Newest(k)[j] # b
    <3>1. j \in 1..n
      BY <1>1, <2>2
    <3>2. CASE j = 1
      BY <1>4, <3>1, <3>2
    <3>3. CASE j # 1 /\ j \in 2..p
      <4>1. j - 1 \in 1..i
        BY <1>1, <2>1, <2>2, <3>3
      <4> QED BY <1>4, <2>1, <3>1, <3>3, <4>1
    <3>4. CASE j # 1 /\ j \notin 2..p
      <4>1. j \in 1..i
        BY <1>1, <1>3, <2>1, <2>2, <3>1, <3>4
      <4> QED BY <1>4, <2>1, <3>1, <3>4, <4>1
    <3> QED BY <3>2, <3>3, <3>4
  <2> QED BY <1>4, <2>2, <2>3 DEF Precedes
<1> QED BY <1>6, <1>8, <1>9 DEF Listings, n

-----------------------------------------------------------------------------
(* The locks and the row that is next.                                     *)
LEMMA LockFields ==
  ASSUME Shape
  PROVE  /\ Nobody \notin Requests /\ Unlocked \in LockSet
         /\ Unlocked.owner = Nobody /\ Unlocked.kind = "none"
         /\ \A k \in Keys : lock[k] \in LockSet /\ lock[k].owner \in Requests \union {Nobody}
         /\ \A k \in Keys : lock[k].owner = Nobody => lock[k] = Unlocked
         /\ \A k \in Keys : lock[k].owner # Nobody =>
              lock[k].kind \in {"locked", "inserted", "deleted"}
         /\ \A r \in Requests, kind \in {"locked", "inserted", "deleted"} :
              [owner |-> r, kind |-> kind] \in LockSet
<1>1. Nobody \notin Requests
  BY AssignmentsAssumption
<1>2. Unlocked \in LockSet /\ Unlocked.owner = Nobody /\ Unlocked.kind = "none"
  BY DEF Unlocked, LockSet
<1>3. \A k \in Keys : lock[k] \in LockSet
  BY DEF Shape
<1>4. \A x \in LockSet : /\ x.owner \in Requests \union {Nobody}
                         /\ x.owner = Nobody => x = Unlocked
                         /\ x.owner # Nobody => /\ x.kind \in {"locked", "inserted", "deleted"}
                                                /\ x = [owner |-> x.owner, kind |-> x.kind]
  BY <1>1 DEF LockSet, Unlocked
<1>5. \A r \in Requests, kind \in {"locked", "inserted", "deleted"} :
        [owner |-> r, kind |-> kind] \in LockSet
  BY DEF LockSet
<1> QED BY <1>1, <1>2, <1>3, <1>4, <1>5

LEMMA HeldFields ==
  ASSUME Shape, NEW r \in Requests, NEW k \in Keys
  PROVE  \A kind \in {"locked", "inserted", "deleted"} :
           k \in HeldBy(r, kind) <=> lock[k].owner = r /\ lock[k].kind = kind
<1> SUFFICES ASSUME NEW kind \in {"locked", "inserted", "deleted"}
             PROVE  k \in HeldBy(r, kind) <=> lock[k].owner = r /\ lock[k].kind = kind
  OBVIOUS
<1>1. k \in HeldBy(r, kind) <=> lock[k] = [owner |-> r, kind |-> kind]
  BY DEF HeldBy
<1>2. Nobody \notin Requests /\ lock[k] \in LockSet
  BY AssignmentsAssumption DEF Shape
<1>3. \A x \in LockSet : x.owner # Nobody => x = [owner |-> x.owner, kind |-> x.kind]
  BY DEF LockSet, Unlocked
<1>4. lock[k].owner = r => lock[k] = [owner |-> lock[k].owner, kind |-> lock[k].kind]
  BY <1>2, <1>3
<1> QED BY <1>1, <1>4

LEMMA InScopeKeys ==
  ASSUME NEW r \in Requests
  PROVE  /\ Requested(r) \subseteq InScope(r) /\ InScope(r) \subseteq Keys
         /\ \A k \in InScope(r) : k = <<scope[r], k[2]>> /\ k[2] \in Tags
         /\ \A k \in Requested(r) : k[2] \in tags[r]
         /\ \A k \in InScope(r) : k[2] \in tags[r] => k \in Requested(r)
BY AssignmentsAssumption DEF Requested, InScope, Keys

LEMMA NextToLockIn ==
  ASSUME Shape, NEW r \in Requests, todo[r] # {}
  PROVE  /\ NextToLock(r) \in todo[r] /\ NextToLock(r) \in Keys
         /\ \A b \in todo[r] \ {NextToLock(r)} : Precedes(newest, NextToLock(r), b)
<1>1. todo[r] \subseteq Keys /\ newest \in Listings(Keys)
  BY DEF Shape
<1>2. /\ Cardinality(Keys) \in Nat /\ DOMAIN newest = 1..Cardinality(Keys)
      /\ \A x \in Keys : \E i \in 1..Cardinality(Keys) : newest[i] = x
  BY <1>1, Listed, KeysFinite
<1>3. \E i \in 1..Cardinality(Keys) : newest[i] \in todo[r]
  BY <1>1, <1>2
<1>4. /\ FirstIn(newest, todo[r]) \in todo[r]
      /\ \A y \in todo[r] : y # FirstIn(newest, todo[r]) =>
           Precedes(newest, FirstIn(newest, todo[r]), y)
  BY <1>2, <1>3, FirstInSet
<1> QED BY <1>1, <1>4 DEF NextToLock

LEMMA NextToAssignIn ==
  ASSUME Shape, NEW r \in Requests, todo[r] # {}, todo[r] \subseteq Requested(r),
         order[r] \in Listings(Tags)
  PROVE  /\ NextToAssign(r) \in todo[r] /\ NextToAssign(r) \in Keys
         /\ NextToAssign(r) \in Requested(r)
         /\ NextToAssign(r)[2] \in Tags
         /\ \A b \in todo[r] \ {NextToAssign(r)} :
              Precedes(order[r], NextToAssign(r)[2], b[2])
<1> DEFINE S == TagsToAssign(r)
           t == FirstIn(order[r], S)
           n == Cardinality(Tags)
<1>1. /\ n \in Nat /\ DOMAIN order[r] = 1..n
      /\ \A x \in Tags : \E i \in 1..n : order[r][i] = x
  BY Listed, KeysFinite
<1>2. \A k \in todo[r] : k \in Keys /\ k = <<scope[r], k[2]>> /\ k[2] \in Tags
  BY InScopeKeys
<1>3. \A k \in todo[r] : k[2] \in S
  BY <1>2 DEF TagsToAssign
<1>4. S \subseteq Tags /\ \A x \in S : <<scope[r], x>> \in todo[r]
  BY DEF TagsToAssign
<1>5. S # {}
  BY <1>3
<1> HIDE DEF S, n
<1>6. \E i \in 1..n : order[r][i] \in S
  BY <1>1, <1>4, <1>5
<1>7. t \in S /\ \A y \in S : y # t => Precedes(order[r], t, y)
  BY <1>1, <1>6, FirstInSet
<1>8. NextToAssign(r) = <<scope[r], t>>
  BY DEF NextToAssign, S
<1> HIDE DEF t
<1>9. NextToAssign(r) \in todo[r] /\ NextToAssign(r)[2] = t
  BY <1>4, <1>7, <1>8
<1>10. ASSUME NEW b \in todo[r] \ {NextToAssign(r)}
       PROVE  Precedes(order[r], t, b[2])
  <2>1. b[2] # t
    BY <1>2, <1>8, <1>10
  <2> QED BY <1>3, <1>7, <2>1
<1> QED BY <1>2, <1>4, <1>7, <1>9, <1>10

-----------------------------------------------------------------------------
(* Other calls.  What a step may do to them: commit ins and del, which take*)
(* none of their locks and count as disturbance.                           *)
Changes(ins, del) ==
  /\ ins \in SUBSET (Keys \ present) /\ del \in SUBSET present
  /\ present' = (present \union ins) \ del

Apart(q, ins, del) ==
  /\ pc'[q] = pc[q] /\ service'[q] = service[q] /\ scope'[q] = scope[q] /\ tags'[q] = tags[q]
  /\ order'[q] = order[q] /\ created'[q] = created[q] /\ removed'[q] = removed[q]
  /\ \A k \in Keys : /\ lock'[k].owner = q <=> lock[k].owner = q
                     /\ lock[k].owner = q => lock'[k] = lock[k] /\ k \notin ins \union del
  /\ todo'[q] = IF pc[q] \in Locking THEN todo[q] \ del ELSE todo[q]
  /\ disturbed'[q] = disturbed[q] \union ins \union del
  /\ \A a, b \in present : Precedes(newest, a, b) => Precedes(newest', a, b)

LEMMA OthersKeep ==
  ASSUME Inv, NEW q \in Requests, NEW ins, NEW del, Changes(ins, del), Apart(q, ins, del)
  PROVE  Call(q)'
<1>1. Shape /\ LocksMatchRows /\ Staged(q) /\ Worked(q) /\ Ordered(q)
  BY DEF Inv, Call
<1>2. \A kind : HeldBy(q, kind)' = HeldBy(q, kind)
  BY DEF HeldBy, Apart
<1>3. InScope(q)' = InScope(q) /\ Requested(q)' = Requested(q)
  BY DEF InScope, Requested, Apart
<1>4. \A k : k \in present' <=> (k \in present \/ k \in ins) /\ k \notin del
  BY DEF Changes
<1>5. todo'[q] \subseteq todo[q] /\ (pc[q] \notin Locking => todo'[q] = todo[q])
  BY DEF Apart
<1>6. Staged(q)'
  <2>1. \A k \in Keys : lock'[k].owner = q <=> lock[k].owner = q
    BY DEF Apart
  <2>2. pc[q] \in Locking => \A k \in todo'[q] : k \in present' /\ lock'[k].owner # q
    <3> SUFFICES ASSUME pc[q] \in Locking, NEW k \in todo'[q]
                 PROVE  k \in present' /\ lock'[k].owner # q
      OBVIOUS
    <3>1. k \in todo[q] /\ k \notin del /\ k \in Keys
      BY <1>1 DEF Apart, Shape
    <3> QED BY <1>1, <1>4, <2>1, <3>1 DEF Staged
  <2>3. todo[q] = {} => todo'[q] = {}
    BY <1>5
  <2>4. pc[q] \in {"inserting", "refetching"} => todo'[q] = todo[q]
    BY <1>5 DEF Locking
  <2>5. pc[q] \in Assigning => todo'[q] = todo[q]
    BY <1>5 DEF Locking, Assigning
  <2> QED BY <1>1, <1>2, <1>3, <2>1, <2>2, <2>3, <2>4, <2>5 DEF Staged, Apart
<1>7. Worked(q)'
  <2>1. \A k \in Keys : lock'[k].owner = q => k \in InScope(q)
    BY <1>1 DEF Worked, Apart
  <2>2. todo'[q] \subseteq InScope(q)
    BY <1>1, <1>5 DEF Worked
  <2>3. ASSUME pc[q] = "locking", service[q] \in Removers
        PROVE  /\ todo'[q] \union HeldBy(q, "locked") \subseteq Requested(q)
               /\ Requested(q) \intersect present' \subseteq
                    todo'[q] \union HeldBy(q, "locked") \union disturbed'[q]
    BY <1>1, <1>4, <1>5, <2>3 DEF Worked, Apart, Locking
  <2>4. ASSUME pc[q] = "locking", service[q] = "replace_resource_tags"
        PROVE  /\ (todo'[q] \union HeldBy(q, "locked")) \intersect Requested(q) = {}
               /\ (InScope(q) \ Requested(q)) \intersect present' \subseteq
                    todo'[q] \union HeldBy(q, "locked") \union disturbed'[q]
    BY <1>1, <1>4, <1>5, <2>4 DEF Worked, Apart, Locking
  <2>5. ASSUME pc[q] \in {"locking_rest"} \union Assigning
        PROVE  /\ created[q] \subseteq Requested(q) /\ removed[q] \intersect Requested(q) = {}
               /\ service[q] = "replace_resource_tags" =>
                    (InScope(q) \ Requested(q)) \intersect present' \subseteq
                       removed[q] \union disturbed'[q]
    BY <1>1, <1>4, <2>5 DEF Worked, Apart
  <2>6. ASSUME pc[q] \in Assigning
        PROVE  Requested(q) \subseteq todo'[q] \union disturbed'[q] \union present' \union created[q]
    BY <1>1, <1>4, <1>5, <2>6 DEF Worked, Apart, Locking, Assigning
  <2> QED BY <1>2, <1>3, <2>1, <2>2, <2>3, <2>4, <2>5, <2>6 DEF Worked, Apart
<1>8. Ordered(q)'
  <2>1. ASSUME pc[q] = "locking", NEW a \in HeldBy(q, "locked"), NEW b \in todo'[q]
        PROVE  Precedes(newest', a, b)
    <3>1. a \in present
      <4>1. a \in Keys /\ lock[a] = [owner |-> q, kind |-> "locked"]
        BY DEF HeldBy
      <4>2. lock[a].kind = "locked"
        BY <4>1
      <4> QED BY <1>1, <4>1, <4>2 DEF LocksMatchRows
    <3>2. b \in todo[q] /\ b \in present
      BY <1>1, <1>5, <2>1 DEF Staged, Locking
    <3>3. Precedes(newest, a, b)
      BY <1>1, <2>1, <3>2 DEF Ordered
    <3> QED BY <3>1, <3>2, <3>3 DEF Apart
  <2>2. pc[q] \in Assigning =>
          \A a \in created[q], b \in todo'[q] : Precedes(order[q], a[2], b[2])
    BY <1>1, <1>5 DEF Ordered
  <2> QED BY <1>2, <2>1, <2>2 DEF Ordered, Apart, Precedes
<1> QED BY <1>6, <1>7, <1>8 DEF Call

(* A step of r that keeps its own call right keeps the invariant.          *)
LEMMA StepKeeps ==
  ASSUME Inv, NEW r \in Requests, NEW ins, NEW del, Changes(ins, del),
         \A q \in Requests \ {r} : Apart(q, ins, del),
         Shape', LocksMatchRows', EventsTellTheRows', Call(r)'
  PROVE  Inv'
BY OthersKeep DEF Inv

(* A step that commits nothing and takes no lock.                          *)
Elsewhere(r) ==
  \A q \in Requests \ {r} :
    /\ pc'[q] = pc[q] /\ service'[q] = service[q] /\ scope'[q] = scope[q] /\ tags'[q] = tags[q]
    /\ order'[q] = order[q] /\ created'[q] = created[q] /\ removed'[q] = removed[q]
    /\ todo'[q] = todo[q] /\ disturbed'[q] = disturbed[q]

LEMMA QuietKeeps ==
  ASSUME Inv, NEW r \in Requests, UNCHANGED <<present, newest, lock, balance>>,
         Elsewhere(r), Shape', Call(r)'
  PROVE  Inv'
<1>1. Changes({}, {})
  BY DEF Changes
<1>2. \A q \in Requests \ {r} : Apart(q, {}, {})
  BY DEF Apart, Elsewhere
<1>3. LocksMatchRows' /\ EventsTellTheRows'
  BY DEF Inv, LocksMatchRows, EventsTellTheRows
<1> QED BY <1>1, <1>2, <1>3, StepKeeps

-----------------------------------------------------------------------------
(* The end of a call.                                                      *)
LEMMA Released ==
  ASSUME Inv, NEW r \in Requests, Release(r), todo'[r] = {},
         todo' \in [Requests -> SUBSET Keys], disturbed' \in [Requests -> SUBSET Keys],
         present' \in SUBSET Keys, balance' \in [Keys -> Int]
  PROVE  /\ Shape' /\ Call(r)' /\ newest' = newest
         /\ \A k \in Keys : lock'[k] = IF lock[k].owner = r THEN Unlocked ELSE lock[k]
         /\ \A q \in Requests \ {r} :
              /\ pc'[q] = pc[q] /\ service'[q] = service[q] /\ scope'[q] = scope[q]
              /\ tags'[q] = tags[q] /\ order'[q] = order[q] /\ created'[q] = created[q]
              /\ removed'[q] = removed[q]
              /\ \A k \in Keys : /\ lock'[k].owner = q <=> lock[k].owner = q
                                 /\ lock[k].owner = q => lock'[k] = lock[k]
<1>1. Shape
  BY DEF Inv
<1>2. \A k \in Keys : lock'[k] = IF lock[k].owner = r THEN Unlocked ELSE lock[k]
  BY DEF Release
<1>3. ASSUME NEW q \in Requests \ {r}
      PROVE  /\ pc'[q] = pc[q] /\ service'[q] = service[q] /\ scope'[q] = scope[q]
             /\ tags'[q] = tags[q] /\ order'[q] = order[q] /\ created'[q] = created[q]
             /\ removed'[q] = removed[q]
             /\ \A k \in Keys : /\ lock'[k].owner = q <=> lock[k].owner = q
                                /\ lock[k].owner = q => lock'[k] = lock[k]
  <2>1. /\ pc'[q] = pc[q] /\ service'[q] = service[q] /\ scope'[q] = scope[q]
        /\ tags'[q] = tags[q] /\ order'[q] = order[q] /\ created'[q] = created[q]
        /\ removed'[q] = removed[q]
    BY <1>1 DEF Release, Goto, Shape
  <2>2. q # Nobody /\ q # r
    BY <1>1, LockFields
  <2> QED BY <1>1, <1>2, <2>1, <2>2, LockFields
<1>4. Shape'
  <2>1. lock' \in [Keys -> LockSet]
    BY <1>1, LockFields DEF Release, Shape
  <2>2. pc' \in [Requests -> Points] /\ service' \in [Requests -> Services \union {"none"}]
    BY <1>1 DEF Release, Goto, Shape, Points
  <2>3. /\ scope' \in [Requests -> Scopes] /\ tags' \in [Requests -> SUBSET Tags]
        /\ order' \in [Requests -> Listings(Tags) \union {<<>>}]
    BY <1>1, AssignmentsAssumption DEF Release, Shape
  <2>4. created' \in [Requests -> SUBSET Keys] /\ removed' \in [Requests -> SUBSET Keys]
    BY <1>1 DEF Release, Shape
  <2>5. /\ newest' \in Listings(Keys) /\ tag_active' \in SUBSET Tags
        /\ by_name' \in Listings(Tags) /\ write_enabled' \in BOOLEAN
        /\ calls' \in 0..MaxCalls /\ toggles' \in 0..MaxToggles
    BY <1>1 DEF Release, envVars, Shape
  <2> QED BY <2>1, <2>2, <2>3, <2>4, <2>5 DEF Shape
<1>5. /\ pc'[r] = "idle" /\ service'[r] = "none" /\ created'[r] = {} /\ removed'[r] = {}
      /\ newest' = newest
  BY <1>1 DEF Release, Goto, Shape
<1>6. \A k \in Keys : lock'[k].owner # r
  BY <1>1, <1>2, LockFields
<1>7. \A kind : HeldBy(r, kind)' = {}
  BY <1>6 DEF HeldBy
<1>8. Staged(r)'
  BY <1>5, <1>6, <1>7 DEF Staged, Early, Locking, Assigning, Assigners
<1>9. Worked(r)'
  BY <1>5, <1>6 DEF Worked, Locking, Assigning
<1>10. Ordered(r)'
  BY <1>5 DEF Ordered, Assigning
<1> QED BY <1>2, <1>3, <1>4, <1>5, <1>8, <1>9, <1>10 DEF Call

LEMMA RollBackKeeps ==
  ASSUME Inv, NEW r \in Requests, RollBack(r)
  PROVE  Inv' /\ present' = present
<1>1. Shape /\ LocksMatchRows /\ EventsTellTheRows
  BY DEF Inv
<1>2. /\ Release(r) /\ todo' = [todo EXCEPT ![r] = {}]
      /\ disturbed' = [disturbed EXCEPT ![r] = {}] /\ UNCHANGED <<present, balance>>
  BY DEF RollBack
<1>3. /\ todo'[r] = {} /\ todo' \in [Requests -> SUBSET Keys]
      /\ disturbed' \in [Requests -> SUBSET Keys]
      /\ present' \in SUBSET Keys /\ balance' \in [Keys -> Int]
      /\ \A q \in Requests \ {r} : todo'[q] = todo[q] /\ disturbed'[q] = disturbed[q]
  BY <1>1, <1>2 DEF Shape
<1>4. /\ Shape' /\ Call(r)' /\ newest' = newest
      /\ \A k \in Keys : lock'[k] = IF lock[k].owner = r THEN Unlocked ELSE lock[k]
      /\ \A q \in Requests \ {r} :
           /\ pc'[q] = pc[q] /\ service'[q] = service[q] /\ scope'[q] = scope[q]
           /\ tags'[q] = tags[q] /\ order'[q] = order[q] /\ created'[q] = created[q]
           /\ removed'[q] = removed[q]
           /\ \A k \in Keys : /\ lock'[k].owner = q <=> lock[k].owner = q
                              /\ lock[k].owner = q => lock'[k] = lock[k]
  BY <1>2, <1>3, Released
<1>5. Changes({}, {})
  BY <1>2 DEF Changes
<1>6. \A q \in Requests \ {r} : Apart(q, {}, {})
  BY <1>3, <1>4 DEF Apart
<1>7. LocksMatchRows'
  BY <1>1, <1>2, <1>4, LockFields DEF LocksMatchRows
<1>8. EventsTellTheRows'
  BY <1>1, <1>2 DEF EventsTellTheRows
<1> QED BY <1>2, <1>4, <1>5, <1>6, <1>7, <1>8, StepKeeps

LEMMA CommitKeeps ==
  ASSUME Inv, NEW r \in Requests, NEW gone \in SUBSET Keys,
         \A k \in gone : lock[k].owner = r /\ lock[k].kind \in {"locked", "deleted"},
         Commit(r, created[r], gone)
  PROVE  Inv' /\ present' = (present \union created[r]) \ gone
<1> DEFINE ins == HeldBy(r, "inserted")
<1>1. Shape /\ LocksMatchRows /\ EventsTellTheRows /\ created[r] = ins
  BY DEF Inv, Call, Staged
<1>2. /\ ins \subseteq Keys /\ \A k \in ins : lock[k].owner = r /\ lock[k].kind = "inserted"
      /\ \A k \in ins : k \notin present
      /\ \A k \in gone : k \in present /\ k \notin ins
  <2>1. ins \subseteq Keys
    BY DEF HeldBy
  <2>2. \A k \in ins : lock[k].owner = r /\ lock[k].kind = "inserted"
    BY DEF HeldBy
  <2> HIDE DEF ins
  <2> QED BY <1>1, <2>1, <2>2 DEF LocksMatchRows
<1>3. /\ Release(r)
      /\ present' = (present \union ins) \ gone
      /\ balance' = [k \in Keys |-> balance[k] + (IF k \in ins THEN 1 ELSE 0)
                                              - (IF k \in gone THEN 1 ELSE 0)]
      /\ todo' = [q \in Requests |-> IF q = r THEN {}
                    ELSE IF pc[q] \in {"locking", "locking_rest"} THEN todo[q] \ gone ELSE todo[q]]
      /\ disturbed' = [q \in Requests |-> IF q = r THEN {}
                                          ELSE disturbed[q] \union (ins \union gone)]
  BY <1>1 DEF Commit
<1> HIDE DEF ins
<1>4. /\ todo'[r] = {} /\ todo' \in [Requests -> SUBSET Keys]
      /\ \A q \in Requests \ {r} :
           todo'[q] = IF pc[q] \in Locking THEN todo[q] \ gone ELSE todo[q]
  <2>1. todo'[r] = {}
    BY <1>3
  <2>2. ASSUME NEW q \in Requests \ {r}
        PROVE  todo'[q] = IF pc[q] \in Locking THEN todo[q] \ gone ELSE todo[q]
    BY <1>3, <2>2 DEF Locking
  <2>3. \A q \in Requests : todo'[q] \in SUBSET Keys
    BY <1>1, <2>1, <2>2 DEF Shape
  <2> QED BY <1>3, <2>1, <2>2, <2>3
<1>5. /\ disturbed' \in [Requests -> SUBSET Keys]
      /\ \A q \in Requests \ {r} : disturbed'[q] = disturbed[q] \union ins \union gone
  BY <1>1, <1>2, <1>3 DEF Shape
<1>6. present' \in SUBSET Keys
  BY <1>1, <1>2, <1>3 DEF Shape
<1>7. balance' \in [Keys -> Int] /\ EventsTellTheRows'
  <2>1. ASSUME NEW k \in Keys
        PROVE  balance'[k] = (IF k \in present' THEN 1 ELSE 0)
    <3>1. balance[k] = (IF k \in present THEN 1 ELSE 0)
      BY <1>1 DEF EventsTellTheRows
    <3>2. balance'[k] = balance[k] + (IF k \in ins THEN 1 ELSE 0) - (IF k \in gone THEN 1 ELSE 0)
      BY <1>3
    <3>3. CASE k \in ins
      <4>1. k \notin present /\ k \notin gone /\ k \in present'
        BY <1>2, <1>3, <3>3
      <4> QED BY <3>1, <3>2, <3>3, <4>1
    <3>4. CASE k \in gone
      <4>1. k \in present /\ k \notin ins /\ k \notin present'
        BY <1>2, <1>3, <3>4
      <4> QED BY <3>1, <3>2, <3>4, <4>1
    <3>5. CASE k \notin ins /\ k \notin gone
      <4>1. k \in present' <=> k \in present
        BY <1>3, <3>5
      <4> QED BY <3>1, <3>2, <3>5, <4>1
    <3> QED BY <3>3, <3>4, <3>5
  <2>2. \A k \in Keys : balance'[k] \in Int
    BY <2>1
  <2>3. EventsTellTheRows'
    BY <2>1 DEF EventsTellTheRows
  <2> QED BY <1>3, <2>2, <2>3
<1>8. /\ Shape' /\ Call(r)' /\ newest' = newest
      /\ \A k \in Keys : lock'[k] = IF lock[k].owner = r THEN Unlocked ELSE lock[k]
      /\ \A q \in Requests \ {r} :
           /\ pc'[q] = pc[q] /\ service'[q] = service[q] /\ scope'[q] = scope[q]
           /\ tags'[q] = tags[q] /\ order'[q] = order[q] /\ created'[q] = created[q]
           /\ removed'[q] = removed[q]
           /\ \A k \in Keys : /\ lock'[k].owner = q <=> lock[k].owner = q
                              /\ lock[k].owner = q => lock'[k] = lock[k]
  BY <1>3, <1>4, <1>5, <1>6, <1>7, Released
<1>9. Changes(ins, gone)
  BY <1>2, <1>3 DEF Changes
<1>10. ASSUME NEW q \in Requests \ {r}
       PROVE  Apart(q, ins, gone)
  <2>1. \A k \in Keys : lock[k].owner = q => k \notin ins \union gone
    BY <1>2
  <2> QED BY <1>4, <1>5, <1>8, <2>1 DEF Apart
<1>11. LocksMatchRows'
  <2> SUFFICES ASSUME NEW k \in Keys
               PROVE  /\ lock'[k].kind = "inserted" => k \notin present'
                      /\ lock'[k].kind \in {"locked", "deleted"} => k \in present'
    BY DEF LocksMatchRows
  <2>1. CASE lock[k].owner = r
    BY <1>1, <1>8, <2>1, LockFields
  <2>2. CASE lock[k].owner # r
    <3>1. lock'[k] = lock[k] /\ (k \in present' <=> k \in present)
      BY <1>2, <1>3, <1>8, <2>2
    <3> QED BY <1>1, <3>1 DEF LocksMatchRows
  <2> QED BY <2>1, <2>2
<1> QED BY <1>1, <1>3, <1>7, <1>8, <1>9, <1>10, <1>11, StepKeeps

-----------------------------------------------------------------------------
(* One lemma for each action.                                              *)
LEMMA NoLocks ==
  ASSUME Inv, NEW r \in Requests, pc[r] \in Early
  PROVE  /\ todo[r] = {} /\ created[r] = {} /\ removed[r] = {}
         /\ \A k \in Keys : lock[k].owner # r
         /\ \A kind : HeldBy(r, kind) = {}
         /\ Visible(r) = present
<1>1. Staged(r) /\ Shape
  BY DEF Inv, Call
<1>2. todo[r] = {} /\ \A k \in Keys : lock[k].owner # r
  BY <1>1 DEF Staged
<1>3. \A kind : HeldBy(r, kind) = {}
  BY <1>2 DEF HeldBy
<1> QED BY <1>1, <1>2, <1>3 DEF Staged, Visible

LEMMA CallServiceKeeps ==
  ASSUME Inv, NEW r \in Requests, CallService(r)
  PROVE  Inv'
<1>1. PICK s \in Services, sc \in Scopes, ts \in SUBSET Tags :
        /\ service' = [service EXCEPT ![r] = s]
        /\ scope' = [scope EXCEPT ![r] = sc]
        /\ tags' = [tags EXCEPT ![r] = ts]
  BY DEF CallService
<1>2. /\ pc[r] = "idle" /\ calls < MaxCalls /\ calls' = calls + 1
      /\ pc' = [pc EXCEPT ![r] = "called"]
      /\ disturbed' = [disturbed EXCEPT ![r] = {}]
      /\ UNCHANGED <<present, newest, lock, balance, order, todo, created, removed>>
      /\ UNCHANGED <<tag_active, by_name, write_enabled, toggles>>
      /\ Shape
  BY DEF CallService, Goto, Inv
<1>3. Elsewhere(r)
  BY <1>1, <1>2 DEF Elsewhere, Shape
<1>4. Shape'
  <2>1. /\ pc' \in [Requests -> Points] /\ service' \in [Requests -> Services \union {"none"}]
        /\ scope' \in [Requests -> Scopes] /\ tags' \in [Requests -> SUBSET Tags]
    BY <1>1, <1>2 DEF Shape, Points
  <2>2. disturbed' \in [Requests -> SUBSET Keys]
    BY <1>2 DEF Shape
  <2>3. calls' \in 0..MaxCalls
    BY <1>2, AssignmentsAssumption DEF Shape
  <2> QED BY <1>2, <2>1, <2>2, <2>3 DEF Shape
<1>5. /\ pc'[r] = "called" /\ service'[r] = s
      /\ todo[r] = {} /\ created[r] = {} /\ removed[r] = {}
      /\ \A k \in Keys : lock[k].owner # r
      /\ \A kind : HeldBy(r, kind) = {}
  BY <1>1, <1>2, NoLocks DEF Early, Shape
<1>6. \A kind : HeldBy(r, kind)' = {}
  BY <1>2, <1>5 DEF HeldBy
<1>7. Staged(r)'
  BY <1>2, <1>5, <1>6 DEF Staged, Early, Locking, Assigning
<1>8. Worked(r)' /\ Ordered(r)'
  BY <1>2, <1>5 DEF Worked, Ordered, Locking, Assigning
<1> QED BY <1>2, <1>3, <1>4, <1>7, <1>8, QuietKeeps DEF Call

(* A step that only moves a call on.                                       *)
Moves(r, point, rest) ==
  /\ pc' = [pc EXCEPT ![r] = point] /\ todo' = [todo EXCEPT ![r] = rest]
  /\ UNCHANGED <<dbVars, argVars, created, removed, envVars>>

LEMMA MovesKeeps ==
  ASSUME Inv, NEW r \in Requests, NEW point \in Points, NEW rest \in SUBSET Keys,
         Moves(r, point, rest), Staged(r)', Worked(r)', Ordered(r)'
  PROVE  Inv'
<1>1. Shape /\ UNCHANGED <<present, newest, lock, balance>>
  BY DEF Inv, Moves, dbVars
<1>2. Elsewhere(r)
  BY <1>1 DEF Elsewhere, Moves, Shape, dbVars, argVars
<1>3. Shape'
  BY <1>1 DEF Moves, Shape, dbVars, argVars, envVars
<1> QED BY <1>1, <1>2, <1>3, QuietKeeps DEF Call

(* Where such a step leaves the call.                                      *)
LEMMA Moved ==
  ASSUME Inv, NEW r \in Requests, NEW point, NEW rest, Moves(r, point, rest)
  PROVE  /\ pc'[r] = point /\ todo'[r] = rest
         /\ UNCHANGED <<present, newest, lock, disturbed, service, order, created, removed>>
         /\ \A kind : HeldBy(r, kind)' = HeldBy(r, kind)
         /\ InScope(r)' = InScope(r) /\ Requested(r)' = Requested(r)
         /\ Staged(r) /\ Worked(r) /\ Ordered(r) /\ Shape
<1>1. Shape /\ Staged(r) /\ Worked(r) /\ Ordered(r)
  BY DEF Inv, Call
<1>2. UNCHANGED <<present, newest, lock, disturbed, service, scope, tags, order, created, removed>>
  BY DEF Moves, dbVars, argVars
<1>3. pc'[r] = point /\ todo'[r] = rest
  BY <1>1 DEF Moves, Shape
<1>4. \A kind : HeldBy(r, kind)' = HeldBy(r, kind)
  BY <1>2 DEF HeldBy
<1> QED BY <1>1, <1>2, <1>3, <1>4 DEF InScope, Requested

LEMMA ValidateTagsKeeps ==
  ASSUME Inv, NEW r \in Requests, ValidateTags(r)
  PROVE  Inv'
<1>1. CASE RollBack(r)
  BY <1>1, RollBackKeeps
<1>2. CASE ~RollBack(r)
  <2>1. /\ pc[r] = "called" /\ service[r] \notin Removers
        /\ pc' = [pc EXCEPT ![r] = "checked"] /\ order' = [order EXCEPT ![r] = by_name]
        /\ UNCHANGED <<dbVars, service, scope, tags, todo, created, removed, envVars>>
        /\ Shape /\ Staged(r)
    BY <1>2 DEF ValidateTags, Goto, Inv, Call
  <2>2. Elsewhere(r) /\ UNCHANGED <<present, newest, lock, balance>>
    BY <2>1 DEF Elsewhere, Shape, dbVars
  <2>3. Shape'
    BY <2>1 DEF Shape, Points, dbVars, envVars
  <2>4. /\ pc'[r] = "checked" /\ order'[r] \in Listings(Tags) /\ service'[r] \notin Removers
        /\ service'[r] \in Services
        /\ todo'[r] = {} /\ created'[r] = {} /\ removed'[r] = {}
        /\ \A k \in Keys : lock'[k].owner # r
    BY <2>1, NoLocks DEF Early, Shape, dbVars, Staged
  <2>5. \A kind : HeldBy(r, kind)' = {}
    BY <2>4 DEF HeldBy
  <2>6. Staged(r)'
    BY <2>4, <2>5 DEF Staged, Early, Locking, Assigning
  <2>7. Worked(r)' /\ Ordered(r)'
    BY <2>4 DEF Worked, Ordered, Locking, Assigning
  <2> QED BY <2>2, <2>3, <2>6, <2>7, QuietKeeps DEF Call
<1> QED BY <1>1, <1>2

LEMMA BeginAssigningKeeps ==
  ASSUME Inv, NEW r \in Requests, BeginAssigning(r)
  PROVE  Inv'
<1>1. /\ pc[r] = "checked" /\ service[r] \in Assigners
      /\ Moves(r, "assigning", Requested(r))
  BY DEF BeginAssigning, Goto, Moves
<1>2. /\ pc'[r] = "assigning" /\ todo'[r] = Requested(r)
      /\ UNCHANGED <<present, newest, lock, disturbed, service, order, created, removed>>
      /\ \A kind : HeldBy(r, kind)' = HeldBy(r, kind)
      /\ InScope(r)' = InScope(r) /\ Requested(r)' = Requested(r)
      /\ Staged(r) /\ Worked(r) /\ Ordered(r) /\ Shape
  BY <1>1, Moved
<1>3. /\ created[r] = {} /\ removed[r] = {}
      /\ \A k \in Keys : lock[k].owner # r
      /\ \A kind : HeldBy(r, kind) = {}
  BY <1>1, NoLocks DEF Early
<1>4. /\ service[r] # "replace_resource_tags" /\ service[r] \notin Removers
      /\ order[r] \in Listings(Tags) /\ service[r] \in Services
  BY <1>1, <1>2 DEF Staged, Assigners, Removers
<1>5. Staged(r)'
  BY <1>2, <1>3, <1>4 DEF Staged, Early, Locking, Assigning
<1>6. Worked(r)'
  BY <1>2, <1>3, <1>4, InScopeKeys DEF Worked, Assigning
<1>7. Ordered(r)'
  BY <1>2, <1>3 DEF Ordered, Assigning
<1>8. "assigning" \in Points /\ Requested(r) \in SUBSET Keys
  BY InScopeKeys DEF Points
<1> QED BY <1>1, <1>5, <1>6, <1>7, <1>8, MovesKeeps

LEMMA BeginLockingKeeps ==
  ASSUME Inv, NEW r \in Requests, BeginLocking(r)
  PROVE  Inv'
<1> DEFINE rest == Visible(r) \intersect
                (IF service[r] \in Removers THEN Requested(r) ELSE InScope(r) \ Requested(r))
<1>1. /\ \/ pc[r] = "called" /\ service[r] \in Removers
         \/ pc[r] = "checked" /\ service[r] = "replace_resource_tags"
      /\ Moves(r, "locking", rest)
  BY DEF BeginLocking, Goto, Moves, At
<1>2. /\ created[r] = {} /\ removed[r] = {}
      /\ \A k \in Keys : lock[k].owner # r
      /\ \A kind : HeldBy(r, kind) = {}
      /\ Visible(r) = present
  BY <1>1, NoLocks DEF Early
<1>3. /\ service[r] \in Removers => rest = present \intersect Requested(r)
      /\ service[r] = "replace_resource_tags" =>
           rest = present \intersect (InScope(r) \ Requested(r))
      /\ rest \subseteq present /\ rest \subseteq InScope(r) /\ rest \in SUBSET Keys
  BY <1>2, InScopeKeys DEF Removers
<1> HIDE DEF rest
<1>4. /\ pc'[r] = "locking" /\ todo'[r] = rest
      /\ UNCHANGED <<present, newest, lock, disturbed, service, order, created, removed>>
      /\ \A kind : HeldBy(r, kind)' = HeldBy(r, kind)
      /\ InScope(r)' = InScope(r) /\ Requested(r)' = Requested(r)
      /\ Staged(r) /\ Worked(r) /\ Ordered(r) /\ Shape
  BY <1>1, Moved
<1>5. /\ service[r] \notin Assigners /\ service[r] \in Services
      /\ service[r] \notin Removers => order[r] \in Listings(Tags)
  BY <1>1, <1>4 DEF Staged, Assigners, Removers
<1>6. Staged(r)'
  BY <1>2, <1>3, <1>4, <1>5 DEF Staged, Early, Locking, Assigning
<1>7. Worked(r)'
  BY <1>1, <1>2, <1>3, <1>4 DEF Worked, Assigning
<1>8. Ordered(r)'
  BY <1>2, <1>4 DEF Ordered, Assigning
<1>9. "locking" \in Points
  BY DEF Points
<1> QED BY <1>1, <1>3, <1>6, <1>7, <1>8, <1>9, MovesKeeps

LEMMA AssignMissingKeeps ==
  ASSUME Inv, NEW r \in Requests, AssignMissing(r)
  PROVE  Inv'
<1> DEFINE rest == Requested(r) \ HeldBy(r, "locked")
<1>1. /\ pc[r] = "locking_rest" /\ Moves(r, "assigning", rest)
  BY DEF AssignMissing, Goto, Moves
<1>2. rest \in SUBSET Keys /\ rest \subseteq Requested(r) /\ rest \subseteq InScope(r)
      /\ Requested(r) \subseteq rest \union HeldBy(r, "locked")
  BY InScopeKeys
<1> HIDE DEF rest
<1>3. /\ pc'[r] = "assigning" /\ todo'[r] = rest
      /\ UNCHANGED <<present, newest, lock, disturbed, service, order, created, removed>>
      /\ \A kind : HeldBy(r, kind)' = HeldBy(r, kind)
      /\ InScope(r)' = InScope(r) /\ Requested(r)' = Requested(r)
      /\ Staged(r) /\ Worked(r) /\ Ordered(r) /\ Shape
  BY <1>1, Moved
<1>4. HeldBy(r, "locked") \subseteq present
  <2>1. \A k \in HeldBy(r, "locked") : k \in Keys /\ lock[k].kind = "locked"
    BY DEF HeldBy
  <2> QED BY <2>1 DEF Inv, LocksMatchRows
<1>5. /\ service[r] = "replace_resource_tags" /\ created[r] = {}
      /\ service[r] \notin Removers /\ service[r] \notin Assigners
      /\ service[r] \in Services /\ order[r] \in Listings(Tags)
  BY <1>1, <1>3 DEF Staged, Locking, Removers, Assigners
<1>6. Staged(r)'
  BY <1>2, <1>3, <1>5 DEF Staged, Early, Locking, Assigning
<1>7. Worked(r)'
  BY <1>1, <1>2, <1>3, <1>4, <1>5 DEF Worked, Assigning
<1>8. Ordered(r)'
  BY <1>3, <1>5 DEF Ordered, Assigning
<1>9. "assigning" \in Points
  BY DEF Points
<1> QED BY <1>1, <1>2, <1>6, <1>7, <1>8, <1>9, MovesKeeps

(* The tag at hand is found assigned.                                      *)
LEMMA FoundKeeps ==
  ASSUME Inv, NEW r \in Requests, pc[r] \in Assigning, todo[r] # {},
         NextToAssign(r) \in Visible(r),
         Moves(r, "assigning", todo[r] \ {NextToAssign(r)})
  PROVE  Inv'
<1> DEFINE rest == todo[r] \ {NextToAssign(r)}
<1>1. /\ pc'[r] = "assigning" /\ todo'[r] = rest
      /\ UNCHANGED <<present, newest, lock, disturbed, service, order, created, removed>>
      /\ \A kind : HeldBy(r, kind)' = HeldBy(r, kind)
      /\ InScope(r)' = InScope(r) /\ Requested(r)' = Requested(r)
      /\ Staged(r) /\ Worked(r) /\ Ordered(r) /\ Shape
  BY Moved
<1>2. NextToAssign(r) \in present \union created[r]
  BY <1>1 DEF Visible, Staged
<1>3. /\ rest \subseteq todo[r] /\ rest \in SUBSET Keys
      /\ todo[r] \subseteq rest \union present \union created[r]
  BY <1>1, <1>2 DEF Shape
<1> HIDE DEF rest
<1>4. /\ service[r] \notin Removers /\ service[r] \in Services /\ order[r] \in Listings(Tags)
      /\ todo[r] \subseteq Requested(r) /\ todo[r] \intersect created[r] = {}
  BY <1>1 DEF Staged, Assigning, Removers
<1>5. Staged(r)'
  BY <1>1, <1>3, <1>4 DEF Staged, Early, Locking, Assigning
<1>6. Worked(r)'
  <2>1. Requested(r) \subseteq rest \union disturbed[r] \union present \union created[r]
    BY <1>1, <1>3 DEF Worked
  <2> QED BY <1>1, <1>3, <2>1 DEF Worked, Assigning
<1>7. Ordered(r)'
  BY <1>1, <1>3 DEF Ordered, Assigning
<1>8. "assigning" \in Points /\ Moves(r, "assigning", rest)
  BY DEF Points, rest
<1> QED BY <1>3, <1>5, <1>6, <1>7, <1>8, MovesKeeps

LEMMA LookUpKeeps ==
  ASSUME Inv, NEW r \in Requests, LookUp(r)
  PROVE  Inv'
<1>1. /\ pc[r] = "assigning" /\ todo[r] # {} /\ pc[r] \in Assigning /\ Shape
  BY DEF LookUp, Assigning, Inv
<1>2. CASE NextToAssign(r) \in Visible(r)
  <2>1. Moves(r, "assigning", todo[r] \ {NextToAssign(r)})
    <3>1. pc' = pc /\ pc = [pc EXCEPT ![r] = "assigning"]
      BY <1>1, <1>2 DEF LookUp, Shape
    <3> QED BY <1>2, <3>1 DEF LookUp, Moves
  <2> QED BY <1>1, <1>2, <2>1, FoundKeeps
<1>3. CASE NextToAssign(r) \notin Visible(r)
  <2>1. Moves(r, "inserting", todo[r])
    <3>1. todo' = todo /\ todo = [todo EXCEPT ![r] = todo[r]]
      BY <1>1, <1>3 DEF LookUp, Shape
    <3> QED BY <1>3, <3>1 DEF LookUp, Moves, Goto
  <2>2. /\ pc'[r] = "inserting" /\ todo'[r] = todo[r]
        /\ UNCHANGED <<present, newest, lock, disturbed, service, order, created, removed>>
        /\ \A kind : HeldBy(r, kind)' = HeldBy(r, kind)
        /\ InScope(r)' = InScope(r) /\ Requested(r)' = Requested(r)
        /\ Staged(r) /\ Worked(r) /\ Ordered(r) /\ Shape
    BY <2>1, Moved
  <2>3. Staged(r)'
    BY <1>1, <2>2 DEF Staged, Early, Locking, Assigning
  <2>4. Worked(r)' /\ Ordered(r)'
    BY <1>1, <2>2 DEF Worked, Ordered, Assigning
  <2>5. "inserting" \in Points /\ todo[r] \in SUBSET Keys
    BY <1>1 DEF Points, Shape
  <2> QED BY <2>1, <2>3, <2>4, <2>5, MovesKeeps
<1> QED BY <1>2, <1>3

LEMMA RefetchKeeps ==
  ASSUME Inv, NEW r \in Requests, Refetch(r)
  PROVE  Inv'
<1>1. pc[r] = "refetching" /\ pc[r] \in Assigning /\ todo[r] # {}
  BY DEF Refetch, Assigning, Inv, Call, Staged
<1>2. CASE NextToAssign(r) \in Visible(r)
  <2>1. Moves(r, "assigning", todo[r] \ {NextToAssign(r)})
    BY <1>2 DEF Refetch, Moves, Goto
  <2> QED BY <1>1, <1>2, <2>1, FoundKeeps
<1>3. CASE NextToAssign(r) \notin Visible(r)
  BY <1>3, RollBackKeeps DEF Refetch
<1> QED BY <1>2, <1>3

(* A row lock that r takes or a mark that it puts on its rows.             *)
LEMMA LockNextKeeps ==
  ASSUME Inv, NEW r \in Requests, LockNext(r)
  PROVE  Inv'
<1> DEFINE k == NextToLock(r)
           rest == todo[r] \ {k}
<1>1. Shape /\ LocksMatchRows /\ EventsTellTheRows /\ Staged(r) /\ Worked(r) /\ Ordered(r)
  BY DEF Inv, Call
<1>2. /\ pc[r] \in Locking /\ todo[r] # {} /\ ~Others(k, r)
      /\ lock' = [lock EXCEPT ![k] = [owner |-> r, kind |-> "locked"]]
      /\ todo' = [todo EXCEPT ![r] = rest]
      /\ UNCHANGED <<present, newest, balance, disturbed>>
      /\ UNCHANGED <<pc, argVars, created, removed, envVars>>
  BY DEF LockNext, Locking
<1>3. /\ k \in todo[r] /\ k \in Keys
      /\ \A b \in rest : Precedes(newest, k, b)
  BY <1>1, <1>2, NextToLockIn
<1> HIDE DEF k
<1>4. k \in present /\ lock[k].owner = Nobody /\ lock[k] = Unlocked
  <2>1. k \in present /\ lock[k].owner # r
    BY <1>1, <1>2, <1>3 DEF Staged
  <2>2. lock[k].owner = Nobody
    BY <1>2, <2>1 DEF Others
  <2> QED BY <1>1, <1>3, <2>1, <2>2, LockFields
<1>5. /\ \A x \in Keys : lock'[x] = IF x = k THEN [owner |-> r, kind |-> "locked"] ELSE lock[x]
      /\ lock' \in [Keys -> LockSet]
  <2>1. [owner |-> r, kind |-> "locked"] \in LockSet /\ lock \in [Keys -> LockSet]
    BY <1>1, LockFields DEF Shape
  <2> QED BY <1>2, <2>1
<1>6. /\ todo'[r] = rest /\ todo' \in [Requests -> SUBSET Keys]
      /\ \A q \in Requests \ {r} : todo'[q] = todo[q]
      /\ rest \subseteq todo[r]
  BY <1>1, <1>2 DEF Shape
<1>7. Shape'
  BY <1>1, <1>2, <1>5, <1>6 DEF Shape, argVars, envVars
<1>8. Changes({}, {})
  BY <1>2 DEF Changes
<1>9. ASSUME NEW q \in Requests \ {r}
      PROVE  Apart(q, {}, {})
  <2>1. q # Nobody /\ r # q
    BY <1>1, LockFields
  <2>2. \A x \in Keys : /\ lock'[x].owner = q <=> lock[x].owner = q
                        /\ lock[x].owner = q => lock'[x] = lock[x]
    BY <1>3, <1>4, <1>5, <2>1
  <2> QED BY <1>2, <1>6, <2>2 DEF Apart, argVars
<1>10. LocksMatchRows' /\ EventsTellTheRows'
  <2>1. LocksMatchRows'
    BY <1>1, <1>2, <1>4, <1>5 DEF LocksMatchRows
  <2> QED BY <1>1, <1>2, <2>1 DEF EventsTellTheRows
<1>11. /\ HeldBy(r, "locked")' = HeldBy(r, "locked") \union {k}
       /\ HeldBy(r, "inserted")' = HeldBy(r, "inserted")
       /\ HeldBy(r, "deleted")' = HeldBy(r, "deleted")
       /\ \A x \in Keys : lock'[x].owner = r <=> x = k \/ lock[x].owner = r
  <2>1. ASSUME NEW kind \in {"locked", "inserted", "deleted"}, NEW x \in Keys
        PROVE  /\ x \in HeldBy(r, kind) <=> lock[x].owner = r /\ lock[x].kind = kind
               /\ x \in HeldBy(r, kind)' <=> lock'[x].owner = r /\ lock'[x].kind = kind
    <3>1. x \in HeldBy(r, kind) <=> lock[x].owner = r /\ lock[x].kind = kind
      BY <1>1, HeldFields
    <3>2. lock'[x] = [owner |-> r, kind |-> "locked"] \/ lock'[x] = lock[x]
      BY <1>5
    <3>3. x \in HeldBy(r, kind)' <=> lock'[x] = [owner |-> r, kind |-> kind]
      BY DEF HeldBy
    <3>4. lock[x] = [owner |-> r, kind |-> kind] <=> lock[x].owner = r /\ lock[x].kind = kind
      BY <3>1 DEF HeldBy
    <3> QED BY <3>1, <3>2, <3>3, <3>4
  <2>2. \A kind : HeldBy(r, kind) \subseteq Keys /\ HeldBy(r, kind)' \subseteq Keys
    BY DEF HeldBy
  <2>3. lock[k].owner # r
    BY <1>1, <1>4, LockFields
  <2>4. \A x \in Keys : lock'[x].owner = r <=> x = k \/ lock[x].owner = r
    BY <1>3, <1>5
  <2>5. \A x \in Keys : x \in HeldBy(r, "locked")' <=> x \in HeldBy(r, "locked") \/ x = k
    BY <1>3, <1>5, <2>1
  <2>6. \A x \in Keys : /\ x \in HeldBy(r, "inserted")' <=> x \in HeldBy(r, "inserted")
                        /\ x \in HeldBy(r, "deleted")' <=> x \in HeldBy(r, "deleted")
    BY <1>3, <1>5, <2>1, <2>3
  <2> QED BY <1>3, <2>2, <2>4, <2>5, <2>6
<1>12. /\ InScope(r)' = InScope(r) /\ Requested(r)' = Requested(r) /\ k \in InScope(r)
       /\ pc'[r] = pc[r] /\ service'[r] = service[r] /\ order'[r] = order[r]
       /\ created'[r] = created[r] /\ removed'[r] = removed[r] /\ disturbed'[r] = disturbed[r]
       /\ present' = present /\ newest' = newest
       /\ service[r] \notin Assigners
  <2>1. UNCHANGED <<scope, tags>>
    BY <1>2 DEF argVars
  <2>2. service[r] \notin Assigners
    BY <1>1, <1>2 DEF Staged, Locking, Assigners
  <2> QED BY <1>1, <1>2, <1>3, <2>1, <2>2 DEF InScope, Requested, argVars, Worked
<1> HIDE DEF rest
<1>13. Staged(r)'
  <2>1. \A x \in rest : x \in present /\ lock'[x].owner # r
    <3> SUFFICES ASSUME NEW x \in rest
                 PROVE  x \in present /\ lock'[x].owner # r
      OBVIOUS
    <3>1. x \in todo[r] /\ x # k /\ x \in Keys
      BY <1>1, <1>6 DEF rest, Shape
    <3> QED BY <1>1, <1>2, <1>5, <3>1 DEF Staged
  <2> QED BY <1>1, <1>2, <1>6, <1>11, <1>12, <2>1 DEF Staged, Early, Locking, Assigning
<1>14. Worked(r)'
  <2>1. rest \union (HeldBy(r, "locked") \union {k}) = todo[r] \union HeldBy(r, "locked")
    BY <1>3 DEF rest
  <2> QED BY <1>1, <1>2, <1>6, <1>11, <1>12, <2>1 DEF Worked, Locking, Assigning
<1>15. Ordered(r)'
  BY <1>1, <1>2, <1>3, <1>6, <1>11, <1>12 DEF Ordered, Locking, Assigning
<1> QED BY <1>7, <1>8, <1>9, <1>10, <1>13, <1>14, <1>15, StepKeeps DEF Call

LEMMA RemoveOutdatedKeeps ==
  ASSUME Inv, NEW r \in Requests, RemoveOutdated(r)
  PROVE  Inv'
<1> DEFINE outdated == HeldBy(r, "locked")
           rest == (Visible(r) \intersect InScope(r)) \ outdated
<1>1. Shape /\ LocksMatchRows /\ EventsTellTheRows /\ Staged(r) /\ Worked(r) /\ Ordered(r)
  BY DEF Inv, Call
<1>2. /\ pc[r] = "locking" /\ service[r] = "replace_resource_tags" /\ todo[r] = {}
      /\ lock' = [x \in Keys |-> IF x \in outdated THEN [owner |-> r, kind |-> "deleted"]
                                 ELSE lock[x]]
      /\ removed' = [removed EXCEPT ![r] = outdated]
      /\ todo' = [todo EXCEPT ![r] = rest]
      /\ pc' = [pc EXCEPT ![r] = "locking_rest"]
      /\ UNCHANGED <<present, newest, balance, disturbed, argVars, created, envVars>>
  BY DEF RemoveOutdated, At, Goto
<1>3. /\ created[r] = {} /\ removed[r] = {} /\ HeldBy(r, "inserted") = {}
      /\ HeldBy(r, "deleted") = {} /\ Visible(r) = present
  BY <1>1, <1>2 DEF Staged, Locking, Visible
<1>4. \A x \in Keys : lock[x].owner = r <=> x \in outdated
  <2> SUFFICES ASSUME NEW x \in Keys
               PROVE  lock[x].owner = r <=> x \in outdated
    OBVIOUS
  <2>1. \A kind \in {"locked", "inserted", "deleted"} :
          x \in HeldBy(r, kind) <=> lock[x].owner = r /\ lock[x].kind = kind
    BY <1>1, HeldFields
  <2>2. lock[x].owner = r => lock[x].kind \in {"locked", "inserted", "deleted"}
    BY <1>1, LockFields
  <2> QED BY <1>3, <2>1, <2>2
<1>5. /\ outdated \subseteq Keys
      /\ rest \subseteq present /\ rest \subseteq InScope(r) /\ rest \intersect outdated = {}
      /\ rest \subseteq Keys
  <2>1. outdated \subseteq Keys
    BY DEF HeldBy
  <2> QED BY <1>3, <2>1, InScopeKeys
<1> HIDE DEF outdated, rest
<1>6. /\ \A x \in Keys : lock'[x] = IF x \in outdated THEN [owner |-> r, kind |-> "deleted"]
                                    ELSE lock[x]
      /\ lock' \in [Keys -> LockSet]
  BY <1>1, <1>2, LockFields DEF Shape
<1>7. Shape'
  <2>1. pc' \in [Requests -> Points]
    BY <1>1, <1>2 DEF Shape, Points
  <2>2. removed' \in [Requests -> SUBSET Keys] /\ todo' \in [Requests -> SUBSET Keys]
    BY <1>1, <1>2, <1>5 DEF Shape
  <2> QED BY <1>1, <1>2, <1>6, <2>1, <2>2 DEF Shape, argVars, envVars
<1>8. Changes({}, {})
  BY <1>2 DEF Changes
<1>9. \A x \in Keys : lock'[x].owner = lock[x].owner
  BY <1>4, <1>6
<1>10. ASSUME NEW q \in Requests \ {r}
       PROVE  Apart(q, {}, {})
  <2>1. \A x \in Keys : lock[x].owner = q => lock'[x] = lock[x]
    BY <1>4, <1>6
  <2>2. /\ pc'[q] = pc[q] /\ removed'[q] = removed[q] /\ todo'[q] = todo[q]
    BY <1>1, <1>2 DEF Shape
  <2> QED BY <1>2, <1>9, <2>1, <2>2 DEF Apart, argVars
<1>11. outdated \subseteq present
  <2>1. \A x \in outdated : x \in Keys /\ lock[x].kind = "locked"
    BY DEF outdated, HeldBy
  <2> QED BY <1>1, <2>1 DEF LocksMatchRows
<1>12. LocksMatchRows' /\ EventsTellTheRows'
  <2>1. LocksMatchRows'
    BY <1>1, <1>2, <1>6, <1>11 DEF LocksMatchRows
  <2> QED BY <1>1, <1>2, <2>1 DEF EventsTellTheRows
<1>13. /\ HeldBy(r, "locked")' = {} /\ HeldBy(r, "inserted")' = {}
       /\ HeldBy(r, "deleted")' = outdated
  <2>1. \A kind : \A x : x \in HeldBy(r, kind)' <=>
                          x \in Keys /\ lock'[x] = [owner |-> r, kind |-> kind]
    BY DEF HeldBy
  <2>2. \A x \in Keys : x \in outdated => lock'[x].kind = "deleted"
    BY <1>6
  <2>3. \A x \in Keys : x \notin outdated => lock'[x].owner # r
    BY <1>4, <1>9
  <2>4. ASSUME NEW x \in Keys
        PROVE  x \notin HeldBy(r, "locked")' /\ x \notin HeldBy(r, "inserted")'
    <3>1. CASE x \in outdated
      <4>1. [owner |-> r, kind |-> "locked"].kind # "deleted"
            /\ [owner |-> r, kind |-> "inserted"].kind # "deleted"
        OBVIOUS
      <4> QED BY <2>1, <2>2, <3>1, <4>1
    <3>2. CASE x \notin outdated
      <4>1. \A kind : lock'[x] # [owner |-> r, kind |-> kind]
        BY <2>3, <3>2
      <4> QED BY <2>1, <4>1
    <3> QED BY <3>1, <3>2
  <2>5. ASSUME NEW x \in Keys
        PROVE  x \in HeldBy(r, "deleted")' <=> x \in outdated
    <3>1. x \notin outdated => lock'[x] # [owner |-> r, kind |-> "deleted"]
      BY <2>3
    <3> QED BY <1>6, <2>1, <3>1
  <2>6. \A x : x \in HeldBy(r, "locked")' \/ x \in HeldBy(r, "inserted")'
                 \/ x \in HeldBy(r, "deleted")' => x \in Keys
    BY <2>1
  <2> QED BY <1>5, <2>4, <2>5, <2>6
<1>14. /\ pc'[r] = "locking_rest" /\ removed'[r] = outdated /\ todo'[r] = rest
       /\ service'[r] = service[r] /\ order'[r] = order[r]
       /\ created'[r] = {} /\ disturbed'[r] = disturbed[r]
       /\ present' = present
       /\ InScope(r)' = InScope(r) /\ Requested(r)' = Requested(r)
  <2>1. UNCHANGED <<scope, tags>>
    BY <1>2 DEF argVars
  <2> QED BY <1>1, <1>2, <1>3, <2>1 DEF InScope, Requested, argVars, Shape
<1>15. Staged(r)'
  <2>1. \A x \in rest : x \in present /\ lock'[x].owner # r
    BY <1>4, <1>5, <1>9
  <2>2. /\ service[r] \notin Assigners /\ service[r] \notin Removers
        /\ order[r] \in Listings(Tags) /\ service[r] \in Services
    BY <1>1, <1>2 DEF Staged, Assigners, Removers
  <2> QED BY <1>2, <1>13, <1>14, <2>1, <2>2 DEF Staged, Early, Locking, Assigning
<1>16. Worked(r)'
  <2>1. /\ outdated \intersect Requested(r) = {}
        /\ (InScope(r) \ Requested(r)) \intersect present \subseteq outdated \union disturbed[r]
    BY <1>1, <1>2 DEF Worked, outdated
  <2>2. \A x \in Keys : lock'[x].owner = r => x \in InScope(r)
    BY <1>1, <1>9 DEF Worked
  <2> QED BY <1>2, <1>5, <1>14, <2>1, <2>2 DEF Worked, Assigning
<1>17. Ordered(r)'
  BY <1>14 DEF Ordered, Assigning
<1> QED BY <1>7, <1>8, <1>10, <1>12, <1>15, <1>16, <1>17, StepKeeps DEF Call

LEMMA InsertKeeps ==
  ASSUME Inv, NEW r \in Requests, Insert(r)
  PROVE  Inv'
<1> DEFINE k == NextToAssign(r)
           rest == todo[r] \ {k}
<1>1. Shape /\ LocksMatchRows /\ EventsTellTheRows /\ Staged(r) /\ Worked(r) /\ Ordered(r)
  BY DEF Inv, Call
<1>2. /\ pc[r] = "inserting" /\ ~(Others(k, r) /\ lock[k].kind \in {"inserted", "deleted"})
      /\ UNCHANGED <<present, balance, disturbed, argVars, removed, envVars>>
  BY DEF Insert
<1>3. /\ todo[r] # {} /\ todo[r] \subseteq Requested(r) /\ todo[r] \intersect created[r] = {}
      /\ service[r] \notin Removers /\ service[r] \in Services
      /\ order[r] \in Listings(Tags)
  BY <1>1, <1>2 DEF Staged, Assigning, Removers
<1>4. /\ k \in todo[r] /\ k \in Keys /\ k \in Requested(r) /\ k \in InScope(r)
      /\ \A b \in rest : Precedes(order[r], k[2], b[2])
  BY <1>1, <1>3, NextToAssignIn, InScopeKeys
<1>5. CASE k \in present
  <2>1. Moves(r, "refetching", todo[r])
    <3>1. /\ todo' = todo /\ todo = [todo EXCEPT ![r] = todo[r]]
          /\ UNCHANGED <<newest, lock, created>> /\ pc' = [pc EXCEPT ![r] = "refetching"]
      BY <1>1, <1>5 DEF Insert, Shape, Goto
    <3> QED BY <1>2, <3>1 DEF Moves, dbVars
  <2>2. /\ pc'[r] = "refetching" /\ todo'[r] = todo[r]
        /\ UNCHANGED <<present, newest, lock, disturbed, service, order, created, removed>>
        /\ \A kind : HeldBy(r, kind)' = HeldBy(r, kind)
        /\ InScope(r)' = InScope(r) /\ Requested(r)' = Requested(r)
    BY <2>1, Moved
  <2>3. Staged(r)'
    BY <1>1, <1>2, <2>2 DEF Staged, Early, Locking, Assigning
  <2>4. Worked(r)' /\ Ordered(r)'
    BY <1>1, <1>2, <2>2 DEF Worked, Ordered, Assigning
  <2>5. "refetching" \in Points /\ todo[r] \in SUBSET Keys
    BY <1>1 DEF Points, Shape
  <2> QED BY <2>1, <2>3, <2>4, <2>5, MovesKeeps
<1>6. CASE k \notin present
  <2>1. /\ lock' = [lock EXCEPT ![k] = [owner |-> r, kind |-> "inserted"]]
        /\ newest' = Newest(k)
        /\ created' = [created EXCEPT ![r] = @ \union {k}]
        /\ todo' = [todo EXCEPT ![r] = rest]
        /\ pc' = [pc EXCEPT ![r] = "assigning"]
    BY <1>6 DEF Insert, Goto
  <2>2. newest' \in Listings(Keys)
        /\ \A a, b \in present : Precedes(newest, a, b) => Precedes(newest', a, b)
    <3>1. newest \in Listings(Keys) /\ present \subseteq Keys \ {k}
      BY <1>1, <1>6 DEF Shape
    <3> QED BY <1>4, <2>1, <3>1, NewestListed
  <2> HIDE DEF k
  <2>3. lock[k].owner = Nobody
    <3>1. lock[k].owner # r
      <4>1. \A kind \in {"locked", "inserted", "deleted"} :
              k \in HeldBy(r, kind) <=> lock[k].owner = r /\ lock[k].kind = kind
        BY <1>1, <1>4, HeldFields
      <4>2. k \notin HeldBy(r, "inserted")
        BY <1>1, <1>3, <1>4 DEF Staged
      <4>3. lock[k].kind # "locked" /\ lock[k].kind # "deleted"
        BY <1>1, <1>4, <1>6 DEF LocksMatchRows
      <4>4. Nobody # r
        BY <1>1, LockFields
      <4> QED BY <1>1, <1>4, <4>1, <4>2, <4>3, <4>4, LockFields
    <3>2. ASSUME lock[k].owner # Nobody
          PROVE  FALSE
      <4>1. Others(k, r)
        BY <3>1, <3>2 DEF Others
      <4>2. lock[k].kind \in {"locked", "inserted", "deleted"}
        BY <1>1, <1>4, <3>2, LockFields
      <4> QED BY <1>1, <1>2, <1>4, <1>6, <4>1, <4>2 DEF LocksMatchRows
    <3> QED BY <3>2
  <2>4. /\ \A x \in Keys : lock'[x] = IF x = k THEN [owner |-> r, kind |-> "inserted"] ELSE lock[x]
        /\ lock' \in [Keys -> LockSet]
    <3>1. [owner |-> r, kind |-> "inserted"] \in LockSet /\ lock \in [Keys -> LockSet]
      BY <1>1, LockFields DEF Shape
    <3> QED BY <2>1, <3>1
  <2>5. /\ pc'[r] = "assigning" /\ todo'[r] = rest /\ created'[r] = created[r] \union {k}
        /\ \A q \in Requests \ {r} :
             todo'[q] = todo[q] /\ created'[q] = created[q] /\ pc'[q] = pc[q]
        /\ rest \subseteq todo[r] /\ k \notin rest
    BY <1>1, <2>1 DEF Shape
  <2>6. Shape'
    <3>1. pc' \in [Requests -> Points]
      BY <1>1, <2>1 DEF Shape, Points
    <3>2. todo' \in [Requests -> SUBSET Keys] /\ created' \in [Requests -> SUBSET Keys]
      BY <1>1, <1>4, <2>1 DEF Shape
    <3> QED BY <1>1, <1>2, <2>2, <2>4, <3>1, <3>2 DEF Shape, argVars, envVars
  <2>7. Changes({}, {})
    BY <1>2 DEF Changes
  <2>8. ASSUME NEW q \in Requests \ {r}
        PROVE  Apart(q, {}, {})
    <3>1. q # Nobody /\ r # q
      BY <1>1, LockFields
    <3>2. \A x \in Keys : /\ lock'[x].owner = q <=> lock[x].owner = q
                          /\ lock[x].owner = q => lock'[x] = lock[x]
      BY <1>4, <2>3, <2>4, <3>1
    <3> QED BY <1>2, <2>2, <2>5, <3>2 DEF Apart, argVars
  <2>9. LocksMatchRows' /\ EventsTellTheRows'
    <3>1. LocksMatchRows'
      BY <1>1, <1>2, <1>6, <2>4 DEF LocksMatchRows
    <3> QED BY <1>1, <1>2, <3>1 DEF EventsTellTheRows
  <2>10. /\ HeldBy(r, "inserted")' = HeldBy(r, "inserted") \union {k}
         /\ HeldBy(r, "locked")' = HeldBy(r, "locked")
         /\ HeldBy(r, "deleted")' = HeldBy(r, "deleted")
         /\ \A x \in Keys : lock'[x].owner = r <=> x = k \/ lock[x].owner = r
    <3>1. ASSUME NEW kind \in {"locked", "inserted", "deleted"}, NEW x \in Keys
          PROVE  /\ x \in HeldBy(r, kind) <=> lock[x].owner = r /\ lock[x].kind = kind
                 /\ x \in HeldBy(r, kind)' <=> lock'[x].owner = r /\ lock'[x].kind = kind
      <4>1. x \in HeldBy(r, kind) <=> lock[x].owner = r /\ lock[x].kind = kind
        BY <1>1, HeldFields
      <4>2. lock'[x] = [owner |-> r, kind |-> "inserted"] \/ lock'[x] = lock[x]
        BY <2>4
      <4>3. x \in HeldBy(r, kind)' <=> lock'[x] = [owner |-> r, kind |-> kind]
        BY DEF HeldBy
      <4>4. lock[x] = [owner |-> r, kind |-> kind] <=> lock[x].owner = r /\ lock[x].kind = kind
        BY <4>1 DEF HeldBy
      <4> QED BY <4>1, <4>2, <4>3, <4>4
    <3>2. \A kind : HeldBy(r, kind) \subseteq Keys /\ HeldBy(r, kind)' \subseteq Keys
      BY DEF HeldBy
    <3>3. lock[k].owner # r
      BY <1>1, <2>3, LockFields
    <3>4. \A x \in Keys : lock'[x].owner = r <=> x = k \/ lock[x].owner = r
      BY <1>4, <2>4
    <3>5. \A x \in Keys : x \in HeldBy(r, "inserted")' <=> x \in HeldBy(r, "inserted") \/ x = k
      BY <1>4, <2>4, <3>1
    <3>6. \A x \in Keys : /\ x \in HeldBy(r, "locked")' <=> x \in HeldBy(r, "locked")
                          /\ x \in HeldBy(r, "deleted")' <=> x \in HeldBy(r, "deleted")
      BY <1>4, <2>4, <3>1, <3>3
    <3> QED BY <1>4, <3>2, <3>4, <3>5, <3>6
  <2>11. /\ InScope(r)' = InScope(r) /\ Requested(r)' = Requested(r)
         /\ service'[r] = service[r] /\ order'[r] = order[r]
         /\ removed'[r] = removed[r] /\ disturbed'[r] = disturbed[r]
         /\ present' = present
    <3>1. UNCHANGED <<scope, tags>>
      BY <1>2 DEF argVars
    <3> QED BY <1>2, <3>1 DEF InScope, Requested, argVars
  <2>12. todo[r] \subseteq rest \union {k}
    OBVIOUS
  <2> HIDE DEF rest
  <2>13. Staged(r)'
    <3>1. rest \subseteq Requested(r) /\ rest \intersect (created[r] \union {k}) = {}
      BY <1>3, <2>5
    <3> QED BY <1>1, <1>2, <1>3, <2>5, <2>10, <2>11, <3>1 DEF Staged, Early, Locking, Assigning
  <2>14. Worked(r)'
    <3>1. Requested(r) \subseteq rest \union disturbed[r] \union present \union (created[r] \union {k})
      BY <1>1, <1>2, <2>12 DEF Worked, Assigning
    <3>2. rest \subseteq InScope(r)
      BY <1>1, <2>5 DEF Worked
    <3>3. created[r] \union {k} \subseteq Requested(r)
      BY <1>1, <1>2, <1>4 DEF Worked, Assigning
    <3>4. \A x \in Keys : lock'[x].owner = r => x \in InScope(r)
      BY <1>1, <1>4, <2>10 DEF Worked
    <3>5. /\ removed[r] \intersect Requested(r) = {}
          /\ service[r] = "replace_resource_tags" =>
               (InScope(r) \ Requested(r)) \intersect present \subseteq removed[r] \union disturbed[r]
      BY <1>1, <1>2 DEF Worked, Assigning
    <3> QED BY <2>5, <2>11, <3>1, <3>2, <3>3, <3>4, <3>5 DEF Worked, Assigning
  <2>15. Ordered(r)'
    <3>1. \A a \in created[r] \union {k}, b \in rest : Precedes(order[r], a[2], b[2])
      BY <1>1, <1>2, <1>4, <2>5 DEF Ordered, Assigning
    <3> QED BY <2>5, <2>11, <3>1 DEF Ordered, Assigning
  <2> QED BY <2>6, <2>7, <2>8, <2>9, <2>13, <2>14, <2>15, StepKeeps DEF Call
<1> QED BY <1>5, <1>6

(* The statement that ends a call commits it with what it inserted, and    *)
(* without the rows that it locked or deleted.                             *)
LEMMA FinishCommits ==
  ASSUME Inv, NEW r \in Requests, Finish(r)
  PROVE  \E gone \in SUBSET Keys :
           /\ gone = IF service[r] \in Removers THEN HeldBy(r, "locked") ELSE removed[r]
           /\ pc[r] = IF service[r] \in Removers THEN "locking" ELSE "assigning"
           /\ todo[r] = {}
           /\ \A k \in gone : lock[k].owner = r /\ lock[k].kind \in {"locked", "deleted"}
           /\ Commit(r, created[r], gone)
<1>1. Staged(r)
  BY DEF Inv, Call
<1>2. CASE remove_tag_assignment(r) \/ bulk_remove_tags(r)
  <2>1. /\ pc[r] = "locking" /\ service[r] \in Removers /\ todo[r] = {}
        /\ Commit(r, {}, HeldBy(r, "locked"))
    BY <1>2 DEF remove_tag_assignment, bulk_remove_tags, RemoveLocked, At, Removers
  <2>2. created[r] = {}
    BY <1>1, <2>1 DEF Staged, Locking
  <2>3. HeldBy(r, "locked") \in SUBSET Keys
        /\ \A k \in HeldBy(r, "locked") : lock[k].owner = r /\ lock[k].kind \in {"locked", "deleted"}
    BY DEF HeldBy
  <2> QED BY <2>1, <2>2, <2>3
<1>3. CASE assign_tag(r) \/ bulk_assign_tags(r) \/ replace_resource_tags(r)
  <2>1. /\ pc[r] = "assigning" /\ service[r] \notin Removers /\ todo[r] = {}
        /\ Commit(r, created[r], removed[r])
    BY <1>3 DEF assign_tag, bulk_assign_tags, replace_resource_tags, CommitAssigned, At, Removers
  <2>2. removed[r] = HeldBy(r, "deleted")
    BY <1>1 DEF Staged
  <2>3. HeldBy(r, "deleted") \in SUBSET Keys
        /\ \A k \in HeldBy(r, "deleted") : lock[k].owner = r /\ lock[k].kind \in {"locked", "deleted"}
    BY DEF HeldBy
  <2> QED BY <2>1, <2>2, <2>3
<1> QED BY <1>2, <1>3 DEF Finish

LEMMA FinishKeeps ==
  ASSUME Inv, NEW r \in Requests, Finish(r)
  PROVE  Inv' /\ Exact(r)
<1>1. PICK gone \in SUBSET Keys :
        /\ gone = IF service[r] \in Removers THEN HeldBy(r, "locked") ELSE removed[r]
        /\ pc[r] = IF service[r] \in Removers THEN "locking" ELSE "assigning"
        /\ todo[r] = {}
        /\ \A k \in gone : lock[k].owner = r /\ lock[k].kind \in {"locked", "deleted"}
        /\ Commit(r, created[r], gone)
  BY FinishCommits
<1>2. Inv' /\ present' = (present \union created[r]) \ gone
  BY <1>1, CommitKeeps
<1>3. Shape /\ Staged(r) /\ Worked(r)
  BY DEF Inv, Call
<1>4. ASSUME NEW k \in InScope(r) \ disturbed[r]
      PROVE  /\ service[r] \notin Removers /\ k[2] \in tags[r] => k \in present'
             /\ service[r] \in Removers /\ k[2] \in tags[r] => k \notin present'
             /\ service[r] = "replace_resource_tags" /\ k[2] \notin tags[r] => k \notin present'
  <2>1. k \in Requested(r) <=> k[2] \in tags[r]
    BY InScopeKeys
  <2>2. CASE service[r] \in Removers
    <3>1. /\ Requested(r) \intersect present \subseteq gone \union disturbed[r]
          /\ created[r] = {}
      BY <1>1, <1>3, <2>2 DEF Worked, Staged, Locking
    <3> QED BY <1>2, <2>1, <2>2, <3>1 DEF Removers
  <2>3. CASE service[r] \notin Removers
    <3>1. /\ gone = removed[r] /\ pc[r] \in Assigning
          /\ Requested(r) \subseteq disturbed[r] \union present \union created[r]
          /\ created[r] \subseteq Requested(r) /\ gone \intersect Requested(r) = {}
          /\ service[r] = "replace_resource_tags" =>
               (InScope(r) \ Requested(r)) \intersect present \subseteq gone \union disturbed[r]
      BY <1>1, <1>3, <2>3 DEF Worked, Assigning
    <3> QED BY <1>2, <2>1, <2>3, <3>1
  <2> QED BY <2>2, <2>3
<1>5. ASSUME NEW k \in Keys, k[1] # scope[r]
      PROVE  k \in present' <=> k \in present
  <2>1. k \notin InScope(r)
    BY <1>5 DEF InScope
  <2>2. k \notin gone
    BY <1>1, <1>3, <2>1 DEF Worked
  <2>3. k \notin created[r]
    <3>1. \A x \in created[r] : x \in Keys /\ lock[x].owner = r
      BY <1>3 DEF Staged, HeldBy
    <3> QED BY <1>3, <2>1, <3>1 DEF Worked
  <2> QED BY <1>2, <2>2, <2>3
<1> QED BY <1>2, <1>4, <1>5 DEF Exact

(* Tags that change do not touch a call.                                   *)
LEMMA TagsChangeKeeps ==
  ASSUME Inv, UNCHANGED <<dbVars, requestVars>>,
         tag_active' \in SUBSET Tags, by_name' \in Listings(Tags), write_enabled' = write_enabled,
         calls' = calls, toggles' \in 0..MaxToggles
  PROVE  Inv'
<1>1. UNCHANGED <<present, newest, lock, balance, disturbed, pc, service, scope, tags, order, todo,
                  created, removed>>
  BY DEF dbVars, requestVars, argVars
<1>2. Shape'
  BY <1>1 DEF Inv, Shape
<1>3. LocksMatchRows' /\ EventsTellTheRows'
  BY <1>1 DEF Inv, LocksMatchRows, EventsTellTheRows
<1>4. ASSUME NEW r \in Requests
      PROVE  Call(r)'
  <2>1. Staged(r) /\ Worked(r) /\ Ordered(r)
    BY DEF Inv, Call
  <2>2. /\ \A kind : HeldBy(r, kind)' = HeldBy(r, kind)
        /\ InScope(r)' = InScope(r)
    BY <1>1 DEF HeldBy, InScope
  <2>3. Requested(r)' = Requested(r)
    BY <1>1, <2>2 DEF Requested
  <2>4. Staged(r)'
    BY <1>1, <2>1, <2>2, <2>3 DEF Staged
  <2>5. Worked(r)'
    BY <1>1, <2>1, <2>2, <2>3 DEF Worked
  <2>6. Ordered(r)'
    BY <1>1, <2>1, <2>2 DEF Ordered
  <2> QED BY <2>4, <2>5, <2>6 DEF Call
<1> QED BY <1>2, <1>3, <1>4 DEF Inv

LEMMA ToggleTagKeeps ==
  ASSUME Inv, NEW t \in Tags, ToggleTag(t)
  PROVE  Inv'
<1>1. Shape
  BY DEF Inv
<1>2. /\ toggles < MaxToggles /\ toggles' = toggles + 1
      /\ tag_active' = IF t \in tag_active THEN tag_active \ {t} ELSE tag_active \union {t}
      /\ UNCHANGED <<dbVars, requestVars, by_name, write_enabled, calls>>
  BY DEF ToggleTag
<1>3. tag_active' \in SUBSET Tags /\ by_name' \in Listings(Tags)
  BY <1>1, <1>2 DEF Shape
<1>4. toggles' \in 0..MaxToggles
  BY <1>1, <1>2, AssignmentsAssumption DEF Shape
<1> QED BY <1>2, <1>3, <1>4, TagsChangeKeeps

LEMMA RenameTagKeeps ==
  ASSUME Inv, RenameTag
  PROVE  Inv'
<1>1. Shape
  BY DEF Inv
<1>2. /\ toggles < MaxToggles /\ toggles' = toggles + 1
      /\ by_name' \in Listings(Tags)
      /\ UNCHANGED <<dbVars, requestVars, tag_active, write_enabled, calls>>
  BY DEF RenameTag, Listings
<1>3. tag_active' \in SUBSET Tags
  BY <1>1, <1>2 DEF Shape
<1>4. toggles' \in 0..MaxToggles
  BY <1>1, <1>2, AssignmentsAssumption DEF Shape
<1> QED BY <1>2, <1>3, <1>4, TagsChangeKeeps

-----------------------------------------------------------------------------
LEMMA InvInit == Init => Inv
<1> SUFFICES ASSUME Init PROVE Inv
  OBVIOUS
<1>1. PICK first \in Initially :
        /\ present = first.rows /\ tag_active = first.active /\ write_enabled = first.enabled
  BY DEF Init
<1>2. /\ present \in SUBSET Keys /\ tag_active \in SUBSET Tags /\ write_enabled \in BOOLEAN
  BY <1>1, AssignmentsAssumption DEF Keys
<1>3. newest \in Listings(Keys) /\ by_name \in Listings(Tags)
  BY Listed, KeysFinite DEF Init
<1>4. Unlocked \in LockSet /\ Unlocked.owner = Nobody /\ Unlocked.kind = "none"
      /\ Nobody \notin Requests
  BY AssignmentsAssumption DEF LockSet, Unlocked
<1>5. lock \in [Keys -> LockSet] /\ \A k \in Keys : lock[k] = Unlocked
  BY <1>4 DEF Init
<1>6. /\ pc \in [Requests -> Points] /\ service \in [Requests -> Services \union {"none"}]
      /\ scope \in [Requests -> Scopes] /\ tags \in [Requests -> SUBSET Tags]
      /\ order \in [Requests -> Listings(Tags) \union {<<>>}]
  BY AssignmentsAssumption DEF Init, Points
<1>7. /\ todo \in [Requests -> SUBSET Keys] /\ created \in [Requests -> SUBSET Keys]
      /\ removed \in [Requests -> SUBSET Keys] /\ disturbed \in [Requests -> SUBSET Keys]
  BY DEF Init
<1>8. /\ calls \in 0..MaxCalls /\ toggles \in 0..MaxToggles
      /\ balance \in [Keys -> Int] /\ EventsTellTheRows
  BY AssignmentsAssumption DEF Init, EventsTellTheRows
<1>9. Shape
  BY <1>2, <1>3, <1>5, <1>6, <1>7, <1>8 DEF Shape
<1>10. LocksMatchRows
  BY <1>4, <1>5 DEF LocksMatchRows
<1>11. ASSUME NEW r \in Requests
       PROVE  Call(r)
  <2>1. /\ pc[r] = "idle" /\ service[r] = "none" /\ todo[r] = {} /\ created[r] = {}
        /\ removed[r] = {}
    BY DEF Init
  <2>2. \A k \in Keys : lock[k].owner # r
    BY <1>4, <1>5
  <2>3. \A kind : HeldBy(r, kind) = {}
    BY <2>2 DEF HeldBy
  <2>4. Staged(r)
    BY <2>1, <2>2, <2>3 DEF Staged, Early, Locking, Assigning, Assigners
  <2>5. Worked(r) /\ Ordered(r)
    BY <2>1, <2>2 DEF Worked, Ordered, Locking, Assigning
  <2> QED BY <2>4, <2>5 DEF Call
<1> QED BY <1>8, <1>9, <1>10, <1>11 DEF Inv

LEMMA InvNext == Inv /\ [Next]_vars => Inv'
<1> SUFFICES ASSUME Inv, [Next]_vars PROVE Inv'
  OBVIOUS
<1>1. ASSUME NEW r \in Requests, CallService(r)
      PROVE  Inv'
  BY <1>1, CallServiceKeeps
<1>2. ASSUME NEW r \in Requests, Proceed(r)
      PROVE  Inv'
  <2>1. CASE ValidateTags(r)
    BY <2>1, ValidateTagsKeeps
  <2>2. CASE BeginAssigning(r)
    BY <2>2, BeginAssigningKeeps
  <2>3. CASE BeginLocking(r)
    BY <2>3, BeginLockingKeeps
  <2>4. CASE LockNext(r)
    BY <2>4, LockNextKeeps
  <2>5. CASE RemoveOutdated(r)
    BY <2>5, RemoveOutdatedKeeps
  <2>6. CASE AssignMissing(r)
    BY <2>6, AssignMissingKeeps
  <2>7. CASE LookUp(r)
    BY <2>7, LookUpKeeps
  <2>8. CASE Insert(r)
    BY <2>8, InsertKeeps
  <2>9. CASE Refetch(r)
    BY <2>9, RefetchKeeps
  <2>10. CASE Finish(r)
    BY <2>10, FinishKeeps
  <2>11. CASE AbortDeadlock(r)
    BY <2>11, RollBackKeeps DEF AbortDeadlock
  <2> QED BY <1>2, <2>1, <2>2, <2>3, <2>4, <2>5, <2>6, <2>7, <2>8, <2>9, <2>10, <2>11 DEF Proceed
<1>3. ASSUME NEW r \in Requests, Die(r)
      PROVE  Inv'
  BY <1>3, RollBackKeeps DEF Die
<1>4. ASSUME NEW t \in Tags, ToggleTag(t)
      PROVE  Inv'
  BY <1>4, ToggleTagKeeps
<1>5. CASE RenameTag
  BY <1>5, RenameTagKeeps
<1>6. CASE UNCHANGED vars
  <2>1. UNCHANGED <<dbVars, requestVars, envVars>>
    BY <1>6 DEF vars
  <2>2. /\ tag_active' \in SUBSET Tags /\ by_name' \in Listings(Tags)
        /\ write_enabled' = write_enabled /\ calls' = calls /\ toggles' \in 0..MaxToggles
    BY <2>1 DEF envVars, Inv, Shape
  <2> QED BY <2>1, <2>2, TagsChangeKeeps
<1> QED BY <1>1, <1>2, <1>3, <1>4, <1>5, <1>6 DEF Next

(* In every behaviour, the locks agree with the rows, and every call has   *)
(* done what its point says, in its order.                                 *)
THEOREM Invariance == Spec => []Inv
BY InvInit, InvNext, PTL DEF Spec

(* Every variable keeps its type, and whoever is not in a transaction holds*)
(* no lock.                                                                *)
THEOREM TypeCorrect == Spec => []TypeOK
<1>1. Inv => TypeOK
  <2> SUFFICES ASSUME Inv PROVE TypeOK
    OBVIOUS
  <2>1. Shape
    BY DEF Inv
  <2>2. \A S, s : s \in Listings(S) /\ Cardinality(S) \in Nat =>
                    Len(s) = Cardinality(S) /\ ToSet(s) = S
    BY DEF Listings
  <2>3. Cardinality(Keys) \in Nat /\ Cardinality(Tags) \in Nat
    BY KeysFinite, Listed
  <2>4. /\ Len(newest) = Cardinality(Keys) /\ ToSet(newest) = Keys
        /\ ToSet(by_name) = Tags /\ Len(by_name) = Cardinality(Tags)
    BY <2>1, <2>2, <2>3 DEF Shape
  <2>5. \A r \in Requests : ToSet(order[r]) \in {{}, Tags}
    <3>1. ToSet(<<>>) = {}
      BY DEF ToSet
    <3> QED BY <2>1, <3>1 DEF Shape, Listings
  <2>6. ASSUME NEW k \in Keys, lock[k].owner # Nobody
        PROVE  pc[lock[k].owner] \notin {"idle", "called", "checked"}
    <3>1. lock[k].owner \in Requests
      BY <2>1, <2>6, LockFields
    <3>2. Staged(lock[k].owner)
      BY <3>1 DEF Inv, Call
    <3> QED BY <3>2 DEF Staged, Early
  <2> QED BY <2>1, <2>4, <2>5, <2>6 DEF TypeOK, Shape, LockSet
<1> QED BY <1>1, Invariance, PTL

(* A consumer of the created and removed events has the table, however many*)
(* idempotent writers and removers of the resource overlap.                *)
THEOREM EventsTell == Spec => []EventsTellTheRows
<1>1. Inv => EventsTellTheRows
  BY DEF Inv
<1> QED BY <1>1, Invariance, PTL

(* A call that commits leaves in its scope what it was asked for, but for  *)
(* what others changed since it began, and in other scopes what was there. *)
THEOREM CallsAreExactAlways == Spec => CallsAreExact
<1> DEFINE AllExact == \A r \in Requests : Finish(r) => Exact(r)
<1>1. Inv /\ [Next]_vars => [AllExact]_vars
  BY FinishKeeps
<1> HIDE DEF AllExact
<1>2. Spec => [][AllExact]_vars
  BY <1>1, Invariance, PTL DEF Spec
<1> QED BY <1>2 DEF CallsAreExact, AllExact

(* Who holds what a blocked writer wants, when neither is a replacement:   *)
(* a remover waits for a remover, an assigning call for one that inserted. *)
LEMMA RemoverWaits ==
  ASSUME Inv, NEW r \in Requests, NEW q \in Requests, pc[r] \in Locking, todo[r] # {},
         lock[NextToLock(r)].owner = q, WaitsFor(q) # {},
         service[r] # "replace_resource_tags", service[q] # "replace_resource_tags"
  PROVE  /\ pc[q] \in Locking /\ todo[q] # {}
         /\ Precedes(newest, NextToLock(r), NextToLock(q))
<1> DEFINE k == NextToLock(r)
<1>1. Shape /\ LocksMatchRows /\ Staged(r) /\ Staged(q) /\ Ordered(q)
  BY DEF Inv, Call
<1>2. k \in todo[r] /\ k \in Keys
  BY <1>1, NextToLockIn
<1> HIDE DEF k
<1>3. k \in present
  BY <1>1, <1>2 DEF Staged
<1>4. lock[k].owner = q /\ q # Nobody
  BY <1>1, LockFields DEF k
<1>5. lock[k].kind \in {"locked", "deleted"}
  BY <1>1, <1>2, <1>3, <1>4, LockFields DEF LocksMatchRows
<1>6. removed[q] = {} /\ removed[q] = HeldBy(q, "deleted")
  BY <1>1 DEF Staged
<1>7. k \in HeldBy(q, "locked")
  <2>1. \A kind \in {"locked", "inserted", "deleted"} :
          k \in HeldBy(q, kind) <=> lock[k].owner = q /\ lock[k].kind = kind
    BY <1>1, <1>2, HeldFields
  <2> QED BY <1>4, <1>5, <1>6, <2>1
<1>8. (pc[q] \in {"locking", "locking_rest"} /\ todo[q] # {}) \/ pc[q] = "inserting"
  <2> SUFFICES ASSUME ~(pc[q] \in {"locking", "locking_rest"} /\ todo[q] # {}), pc[q] # "inserting"
               PROVE  FALSE
    OBVIOUS
  <2>1. Blocker(q) = Unlocked
    BY DEF Blocker
  <2> QED BY <1>1, <2>1, LockFields DEF WaitsFor
<1>9. service[q] \in Removers
  <2>1. service[q] \in Services /\ service[q] \notin Assigners
    BY <1>1, <1>7, <1>8 DEF Staged
  <2> QED BY <2>1, AssignmentsAssumption
<1>10. pc[q] = "locking" /\ todo[q] # {}
  BY <1>1, <1>8, <1>9 DEF Staged, Assigning
<1>11. NextToLock(q) \in todo[q]
  BY <1>1, <1>10, NextToLockIn
<1>12. Precedes(newest, k, NextToLock(q))
  BY <1>1, <1>7, <1>10, <1>11 DEF Ordered
<1> QED BY <1>10, <1>12 DEF k, Locking

LEMMA AssigningWaits ==
  ASSUME Inv, NEW r \in Requests, NEW q \in Requests, pc[r] = "inserting", pc[q] = "inserting",
         lock[NextToAssign(r)] = [owner |-> q, kind |-> "inserted"]
  PROVE  /\ NextToAssign(r)[2] \in Tags /\ order[q] \in Listings(Tags)
         /\ Precedes(order[q], NextToAssign(r)[2], NextToAssign(q)[2])
<1>1. Shape /\ Staged(r) /\ Staged(q) /\ Ordered(q)
  BY DEF Inv, Call
<1>2. \A p \in {r, q} : /\ todo[p] # {} /\ todo[p] \subseteq Requested(p)
                        /\ order[p] \in Listings(Tags)
  BY <1>1 DEF Staged, Assigning
<1>3. \A p \in {r, q} : /\ NextToAssign(p) \in todo[p] /\ NextToAssign(p) \in Keys
                        /\ NextToAssign(p)[2] \in Tags
  BY <1>1, <1>2, NextToAssignIn
<1>4. NextToAssign(r) \in created[q]
  BY <1>1, <1>3 DEF Staged, HeldBy
<1>5. Precedes(order[q], NextToAssign(r)[2], NextToAssign(q)[2])
  BY <1>1, <1>3, <1>4 DEF Ordered, Assigning
<1> QED BY <1>2, <1>3, <1>5

(* Transactions wait for one another in a circle only if one of them is a  *)
(* replacement or two of them read the tags in different orders.           *)
THEOREM DeadlocksHaveCausesAlways == Spec => []DeadlocksHaveCauses
<1>1. Inv => DeadlocksHaveCauses
  <2> SUFFICES ASSUME Inv, NEW S \in SUBSET Requests, Circle(S),
                      \A r \in S : service[r] # "replace_resource_tags",
                      \A q, r \in S : order[q] = order[r]
               PROVE  FALSE
    BY DEF DeadlocksHaveCauses
  <2>1. Shape
    BY DEF Inv
  <2>2. S # {} /\ \A r \in S : WaitsFor(r) # {} /\ Blocker(r).owner \in S
    BY DEF Circle, WaitsFor
  <2>3. ASSUME NEW r \in S
        PROVE  \/ pc[r] \in Locking /\ todo[r] # {} /\ lock[NextToLock(r)].owner \in S
               \/ /\ pc[r] = "inserting" /\ lock[NextToAssign(r)].kind \in {"inserted", "deleted"}
                  /\ lock[NextToAssign(r)].owner \in S
    <3>1. CASE pc[r] \in Locking /\ todo[r] # {}
      <4>1. Blocker(r) = lock[NextToLock(r)]
        BY <3>1 DEF Blocker, Locking
      <4> QED BY <2>2, <3>1, <4>1
    <3>2. CASE pc[r] = "inserting" /\ lock[NextToAssign(r)].kind \in {"inserted", "deleted"}
      <4>1. Blocker(r) = lock[NextToAssign(r)]
        BY <3>2 DEF Blocker
      <4> QED BY <2>2, <3>2, <4>1
    <3>3. CASE /\ ~(pc[r] \in Locking /\ todo[r] # {})
               /\ ~(pc[r] = "inserting" /\ lock[NextToAssign(r)].kind \in {"inserted", "deleted"})
      <4>1. Blocker(r) = Unlocked
        BY <3>3 DEF Blocker, Locking
      <4> QED BY <2>1, <2>2, <4>1, LockFields
    <3> QED BY <3>1, <3>2, <3>3
  <2>4. ASSUME NEW r \in S, pc[r] \in Locking
        PROVE  FALSE
    <3> DEFINE M == {p \in S : pc[p] \in Locking /\ todo[p] # {}}
               f == [p \in S |-> NextToLock(p)]
               n == Cardinality(Keys)
    <3>1. M # {}
      BY <2>3, <2>4 DEF Locking
    <3>2. n \in Nat /\ DOMAIN newest = 1..n /\ \A x \in Keys : \E i \in 1..n : newest[i] = x
      BY <2>1, Listed, KeysFinite DEF Shape
    <3>3. ASSUME NEW p \in M
          PROVE  \E i \in 1..n : newest[i] = f[p]
      BY <2>1, <3>2, NextToLockIn
    <3>4. ASSUME NEW p \in M
          PROVE  \E q \in M : Precedes(newest, f[p], f[q])
      <4>1. lock[NextToLock(p)].owner \in S
        BY <2>3 DEF Locking
      <4>2. PICK q \in S : lock[NextToLock(p)].owner = q
        BY <4>1
      <4>3. q \in M /\ Precedes(newest, NextToLock(p), NextToLock(q))
        BY <2>2, <4>2, RemoverWaits
      <4> QED BY <4>3
    <3> HIDE DEF M, f, n
    <3> QED BY <3>1, <3>2, <3>3, <3>4, NoCircle
  <2>5. PICK c \in S : TRUE
    BY <2>2
  <2> DEFINE f == [p \in S |-> NextToAssign(p)[2]]
             n == Cardinality(Tags)
  <2>6. \A p \in S : pc[p] = "inserting"
    BY <2>3, <2>4
  <2>7. ASSUME NEW p \in S
        PROVE  \E q \in S : lock[NextToAssign(p)] = [owner |-> q, kind |-> "inserted"]
    <3>1. PICK q \in S : lock[NextToAssign(p)].owner = q
      BY <2>3, <2>4
    <3>2. lock[NextToAssign(p)].kind \in {"inserted", "deleted"}
      BY <2>3, <2>4
    <3>3. NextToAssign(p) \in Keys
      <4>1. Staged(p)
        BY DEF Inv, Call
      <4>2. todo[p] # {} /\ todo[p] \subseteq Requested(p) /\ order[p] \in Listings(Tags)
        BY <2>6, <4>1 DEF Staged, Assigning
      <4> QED BY <2>1, <4>2, NextToAssignIn
    <3>4. \A kind \in {"locked", "inserted", "deleted"} :
            NextToAssign(p) \in HeldBy(q, kind) <=>
              lock[NextToAssign(p)].owner = q /\ lock[NextToAssign(p)].kind = kind
      BY <2>1, <3>3, HeldFields
    <3>5. HeldBy(q, "deleted") = {}
      BY DEF Inv, Call, Staged
    <3>6. NextToAssign(p) \in HeldBy(q, "inserted")
      BY <3>1, <3>2, <3>4, <3>5
    <3> QED BY <3>6 DEF HeldBy
  <2>8. ASSUME NEW p \in S
        PROVE  \E q \in S : /\ Precedes(order[c], f[p], f[q])
                            /\ f[p] \in Tags /\ order[c] \in Listings(Tags)
    <3>1. PICK q \in S : lock[NextToAssign(p)] = [owner |-> q, kind |-> "inserted"]
      BY <2>7
    <3>2. /\ NextToAssign(p)[2] \in Tags /\ order[q] \in Listings(Tags)
          /\ Precedes(order[q], NextToAssign(p)[2], NextToAssign(q)[2])
      BY <2>6, <3>1, AssigningWaits
    <3>3. order[q] = order[c]
      OBVIOUS
    <3> QED BY <3>2, <3>3
  <2> HIDE DEF f
  <2>9. order[c] \in Listings(Tags)
    BY <2>5, <2>8
  <2>10. n \in Nat /\ DOMAIN order[c] = 1..n /\ \A x \in Tags : \E i \in 1..n : order[c][i] = x
    BY <2>9, Listed, KeysFinite
  <2> HIDE DEF n
  <2>11. \A p \in S : \E i \in 1..n : order[c][i] = f[p]
    BY <2>8, <2>10
  <2> QED BY <2>2, <2>8, <2>10, <2>11, NoCircle
<1> QED BY <1>1, Invariance, PTL

=============================================================================
