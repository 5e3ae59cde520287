---------------------------- MODULE AdminBulkProofs ----------------------------
(***************************************************************************)
(* Theorems about AdminBulk, for any tables, selections and numbers of     *)
(* transactions.  The inductive invariant says of every transaction what it*)
(* has written (Proper, Sealed), what it has done of its selection         *)
(* (Processed), and which locks it holds at which point (Placed).  Another *)
(* transaction's commit changes only rows that this one has not locked.    *)
(***************************************************************************)
EXTENDS AdminBulk, TLAPS

AllServices == Deactivations \union Reactivations \union {"update_tag_alias"}
AliasServices == {"reactivate_tag_alias", "update_tag_alias"}
SessionSet == [service : AllServices, selection : Seq(Rows), link : Tags \union {NoRow}]
Writings == [Rows -> Content \union {NoRow}]

Shape ==
  /\ rows \in [Rows -> Content] /\ write_enabled \in BOOLEAN
  /\ pc \in [Requests -> Points]
  /\ session \in [Requests -> SessionSet]
  /\ loaded \in [Requests -> SUBSET Rows]
  /\ done \in [Requests -> Nat]
  /\ holding \in [Requests -> SUBSET Rows]
  /\ earlier \in [Requests -> SUBSET Rows]
  /\ written \in [Requests -> Writings]
  /\ chosen \in [Requests -> Tags \union {NoRow}]
  /\ attempt \in [Requests -> 0..2]

(* A link names a row of the right table.                                  *)
Linked(x, link) ==
  (x \in Tags => link \in Vocabularies \union {NoRow}) /\ (x \in Aliases => link \in Tags)

Exclusive == \A r, q \in Requests : r # q => holding[r] \intersect holding[q] = {}

(* The selection of a transaction.                                         *)
Asked(r) ==
  pc[r] # "idle" =>
    /\ session[r].service \in Services
    /\ done[r] < Len(session[r].selection)
    /\ \A i \in 1..Len(session[r].selection) :
         session[r].selection[i] \in Kind(session[r].service)
    /\ session[r].service = "update_tag_alias" =>
         Len(session[r].selection) = 1 /\ session[r].link \in Tags

(* What a transaction sees, and would commit, had it written `writes`.     *)
Seen(writes, x) == IF writes[x] = NoRow THEN rows[x] ELSE writes[x]

(* It writes rows it has locked, each in the direction of its service: the *)
(* selected ones, and active aliases of deactivated tags.  An alias becomes*)
(* active only while its active tag is locked.                             *)
Proper(r, locks, writes) ==
  LET service == session[r].service
  IN \A x \in Rows : writes[x] # NoRow =>
       /\ x \in locks /\ Linked(x, writes[x].link)
       /\ x \in Kind(service) \/ (service = "deactivate_tag" /\ x \in Aliases)
       /\ service # "update_tag_alias" => (writes[x].active <=> service \in Reactivations)
       /\ \/ x \in Selected(r)
          \/ service = "deactivate_tag" /\ x \in Aliases /\ rows[x].link \in Selected(r)
       /\ x \in Aliases /\ writes[x].active =>
            writes[x].link \in locks /\ rows[writes[x].link].active

(* Nobody sees an active alias of a tag that deactivate_tag is done with.  *)
Sealed(r, writes, except) ==
  session[r].service = "deactivate_tag" =>
    \A t \in Tags \ except, a \in Aliases :
      writes[t] # NoRow /\ Seen(writes, a).link = t => ~Seen(writes, a).active

(* The first n rows of the selection are as the service leaves them, and   *)
(* stay so: they are locked, or removed for good.                          *)
Sight(r) == IF session[r].service \in {"deactivate_vocabulary", "deactivate_tag_alias"}
            THEN loaded[r] ELSE Selected(r)
Processed(r, locks, writes, n) ==
  session[r].service # "update_tag_alias" =>
    \A i \in 1..n : LET x == session[r].selection[i] IN
      x \in Sight(r) =>
        /\ Seen(writes, x).active <=> session[r].service \in Reactivations
        /\ x \in locks \/ x \in Assignments

(* Of its locks, those on which its writes rest: a service writes nothing  *)
(* before its last statement, but for the tag of deactivate_tag.           *)
Kept(r) == IF pc[r] = "cascade" THEN holding[r] ELSE earlier[r]
Unsealed(r) == IF pc[r] = "cascade" THEN {Current(r)} ELSE {}

(* What it holds at each point; all locks that are not from earlier rows   *)
(* are the current tag's and its aliases', in this order.                  *)
Placed(r) ==
  /\ earlier[r] \subseteq holding[r]
  /\ pc[r] = "idle" => /\ holding[r] = {} /\ written[r] = Nothing /\ done[r] = 0
                       /\ session[r] = NoSession
  /\ pc[r] \in {"idle", "next", "chosen"} => holding[r] = earlier[r]
  /\ pc[r] = "cascade" =>
       /\ session[r].service = "deactivate_tag"
       /\ Current(r) \in holding[r] /\ ~View(r, Current(r)).active
       /\ \A x \in holding[r] \ earlier[r] :
            x = Current(r) \/ (x \in Aliases /\ rows[x].link = Current(r))
  /\ pc[r] = "chosen" => session[r].service \in AliasServices /\ chosen[r] \in Tags
  /\ pc[r] = "tag locked" =>
       /\ holding[r] \ earlier[r] \subseteq Tags
       /\ \/ /\ session[r].service = "reactivate_tag"
             /\ Current(r) \in holding[r] /\ View(r, Current(r)).link # NoRow
          \/ /\ session[r].service \in AliasServices
             /\ chosen[r] \in Tags \intersect holding[r]
             /\ session[r].service = "update_tag_alias" => rows[chosen[r]].active

Transaction(r) ==
  /\ Asked(r) /\ Placed(r)
  /\ Proper(r, Kept(r), written[r])
  /\ Sealed(r, written[r], Unsealed(r))
  /\ Processed(r, Kept(r), written[r], done[r])

Inv ==
  /\ Shape /\ Exclusive /\ AliasFollowsTag
  /\ \A x \in Rows : Linked(x, rows[x].link)
  /\ \A r \in Requests : Transaction(r)

-----------------------------------------------------------------------------
(* The tables are disjoint, and every service has its own.                 *)
LEMMA TablesApart ==
  /\ NoRow \notin Rows /\ NoRow \notin Content
  /\ \A x \in Vocabularies : x \in Rows /\ x \notin Tags /\ x \notin Aliases /\ x \notin Assignments
  /\ \A x \in Tags : x \in Rows /\ x \notin Vocabularies /\ x \notin Aliases /\ x \notin Assignments
  /\ \A x \in Aliases : x \in Rows /\ x \notin Vocabularies /\ x \notin Tags /\ x \notin Assignments
  /\ \A x \in Assignments : x \in Rows /\ x \notin Vocabularies /\ x \notin Tags /\ x \notin Aliases
BY AdminAssumption DEF Rows

LEMMA KindOf ==
  ASSUME NEW s \in AllServices
  PROVE  /\ s \in {"deactivate_vocabulary", "reactivate_vocabulary"} => Kind(s) = Vocabularies
         /\ s \in {"deactivate_tag", "reactivate_tag"} => Kind(s) = Tags
         /\ s = "remove_tag_assignment" => Kind(s) = Assignments
         /\ s \in {"deactivate_tag_alias", "reactivate_tag_alias", "update_tag_alias"} =>
              Kind(s) = Aliases
         /\ Kind(s) \subseteq Rows
BY DEF Kind, AllServices, Deactivations, Reactivations, Rows

LEMMA ContentFields ==
  \A c \in Content : /\ c.active \in BOOLEAN /\ c.link \in Rows \union {NoRow}
                     /\ \A b \in BOOLEAN : /\ [c EXCEPT !.active = b] \in Content
                                           /\ [c EXCEPT !.active = b].active <=> b
                                           /\ [c EXCEPT !.active = b].link = c.link
BY DEF Content

(* The row at hand.                                                        *)
LEMMA CurrentRow ==
  ASSUME Inv, NEW r \in Requests, pc[r] # "idle"
  PROVE  /\ session[r].service \in AllServices /\ session[r].service \in Services
         /\ Current(r) \in Kind(session[r].service)
         /\ Current(r) \in Rows /\ Current(r) \in Selected(r)
         /\ done[r] + 1 \in 1..Len(session[r].selection)
         /\ DOMAIN session[r].selection = 1..Len(session[r].selection)
<1>1. /\ session[r] \in SessionSet /\ done[r] \in Nat
      /\ done[r] < Len(session[r].selection)
      /\ \A i \in 1..Len(session[r].selection) :
           session[r].selection[i] \in Kind(session[r].service)
  BY DEF Inv, Transaction, Asked, Shape
<1>2. session[r].selection \in Seq(Rows) /\ session[r].service \in AllServices
  BY <1>1 DEF SessionSet
<1>3. /\ done[r] + 1 \in 1..Len(session[r].selection)
      /\ DOMAIN session[r].selection = 1..Len(session[r].selection)
  BY <1>1, <1>2
<1> QED BY <1>1, <1>2, <1>3, KindOf DEF Current, Selected, Inv, Transaction, Asked

(* What a transaction sees of a row is a row of the right type.            *)
LEMMA SeenTyped ==
  ASSUME Inv, NEW r \in Requests, NEW x \in Rows
  PROVE  /\ View(r, x) = Seen(written[r], x)
         /\ View(r, x) \in Content /\ Linked(x, View(r, x).link)
<1>1. rows[x] \in Content /\ written[r][x] \in Content \union {NoRow}
  BY DEF Inv, Shape, Writings
<1>2. Linked(x, rows[x].link) /\ (written[r][x] # NoRow => Linked(x, written[r][x].link))
  BY DEF Inv, Transaction, Proper
<1> QED BY <1>1, <1>2 DEF View, Seen

-----------------------------------------------------------------------------
(* Other transactions.                                                     *)
Untouched(q) ==
  /\ pc'[q] = pc[q] /\ session'[q] = session[q] /\ loaded'[q] = loaded[q]
  /\ done'[q] = done[q] /\ holding'[q] = holding[q] /\ earlier'[q] = earlier[q]
  /\ written'[q] = written[q] /\ chosen'[q] = chosen[q] /\ attempt'[q] = attempt[q]

(* The tables after a step of r: as before, or with its writes committed.  *)
Tables(r, locks, writes) ==
  /\ locks \in SUBSET Rows /\ writes \in Writings
  /\ \A q \in Requests \ {r} : locks \intersect holding[q] = {}
  /\ Proper(r, locks, writes)
  /\ rows' = rows \/ rows' = [x \in Rows |-> Seen(writes, x)]

LEMMA OthersKeep ==
  ASSUME Inv, NEW r \in Requests, NEW q \in Requests, q # r, NEW locks, NEW writes,
         Tables(r, locks, writes), session[r].service \in AllServices, Untouched(q)
  PROVE  Transaction(q)'
<1>a. Shape /\ Transaction(q)
  BY DEF Inv
<1>1. \A x \in holding[q] : x \in Rows /\ rows'[x] = rows[x]
  BY <1>a DEF Tables, Proper, Seen, Shape
<1>b. Kept(q) \subseteq holding[q] /\ Kept(q)' = Kept(q)
  BY <1>a DEF Transaction, Placed, Kept, Untouched
<1>2. \A x \in Rows : rows'[x] # rows[x] => writes[x] # NoRow /\ rows'[x] = writes[x]
  BY DEF Tables, Seen
<1>3. \A x \in Rows : written[q][x] # NoRow => x \in holding[q]
  BY <1>a, <1>b DEF Transaction, Proper
<1>5. /\ Current(q)' = Current(q) /\ Selected(q)' = Selected(q) /\ Sight(q)' = Sight(q)
      /\ Unsealed(q)' = Unsealed(q)
  BY DEF Current, Selected, Sight, Unsealed, Untouched
<1>6. Asked(q)'
  BY <1>a DEF Transaction, Asked, Untouched
<1>7. Proper(q, Kept(q), written[q])'
  BY <1>a, <1>1, <1>b, <1>5 DEF Transaction, Proper, Untouched
<1>8. Placed(q)'
  <2>2. pc[q] # "idle" => Current(q) \in Rows
    BY CurrentRow
  <2>3. chosen[q] \in holding[q] => rows'[chosen[q]] = rows[chosen[q]]
    BY <1>1
  <2>4. Placed(q) /\ pc[q] \in Points
    BY <1>a DEF Transaction, Shape
  <2>5. /\ earlier[q] \subseteq holding[q]
        /\ pc[q] = "idle" => /\ holding[q] = {} /\ written[q] = Nothing /\ done[q] = 0
                             /\ session[q] = NoSession
        /\ pc[q] \in {"idle", "next", "chosen"} => holding[q] = earlier[q]
        /\ pc[q] = "chosen" => session[q].service \in AliasServices /\ chosen[q] \in Tags
    BY <2>4 DEF Placed
  <2>6. ASSUME pc[q] = "cascade"
        PROVE  /\ session[q].service = "deactivate_tag"
               /\ Current(q) \in holding[q] /\ ~View(q, Current(q))'.active
               /\ \A x \in holding[q] \ earlier[q] :
                    x = Current(q) \/ (x \in Aliases /\ rows'[x].link = Current(q))
    <3>1. /\ session[q].service = "deactivate_tag"
          /\ Current(q) \in holding[q] /\ ~View(q, Current(q)).active
          /\ \A x \in holding[q] \ earlier[q] :
               x = Current(q) \/ (x \in Aliases /\ rows[x].link = Current(q))
      BY <2>4, <2>6 DEF Placed
    <3>2. View(q, Current(q))' = View(q, Current(q))
      BY <1>1, <1>5, <3>1 DEF View, Untouched
    <3> HIDE DEF View, Current
    <3> QED BY <1>1, <3>1, <3>2
  <2>7. ASSUME pc[q] = "tag locked"
        PROVE  /\ holding[q] \ earlier[q] \subseteq Tags
               /\ \/ /\ session[q].service = "reactivate_tag"
                     /\ Current(q) \in holding[q] /\ View(q, Current(q))'.link # NoRow
                  \/ /\ session[q].service \in AliasServices
                     /\ chosen[q] \in Tags \intersect holding[q]
                     /\ session[q].service = "update_tag_alias" => rows'[chosen[q]].active
    <3>1. /\ holding[q] \ earlier[q] \subseteq Tags
          /\ \/ /\ session[q].service = "reactivate_tag"
                /\ Current(q) \in holding[q] /\ View(q, Current(q)).link # NoRow
             \/ /\ session[q].service \in AliasServices
                /\ chosen[q] \in Tags \intersect holding[q]
                /\ session[q].service = "update_tag_alias" => rows[chosen[q]].active
      BY <2>4, <2>7 DEF Placed
    <3>2. Current(q) \in holding[q] => View(q, Current(q))' = View(q, Current(q))
      BY <1>1, <1>5 DEF View, Untouched
    <3> QED BY <2>3, <3>1, <3>2
  <2> QED BY <1>5, <2>5, <2>6, <2>7 DEF Placed, Untouched
<1>9. Sealed(q, written[q], Unsealed(q))'
  <2> SUFFICES ASSUME session[q].service = "deactivate_tag", NEW t \in Tags \ Unsealed(q),
                      NEW a \in Aliases, written[q][t] # NoRow,
                      Seen(written[q], a)'.link = t, Seen(written[q], a)'.active
               PROVE  FALSE
    BY <1>5 DEF Sealed, Untouched
  <2>1. a \in Rows /\ t \in Rows
    BY TablesApart
  <2>2. ~(Seen(written[q], a).link = t /\ Seen(written[q], a).active)
    BY <1>a DEF Transaction, Sealed
  <2>3. Seen(written[q], a)' # Seen(written[q], a)
    BY <2>2
  <2>4. written[q][a] = NoRow /\ rows'[a] # rows[a] /\ Seen(written[q], a)' = rows'[a]
    BY <2>1, <2>3 DEF Seen, Untouched
  <2>5. writes[a] # NoRow /\ writes[a].active /\ writes[a].link = t
    BY <1>2, <2>1, <2>4
  <2>6. t \in locks
    BY <2>1, <2>5 DEF Tables, Proper
  <2>7. t \in holding[q]
    BY <1>3, <2>1
  <2> QED BY <2>6, <2>7 DEF Tables
<1>10. Processed(q, Kept(q), written[q], done[q])'
  <2> SUFFICES ASSUME session[q].service # "update_tag_alias", NEW i \in 1..done[q],
                      session[q].selection[i] \in Sight(q)
               PROVE  LET x == session[q].selection[i]
                      IN /\ Seen(written[q], x)'.active <=> session[q].service \in Reactivations
                         /\ x \in Kept(q) \/ x \in Assignments
    BY <1>b, <1>5 DEF Processed, Untouched
  <2> DEFINE x == session[q].selection[i]
  <2>1. /\ Seen(written[q], x).active <=> session[q].service \in Reactivations
        /\ x \in Kept(q) \/ x \in Assignments
    BY <1>a DEF Transaction, Processed
  <2>2. CASE x \in holding[q]
    <3>1. Seen(written[q], x)' = Seen(written[q], x)
      BY <1>1, <2>2 DEF Seen, Untouched
    <3> QED BY <2>1, <2>2, <3>1
  <2>3. CASE x \notin holding[q]
    <3>1. x \in Assignments /\ x \in Rows /\ written[q][x] = NoRow
      BY <1>3, <1>b, <2>1, <2>3, TablesApart
    <3>2. Seen(written[q], x) = rows[x] /\ Seen(written[q], x)' = rows'[x]
      BY <3>1 DEF Seen, Untouched
    <3>3. session[q].service \notin Reactivations
      <4>1. pc[q] # "idle"
        <5>1. done[q] # 0
          BY <1>a DEF Shape
        <5> QED BY <1>a, <5>1 DEF Transaction, Placed
      <4>2. session[q].service \in AllServices /\ x \in Kind(session[q].service)
        <5>1. session[q].selection \in Seq(Rows) /\ done[q] \in Nat
              /\ done[q] < Len(session[q].selection)
          BY <1>a, <4>1 DEF Transaction, Asked, Shape, SessionSet
        <5>2. i \in 1..Len(session[q].selection)
          BY <5>1
        <5> QED BY <1>a, <4>1, <5>2 DEF Transaction, Asked, Shape, SessionSet
      <4> QED BY <3>1, <4>2, KindOf, TablesApart DEF Reactivations
    <3>4. ~rows[x].active
      BY <2>1, <3>2, <3>3
    <3>5. rows'[x] # rows[x] => ~rows'[x].active
      <4> SUFFICES ASSUME rows'[x] # rows[x] PROVE ~rows'[x].active
        OBVIOUS
      <4>1. writes[x] # NoRow /\ rows'[x] = writes[x]
        BY <1>2, <3>1
      <4>2. x \in Kind(session[r].service)
        BY <3>1, <4>1, TablesApart DEF Tables, Proper
      <4>3. session[r].service = "remove_tag_assignment"
        BY <3>1, <4>2, KindOf, TablesApart
           DEF AllServices, Deactivations, Reactivations
      <4> QED BY <3>1, <4>1, <4>3 DEF Tables, Proper, Reactivations
    <3> QED BY <2>1, <3>2, <3>3, <3>4, <3>5
  <2> QED BY <2>2, <2>3
<1> QED BY <1>6, <1>7, <1>8, <1>9, <1>10 DEF Transaction

(* A step of r that keeps its own transaction right keeps the invariant.   *)
Frame(r) == \A q \in Requests \ {r} : Untouched(q)

LEMMA StepKeeps ==
  ASSUME Inv, NEW r \in Requests, NEW locks, NEW writes, Tables(r, locks, writes), Frame(r),
         Shape', holding'[r] \subseteq locks, Transaction(r)',
         rows' = rows \/ Sealed(r, writes, {})
  PROVE  Inv'
<1>1. Shape /\ session[r].service \in AllServices
  BY DEF Inv, Shape, SessionSet
<1>2. \A q \in Requests \ {r} : Transaction(q)'
  BY <1>1, OthersKeep DEF Frame
<1>3. Exclusive'
  <2>1. ASSUME NEW q \in Requests, q # r
        PROVE  holding'[r] \intersect holding'[q] = {}
    BY <2>1 DEF Tables, Frame, Untouched
  <2>2. ASSUME NEW p \in Requests, NEW q \in Requests, p # r, q # r, p # q
        PROVE  holding'[p] \intersect holding'[q] = {}
    BY <2>2 DEF Inv, Exclusive, Frame, Untouched
  <2> QED BY <2>1, <2>2 DEF Exclusive
<1>4. ASSUME NEW x \in Rows
      PROVE  /\ rows'[x] = rows[x] \/ (writes[x] # NoRow /\ rows'[x] = writes[x])
             /\ rows' # rows => rows'[x] = Seen(writes, x)
             /\ Linked(x, rows[x].link) /\ Linked(x, rows'[x].link)
  BY <1>1 DEF Inv, Tables, Seen, Proper
<1>5. AliasFollowsTag'
  <2> SUFFICES ASSUME NEW a \in Aliases, rows'[a].active, rows' # rows
               PROVE  rows'[rows'[a].link].active
    BY DEF AliasFollowsTag, Inv
  <2> DEFINE t == rows'[a].link
  <2>1. a \in Rows /\ a \notin Tags /\ a \notin Vocabularies /\ a \notin Assignments
        /\ t \in Tags /\ t \in Rows /\ t \notin Aliases /\ t \notin Vocabularies
    BY <1>4, TablesApart DEF Linked
  <2>2. rows'[a] = Seen(writes, a) /\ rows'[t] = Seen(writes, t)
    BY <1>4, <2>1
  <2>3. writes[t] # NoRow => /\ t \in Kind(session[r].service)
                             /\ session[r].service # "update_tag_alias" =>
                                  (writes[t].active <=> session[r].service \in Reactivations)
    BY <2>1 DEF Tables, Proper
  <2>4. writes[t] # NoRow => session[r].service \in {"deactivate_tag", "reactivate_tag"}
    BY <1>1, <2>1, <2>3, KindOf, TablesApart DEF AllServices, Deactivations, Reactivations
  <2>5. CASE writes[a] # NoRow
    <3>1. /\ rows'[a] = writes[a] /\ rows[t].active
          /\ a \in Kind(session[r].service) \/ session[r].service = "deactivate_tag"
          /\ session[r].service # "update_tag_alias" => session[r].service \in Reactivations
      BY <2>1, <2>2, <2>5 DEF Tables, Proper, Seen
    <3>2. session[r].service \notin {"deactivate_tag", "reactivate_tag"}
      BY <1>1, <2>1, <3>1, KindOf DEF Reactivations
    <3>3. rows'[t] = rows[t]
      BY <2>2, <2>4, <3>2 DEF Seen
    <3> QED BY <3>1, <3>3
  <2>6. CASE writes[a] = NoRow
    <3>1. rows'[a] = rows[a] /\ rows[t].active
      BY <2>2, <2>6 DEF Seen, Inv, AliasFollowsTag
    <3>2. CASE writes[t] = NoRow
      BY <2>2, <3>1, <3>2 DEF Seen
    <3>3. CASE writes[t] # NoRow
      <4>1. session[r].service # "deactivate_tag"
        BY <2>1, <2>2, <3>3 DEF Sealed
      <4>2. writes[t].active
        BY <2>3, <2>4, <3>3, <4>1 DEF Reactivations
      <4> QED BY <2>2, <3>3, <4>2 DEF Seen
    <3> QED BY <3>2, <3>3
  <2> QED BY <2>5, <2>6
<1> QED BY <1>2, <1>3, <1>4, <1>5 DEF Inv

(* The transaction is over.                                                *)
LEMMA Ended ==
  ASSUME Shape, NEW r \in Requests, End(r), UNCHANGED write_enabled, rows' \in [Rows -> Content]
  PROVE  Frame(r) /\ Shape' /\ Transaction(r)' /\ holding'[r] = {}
<1>1. Frame(r)
  BY DEF End, Frame, Untouched, Shape
<1>2. /\ pc'[r] = "idle" /\ session'[r] = NoSession /\ done'[r] = 0 /\ holding'[r] = {}
      /\ earlier'[r] = {} /\ written'[r] = Nothing
  BY DEF End, Shape
<1>3. /\ NoSession \in SessionSet /\ NoSession.service = "deactivate_tag"
      /\ Nothing \in Writings /\ \A x \in Rows : Nothing[x] = NoRow
  BY DEF NoSession, SessionSet, AllServices, Deactivations, Nothing, Writings
<1>4. Shape'
  <2>1. /\ pc' \in [Requests -> Points] /\ session' \in [Requests -> SessionSet]
        /\ chosen' \in [Requests -> Tags \union {NoRow}]
        /\ written' \in [Requests -> Writings]
    BY <1>3 DEF End, Shape, Points
  <2>2. done' \in [Requests -> Nat] /\ attempt' \in [Requests -> 0..2]
    BY DEF End, Shape
  <2>3. /\ loaded' \in [Requests -> SUBSET Rows] /\ holding' \in [Requests -> SUBSET Rows]
        /\ earlier' \in [Requests -> SUBSET Rows]
    BY DEF End, Shape
  <2> QED BY <2>1, <2>2, <2>3 DEF Shape
<1>5. Asked(r)' /\ Placed(r)'
  BY <1>2 DEF Asked, Placed
<1>6. Proper(r, Kept(r), written[r])'
  BY <1>2, <1>3 DEF Proper
<1>7. Sealed(r, written[r], Unsealed(r))'
  BY <1>2, <1>3, TablesApart DEF Sealed
<1>8. Processed(r, Kept(r), written[r], done[r])'
  <2>1. \A i \in 1..0 : FALSE
    OBVIOUS
  <2> QED BY <1>2, <2>1 DEF Processed
<1> QED BY <1>1, <1>2, <1>4, <1>5, <1>6, <1>7, <1>8 DEF Transaction

(* A step of r that is right: it changes the tables only as a whole.       *)
Sound(r) ==
  /\ Inv'
  /\ rows' = rows \/ (Frame(r) /\ pc'[r] = "idle" /\ Switches(r))

LEMMA RollBackKeeps ==
  ASSUME Inv, NEW r \in Requests, RollBack(r)
  PROVE  Sound(r)
<1>1. Shape /\ rows' = rows /\ UNCHANGED write_enabled /\ End(r) /\ rows' \in [Rows -> Content]
  BY DEF Inv, Shape, RollBack
<1>2. Frame(r) /\ Shape' /\ Transaction(r)' /\ holding'[r] = {}
  BY <1>1, Ended
<1>3. Nothing \in Writings /\ \A x \in Rows : Nothing[x] = NoRow
  BY DEF Nothing, Writings
<1>4. Tables(r, {}, Nothing)
  BY <1>1, <1>3 DEF Tables, Proper
<1> QED BY <1>1, <1>2, <1>4, StepKeeps DEF Sound

(* A service returns, having locked and written what it may.               *)
LEMMA CompleteKeeps ==
  ASSUME Inv, NEW r \in Requests, pc[r] # "idle", NEW locks \in SUBSET Rows,
         NEW writes \in Writings, Complete(r, locks, writes), holding[r] \subseteq locks,
         \A x \in locks \ holding[r] : Free(r, x),
         Proper(r, locks, writes), Sealed(r, writes, {}),
         Processed(r, locks, writes, done[r] + 1)
  PROVE  Sound(r)
<1>1. Shape /\ Transaction(r)
  BY DEF Inv
<1>2. \A q \in Requests \ {r} : locks \intersect holding[q] = {}
  BY DEF Inv, Exclusive, Free
<1>3. CASE done[r] + 1 = Len(session[r].selection)
  <2>1. End(r) /\ rows' = [x \in Rows |-> Seen(writes, x)] /\ UNCHANGED write_enabled
    BY <1>3 DEF Complete, Seen
  <2>2. rows' \in [Rows -> Content]
    BY <1>1, <2>1 DEF Seen, Writings, Shape
  <2>3. Frame(r) /\ Shape' /\ Transaction(r)' /\ holding'[r] = {}
    BY <1>1, <2>1, <2>2, Ended
  <2>4. Tables(r, locks, writes)
    BY <1>2, <2>1 DEF Tables
  <2>5. pc'[r] = "idle"
    BY <1>1, <2>1 DEF End, Shape
  <2>6. Switches(r)
    <3>1. /\ session[r].selection \in Seq(Rows) /\ Selected(r) \subseteq Rows
          /\ \A x \in Selected(r) :
               \E i \in 1..(done[r] + 1) : x = session[r].selection[i]
      BY <1>1, <1>3 DEF Shape, SessionSet, Selected
    <3>2. ASSUME NEW x \in Selected(r) \intersect Sight(r),
                 session[r].service # "update_tag_alias"
          PROVE  rows'[x].active = (session[r].service \in Reactivations)
      <4>1. Seen(writes, x).active <=> session[r].service \in Reactivations
        BY <3>1, <3>2 DEF Processed
      <4>2. rows'[x] = Seen(writes, x) /\ rows'[x].active \in BOOLEAN
        BY <2>1, <2>2, <3>1, ContentFields
      <4> QED BY <4>1, <4>2
    <3>3. ASSUME NEW x \in Rows, rows'[x] # rows[x]
          PROVE  \/ x \in Selected(r)
                 \/ /\ session[r].service = "deactivate_tag" /\ rows[x].link \in Selected(r)
                    /\ ~rows'[x].active
      BY <2>1, <3>3 DEF Seen, Proper, Reactivations
    <3> QED BY <3>2, <3>3 DEF Switches, Sight
  <2> QED BY <2>3, <2>4, <2>5, <2>6, StepKeeps DEF Sound
<1>4. CASE done[r] + 1 # Len(session[r].selection)
  <2>1. /\ pc'[r] = "next" /\ done'[r] = done[r] + 1 /\ holding'[r] = locks
        /\ earlier'[r] = locks /\ written'[r] = writes
        /\ rows' = rows /\ session' = session /\ loaded' = loaded
    BY <1>1, <1>4 DEF Complete, Shape
  <2>2. Frame(r)
    BY <1>1, <1>4 DEF Complete, Frame, Untouched, Shape
  <2>3. Shape'
    <3>1. pc' \in [Requests -> Points] /\ written' \in [Requests -> Writings]
      BY <1>1, <1>4 DEF Complete, Shape, Points
    <3>2. done' \in [Requests -> Nat] /\ attempt' \in [Requests -> 0..2]
      BY <1>1, <1>4 DEF Complete, Shape
    <3>3. holding' \in [Requests -> SUBSET Rows] /\ earlier' \in [Requests -> SUBSET Rows]
      BY <1>1, <1>4 DEF Complete, Shape
    <3>4. UNCHANGED <<rows, write_enabled, session, loaded, chosen>>
      BY <1>4 DEF Complete
    <3> QED BY <1>1, <3>1, <3>2, <3>3, <3>4 DEF Shape
  <2>4. Asked(r)'
    <3>1. done[r] \in Nat /\ done[r] < Len(session[r].selection)
          /\ session[r].selection \in Seq(Rows)
      BY <1>1 DEF Transaction, Asked, Shape, SessionSet
    <3>2. done[r] + 1 < Len(session[r].selection)
      BY <1>4, <3>1
    <3> QED BY <1>1, <2>1, <3>2 DEF Transaction, Asked
  <2>5. Placed(r)'
    BY <2>1 DEF Placed
  <2>6. Kept(r)' = locks /\ Unsealed(r)' = {} /\ Selected(r)' = Selected(r) /\ Sight(r)' = Sight(r)
    BY <2>1 DEF Kept, Unsealed, Selected, Sight
  <2>7. Proper(r, Kept(r), written[r])'
    BY <2>1, <2>6 DEF Proper
  <2>8. Sealed(r, written[r], Unsealed(r))'
    BY <2>1, <2>6 DEF Sealed, Seen
  <2>9. Processed(r, Kept(r), written[r], done[r])'
    BY <2>1, <2>6 DEF Processed, Seen
  <2>10. Transaction(r)'
    BY <2>4, <2>5, <2>7, <2>8, <2>9 DEF Transaction
  <2>11. Tables(r, locks, writes)
    BY <1>2, <2>1 DEF Tables
  <2> QED BY <2>1, <2>2, <2>3, <2>10, <2>11, StepKeeps DEF Sound
<1> QED BY <1>3, <1>4

(* A service goes on at another point.                                     *)
LEMMA GotoKeeps ==
  ASSUME Inv, NEW r \in Requests, pc[r] # "idle", NEW point \in Points \ {"idle"},
         NEW locks \in SUBSET Rows, NEW writes \in Writings, Goto(r, point, locks, writes),
         holding[r] \subseteq locks, \A x \in locks \ holding[r] : Free(r, x),
         Proper(r, IF point = "cascade" THEN locks ELSE earlier[r], writes),
         Sealed(r, writes, IF point = "cascade" THEN {Current(r)} ELSE {}),
         Processed(r, IF point = "cascade" THEN locks ELSE earlier[r], writes, done[r]),
         Placed(r)'
  PROVE  Sound(r)
<1>1. Shape /\ Transaction(r) /\ earlier[r] \subseteq locks
  BY DEF Inv, Transaction, Placed
<1>2. \A q \in Requests \ {r} : locks \intersect holding[q] = {}
  BY DEF Inv, Exclusive, Free
<1>3. /\ pc'[r] = point /\ holding'[r] = locks /\ written'[r] = writes
      /\ rows' = rows /\ session' = session /\ loaded' = loaded /\ done' = done
      /\ earlier' = earlier
  BY <1>1 DEF Goto, Shape
<1>4. Frame(r)
  BY <1>1 DEF Goto, Frame, Untouched, Shape
<1>5. Shape'
  BY <1>1 DEF Goto, Shape
<1>6. Asked(r)'
  BY <1>1, <1>3 DEF Transaction, Asked
<1>7. /\ Kept(r)' = (IF point = "cascade" THEN locks ELSE earlier[r])
      /\ Unsealed(r)' = (IF point = "cascade" THEN {Current(r)} ELSE {})
      /\ Selected(r)' = Selected(r) /\ Sight(r)' = Sight(r)
  BY <1>3 DEF Kept, Unsealed, Selected, Sight, Current
<1>8. Proper(r, Kept(r), written[r])'
  BY <1>3, <1>7 DEF Proper
<1>9. Sealed(r, written[r], Unsealed(r))'
  BY <1>3, <1>7 DEF Sealed, Seen
<1>10. Processed(r, Kept(r), written[r], done[r])'
  BY <1>3, <1>7 DEF Processed, Seen
<1>11. Transaction(r)'
  BY <1>6, <1>8, <1>9, <1>10 DEF Transaction
<1>12. Tables(r, locks, writes)
  BY <1>1, <1>2, <1>3 DEF Tables, Proper
<1> QED BY <1>3, <1>4, <1>5, <1>11, <1>12, StepKeeps DEF Sound

-----------------------------------------------------------------------------
(* What the services write.                                                *)

(* The row at hand, locked and written in the direction of the service.    *)
LEMMA WriteOne ==
  ASSUME Inv, NEW r \in Requests, pc[r] # "idle", NEW locks \in SUBSET Rows,
         holding[r] \subseteq locks, Current(r) \in locks,
         NEW c \in Content, Linked(Current(r), c.link),
         session[r].service # "update_tag_alias" =>
           (c.active <=> session[r].service \in Reactivations),
         Current(r) \in Aliases /\ c.active => c.link \in locks /\ rows[c.link].active
  PROVE  /\ Writing(r, Current(r), c) \in Writings
         /\ \A x \in Rows :
              Writing(r, Current(r), c)[x] = IF x = Current(r) THEN c ELSE written[r][x]
         /\ Proper(r, locks, Writing(r, Current(r), c))
         /\ Processed(r, locks, Writing(r, Current(r), c), done[r])
<1> DEFINE w == Writing(r, Current(r), c)
<1>1. Shape /\ Transaction(r) /\ written[r] \in Writings /\ Kept(r) \subseteq locks
  BY DEF Inv, Shape, Transaction, Placed, Kept
<1>2. /\ session[r].service \in AllServices /\ Current(r) \in Kind(session[r].service)
      /\ Current(r) \in Rows /\ Current(r) \in Selected(r)
  BY CurrentRow
<1>3. w \in Writings /\ \A x \in Rows : w[x] = IF x = Current(r) THEN c ELSE written[r][x]
  BY <1>1, <1>2 DEF Writing, Writings
<1>4. Proper(r, locks, w)
  <2> HIDE DEF w
  <2> QED BY <1>1, <1>2, <1>3 DEF Transaction, Proper
<1>5. Processed(r, locks, w, done[r])
  <2> HIDE DEF w
  <2>1. /\ session[r].selection \in Seq(Rows) /\ done[r] \in Nat
        /\ done[r] < Len(session[r].selection)
    BY <1>1 DEF Transaction, Asked, Shape, SessionSet
  <2>2. \A i \in 1..done[r] : session[r].selection[i] \in Rows
    BY <2>1
  <2>3. ASSUME NEW i \in 1..done[r], session[r].service # "update_tag_alias",
               session[r].selection[i] \in Sight(r)
        PROVE  LET x == session[r].selection[i]
               IN /\ Seen(w, x).active <=> session[r].service \in Reactivations
                  /\ x \in locks \/ x \in Assignments
    <3>1. /\ Seen(written[r], session[r].selection[i]).active <=>
                session[r].service \in Reactivations
          /\ session[r].selection[i] \in Kept(r) \/ session[r].selection[i] \in Assignments
      BY <1>1, <2>3 DEF Transaction, Processed
    <3>2. CASE session[r].selection[i] = Current(r)
      BY <1>1, <1>2, <1>3, <2>3, <3>2, TablesApart DEF Seen
    <3>3. CASE session[r].selection[i] # Current(r)
      BY <1>1, <1>3, <2>2, <3>1, <3>3 DEF Seen
    <3> QED BY <3>2, <3>3
  <2> QED BY <2>3 DEF Processed
<1> QED BY <1>3, <1>4, <1>5

(* Nothing written: what was right stays so under more locks.              *)
LEMMA WriteNone ==
  ASSUME Inv, NEW r \in Requests, NEW locks, holding[r] \subseteq locks
  PROVE  /\ written[r] \in Writings
         /\ Proper(r, locks, written[r]) /\ Processed(r, locks, written[r], done[r])
         /\ pc[r] # "cascade" => /\ Sealed(r, written[r], {})
                                 /\ Proper(r, earlier[r], written[r])
                                 /\ Processed(r, earlier[r], written[r], done[r])
<1>1. Shape /\ Transaction(r) /\ Kept(r) \subseteq locks
  BY DEF Inv, Transaction, Placed, Kept
<1>2. written[r] \in Writings
  BY <1>1 DEF Shape
<1>3. Proper(r, locks, written[r])
  BY <1>1 DEF Transaction, Proper
<1>4. Processed(r, locks, written[r], done[r])
  BY <1>1 DEF Transaction, Processed
<1>5. pc[r] # "cascade" => /\ Sealed(r, written[r], {})
                           /\ Proper(r, earlier[r], written[r])
                           /\ Processed(r, earlier[r], written[r], done[r])
  BY <1>1 DEF Transaction, Kept, Unsealed
<1> QED BY <1>2, <1>3, <1>4, <1>5

(* One row more is done.                                                   *)
LEMMA OneMore ==
  ASSUME Inv, NEW r \in Requests, NEW locks, NEW writes,
         Processed(r, locks, writes, done[r]),
         session[r].service # "update_tag_alias" /\ Current(r) \in Sight(r) =>
           /\ Seen(writes, Current(r)).active <=> session[r].service \in Reactivations
           /\ Current(r) \in locks \/ Current(r) \in Assignments
  PROVE  Processed(r, locks, writes, done[r] + 1)
<1>1. done[r] \in Nat
  BY DEF Inv, Shape
<1>2. \A i \in 1..(done[r] + 1) : i \in 1..done[r] \/ i = done[r] + 1
  BY <1>1
<1> QED BY <1>2 DEF Processed, Current

(* A service that switches the row at hand.                                *)
LEMMA SwitchKeeps ==
  ASSUME Inv, NEW r \in Requests, pc[r] # "idle", pc[r] # "cascade",
         NEW locks \in SUBSET Rows, NEW b \in BOOLEAN,
         Complete(r, locks, Switched(r, Current(r), b)),
         holding[r] \subseteq locks, \A x \in locks \ holding[r] : Free(r, x),
         Current(r) \in locks,
         session[r].service \notin {"update_tag_alias", "deactivate_tag"},
         b <=> session[r].service \in Reactivations,
         Current(r) \in Aliases /\ b =>
           LET t == View(r, Current(r)).link IN t \in locks /\ rows[t].active
  PROVE  Sound(r)
<1> DEFINE c == [View(r, Current(r)) EXCEPT !.active = b]
           w == Writing(r, Current(r), c)
<1>1. Current(r) \in Rows
  BY CurrentRow
<1>2. View(r, Current(r)) \in Content /\ Linked(Current(r), View(r, Current(r)).link)
  BY <1>1, SeenTyped
<1>3. c \in Content /\ (c.active <=> b) /\ c.link = View(r, Current(r)).link /\ c # NoRow
  BY <1>2, ContentFields, TablesApart
<1>4. Complete(r, locks, w)
  BY DEF Switched
<1> HIDE DEF c
<1>5. /\ w \in Writings /\ Proper(r, locks, w) /\ Processed(r, locks, w, done[r])
      /\ \A x \in Rows : w[x] = IF x = Current(r) THEN c ELSE written[r][x]
  BY <1>2, <1>3, WriteOne
<1> HIDE DEF w
<1>6. Sealed(r, w, {})
  BY DEF Sealed
<1>7. Seen(w, Current(r)) = c
  BY <1>1, <1>3, <1>5 DEF Seen
<1>8. Processed(r, locks, w, done[r] + 1)
  BY <1>3, <1>5, <1>7, OneMore
<1> QED BY <1>4, <1>5, <1>6, <1>8, CompleteKeeps

(* A service that finds nothing to do.                                     *)
LEMMA LeaveKeeps ==
  ASSUME Inv, NEW r \in Requests, pc[r] # "idle", pc[r] # "cascade",
         NEW locks \in SUBSET Rows, Complete(r, locks, written[r]),
         holding[r] \subseteq locks, \A x \in locks \ holding[r] : Free(r, x),
         Current(r) \in Sight(r) =>
           /\ View(r, Current(r)).active <=> session[r].service \in Reactivations
           /\ Current(r) \in locks \/ Current(r) \in Assignments
  PROVE  Sound(r)
<1>1. /\ written[r] \in Writings /\ Proper(r, locks, written[r])
      /\ Processed(r, locks, written[r], done[r]) /\ Sealed(r, written[r], {})
  BY WriteNone
<1>2. Seen(written[r], Current(r)) = View(r, Current(r))
  BY DEF Seen, View
<1>3. Processed(r, locks, written[r], done[r] + 1)
  BY <1>1, <1>2, OneMore
<1> QED BY <1>1, <1>3, CompleteKeeps

-----------------------------------------------------------------------------
(* One lemma for each action.                                              *)
LEMMA DeactivateLoadedKeeps ==
  ASSUME Inv, NEW r \in Requests, DeactivateLoaded(r)
  PROVE  Sound(r)
<1>1. /\ pc[r] = "next"
      /\ session[r].service \in {"deactivate_vocabulary", "deactivate_tag_alias"}
      /\ holding[r] \subseteq Rows
  BY DEF DeactivateLoaded, Serves, Inv, Shape
<1>2. Current(r) \in Rows
  BY <1>1, CurrentRow
<1>3. session[r].service \notin Reactivations /\ Sight(r) = loaded[r]
  BY <1>1 DEF Reactivations, Sight
<1>4. CASE Current(r) \in loaded[r]
  <2>1. /\ Complete(r, holding[r] \union {Current(r)}, Switched(r, Current(r), FALSE))
        /\ Free(r, Current(r))
    BY <1>4 DEF DeactivateLoaded
  <2>2. /\ holding[r] \union {Current(r)} \in SUBSET Rows
        /\ holding[r] \subseteq holding[r] \union {Current(r)}
        /\ Current(r) \in holding[r] \union {Current(r)}
        /\ \A x \in (holding[r] \union {Current(r)}) \ holding[r] : Free(r, x)
    BY <1>1, <1>2, <2>1
  <2>3. /\ session[r].service \notin {"update_tag_alias", "deactivate_tag"}
        /\ FALSE \in BOOLEAN /\ (FALSE <=> session[r].service \in Reactivations)
    BY <1>1, <1>3
  <2> QED BY <1>1, <2>1, <2>2, <2>3, SwitchKeeps
<1>5. CASE Current(r) \notin loaded[r]
  <2>1. Complete(r, holding[r], written[r])
    BY <1>5 DEF DeactivateLoaded
  <2> QED BY <1>1, <1>3, <1>5, <2>1, LeaveKeeps
<1> QED BY <1>4, <1>5

LEMMA reactivate_vocabularyKeeps ==
  ASSUME Inv, NEW r \in Requests, reactivate_vocabulary(r)
  PROVE  Sound(r)
<1>1. /\ pc[r] = "next" /\ session[r].service = "reactivate_vocabulary"
      /\ holding[r] \subseteq Rows /\ Free(r, Current(r))
      /\ Complete(r, holding[r] \union {Current(r)}, Switched(r, Current(r), TRUE))
  BY DEF reactivate_vocabulary, Serves, Inv, Shape
<1>2. Current(r) \in Rows /\ Current(r) \notin Aliases
  BY <1>1, CurrentRow, KindOf, TablesApart
<1>3. session[r].service \in Reactivations
  BY <1>1 DEF Reactivations
<1>4. /\ holding[r] \union {Current(r)} \in SUBSET Rows
      /\ holding[r] \subseteq holding[r] \union {Current(r)}
      /\ Current(r) \in holding[r] \union {Current(r)}
      /\ \A x \in (holding[r] \union {Current(r)}) \ holding[r] : Free(r, x)
  BY <1>1, <1>2
<1>5. /\ session[r].service \notin {"update_tag_alias", "deactivate_tag"}
      /\ TRUE \in BOOLEAN /\ (TRUE <=> session[r].service \in Reactivations)
  BY <1>1, <1>3
<1> QED BY <1>1, <1>2, <1>4, <1>5, SwitchKeeps

LEMMA remove_tag_assignmentKeeps ==
  ASSUME Inv, NEW r \in Requests, remove_tag_assignment(r)
  PROVE  Sound(r)
<1>1. /\ pc[r] = "next" /\ session[r].service = "remove_tag_assignment"
      /\ holding[r] \subseteq Rows /\ Free(r, Current(r))
      /\ Transaction(r)
  BY DEF remove_tag_assignment, Serves, Inv, Shape
<1>2. Current(r) \in Rows /\ Current(r) \in Assignments
  BY <1>1, CurrentRow, KindOf
<1>3. session[r].service \notin Reactivations
  BY <1>1 DEF Reactivations
<1>4. CASE rows[Current(r)].active
  <2>1. Complete(r, holding[r] \union {Current(r)}, Switched(r, Current(r), FALSE))
    BY <1>4 DEF remove_tag_assignment
  <2>2. /\ holding[r] \union {Current(r)} \in SUBSET Rows
        /\ holding[r] \subseteq holding[r] \union {Current(r)}
        /\ Current(r) \in holding[r] \union {Current(r)}
        /\ \A x \in (holding[r] \union {Current(r)}) \ holding[r] : Free(r, x)
    BY <1>1, <1>2
  <2>3. /\ session[r].service \notin {"update_tag_alias", "deactivate_tag"}
        /\ FALSE \in BOOLEAN /\ (FALSE <=> session[r].service \in Reactivations)
    BY <1>1, <1>3
  <2> QED BY <1>1, <2>1, <2>2, <2>3, SwitchKeeps
<1>5. CASE ~rows[Current(r)].active
  <2>1. Complete(r, holding[r], written[r])
    BY <1>5 DEF remove_tag_assignment
  <2>2. ~View(r, Current(r)).active
    BY <1>1, <1>2, <1>3, <1>5 DEF View, Transaction, Proper
  <2> QED BY <1>1, <1>2, <1>3, <2>1, <2>2, LeaveKeeps
<1> QED BY <1>4, <1>5

LEMMA LockOwnTagKeeps ==
  ASSUME Inv, NEW r \in Requests, LockOwnTag(r)
  PROVE  Sound(r)
<1> DEFINE t == Current(r)
           locks == holding[r] \union {t}
<1>1. /\ pc[r] = "next" /\ session[r].service \in {"deactivate_tag", "reactivate_tag"}
      /\ holding[r] \subseteq Rows /\ Free(r, t)
      /\ Shape /\ Transaction(r)
  BY DEF LockOwnTag, Serves, Inv, Shape
<1>2. t \in Rows /\ t \in Tags /\ t \in Selected(r) /\ t \notin Aliases
  BY <1>1, CurrentRow, KindOf, TablesApart
<1>3. /\ locks \in SUBSET Rows /\ holding[r] \subseteq locks /\ t \in locks
      /\ \A x \in locks \ holding[r] : Free(r, x)
  BY <1>1, <1>2
<1>4. View(r, t) \in Content /\ Linked(t, View(r, t).link) /\ View(r, t).active \in BOOLEAN
  BY <1>2, SeenTyped, ContentFields
<1>5. session[r].service = "reactivate_tag" <=> session[r].service \in Reactivations
  BY <1>1 DEF Reactivations
<1>6. holding[r] = earlier[r]
  BY <1>1 DEF Transaction, Placed
<1>7. CASE View(r, t).active = (session[r].service = "reactivate_tag")
  <2>1. Complete(r, locks, written[r])
    BY <1>7 DEF LockOwnTag
  <2>2. /\ View(r, t).active <=> session[r].service \in Reactivations
        /\ t \in locks \/ t \in Assignments
    BY <1>3, <1>5, <1>7
  <2> HIDE DEF locks
  <2> QED BY <1>1, <1>3, <2>1, <2>2, LeaveKeeps
<1>8. CASE /\ View(r, t).active # (session[r].service = "reactivate_tag")
           /\ session[r].service = "deactivate_tag"
  <2> DEFINE c == [View(r, t) EXCEPT !.active = FALSE]
             w == Writing(r, t, c)
  <2>1. Goto(r, "cascade", locks, w)
    BY <1>8 DEF LockOwnTag, Switched
  <2>2. c \in Content /\ ~c.active /\ c.link = View(r, t).link /\ c # NoRow
    BY <1>4, TablesApart DEF Content
  <2>3. session[r].service \notin Reactivations
    BY <1>8 DEF Reactivations
  <2> HIDE DEF c, locks
  <2>4. /\ w \in Writings /\ Proper(r, locks, w) /\ Processed(r, locks, w, done[r])
        /\ \A x \in Rows : w[x] = IF x = t THEN c ELSE written[r][x]
    BY <1>1, <1>2, <1>3, <1>4, <2>2, <2>3, WriteOne
  <2> HIDE DEF w
  <2>5. Sealed(r, w, {t})
    <3>1. Sealed(r, written[r], {})
      BY <1>1, WriteNone
    <3>2. ASSUME NEW x \in Rows, x # t
          PROVE  w[x] = written[r][x] /\ Seen(w, x) = Seen(written[r], x)
      BY <2>4, <3>2 DEF Seen
    <3> QED BY <1>2, <3>1, <3>2, TablesApart DEF Sealed
  <2>6. Placed(r)'
    <3>1. /\ pc'[r] = "cascade" /\ holding'[r] = locks /\ written'[r] = w /\ earlier' = earlier
          /\ session' = session /\ Current(r)' = t /\ rows' = rows
      BY <1>1, <2>1 DEF Goto, Shape, Current
    <3>2. View(r, Current(r))' = c
      BY <1>2, <2>2, <2>4, <3>1 DEF View
    <3>3. \A x \in locks \ earlier[r] : x = t
      BY <1>6 DEF locks
    <3>4. earlier[r] \subseteq locks
      BY <1>3, <1>6
    <3> HIDE DEF t
    <3> QED BY <1>3, <1>8, <2>2, <3>1, <3>2, <3>3, <3>4 DEF Placed
  <2>7. "cascade" \in Points \ {"idle"}
    BY DEF Points
  <2> QED BY <1>1, <1>3, <2>1, <2>4, <2>5, <2>6, <2>7, GotoKeeps
<1>9. CASE /\ View(r, t).active # (session[r].service = "reactivate_tag")
           /\ session[r].service # "deactivate_tag"
  <2>1. CASE View(r, t).link = NoRow
    <3>1. Complete(r, locks, Switched(r, t, TRUE))
      BY <1>9, <2>1 DEF LockOwnTag
    <3>2. /\ session[r].service \notin {"update_tag_alias", "deactivate_tag"}
          /\ TRUE \in BOOLEAN /\ (TRUE <=> session[r].service \in Reactivations)
      BY <1>1, <1>5, <1>9
    <3> HIDE DEF locks
    <3> QED BY <1>1, <1>2, <1>3, <3>1, <3>2, SwitchKeeps
  <2>2. CASE View(r, t).link # NoRow
    <3>1. Goto(r, "tag locked", locks, written[r])
      BY <1>9, <2>2 DEF LockOwnTag
    <3>2. /\ written[r] \in Writings /\ Sealed(r, written[r], {})
          /\ Proper(r, earlier[r], written[r])
          /\ Processed(r, earlier[r], written[r], done[r])
      BY <1>1, WriteNone
    <3>3. Placed(r)'
      <4>1. /\ pc'[r] = "tag locked" /\ holding'[r] = locks /\ written' = written
            /\ earlier' = earlier /\ session' = session /\ Current(r)' = t /\ rows' = rows
        BY <1>1, <3>1 DEF Goto, Shape, Current
      <4>2. View(r, Current(r))' = View(r, t)
        BY <4>1 DEF View
      <4>3. locks \ earlier[r] \subseteq Tags /\ earlier[r] \subseteq locks
        BY <1>2, <1>6
      <4> HIDE DEF t, locks
      <4> QED BY <1>1, <1>3, <1>9, <2>2, <4>1, <4>2, <4>3 DEF Placed
    <3>4. "tag locked" \in Points \ {"idle"} /\ "tag locked" # "cascade"
      BY DEF Points
    <3> HIDE DEF locks
    <3> QED BY <1>1, <1>3, <3>1, <3>2, <3>3, <3>4, GotoKeeps
  <2> QED BY <2>1, <2>2
<1> QED BY <1>7, <1>8, <1>9

LEMMA LockAliasesKeeps ==
  ASSUME Inv, NEW r \in Requests, LockAliases(r)
  PROVE  Sound(r)
<1>1. PICK a \in Cascade(r) \ holding[r] :
        Free(r, a) /\ Goto(r, "cascade", holding[r] \union {a}, written[r])
  BY DEF LockAliases
<1> DEFINE locks == holding[r] \union {a}
<1>2. /\ pc[r] = "cascade" /\ holding[r] \subseteq Rows /\ Shape /\ Transaction(r)
  BY DEF LockAliases, Inv, Shape
<1>3. a \in Aliases /\ a \in Rows /\ View(r, a).link = Current(r) /\ View(r, a).active
  BY TablesApart DEF Cascade
<1>4. /\ locks \in SUBSET Rows /\ holding[r] \subseteq locks
      /\ \A x \in locks \ holding[r] : Free(r, x)
  BY <1>1, <1>2, <1>3
<1>5. Kept(r) = holding[r] /\ Unsealed(r) = {Current(r)}
  BY <1>2 DEF Kept, Unsealed
<1>6. written[r][a] = NoRow
  BY <1>1, <1>2, <1>3, <1>5 DEF Transaction, Proper
<1>7. rows[a].link = Current(r)
  BY <1>3, <1>6 DEF View
<1>8. /\ written[r] \in Writings /\ Proper(r, locks, written[r])
      /\ Processed(r, locks, written[r], done[r])
  BY <1>4, WriteNone
<1>9. Sealed(r, written[r], {Current(r)})
  BY <1>2, <1>5 DEF Transaction
<1>10. Placed(r)'
  <2>1. /\ pc'[r] = "cascade" /\ holding'[r] = locks /\ written' = written
        /\ earlier' = earlier /\ session' = session /\ Current(r)' = Current(r) /\ rows' = rows
    BY <1>1, <1>2 DEF Goto, Shape, Current
  <2>2. View(r, Current(r))' = View(r, Current(r))
    BY <2>1 DEF View
  <2>3. /\ session[r].service = "deactivate_tag" /\ earlier[r] \subseteq holding[r]
        /\ Current(r) \in holding[r] /\ ~View(r, Current(r)).active
        /\ \A x \in holding[r] \ earlier[r] :
             x = Current(r) \/ (x \in Aliases /\ rows[x].link = Current(r))
    BY <1>2 DEF Transaction, Placed
  <2>4. \A x \in locks \ earlier[r] :
          x = Current(r) \/ (x \in Aliases /\ rows[x].link = Current(r))
    BY <1>3, <1>7, <2>3
  <2> QED BY <1>4, <2>1, <2>2, <2>3, <2>4 DEF Placed
<1>11. "cascade" \in Points \ {"idle"}
  BY DEF Points
<1> HIDE DEF locks
<1>12. Goto(r, "cascade", locks, written[r])
  BY <1>1 DEF locks
<1> QED BY <1>2, <1>4, <1>8, <1>9, <1>10, <1>11, <1>12, GotoKeeps

LEMMA deactivate_tagKeeps ==
  ASSUME Inv, NEW r \in Requests, deactivate_tag(r)
  PROVE  Sound(r)
<1> DEFINE w == [x \in Rows |-> IF x \in Cascade(r) THEN [View(r, x) EXCEPT !.active = FALSE]
                                                    ELSE written[r][x]]
<1>1. /\ pc[r] = "cascade" /\ holding[r] \in SUBSET Rows /\ Shape /\ Transaction(r)
      /\ Cascade(r) \subseteq holding[r]
  BY DEF deactivate_tag, Inv, Shape
<1>2. CASE ~\A a \in Cascade(r) : Writable(a)
  BY <1>2, RollBackKeeps DEF deactivate_tag
<1>3. CASE \A a \in Cascade(r) : Writable(a)
  <2>1. Complete(r, holding[r], w)
    BY <1>3 DEF deactivate_tag
  <2>2. /\ session[r].service = "deactivate_tag" /\ Current(r) \in holding[r]
        /\ ~View(r, Current(r)).active
    BY <1>1 DEF Transaction, Placed
  <2>3. session[r].service \notin Reactivations
    BY <2>2 DEF Reactivations
  <2>4. Kept(r) = holding[r] /\ Unsealed(r) = {Current(r)} /\ written[r] \in Writings
    BY <1>1 DEF Kept, Unsealed, Shape
  <2>5. Current(r) \in Tags /\ Current(r) \in Selected(r)
    BY <1>1, <2>2, CurrentRow, KindOf
  <2>6. ASSUME NEW a \in Cascade(r)
        PROVE  /\ a \in Aliases /\ a \in Rows /\ a \in holding[r]
               /\ w[a] \in Content /\ w[a] # NoRow /\ ~w[a].active
               /\ Linked(a, w[a].link) /\ rows[a].link = Current(r)
    <3>1. a \in Aliases /\ a \in Rows /\ a \in holding[r]
          /\ View(r, a).link = Current(r) /\ View(r, a).active
      BY <1>1, TablesApart DEF Cascade
    <3>2. written[r][a] = NoRow
      BY <1>1, <2>2, <2>3, <2>4, <3>1 DEF Transaction, Proper, View
    <3>3. View(r, a) \in Content /\ Linked(a, View(r, a).link)
      BY <3>1, SeenTyped
    <3>4. w[a] = [View(r, a) EXCEPT !.active = FALSE]
      BY <3>1
    <3> HIDE DEF w
    <3>5. w[a] \in Content /\ ~w[a].active /\ w[a].link = View(r, a).link
      BY <3>3, <3>4 DEF Content
    <3> QED BY <3>1, <3>2, <3>3, <3>5, TablesApart DEF View
  <2>7. ASSUME NEW x \in Rows, x \notin Cascade(r)
        PROVE  w[x] = written[r][x] /\ Seen(w, x) = View(r, x)
    BY <2>7 DEF Seen, View
  <2>8. w \in Writings
    <3>1. \A x \in Rows : w[x] \in Content \union {NoRow}
      BY <2>4, <2>6, <2>7 DEF Writings
    <3> QED BY <3>1 DEF Writings
  <2> HIDE DEF w
  <2>9. Proper(r, holding[r], w)
    <3>1. Proper(r, holding[r], written[r])
      BY <1>1, <2>4 DEF Transaction
    <3> QED BY <2>2, <2>3, <2>5, <2>6, <2>7, <3>1 DEF Proper
  <2>10. Sealed(r, w, {})
    <3> SUFFICES ASSUME NEW t \in Tags, NEW a \in Aliases, w[t] # NoRow, Seen(w, a).link = t,
                        Seen(w, a).active
                 PROVE  FALSE
      BY DEF Sealed
    <3>1. a \in Rows /\ t \in Rows /\ t \notin Aliases
      BY TablesApart
    <3>2. a \notin Cascade(r)
      BY <2>6 DEF Seen
    <3>3. t \notin Cascade(r)
      BY <3>1 DEF Cascade
    <3>4. Seen(w, a) = View(r, a) /\ w[t] = written[r][t]
      BY <2>7, <3>1, <3>2, <3>3
    <3>5. t # Current(r)
      BY <3>2, <3>4 DEF Cascade
    <3>6. View(r, a) = Seen(written[r], a)
      BY DEF View, Seen
    <3> QED BY <1>1, <2>2, <2>4, <3>4, <3>5, <3>6 DEF Transaction, Sealed
  <2>11. Processed(r, holding[r], w, done[r])
    <3>1. /\ session[r].selection \in Seq(Rows) /\ done[r] \in Nat
          /\ done[r] < Len(session[r].selection) /\ Kind(session[r].service) = Tags
      BY <1>1, <2>2, KindOf DEF Transaction, Asked, Shape, SessionSet, AllServices, Deactivations
    <3>2. \A i \in 1..done[r] : i \in 1..Len(session[r].selection)
      BY <3>1
    <3>3. \A i \in 1..done[r] : session[r].selection[i] \in Tags
      BY <1>1, <3>1, <3>2 DEF Transaction, Asked
    <3>4. ASSUME NEW t \in Tags
          PROVE  Seen(w, t) = Seen(written[r], t)
      BY <2>7, TablesApart DEF Cascade, Seen, View
    <3> QED BY <1>1, <2>4, <3>3, <3>4 DEF Transaction, Processed
  <2>12. Seen(w, Current(r)) = View(r, Current(r))
    BY <2>5, <2>7, TablesApart DEF Cascade
  <2>13. Processed(r, holding[r], w, done[r] + 1)
    BY <2>2, <2>3, <2>11, <2>12, OneMore
  <2>14. holding[r] \subseteq holding[r] /\ \A x \in holding[r] \ holding[r] : Free(r, x)
    OBVIOUS
  <2> QED BY <1>1, <2>1, <2>8, <2>9, <2>10, <2>13, <2>14, CompleteKeeps
<1> QED BY <1>2, <1>3

LEMMA reactivate_tagKeeps ==
  ASSUME Inv, NEW r \in Requests, reactivate_tag(r)
  PROVE  Sound(r)
<1> DEFINE v == View(r, Current(r)).link
           locks == holding[r] \union {v}
<1>1. /\ pc[r] = "tag locked" /\ session[r].service = "reactivate_tag"
      /\ holding[r] \subseteq Rows /\ Free(r, v) /\ Transaction(r)
  BY DEF reactivate_tag, At, Inv, Shape
<1>2. /\ Current(r) \in Tags /\ Current(r) \in Rows /\ Current(r) \notin Aliases
      /\ Current(r) \in holding[r] /\ v # NoRow
  BY <1>1, CurrentRow, KindOf, TablesApart DEF Transaction, Placed, AliasServices
<1>3. v \in Vocabularies /\ v \in Rows
  BY <1>2, SeenTyped, TablesApart DEF Linked
<1>4. CASE ~View(r, v).active
  BY <1>4, RollBackKeeps DEF reactivate_tag
<1>5. CASE View(r, v).active
  <2>1. Complete(r, locks, Switched(r, Current(r), TRUE))
    BY <1>5 DEF reactivate_tag
  <2>2. /\ locks \in SUBSET Rows /\ holding[r] \subseteq locks /\ Current(r) \in locks
        /\ \A x \in locks \ holding[r] : Free(r, x)
    BY <1>1, <1>2, <1>3
  <2>3. /\ session[r].service \notin {"update_tag_alias", "deactivate_tag"}
        /\ TRUE \in BOOLEAN /\ (TRUE <=> session[r].service \in Reactivations)
    BY <1>1 DEF Reactivations
  <2> HIDE DEF locks
  <2> QED BY <1>1, <1>2, <2>1, <2>2, <2>3, SwitchKeeps
<1> QED BY <1>4, <1>5

(* Steps that change neither locks nor writes.                             *)
LEMMA IdleLocksKeep ==
  ASSUME Inv, NEW r \in Requests, Frame(r), Shape', rows' = rows,
         holding'[r] \subseteq holding[r], Transaction(r)'
  PROVE  Sound(r)
<1>1. Shape /\ holding[r] \in SUBSET Rows
  BY DEF Inv, Shape
<1>2. written[r] \in Writings /\ Proper(r, holding[r], written[r])
  BY WriteNone
<1>3. Tables(r, holding[r], written[r])
  BY <1>1, <1>2 DEF Tables, Inv, Exclusive
<1> QED BY <1>3, StepKeeps DEF Sound

LEMMA ChooseTagKeeps ==
  ASSUME Inv, NEW r \in Requests, ChooseTag(r)
  PROVE  Sound(r)
<1> DEFINE t == IF session[r].service = "update_tag_alias"
                THEN session[r].link ELSE View(r, Current(r)).link
<1>1. /\ pc[r] = "next" /\ session[r].service \in AliasServices /\ Shape /\ Transaction(r)
      /\ chosen' = [chosen EXCEPT ![r] = t] /\ pc' = [pc EXCEPT ![r] = "chosen"]
      /\ UNCHANGED <<rows, write_enabled, sessions, session, loaded, done, holding, earlier,
                     written, attempt>>
  BY DEF ChooseTag, Serves, AliasServices, Inv
<1>2. t \in Tags
  <2>1. Current(r) \in Aliases /\ Current(r) \in Rows
    BY <1>1, CurrentRow, KindOf DEF AliasServices
  <2>2. View(r, Current(r)).link \in Tags
    BY <2>1, SeenTyped DEF Linked
  <2>3. session[r].service = "update_tag_alias" => session[r].link \in Tags
    BY <1>1 DEF Transaction, Asked
  <2> QED BY <2>2, <2>3
<1> HIDE DEF t
<1>3. Frame(r)
  BY <1>1 DEF Frame, Untouched, Shape
<1>4. Shape'
  BY <1>1, <1>2 DEF Shape, Points
<1>5. /\ pc'[r] = "chosen" /\ chosen'[r] = t
      /\ Kept(r)' = Kept(r) /\ Unsealed(r)' = Unsealed(r)
      /\ Selected(r)' = Selected(r) /\ Sight(r)' = Sight(r)
  BY <1>1 DEF Shape, Kept, Unsealed, Selected, Sight
<1>6. Asked(r)'
  BY <1>1, <1>5 DEF Transaction, Asked
<1>7. Placed(r)'
  BY <1>1, <1>2, <1>5 DEF Transaction, Placed
<1>8. Proper(r, Kept(r), written[r])'
  BY <1>1, <1>5 DEF Transaction, Proper
<1>9. Sealed(r, written[r], Unsealed(r))'
  BY <1>1, <1>5 DEF Transaction, Sealed, Seen
<1>10. Processed(r, Kept(r), written[r], done[r])'
  BY <1>1, <1>5 DEF Transaction, Processed, Seen
<1> QED BY <1>1, <1>3, <1>4, <1>6, <1>7, <1>8, <1>9, <1>10, IdleLocksKeep DEF Transaction

(* reactivate_tag_alias and update_tag_alias write no tag.                 *)
LEMMA TagsUnwritten ==
  ASSUME Inv, NEW r \in Requests, pc[r] # "idle", session[r].service \in AliasServices
  PROVE  /\ Current(r) \in Aliases /\ Current(r) \in Rows
         /\ \A t \in Tags : t \in Rows /\ View(r, t) = rows[t]
         /\ session[r].service # "deactivate_tag"
<1>1. /\ Current(r) \in Aliases /\ Current(r) \in Rows
      /\ session[r].service # "deactivate_tag" /\ Kind(session[r].service) = Aliases
  BY CurrentRow, KindOf DEF AliasServices
<1>2. ASSUME NEW t \in Tags
      PROVE  t \in Rows /\ written[r][t] = NoRow
  BY <1>1, TablesApart DEF Inv, Transaction, Proper
<1> QED BY <1>1, <1>2 DEF View

LEMMA LockChosenTagKeeps ==
  ASSUME Inv, NEW r \in Requests, LockChosenTag(r)
  PROVE  Sound(r)
<1> DEFINE locks == holding[r] \union {chosen[r]}
<1>1. /\ pc[r] = "chosen" /\ Free(r, chosen[r]) /\ holding[r] \subseteq Rows
      /\ Shape /\ Transaction(r)
  BY DEF LockChosenTag, Inv, Shape
<1>2. /\ session[r].service \in AliasServices /\ chosen[r] \in Tags
      /\ holding[r] = earlier[r]
  BY <1>1 DEF Transaction, Placed
<1>3. chosen[r] \in Rows /\ View(r, chosen[r]) = rows[chosen[r]]
  BY <1>1, <1>2, TagsUnwritten
<1>4. CASE session[r].service = "update_tag_alias" /\ ~View(r, chosen[r]).active
  BY <1>4, RollBackKeeps DEF LockChosenTag
<1>5. CASE ~(session[r].service = "update_tag_alias" /\ ~View(r, chosen[r]).active)
  <2>1. Goto(r, "tag locked", locks, written[r])
    BY <1>5 DEF LockChosenTag
  <2>2. /\ locks \in SUBSET Rows /\ holding[r] \subseteq locks /\ chosen[r] \in locks
        /\ \A x \in locks \ holding[r] : Free(r, x)
    BY <1>1, <1>3
  <2>3. /\ written[r] \in Writings /\ Sealed(r, written[r], {})
        /\ Proper(r, earlier[r], written[r])
        /\ Processed(r, earlier[r], written[r], done[r])
    BY <1>1, WriteNone
  <2>4. Placed(r)'
    <3>1. /\ pc'[r] = "tag locked" /\ holding'[r] = locks /\ chosen' = chosen
          /\ earlier' = earlier /\ session' = session /\ rows' = rows
      BY <1>1, <2>1 DEF Goto, Shape
    <3>2. locks \ earlier[r] \subseteq Tags /\ earlier[r] \subseteq locks
      BY <1>2
    <3> HIDE DEF locks
    <3> QED BY <1>2, <1>3, <1>5, <2>2, <3>1, <3>2 DEF Placed
  <2>5. "tag locked" \in Points \ {"idle"} /\ "tag locked" # "cascade"
    BY DEF Points
  <2> HIDE DEF locks
  <2> QED BY <1>1, <2>1, <2>2, <2>3, <2>4, <2>5, GotoKeeps
<1> QED BY <1>4, <1>5

LEMMA AttemptsLeft == \A n \in 0..2 : n # 2 => n + 1 \in 0..2
OBVIOUS

(* The savepoint is rolled back: what was kept from earlier rows stays.    *)
LEMMA RepointedKeeps ==
  ASSUME Inv, NEW r \in Requests, pc[r] = "tag locked", Repointed(r)
  PROVE  Sound(r)
<1>1. Shape /\ Transaction(r)
  BY DEF Inv
<1>2. CASE attempt[r] = 2
  BY <1>2, RollBackKeeps DEF Repointed
<1>3. CASE attempt[r] # 2
  <2>1. /\ pc' = [pc EXCEPT ![r] = "next"]
        /\ holding' = [holding EXCEPT ![r] = earlier[r]]
        /\ attempt' = [attempt EXCEPT ![r] = @ + 1]
        /\ UNCHANGED <<rows, write_enabled, sessions, session, loaded, done, earlier, written,
                       chosen>>
    BY <1>3 DEF Repointed
  <2>2. Frame(r)
    BY <1>1, <2>1 DEF Frame, Untouched, Shape
  <2>3. Shape'
    <3>1. attempt' \in [Requests -> 0..2]
      <4>1. attempt \in [Requests -> 0..2]
        BY <1>1 DEF Shape
      <4>2. attempt[r] \in 0..2
        BY <4>1
      <4>3. attempt[r] + 1 \in 0..2
        BY <1>3, <4>2, AttemptsLeft
      <4> QED BY <2>1, <4>1, <4>3
    <3> QED BY <1>1, <2>1, <3>1 DEF Shape, Points
  <2>4. /\ pc'[r] = "next" /\ holding'[r] = earlier[r] /\ earlier[r] \subseteq holding[r]
        /\ Kept(r) = earlier[r] /\ Kept(r)' = Kept(r)
        /\ Unsealed(r) = {} /\ Unsealed(r)' = {}
        /\ Selected(r)' = Selected(r) /\ Sight(r)' = Sight(r)
    BY <1>1, <2>1 DEF Shape, Kept, Unsealed, Selected, Sight, Transaction, Placed
  <2>5. Asked(r)'
    BY <1>1, <2>1, <2>4 DEF Transaction, Asked
  <2>6. Placed(r)'
    BY <2>1, <2>4 DEF Placed
  <2>7. Proper(r, Kept(r), written[r])'
    BY <1>1, <2>1, <2>4 DEF Transaction, Proper
  <2>8. Sealed(r, written[r], Unsealed(r))'
    BY <1>1, <2>1, <2>4 DEF Transaction, Sealed, Seen
  <2>9. Processed(r, Kept(r), written[r], done[r])'
    BY <1>1, <2>1, <2>4 DEF Transaction, Processed, Seen
  <2> QED BY <2>1, <2>2, <2>3, <2>4, <2>5, <2>6, <2>7, <2>8, <2>9, IdleLocksKeep DEF Transaction
<1> QED BY <1>2, <1>3

LEMMA reactivate_tag_aliasKeeps ==
  ASSUME Inv, NEW r \in Requests, reactivate_tag_alias(r)
  PROVE  Sound(r)
<1> DEFINE a == Current(r)
           locks == holding[r] \union {a}
<1>1. /\ pc[r] = "tag locked" /\ session[r].service = "reactivate_tag_alias"
      /\ holding[r] \subseteq Rows /\ Free(r, a) /\ Transaction(r)
  BY DEF reactivate_tag_alias, At, Inv, Shape
<1>2. chosen[r] \in Tags /\ chosen[r] \in holding[r]
  BY <1>1 DEF Transaction, Placed
<1>3. a \in Aliases /\ a \in Rows /\ View(r, chosen[r]) = rows[chosen[r]]
  BY <1>1, <1>2, TagsUnwritten DEF AliasServices
<1>4. /\ locks \in SUBSET Rows /\ holding[r] \subseteq locks /\ a \in locks
      /\ \A x \in locks \ holding[r] : Free(r, x)
  BY <1>1, <1>3
<1>5. /\ session[r].service \notin {"update_tag_alias", "deactivate_tag"}
      /\ session[r].service \in Reactivations
      /\ TRUE \in BOOLEAN /\ (TRUE <=> session[r].service \in Reactivations)
  BY <1>1 DEF Reactivations
<1>6. CASE View(r, a).link # chosen[r]
  BY <1>1, <1>6, RepointedKeeps DEF reactivate_tag_alias
<1>7. CASE View(r, a).link = chosen[r] /\ View(r, a).active
  <2>1. Complete(r, locks, written[r])
    BY <1>7 DEF reactivate_tag_alias
  <2> HIDE DEF locks
  <2> QED BY <1>1, <1>4, <1>5, <1>7, <2>1, LeaveKeeps
<1>8. CASE View(r, a).link = chosen[r] /\ ~View(r, a).active /\ View(r, chosen[r]).active
  <2>1. Complete(r, locks, Switched(r, a, TRUE))
    BY <1>8 DEF reactivate_tag_alias
  <2>2. View(r, a).link \in locks /\ rows[View(r, a).link].active
    BY <1>2, <1>3, <1>4, <1>8
  <2> HIDE DEF locks
  <2> QED BY <1>1, <1>4, <1>5, <2>1, <2>2, SwitchKeeps
<1>9. CASE View(r, a).link = chosen[r] /\ ~View(r, a).active /\ ~View(r, chosen[r]).active
  BY <1>9, RollBackKeeps DEF reactivate_tag_alias
<1> QED BY <1>6, <1>7, <1>8, <1>9

LEMMA update_tag_aliasKeeps ==
  ASSUME Inv, NEW r \in Requests, update_tag_alias(r)
  PROVE  Sound(r)
<1> DEFINE c == [active |-> Current(r) \in loaded[r], link |-> chosen[r]]
           locks == holding[r] \union {Current(r)}
           w == Writing(r, Current(r), c)
<1>1. /\ pc[r] = "tag locked" /\ session[r].service = "update_tag_alias"
      /\ holding[r] \subseteq Rows /\ Free(r, Current(r)) /\ Transaction(r)
      /\ Complete(r, locks, w)
  BY DEF update_tag_alias, At, Inv, Shape
<1>2. chosen[r] \in Tags /\ chosen[r] \in holding[r] /\ rows[chosen[r]].active
  BY <1>1 DEF Transaction, Placed
<1>3. Current(r) \in Aliases /\ Current(r) \in Rows
  BY <1>1, TagsUnwritten DEF AliasServices
<1>4. /\ locks \in SUBSET Rows /\ holding[r] \subseteq locks /\ Current(r) \in locks
      /\ chosen[r] \in locks /\ \A x \in locks \ holding[r] : Free(r, x)
  BY <1>1, <1>2, <1>3
<1>5. c \in Content /\ c.link = chosen[r] /\ Linked(Current(r), c.link)
  <2>1. chosen[r] \in Rows /\ Current(r) \notin Tags
    BY <1>2, <1>3, TablesApart
  <2> QED BY <1>2, <2>1 DEF Content, Linked
<1> HIDE DEF c, locks
<1>6. w \in Writings /\ Proper(r, locks, w) /\ Processed(r, locks, w, done[r])
  BY <1>1, <1>2, <1>4, <1>5, WriteOne
<1>7. Sealed(r, w, {})
  BY <1>1 DEF Sealed
<1>8. Processed(r, locks, w, done[r] + 1)
  BY <1>1, <1>6, OneMore
<1> HIDE DEF w
<1> QED BY <1>1, <1>4, <1>6, <1>7, <1>8, CompleteKeeps

(* A selection is a sequence of rows of the service's table.               *)
LEMMA RunBulkKeeps ==
  ASSUME Inv, NEW r \in Requests, RunBulk(r)
  PROVE  Sound(r)
<1>1. PICK service \in Services : \E s \in Selections(service), t \in Tags \union {NoRow} :
        /\ (service = "update_tag_alias") = (t # NoRow)
        /\ session' = [session EXCEPT ![r] = [service |-> service, selection |-> s, link |-> t]]
        /\ loaded' = [loaded EXCEPT ![r] = {s[i] : i \in {i \in DOMAIN s : rows[s[i]].active}}]
  BY DEF RunBulk
<1>2. PICK s \in Selections(service), t \in Tags \union {NoRow} :
        /\ (service = "update_tag_alias") = (t # NoRow)
        /\ session' = [session EXCEPT ![r] = [service |-> service, selection |-> s, link |-> t]]
        /\ loaded' = [loaded EXCEPT ![r] = {s[i] : i \in {i \in DOMAIN s : rows[s[i]].active}}]
  BY <1>1
<1>3. /\ pc[r] = "idle" /\ pc' = [pc EXCEPT ![r] = "next"]
      /\ UNCHANGED <<rows, write_enabled, done, holding, earlier, written, chosen, attempt>>
      /\ Shape /\ Transaction(r)
  BY DEF RunBulk, Inv
<1>4. service \in AllServices /\ Kind(service) \subseteq Rows
  BY AdminAssumption, KindOf DEF AllServices
<1>5. PICK n \in 1..MaxSelected : s \in [1..n -> Kind(service)]
  BY DEF Selections
<1>6. /\ s \in Seq(Rows) /\ Len(s) = n /\ DOMAIN s = 1..n /\ n \in Nat /\ n > 0
      /\ \A i \in 1..n : s[i] \in Kind(service) /\ s[i] \in Rows
  BY <1>4, <1>5
<1>7. service = "update_tag_alias" => Len(s) = 1 /\ t \in Tags
  BY <1>2 DEF Selections
<1> DEFINE here == [service |-> service, selection |-> s, link |-> t]
           on == {s[i] : i \in {i \in DOMAIN s : rows[s[i]].active}}
<1>8. here \in SessionSet /\ here.service = service /\ here.selection = s /\ here.link = t
  BY <1>4, <1>6 DEF SessionSet
<1>9. on \in SUBSET Rows
  BY <1>6
<1> HIDE DEF here, on
<1>10. session' = [session EXCEPT ![r] = here] /\ loaded' = [loaded EXCEPT ![r] = on]
  BY <1>2 DEF here, on
<1>11. Frame(r)
  BY <1>3, <1>10 DEF Frame, Untouched, Shape
<1>12. Shape'
  BY <1>3, <1>8, <1>9, <1>10 DEF Shape, Points
<1>13. /\ pc'[r] = "next" /\ session'[r] = here /\ done'[r] = 0 /\ done[r] = 0
       /\ written'[r] = Nothing
  BY <1>3, <1>10 DEF Shape, Transaction, Placed
<1>14. Asked(r)'
  BY <1>6, <1>7, <1>8, <1>13 DEF Asked
<1>15. Placed(r)'
  BY <1>3, <1>13 DEF Transaction, Placed
<1>16. \A x \in Rows : Nothing[x] = NoRow
  BY DEF Nothing
<1>17. Proper(r, Kept(r), written[r])'
  BY <1>13, <1>16 DEF Proper
<1>18. Sealed(r, written[r], Unsealed(r))'
  BY <1>13, <1>16, TablesApart DEF Sealed
<1>19. Processed(r, Kept(r), written[r], done[r])'
  <2>1. \A i \in 1..0 : FALSE
    OBVIOUS
  <2> QED BY <1>13, <2>1 DEF Processed
<1> QED BY <1>3, <1>11, <1>12, <1>14, <1>15, <1>17, <1>18, <1>19, IdleLocksKeep DEF Transaction

-----------------------------------------------------------------------------
(* Theorems.                                                               *)
LEMMA InvInit == Init => Inv
<1> SUFFICES ASSUME Init PROVE Inv
  OBVIOUS
<1>1. /\ NoSession \in SessionSet /\ Nothing \in Writings
      /\ \A x \in Rows : Nothing[x] = NoRow
  BY DEF NoSession, SessionSet, AllServices, Deactivations, Nothing, Writings
<1>2. /\ rows \in [Rows -> Content] /\ AliasFollowsTag
      /\ \A x \in Rows : Linked(x, rows[x].link)
  BY AdminAssumption DEF Init, AliasFollowsTag, Linked
<1>3. Shape
  BY <1>1, <1>2 DEF Init, Shape, Points
<1>4. ASSUME NEW r \in Requests
      PROVE  Transaction(r)
  <2>1. /\ pc[r] = "idle" /\ session[r] = NoSession /\ done[r] = 0 /\ holding[r] = {}
        /\ earlier[r] = {} /\ written[r] = Nothing
    BY DEF Init
  <2>2. \A i \in 1..0 : FALSE
    OBVIOUS
  <2> QED BY <1>1, <2>1, <2>2, TablesApart
          DEF Transaction, Asked, Placed, Proper, Sealed, Processed
<1> QED BY <1>2, <1>3, <1>4 DEF Inv, Exclusive, Init

LEMMA InvStep ==
  ASSUME Inv, NEW r \in Requests, Serve(r)
  PROVE  Sound(r)
<1>1. CASE RunBulk(r)
  BY <1>1, RunBulkKeeps
<1>2. CASE Refused(r)
  BY <1>2, RollBackKeeps DEF Refused
<1>3. CASE DeactivateLoaded(r)
  BY <1>3, DeactivateLoadedKeeps
<1>4. CASE reactivate_vocabulary(r)
  BY <1>4, reactivate_vocabularyKeeps
<1>5. CASE remove_tag_assignment(r)
  BY <1>5, remove_tag_assignmentKeeps
<1>6. CASE LockOwnTag(r)
  BY <1>6, LockOwnTagKeeps
<1>7. CASE LockAliases(r)
  BY <1>7, LockAliasesKeeps
<1>8. CASE deactivate_tag(r)
  BY <1>8, deactivate_tagKeeps
<1>9. CASE reactivate_tag(r)
  BY <1>9, reactivate_tagKeeps
<1>10. CASE ChooseTag(r)
  BY <1>10, ChooseTagKeeps
<1>11. CASE LockChosenTag(r)
  BY <1>11, LockChosenTagKeeps
<1>12. CASE reactivate_tag_alias(r)
  BY <1>12, reactivate_tag_aliasKeeps
<1>13. CASE update_tag_alias(r)
  BY <1>13, update_tag_aliasKeeps
<1>14. CASE DetectDeadlock(r)
  BY <1>14, RollBackKeeps DEF DetectDeadlock
<1> QED BY <1>1, <1>2, <1>3, <1>4, <1>5, <1>6, <1>7, <1>8, <1>9, <1>10, <1>11, <1>12, <1>13,
           <1>14 DEF Serve

LEMMA InvNext == Inv /\ [Next]_vars => Inv'
<1> SUFFICES ASSUME Inv, [Next]_vars PROVE Inv'
  OBVIOUS
<1>1. CASE Next
  BY <1>1, InvStep DEF Next, Sound
<1>2. CASE UNCHANGED vars
  <2>1. Shape' /\ Exclusive' /\ AliasFollowsTag' /\ \A x \in Rows : Linked(x, rows[x].link)'
    BY <1>2 DEF Inv, vars, localVars, Shape, Exclusive, AliasFollowsTag
  <2>2. ASSUME NEW r \in Requests
        PROVE  Transaction(r)'
    <3>1. /\ UNCHANGED <<rows, pc, session, loaded, done, holding, earlier, written, chosen>>
          /\ Transaction(r)
      BY <1>2 DEF Inv, vars, localVars
    <3>2. /\ Kept(r)' = Kept(r) /\ Unsealed(r)' = Unsealed(r) /\ Sight(r)' = Sight(r)
          /\ Selected(r)' = Selected(r) /\ Current(r)' = Current(r)
          /\ View(r, Current(r))' = View(r, Current(r))
      BY <3>1 DEF Kept, Unsealed, Sight, Selected, Current, View
    <3>3. Asked(r)'
      BY <3>1 DEF Transaction, Asked
    <3>4. Placed(r)'
      BY <3>1, <3>2 DEF Transaction, Placed
    <3>5. Proper(r, Kept(r), written[r])'
      BY <3>1, <3>2 DEF Transaction, Proper
    <3>6. Sealed(r, written[r], Unsealed(r))'
      BY <3>1, <3>2 DEF Transaction, Sealed, Seen
    <3>7. Processed(r, Kept(r), written[r], done[r])'
      BY <3>1, <3>2 DEF Transaction, Processed, Seen
    <3> QED BY <3>3, <3>4, <3>5, <3>6, <3>7 DEF Transaction
  <2> QED BY <2>1, <2>2 DEF Inv
<1> QED BY <1>1, <1>2

(* In every behaviour, each transaction writes only what it has locked, in *)
(* the direction of its service, and every step keeps it so.               *)
THEOREM Invariance == Spec => []Inv
BY InvInit, InvNext, PTL DEF Spec

(* Every variable keeps its type; no row is locked by two transactions, and*)
(* none outside a transaction.                                             *)
THEOREM TypeCorrect == Spec => []TypeOK
<1>1. Inv => TypeOK
  <2> SUFFICES ASSUME Inv PROVE TypeOK
    OBVIOUS
  <2>1. Shape /\ Exclusive
    BY DEF Inv
  <2>2. ASSUME NEW r \in Requests
        PROVE  /\ session[r].service \in Services \union {"deactivate_tag"}
               /\ pc[r] # "idle" => done[r] < Len(session[r].selection)
               /\ pc[r] = "idle" => holding[r] = {} /\ written[r] = Nothing
               /\ earlier[r] \subseteq holding[r]
    <3>1. Transaction(r) /\ NoSession.service = "deactivate_tag"
      BY DEF Inv, NoSession
    <3>2. /\ pc[r] # "idle" => session[r].service \in Services
          /\ pc[r] # "idle" => done[r] < Len(session[r].selection)
      BY <3>1 DEF Transaction, Asked
    <3>3. /\ pc[r] = "idle" => session[r].service = "deactivate_tag"
          /\ pc[r] = "idle" => holding[r] = {} /\ written[r] = Nothing
          /\ earlier[r] \subseteq holding[r]
      BY <3>1 DEF Transaction, Placed
    <3> QED BY <3>2, <3>3
  <2>3. ASSUME NEW r \in Requests
        PROVE  /\ loaded[r] \subseteq Rows /\ holding[r] \subseteq Rows
               /\ written[r] \in [Rows -> Content \union {NoRow}]
               /\ chosen[r] \in Tags \union {NoRow} /\ attempt[r] \in 0..2
    BY <2>1 DEF Shape, Writings
  <2>4. ASSUME NEW r \in Requests
        PROVE  /\ \A x \in Rows : written[r][x] # NoRow => x \in holding[r]
               /\ \A q \in Requests \ {r} : holding[r] \intersect holding[q] = {}
    BY <2>1, WriteNone DEF Proper, Exclusive
  <2> QED BY <2>1, <2>2, <2>3, <2>4 DEF TypeOK, Shape
<1> QED BY <1>1, Invariance, PTL

(* An active alias has an active canonical tag, whatever bulk actions on   *)
(* tags and aliases do beside one another.                                 *)
THEOREM AliasesFollow == Spec => []AliasFollowsTag
<1>1. Inv => AliasFollowsTag
  BY DEF Inv
<1> QED BY <1>1, Invariance, PTL

(* _run_bulk's "never a partially processed batch": a transaction leaves   *)
(* the tables as they were, or with its whole selection switched.          *)
THEOREM BatchesAreWhole == Spec => AllOrNothing
<1> DEFINE Whole == \A r \in Requests : pc[r] # "idle" /\ rows' # rows =>
                      \/ pc'[r] = pc[r] /\ done'[r] = done[r]
                      \/ pc'[r] = "idle" /\ Switches(r)
<1>1. ASSUME Inv, [Next]_vars
      PROVE  [Whole]_vars
  <2> SUFFICES ASSUME Next, NEW r \in Requests, pc[r] # "idle", rows' # rows
               PROVE  \/ pc'[r] = pc[r] /\ done'[r] = done[r]
                      \/ pc'[r] = "idle" /\ Switches(r)
    BY <1>1
  <2>1. PICK q \in Requests : Serve(q)
    BY DEF Next
  <2>2. Frame(q) /\ pc'[q] = "idle" /\ Switches(q)
    BY <1>1, <2>1, InvStep DEF Sound
  <2> QED BY <2>2 DEF Frame, Untouched
<1>2. Inv /\ [Next]_vars => [Whole]_vars
  BY <1>1
<1> HIDE DEF Whole
<1>3. Spec => [][Whole]_vars
  BY <1>2, Invariance, PTL DEF Spec
<1> QED BY <1>3 DEF AllOrNothing, Whole

(* A transaction in the cascade never waits in a circle for a lock that its*)
(* holder took for the row at hand: that would be an alias of the same tag.*)
LEMMA CascadeWaitsForEarlier ==
  ASSUME Inv, NEW r \in Requests, NEW q \in Requests, r # q, pc[r] = "cascade",
         NEW x \in Wanted(r), x \in holding[q]
  PROVE  x \in earlier[q]
<1> SUFFICES ASSUME x \notin earlier[q] PROVE FALSE
  OBVIOUS
<1>1. x \in Aliases /\ View(r, x).link = Current(r) /\ x \notin holding[r]
  BY DEF Wanted, Cascade
<1>2. x \in Rows /\ x \notin Tags
  BY <1>1, TablesApart
<1>3. rows[x].link = Current(r)
  BY <1>1, <1>2, WriteNone DEF Proper, View
<1>4. Placed(q) /\ Placed(r) /\ pc[q] \in Points
  BY DEF Inv, Transaction, Shape
<1>5. Current(r) \in holding[r]
  BY <1>4 DEF Placed
<1>6. pc[q] = "cascade"
  BY <1>2, <1>4 DEF Placed, Points
<1>7. /\ session[q].service = "deactivate_tag" /\ Current(q) \in holding[q]
      /\ x = Current(q) \/ rows[x].link = Current(q)
  BY <1>4, <1>6 DEF Placed
<1>8. Current(q) \in Tags
  BY <1>6, <1>7, CurrentRow, KindOf
<1>9. Current(q) = Current(r)
  BY <1>2, <1>3, <1>7, <1>8
<1> QED BY <1>5, <1>7, <1>9 DEF Inv, Exclusive

(* Nor does one that has locked its tag wait so for anybody but such a     *)
(* cascade.                                                                *)
LEMMA TagLockedWaits ==
  ASSUME Inv, NEW r \in Requests, NEW q \in Requests, pc[r] = "tag locked",
         NEW x \in Wanted(r), x \in holding[q], x \notin earlier[q]
  PROVE  pc[q] = "cascade"
<1>1. Placed(q) /\ Placed(r) /\ pc[q] \in Points
  BY DEF Inv, Transaction, Shape
<1>2. x = IF session[r].service = "reactivate_tag" THEN View(r, Current(r)).link ELSE Current(r)
  BY DEF Wanted
<1>3. x \notin Tags
  <2>1. CASE session[r].service = "reactivate_tag"
    <3>1. Current(r) \in Tags /\ Current(r) \in Rows /\ View(r, Current(r)).link # NoRow
      BY <1>1, <2>1, CurrentRow, KindOf DEF Placed, AliasServices
    <3> QED BY <1>2, <2>1, <3>1, SeenTyped, TablesApart DEF Linked
  <2>2. CASE session[r].service # "reactivate_tag"
    <3>1. session[r].service \in AliasServices
      BY <1>1, <2>2 DEF Placed
    <3> QED BY <1>2, <2>2, <3>1, TagsUnwritten, TablesApart
  <2> QED BY <2>1, <2>2
<1> QED BY <1>1, <1>3 DEF Placed, Points

(* Transactions wait for one another in a circle only for a lock that one  *)
(* of them kept from an earlier row: the row locks of single calls close   *)
(* no circle.                                                              *)
THEOREM DeadlocksNeedEarlierLocks == Spec => []DeadlocksNeedBulk
<1>1. Inv => DeadlocksNeedBulk
  <2> SUFFICES ASSUME Inv, NEW S \in SUBSET Requests, Circle(S),
                      \A r, q \in S : BlockedBy(r, q) => Wanted(r) \intersect earlier[q] = {}
               PROVE  FALSE
    BY DEF DeadlocksNeedBulk
  <2>1. S # {} /\ \A r \in S : \E q \in S : BlockedBy(r, q)
    BY DEF Circle, Waiting
  <2>2. ASSUME NEW r \in S, NEW q \in S, BlockedBy(r, q)
        PROVE  /\ r \in Requests /\ q \in Requests /\ r # q
               /\ \E x \in Wanted(r) : x \in holding[q] /\ x \notin earlier[q]
    BY <2>2 DEF BlockedBy
  <2>3. \A r \in S : pc[r] # "cascade"
    BY <2>1, <2>2, CascadeWaitsForEarlier
  <2>4. \A r \in S : pc[r] # "tag locked"
    BY <2>1, <2>2, <2>3, TagLockedWaits
  <2>5. PICK r \in S : TRUE
    BY <2>1
  <2>6. PICK q \in S : BlockedBy(r, q)
    BY <2>1
  <2>7. Placed(q) /\ pc[q] \in Points
    BY DEF Inv, Transaction, Shape
  <2>8. holding[q] = earlier[q]
    BY <2>3, <2>4, <2>7 DEF Placed, Points
  <2> QED BY <2>2, <2>6, <2>8
<1> QED BY <1>1, Invariance, PTL

=============================================================================
