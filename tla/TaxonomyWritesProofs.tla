------------------------ MODULE TaxonomyWritesProofs ------------------------
(***************************************************************************)
(* Theorems about TaxonomyWrites, for any tables, scopes, services and     *)
(* requests.  The inductive invariant says what a request has asked for    *)
(* (Asked), what it holds locked and knows of the locked rows at each      *)
(* point of its service (Placed), and that locks are exclusive.  Every     *)
(* step either leaves the table alone or is a write that no other request  *)
(* has locked (Written), and such a step leaves what the others know.      *)
(***************************************************************************)
EXTENDS TaxonomyWrites, TLAPS

AllServices == Creates \union Updates \union Deactivations \union Reactivations
CallSet == [service : AllServices \union {"none"}, row : Rows \union {NoRow},
            sent : SUBSET Fields, data : Content \union {Missing}]

Shape ==
  /\ pc \in [Requests -> Points]
  /\ call \in [Requests -> CallSet]
  /\ copy \in [Requests -> Content \union {Missing}]
  /\ holding \in [Requests -> SUBSET Rows]
  /\ chosen \in [Requests -> Rows \union {NoRow}]
  /\ attempt \in [Requests -> 0..MaxAttempts - 1]
  /\ calls \in 0..MaxCalls
  /\ overlapped \in BOOLEAN
  /\ write_enabled \in BOOLEAN

(* A link names an existing row of the right table.                        *)
Linked(x, link) == link \in Targets(x) /\ (link # NoRow => rows[link] # Missing)

Table ==
  /\ rows \in [Rows -> Content \union {Missing}]
  /\ \A x \in Rows : rows[x] # Missing => Linked(x, rows[x].link)

(* The call of a request: of a service of its row's table, not forbidden by*)
(* the kill-switch, on an existing row or for a new one.                   *)
Asked(r) ==
  pc[r] # "idle" =>
    /\ call[r].row \in Rows
    /\ call[r].service \in ServicesOf(call[r].row)
    /\ Writable(call[r].row)
    /\ call[r].service \in Creates =>
         call[r].sent = Fields /\ call[r].data # Missing /\ rows[call[r].row] = Missing
    /\ call[r].service \in Updates =>
         call[r].data # Missing /\ copy[r] # Missing
    /\ call[r].service \notin Creates => rows[call[r].row] # Missing
    /\ call[r].data # Missing => Linked(call[r].row, call[r].data.link)
    /\ copy[r] # Missing => Linked(call[r].row, copy[r].link)

(* What a request holds and knows at each point.                           *)
Placed(r) ==
  /\ \A x \in holding[r] : rows[x] # Missing
  /\ pc[r] = "idle" => call[r] = NoCall
  /\ pc[r] \in {"idle", "called", "checked", "chosen"} => holding[r] = {}
  /\ pc[r] = "checked" =>
       /\ call[r].service \in {"create_vocabulary", "create_tag"} \union Updates
       /\ Edited(r).link # NoRow => Fits(call[r].row, Edited(r).link)
  /\ pc[r] = "chosen" =>
       /\ call[r].service = "reactivate_tag_alias"
       /\ chosen[r] \in Tags /\ rows[chosen[r]] # Missing
  /\ pc[r] = "locked" =>
       \/ /\ call[r].service \in {"create_tag_alias", "update_tag_alias"}
          /\ Edited(r).link \in holding[r]
          /\ rows[Edited(r).link].active
          /\ Fits(call[r].row, Edited(r).link)
       \/ /\ call[r].service = "deactivate_tag"
          /\ call[r].row \in holding[r] /\ rows[call[r].row].active
          /\ \A a \in holding[r] \intersect Aliases : rows[a].link = call[r].row
       \/ /\ call[r].service = "reactivate_tag"
          /\ call[r].row \in holding[r] /\ ~rows[call[r].row].active
       \/ /\ call[r].service = "reactivate_tag_alias"
          /\ chosen[r] \in holding[r] /\ chosen[r] \in Tags
  /\ pc[r] = "ready" =>
       /\ call[r].service \in Reactivations
       /\ call[r].row \in holding[r]
       /\ ~rows[call[r].row].active
       /\ rows[call[r].row].link # NoRow =>
            /\ rows[call[r].row].link \in holding[r]
            /\ rows[rows[call[r].row].link].active
            /\ Fits(call[r].row, rows[call[r].row].link)
  /\ Writing(r) =>
       /\ call[r].service \in Creates \union Updates
       /\ Edited(r).link # NoRow => Fits(call[r].row, Edited(r).link)
       /\ call[r].service \in {"create_tag_alias", "update_tag_alias"} =>
            Edited(r).link \in holding[r] /\ rows[Edited(r).link].active
  /\ \A x \in holding[r] :
       \/ x \in Tags \/ pc[r] = "ready"
       \/ pc[r] = "locked" /\ call[r].service = "deactivate_tag" /\ x \in Aliases

(* Locks are exclusive, and nobody else knows a row that is being created. *)
Exclusive ==
  \A r, q \in Requests : r # q =>
    /\ Locks(r) \intersect Locks(q) = {}
    /\ pc[r] # "idle" /\ call[r].service \in Creates => call[q].row # call[r].row

Inv ==
  /\ Shape /\ Table /\ ScopesContained /\ AliasFollowsTag /\ Exclusive
  /\ \A r \in Requests : Asked(r) /\ Placed(r)

-----------------------------------------------------------------------------
(* The tables are disjoint, and no row is NoRow.                           *)
LEMMA KindsApart ==
  /\ NoRow \notin Rows /\ NoSlug \notin Slugs
  /\ \A x \in Vocabularies : x \in Rows /\ x \notin Tags /\ x \notin Aliases
  /\ \A x \in Tags : x \in Rows /\ x \notin Vocabularies /\ x \notin Aliases
  /\ \A x \in Aliases : x \in Rows /\ x \notin Vocabularies /\ x \notin Tags
  /\ \A x \in Rows : x \in Vocabularies \/ x \in Tags \/ x \in Aliases
BY ScopesAssumption DEF Rows

LEMMA ServicesByKind ==
  ASSUME NEW x \in Rows, NEW s \in ServicesOf(x)
  PROVE  /\ s \in AllServices
         /\ s \in {"create_tag", "update_tag", "deactivate_tag", "reactivate_tag"} <=> x \in Tags
         /\ s \in {"create_tag_alias", "update_tag_alias", "deactivate_tag_alias",
                   "reactivate_tag_alias"} <=> x \in Aliases
         /\ s \in {"create_vocabulary", "update_vocabulary", "deactivate_vocabulary",
                   "reactivate_vocabulary"} <=> x \in Vocabularies
BY KindsApart DEF ServicesOf, AllServices, Creates, Updates, Deactivations, Reactivations

LEMMA ContentIsNotMissing ==
  /\ Missing \notin Content
  /\ \A c \in Content : c.active \in BOOLEAN /\ c.slug \in Slugs /\ c.link \in Rows \union {NoRow}
  /\ \A c \in Content, b \in BOOLEAN :
       /\ WithActive(c, b) \in Content
       /\ WithActive(c, b).active = b /\ WithActive(c, b).link = c.link
       /\ WithActive(c, b).slug = c.slug
BY ScopesAssumption DEF Content, Missing, WithActive

(* What a creation or an update is about to save.                          *)
LEMMA EditedIsTyped ==
  ASSUME Shape, NEW r \in Requests, Asked(r), pc[r] # "idle",
         call[r].service \in Creates \union Updates
  PROVE  Edited(r) \in Content /\ Linked(call[r].row, Edited(r).link)
<1>1. call[r].data \in Content /\ call[r].sent \subseteq Fields
  BY DEF Shape, CallSet, Asked
<1>2. CASE call[r].service \in Creates
  BY <1>1, <1>2 DEF Asked, Edited, Merge, Fields, Content
<1>3. CASE call[r].service \in Updates
  <2>1. copy[r] \in Content /\ Linked(call[r].row, copy[r].link)
    BY <1>3 DEF Shape, Asked
  <2>2. Linked(call[r].row, call[r].data.link)
    BY <1>3 DEF Asked
  <2>3. Edited(r).link \in {copy[r].link, call[r].data.link}
    BY DEF Edited, Merge
  <2>4. Edited(r) \in Content
    BY <1>1, <2>1 DEF Edited, Merge, Content
  <2> QED BY <2>1, <2>2, <2>3, <2>4
<1> QED BY <1>2, <1>3

-----------------------------------------------------------------------------
(* A step of r on the table: rows are created by their request only, none  *)
(* disappears, and none that another request has locked changes.           *)
Written(r) ==
  /\ rows' \in [Rows -> Content \union {Missing}]
  /\ \A x \in Rows : rows[x] # Missing => rows'[x] # Missing
  /\ \A x \in Rows : rows[x] = Missing /\ rows'[x] # Missing => x = call[r].row
  /\ \A x \in Rows : rows'[x] # rows[x] => \A q \in Requests \ {r} : x \notin holding[q]

(* The other requests, and what they have in memory.                       *)
Untouched(q) ==
  /\ pc'[q] = pc[q] /\ call'[q] = call[q] /\ copy'[q] = copy[q]
  /\ holding'[q] = holding[q] /\ chosen'[q] = chosen[q]

LEMMA LinksStay ==
  ASSUME Table, NEW r \in Requests, Written(r), NEW x \in Rows, NEW link, Linked(x, link)
  PROVE  link \in Targets(x) /\ (link # NoRow => rows'[link] # Missing)
BY KindsApart DEF Table, Written, Linked, Targets, Rows

LEMMA OthersKeep ==
  ASSUME Inv, NEW r \in Requests, NEW q \in Requests, q # r,
         Written(r), Untouched(q), write_enabled' = write_enabled
  PROVE  Asked(q)' /\ Placed(q)'
<1>1. \A x \in holding[q] : x \in Rows /\ rows'[x] = rows[x]
  BY DEF Inv, Shape, Written
<1>2. Edited(q)' = Edited(q)
  BY DEF Edited, Untouched
<1>3. Asked(q)'
  <2> SUFFICES ASSUME pc[q] # "idle" PROVE Asked(q)'
    BY DEF Asked, Untouched
  <2>1. Asked(q) /\ call[q].row \in Rows
    BY DEF Inv, Asked
  <2>2. Writable(call[q].row)'
    BY <2>1 DEF Asked, Writable, Untouched
  <2>3. call[q].service \in Creates => rows'[call[q].row] = Missing
    BY <2>1 DEF Inv, Exclusive, Asked, Written
  <2>4. call[q].service \notin Creates => rows'[call[q].row] # Missing
    BY <2>1 DEF Asked, Written
  <2>5. ASSUME NEW link, Linked(call[q].row, link)
        PROVE  link \in Targets(call[q].row) /\ (link # NoRow => rows'[link] # Missing)
    BY <2>1, <2>5, LinksStay DEF Inv
  <2>6. /\ call[q].data # Missing => Linked(call[q].row, call[q].data.link)
        /\ copy[q] # Missing => Linked(call[q].row, copy[q].link)
    BY <2>1 DEF Asked
  <2> QED BY <2>1, <2>2, <2>3, <2>4, <2>5, <2>6 DEF Asked, Untouched, Linked
<1>4. Placed(q)'
  <2>1. chosen[q] \in Tags /\ rows[chosen[q]] # Missing => rows'[chosen[q]] # Missing
    BY KindsApart DEF Written
  <2>2. Writing(q)' = Writing(q)
    BY DEF Writing, Untouched
  <2> QED BY <1>1, <1>2, <2>1, <2>2 DEF Inv, Placed, Untouched
<1> QED BY <1>3, <1>4

LEMMA OthersKeepLocks == ASSUME NEW q, Untouched(q) PROVE Locks(q)' = Locks(q)
BY DEF Untouched, Locks, Writing

(* What a request has locked nobody else has.                              *)
LEMMA LockedIsFree ==
  ASSUME Inv, NEW r \in Requests, NEW x \in Locks(r)
  PROVE  Free(r, x)
BY DEF Inv, Exclusive, Free

LEMMA NothingWritten == ASSUME Inv, NEW r, rows' = rows PROVE Written(r)
BY DEF Inv, Table, Written

(* A service that ends, however it ends.                                   *)
LEMMA FinishKeeps ==
  ASSUME Inv, NEW r \in Requests, Finish(r), Written(r),
         Table', ScopesContained', AliasFollowsTag', UNCHANGED <<write_enabled, callVars>>
  PROVE  Inv'
<1>1. Shape'
  <2>1. NoCall \in CallSet
    BY DEF NoCall, CallSet
  <2> QED BY <2>1 DEF Inv, Shape, Finish, callVars, Points, MaxAttempts
<1>2. /\ pc'[r] = "idle" /\ call'[r] = NoCall /\ copy'[r] = Missing /\ holding'[r] = {}
      /\ \A q \in Requests \ {r} : Untouched(q)
  BY DEF Inv, Shape, Finish, Untouched
<1>5. Locks(r)' = {} /\ \A q \in Requests \ {r} : Locks(q)' = Locks(q)
  BY <1>2, OthersKeepLocks DEF Locks, Writing
<1>3. Exclusive'
  <2> SUFFICES ASSUME NEW a \in Requests, NEW b \in Requests, a # b
               PROVE  /\ Locks(a)' \intersect Locks(b)' = {}
                      /\ pc'[a] # "idle" /\ call'[a].service \in Creates =>
                           call'[b].row # call'[a].row
    BY DEF Exclusive
  <2>1. CASE a = r
    BY <1>2, <1>5, <2>1
  <2>2. CASE b = r
    <3>1. call'[b].row = NoRow /\ NoRow \notin Rows
      BY <1>2, <2>2, KindsApart DEF NoCall
    <3>2. pc'[a] # "idle" => call'[a].row \in Rows
      BY <1>2, <2>2 DEF Inv, Asked, Untouched
    <3> QED BY <1>2, <1>5, <2>2, <3>1, <3>2
  <2>3. CASE a # r /\ b # r
    BY <1>2, <1>5, <2>3 DEF Inv, Exclusive, Untouched
  <2> QED BY <2>1, <2>2, <2>3
<1>4. ASSUME NEW q \in Requests PROVE Asked(q)' /\ Placed(q)'
  <2>1. CASE q = r
    BY <1>2, <2>1 DEF Asked, Placed, Writing
  <2>2. CASE q # r
    BY <1>2, <2>2, OthersKeep
  <2> QED BY <2>1, <2>2
<1> QED BY <1>1, <1>3, <1>4 DEF Inv

LEMMA RefuseKeeps ==
  ASSUME Inv, NEW r \in Requests, Refuse(r), UNCHANGED <<write_enabled, callVars>>
  PROVE  Inv'
<1>1. Finish(r) /\ rows' = rows /\ patched' = patched
  BY DEF Refuse, tableVars
<1>2. Table' /\ ScopesContained' /\ AliasFollowsTag'
  BY <1>1 DEF Inv, Table, Linked, ScopesContained, AliasFollowsTag
<1> QED BY <1>1, <1>2, NothingWritten, FinishKeeps

(* A step that writes nothing: what is left to show is about r alone.      *)
LEMMA MoveKeeps ==
  ASSUME Inv, NEW r \in Requests, UNCHANGED <<rows, patched, write_enabled>>, Shape',
         \A q \in Requests \ {r} : Untouched(q) /\ Locks(r)' \intersect Locks(q) = {},
         call'[r].row # NoRow,
         pc'[r] # "idle" /\ call'[r].service \in Creates =>
           \A q \in Requests \ {r} : call[q].row # call'[r].row,
         \A q \in Requests \ {r} :
           pc[q] # "idle" /\ call[q].service \in Creates => call'[r].row # call[q].row,
         Asked(r)', Placed(r)'
  PROVE  Inv'
<1>1. Table' /\ ScopesContained' /\ AliasFollowsTag'
  BY DEF Inv, Table, Linked, ScopesContained, AliasFollowsTag
<1>2. Exclusive'
  <2> SUFFICES ASSUME NEW a \in Requests, NEW b \in Requests, a # b
               PROVE  /\ Locks(a)' \intersect Locks(b)' = {}
                      /\ pc'[a] # "idle" /\ call'[a].service \in Creates =>
                           call'[b].row # call'[a].row
    BY DEF Exclusive
  <2>0. \A q \in Requests \ {r} : Locks(q)' = Locks(q)
    BY OthersKeepLocks
  <2>1. CASE a = r
    BY <2>0, <2>1 DEF Untouched
  <2>2. CASE b = r
    BY <2>0, <2>2 DEF Untouched
  <2>3. CASE a # r /\ b # r
    BY <2>0, <2>3 DEF Inv, Exclusive, Untouched
  <2> QED BY <2>1, <2>2, <2>3
<1>3. ASSUME NEW q \in Requests, q # r PROVE Asked(q)' /\ Placed(q)'
  BY <1>3, NothingWritten, OthersKeep
<1> QED BY <1>1, <1>2, <1>3 DEF Inv

(* The same, for a step of a service under way: its call stays, it takes   *)
(* only locks that are free, and goes to another point.                    *)
LEMMA GotoKeeps ==
  ASSUME Inv, NEW r \in Requests, UNCHANGED <<rows, patched, write_enabled, callVars, call, copy>>,
         pc[r] # "idle", NEW point \in Points \ {"idle"}, pc' = [pc EXCEPT ![r] = point],
         chosen' \in [Requests -> Rows \union {NoRow}],
         attempt' \in [Requests -> 0..MaxAttempts - 1],
         \A q \in Requests \ {r} : chosen'[q] = chosen[q],
         NEW locks \in SUBSET Rows, holding' = [holding EXCEPT ![r] = locks],
         \A x \in locks \ holding[r] : Free(r, x),
         point \in {"saving", "saved"} => Writing(r) \/ Free(r, call[r].row),
         Placed(r)'
  PROVE  Inv'
<1>1. Shape'
  BY DEF Inv, Shape, callVars
<1>2. /\ pc'[r] = point /\ call'[r] = call[r] /\ holding'[r] = locks
      /\ \A q \in Requests \ {r} : Untouched(q)
  BY DEF Inv, Shape, Untouched
<1>3. ASSUME NEW q \in Requests \ {r} PROVE Locks(r)' \intersect Locks(q) = {}
  <2> SUFFICES ASSUME NEW x \in Locks(r)' PROVE x \notin Locks(q)
    OBVIOUS
  <2>1. \/ x \in locks
        \/ point \in {"saving", "saved"} /\ x = call[r].row
    BY <1>2 DEF Locks, Writing
  <2>2. x \in Locks(r) \/ Free(r, x)
    BY <2>1 DEF Locks
  <2> QED BY <2>2, LockedIsFree DEF Free
<1>4. call[r].row \in Rows /\ Asked(r)
  BY DEF Inv, Asked
<1>5. Asked(r)'
  BY <1>2, <1>4 DEF Asked, Linked, Writable
<1>6. /\ call'[r].row # NoRow
      /\ call'[r].service \in Creates => \A q \in Requests \ {r} : call[q].row # call'[r].row
      /\ \A q \in Requests \ {r} :
           pc[q] # "idle" /\ call[q].service \in Creates => call'[r].row # call[q].row
  BY <1>4, KindsApart DEF Inv, Exclusive
<1> QED BY <1>1, <1>2, <1>3, <1>5, <1>6, MoveKeeps

-----------------------------------------------------------------------------
(* The steps before the write.                                             *)
LEMMA CallServiceKeeps == ASSUME Inv, NEW r \in Requests, CallService(r) PROVE Inv'
<1>1. PICK x \in Rows : \E c \in CallsOn(x) :
        /\ Writable(x)
        /\ Exists(x) \/ \A q \in Requests : call[q].row # x
        /\ call' = [call EXCEPT ![r] = c]
        /\ copy' = [copy EXCEPT ![r] = rows[x]]
  BY DEF CallService
<1>2. PICK c \in CallsOn(x) :
        /\ Writable(x)
        /\ Exists(x) \/ \A q \in Requests : call[q].row # x
        /\ call' = [call EXCEPT ![r] = c]
        /\ copy' = [copy EXCEPT ![r] = rows[x]]
  BY <1>1
<1>3. /\ pc[r] = "idle" /\ pc' = [pc EXCEPT ![r] = "called"]
      /\ calls < MaxCalls /\ calls' = calls + 1
      /\ overlapped' = (overlapped \/ \E q \in Requests : pc[q] # "idle")
      /\ rows' = rows /\ patched' = patched /\ write_enabled' = write_enabled
      /\ holding' = holding /\ chosen' = chosen /\ attempt' = attempt
  BY DEF CallService, tableVars
<1>4. /\ c.row = x /\ c.service \in ServicesOf(x) /\ c.sent \subseteq Fields
      /\ c.data = Missing \/ (c.data \in Content /\ Linked(x, c.data.link))
      /\ c.service \in Creates =>
           rows[x] = Missing /\ c.sent = Fields /\ c.data # Missing
      /\ c.service \in Updates => rows[x] # Missing /\ c.data # Missing
      /\ c.service \notin Creates => rows[x] # Missing
  <2>1. /\ c \in [service : Services \intersect ServicesOf(x), row : {x},
                  sent : {{}, Fields} \union {{f} : f \in Fields},
                  data : Contents(x) \union {Missing}]
        /\ \/ c.service \in Creates /\ ~Exists(x) /\ c.sent = Fields /\ c.data # Missing
           \/ c.service \in Updates /\ Exists(x) /\ c.data # Missing
           \/ c.service \in Deactivations \union Reactivations /\ Exists(x)
    BY DEF CallsOn
  <2>2. \A d \in Contents(x) : d \in Content /\ Linked(x, d.link)
    BY DEF Contents, Linked, Exists
  <2>3. {{}, Fields} \union {{f} : f \in Fields} \subseteq SUBSET Fields
    OBVIOUS
  <2> QED BY <2>1, <2>2, <2>3
          DEF Exists, Creates, Updates, Deactivations, Reactivations
<1>5. c \in CallSet
  <2>1. /\ c = [service |-> c.service, row |-> c.row, sent |-> c.sent, data |-> c.data]
    BY DEF CallsOn
  <2>2. c.service \in AllServices
    BY <1>4, ServicesByKind
  <2> QED BY <1>4, <2>1, <2>2 DEF CallSet
<1>6. Shape'
  <2>1. calls' \in 0..MaxCalls
    BY <1>3, ScopesAssumption DEF Inv, Shape
  <2>2. rows[x] \in Content \union {Missing}
    BY DEF Inv, Table
  <2>3. overlapped' \in BOOLEAN
    BY <1>3 DEF Inv, Shape
  <2> QED BY <1>2, <1>3, <1>5, <2>1, <2>2, <2>3 DEF Inv, Shape, Points
<1>7. /\ pc'[r] = "called" /\ call'[r] = c /\ copy'[r] = rows[x] /\ holding'[r] = {}
      /\ \A q \in Requests \ {r} : Untouched(q)
  BY <1>2, <1>3 DEF Inv, Shape, Untouched, Placed
<1>8. Asked(r)'
  <2>1. rows[x] # Missing => Linked(x, rows[x].link)
    BY DEF Inv, Table
  <2> QED BY <1>2, <1>3, <1>4, <1>7, <2>1 DEF Asked, Linked, Writable
<1>9. Placed(r)' /\ Locks(r)' = {}
  BY <1>7 DEF Placed, Locks, Writing
<1>10. /\ call'[r].row # NoRow
       /\ call'[r].service \in Creates => \A q \in Requests \ {r} : call[q].row # call'[r].row
       /\ \A q \in Requests \ {r} :
            pc[q] # "idle" /\ call[q].service \in Creates => call'[r].row # call[q].row
  BY <1>2, <1>4, <1>7, KindsApart DEF Inv, Asked, Exists
<1> QED BY <1>3, <1>6, <1>7, <1>8, <1>9, <1>10, MoveKeeps

LEMMA CheckRelationsKeeps == ASSUME Inv, NEW r \in Requests, CheckRelations(r) PROVE Inv'
<1>1. /\ pc[r] = "called" /\ UNCHANGED <<write_enabled, callVars>>
      /\ call[r].service \in (Creates \ {"create_tag_alias"}) \union Updates
  BY DEF CheckRelations
<1>2. CASE Refuse(r)
  BY <1>1, <1>2, RefuseKeeps
<1>3. CASE RelationsValid(r) /\ Goto(r, "checked") /\ UNCHANGED holding
  <2>1. /\ UNCHANGED <<rows, patched, call, copy, chosen, attempt, holding>>
        /\ pc' = [pc EXCEPT ![r] = "checked"]
    BY <1>3 DEF Goto, tableVars, localVars
  <2>2. Shape /\ Asked(r) /\ Placed(r) /\ holding[r] = {}
    BY <1>1 DEF Inv, Placed
  <2>3. call[r].service \in {"create_vocabulary", "create_tag"} \union Updates
    BY <1>1 DEF Creates
  <2>4. Edited(r) \in Content /\ Linked(call[r].row, Edited(r).link)
    BY <1>1, <2>2, EditedIsTyped
  <2>5. Edited(r).link # NoRow => Fits(call[r].row, Edited(r).link)
    <3>1. CASE call[r].service \in {"create_vocabulary", "update_vocabulary"}
      <4>1. call[r].row \in Vocabularies
        BY <1>1, <2>2, <3>1, ServicesByKind DEF Asked
      <4> QED BY <2>4, <4>1, KindsApart DEF Linked, Targets
    <3>2. CASE call[r].service \in {"create_tag", "update_tag", "update_tag_alias"}
      BY <1>3, <3>2 DEF RelationsValid, VocabularyValid, AliasTagValid
    <3> QED BY <2>3, <3>1, <3>2 DEF Updates
  <2>6. Edited(r)' = Edited(r)
    BY <2>1 DEF Edited
  <2>7. Placed(r)'
    BY <2>1, <2>2, <2>3, <2>5, <2>6 DEF Placed, Shape, Writing
  <2>8. /\ "checked" \in Points \ {"idle"} /\ holding' = [holding EXCEPT ![r] = holding[r]]
        /\ chosen' \in [Requests -> Rows \union {NoRow}]
        /\ attempt' \in [Requests -> 0..MaxAttempts - 1]
        /\ holding[r] \in SUBSET Rows /\ pc[r] # "idle"
    BY <1>1, <2>1, <2>2 DEF Shape, Points
  <2> QED BY <1>1, <2>1, <2>7, <2>8, GotoKeeps
<1> QED BY <1>2, <1>3 DEF CheckRelations

LEMMA ChooseTagKeeps == ASSUME Inv, NEW r \in Requests, ChooseTag(r) PROVE Inv'
<1>1. /\ pc[r] = "called" /\ call[r].service = "reactivate_tag_alias"
      /\ chosen' = [chosen EXCEPT ![r] = rows[call[r].row].link]
      /\ pc' = [pc EXCEPT ![r] = "chosen"]
      /\ UNCHANGED <<rows, patched, write_enabled, call, copy, holding, attempt, callVars>>
  BY DEF ChooseTag, At, tableVars
<1>2. Shape /\ Table /\ Asked(r) /\ Placed(r) /\ holding[r] = {}
  BY <1>1 DEF Inv, Placed
<1>3. rows[call[r].row].link \in Tags /\ rows[rows[call[r].row].link] # Missing
  <2>1. call[r].row \in Aliases /\ rows[call[r].row] # Missing
    BY <1>1, <1>2, ServicesByKind DEF Asked, Creates
  <2> QED BY <1>2, <2>1, KindsApart DEF Table, Linked, Targets
<1>4. /\ chosen' \in [Requests -> Rows \union {NoRow}]
      /\ chosen'[r] \in Tags /\ rows'[chosen'[r]] # Missing
  BY <1>1, <1>2, <1>3, KindsApart DEF Shape
<1>5. Placed(r)'
  BY <1>1, <1>2, <1>4 DEF Placed, Shape, Writing
<1>6. /\ "chosen" \in Points \ {"idle"} /\ holding' = [holding EXCEPT ![r] = holding[r]]
      /\ attempt' \in [Requests -> 0..MaxAttempts - 1]
      /\ \A q \in Requests \ {r} : chosen'[q] = chosen[q]
      /\ holding[r] \in SUBSET Rows /\ pc[r] # "idle"
  BY <1>1, <1>2 DEF Shape, Points
<1> QED BY <1>1, <1>4, <1>5, <1>6, GotoKeeps

(* The first lock of a transaction, of a tag t, with what is known of it.  *)
LEMMA LockTagKeeps ==
  ASSUME Inv, NEW r \in Requests, NEW t \in Rows, NEW goes_on, LockTag(r, t, goes_on),
         pc[r] \in {"called", "checked", "chosen"}, t \in Tags, rows[t] # Missing,
         goes_on =>
           \/ /\ call[r].service \in {"create_tag_alias", "update_tag_alias"}
              /\ t = Edited(r).link /\ rows[t].active /\ Fits(call[r].row, t)
           \/ call[r].service = "deactivate_tag" /\ t = call[r].row /\ rows[t].active
           \/ call[r].service = "reactivate_tag" /\ t = call[r].row /\ ~rows[t].active
           \/ call[r].service = "reactivate_tag_alias" /\ t = chosen[r] /\ t \in Tags
  PROVE  Inv'
<1>1. Free(r, t) /\ UNCHANGED <<write_enabled, callVars>>
  BY DEF LockTag
<1>2. CASE Refuse(r)
  BY <1>1, <1>2, RefuseKeeps
<1>3. CASE goes_on /\ Goto(r, "locked") /\ holding' = [holding EXCEPT ![r] = @ \union {t}]
  <2>1. /\ UNCHANGED <<rows, patched, call, copy, chosen, attempt>>
        /\ pc' = [pc EXCEPT ![r] = "locked"]
    BY <1>3 DEF Goto, tableVars, localVars
  <2>2. Shape /\ Placed(r) /\ holding[r] = {}
    BY DEF Inv, Placed
  <2>3. holding' = [holding EXCEPT ![r] = {t}] /\ holding'[r] = {t} /\ pc'[r] = "locked"
    BY <1>3, <2>1, <2>2 DEF Shape
  <2>4. Edited(r)' = Edited(r)
    BY <2>1 DEF Edited
  <2>5. Placed(r)'
    BY <1>3, <2>1, <2>3, <2>4, KindsApart DEF Placed, Writing
  <2>6. /\ "locked" \in Points \ {"idle"} /\ {t} \in SUBSET Rows /\ pc[r] # "idle"
        /\ chosen' \in [Requests -> Rows \union {NoRow}]
        /\ attempt' \in [Requests -> 0..MaxAttempts - 1]
        /\ \A x \in {t} \ holding[r] : Free(r, x)
    BY <1>1, <2>1, <2>2 DEF Shape, Points
  <2> QED BY <1>1, <2>1, <2>3, <2>5, <2>6, GotoKeeps
<1> QED BY <1>2, <1>3 DEF LockTag

LEMMA LockCanonicalTagKeeps == ASSUME Inv, NEW r \in Requests, LockCanonicalTag(r) PROVE Inv'
<1> DEFINE t == Edited(r).link
<1>1. /\ \/ pc[r] = "called" /\ call[r].service = "create_tag_alias"
         \/ pc[r] = "checked" /\ call[r].service = "update_tag_alias"
      /\ LockTag(r, t, AliasTagValid(call[r].row, t))
  BY DEF LockCanonicalTag, At
<1>2. Shape /\ Asked(r) /\ call[r].row \in Rows
  BY <1>1 DEF Inv, Asked
<1>3. Linked(call[r].row, t)
  BY <1>1, <1>2, EditedIsTyped DEF Creates, Updates
<1>4. call[r].row \in Aliases
  BY <1>1, <1>2, ServicesByKind DEF Asked
<1>5. t \in Rows /\ t \in Tags /\ rows[t] # Missing
  BY <1>3, <1>4, KindsApart DEF Linked, Targets
<1>6. AliasTagValid(call[r].row, t) => rows[t].active /\ Fits(call[r].row, t)
  BY DEF AliasTagValid
<1> QED BY <1>1, <1>5, <1>6, LockTagKeeps

LEMMA LockOwnTagKeeps == ASSUME Inv, NEW r \in Requests, LockOwnTag(r) PROVE Inv'
<1>1. /\ pc[r] = "called"
      /\ \/ /\ call[r].service = "deactivate_tag"
            /\ LockTag(r, call[r].row, rows[call[r].row].active)
         \/ /\ call[r].service = "reactivate_tag"
            /\ LockTag(r, call[r].row, ~rows[call[r].row].active)
  BY DEF LockOwnTag
<1>2. call[r].row \in Rows /\ call[r].row \in Tags /\ rows[call[r].row] # Missing
  BY <1>1, ServicesByKind DEF Inv, Asked, Creates
<1> QED BY <1>1, <1>2, LockTagKeeps

LEMMA LockChosenTagKeeps == ASSUME Inv, NEW r \in Requests, LockChosenTag(r) PROVE Inv'
<1>1. pc[r] = "chosen" /\ LockTag(r, chosen[r], TRUE)
  BY DEF LockChosenTag
<1>2. /\ call[r].service = "reactivate_tag_alias"
      /\ chosen[r] \in Tags /\ chosen[r] \in Rows /\ rows[chosen[r]] # Missing
  BY <1>1, KindsApart DEF Inv, Placed
<1> QED BY <1>1, <1>2, LockTagKeeps

LEMMA LockNextAliasKeeps == ASSUME Inv, NEW r \in Requests, LockNextAlias(r) PROVE Inv'
<1>1. /\ pc[r] = "locked" /\ call[r].service = "deactivate_tag"
      /\ UNCHANGED <<rows, patched, write_enabled, pc, call, copy, chosen, attempt, callVars>>
  BY DEF LockNextAlias, At, tableVars, localVars
<1>2. PICK a \in CascadeOf(call[r].row) \ holding[r] :
        Free(r, a) /\ holding' = [holding EXCEPT ![r] = @ \union {a}]
  BY DEF LockNextAlias
<1>3. Shape /\ Placed(r)
  BY DEF Inv
<1>4. a \in Rows /\ rows[a] # Missing /\ a \in Aliases /\ rows[a].link = call[r].row
  BY KindsApart DEF CascadeOf, Missing
<1> DEFINE locks == holding[r] \union {a}
<1>5. /\ holding' = [holding EXCEPT ![r] = locks] /\ holding'[r] = locks
      /\ pc' = [pc EXCEPT ![r] = "locked"]
  BY <1>1, <1>2, <1>3 DEF Shape
<1>6. Placed(r)'
  BY <1>1, <1>3, <1>4, <1>5 DEF Placed, Writing
<1>7. /\ "locked" \in Points \ {"idle"} /\ locks \in SUBSET Rows /\ pc[r] # "idle"
      /\ chosen' \in [Requests -> Rows \union {NoRow}]
      /\ attempt' \in [Requests -> 0..MaxAttempts - 1]
      /\ \A x \in locks \ holding[r] : Free(r, x)
  BY <1>1, <1>2, <1>3, <1>4 DEF Shape, Points
<1> QED BY <1>1, <1>5, <1>6, <1>7, GotoKeeps

LEMMA LockVocabularyKeeps == ASSUME Inv, NEW r \in Requests, LockVocabulary(r) PROVE Inv'
<1> DEFINE t == call[r].row
           v == rows[t].link
           locks == holding[r] \union ({v} \ {NoRow})
<1>1. /\ pc[r] = "locked" /\ call[r].service = "reactivate_tag"
      /\ v # NoRow => Free(r, v)
      /\ UNCHANGED <<write_enabled, callVars>>
  BY DEF LockVocabulary, At
<1>2. CASE Refuse(r)
  BY <1>1, <1>2, RefuseKeeps
<1>3. CASE /\ VocabularyValid(t, v, TRUE) /\ Goto(r, "ready")
           /\ holding' = [holding EXCEPT ![r] = @ \union ({v} \ {NoRow})]
  <2>1. /\ UNCHANGED <<rows, patched, call, copy, chosen, attempt>>
        /\ pc' = [pc EXCEPT ![r] = "ready"]
    BY <1>3 DEF Goto, tableVars, localVars
  <2>2. Shape /\ Table /\ Placed(r) /\ Asked(r)
    BY DEF Inv
  <2>3. t \in Rows /\ rows[t] # Missing /\ t \in holding[r] /\ ~rows[t].active
    BY <1>1, <2>2 DEF Placed, Asked, Creates
  <2>4. v # NoRow => /\ v \in Rows /\ rows[v] # Missing
                     /\ rows[v].active /\ Fits(t, v)
    BY <1>3, <2>2, <2>3, KindsApart DEF Table, Linked, Targets, VocabularyValid
  <2>5. /\ holding' = [holding EXCEPT ![r] = locks] /\ holding'[r] = locks
        /\ pc'[r] = "ready"
    BY <1>3, <2>1, <2>2 DEF Shape
  <2>6. Placed(r)'
    BY <1>1, <2>1, <2>2, <2>3, <2>4, <2>5 DEF Placed, Writing, Reactivations
  <2>7. /\ "ready" \in Points \ {"idle"} /\ locks \in SUBSET Rows /\ pc[r] # "idle"
        /\ chosen' \in [Requests -> Rows \union {NoRow}]
        /\ attempt' \in [Requests -> 0..MaxAttempts - 1]
        /\ \A x \in locks \ holding[r] : Free(r, x)
    BY <1>1, <2>1, <2>2, <2>4 DEF Shape, Points
  <2> QED BY <1>1, <2>1, <2>5, <2>6, <2>7, GotoKeeps
<1> QED BY <1>2, <1>3 DEF LockVocabulary

LEMMA LockAliasKeeps == ASSUME Inv, NEW r \in Requests, LockAlias(r) PROVE Inv'
<1> DEFINE a == call[r].row
           repointed == rows[a].link # chosen[r]
<1>1. /\ pc[r] = "locked" /\ call[r].service = "reactivate_tag_alias" /\ Free(r, a)
      /\ UNCHANGED <<write_enabled, callVars>>
  BY DEF LockAlias, At
<1>2. Shape /\ Placed(r) /\ Asked(r) /\ a \in Rows /\ rows[a] # Missing
  BY <1>1 DEF Inv, Asked, Creates
<1>3. chosen[r] \in holding[r] /\ chosen[r] \in Tags
  BY <1>1, <1>2 DEF Placed
<1>4. CASE /\ attempt[r] + 1 < MaxAttempts
           /\ pc' = [pc EXCEPT ![r] = "called"]
           /\ attempt' = [attempt EXCEPT ![r] = @ + 1]
           /\ chosen' = [chosen EXCEPT ![r] = NoRow]
           /\ holding' = [holding EXCEPT ![r] = {}]
           /\ UNCHANGED <<tableVars, call, copy>>
  <2>1. UNCHANGED <<rows, patched, call, copy>>
    BY <1>4 DEF tableVars
  <2>2. pc'[r] = "called" /\ holding'[r] = {}
    BY <1>2, <1>4 DEF Shape
  <2>3. Placed(r)'
    BY <2>2 DEF Placed, Writing
  <2>4. /\ "called" \in Points \ {"idle"} /\ {} \in SUBSET Rows /\ pc[r] # "idle"
        /\ chosen' \in [Requests -> Rows \union {NoRow}]
        /\ attempt' \in [Requests -> 0..MaxAttempts - 1]
        /\ \A q \in Requests \ {r} : chosen'[q] = chosen[q]
        /\ \A x \in {} \ holding[r] : Free(r, x)
    BY <1>1, <1>2, <1>4 DEF Shape, Points, MaxAttempts
  <2> QED BY <1>1, <1>4, <2>1, <2>3, <2>4, GotoKeeps
<1>5. CASE /\ ~repointed /\ ~rows[a].active /\ AliasTagValid(a, chosen[r])
           /\ Goto(r, "ready")
           /\ holding' = [holding EXCEPT ![r] = @ \union {a}]
  <2> DEFINE locks == holding[r] \union {a}
  <2>1. /\ UNCHANGED <<rows, patched, call, copy, chosen, attempt>>
        /\ pc' = [pc EXCEPT ![r] = "ready"]
    BY <1>5 DEF Goto, tableVars, localVars
  <2>2. /\ holding' = [holding EXCEPT ![r] = locks] /\ holding'[r] = locks
        /\ pc'[r] = "ready"
    BY <1>2, <1>5, <2>1 DEF Shape
  <2>3. rows[a].link = chosen[r] /\ rows[chosen[r]].active /\ Fits(a, chosen[r])
    BY <1>5 DEF AliasTagValid
  <2>4. Placed(r)'
    BY <1>1, <1>2, <1>3, <1>5, <2>1, <2>2, <2>3 DEF Placed, Writing, Reactivations
  <2>5. /\ "ready" \in Points \ {"idle"} /\ locks \in SUBSET Rows /\ pc[r] # "idle"
        /\ chosen' \in [Requests -> Rows \union {NoRow}]
        /\ attempt' \in [Requests -> 0..MaxAttempts - 1]
        /\ \A x \in locks \ holding[r] : Free(r, x)
    BY <1>1, <1>2, <2>1 DEF Shape, Points
  <2> QED BY <1>1, <2>1, <2>2, <2>4, <2>5, GotoKeeps
<1>6. CASE Refuse(r)
  BY <1>1, <1>6, RefuseKeeps
<1> QED BY <1>4, <1>5, <1>6 DEF LockAlias

LEMMA LockOwnVocabularyKeeps == ASSUME Inv, NEW r \in Requests, LockOwnVocabulary(r) PROVE Inv'
<1> DEFINE v == call[r].row
           locks == holding[r] \union {v}
<1>1. /\ pc[r] = "called" /\ call[r].service = "reactivate_vocabulary"
      /\ Free(r, v) /\ UNCHANGED <<write_enabled, callVars>>
  BY DEF LockOwnVocabulary, At
<1>2. CASE Refuse(r)
  BY <1>1, <1>2, RefuseKeeps
<1>3. CASE ~rows[v].active /\ Goto(r, "ready") /\ holding' = [holding EXCEPT ![r] = @ \union {v}]
  <2>1. /\ UNCHANGED <<rows, patched, call, copy, chosen, attempt>>
        /\ pc' = [pc EXCEPT ![r] = "ready"]
    BY <1>3 DEF Goto, tableVars, localVars
  <2>2. Shape /\ Table /\ Placed(r) /\ Asked(r) /\ holding[r] = {}
    BY <1>1 DEF Inv, Placed
  <2>3. v \in Rows /\ v \in Vocabularies /\ rows[v] # Missing
    BY <1>1, <2>2, ServicesByKind DEF Asked, Creates
  <2>4. rows[v].link = NoRow
    BY <2>2, <2>3, KindsApart DEF Table, Linked, Targets
  <2>5. /\ holding' = [holding EXCEPT ![r] = locks] /\ holding'[r] = {v}
        /\ pc'[r] = "ready"
    BY <1>3, <2>1, <2>2 DEF Shape
  <2>6. Placed(r)'
    BY <1>1, <1>3, <2>1, <2>3, <2>4, <2>5 DEF Placed, Writing, Reactivations
  <2>7. /\ "ready" \in Points \ {"idle"} /\ locks \in SUBSET Rows /\ pc[r] # "idle"
        /\ chosen' \in [Requests -> Rows \union {NoRow}]
        /\ attempt' \in [Requests -> 0..MaxAttempts - 1]
        /\ \A x \in locks \ holding[r] : Free(r, x)
    BY <1>1, <2>1, <2>2, <2>3 DEF Shape, Points
  <2> QED BY <1>1, <2>1, <2>5, <2>6, <2>7, GotoKeeps
<1> QED BY <1>2, <1>3 DEF LockOwnVocabulary

(* A write begins, and enters its slug: what was checked is checked still. *)
LEMMA WritingKeeps ==
  ASSUME Inv, NEW r \in Requests, NEW point \in {"saving", "saved"}, Goto(r, point),
         UNCHANGED <<write_enabled, holding, callVars>>, pc[r] # "idle",
         Writing(r) \/ Free(r, call[r].row),
         call[r].service \in Creates \union Updates,
         Edited(r).link # NoRow => Fits(call[r].row, Edited(r).link),
         call[r].service \in {"create_tag_alias", "update_tag_alias"} =>
           Edited(r).link \in holding[r] /\ rows[Edited(r).link].active,
         holding[r] \subseteq Tags
  PROVE  Inv'
<1>1. /\ UNCHANGED <<rows, patched, call, copy, chosen, attempt>>
      /\ pc' = [pc EXCEPT ![r] = point]
  BY DEF Goto, tableVars, localVars
<1>2. Shape /\ Placed(r)
  BY DEF Inv
<1>3. pc'[r] = point /\ Edited(r)' = Edited(r) /\ holding'[r] = holding[r]
  BY <1>1, <1>2 DEF Shape, Edited
<1>4. Placed(r)'
  BY <1>1, <1>2, <1>3 DEF Placed
<1>5. /\ point \in Points \ {"idle"} /\ holding' = [holding EXCEPT ![r] = holding[r]]
      /\ chosen' \in [Requests -> Rows \union {NoRow}]
      /\ attempt' \in [Requests -> 0..MaxAttempts - 1]
      /\ holding[r] \in SUBSET Rows
  BY <1>1, <1>2 DEF Shape, Points
<1> QED BY <1>1, <1>4, <1>5, GotoKeeps

LEMMA BeginWriteKeeps == ASSUME Inv, NEW r \in Requests, BeginWrite(r) PROVE Inv'
<1>1. /\ \/ pc[r] = "checked" /\ call[r].service # "update_tag_alias"
         \/ pc[r] = "locked" /\ call[r].service \in {"create_tag_alias", "update_tag_alias"}
      /\ Free(r, call[r].row) /\ Goto(r, "saving")
      /\ UNCHANGED <<write_enabled, holding, callVars>>
  BY DEF BeginWrite
<1>2. Placed(r)
  BY DEF Inv
<1>3. call[r].service \in Creates \union Updates
  BY <1>1, <1>2 DEF Placed, Creates, Updates
<1>4. Edited(r).link # NoRow => Fits(call[r].row, Edited(r).link)
  BY <1>1, <1>2 DEF Placed
<1>5. call[r].service \in {"create_tag_alias", "update_tag_alias"} =>
        Edited(r).link \in holding[r] /\ rows[Edited(r).link].active
  BY <1>1, <1>2 DEF Placed, Updates
<1>6. holding[r] \subseteq Tags
  <2>1. CASE pc[r] = "checked"
    BY <1>2, <2>1 DEF Placed
  <2>2. CASE pc[r] = "locked" /\ call[r].service # "deactivate_tag"
    BY <1>2, <2>2 DEF Placed
  <2> QED BY <1>1, <2>1, <2>2
<1> QED BY <1>1, <1>3, <1>4, <1>5, <1>6, WritingKeeps

LEMMA EnterSlugKeeps == ASSUME Inv, NEW r \in Requests, EnterSlug(r) PROVE Inv'
<1>1. pc[r] = "saving" /\ UNCHANGED <<write_enabled, callVars>>
  BY DEF EnterSlug
<1>2. CASE Refuse(r)
  BY <1>1, <1>2, RefuseKeeps
<1>3. CASE Goto(r, "saved") /\ UNCHANGED holding
  <2>1. Placed(r) /\ Writing(r)
    BY <1>1 DEF Inv, Writing
  <2>2. holding[r] \subseteq Tags
    BY <1>1, <2>1 DEF Placed
  <2> QED BY <1>1, <1>3, <2>1, <2>2, WritingKeeps DEF Placed
<1> QED BY <1>2, <1>3 DEF EnterSlug

-----------------------------------------------------------------------------
(* The writes of one row: a row that fits, and is an active alias of an    *)
(* active tag or leaves active a tag that was.                             *)
LEMMA CommitKeeps ==
  ASSUME Inv, NEW r \in Requests, pc[r] # "idle",
         NEW x, x = call[r].row, NEW row \in Content, NEW fields, Commit(r, x, row, fields),
         Linked(x, row.link), row.link # NoRow => Fits(x, row.link),
         rows[x] # Missing => Free(r, x),
         patched \subseteq patched',
         x \in Aliases /\ row.active => rows[row.link].active \/ row.link \in patched',
         x \in Tags /\ rows[x].active => row.active \/ x \in patched'
  PROVE  Inv'
<1>1. /\ rows' = [rows EXCEPT ![x] = row] /\ Finish(r)
      /\ UNCHANGED <<write_enabled, callVars>>
  BY DEF Commit
<1>2. x \in Rows
  BY DEF Inv, Asked
<1>3. Table /\ \A q \in Requests : Placed(q)
  BY DEF Inv
<1>4. /\ rows' \in [Rows -> Content \union {Missing}] /\ rows'[x] = row /\ row # Missing
      /\ \A y \in Rows \ {x} : rows'[y] = rows[y]
  BY <1>1, <1>2, <1>3, ContentIsNotMissing DEF Table
<1>5. Written(r)
  <2>1. \A q \in Requests \ {r} : x \notin holding[q]
    BY <1>3 DEF Free, Locks, Placed
  <2> QED BY <1>4, <2>1 DEF Written
<1>6. Table'
  <2> SUFFICES ASSUME NEW y \in Rows, rows'[y] # Missing
               PROVE  /\ rows'[y].link \in Targets(y)
                      /\ rows'[y].link # NoRow => rows'[rows'[y].link] # Missing
    BY <1>4 DEF Table, Linked
  <2>1. rows'[y].link \in Rows \union {NoRow} /\ Linked(y, rows'[y].link)
    BY <1>3, <1>4, ContentIsNotMissing DEF Table
  <2> QED BY <1>4, <2>1 DEF Linked
<1>7. ScopesContained'
  BY <1>4 DEF Inv, ScopesContained
<1>8. AliasFollowsTag'
  <2> SUFFICES ASSUME NEW a \in Aliases, rows'[a].active
               PROVE  rows'[rows'[a].link].active \/ rows'[a].link \in patched'
    BY DEF AliasFollowsTag
  <2>0. a \in Rows
    BY KindsApart
  <2>1. CASE a = x
    <3>1. row.link \in Tags /\ row.link # x /\ row.link \in Rows
      BY <2>1, KindsApart DEF Linked, Targets
    <3> QED BY <1>4, <2>1, <3>1
  <2>2. CASE a # x
    <3>1. rows[a].active /\ rows[a] # Missing /\ rows'[a] = rows[a]
      BY <1>4, <2>0, <2>2 DEF Missing
    <3>2. rows[a].link \in Tags /\ rows[a].link \in Rows
      BY <1>3, <2>0, <3>1, KindsApart DEF Table, Linked, Targets
    <3>3. rows[rows[a].link].active \/ rows[a].link \in patched
      BY <3>1 DEF Inv, AliasFollowsTag
    <3>4. CASE rows[a].link = x
      BY <1>4, <3>1, <3>2, <3>3, <3>4
    <3>5. CASE rows[a].link # x
      BY <1>4, <3>1, <3>2, <3>3, <3>5
    <3> QED BY <3>4, <3>5
  <2> QED BY <2>1, <2>2
<1> QED BY <1>1, <1>5, <1>6, <1>7, <1>8, FinishKeeps

(* What is about to be committed by a creation or an update.               *)
LEMMA SavedRow ==
  ASSUME Inv, NEW r \in Requests, pc[r] = "saved"
  PROVE  LET x == call[r].row
             row == Edited(r)
         IN /\ row \in Content /\ Linked(x, row.link)
            /\ row.link # NoRow => Fits(x, row.link)
            /\ x \in Aliases => rows[row.link].active
            /\ Free(r, x)
<1> DEFINE x == call[r].row
           row == Edited(r)
<1>1. Shape /\ Asked(r) /\ Placed(r) /\ Writing(r) /\ pc[r] # "idle" /\ x \in Rows
  BY DEF Inv, Asked, Writing
<1>2. call[r].service \in Creates \union Updates
  BY <1>1 DEF Placed
<1>3. row \in Content /\ Linked(x, row.link)
  BY <1>1, <1>2, EditedIsTyped
<1>4. row.link # NoRow => Fits(x, row.link)
  BY <1>1 DEF Placed
<1>5. x \in Aliases => call[r].service \in {"create_tag_alias", "update_tag_alias"}
  BY <1>1, <1>2, ServicesByKind DEF Asked, Creates, Updates
<1>6. x \in Aliases => rows[row.link].active
  BY <1>1, <1>5 DEF Placed
<1>7. Free(r, x)
  BY <1>1, LockedIsFree DEF Locks
<1> QED BY <1>3, <1>4, <1>6, <1>7

LEMMA InsertKeeps ==
  ASSUME Inv, NEW r \in Requests, create_vocabulary(r) \/ create_tag(r) \/ create_tag_alias(r)
  PROVE  Inv'
<1> DEFINE x == call[r].row
           row == Edited(r)
<1>1. InsertRow(r) /\ call[r].service \in Creates /\ pc[r] = "saved"
  BY DEF create_vocabulary, create_tag, create_tag_alias, At, Creates
<1>2. Commit(r, x, row, Fields) /\ UNCHANGED patched
  BY <1>1 DEF InsertRow
<1>3. ~rows[x].active
  BY <1>1 DEF Inv, Asked, Missing
<1> QED BY <1>1, <1>2, <1>3, SavedRow, CommitKeeps

LEMMA SaveKeeps ==
  ASSUME Inv, NEW r \in Requests, update_vocabulary(r) \/ update_tag(r) \/ update_tag_alias(r)
  PROVE  Inv'
<1> DEFINE x == call[r].row
           row == Edited(r)
<1>1. SaveInstance(r) /\ pc[r] = "saved"
  BY DEF update_vocabulary, update_tag, update_tag_alias, At
<1>2. /\ Commit(r, x, row, Changed(r))
      /\ patched' = IF x \in Tags THEN patched \union {x} ELSE patched
  BY <1>1 DEF SaveInstance
<1> QED BY <1>1, <1>2, SavedRow, CommitKeeps

LEMMA DeactivateRowKeeps ==
  ASSUME Inv, NEW r \in Requests, deactivate_vocabulary(r) \/ deactivate_tag_alias(r)
  PROVE  Inv'
<1> DEFINE x == call[r].row
           row == WithActive(rows[x], FALSE)
<1>1. /\ DeactivateRow(r) /\ pc[r] # "idle"
      /\ call[r].service \in {"deactivate_vocabulary", "deactivate_tag_alias"}
  BY DEF deactivate_vocabulary, deactivate_tag_alias, At
<1>2. CASE Refuse(r) /\ UNCHANGED <<write_enabled, callVars>>
  BY <1>2, RefuseKeeps
<1>3. CASE Free(r, x) /\ Commit(r, x, row, {"active"}) /\ UNCHANGED patched
  <2>1. x \in Rows /\ rows[x] # Missing /\ x \notin Tags /\ Table
    BY <1>1, ServicesByKind, KindsApart DEF Inv, Asked, Creates
  <2>2. row \in Content /\ row.active = FALSE /\ row.link = rows[x].link
    BY <2>1, ContentIsNotMissing DEF Table
  <2>3. Linked(x, row.link) /\ (row.link # NoRow => Fits(x, row.link))
    BY <2>1, <2>2 DEF Table, Inv, ScopesContained
  <2> HIDE DEF row
  <2> QED BY <1>1, <1>3, <2>1, <2>2, <2>3, CommitKeeps
<1> QED BY <1>1, <1>2, <1>3 DEF DeactivateRow

LEMMA ReactivateKeeps ==
  ASSUME Inv, NEW r \in Requests,
         reactivate_vocabulary(r) \/ reactivate_tag(r) \/ reactivate_tag_alias(r)
  PROVE  Inv'
<1> DEFINE x == call[r].row
           row == WithActive(rows[x], TRUE)
<1>1. Reactivate(r) /\ pc[r] = "ready" /\ call[r].service \in Reactivations
  BY DEF reactivate_vocabulary, reactivate_tag, reactivate_tag_alias, At, Reactivations
<1>2. CASE Refuse(r) /\ UNCHANGED <<write_enabled, callVars>>
  BY <1>2, RefuseKeeps
<1>3. CASE Commit(r, x, row, {"active"}) /\ UNCHANGED patched
  <2>1. x \in Rows /\ rows[x] # Missing /\ Table /\ Placed(r) /\ x \in holding[r]
    BY <1>1 DEF Inv, Asked, Placed, Creates, Reactivations
  <2>5. Free(r, x)
    BY <2>1, LockedIsFree DEF Locks
  <2>2. row \in Content /\ row.active = TRUE /\ row.link = rows[x].link
    BY <2>1, ContentIsNotMissing DEF Table
  <2>3. Linked(x, row.link) /\ (row.link # NoRow => Fits(x, row.link))
    BY <2>1, <2>2 DEF Table, Inv, ScopesContained
  <2>4. ASSUME x \in Aliases PROVE rows[row.link].active
    <3>1. row.link # NoRow
      BY <2>1, <2>3, <2>4, KindsApart DEF Linked, Targets
    <3> QED BY <1>1, <2>1, <2>2, <3>1 DEF Placed
  <2> HIDE DEF row
  <2> QED BY <1>1, <1>3, <2>1, <2>2, <2>3, <2>4, <2>5, CommitKeeps
<1> QED BY <1>1, <1>2, <1>3 DEF Reactivate, NewRow

(* The write of a deactivated tag and its aliases.                         *)
LEMMA DeactivateTagKeeps == ASSUME Inv, NEW r \in Requests, deactivate_tag(r) PROVE Inv'
<1> DEFINE t == call[r].row
           off == {t} \union CascadeOf(t)
<1>1. /\ pc[r] = "locked" /\ call[r].service = "deactivate_tag"
      /\ CascadeOf(t) \subseteq holding[r] /\ UNCHANGED <<write_enabled, callVars>>
  BY DEF deactivate_tag, At
<1>2. CASE Refuse(r)
  BY <1>1, <1>2, RefuseKeeps
<1>3. CASE /\ rows' = [x \in Rows |-> IF x \in off THEN WithActive(rows[x], FALSE) ELSE rows[x]]
           /\ Finish(r) /\ UNCHANGED patched
  <2>1. /\ Shape /\ Table /\ Placed(r) /\ Asked(r) /\ t \in Rows
        /\ t \in holding[r] /\ off \subseteq holding[r] /\ holding[r] \subseteq Rows
        /\ \A x \in holding[r] : rows[x] # Missing
    BY <1>1 DEF Inv, Shape, Asked, Placed
  <2>2. t \in Tags
    BY <1>1, <2>1, ServicesByKind DEF Asked
  <2>3. ASSUME NEW x \in off
        PROVE  /\ x \in Rows /\ rows[x] \in Content
               /\ rows'[x] \in Content /\ ~rows'[x].active
               /\ rows'[x].link = rows[x].link
    <3>1. x \in Rows /\ rows[x] \in Content
      BY <2>1 DEF Table
    <3>2. rows'[x] = WithActive(rows[x], FALSE)
      BY <1>3, <3>1
    <3>3. FALSE \in BOOLEAN
      OBVIOUS
    <3> QED BY <3>1, <3>2, <3>3, ContentIsNotMissing
  <2>4. \A x \in Rows \ off : rows'[x] = rows[x]
    BY <1>3
  <2>0. off \subseteq Rows /\ t \in off
    BY <2>1
  <2> HIDE DEF off
  <2>6. \A x \in Rows : /\ rows'[x].link = rows[x].link
                        /\ rows[x] = Missing <=> rows'[x] = Missing
    <3> SUFFICES ASSUME NEW x \in Rows
                 PROVE  rows'[x].link = rows[x].link /\ (rows[x] = Missing <=> rows'[x] = Missing)
      OBVIOUS
    <3>1. CASE x \in off
      <4>1. Missing \notin Content
        BY ContentIsNotMissing
      <4>2. rows[x] \in Content /\ rows'[x] \in Content /\ rows'[x].link = rows[x].link
        BY <2>3, <3>1
      <4> QED BY <4>1, <4>2
    <3>2. CASE x \notin off
      BY <2>4, <3>2
    <3> QED BY <3>1, <3>2
  <2>5. Written(r)
    <3>1. rows' \in [Rows -> Content \union {Missing}]
      <4>1. rows' = [x \in Rows |-> rows'[x]]
        BY <1>3
      <4>2. \A x \in Rows : rows'[x] \in Content \union {Missing}
        BY <2>1, <2>3, <2>4 DEF Table
      <4> QED BY <4>1, <4>2
    <3>2. \A x \in off : \A q \in Requests \ {r} : x \notin holding[q]
      BY <2>1, LockedIsFree DEF Free, Locks
    <3>3. \A x \in Rows : rows[x] = Missing <=> rows'[x] = Missing
      BY <2>6
    <3> QED BY <2>4, <3>1, <3>2, <3>3 DEF Written
  <2>7. Table'
    <3>1. rows' \in [Rows -> Content \union {Missing}]
      BY <2>5 DEF Written
    <3>2. \A x \in Rows : rows[x] # Missing =>
            rows[x].link \in Targets(x) /\ rows[x].link \in Rows \union {NoRow}
      <4>1. Table
        BY <2>1
      <4> QED BY <4>1, ContentIsNotMissing DEF Table, Linked
    <3> QED BY <2>1, <2>6, <3>1, <3>2 DEF Table, Linked
  <2>8. ScopesContained'
    BY <2>6 DEF Inv, ScopesContained
  <2>9. AliasFollowsTag'
    <3> SUFFICES ASSUME NEW a \in Aliases, rows'[a].active
                 PROVE  rows'[rows'[a].link].active \/ rows'[a].link \in patched'
      BY DEF AliasFollowsTag
    <3>1. a \in Rows /\ a \notin off /\ rows'[a] = rows[a] /\ rows[a].active
      BY <2>3, <2>4, KindsApart
    <3>2. rows[a].link # t
      BY <3>1 DEF CascadeOf, off
    <3>3. rows[a].link \in Tags /\ rows[a].link \in Rows
      BY <2>1, <3>1, KindsApart DEF Table, Linked, Targets, Missing
    <3>4. rows[a].link \notin off
      BY <3>2, <3>3, KindsApart DEF CascadeOf, off
    <3> QED BY <1>3, <2>4, <3>1, <3>3, <3>4 DEF Inv, AliasFollowsTag
  <2> QED BY <1>1, <1>3, <2>5, <2>7, <2>8, <2>9, FinishKeeps
<1> QED BY <1>2, <1>3 DEF deactivate_tag

-----------------------------------------------------------------------------
(* Every step keeps the invariant.                                         *)
LEMMA InvInit == Init => Inv
<1> SUFFICES ASSUME Init PROVE Inv
  OBVIOUS
<1>1. Shape
  <2>1. NoCall \in CallSet
    BY DEF NoCall, CallSet
  <2>2. /\ pc \in [Requests -> Points] /\ call \in [Requests -> CallSet]
        /\ copy \in [Requests -> Content \union {Missing}]
        /\ holding \in [Requests -> SUBSET Rows]
        /\ chosen \in [Requests -> Rows \union {NoRow}]
    BY <2>1 DEF Init, Points
  <2>3. attempt \in [Requests -> 0..MaxAttempts - 1]
    BY DEF Init, MaxAttempts
  <2>4. calls \in 0..MaxCalls
    BY ScopesAssumption DEF Init
  <2>5. overlapped \in BOOLEAN /\ write_enabled \in BOOLEAN
    BY DEF Init
  <2> QED BY <2>2, <2>3, <2>4, <2>5 DEF Shape
<1>2. /\ rows \in [Rows -> Content \union {Missing}]
      /\ \A x \in Rows : rows[x] # Missing => rows[x].link \in Targets(x)
      /\ \A x \in Rows : rows[x].link # NoRow =>
           Fits(x, rows[x].link) /\ rows[rows[x].link] # Missing
      /\ \A a \in Aliases : rows[a].active => rows[rows[a].link].active
  BY SeedsAssumption DEF Init
<1>3. Table /\ ScopesContained /\ AliasFollowsTag
  BY <1>2 DEF Table, Linked, ScopesContained, AliasFollowsTag
<1>4. Exclusive /\ \A r \in Requests : Asked(r) /\ Placed(r)
  BY DEF Init, Exclusive, Asked, Placed, Locks, Writing
<1> QED BY <1>1, <1>3, <1>4 DEF Inv

LEMMA InvStep == Inv /\ [Next]_vars => Inv'
<1> SUFFICES ASSUME Inv, [Next]_vars PROVE Inv'
  OBVIOUS
<1>1. ASSUME NEW r \in Requests, CallService(r) PROVE Inv'
  BY <1>1, CallServiceKeeps
<1>2. ASSUME NEW r \in Requests, Proceed(r) PROVE Inv'
  BY <1>2, CheckRelationsKeeps, ChooseTagKeeps, LockCanonicalTagKeeps, LockOwnTagKeeps,
     LockChosenTagKeeps, LockNextAliasKeeps, LockVocabularyKeeps, LockAliasKeeps,
     LockOwnVocabularyKeeps, BeginWriteKeeps, EnterSlugKeeps, RefuseKeeps, InsertKeeps, SaveKeeps, DeactivateRowKeeps, ReactivateKeeps, DeactivateTagKeeps
  DEF Proceed, DetectDeadlock
<1>3. ASSUME NEW r \in Requests, Die(r) PROVE Inv'
  BY <1>3, RefuseKeeps DEF Die
<1>4. CASE UNCHANGED vars
  <2>1. /\ UNCHANGED <<rows, patched, write_enabled, pc, call, copy, holding, chosen, attempt>>
        /\ UNCHANGED <<calls, overlapped>>
    BY <1>4 DEF vars, tableVars, localVars, callVars
  <2>2. Shape' /\ Table' /\ ScopesContained' /\ AliasFollowsTag' /\ Exclusive'
    BY <2>1 DEF Inv, Shape, Table, Linked, ScopesContained, AliasFollowsTag, Exclusive,
                Locks, Writing
  <2>3. \A r \in Requests : Asked(r)' /\ Placed(r)'
    BY <2>1 DEF Inv, Asked, Placed, Linked, Writable, Edited, Writing
  <2> QED BY <2>2, <2>3 DEF Inv
<1> QED BY <1>1, <1>2, <1>3, <1>4 DEF Next

LEMMA AlwaysInv == Spec => []Inv
BY InvInit, InvStep, PTL DEF Spec

(* No row ever refers to a row outside its scope, whatever stale instance  *)
(* is saved over what it was re-pointed to.                                *)
THEOREM ScopesHold == Spec => []ScopesContained
<1>1. Inv => ScopesContained
  BY DEF Inv
<1> QED BY <1>1, AlwaysInv, PTL

(* Active aliases have active tags, those that update_tag saved excepted,  *)
(* in every interleaving of any number of calls.                           *)
THEOREM AliasesFollow == Spec => []AliasFollowsTag
<1>1. Inv => AliasFollowsTag
  BY DEF Inv
<1> QED BY <1>1, AlwaysInv, PTL

(* What a reactivation checked still holds when it flips the row.          *)
THEOREM ChecksHold == Spec => []CheckedUnderLock
<1>1. Inv => CheckedUnderLock
  BY DEF Inv, Placed, CheckedUnderLock
<1> QED BY <1>1, AlwaysInv, PTL

-----------------------------------------------------------------------------
(* Requests that wait for one another, and none of them for a slug.        *)
Plain(S) ==
  /\ S \subseteq Requests /\ \A r \in S : \E q \in S : RowWait(r, q) \/ KeyWait(r, q)

(* At these points a request waits for slugs only.                         *)
LEMMA EnteringWaits ==
  ASSUME NEW S, Plain(S), NEW q \in S
  PROVE  pc[q] \notin {"ready", "saving"}
BY DEF Plain, RowWait, KeyWait, Wanted

LEMMA LocksAreRows ==
  ASSUME Inv, NEW q \in Requests
  PROVE  Locks(q) \subseteq Rows
BY DEF Inv, Shape, Asked, Locks, Writing

(* Whoever has locked a vocabulary waits for a slug or for nothing: it is  *)
(* the last lock of a reactivation, or written by a service of its own.    *)
LEMMA VocabulariesAreLast ==
  ASSUME Inv, NEW S, Plain(S), NEW q \in S
  PROVE  Locks(q) \intersect Vocabularies = {}
<1> SUFFICES ASSUME NEW v \in Locks(q), v \in Vocabularies PROVE FALSE
  OBVIOUS
<1>1. q \in Requests /\ Placed(q) /\ Asked(q) /\ Shape
  BY DEF Inv, Plain
<1>2. pc[q] \notin {"ready", "saving"}
  BY EnteringWaits
<1>3. v \notin holding[q]
  BY <1>1, <1>2, KindsApart DEF Placed
<1>4. pc[q] = "saved" /\ call[q].row \in Vocabularies
  BY <1>2, <1>3 DEF Locks, Writing
<1>5. call[q].service \in Creates \union Updates
  BY <1>1, <1>4 DEF Placed, Writing
<1>6. Edited(q).link = NoRow
  BY <1>1, <1>4, <1>5, EditedIsTyped, KindsApart DEF Linked, Targets
<1>7. Wanted(q) = {}
  BY <1>4 DEF Wanted
<1> QED BY <1>6, <1>7 DEF Plain, RowWait, KeyWait

(* So nobody waits at the commit: the tag of an alias is locked already,   *)
(* and whoever has locked the vocabulary of a tag goes on.                 *)
LEMMA NobodyWaitsAtCommit ==
  ASSUME Inv, NEW S, Plain(S), NEW q \in S
  PROVE  pc[q] # "saved"
<1> SUFFICES ASSUME pc[q] = "saved" PROVE FALSE
  OBVIOUS
<1> DEFINE link == Edited(q).link
<1>1. q \in Requests /\ Placed(q) /\ Asked(q) /\ Shape /\ Writing(q)
  BY DEF Inv, Plain, Writing
<1>2. PICK p \in S : KeyWait(q, p)
  BY DEF Plain, RowWait, Wanted
<1>3. p # q /\ link # NoRow /\ link \in holding[p] /\ p \in Requests
  BY <1>2 DEF KeyWait, Plain
<1>4. call[q].service \in Creates \union Updates
  BY <1>1 DEF Placed
<1>5. link \in Targets(call[q].row) /\ call[q].row \in Rows
  BY <1>1, <1>4, EditedIsTyped DEF Linked, Asked
<1>6. CASE call[q].row \in Tags
  <2>1. link \in Vocabularies
    BY <1>3, <1>5, <1>6, KindsApart DEF Targets
  <2>2. link \in Locks(p)
    BY <1>3 DEF Locks
  <2> QED BY <2>1, <2>2, VocabulariesAreLast
<1>7. CASE call[q].row \in Aliases
  <2>1. call[q].service \in {"create_tag_alias", "update_tag_alias"}
    BY <1>1, <1>4, <1>7, ServicesByKind DEF Asked, Creates, Updates
  <2>2. link \in holding[q]
    BY <1>1, <2>1 DEF Placed
  <2>3. link \in Locks(q) /\ link \in Locks(p)
    BY <1>3, <2>2 DEF Locks
  <2> QED BY <1>1, <1>3, <2>3 DEF Inv, Exclusive
<1>8. CASE call[q].row \in Vocabularies
  BY <1>3, <1>5, <1>8, KindsApart DEF Targets
<1> QED BY <1>5, <1>6, <1>7, <1>8, KindsApart

(* The aliases of one tag are locked together by its cascade only, and     *)
(* otherwise last.                                                         *)
LEMMA AliasesAreLockedByCascades ==
  ASSUME Inv, NEW S, Plain(S), NEW q \in S, NEW a \in Locks(q) \intersect Aliases
  PROVE  /\ pc[q] = "locked" /\ call[q].service = "deactivate_tag"
         /\ rows[a].link = call[q].row
<1>1. q \in Requests /\ Placed(q)
  BY DEF Inv, Plain
<1>2. pc[q] \notin {"ready", "saving", "saved"}
  BY EnteringWaits, NobodyWaitsAtCommit
<1>3. a \in holding[q]
  BY <1>2 DEF Locks, Writing
<1>4. pc[q] = "locked" /\ call[q].service = "deactivate_tag"
  BY <1>1, <1>2, <1>3, KindsApart DEF Placed
<1> QED BY <1>1, <1>3, <1>4 DEF Placed

LEMMA CascadesDoNotWait ==
  ASSUME Inv, NEW S, Plain(S), NEW q \in S
  PROVE  ~(pc[q] = "locked" /\ call[q].service = "deactivate_tag")
<1> SUFFICES ASSUME pc[q] = "locked", call[q].service = "deactivate_tag" PROVE FALSE
  OBVIOUS
<1>1. q \in Requests /\ Wanted(q) = CascadeOf(call[q].row) \ holding[q]
  BY DEF Plain, Wanted
<1>2. PICK p \in S : RowWait(q, p)
  BY DEF Plain, KeyWait
<1>3. PICK a \in CascadeOf(call[q].row) : a \in Locks(p)
  BY <1>1, <1>2 DEF RowWait
<1>4. p # q /\ p \in Requests /\ a \in Aliases /\ rows[a].link = call[q].row
  BY <1>2, <1>3 DEF RowWait, Plain, CascadeOf
<1>5. /\ pc[p] = "locked" /\ call[p].service = "deactivate_tag"
      /\ rows[a].link = call[p].row
  BY <1>3, <1>4, AliasesAreLockedByCascades
<1>6. call[q].row \in holding[q] /\ call[p].row \in holding[p]
  BY <1>1, <1>4, <1>5 DEF Inv, Placed
<1> QED BY <1>1, <1>4, <1>5, <1>6 DEF Inv, Exclusive, Locks

(* Whoever has locked a tag waits for an alias or a vocabulary, or for     *)
(* nobody.                                                                 *)
LEMMA TagsAreFirst ==
  ASSUME Inv, NEW S, Plain(S), NEW q \in S
  PROVE  Locks(q) \intersect Tags = {}
<1> SUFFICES ASSUME NEW t \in Locks(q), t \in Tags PROVE FALSE
  OBVIOUS
<1>1. q \in Requests /\ Placed(q) /\ Asked(q) /\ Shape /\ Table
  BY DEF Inv, Plain
<1>2. pc[q] \notin {"ready", "saving", "saved"}
  BY EnteringWaits, NobodyWaitsAtCommit
<1>3. holding[q] # {}
  BY <1>2 DEF Locks, Writing
<1>4. pc[q] = "locked"
  BY <1>1, <1>2, <1>3 DEF Placed, Shape, Points
<1>5. PICK p \in S : RowWait(q, p)
  BY <1>4 DEF Plain, KeyWait
<1>6. PICK x \in Wanted(q) : x \in Locks(p)
  BY <1>5 DEF RowWait
<1>7. call[q].service # "deactivate_tag"
  BY <1>4, CascadesDoNotWait
<1>8. CASE call[q].service = "reactivate_tag"
  <2>1. x = rows[call[q].row].link /\ x # NoRow
    BY <1>4, <1>6, <1>8 DEF Wanted
  <2>2. call[q].row \in Tags /\ rows[call[q].row] # Missing
    BY <1>1, <1>4, <1>8, ServicesByKind DEF Asked, Creates
  <2>3. x \in Vocabularies
    BY <1>1, <2>1, <2>2, KindsApart DEF Table, Linked, Targets
  <2> QED BY <1>6, <2>3, VocabulariesAreLast
<1>9. CASE call[q].service \in {"create_tag_alias", "update_tag_alias", "reactivate_tag_alias"}
  <2>1. x = call[q].row
    BY <1>4, <1>6, <1>9 DEF Wanted
  <2>2. x \in Aliases
    BY <1>1, <1>4, <1>9, <2>1, ServicesByKind DEF Asked
  <2> QED BY <1>6, <2>2, AliasesAreLockedByCascades, CascadesDoNotWait
<1> QED BY <1>1, <1>4, <1>7, <1>8, <1>9 DEF Placed

LEMMA NoPlainCircle == ASSUME Inv, NEW S, Plain(S) PROVE S = {}
<1> SUFFICES ASSUME NEW r \in S PROVE FALSE
  OBVIOUS
<1>1. PICK q \in S : RowWait(r, q)
  BY NobodyWaitsAtCommit DEF Plain, KeyWait
<1>2. PICK x \in Locks(q) : TRUE
  BY <1>1 DEF RowWait
<1>3. x \in Rows
  BY LocksAreRows DEF Plain
<1>4. x \notin Aliases
  BY AliasesAreLockedByCascades, CascadesDoNotWait
<1> QED BY <1>3, <1>4, VocabulariesAreLast, TagsAreFirst, KindsApart

(* A circle of waiting requests has one that waits for the uncommitted     *)
(* slug of another: locks of rows, taken tag first, never close one.       *)
THEOREM DeadlocksHold == Spec => []DeadlocksNeedSlugs
<1>1. Inv => DeadlocksNeedSlugs
  <2> SUFFICES ASSUME Inv, NEW S \in SUBSET Requests, Circle(S),
                      \A r, q \in S : ~SlugWait(r, q)
               PROVE  FALSE
    BY DEF DeadlocksNeedSlugs
  <2>1. S # {} /\ \A r \in S : \E q \in S : WaitsFor(r, q)
    BY DEF Circle, Stuck
  <2>2. Plain(S)
    BY <2>1 DEF Plain, WaitsFor
  <2> QED BY <2>1, <2>2, NoPlainCircle
<1> QED BY <1>1, AlwaysInv, PTL

-----------------------------------------------------------------------------
(* The steps once more, by what they do to the table and its observers.    *)

(* Nothing is written, and whoever is still at work works on as before.    *)
Quiet ==
  /\ UNCHANGED tableVars /\ overlapped' = overlapped /\ write_enabled' = write_enabled
  /\ \A q \in Requests : pc'[q] # "idle" =>
       pc[q] # "idle" /\ call'[q] = call[q] /\ copy'[q] = copy[q]

(* One row is written, and its event tells all if the instance was fresh.  *)
Saves(r) ==
  /\ pc[r] # "idle"
  /\ \E row \in Content, fields \in SUBSET Fields :
       /\ Commit(r, call[r].row, row, fields)
       /\ fields = Fields \/ rows[call[r].row] # Missing
       /\ copy[r] = rows[call[r].row] => Merge(rows[call[r].row], fields, row) = row
  /\ patched' \subseteq patched \union Tags
  /\ \/ deactivations' = deactivations
     \/ /\ call[r].row \notin Tags
        /\ deactivations' = [deactivations EXCEPT ![call[r].row] = @ + 1]

(* deactivate_tag writes.                                                  *)
Cascades(r) ==
  /\ pc[r] = "locked" /\ call[r].service = "deactivate_tag"
  /\ \A a \in CascadeOf(call[r].row) : Writable(a)
  /\ rows' = [x \in Rows |-> IF x \in {call[r].row} \union CascadeOf(call[r].row)
                             THEN WithActive(rows[x], FALSE) ELSE rows[x]]
  /\ mirror' = [x \in Rows |-> IF x \in {call[r].row} \union CascadeOf(call[r].row)
                               THEN WithActive(mirror[x], FALSE) ELSE mirror[x]]
  /\ deactivations' = [x \in Rows |-> IF x \in {call[r].row} \union CascadeOf(call[r].row)
                                      THEN deactivations[x] + 1 ELSE deactivations[x]]
  /\ Finish(r) /\ patched' = patched /\ UNCHANGED <<write_enabled, callVars>>

LEMMA RefuseIsQuiet ==
  ASSUME Inv, NEW r \in Requests, Refuse(r), UNCHANGED <<write_enabled, callVars>>
  PROVE  Quiet
BY DEF Inv, Shape, Refuse, Finish, Quiet, callVars

LEMMA GotoIsQuiet ==
  ASSUME Inv, NEW r \in Requests, NEW point, pc[r] # "idle", pc' = [pc EXCEPT ![r] = point],
         UNCHANGED <<tableVars, write_enabled, call, copy, callVars>>
  PROVE  Quiet
BY DEF Inv, Shape, Quiet, callVars

LEMMA LockTagIsQuiet ==
  ASSUME Inv, NEW r \in Requests, NEW t, NEW goes_on, LockTag(r, t, goes_on), pc[r] # "idle"
  PROVE  Quiet
BY RefuseIsQuiet, GotoIsQuiet DEF LockTag, Goto, localVars

(* What an instance becomes is what its event makes of the row it was      *)
(* loaded from.                                                            *)
LEMMA MergeEdited ==
  ASSUME Shape, NEW r \in Requests, copy[r] \in Content, call[r].data \in Content
  PROVE  Merge(copy[r], Changed(r), Edited(r)) = Edited(r)
<1>1. call[r].sent \subseteq Fields
  BY DEF Shape, CallSet
<1> DEFINE m == Merge(copy[r], Changed(r), Edited(r))
<1>2. m.active = Edited(r).active
  BY DEF Merge, Changed, Edited
<1>3. m.slug = Edited(r).slug
  BY DEF Merge, Changed, Edited
<1>4. m.link = Edited(r).link
  BY DEF Merge, Changed, Edited
<1>5. /\ m = [active |-> m.active, slug |-> m.slug, link |-> m.link]
      /\ Edited(r) = [active |-> Edited(r).active, slug |-> Edited(r).slug,
                      link |-> Edited(r).link]
  BY DEF Merge, Edited
<1> QED BY <1>2, <1>3, <1>4, <1>5

LEMMA MergeAll ==
  ASSUME NEW old, NEW row \in Content
  PROVE  Merge(old, Fields, row) = row
BY DEF Merge, Fields, Content

LEMMA MergeActive ==
  ASSUME NEW row \in Content, NEW b \in BOOLEAN
  PROVE  Merge(row, {"active"}, WithActive(row, b)) = WithActive(row, b)
BY DEF Merge, WithActive, Content

LEMMA InsertIsAWrite ==
  ASSUME Inv, NEW r \in Requests, pc[r] # "idle", call[r].service \in Creates, InsertRow(r)
  PROVE  Saves(r)
<1>1. Edited(r) \in Content
  BY EditedIsTyped DEF Inv
<1>2. /\ Commit(r, call[r].row, Edited(r), Fields)
      /\ deactivations' = deactivations /\ patched' = patched
  BY DEF InsertRow
<1>3. Merge(rows[call[r].row], Fields, Edited(r)) = Edited(r)
  BY <1>1, MergeAll
<1> QED BY <1>1, <1>2, <1>3 DEF Saves

LEMMA SaveIsAWrite ==
  ASSUME Inv, NEW r \in Requests, pc[r] # "idle", call[r].service \in Updates, SaveInstance(r)
  PROVE  Saves(r)
<1> DEFINE x == call[r].row
<1>1. Edited(r) \in Content
  BY EditedIsTyped DEF Inv
<1>2. /\ Commit(r, x, Edited(r), Changed(r))
      /\ deactivations' = deactivations
      /\ patched' = IF x \in Tags THEN patched \union {x} ELSE patched
  BY DEF SaveInstance
<1>3. patched' \subseteq patched \union Tags
  BY <1>2
<1>4. Changed(r) \in SUBSET Fields /\ copy[r] \in Content /\ call[r].data \in Content
  BY DEF Inv, Shape, CallSet, Asked, Changed
<1>5. rows[x] # Missing
  BY DEF Inv, Asked, Creates, Updates
<1>6. Merge(copy[r], Changed(r), Edited(r)) = Edited(r)
  BY <1>4, MergeEdited DEF Inv
<1> QED BY <1>1, <1>2, <1>3, <1>4, <1>5, <1>6 DEF Saves

LEMMA FlipIsTyped ==
  ASSUME Inv, NEW r \in Requests, pc[r] # "idle", call[r].service \notin Creates,
         NEW b \in BOOLEAN
  PROVE  LET x == call[r].row
         IN /\ rows[x] # Missing /\ WithActive(rows[x], b) \in Content
            /\ {"active"} \in SUBSET Fields
            /\ Merge(rows[x], {"active"}, WithActive(rows[x], b)) = WithActive(rows[x], b)
<1>1. call[r].row \in Rows /\ rows[call[r].row] # Missing
  BY DEF Inv, Asked
<1>2. rows[call[r].row] \in Content
  BY <1>1 DEF Inv, Table
<1> QED BY <1>1, <1>2, ContentIsNotMissing, MergeActive DEF Fields

LEMMA DeactivateIsAWrite ==
  ASSUME Inv, NEW r \in Requests, pc[r] # "idle",
         call[r].service \in {"deactivate_vocabulary", "deactivate_tag_alias"}, DeactivateRow(r)
  PROVE  Quiet \/ Saves(r)
<1> DEFINE x == call[r].row
<1>1. CASE ~copy[r].active
  BY <1>1, RefuseIsQuiet DEF DeactivateRow
<1>2. CASE copy[r].active
  <2>1. /\ Commit(r, x, WithActive(rows[x], FALSE), {"active"})
        /\ deactivations' = [deactivations EXCEPT ![x] = @ + 1]
        /\ patched' = patched
    BY <1>2 DEF DeactivateRow
  <2>2. x \notin Tags
    BY ServicesByKind DEF Inv, Asked
  <2>3. /\ rows[x] # Missing /\ WithActive(rows[x], FALSE) \in Content
        /\ {"active"} \in SUBSET Fields
        /\ Merge(rows[x], {"active"}, WithActive(rows[x], FALSE)) = WithActive(rows[x], FALSE)
    BY FlipIsTyped DEF Creates
  <2> QED BY <2>1, <2>2, <2>3 DEF Saves
<1> QED BY <1>1, <1>2 DEF Inv, Shape, Content, Missing

LEMMA ReactivateIsAWrite ==
  ASSUME Inv, NEW r \in Requests, pc[r] # "idle",
         call[r].service \in Reactivations, Reactivate(r)
  PROVE  Quiet \/ Saves(r)
<1> DEFINE x == call[r].row
<1>1. CASE Duplicate(x, NewRow(r))
  BY <1>1, RefuseIsQuiet DEF Reactivate
<1>2. CASE ~Duplicate(x, NewRow(r))
  <2>1. /\ Commit(r, x, WithActive(rows[x], TRUE), {"active"})
        /\ deactivations' = deactivations /\ patched' = patched
    BY <1>2 DEF Reactivate, NewRow
  <2>2. /\ rows[x] # Missing /\ WithActive(rows[x], TRUE) \in Content
        /\ {"active"} \in SUBSET Fields
        /\ Merge(rows[x], {"active"}, WithActive(rows[x], TRUE)) = WithActive(rows[x], TRUE)
    BY FlipIsTyped DEF Creates, Reactivations
  <2> QED BY <2>1, <2>2 DEF Saves
<1> QED BY <1>1, <1>2

LEMMA CascadeIsAWrite ==
  ASSUME Inv, NEW r \in Requests, deactivate_tag(r)
  PROVE  Quiet \/ Cascades(r)
<1>1. CASE \E a \in CascadeOf(call[r].row) : ~Writable(a)
  <2>1. Refuse(r) /\ UNCHANGED <<write_enabled, callVars>>
    BY <1>1 DEF deactivate_tag
  <2> QED BY <2>1, RefuseIsQuiet
<1>2. CASE ~ \E a \in CascadeOf(call[r].row) : ~Writable(a)
  BY <1>2 DEF deactivate_tag, Cascades, At
<1> QED BY <1>1, <1>2

(* The steps that read and lock.                                           *)
LEMMA ReadsAreQuiet ==
  ASSUME Inv, NEW r \in Requests,
         \/ CheckRelations(r) \/ ChooseTag(r) \/ LockCanonicalTag(r) \/ LockOwnTag(r)
         \/ LockChosenTag(r) \/ LockNextAlias(r) \/ LockVocabulary(r) \/ LockAlias(r)
         \/ LockOwnVocabulary(r) \/ BeginWrite(r) \/ EnterSlug(r)
         \/ DetectDeadlock(r) \/ Die(r)
  PROVE  Quiet
<1>1. CASE CheckRelations(r)
  <2>1. pc[r] # "idle" /\ UNCHANGED <<write_enabled, callVars>>
        /\ (Goto(r, "checked") \/ Refuse(r))
    BY <1>1 DEF CheckRelations
  <2> QED BY <2>1, GotoIsQuiet, RefuseIsQuiet DEF Goto, localVars
<1>2. CASE ChooseTag(r)
  BY <1>2, GotoIsQuiet DEF ChooseTag, At
<1>3. CASE LockCanonicalTag(r)
  BY <1>3, LockTagIsQuiet DEF LockCanonicalTag, At
<1>4. CASE LockOwnTag(r)
  BY <1>4, LockTagIsQuiet DEF LockOwnTag
<1>5. CASE LockChosenTag(r)
  BY <1>5, LockTagIsQuiet DEF LockChosenTag
<1>6. CASE LockNextAlias(r)
  BY <1>6 DEF LockNextAlias, At, Quiet, localVars, callVars
<1>7. CASE LockVocabulary(r)
  <2>1. pc[r] # "idle" /\ UNCHANGED <<write_enabled, callVars>>
        /\ (Goto(r, "ready") \/ Refuse(r))
    BY <1>7 DEF LockVocabulary, At
  <2> QED BY <2>1, GotoIsQuiet, RefuseIsQuiet DEF Goto, localVars
<1>8. CASE LockAlias(r)
  <2>1. /\ pc[r] # "idle" /\ UNCHANGED <<write_enabled, callVars>>
        /\ \/ Goto(r, "ready") \/ Refuse(r)
           \/ pc' = [pc EXCEPT ![r] = "called"] /\ UNCHANGED <<tableVars, call, copy>>
    BY <1>8 DEF LockAlias, At
  <2> QED BY <2>1, GotoIsQuiet, RefuseIsQuiet DEF Goto, localVars
<1>9. CASE LockOwnVocabulary(r)
  <2>1. pc[r] # "idle" /\ UNCHANGED <<write_enabled, callVars>>
        /\ (Goto(r, "ready") \/ Refuse(r))
    BY <1>9 DEF LockOwnVocabulary, At
  <2> QED BY <2>1, GotoIsQuiet, RefuseIsQuiet DEF Goto, localVars
<1>10. CASE BeginWrite(r)
  BY <1>10, GotoIsQuiet DEF BeginWrite, Goto, localVars
<1>11. CASE EnterSlug(r)
  <2>1. pc[r] # "idle" /\ UNCHANGED <<write_enabled, callVars>>
        /\ (Goto(r, "saved") \/ Refuse(r))
    BY <1>11 DEF EnterSlug
  <2> QED BY <2>1, GotoIsQuiet, RefuseIsQuiet DEF Goto, localVars
<1>12. CASE DetectDeadlock(r) \/ Die(r)
  BY <1>12, RefuseIsQuiet DEF DetectDeadlock, Die
<1> QED BY <1>1, <1>2, <1>3, <1>4, <1>5, <1>6, <1>7, <1>8, <1>9, <1>10, <1>11, <1>12

LEMMA StepIsOneOf ==
  ASSUME Inv, NEW r \in Requests, CallService(r) \/ Proceed(r) \/ Die(r)
  PROVE  CallService(r) \/ Quiet \/ Saves(r) \/ Cascades(r)
<1>1. CASE create_vocabulary(r) \/ create_tag(r) \/ create_tag_alias(r)
  BY <1>1, InsertIsAWrite DEF create_vocabulary, create_tag, create_tag_alias, At, Creates
<1>2. CASE update_vocabulary(r) \/ update_tag(r) \/ update_tag_alias(r)
  BY <1>2, SaveIsAWrite DEF update_vocabulary, update_tag, update_tag_alias, At, Updates
<1>3. CASE deactivate_vocabulary(r) \/ deactivate_tag_alias(r)
  BY <1>3, DeactivateIsAWrite DEF deactivate_vocabulary, deactivate_tag_alias, At
<1>4. CASE reactivate_vocabulary(r) \/ reactivate_tag(r) \/ reactivate_tag_alias(r)
  BY <1>4, ReactivateIsAWrite
  DEF reactivate_vocabulary, reactivate_tag, reactivate_tag_alias, At, Reactivations
<1>5. CASE deactivate_tag(r)
  BY <1>5, CascadeIsAWrite
<1>6. CASE \/ CheckRelations(r) \/ ChooseTag(r) \/ LockCanonicalTag(r) \/ LockOwnTag(r)
           \/ LockChosenTag(r) \/ LockNextAlias(r) \/ LockVocabulary(r) \/ LockAlias(r)
           \/ LockOwnVocabulary(r) \/ BeginWrite(r) \/ EnterSlug(r)
           \/ DetectDeadlock(r) \/ Die(r)
  BY <1>6, ReadsAreQuiet
<1> QED BY <1>1, <1>2, <1>3, <1>4, <1>5, <1>6 DEF Proceed

-----------------------------------------------------------------------------
(* What the consumers see: the mirror has the same rows as the table, and  *)
(* is the table as long as calls do not overlap; then the one request at   *)
(* work has the current row in memory.                                     *)
Observed ==
  /\ mirror \in [Rows -> Content \union {Missing}]
  /\ \A x \in Rows : mirror[x] = Missing <=> rows[x] = Missing
  /\ deactivations \in [Rows -> Nat]
  /\ patched \subseteq Tags

Told ==
  ~overlapped =>
    /\ mirror = rows
    /\ \A r \in Requests : pc[r] # "idle" =>
         /\ copy[r] = rows[call[r].row]
         /\ \A q \in Requests : pc[q] # "idle" => q = r

LEMMA SavesAreObserved ==
  ASSUME Inv, Observed, Told, NEW r \in Requests, Saves(r)
  PROVE  Observed' /\ Told'
<1>1. PICK row \in Content, fields \in SUBSET Fields :
        /\ Commit(r, call[r].row, row, fields)
        /\ fields = Fields \/ rows[call[r].row] # Missing
        /\ copy[r] = rows[call[r].row] => Merge(rows[call[r].row], fields, row) = row
  BY DEF Saves
<1> DEFINE x == call[r].row
           told == Merge(mirror[x], fields, row)
<1>2. /\ x \in Rows /\ pc[r] # "idle"
      /\ rows' = [rows EXCEPT ![x] = row] /\ mirror' = [mirror EXCEPT ![x] = told]
      /\ Finish(r) /\ overlapped' = overlapped
  BY <1>1 DEF Inv, Asked, Saves, Commit, callVars
<1>3. told \in Content
  <2>1. CASE fields = Fields
    BY <2>1, MergeAll
  <2>2. CASE rows[x] # Missing
    <3>1. mirror[x] \in Content
      BY <1>2, <2>2 DEF Observed
    <3> QED BY <3>1 DEF Merge, Content
  <2> QED BY <1>1, <2>1, <2>2
<1>4. deactivations' \in [Rows -> Nat]
  BY DEF Saves, Observed
<1>5. Observed'
  BY <1>2, <1>3, <1>4, ContentIsNotMissing DEF Inv, Table, Observed, Saves
<1>6. Told'
  <2> SUFFICES ASSUME ~overlapped' PROVE Told'
    BY DEF Told
  <2>1. mirror = rows /\ copy[r] = rows[x] /\ \A q \in Requests : pc[q] # "idle" => q = r
    BY <1>2 DEF Told
  <2>2. mirror' = rows'
    BY <1>1, <1>2, <2>1
  <2>3. \A q \in Requests : pc'[q] = "idle"
    BY <1>2, <2>1 DEF Inv, Shape, Finish
  <2> QED BY <2>2, <2>3 DEF Told
<1> QED BY <1>5, <1>6

LEMMA CascadesAreObserved ==
  ASSUME Inv, Observed, Told, NEW r \in Requests, Cascades(r)
  PROVE  Observed' /\ Told'
<1> DEFINE off == {call[r].row} \union CascadeOf(call[r].row)
<1>1. /\ rows' = [x \in Rows |-> IF x \in off THEN WithActive(rows[x], FALSE) ELSE rows[x]]
      /\ mirror' = [x \in Rows |-> IF x \in off THEN WithActive(mirror[x], FALSE)
                                   ELSE mirror[x]]
      /\ deactivations' = [x \in Rows |-> IF x \in off THEN deactivations[x] + 1
                                          ELSE deactivations[x]]
      /\ Finish(r) /\ patched' = patched /\ overlapped' = overlapped
      /\ pc[r] # "idle" /\ call[r].service = "deactivate_tag"
  BY DEF Cascades, callVars
<1>2. \A x \in off : rows[x] # Missing
  <2>1. rows[call[r].row] # Missing
    BY <1>1 DEF Inv, Asked, Creates
  <2>2. \A a \in CascadeOf(call[r].row) : rows[a] # Missing
    BY DEF CascadeOf, Missing
  <2> QED BY <2>1, <2>2
<1> HIDE DEF off
<1>3. \A x \in Rows : mirror'[x] \in Content \union {Missing}
                      /\ (mirror'[x] = Missing <=> mirror[x] = Missing)
                      /\ (rows'[x] = Missing <=> rows[x] = Missing)
  <2> SUFFICES ASSUME NEW x \in Rows
               PROVE  /\ mirror'[x] \in Content \union {Missing}
                      /\ mirror'[x] = Missing <=> mirror[x] = Missing
                      /\ rows'[x] = Missing <=> rows[x] = Missing
    OBVIOUS
  <2>1. CASE x \in off
    <3>1. rows[x] \in Content /\ mirror[x] \in Content
      BY <1>2, <2>1 DEF Inv, Table, Observed
    <3> QED BY <1>1, <2>1, <3>1, ContentIsNotMissing
  <2>2. CASE x \notin off
    BY <1>1, <2>2 DEF Observed
  <2> QED BY <2>1, <2>2
<1>4. deactivations' \in [Rows -> Nat]
  BY <1>1 DEF Observed
<1>5. mirror' \in [Rows -> Content \union {Missing}]
  <2>1. mirror' = [x \in Rows |-> mirror'[x]]
    BY <1>1
  <2> QED BY <1>3, <2>1
<1>6. Observed'
  BY <1>1, <1>3, <1>4, <1>5 DEF Observed
<1>7. Told'
  <2> SUFFICES ASSUME ~overlapped' PROVE Told'
    BY DEF Told
  <2>1. mirror = rows /\ \A q \in Requests : pc[q] # "idle" => q = r
    BY <1>1 DEF Told
  <2>2. mirror' = rows'
    BY <1>1, <2>1
  <2>3. \A q \in Requests : pc'[q] = "idle"
    BY <1>1, <2>1 DEF Inv, Shape, Finish
  <2> QED BY <2>2, <2>3 DEF Told
<1> QED BY <1>6, <1>7

LEMMA ObservedStep ==
  Inv /\ Observed /\ Told /\ [Next]_vars => Observed' /\ Told'
<1> SUFFICES ASSUME Inv, Observed, Told, [Next]_vars PROVE Observed' /\ Told'
  OBVIOUS
<1>1. ASSUME NEW r \in Requests, CallService(r) PROVE Observed' /\ Told'
  <2>1. /\ UNCHANGED tableVars /\ pc[r] = "idle" /\ pc' = [pc EXCEPT ![r] = "called"]
        /\ overlapped' <=> (overlapped \/ \E q \in Requests : pc[q] # "idle")
    BY <1>1 DEF CallService
  <2>2. copy'[r] = rows[call'[r].row]
    <3>1. PICK x \in Rows : \E c \in CallsOn(x) :
            call' = [call EXCEPT ![r] = c] /\ copy' = [copy EXCEPT ![r] = rows[x]]
      BY <1>1 DEF CallService
    <3>2. PICK c \in CallsOn(x) :
            call' = [call EXCEPT ![r] = c] /\ copy' = [copy EXCEPT ![r] = rows[x]]
      BY <3>1
    <3>3. c.row = x
      BY DEF CallsOn
    <3> QED BY <3>2, <3>3 DEF Inv, Shape
  <2>3. Observed'
    BY <2>1 DEF Observed, tableVars
  <2>4. Told'
    BY <2>1, <2>2 DEF Told, Inv, Shape, tableVars
  <2> QED BY <2>3, <2>4
<1>2. CASE Quiet
  BY <1>2 DEF Quiet, Observed, Told, tableVars
<1>3. CASE UNCHANGED vars
  BY <1>3 DEF vars, tableVars, localVars, callVars, Observed, Told
<1> QED BY <1>1, <1>2, <1>3, StepIsOneOf, SavesAreObserved, CascadesAreObserved DEF Next

LEMMA ObservedInit == Init => Observed /\ Told
<1> SUFFICES ASSUME Init PROVE Observed /\ Told
  OBVIOUS
<1>1. rows \in [Rows -> Content \union {Missing}] /\ mirror = rows
  BY SeedsAssumption DEF Init
<1>2. deactivations \in [Rows -> Nat] /\ patched = {} /\ \A r \in Requests : pc[r] = "idle"
  BY DEF Init
<1> QED BY <1>1, <1>2 DEF Observed, Told

LEMMA AlwaysObserved == Spec => [](Inv /\ Observed /\ Told)
<1>1. Init => Inv /\ Observed /\ Told
  BY InvInit, ObservedInit
<1>2. Inv /\ Observed /\ Told /\ [Next]_vars => (Inv /\ Observed /\ Told)'
  BY InvStep, ObservedStep
<1> QED BY <1>1, <1>2, PTL DEF Spec

(* Every variable stays in its domain, links name rows of the right table, *)
(* and a request holds locks only inside its transaction.                  *)
THEOREM TypeCorrect == Spec => []TypeOK
<1>1. Inv /\ Observed => TypeOK
  <2> SUFFICES ASSUME Inv, Observed PROVE TypeOK
    OBVIOUS
  <2>1. \A r \in Requests : /\ call[r].row \in Rows \union {NoRow}
                            /\ call[r].sent \subseteq Fields
                            /\ call[r].data \in Content \union {Missing}
    BY DEF Inv, Shape, CallSet
  <2>2. \A x \in Rows : Exists(x) => rows[x].link \in Targets(x)
    BY DEF Inv, Table, Linked, Exists
  <2>3. \A r \in Requests : holding[r] # {} => pc[r] \in {"locked", "ready", "saving", "saved"}
    BY DEF Inv, Shape, Placed, Points
  <2> QED BY <2>1, <2>2, <2>3 DEF Inv, Shape, Table, Observed, TypeOK
<1> QED BY <1>1, AlwaysObserved, PTL

(* As long as calls do not overlap the events tell the table.              *)
THEOREM EventsTold == Spec => []EventsTellTheTable
<1>1. Told => EventsTellTheTable
  BY DEF Told, EventsTellTheTable
<1> QED BY <1>1, AlwaysObserved, PTL

(* With the kill-switch off no namespaced row changes.                     *)
THEOREM KillSwitchHolds == Spec => KillSwitchProtects
<1>1. Inv /\ [Next]_vars =>
        [~write_enabled => \A x \in Rows : Ns[x] # Global => rows'[x] = rows[x]]_vars
  <2> SUFFICES ASSUME Inv, Next, ~write_enabled, NEW x \in Rows, Ns[x] # Global
               PROVE  rows'[x] = rows[x]
    OBVIOUS
  <2>1. PICK r \in Requests : CallService(r) \/ Quiet \/ Saves(r) \/ Cascades(r)
    BY StepIsOneOf DEF Next
  <2>2. CASE CallService(r) \/ Quiet
    BY <2>2 DEF CallService, Quiet, tableVars
  <2>3. CASE Saves(r)
    <3>1. call[r].row # x
      BY <2>3 DEF Inv, Asked, Saves, Writable
    <3> QED BY <2>3, <3>1 DEF Saves, Commit, Inv, Table
  <2>4. CASE Cascades(r)
    <3>1. call[r].row # x /\ x \notin CascadeOf(call[r].row)
      BY <2>4 DEF Inv, Asked, Cascades, Writable
    <3> QED BY <2>4, <3>1 DEF Cascades
  <2> QED BY <2>1, <2>2, <2>3, <2>4
<1> QED BY <1>1, AlwaysInv, PTL DEF Spec, KillSwitchProtects

(* A tag.deactivated event means that the tag went from active to inactive.*)
THEOREM TagDeletesHold == Spec => TagDeletesAreReal
<1>1. Inv /\ Observed /\ [Next]_vars =>
        [\A t \in Tags : deactivations'[t] # deactivations[t] =>
           rows[t].active /\ ~rows'[t].active]_vars
  <2> SUFFICES ASSUME Inv, Observed, Next, NEW t \in Tags,
                      deactivations'[t] # deactivations[t]
               PROVE  rows[t].active /\ ~rows'[t].active
    OBVIOUS
  <2>1. PICK r \in Requests : CallService(r) \/ Quiet \/ Saves(r) \/ Cascades(r)
    BY StepIsOneOf DEF Next
  <2>2. ~CallService(r) /\ ~Quiet
    BY DEF CallService, Quiet, tableVars
  <2>3. ~Saves(r)
    BY KindsApart DEF Saves, Observed
  <2>4. Cascades(r)
    BY <2>1, <2>2, <2>3
  <2>5. t = call[r].row
    BY <2>4, KindsApart DEF Cascades, CascadeOf
  <2>6. rows[t].active
    BY <2>4, <2>5 DEF Cascades, Inv, Placed
  <2>7. rows[t] \in Content
    <3>1. rows[t] # Missing
      BY <2>4, <2>5 DEF Cascades, Inv, Asked, Creates
    <3> QED BY <3>1, KindsApart DEF Inv, Table
  <2>8. rows'[t] = WithActive(rows[t], FALSE)
    BY <2>4, <2>5, KindsApart DEF Cascades
  <2> QED BY <2>6, <2>7, <2>8, ContentIsNotMissing
<1> QED BY <1>1, AlwaysObserved, PTL DEF Spec, TagDeletesAreReal

=============================================================================
