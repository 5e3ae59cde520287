-------------------------- MODULE ResolutionProofs --------------------------
(***************************************************************************)
(* Theorems about Resolution, for any applications, namespaces, types,     *)
(* clients and bound.  The argument has two parts.  A permitted lookup in  *)
(* a namespace names an application (LookupsAreNamed), for which the       *)
(* filters of the queries admit exactly the documented ladder and their    *)
(* priorities order it (LadderIsAdmitted, PriorityIsRung).  The rest is an *)
(* invariant about what the gap between the two statements can change.     *)
(***************************************************************************)
EXTENDS Resolution, FiniteSetTheorems, TLAPS

(* A namespaced lookup names an application.                               *)
Named(c) == c \in Calls /\ (c.ns # Global => c.app # Shared)

(* What has_permission lets through to the lookups is named: without an    *)
(* application no grant authorizes a namespace.                            *)
LEMMA LookupsAreNamed ==
  /\ \A c \in tag_resolution : Named(c) /\ c.lookup = "resolve"
  /\ \A c \in assignment_lookups : Named(c) /\ c.lookup # "resolve" /\ c.app # Shared
<1>1. ASSUME NEW c \in tag_resolution PROVE Named(c) /\ c.lookup = "resolve"
  <2>1. PICK p \in permitted("resolve"), type \in Types \union {AnyType} :
          c = [lookup |-> "resolve", ns |-> ResolutionScope(p[2]), app |-> p[2].query,
               type |-> type,
               include_global |-> ResolutionIncludesGlobal(p[2],
                                    request_include_global(p[1], p[2]))]
    BY <1>1 DEF tag_resolution
  <2>2. p[2] \in Requests /\ p[2].view = "resolve" /\ has_permission(p[1], p[2])
    BY DEF permitted
  <2>3. p[2].query \in Ids /\ p[2].ns \in Spaces
    BY <2>2 DEF Requests
  <2>4. ResolutionScope(p[2]) \in {p[2].ns, Global}
    BY DEF ResolutionScope
  <2>5. ASSUME p[2].query = Shared PROVE p[2].ns = Global
    <3>1. application_targets(p[2]) = {Shared}
      BY <2>2, <2>5, GrantsAssumption
      DEF application_targets, application_ids_from_request, Reads
    <3>2. PICK g : grant_authorizes(g, Shared, p[2].ns, required_scope(p[2]))
      BY <2>2, <3>1 DEF has_permission, authorized_scope_contexts
    <3> QED BY <3>2 DEF grant_authorizes
  <2>6. ResolutionIncludesGlobal(p[2], request_include_global(p[1], p[2])) \in BOOLEAN
    BY DEF ResolutionIncludesGlobal, request_include_global
  <2> QED BY <2>1, <2>3, <2>4, <2>5, <2>6 DEF Named, Calls, Lookups, Spaces
<1>2. ASSUME NEW c \in assignment_lookups PROVE Named(c) /\ c.lookup # "resolve" /\ c.app # Shared
  <2>1. PICK p \in permitted("assign"), lookup \in Lookups \ {"resolve"} :
          /\ p[2].body \in Apps
          /\ c = [lookup |-> lookup, ns |-> p[2].ns, app |-> p[2].body, type |-> AnyType,
                  include_global |-> request_authorizes_global_references(p[1], p[2])]
    BY <1>2 DEF assignment_lookups
  <2>2. p[2].ns \in Spaces
    BY DEF permitted, Requests
  <2>3. request_authorizes_global_references(p[1], p[2]) \in BOOLEAN
    BY DEF request_authorizes_global_references
  <2> QED BY <2>1, <2>2, <2>3, GrantsAssumption DEF Named, Calls, Ids
<1> QED BY <1>1, <1>2

-----------------------------------------------------------------------------
(* The rungs of the ladder, as a case distinction on the call.             *)
LEMMA RungsOfTheLadder ==
  ASSUME NEW c, Named(c), NEW s \in Scopes
  PROVE  /\ c.app = Shared =>
              OnLadder(c, s) <=> s.app = Shared /\ s.ns = Global
         /\ c.app # Shared /\ c.ns = Global =>
              OnLadder(c, s) <=> s.ns = Global /\ s.app \in {Shared, c.app}
         /\ c.app # Shared /\ c.ns # Global /\ ~c.include_global =>
              OnLadder(c, s) <=> s.ns = c.ns /\ s.app = c.app
         /\ c.app # Shared /\ c.ns # Global /\ c.include_global =>
              OnLadder(c, s) <=> \/ s.ns = c.ns /\ s.app = c.app
                                 \/ s.ns = Global /\ s.app \in {Shared, c.app}
<1> DEFINE sh == [app |-> Shared, ns |-> Global]
           ag == [app |-> c.app, ns |-> Global]
           ex == [app |-> c.app, ns |-> c.ns]
<1>0. \A app, ns : s = [app |-> app, ns |-> ns] <=> s.app = app /\ s.ns = ns
  BY DEF Scopes
<1>1. CASE c.app = Shared
  <2>1. Ladder(c) = <<sh>>
    BY <1>1 DEF Ladder
  <2>2. OnLadder(c, s) <=> s = sh
    BY <2>1 DEF OnLadder
  <2> QED BY <1>0, <1>1, <2>2
<1>2. CASE c.app # Shared /\ c.ns = Global
  <2>1. Ladder(c) = <<ag, sh>>
    BY <1>2 DEF Ladder
  <2>2. OnLadder(c, s) <=> s \in {ag, sh}
    BY <2>1 DEF OnLadder
  <2> QED BY <1>0, <1>2, <2>2
<1>3. CASE c.app # Shared /\ c.ns # Global /\ c.include_global
  <2>1. Ladder(c) = <<ex, ag, sh>>
    BY <1>3 DEF Ladder
  <2>2. OnLadder(c, s) <=> s \in {ex, ag, sh}
    BY <2>1 DEF OnLadder
  <2> QED BY <1>0, <1>3, <2>2
<1>4. CASE c.app # Shared /\ c.ns # Global /\ ~c.include_global
  <2>1. Ladder(c) = <<ex>>
    BY <1>4 DEF Ladder
  <2>2. OnLadder(c, s) <=> s = ex
    BY <2>1 DEF OnLadder
  <2> QED BY <1>0, <1>4, <2>2
<1> QED BY <1>1, <1>2, <1>3, <1>4

(* The scopes a query admits are those of the ladder.                      *)
LEMMA LadderIsAdmitted ==
  ASSUME NEW c, Named(c), NEW s \in Scopes
  PROVE  s \in ResolutionRows(c.ns, c.include_global, c.app) <=> OnLadder(c, s)
BY RungsOfTheLadder, GrantsAssumption
DEF ResolutionRows, namespace_q, Named, Calls, Scopes, Ids, Spaces

(* An alias whose own scope and whose tag's namespace are admitted has its *)
(* tag on the ladder.                                                      *)
LEMMA TargetsAreAdmitted ==
  ASSUME NEW c, Named(c), NEW a \in AliasRows, OnLadder(c, a.scope)
  PROVE  a.target.ns \in namespace_q(c.ns, c.include_global) <=> OnLadder(c, a.target)
<1>1. a.scope \in Scopes /\ a.target \in Scopes /\ Compatible(a.scope, a.target)
  BY DEF AliasRows
<1> QED BY <1>1, RungsOfTheLadder DEF Compatible, namespace_q, Named, Calls, Scopes

(* The priorities of the queries order the ladder.                         *)
LEMMA PriorityIsRung ==
  ASSUME NEW c, Named(c), NEW s \in Scopes, NEW o \in Scopes,
         OnLadder(c, s), OnLadder(c, o)
  PROVE  /\ resolution_priority(c, s) <= resolution_priority(c, o) <=> Rung(c, s) <= Rung(c, o)
         /\ Rung(c, s) = Rung(c, o) => s = o
         /\ Rung(c, s) \in 1..3
<1> DEFINE sh == [app |-> Shared, ns |-> Global]
           ag == [app |-> c.app, ns |-> Global]
           ex == [app |-> c.app, ns |-> c.ns]
<1>0. /\ Ladder(c)[Rung(c, s)] = s /\ Rung(c, s) \in DOMAIN Ladder(c)
      /\ Ladder(c)[Rung(c, o)] = o /\ Rung(c, o) \in DOMAIN Ladder(c)
  BY DEF OnLadder, Rung
<1>1. CASE c.app = Shared
  <2>1. Ladder(c) = <<sh>> /\ DOMAIN Ladder(c) = {1}
    BY <1>1 DEF Ladder
  <2>2. s = sh /\ o = sh /\ Rung(c, s) = 1 /\ Rung(c, o) = 1
    BY <1>0, <2>1
  <2> QED BY <2>2 DEF resolution_priority
<1>2. CASE c.app # Shared /\ c.ns = Global
  <2>1. DOMAIN Ladder(c) = {1, 2} /\ Ladder(c)[1] = ag /\ Ladder(c)[2] = sh
    BY <1>2 DEF Ladder
  <2>2. resolution_priority(c, ag) = 0 /\ resolution_priority(c, sh) = 2
    BY <1>2 DEF resolution_priority
  <2> HIDE DEF sh, ag, ex
  <2>3. /\ (Rung(c, s) = 1 /\ s = ag) \/ (Rung(c, s) = 2 /\ s = sh)
        /\ (Rung(c, o) = 1 /\ o = ag) \/ (Rung(c, o) = 2 /\ o = sh)
    BY <1>0, <2>1
  <2> QED BY <2>2, <2>3
<1>3. CASE c.app # Shared /\ c.ns # Global /\ c.include_global
  <2>1. /\ DOMAIN Ladder(c) = {1, 2, 3}
        /\ Ladder(c)[1] = ex /\ Ladder(c)[2] = ag /\ Ladder(c)[3] = sh
    BY <1>3 DEF Ladder
  <2>2. /\ resolution_priority(c, ex) = 0 /\ resolution_priority(c, ag) = 1
        /\ resolution_priority(c, sh) = 2
    BY <1>3 DEF resolution_priority
  <2> HIDE DEF sh, ag, ex
  <2>3. /\ \/ Rung(c, s) = 1 /\ s = ex
           \/ Rung(c, s) = 2 /\ s = ag
           \/ Rung(c, s) = 3 /\ s = sh
        /\ \/ Rung(c, o) = 1 /\ o = ex
           \/ Rung(c, o) = 2 /\ o = ag
           \/ Rung(c, o) = 3 /\ o = sh
    BY <1>0, <2>1
  <2> QED BY <2>2, <2>3
<1>4. CASE c.app # Shared /\ c.ns # Global /\ ~c.include_global
  <2>1. Ladder(c) = <<ex>> /\ DOMAIN Ladder(c) = {1}
    BY <1>4 DEF Ladder
  <2>2. s = ex /\ o = ex /\ Rung(c, s) = 1 /\ Rung(c, o) = 1
    BY <1>0, <2>1
  <2>3. resolution_priority(c, ex) = 0
    BY <1>4 DEF resolution_priority
  <2> HIDE DEF ex
  <2> QED BY <2>2, <2>3
<1> QED BY <1>1, <1>2, <1>3, <1>4

-----------------------------------------------------------------------------
(* The most specific rows are of one scope, and there are some.            *)
LEMMA TopIsMostSpecific ==
  ASSUME NEW c, Named(c), NEW rs, \A r \in rs : r.scope \in Scopes /\ OnLadder(c, r.scope)
  PROVE  /\ most_specific_matches(c, rs) = Top(c, rs)
         /\ \A r, o \in Top(c, rs) : r.scope = o.scope
         /\ Top(c, rs) \subseteq rs
         /\ rs # {} => Top(c, rs) # {}
<1>1. \A r, o \in rs :
        /\ resolution_priority(c, r.scope) <= resolution_priority(c, o.scope)
             <=> Rung(c, r.scope) <= Rung(c, o.scope)
        /\ Rung(c, r.scope) = Rung(c, o.scope) => r.scope = o.scope
        /\ Rung(c, r.scope) \in 1..3
  BY PriorityIsRung
<1>2. most_specific_matches(c, rs) = Top(c, rs)
  BY <1>1 DEF most_specific_matches, Top
<1>3. \A r, o \in Top(c, rs) : r.scope = o.scope
  BY <1>1 DEF Top
<1>4. ASSUME rs # {} PROVE Top(c, rs) # {}
  <2>1. CASE \E r \in rs : Rung(c, r.scope) = 1
    BY <1>1, <2>1 DEF Top
  <2>2. CASE /\ \A r \in rs : Rung(c, r.scope) # 1
             /\ \E r \in rs : Rung(c, r.scope) = 2
    BY <1>1, <2>2 DEF Top
  <2>3. CASE \A r \in rs : Rung(c, r.scope) = 3
    BY <1>1, <1>4, <2>3 DEF Top
  <2> QED BY <1>1, <2>1, <2>2, <2>3
<1> QED BY <1>2, <1>3, <1>4 DEF Top

LEMMA TaggedIsAdmitted ==
  ASSUME NEW c, Named(c), tags \subseteq TagRows
  PROVE  /\ active_tags_for_resolution(c) = Tagged(c, tags)
         /\ \A t \in Tagged(c, tags) : t.scope \in Scopes /\ OnLadder(c, t.scope)
<1>1. \A t \in tags : t.scope \in Scopes
  BY DEF TagRows
<1> QED BY <1>1, LadderIsAdmitted DEF active_tags_for_resolution, Tagged

LEMMA AliasedIsAdmitted ==
  ASSUME NEW c, Named(c), aliases \subseteq AliasRows
  PROVE  /\ active_aliases_for_resolution(c) = Aliased(c, aliases)
         /\ \A a \in Aliased(c, aliases) : a.scope \in Scopes /\ OnLadder(c, a.scope)
<1>1. \A a \in aliases : a \in AliasRows /\ a.scope \in Scopes
  BY DEF AliasRows
<1>2. \A a \in aliases :
        a.scope \in ResolutionRows(c.ns, c.include_global, c.app) <=> OnLadder(c, a.scope)
  BY <1>1, LadderIsAdmitted
<1>3. \A a \in aliases : OnLadder(c, a.scope) =>
        (a.target.ns \in namespace_q(c.ns, c.include_global) <=> OnLadder(c, a.target))
  BY <1>1, TargetsAreAdmitted
<1> QED BY <1>1, <1>2, <1>3 DEF active_aliases_for_resolution, Aliased

(* Preferring the application's tags first changes nothing of the top.     *)
LEMMA ApplicationFirst ==
  ASSUME NEW c, Named(c), NEW ts, \A t \in ts : t.scope \in Scopes /\ OnLadder(c, t.scope),
         NEW mine, mine = {t \in ts : c.app # Shared /\ t.scope.app = c.app}, mine # {}
  PROVE  Top(c, mine) = Top(c, ts)
<1>1. \A r, o \in ts :
        resolution_priority(c, r.scope) <= resolution_priority(c, o.scope)
          <=> Rung(c, r.scope) <= Rung(c, o.scope)
  BY PriorityIsRung
<1>2. \A r \in mine, o \in ts \ mine :
        /\ resolution_priority(c, r.scope) \in {0, 1}
        /\ resolution_priority(c, o.scope) = 2
  BY DEF resolution_priority
<1>3. \A r \in mine, o \in ts \ mine :
        Rung(c, r.scope) <= Rung(c, o.scope) /\ ~ Rung(c, o.scope) <= Rung(c, r.scope)
  BY <1>1, <1>2
<1>4. Top(c, mine) \subseteq Top(c, ts)
  BY <1>3 DEF Top
<1>5. Top(c, ts) \subseteq Top(c, mine)
  BY <1>3 DEF Top
<1> QED BY <1>4, <1>5

-----------------------------------------------------------------------------
(* More than one element, without counting.                                *)
LEMMA SeveralAreDistinct ==
  ASSUME NEW S, IsFiniteSet(S)
  PROVE  /\ Cardinality(S) > 1 <=> \E x, y \in S : x # y
         /\ Cardinality(S) <= 1 <=> \A x, y \in S : x = y
<1>1. Cardinality(S) \in Nat /\ (Cardinality(S) = 0 <=> S = {})
  BY FS_CardinalityType, FS_EmptySet
<1>2. Cardinality(S) = 1 <=> \E x : S = {x}
  BY FS_Singleton
<1>3. (\A x, y \in S : x = y) <=> S = {} \/ \E x : S = {x}
  OBVIOUS
<1> QED BY <1>1, <1>2, <1>3

(* The most specific of the matching tags are of one scope: they differ by *)
(* type, and only where the call names none.                               *)
LEMMA SeveralTypes ==
  ASSUME NEW c, Named(c), tags \subseteq TagRows, IsFiniteSet(tags),
         Cardinality(Top(c, Tagged(c, tags))) > 1
  PROVE  /\ c.type = AnyType
         /\ Cardinality({t.type : t \in Top(c, Tagged(c, tags))}) > 1
<1> DEFINE T == Top(c, Tagged(c, tags))
           K == {t.type : t \in T}
<1>1. T \subseteq Tagged(c, tags) /\ T \subseteq tags /\ \A r, o \in T : r.scope = o.scope
  BY TaggedIsAdmitted, TopIsMostSpecific DEF Tagged
<1>2. IsFiniteSet(T) /\ IsFiniteSet(K)
  <2>1. IsFiniteSet(T)
    BY <1>1, FS_Subset
  <2>2. [t \in T |-> t.type] \in Surjection(T, K)
    BY DEF Surjection
  <2> QED BY <2>1, <2>2, FS_Surjection
<1>3. PICK r, o \in T : r # o
  BY <1>2, SeveralAreDistinct
<1>4. r.type # o.type
  BY <1>1, <1>3 DEF TagRows
<1>5. Cardinality(K) > 1
  BY <1>2, <1>4, SeveralAreDistinct
<1>6. c.type = AnyType
  BY <1>1, <1>4 DEF Tagged
<1> QED BY <1>5, <1>6

-----------------------------------------------------------------------------
(* The inductive invariant.                                                *)
Finite == IsFiniteSet(tags) /\ IsFiniteSet(aliases)

(* Nothing is answered before its time; a call is a named one; between the *)
(* two statements no tag has matched throughout; and the answers are as    *)
(* documented, those to an id as far as their scope goes.                  *)
LookedUp ==
  /\ pc # "answered" => answer = Failure("none")
  /\ pc # "idle" => Named(call)
  /\ pc = "tags read" => call.lookup = "resolve" /\ Tagged(call, steady.tags) = {}
  /\ ResolvesTheLadder
  /\ pc = "answered" /\ call.lookup = "alias_id" =>
       \/ answer = Failure("none")
       \/ \E a \in AliasRows : answer = OfAlias(a) /\ OnLadder(call, a.target)

Inv == TypeOK /\ Finite /\ LookedUp

LEMMA KindsOfAnswers ==
  /\ \A kind : Failure(kind).kind = kind
  /\ \A t : OfTag(t).kind = "tag" /\ OfTag(t).scope = t.scope
  /\ \A a : OfAlias(a).kind = "alias" /\ OfAlias(a).scope = a.scope /\ OfAlias(a).target = a.target
BY DEF Failure, OfTag, OfAlias

LEMMA FailuresAreAnswers == \A kind \in Failures : Failure(kind) \in Answers
BY DEF Answers

LEMMA RowsAreAnswers ==
  /\ \A t \in TagRows : OfTag(t) \in Answers
  /\ \A a \in AliasRows : OfAlias(a) \in Answers
BY DEF Answers, OfTag, OfAlias, TagRows, AliasRows

(* The reference answers, and with an alias only where one matches.        *)
LEMMA RightAnswers ==
  ASSUME NEW c, NEW ts \in SUBSET TagRows, NEW as \in SUBSET AliasRows
  PROVE  \/ RightAnswer(c, ts, as) \in {Failure("several types"), Failure("none")}
         \/ \E t \in Tagged(c, ts) : RightAnswer(c, ts, as) = OfTag(t)
         \/ \E a \in Aliased(c, as) : RightAnswer(c, ts, as) = OfAlias(a)
<1> DEFINE canonical == IF c.lookup = "resolve" THEN Top(c, Tagged(c, ts)) ELSE {}
           alias == Top(c, Aliased(c, as))
<1>1. canonical \subseteq Tagged(c, ts) /\ alias \subseteq Aliased(c, as)
  BY DEF Top
<1>2. canonical # {} => (CHOOSE t \in canonical : TRUE) \in canonical
  OBVIOUS
<1>3. alias # {} => (CHOOSE a \in alias : TRUE) \in alias
  OBVIOUS
<1>4. RightAnswer(c, ts, as) =
        IF Cardinality(canonical) > 1 THEN Failure("several types")
        ELSE IF canonical # {} THEN OfTag(CHOOSE t \in canonical : TRUE)
        ELSE IF alias # {} THEN OfAlias(CHOOSE a \in alias : TRUE)
        ELSE Failure("none")
  BY DEF RightAnswer
<1> HIDE DEF canonical, alias
<1> QED BY <1>1, <1>2, <1>3, <1>4

LEMMA RightAnswerTyped ==
  ASSUME NEW c, NEW ts \in SUBSET TagRows, NEW as \in SUBSET AliasRows
  PROVE  RightAnswer(c, ts, as) \in Answers
<1>1. Tagged(c, ts) \subseteq TagRows /\ Aliased(c, as) \subseteq AliasRows
  BY DEF Tagged, Aliased
<1> QED BY <1>1, RightAnswers, FailuresAreAnswers, RowsAreAnswers DEF Failures

(* The first statement of tag-resolution, when it finds a tag.             *)
LEMMA TagsRead ==
  ASSUME Inv, NEW c, Named(c), c.lookup = "resolve", Tagged(c, tags) # {},
         NEW mine, mine = {t \in Tagged(c, tags) : c.app # Shared /\ t.scope.app = c.app},
         NEW candidates,
         candidates = most_specific_matches(c, IF mine = {} THEN Tagged(c, tags) ELSE mine)
  PROVE  (IF Cardinality(candidates) > 1
          THEN canonical_ambiguity(c, candidates)
          ELSE OfTag(CHOOSE t \in candidates : TRUE)) = RightAnswer(c, tags, aliases)
<1> DEFINE T == Top(c, Tagged(c, tags))
<1>1. tags \subseteq TagRows /\ IsFiniteSet(tags)
  BY DEF Inv, TypeOK, Finite
<1>2. \A t \in Tagged(c, tags) : t.scope \in Scopes /\ OnLadder(c, t.scope)
  BY <1>1, TaggedIsAdmitted
<1>3. candidates = T
  <2>1. CASE mine = {}
    BY <1>2, <2>1, TopIsMostSpecific
  <2>2. CASE mine # {}
    <3>1. candidates = Top(c, mine)
      BY <1>2, <2>2, TopIsMostSpecific
    <3> QED BY <1>2, <2>2, <3>1, ApplicationFirst
  <2> QED BY <2>1, <2>2
<1>4. T # {}
  BY <1>2, TopIsMostSpecific
<1>5. ASSUME Cardinality(T) > 1 PROVE canonical_ambiguity(c, T) = Failure("several types")
  BY <1>1, <1>5, SeveralTypes DEF canonical_ambiguity
<1>6. RightAnswer(c, tags, aliases) =
        IF Cardinality(T) > 1 THEN Failure("several types")
        ELSE OfTag(CHOOSE t \in T : TRUE)
  BY <1>4 DEF RightAnswer
<1> HIDE DEF T
<1> QED BY <1>3, <1>5, <1>6

(* The most specific of the matching aliases is one.                       *)
LEMMA OneAlias ==
  ASSUME TypeOK, Finite, NEW c, Named(c)
  PROVE  LET top == most_specific_matches(c, active_aliases_for_resolution(c))
         IN /\ top = Top(c, Aliased(c, aliases))
            /\ Cardinality(top) <= 1
            /\ \A a, b \in top : a = b
            /\ top \subseteq Aliased(c, aliases)
<1> DEFINE T == Top(c, Aliased(c, aliases))
<1>1. aliases \subseteq AliasRows /\ \A a, b \in aliases : a.scope = b.scope => a = b
  BY DEF TypeOK
<1>2. /\ active_aliases_for_resolution(c) = Aliased(c, aliases)
      /\ \A a \in Aliased(c, aliases) : a.scope \in Scopes /\ OnLadder(c, a.scope)
  BY <1>1, AliasedIsAdmitted
<1>3. /\ most_specific_matches(c, Aliased(c, aliases)) = T
      /\ \A a, b \in T : a.scope = b.scope
      /\ T \subseteq Aliased(c, aliases)
  BY <1>2, TopIsMostSpecific
<1>4. T \subseteq aliases
  BY <1>3 DEF Aliased
<1>5. \A a, b \in T : a = b
  BY <1>1, <1>3, <1>4
<1>6. IsFiniteSet(T)
  BY <1>4, FS_Subset DEF Finite
<1>7. Cardinality(T) <= 1
  BY <1>5, <1>6, SeveralAreDistinct
<1> HIDE DEF T
<1> QED BY <1>2, <1>3, <1>5, <1>7 DEF T

(* The answer from the aliases, when no tag counts.                        *)
LEMMA AliasesRead ==
  ASSUME TypeOK, Finite, NEW c, Named(c),
         NEW ts, c.lookup # "resolve" \/ Tagged(c, ts) = {},
         NEW top, top = most_specific_matches(c, active_aliases_for_resolution(c))
  PROVE  /\ top = {} => RightAnswer(c, ts, aliases) = Failure("none")
         /\ \A a \in top : RightAnswer(c, ts, aliases) = OfAlias(a)
<1> DEFINE canonical == IF c.lookup = "resolve" THEN Top(c, Tagged(c, ts)) ELSE {}
           alias == Top(c, Aliased(c, aliases))
<1>1. top = alias /\ \A a, b \in top : a = b
  BY OneAlias
<1>2. canonical = {}
  BY DEF Top
<1>3. Cardinality(canonical) = 0
  BY <1>2, FS_EmptySet
<1>4. RightAnswer(c, ts, aliases) =
        IF Cardinality(canonical) > 1 THEN Failure("several types")
        ELSE IF canonical # {} THEN OfTag(CHOOSE t \in canonical : TRUE)
        ELSE IF alias # {} THEN OfAlias(CHOOSE a \in alias : TRUE)
        ELSE Failure("none")
  BY DEF RightAnswer
<1> HIDE DEF canonical, alias
<1>5. ~(Cardinality(canonical) > 1)
  BY <1>3
<1>6. \A a \in top : (CHOOSE b \in alias : TRUE) = a
  BY <1>1
<1>7. RightAnswer(c, ts, aliases) =
        IF alias # {} THEN OfAlias(CHOOSE a \in alias : TRUE) ELSE Failure("none")
  BY <1>2, <1>4, <1>5
<1> QED BY <1>1, <1>6, <1>7

-----------------------------------------------------------------------------
(* Every step keeps the invariant.                                         *)
LEMMA InvInit == Init => Inv
<1> SUFFICES ASSUME Init PROVE Inv
  OBVIOUS
<1>1. TypeOK
  <2>1. NoCall \in Calls
    BY DEF NoCall, Calls, Lookups, Spaces, Ids
  <2>2. Failure("none") \in Answers
    BY FailuresAreAnswers DEF Failures
  <2> QED BY <2>1, <2>2 DEF Init, TypeOK
<1>2. Finite
  BY FS_EmptySet DEF Init, Finite
<1>3. LookedUp
  BY DEF Init, LookedUp, ResolvesTheLadder
<1> QED BY <1>1, <1>2, <1>3 DEF Inv

(* An answer keeps it if it is right for the rows of the moment, or for    *)
(* their aliases in the gap.                                               *)
LEMMA ReturnKeeps ==
  ASSUME Inv, NEW c, NEW a \in Answers, Named(c), Return(c, a),
         c.lookup # "alias_id" =>
           \/ a = RightAnswer(c, tags, aliases)
           \/ /\ pc = "tags read" /\ Tagged(c, tags) # {} /\ Tagged(c, steady.tags) = {}
              /\ a = RightAnswer(c, {}, aliases),
         c.lookup = "alias_id" =>
           \/ a = Failure("none")
           \/ \E b \in AliasRows : a = OfAlias(b) /\ OnLadder(c, b.target)
  PROVE  Inv'
<1>1. /\ tags' = tags /\ aliases' = aliases
      /\ pc' = "answered" /\ call' = c /\ answer' = a
      /\ steady' = IF pc = "idle" THEN [tags |-> tags, aliases |-> aliases] ELSE steady
  BY DEF Return, table
<1>2. TypeOK'
  BY <1>1 DEF Inv, TypeOK, Named
<1>3. Finite'
  BY <1>1 DEF Inv, Finite
<1>4. ResolvesTheLadder'
  BY <1>1 DEF ResolvesTheLadder
<1>5. LookedUp'
  BY <1>1, <1>4 DEF LookedUp
<1> QED BY <1>2, <1>3, <1>5 DEF Inv

LEMMA ResolveTagsKeeps == ASSUME Inv, resolve_tags PROVE Inv'
<1> USE DEF Inv
<1>1. PICK c \in tag_resolution :
        LET found == active_tags_for_resolution(c)
            app_tags == {t \in found : c.app # Shared /\ t.scope.app = c.app}
            candidates == most_specific_matches(c, IF app_tags = {} THEN found ELSE app_tags)
        IN IF found = {}
           THEN /\ pc' = "tags read"
                /\ call' = c
                /\ steady' = [tags |-> tags, aliases |-> aliases]
                /\ UNCHANGED <<table, answer>>
           ELSE Return(c, IF Cardinality(candidates) > 1
                          THEN canonical_ambiguity(c, candidates)
                          ELSE OfTag(CHOOSE t \in candidates : TRUE))
  BY DEF resolve_tags
<1>2. Named(c) /\ c.lookup = "resolve"
  BY LookupsAreNamed
<1>3. active_tags_for_resolution(c) = Tagged(c, tags)
  BY <1>2, TaggedIsAdmitted DEF TypeOK
<1>4. CASE Tagged(c, tags) = {}
  <2>1. /\ pc' = "tags read" /\ call' = c /\ answer' = answer
        /\ steady' = [tags |-> tags, aliases |-> aliases]
        /\ tags' = tags /\ aliases' = aliases
    BY <1>1, <1>3, <1>4 DEF table
  <2>2. TypeOK'
    BY <1>2, <2>1 DEF TypeOK, Named
  <2>3. Finite'
    BY <2>1 DEF Finite
  <2>4. answer = Failure("none")
    BY DEF resolve_tags, LookedUp
  <2>5. LookedUp'
    BY <1>2, <1>4, <2>1, <2>4 DEF LookedUp, ResolvesTheLadder
  <2> QED BY <2>2, <2>3, <2>5
<1>5. CASE Tagged(c, tags) # {}
  <2>1. Return(c, RightAnswer(c, tags, aliases))
    <3> DEFINE mine == {t \in Tagged(c, tags) : c.app # Shared /\ t.scope.app = c.app}
               candidates == most_specific_matches(c,
                               IF mine = {} THEN Tagged(c, tags) ELSE mine)
               a == IF Cardinality(candidates) > 1
                    THEN canonical_ambiguity(c, candidates)
                    ELSE OfTag(CHOOSE t \in candidates : TRUE)
    <3>1. Return(c, a)
      BY <1>1, <1>3, <1>5
    <3>2. a = RightAnswer(c, tags, aliases)
      <4> HIDE DEF mine, candidates
      <4>1. mine = {t \in Tagged(c, tags) : c.app # Shared /\ t.scope.app = c.app}
        BY DEF mine
      <4>2. candidates = most_specific_matches(c, IF mine = {} THEN Tagged(c, tags) ELSE mine)
        BY DEF candidates
      <4> QED BY <1>2, <1>5, <4>1, <4>2, TagsRead
    <3> HIDE DEF a
    <3> QED BY <3>1, <3>2
  <2>2. RightAnswer(c, tags, aliases) \in Answers
    BY RightAnswerTyped DEF TypeOK
  <2>3. c.lookup # "alias_id"
    BY <1>2
  <2> QED BY <1>2, <2>1, <2>2, <2>3, ReturnKeeps
<1> QED BY <1>4, <1>5

LEMMA ResolveAliasesKeeps == ASSUME Inv, resolve_aliases PROVE Inv'
<1> USE DEF Inv
<1> DEFINE top == most_specific_matches(call, active_aliases_for_resolution(call))
<1>1. /\ pc = "tags read"
      /\ Return(call, IF top = {} THEN Failure("none")
                      ELSE IF Cardinality(top) > 1 THEN Failure("several applications")
                      ELSE OfAlias(CHOOSE a \in top : TRUE))
  BY DEF resolve_aliases
<1>2. Named(call) /\ call.lookup = "resolve" /\ Tagged(call, steady.tags) = {}
  BY <1>1 DEF LookedUp
<1>3. Cardinality(top) <= 1 /\ Cardinality(top) \in Nat
  <2>1. Cardinality(top) <= 1 /\ top = Top(call, Aliased(call, aliases))
    BY <1>2, OneAlias
  <2>2. IsFiniteSet(top)
    BY <2>1, FS_Subset DEF Top, Aliased, Finite
  <2> QED BY <2>1, <2>2, FS_CardinalityType
<1>4. Tagged(call, {}) = {}
  BY DEF Tagged
<1>5. \A ts : Tagged(call, ts) = {} =>
        /\ top = {} => RightAnswer(call, ts, aliases) = Failure("none")
        /\ \A a \in top : RightAnswer(call, ts, aliases) = OfAlias(a)
  BY <1>2, AliasesRead
<1>6. ASSUME NEW ts, Tagged(call, ts) = {} PROVE Return(call, RightAnswer(call, ts, aliases))
  <2>1. ~(Cardinality(top) > 1)
    BY <1>3
  <2>2. top # {} => (CHOOSE a \in top : TRUE) \in top
    OBVIOUS
  <2> HIDE DEF top
  <2> QED BY <1>1, <1>5, <1>6, <2>1, <2>2
<1>7. CASE Tagged(call, tags) = {}
  <2>1. RightAnswer(call, tags, aliases) \in Answers
    BY RightAnswerTyped DEF TypeOK
  <2> QED BY <1>2, <1>6, <1>7, <2>1, ReturnKeeps
<1>8. CASE Tagged(call, tags) # {}
  <2>1. RightAnswer(call, {}, aliases) \in Answers
    BY RightAnswerTyped DEF TypeOK
  <2> QED BY <1>1, <1>2, <1>4, <1>6, <1>8, <2>1, ReturnKeeps
<1> QED BY <1>7, <1>8

LEMMA FirstAliasKeeps == ASSUME Inv, first_alias PROVE Inv'
<1> USE DEF Inv
<1>1. PICK c \in assignment_lookups :
        /\ c.lookup \in {"alias_slug", "alias_slugs"}
        /\ LET top == most_specific_matches(c, active_aliases_for_resolution(c))
           IN IF top = {} THEN Return(c, Failure("none"))
                          ELSE \E a \in top : Return(c, OfAlias(a))
  BY DEF first_alias
<1>2. Named(c) /\ c.lookup # "resolve" /\ c.lookup # "alias_id"
  BY <1>1, LookupsAreNamed
<1>3. Return(c, RightAnswer(c, tags, aliases))
  BY <1>1, <1>2, AliasesRead
<1>4. RightAnswer(c, tags, aliases) \in Answers
  BY RightAnswerTyped DEF TypeOK
<1> QED BY <1>2, <1>3, <1>4, ReturnKeeps

LEMMA AliasOfIdKeeps == ASSUME Inv, alias_of_id PROVE Inv'
<1> USE DEF Inv
<1>1. PICK c \in assignment_lookups, a \in aliases :
        /\ c.lookup = "alias_id"
        /\ Return(c, IF /\ a.scope.ns \in namespace_q(c.ns, c.include_global)
                        /\ a.target.ns \in namespace_q(c.ns, c.include_global)
                        /\ a.scope.app \in {Shared, c.app}
                     THEN OfAlias(a) ELSE Failure("none"))
  BY DEF alias_of_id
<1>2. Named(c) /\ c.app # Shared
  BY LookupsAreNamed
<1>3. a \in AliasRows /\ a.target \in Scopes /\ Compatible(a.scope, a.target)
  BY DEF TypeOK, AliasRows
<1>4. CASE /\ a.scope.ns \in namespace_q(c.ns, c.include_global)
           /\ a.target.ns \in namespace_q(c.ns, c.include_global)
           /\ a.scope.app \in {Shared, c.app}
  <2>1. OnLadder(c, a.target)
    <3>1. a.target.app \in {Shared, c.app} /\ a.target.ns \in namespace_q(c.ns, c.include_global)
      BY <1>3, <1>4 DEF Compatible
    <3>2. a.target.ns # Global => a.target.app = c.app
      BY <1>3, <3>1 DEF Scopes
    <3> QED BY <1>2, <1>3, <3>1, <3>2, RungsOfTheLadder DEF namespace_q, Named, Calls
  <2>2. Return(c, OfAlias(a)) /\ OfAlias(a) \in Answers
    BY <1>1, <1>3, <1>4, RowsAreAnswers
  <2> QED BY <1>1, <1>2, <1>3, <2>1, <2>2, ReturnKeeps
<1>5. CASE ~ (/\ a.scope.ns \in namespace_q(c.ns, c.include_global)
              /\ a.target.ns \in namespace_q(c.ns, c.include_global)
              /\ a.scope.app \in {Shared, c.app})
  <2>1. Return(c, Failure("none")) /\ Failure("none") \in Answers
    BY <1>1, <1>5, FailuresAreAnswers DEF Failures
  <2> QED BY <1>1, <1>2, <2>1, ReturnKeeps
<1> QED BY <1>4, <1>5

LEMMA RespondKeeps == ASSUME Inv, Respond PROVE Inv'
<1> USE DEF Inv
<1>1. TypeOK'
  <2>1. NoCall \in Calls
    BY DEF NoCall, Calls, Lookups, Spaces, Ids
  <2>2. Failure("none") \in Answers
    BY FailuresAreAnswers DEF Failures
  <2> QED BY <2>1, <2>2 DEF TypeOK, Respond, table
<1>2. Finite'
  BY DEF Finite, Respond, table
<1>3. LookedUp'
  BY DEF LookedUp, ResolvesTheLadder, Respond
<1> QED BY <1>1, <1>2, <1>3

(* The rows that others commit: what matched throughout shrinks.           *)
LEMMA CommitKeeps ==
  ASSUME Inv, NEW ts \in SUBSET TagRows, NEW as \in SUBSET AliasRows,
         IsFiniteSet(ts), IsFiniteSet(as), Commit(ts, as)
  PROVE  Inv'
<1> USE DEF Inv
<1>1. TypeOK'
  BY DEF TypeOK, Commit, Unique
<1>2. Finite'
  BY DEF Finite, Commit
<1>3. LookedUp'
  <2>1. Tagged(call, steady.tags) = {} => Tagged(call, steady.tags \intersect ts) = {}
    BY DEF Tagged
  <2> QED BY <2>1 DEF LookedUp, ResolvesTheLadder, Commit
<1> QED BY <1>1, <1>2, <1>3

LEMMA OthersKeep == ASSUME Inv, Appear \/ Disappear \/ Change PROVE Inv'
<1>1. /\ tags \in SUBSET TagRows /\ aliases \in SUBSET AliasRows
      /\ IsFiniteSet(tags) /\ IsFiniteSet(aliases)
  BY DEF Inv, TypeOK, Finite
<1>2. CASE Appear
  <2>1. ASSUME NEW t \in TagRows \ tags, Commit(tags \union {t}, aliases) PROVE Inv'
    <3>1. IsFiniteSet(tags \union {t}) /\ tags \union {t} \in SUBSET TagRows
      BY <1>1, FS_AddElement
    <3> QED BY <1>1, <2>1, <3>1, CommitKeeps
  <2>2. ASSUME NEW a \in AliasRows \ aliases, Commit(tags, aliases \union {a}) PROVE Inv'
    <3>1. IsFiniteSet(aliases \union {a}) /\ aliases \union {a} \in SUBSET AliasRows
      BY <1>1, FS_AddElement
    <3> QED BY <1>1, <2>2, <3>1, CommitKeeps
  <2> QED BY <1>2, <2>1, <2>2 DEF Appear
<1>3. CASE Disappear
  <2>1. ASSUME NEW t \in tags, Commit(tags \ {t}, aliases) PROVE Inv'
    BY <1>1, <2>1, CommitKeeps, FS_RemoveElement
  <2>2. ASSUME NEW gone \in SUBSET aliases, Commit(tags, aliases \ gone) PROVE Inv'
    <3>1. IsFiniteSet(aliases \ gone)
      BY <1>1, FS_Subset
    <3> QED BY <1>1, <2>2, <3>1, CommitKeeps
  <2> QED BY <1>3, <2>1, <2>2 DEF Disappear
<1>4. CASE Change
  <2>1. ASSUME NEW t \in tags, NEW u \in TagRows \ tags,
               Commit((tags \ {t}) \union {u}, aliases)
        PROVE  Inv'
    <3>1. IsFiniteSet((tags \ {t}) \union {u})
      BY <1>1, FS_RemoveElement, FS_AddElement
    <3> QED BY <1>1, <2>1, <3>1, CommitKeeps
  <2>2. ASSUME NEW a \in aliases, NEW b \in AliasRows \ aliases,
               Commit(tags, (aliases \ {a}) \union {b})
        PROVE  Inv'
    <3>1. IsFiniteSet((aliases \ {a}) \union {b})
      BY <1>1, FS_RemoveElement, FS_AddElement
    <3> QED BY <1>1, <2>2, <3>1, CommitKeeps
  <2> QED BY <1>4, <2>1, <2>2 DEF Change
<1> QED BY <1>2, <1>3, <1>4

LEMMA InvStep == Inv /\ [Next]_vars => Inv'
<1> SUFFICES ASSUME Inv, [Next]_vars PROVE Inv'
  OBVIOUS
<1>1. CASE Next
  BY <1>1, ResolveTagsKeeps, ResolveAliasesKeeps, FirstAliasKeeps, AliasOfIdKeeps,
     RespondKeeps, OthersKeep DEF Next
<1>2. CASE UNCHANGED vars
  BY <1>2 DEF vars, table, Inv, TypeOK, Finite, LookedUp, ResolvesTheLadder
<1> QED BY <1>1, <1>2

LEMMA AlwaysInv == Spec => []Inv
BY InvInit, InvStep, PTL DEF Spec

-----------------------------------------------------------------------------
(* The variables keep their types and no two aliases of one scope appear,  *)
(* whatever commits between the two statements of a resolution.            *)
THEOREM TypeCorrect == Spec => []TypeOK
<1>1. Inv => TypeOK
  BY DEF Inv
<1> QED BY <1>1, AlwaysInv, PTL

(* The answer to a slug is that of the documented ladder, for any tables,  *)
(* except in the gap between the two statements.                           *)
THEOREM LadderHolds == Spec => []ResolvesTheLadder
<1>1. Inv => ResolvesTheLadder
  BY DEF Inv, LookedUp
<1> QED BY <1>1, AlwaysInv, PTL

(* An alias reaches only tags that its request could have reached without  *)
(* it, by slug or by id.                                                   *)
THEOREM AliasesAreNoDetour == Spec => []AliasesWidenNothing
<1>1. ASSUME Inv PROVE AliasesWidenNothing
  <2> SUFFICES ASSUME pc = "answered", answer.kind = "alias" PROVE OnLadder(call, answer.target)
    BY DEF AliasesWidenNothing
  <2>1. CASE call.lookup = "alias_id"
    BY <1>1, <2>1, KindsOfAnswers DEF Inv, LookedUp
  <2>2. CASE call.lookup # "alias_id"
    <3>1. PICK ts \in SUBSET TagRows : answer = RightAnswer(call, ts, aliases)
      BY <1>1, <2>2 DEF Inv, LookedUp, ResolvesTheLadder, TypeOK
    <3>2. aliases \in SUBSET AliasRows
      BY <1>1 DEF Inv, TypeOK
    <3>3. answer \notin {Failure("several types"), Failure("none")} /\ \A t : answer # OfTag(t)
      BY KindsOfAnswers
    <3>4. \/ answer \in {Failure("several types"), Failure("none")}
          \/ \E t \in Tagged(call, ts) : answer = OfTag(t)
          \/ \E a \in Aliased(call, aliases) : answer = OfAlias(a)
      BY <3>1, <3>2, RightAnswers
    <3>5. PICK a \in Aliased(call, aliases) : answer = OfAlias(a)
      BY <3>3, <3>4
    <3> QED BY <3>5, KindsOfAnswers DEF Aliased
  <2> QED BY <2>1, <2>2
<1> QED BY <1>1, AlwaysInv, PTL

(* Only tags of several types are ambiguous, to a call that names none;    *)
(* aliases never are.                                                      *)
THEOREM AmbiguityIsOfTypes == Spec => []OnlyTypesAreAmbiguous
<1>1. ASSUME Inv PROVE OnlyTypesAreAmbiguous
  <2> DEFINE Few ==
        Cardinality(most_specific_matches(call, active_aliases_for_resolution(call))) <= 1
  <2>0. TypeOK /\ Finite /\ LookedUp /\ tags \in SUBSET TagRows /\ aliases \in SUBSET AliasRows
    BY <1>1 DEF Inv, TypeOK
  <2>1. pc # "idle" => Few
    BY <2>0, OneAlias DEF LookedUp
  <2>2. ASSUME NEW ts \in SUBSET TagRows, ts = tags \/ ts = {}, pc = "answered",
               answer = RightAnswer(call, ts, aliases), answer.kind = "several types"
        PROVE  call.type = AnyType
    <3>1. CASE ts = tags
      <4>1. Cardinality(IF call.lookup = "resolve" THEN Top(call, Tagged(call, tags)) ELSE {}) > 1
        BY <2>2, <3>1 DEF RightAnswer, Failure, OfTag, OfAlias
      <4>2. Cardinality({}) = 0
        BY FS_EmptySet
      <4>3. call.lookup = "resolve" /\ Cardinality(Top(call, Tagged(call, tags))) > 1
        BY <4>1, <4>2
      <4> QED BY <2>0, <2>2, <4>3, SeveralTypes DEF LookedUp, Finite
    <3>2. CASE ts = {}
      <4>1. Cardinality(IF call.lookup = "resolve" THEN Top(call, Tagged(call, {})) ELSE {}) > 1
        BY <2>2, <3>2 DEF RightAnswer, Failure, OfTag, OfAlias
      <4>2. Cardinality({}) = 0 /\ Top(call, Tagged(call, {})) = {}
        BY FS_EmptySet DEF Top, Tagged
      <4> QED BY <4>1, <4>2
    <3> QED BY <2>2, <3>1, <3>2
  <2> SUFFICES /\ answer.kind # "several applications"
               /\ answer.kind = "several types" => call.type = AnyType
    BY <2>1 DEF OnlyTypesAreAmbiguous
  <2> HIDE DEF Few
  <2>3. CASE pc # "answered"
    BY <2>0, <2>3, KindsOfAnswers DEF LookedUp
  <2>4. CASE pc = "answered" /\ call.lookup = "alias_id"
    BY <2>0, <2>4, KindsOfAnswers DEF LookedUp
  <2>5. CASE pc = "answered" /\ call.lookup # "alias_id"
    <3>1. PICK ts \in SUBSET TagRows :
            (ts = tags \/ ts = {}) /\ answer = RightAnswer(call, ts, aliases)
      BY <2>0, <2>5 DEF LookedUp, ResolvesTheLadder
    <3>2. answer.kind # "several applications"
      <4>1. \/ answer \in {Failure("several types"), Failure("none")}
            \/ \E t : answer = OfTag(t)
            \/ \E a : answer = OfAlias(a)
        BY <2>0, <3>1, RightAnswers
      <4> QED BY <4>1, KindsOfAnswers
    <3>3. answer.kind = "several types" => call.type = AnyType
      BY <2>2, <2>5, <3>1
    <3> QED BY <3>2, <3>3
  <2> QED BY <2>3, <2>4, <2>5
<1> QED BY <1>1, AlwaysInv, PTL

(* A row that matched from the first statement to the answer is not lost:  *)
(* it is answered, or one at least as specific is.                         *)
THEOREM StableRowsHold == Spec => []StableRowsAreFound
<1>1. ASSUME Inv PROVE StableRowsAreFound
  <2> SUFFICES ASSUME pc = "answered", call.lookup # "alias_id"
               PROVE  /\ \A t \in Tagged(call, steady.tags) : call.lookup = "resolve" =>
                           \/ answer.kind = "tag" /\ Rung(call, answer.scope) <= Rung(call, t.scope)
                           \/ answer.kind = "several types"
                      /\ \A a \in Aliased(call, steady.aliases) :
                           \/ answer.kind \in {"tag", "several types"}
                           \/ /\ answer.kind = "alias"
                              /\ Rung(call, answer.scope) <= Rung(call, a.scope)
    BY DEF StableRowsAreFound
  <2>0. /\ tags \in SUBSET TagRows /\ aliases \in SUBSET AliasRows /\ Named(call)
        /\ steady.tags \subseteq tags /\ steady.aliases \subseteq aliases
    BY <1>1 DEF Inv, TypeOK, LookedUp
  <2>1. /\ Tagged(call, steady.tags) \subseteq Tagged(call, tags)
        /\ Aliased(call, steady.aliases) \subseteq Aliased(call, aliases)
    BY <2>0 DEF Tagged, Aliased
  <2>2. \/ answer = RightAnswer(call, tags, aliases)
        \/ Tagged(call, steady.tags) = {} /\ answer = RightAnswer(call, {}, aliases)
    BY <1>1 DEF Inv, LookedUp, ResolvesTheLadder
  <2>3. \A ts : LET canonical == IF call.lookup = "resolve" THEN Top(call, Tagged(call, ts)) ELSE {}
                    alias == Top(call, Aliased(call, aliases))
                IN RightAnswer(call, ts, aliases) =
                     IF Cardinality(canonical) > 1 THEN Failure("several types")
                     ELSE IF canonical # {} THEN OfTag(CHOOSE t \in canonical : TRUE)
                     ELSE IF alias # {} THEN OfAlias(CHOOSE a \in alias : TRUE)
                     ELSE Failure("none")
    BY DEF RightAnswer
  <2>4. ASSUME NEW t \in Tagged(call, steady.tags), call.lookup = "resolve"
        PROVE  \/ answer.kind = "tag" /\ Rung(call, answer.scope) <= Rung(call, t.scope)
               \/ answer.kind = "several types"
    <3> DEFINE T == Top(call, Tagged(call, tags))
    <3>1. T # {} /\ \A r \in T : Rung(call, r.scope) <= Rung(call, t.scope)
      <4>1. \A r \in Tagged(call, tags) : r.scope \in Scopes /\ OnLadder(call, r.scope)
        BY <2>0, TaggedIsAdmitted
      <4> QED BY <2>0, <2>1, <4>1, TopIsMostSpecific DEF Top
    <3>2. answer = RightAnswer(call, tags, aliases)
      BY <2>2
    <3> HIDE DEF T
    <3>3. answer = IF Cardinality(T) > 1 THEN Failure("several types")
                   ELSE OfTag(CHOOSE r \in T : TRUE)
      BY <2>3, <2>4, <3>1, <3>2 DEF T
    <3> DEFINE chosen == CHOOSE r \in T : TRUE
    <3>4. Rung(call, chosen.scope) <= Rung(call, t.scope)
      BY <3>1
    <3>5. answer = Failure("several types") \/ answer = OfTag(chosen)
      BY <3>3
    <3> HIDE DEF chosen
    <3> QED BY <3>4, <3>5, KindsOfAnswers
  <2>5. ASSUME NEW a \in Aliased(call, steady.aliases)
        PROVE  \/ answer.kind \in {"tag", "several types"}
               \/ answer.kind = "alias" /\ Rung(call, answer.scope) <= Rung(call, a.scope)
    <3> DEFINE A == Top(call, Aliased(call, aliases))
    <3>1. A # {} /\ \A r \in A : Rung(call, r.scope) <= Rung(call, a.scope)
      <4>1. \A r \in Aliased(call, aliases) : r.scope \in Scopes /\ OnLadder(call, r.scope)
        BY <2>0, AliasedIsAdmitted
      <4>2. a \in Aliased(call, aliases)
        BY <2>1
      <4>3. A # {}
        BY <2>0, <4>1, <4>2, TopIsMostSpecific
      <4> QED BY <4>2, <4>3 DEF Top
    <3> HIDE DEF A
    <3>2. \/ answer = Failure("several types") \/ \E t : answer = OfTag(t)
          \/ answer = OfAlias(CHOOSE b \in A : TRUE)
      BY <2>2, <2>3, <3>1 DEF A
    <3> DEFINE chosen == CHOOSE b \in A : TRUE
    <3>3. chosen \in A
      BY <3>1
    <3>4. Rung(call, chosen.scope) <= Rung(call, a.scope)
      BY <3>1, <3>3
    <3>5. answer = Failure("several types") \/ (\E t : answer = OfTag(t)) \/ answer = OfAlias(chosen)
      BY <3>2
    <3> HIDE DEF chosen
    <3>6. CASE answer = OfAlias(chosen)
      <4>1. answer.kind = "alias" /\ answer.scope = chosen.scope
        BY <3>6, KindsOfAnswers
      <4> QED BY <3>4, <4>1
    <3>7. CASE answer = Failure("several types") \/ \E t : answer = OfTag(t)
      BY <3>7, KindsOfAnswers
    <3> QED BY <3>5, <3>6, <3>7
  <2> QED BY <2>4, <2>5
<1> QED BY <1>1, AlwaysInv, PTL

=============================================================================
