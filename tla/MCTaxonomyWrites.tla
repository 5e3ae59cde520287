--------------------------- MODULE MCTaxonomyWrites ---------------------------
(* Small instances of TaxonomyWrites for TLC: tag t1 is shared and global; *)
(* vocabulary v1, tag t2 and alias a1 belong to one merchant of one        *)
(* application: t2 fits in v1, t1 does not, and a1 may point at either.    *)
EXTENDS TaxonomyWrites, TLC

CONSTANTS v1, t1, t2, a1, s1, s2, app, merchant

MCApp == [x \in Rows |-> IF x = t1 THEN Shared ELSE app]
MCNs == [x \in Rows |-> IF x = t1 THEN Global ELSE merchant]

Table(active, slug, link) ==
  [x \in Rows |-> IF x \in DOMAIN slug
                  THEN [active |-> x \in active, slug |-> slug[x], link |-> link[x]]
                  ELSE Missing]

(* An alias of t1 and a vocabulary; t2 is yet to be created.               *)
Populated ==
  Table({v1, t1, a1}, [x \in {v1, t1, a1} |-> s1],
        [x \in {v1, t1, a1} |-> IF x = a1 THEN t1 ELSE NoRow])
(* After deletions: what reactivations start from.                         *)
Dormant ==
  Table({v1, t1}, [x \in Rows |-> IF x = t2 THEN s2 ELSE s1],
        [x \in Rows |-> IF x = a1 THEN t1 ELSE IF x = t2 THEN v1 ELSE NoRow])
(* Both tags are active and the alias of one of them is not: what calls    *)
(* that re-point it while it is being reactivated start from.              *)
Retired ==
  Table({v1, t1, t2}, [x \in Rows |-> IF x = t2 THEN s2 ELSE s1],
        [x \in Rows |-> IF x = a1 THEN t1 ELSE IF x = t2 THEN v1 ELSE NoRow])
(* Only t1: what creations start from.                                     *)
Bare == Table({t1}, [x \in {t1} |-> s1], [x \in {t1} |-> NoRow])

(* All rows of one merchant, so that slugs can clash: an inactive tag in a *)
(* vocabulary, beside which another can be created; two active tags, and an*)
(* inactive alias that can be re-pointed between them.                     *)
OneApp == [x \in Rows |-> app]
OneNs == [x \in Rows |-> merchant]
Shelved == Table({v1}, [x \in {v1, t1} |-> s1],
                 [x \in {v1, t1} |-> IF x = t1 THEN v1 ELSE NoRow])
OneMerchant == {Retired, Shelved}

AllTables == {Populated, Dormant, Retired, Bare}
OnlyPopulated == {Populated}

RequestSymmetry == Permutations(Requests)
=============================================================================
