----------------------------- MODULE MCAdminBulk -----------------------------
(* Instances of AdminBulk for TLC.                                         *)
EXTENDS AdminBulk, TLC
CONSTANTS v1, t1, t2, a1, a2, s1, s2

(* The two tags share a vocabulary, each has an alias; every activity that *)
(* a table may have.                                                       *)
MCLinks == [x \in Rows |-> IF x \in Tags THEN v1 ELSE IF x = a1 THEN t1
                           ELSE IF x = a2 THEN t2 ELSE NoRow]
MCTables ==
  {[x \in Rows |-> [active |-> x \in on, link |-> MCLinks[x]]] :
     on \in {on \in SUBSET Rows : /\ Assignments \subseteq on
                                  /\ \A a \in Aliases \intersect on : MCLinks[a] \in on}}
RequestSymmetry == Permutations(Requests)
=============================================================================
