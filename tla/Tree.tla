-------------------------------- MODULE Tree --------------------------------
(***************************************************************************)
(* The spanning tree the runtime's collective operations run over          *)
(* (vt::collective::tree::Tree): nodes are numbered 0 .. NumNodes-1, node  *)
(* 0 is the root, and node n has the children 2n+1 and 2n+2 that exist.    *)
(***************************************************************************)
EXTENDS Integers

CONSTANT NumNodes

ASSUME NumNodesAssumption == NumNodes \in Nat \ {0}

Node == 0 .. NumNodes - 1

Root == 0

IsChild(c, p) == c \in Node /\ (c = 2 * p + 1 \/ c = 2 * p + 2)

Children(p) == {c \in Node : IsChild(c, p)}

\* children_.size() of node p.
NumChildren(p) ==
  (IF 2 * p + 1 < NumNodes THEN 1 ELSE 0) + (IF 2 * p + 2 < NumNodes THEN 1 ELSE 0)

Parent(c) == (c - 1) \div 2
=============================================================================
