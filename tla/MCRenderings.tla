---------------------------- MODULE MCRenderings ----------------------------
(* What the planner and the renderers compute for the schemas and the      *)
(* documents of MCDocuments, each once.                                    *)
EXTENDS MCDocuments

ThePlan(s) == Plan(s, Root, Id)

TheModels ==
  [s \in WholeSchemas \cup ReplacedSchemas |->
     [fails |-> PlanFails(s, Root, Id), root |-> ThePlan(s), tables |-> TableOrder(ThePlan(s))]]

TheRenderings ==
  [d \in WholeDocuments \cup ReplacedDocuments |-> Rendering(TheModels[d.schema].root, d)]

TheKeyOf(d) == DocumentKey(d, Id)

TheCells ==
  [d \in WholeDocuments \cup ReplacedDocuments |-> DocumentCells(d, Root, Id)]

TheCellsOf(d) == TheCells[d]
=============================================================================
