----------------------------- MODULE MCCatalog -----------------------------
(* Catalog on small tables; the identifiers of a table are interchangeable. *)
EXTENDS Catalog, FiniteSets, TLC

CONSTANT MaxEdits   \* bound on the rows of the <entity>_edit table

Symmetry == Permutations(Editgroup) \cup Permutations(Ident) \cup Permutations(Rev)

FewEdits == Cardinality({<<g, i>> \in Editgroup \X Ident : edit[g][i] # NULL}) <= MaxEdits

=============================================================================
