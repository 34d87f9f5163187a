---------------------------- MODULE MCModelCatalog ----------------------------
\* Small instances of ModelCatalog for TLC.
EXTENDS ModelCatalog, TLC

\* Handlers are interchangeable, and so are models, names and tasks; used with invariants only.
Symmetry == Permutations(Handlers) \cup Permutations(Models)
            \cup Permutations(Names) \cup Permutations(Tasks)
=============================================================================
