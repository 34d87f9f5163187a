----------------------------- MODULE MCUserRoles -----------------------------
\* Small instances of UserRoles for TLC.
EXTENDS UserRoles, TLC

CONSTANTS admin, user

\* Handlers are interchangeable; used with invariants only.
Symmetry == Permutations(Handlers)
=============================================================================
