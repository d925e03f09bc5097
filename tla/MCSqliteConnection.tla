-------------------------- MODULE MCSqliteConnection --------------------------
(* A small instance of SqliteConnection. *)
EXTENDS SqliteConnection, TLC

CONSTANTS k1, k2, k3

Symmetry == Permutations(Calls)

\* One row or two; two calls of the same program, or of the first and the last,
\* are a race for a key.
SmallPrograms == {<<k1>>, <<k2>>, <<k3, k1>>}
=============================================================================
