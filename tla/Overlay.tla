------------------------------ MODULE Overlay ------------------------------
(***************************************************************************)
(* How maps, rows and patches are updated: one function laid over another. *)
(***************************************************************************)

\* The entries of f, and those of g that f does not have.
Over(f, g) == [x \in DOMAIN f \cup DOMAIN g |-> IF x \in DOMAIN f THEN f[x] ELSE g[x]]

\* A single entry, to lay over a map.
Entry(x, v) == [y \in {x} |-> v]

=============================================================================
