------------------------- MODULE MCSchemaMigrations -------------------------
(* Values of the constants for model checking SchemaMigrations. *)
EXTENDS SchemaMigrations, TLC

MCSymmetry == Permutations(Admins)
=============================================================================
