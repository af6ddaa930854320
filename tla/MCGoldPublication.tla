------------------------- MODULE MCGoldPublication -------------------------
(* Values of the constants for model checking GoldPublication. *)
EXTENDS GoldPublication

MCVersions == {1, 2}
=============================================================================
