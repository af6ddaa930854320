--------------------- MODULE MCProductionReconstruction ---------------------
\* Instances of ProductionReconstruction for TLC.
EXTENDS ProductionReconstruction

MCTwo == {"alice", "bob"}
=============================================================================
