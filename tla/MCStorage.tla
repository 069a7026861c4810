------------------------------ MODULE MCStorage ------------------------------
(* Small instances of Storage for TLC. *)
EXTENDS Storage

\* A fault of the disk or a kill, then another one while the node starts again.
MCOwnGenesis == {1}
MCNets == {"main", "test"}
MCRawMaxes == {0, 3}
MCLengths == {2}
=============================================================================
