--------------------------------- MODULE MCNode --------------------------------
(* Small instances of Node for TLC. *)
EXTENDS Node

\* A release: the executable and one more file.
MCFiles == {"node", "lib"}
================================================================================
