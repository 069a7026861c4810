----------------------------- MODULE MCPeerTable -----------------------------
(***************************************************************************)
(* Instances of PeerTable for TLC.  Outbound addresses are interchangeable *)
(* as long as none of them is banned.                                      *)
(***************************************************************************)
EXTENDS PeerTable, TLC

Symmetry == Permutations(OutPeers) \cup Permutations(InPeers)
=============================================================================
