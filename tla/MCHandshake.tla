----------------------------- MODULE MCHandshake -----------------------------
(***************************************************************************)
(* Instances of Handshake for TLC.                                         *)
(***************************************************************************)
EXTENDS Handshake

Profile(v, test, fn) == [version |-> v, testnet |-> test, fn |-> fn]
Dials(d, a) == [n \in Nodes |-> IF n = Dialer THEN d ELSE a]

Plain == Profile(1, FALSE, FALSE)

\* A client dials a full node, a node dials one of another network, and nodes of
\* different versions dial each other.
MCPairs ==
    {Dials(Plain, Profile(1, FALSE, TRUE)), Dials(Plain, Profile(1, TRUE, FALSE)),
     Dials(Plain, Profile(2, FALSE, FALSE)), Dials(Profile(2, FALSE, FALSE), Plain)}
=============================================================================
