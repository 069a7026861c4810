------------------------------- MODULE MCFraming -------------------------------
(* Small instances of Framing for TLC. *)
EXTENDS Framing

CONSTANTS n1, n2

\* Two messages one way, and one the other way.
MCNode == {n1, n2}
MCMaxMessages == [n \in MCNode |-> IF n = n1 THEN 2 ELSE 1]

\* Messages without payload and with one that can be split.
MCPayloadLens == {0, 2}

\* A garbled header without payload, with some, and with too much.
MCWrongLens == {0, 1, 3}
================================================================================
