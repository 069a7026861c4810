------------------------------ MODULE BlockStore ------------------------------
(***************************************************************************)
(* What a node's block storage promises: each chain has a sequence of      *)
(* blocks that only grows.  A block is stored once, in the order in which  *)
(* the blocks were handed over, and what can be read under a number never  *)
(* changes.  A block whose bytes the disk did not take is Lost; its number *)
(* is used up, and nothing else suffers.                                   *)
(***************************************************************************)
EXTENDS Integers, SequencesExt

CONSTANTS
    Chains,
    Blocks,           \* blocks that may be stored
    Older(_, _),      \* the order in which they are handed over
    Lost

VARIABLE store

Init == store = [c \in Chains |-> <<>>]

Newest(c, b) == \A i \in DOMAIN store[c] : store[c][i] # Lost => Older(store[c][i], b)

Store(c) ==
    \E b \in Blocks \cup {Lost} :
        /\ b # Lost => Newest(c, b)
        /\ store' = [store EXCEPT ![c] = Append(@, b)]

Spec == Init /\ [][\E c \in Chains : Store(c)]_store
=============================================================================
