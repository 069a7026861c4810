------------------------------ MODULE UtxoLedger ------------------------------
(***************************************************************************)
(* What a chain of currency transactions promises.  A block takes effect   *)
(* as a whole.  It is a set of transactions that consume outputs which     *)
(* were unspent before the block, no output twice; at most one of them is  *)
(* a coinbase, and the others give out no more than they consume.          *)
(***************************************************************************)
EXTENDS Integers, FiniteSets

CONSTANTS
    Txs,           \* transactions
    Coinbases,     \* those that mint
    Inputs(_),     \* the outputs a transaction consumes
    Outputs(_),    \* the outputs it creates
    Worth(_)       \* the value of a set of outputs

VARIABLES
    utxo,          \* the unspent outputs
    blocks         \* how many blocks took effect

Acceptable(block) ==
    /\ Cardinality(block \cap Coinbases) <= 1
    /\ \A t \in block \ Coinbases :
         /\ Inputs(t) \subseteq utxo
         /\ Worth(Outputs(t)) <= Worth(Inputs(t))
    /\ \A t, u \in block \ Coinbases : t # u => Inputs(t) \cap Inputs(u) = {}

\* An output that one transaction of the block consumes and another creates
\* anew may be there afterwards or not.
Effects(block) ==
    LET spent == UNION {Inputs(t) : t \in block \ Coinbases}
        created == UNION {Outputs(t) : t \in block}
    IN {(utxo \ spent) \cup (created \ lost) : lost \in SUBSET (created \cap spent)}

Init == utxo = {} /\ blocks = 0

ApplyBlock ==
    /\ \E block \in SUBSET Txs : Acceptable(block) /\ utxo' \in Effects(block)
    /\ blocks' = blocks + 1

Spec == Init /\ [][ApplyBlock]_<<utxo, blocks>>
=============================================================================
