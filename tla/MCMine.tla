-------------------------------- MODULE MCMine --------------------------------
(***************************************************************************)
(* Instances of Mine for TLC: two accounts and the transactions in which   *)
(* the interesting cases meet.                                             *)
(***************************************************************************)
EXTENDS Mine

CONSTANTS A, B

In(prev, sig) == [prev |-> prev, pos |-> 0, sig |-> sig]
Mint(key) == [prev |-> Null, pos |-> NoPosition, sig |-> key]
Out(val, key) == [val |-> val, key |-> key]
Tx(ins, outs) == [lock |-> 0, ins |-> ins, outs |-> outs]

\* Two outputs for one account.
Reward == Tx(<<Mint(A)>>, <<Out(2, A), Out(1, A)>>)
\* A value that cannot be read back, and its spending.
Fortune == Tx(<<Mint(A)>>, <<Out(4, B)>>)
Squander == Tx(<<In(Hash(Fortune), B)>>, <<Out(1, A)>>)

Pay == Tx(<<In(Hash(Reward), A)>>, <<Out(1, B), Out(1, A)>>)
\* Both outputs of the reward at once.
Merge == Tx(<<In(Hash(Reward), A), In(Hash(Reward), A)>>, <<Out(3, B)>>)
\* Two transactions with one hash: prev does not count.
Change == Tx(<<In(Hash(Reward), A)>>, <<Out(1, B)>>)
ChangeAgain == Tx(<<In(Hash(Change), A)>>, <<Out(1, B)>>)
\* Pays out more than it consumes.
Overdraw == Tx(<<In(Hash(Reward), A)>>, <<Out(6, B), Out(2, A)>>)

MCTxs == {Reward, Fortune, Squander, Pay, Merge, Change, ChangeAgain, Overdraw}
=============================================================================
