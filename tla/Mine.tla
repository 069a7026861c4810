--------------------------------- MODULE Mine ---------------------------------
(***************************************************************************)
(* Mine::processBlock (MCP/MCP02/Mine.cpp) on the database of its chain:   *)
(* which outputs are unspent, what each account's list of them is, and how *)
(* high the chain is.  A block's transactions are checked against the      *)
(* database while their effects are put into a batch; the batch is written *)
(* at once, and then the block is stored (SubChain::saveBlock,             *)
(* StorageManager::writeRaw).  The process may stop between any two steps. *)
(*                                                                         *)
(* processBlock is the interface for blocks of any origin; initGenesis is  *)
(* its only caller so far.  Blocks whose size or hash, or one of whose     *)
(* transactions' hashes, is wrong are refused before anything is done and  *)
(* do not occur here.                                                      *)
(***************************************************************************)
EXTENDS Integers, SequencesExt, Functions, FiniteSetsExt

CONSTANTS
    Txs,         \* transactions that occur in blocks
    Keys,        \* accounts
    Null,        \* the null hash
    Modulus,     \* 2^64: sums of values are taken modulo this
    ReadLimit,   \* 2^32: values are read back as unsigned int
    MaxTxs,      \* bound of the model: transactions in a block
    MaxBlocks    \* bound of the model: blocks begun

ASSUME BoundsAssumption ==
    /\ Modulus \in Nat \ {0} /\ ReadLimit \in Nat
    /\ MaxTxs \in Nat /\ MaxBlocks \in Nat

\* The inputs and the outputs of a transaction are sequences, and values unsigned.
Entries(s) == {s[i] : i \in DOMAIN s}

ASSUME TxAssumption ==
    \A tx \in Txs :
        /\ tx.ins \in Seq(Entries(tx.ins)) /\ tx.outs \in Seq(Entries(tx.outs))
        /\ \A i \in DOMAIN tx.outs : tx.outs[i].val \in Nat

\* A transaction has inputs [prev, pos, sig] and outputs [val, key].  Its hash
\* is taken over the serialized transaction; the hashes in it have no class
\* version, so they are not serialized, and prev does not count.
Hash(tx) ==
    [lock |-> tx.lock, outs |-> tx.outs,
     ins |-> [i \in DOMAIN tx.ins |-> [pos |-> tx.ins[i].pos,
                                       sig |-> tx.ins[i].sig]]]

\* One input, with an empty reference.
NoPosition == 2^16 - 1
IsCoinBase(tx) ==
    /\ Len(tx.ins) = 1
    /\ tx.ins[1].prev = Null
    /\ tx.ins[1].pos = NoPosition

\* The database key of an output, less its prefix and suffix.
Ident(hash, pos) == [hash |-> hash, pos |-> pos]

\* The idents of the inputs.  The position is that of the input in its own
\* transaction; the one it names is not used.
InIdents(tx) == [i \in DOMAIN tx.ins |-> Ident(tx.ins[i].prev, i - 1)]
OutIdents(tx) == [i \in DOMAIN tx.outs |-> Ident(Hash(tx), i - 1)]

\* What is stored as the value of an ident; it follows from the hash.
Val(id) == id.hash.outs[id.pos + 1].val

VARIABLES
    unspent,     \* idents with ".spent" in the database
    accounts,    \* "txU." entries: for each key, hash -> position
    height,      \* "last_block"
    pc,          \* idle, block (batch open), commit, or save
    batch,       \* the database as it will be once the batch is written
    spendings,   \* usetSpendings
    coinbase,    \* bCoinbase
    done,        \* number of transactions of the block that were looked at
    begun,       \* blocks begun
    commits,     \* history: batches written
    lost,        \* history: batches whose writing failed
    minting,     \* history: value of the coinbase in the batch
    minted       \* history: value of all coinbases written

vars == <<unspent, accounts, height, pc, batch, spendings, coinbase, done, begun,
          commits, lost, minting, minted>>
db == <<unspent, accounts, height>>

EmptyMap == [h \in {} |-> 0]

Init ==
    /\ unspent = {}
    /\ accounts = [k \in Keys |-> EmptyMap]
    /\ height = 0
    /\ pc = "idle"
    /\ batch = [unspent |-> {}, accounts |-> [k \in Keys |-> EmptyMap]]
    /\ spendings = {}
    /\ coinbase = FALSE
    /\ done = 0
    /\ begun = 0
    /\ commits = 0
    /\ lost = 0
    /\ minting = 0
    /\ minted = 0

-----------------------------------------------------------------------------
(* The checks of one transaction *)

\* Mutant: spendings within the block are not remembered.
RefusedUnlessInDB(id) == id \notin unspent
RefusedInput(id) == id \in spendings \/ id \notin unspent

\* The inputs are looked at up to the first that is refused.
LookedAt(tx) ==
    LET ids == InIdents(tx)
        refused == {i \in DOMAIN ids : RefusedInput(ids[i])}
        last == IF refused = {} THEN Len(ids)
                ELSE CHOOSE i \in refused : \A j \in refused : i <= j
    IN SubSeq(ids, 1, last)

InputsFree(tx) == \A i \in DOMAIN tx.ins : ~RefusedInput(InIdents(tx)[i])

\* A value that does not fit throws, and nobody catches it.
Unreadable(tx) ==
    \E id \in ToSet(LookedAt(tx)) : ~RefusedInput(id) /\ Val(id) >= ReadLimit

ValIncoming(tx) == FoldSeq(LAMBDA id, s : (s + Val(id)) % Modulus, 0, InIdents(tx))
\* Mutant: one output is not counted.
ValOutgoingOfRest(tx) ==
    FoldSeq(LAMBDA o, s : (s + o.val) % Modulus, 0, Tail(tx.outs))
ValOutgoing(tx) == FoldSeq(LAMBDA o, s : (s + o.val) % Modulus, 0, tx.outs)

\* Step 5: the accounts a transaction touches, read from the database, without
\* the hashes it spends and with its own hash, at the position of the first
\* output that goes to the account.
Touched(tx) ==
    {tx.outs[i].key : i \in DOMAIN tx.outs}
      \cup (IF IsCoinBase(tx) THEN {}
            ELSE {tx.ins[i].sig : i \in DOMAIN tx.ins})

\* Mutant: positions are counted from one.
FirstFromOne(paid) == CHOOSE i \in paid : \A j \in paid : i <= j
First(paid) == (CHOOSE i \in paid : \A j \in paid : i <= j) - 1

AccountAfter(tx, k) ==
    LET spent == IF IsCoinBase(tx) THEN {}
                 ELSE {tx.ins[i].prev : i \in {j \in DOMAIN tx.ins :
                                                 tx.ins[j].sig = k}}
        kept == Restrict(accounts[k], DOMAIN accounts[k] \ spent)
        paid == {i \in DOMAIN tx.outs : tx.outs[i].key = k}
    IN IF paid = {} \/ Hash(tx) \in DOMAIN kept THEN kept
       ELSE [h \in DOMAIN kept \cup {Hash(tx)} |->
               IF h \in DOMAIN kept THEN kept[h]
               ELSE First(paid)]

\* Steps 3 to 5.
Batched(tx) ==
    [unspent |-> (batch.unspent \ (IF IsCoinBase(tx) THEN {}
                                   ELSE ToSet(InIdents(tx))))
                   \cup ToSet(OutIdents(tx)),
     accounts |-> [k \in Keys |-> IF k \in Touched(tx) THEN AccountAfter(tx, k)
                                  ELSE batch.accounts[k]]]

-----------------------------------------------------------------------------
(* processBlock *)

\* An empty batch is opened.
BeginBlock ==
    /\ pc = "idle"
    /\ begun < MaxBlocks
    /\ pc' = "block"
    /\ batch' = [unspent |-> unspent, accounts |-> accounts]
    /\ spendings' = {}
    /\ coinbase' = FALSE
    /\ done' = 0
    /\ begun' = begun + 1
    /\ minting' = 0
    /\ UNCHANGED <<db, commits, lost, minted>>

\* The next transaction of the block is tx.
NextTx(tx) == pc = "block" /\ done < MaxTxs /\ done' = done + 1

AcceptCoinBase(tx) ==
    /\ NextTx(tx)
    /\ IsCoinBase(tx)
    /\ ~coinbase
    /\ coinbase' = TRUE
    /\ batch' = Batched(tx)
    /\ minting' = FoldSeq(LAMBDA o, s : s + o.val, 0, tx.outs)
    /\ UNCHANGED <<db, pc, spendings, begun, commits, lost, minted>>

\* A second coinbase ends the whole block; its batch is left behind.
RefuseBlock(tx) ==
    /\ NextTx(tx)
    /\ IsCoinBase(tx)
    /\ coinbase
    /\ pc' = "idle"
    /\ UNCHANGED <<db, batch, spendings, coinbase, begun, commits, lost, minting,
                   minted>>

AcceptTx(tx) ==
    /\ NextTx(tx)
    /\ ~IsCoinBase(tx)
    /\ InputsFree(tx)
    /\ ~Unreadable(tx)
    /\ ValOutgoing(tx) <= ValIncoming(tx)
    /\ spendings' = spendings \cup ToSet(InIdents(tx))
    /\ batch' = Batched(tx)
    /\ UNCHANGED <<db, pc, coinbase, begun, commits, lost, minting,
                   minted>>

\* A dismissed transaction leaves the inputs that were looked at in spendings.
DismissTx(tx) ==
    /\ NextTx(tx)
    /\ ~IsCoinBase(tx)
    /\ ~Unreadable(tx)
    /\ ~InputsFree(tx) \/ ValOutgoing(tx) > ValIncoming(tx)
    /\ spendings' = spendings \cup ToSet(LookedAt(tx))
    /\ UNCHANGED <<db, pc, batch, coinbase, begun, commits, lost, minting,
                   minted>>

\* The process stops and starts again with what the database has.
Restart ==
    /\ pc' = "idle"
    /\ UNCHANGED <<db, batch, spendings, coinbase, begun, commits, lost, minting,
                   minted>>

ThrowAt(tx) ==
    /\ NextTx(tx)
    /\ ~IsCoinBase(tx)
    /\ Unreadable(tx)
    /\ Restart

\* A saveBlock that fails also ends here: last_block stays as it is.
Crash == pc # "idle" /\ Restart /\ UNCHANGED done

\* Mutant: the block is stored before its batch is written.
AfterStoreFirst(step) ==
    CASE step = "block" -> "save" [] step = "save" -> "commit" [] OTHER -> "idle"
After(step) ==
    CASE step = "block" -> "commit" [] step = "commit" -> "save" [] OTHER -> "idle"

EndBlock ==
    /\ pc = "block"
    /\ pc' = After(pc)
    /\ UNCHANGED <<db, batch, spendings, coinbase, done, begun, commits, lost, minting,
                   minted>>

\* batchFinalize writes the batch as a whole.
Finalize ==
    /\ pc = "commit"
    /\ pc' = After(pc)
    /\ unspent' = batch.unspent
    /\ accounts' = batch.accounts
    /\ commits' = commits + 1
    /\ minted' = minted + minting
    /\ UNCHANGED <<height, batch, spendings, coinbase, done, begun, lost, minting>>

\* The status of the write is not looked at: the block is stored all the same.
FinalizeFails ==
    /\ pc = "commit"
    /\ pc' = After(pc)
    /\ lost' = lost + 1
    /\ UNCHANGED <<db, batch, spendings, coinbase, done, begun, commits, minting,
                   minted>>

\* saveBlock: the block gets the next number.
SaveBlock ==
    /\ pc = "save"
    /\ pc' = After(pc)
    /\ height' = height + 1
    /\ UNCHANGED <<unspent, accounts, batch, spendings, coinbase, done, begun,
                   commits, lost, minting, minted>>

Next ==
    \/ BeginBlock \/ EndBlock \/ Finalize \/ FinalizeFails \/ SaveBlock \/ Crash
    \/ \E tx \in Txs : \/ AcceptCoinBase(tx) \/ RefuseBlock(tx) \/ AcceptTx(tx)
                       \/ DismissTx(tx) \/ ThrowAt(tx)

Spec == Init /\ [][Next]_vars

-----------------------------------------------------------------------------
(* Properties *)

Idents == UNION {ToSet(OutIdents(tx)) : tx \in Txs}
Hashes == {Hash(tx) : tx \in Txs}

\* The positions that account k may note for hash h.
PositionsOf(h, k) == {i - 1 : i \in {j \in DOMAIN h.outs : h.outs[j].key = k}}

AccountsType(accs) ==
    /\ DOMAIN accs = Keys
    /\ \A k \in Keys : /\ DOMAIN accs[k] \subseteq Hashes
                       /\ \A h \in DOMAIN accs[k] : accs[k][h] \in PositionsOf(h, k)

\* The type invariant; a position in an account's list is that of an output
\* which goes to the account (steps 4 and 5 of processBlock).
TypeOK ==
    /\ unspent \subseteq Idents
    /\ AccountsType(accounts)
    /\ batch.unspent \subseteq Idents
    /\ AccountsType(batch.accounts)
    /\ pc \in {"idle", "block", "commit", "save"}
    /\ coinbase \in BOOLEAN
    /\ done \in 0..MaxTxs
    /\ begun \in 0..MaxBlocks
    /\ {height, commits, lost, minting, minted} \subseteq Nat

Worth(ids) == FoldSet(LAMBDA id, s : s + Val(id), 0, ids)

\* No sequence of blocks, good or bad, whole or interrupted, leaves more value
\* unspent than the coinbases of the written blocks created: step 2 of
\* processBlock together with the batch.
SupplyBounded == Worth(unspent) <= minted

\* A block that is counted in last_block had its transactions written, unless
\* the database failed to write them: a stop between batchFinalize and saveBlock
\* loses the block's number, never its effects.
HeightNotAhead == height <= commits + lost

Ledger == INSTANCE UtxoLedger
    WITH Coinbases <- {tx \in Txs : IsCoinBase(tx)},
         Inputs <- LAMBDA tx : ToSet(InIdents(tx)),
         Outputs <- LAMBDA tx : ToSet(OutIdents(tx)),
         utxo <- unspent, blocks <- commits

\* A block takes effect as a whole or not at all, and what takes effect consumes
\* unspent outputs, none twice, and pays out no more than it consumes, whatever
\* is refused, dismissed or interrupted on the way.
LedgerSpec == Ledger!Spec

\* What Account.h says of umapUnspentTX: the unspent transactions of the account.
AccountListsUnspent ==
    \A k \in Keys :
        DOMAIN accounts[k] = {id.hash : id \in {i \in unspent :
                                  i.hash.outs[i.pos + 1].key = k}}
=============================================================================
