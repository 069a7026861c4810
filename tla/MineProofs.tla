------------------------------ MODULE MineProofs ------------------------------
(***************************************************************************)
(* Proofs about Mine, for every set of transactions and accounts, whatever *)
(* the values are worth, and for any number of blocks.  What is said about *)
(* sums of values assumes that none of them wraps (NoOverflow).            *)
(***************************************************************************)
EXTENDS Mine, Induction

Places == {"idle", "block", "commit", "save"}

\* What processBlock has done of a block when the process is at a step of it.
CountsInv ==
    /\ height \in Nat /\ commits \in Nat /\ lost \in Nat
    /\ pc \in Places

\* A block is only stored once its batch was written, or its writing failed: each
\* block that was stored before had a batch of its own.
OrderInv ==
    /\ height <= commits + lost
    /\ pc = "save" => height < commits + lost

IndInv == CountsInv /\ OrderInv

-----------------------------------------------------------------------------

LEMMA InitInd == Init => IndInv
  BY DEF Init, IndInv, CountsInv, OrderInv, Places

\* What the transactions of a block do to the batch leaves all three counters alone.
LEMMA TxInd ==
    ASSUME IndInv, NEW tx \in Txs,
           AcceptCoinBase(tx) \/ RefuseBlock(tx) \/ AcceptTx(tx) \/ DismissTx(tx)
             \/ ThrowAt(tx)
    PROVE  IndInv'
<1>1. UNCHANGED <<height, commits, lost>>
  BY DEF AcceptCoinBase, RefuseBlock, AcceptTx, DismissTx, ThrowAt, Restart, db
<1>2. pc' \in {"idle", "block"}
  BY DEF AcceptCoinBase, RefuseBlock, AcceptTx, DismissTx, ThrowAt, Restart, NextTx
<1> QED
  BY <1>1, <1>2 DEF IndInv, CountsInv, OrderInv, Places

LEMMA StepInd == IndInv /\ [Next]_vars => IndInv'
<1> SUFFICES ASSUME IndInv, [Next]_vars
             PROVE  IndInv'
  OBVIOUS
<1> USE DEF IndInv, CountsInv, OrderInv, Places, db, After
<1>1. CASE BeginBlock
  BY <1>1 DEF BeginBlock
<1>2. CASE EndBlock
  BY <1>2 DEF EndBlock
<1>3. CASE Finalize
  BY <1>3 DEF Finalize
<1>4. CASE FinalizeFails
  BY <1>4 DEF FinalizeFails
<1>5. CASE SaveBlock
  BY <1>5 DEF SaveBlock
<1>6. CASE Crash
  BY <1>6 DEF Crash, Restart
<1>7. CASE \E tx \in Txs : \/ AcceptCoinBase(tx) \/ RefuseBlock(tx) \/ AcceptTx(tx)
                           \/ DismissTx(tx) \/ ThrowAt(tx)
  BY <1>7, TxInd
<1>8. CASE UNCHANGED vars
  BY <1>8 DEF vars
<1> QED
  BY <1>1, <1>2, <1>3, <1>4, <1>5, <1>6, <1>7, <1>8 DEF Next

\* The three counters and the step of processBlock are never out of order, whatever
\* is refused, thrown, lost or interrupted.
THEOREM IndInvTheorem == Spec => []IndInv
<1>1. Init => IndInv
  BY InitInd
<1>2. IndInv /\ [Next]_vars => IndInv'
  BY StepInd
<1> QED
  BY <1>1, <1>2, PTL DEF Spec

\* last_block never counts a block whose batch was neither written nor lost by the
\* database: batchFinalize comes before saveBlock, over any number of stops between.
THEOREM HeightNotAheadTheorem == Spec => []HeightNotAhead
<1>1. IndInv => HeightNotAhead
  BY DEF IndInv, OrderInv, HeightNotAhead
<1> QED
  BY <1>1, IndInvTheorem, PTL

-----------------------------------------------------------------------------
(* What outputs are worth *)

LEMMA TxType ==
    ASSUME NEW tx \in Txs
    PROVE  /\ Len(tx.ins) \in Nat /\ DOMAIN tx.ins = 1..Len(tx.ins)
           /\ Len(tx.outs) \in Nat /\ DOMAIN tx.outs = 1..Len(tx.outs)
           /\ \A i \in DOMAIN tx.outs : tx.outs[i].val \in Nat
  BY TxAssumption, LenProperties

LEMMA OutIdent ==
    ASSUME NEW tx \in Txs, NEW i \in DOMAIN tx.outs
    PROVE  /\ OutIdents(tx)[i] \in Idents /\ OutIdents(tx)[i].hash = Hash(tx)
           /\ OutIdents(tx)[i].pos = i - 1
           /\ Val(OutIdents(tx)[i]) = tx.outs[i].val
<1>1. i \in Int /\ (i - 1) + 1 = i
  BY TxType
<1>2. OutIdents(tx)[i] = [hash |-> Hash(tx), pos |-> i - 1]
  BY DEF OutIdents, Ident
<1>3. OutIdents(tx)[i] \in ToSet(OutIdents(tx))
  BY DEF OutIdents, ToSet
<1>4. Hash(tx).outs = tx.outs
  BY DEF Hash
<1> QED
  BY <1>1, <1>2, <1>3, <1>4 DEF Idents, Val

ValOf == [id \in Idents |-> Val(id)]

LEMMA ValType == ValOf \in [Idents -> Nat]
<1> SUFFICES ASSUME NEW id \in Idents
             PROVE  Val(id) \in Nat
  BY DEF ValOf
<1>1. PICK tx \in Txs : id \in ToSet(OutIdents(tx))
  BY DEF Idents
<1>2. PICK i \in DOMAIN tx.outs : id = OutIdents(tx)[i]
  BY <1>1 DEF ToSet, OutIdents
<1> QED
  BY <1>2, OutIdent, TxType

LEMMA WorthSum ==
    ASSUME NEW S \in SUBSET Idents, IsFiniteSet(S)
    PROVE  \E h : Summing(h, S, ValOf) /\ Worth(S) = h[S]
<1> DEFINE Eq(h) == h = [s \in SUBSET S |-> IF s = {} THEN 0
                                            ELSE h[s \ {Chosen(s)}] + Val(Chosen(s))]
<1>1. \A s \in SUBSET S : s # {} => Val(Chosen(s)) = ValOf[Chosen(s)]
  BY ChosenIn DEF ValOf
<1>2. \A h : Eq(h) <=> Summing(h, S, ValOf)
  BY <1>1 DEF Summing
<1>3. PICK k : Summing(k, S, ValOf)
  BY ValType, SumExists
<1> DEFINE H == CHOOSE h : Eq(h)
<1>4. Worth(S) = H[S]
  BY DEF Worth, FoldSet, MapThenFoldSet, Chosen
<1>5. Eq(H)
  <2> HIDE DEF Eq
  <2> QED
    BY <1>2, <1>3
<1> HIDE DEF H, Eq
<1> QED
  BY <1>2, <1>4, <1>5

LEMMA WorthStep ==
    ASSUME NEW S \in SUBSET Idents, IsFiniteSet(S)
    PROVE  /\ Worth(S) \in Nat /\ (S = {} => Worth(S) = 0)
           /\ \A x \in S : Worth(S) = Worth(S \ {x}) + Val(x)
<1>1. PICK h : Summing(h, S, ValOf) /\ Worth(S) = h[S]
  BY WorthSum
<1>2. Adding(h, S, ValOf)
  BY <1>1, ValType, SumSteps
<1>3. ASSUME NEW x \in S
      PROVE  Worth(S) = Worth(S \ {x}) + Val(x)
  <2> DEFINE R == S \ {x}
  <2>1. R \in SUBSET S /\ R \in SUBSET Idents /\ IsFiniteSet(R)
    BY FS_RemoveElement
  <2> HIDE DEF R
  <2>2. PICK k : Summing(k, R, ValOf) /\ Worth(R) = k[R]
    BY <2>1, WorthSum
  <2>3. h[R] = k[R]
    BY <1>1, <2>1, <2>2, SumAgree
  <2>4. h[S] = h[S \ {x}] + ValOf[x]
    BY <1>2 DEF Adding
  <2> QED
    BY <1>1, <2>2, <2>3, <2>4 DEF R, ValOf
<1> QED
  BY <1>1, <1>2, <1>3 DEF Adding

LEMMA WorthMinus ==
    ASSUME NEW S \in SUBSET Idents, IsFiniteSet(S), NEW T \in SUBSET S
    PROVE  /\ Worth(S) = Worth(S \ T) + Worth(T)
           /\ Worth(S \ T) \in Nat /\ Worth(T) \in Nat
<1> DEFINE A == {t \in SUBSET T : Worth(S) = Worth(S \ t) + Worth(t)}
<1>1. IsFiniteSet(T) /\ \A t \in SUBSET T : /\ IsFiniteSet(t) /\ IsFiniteSet(S \ t)
                                            /\ t \in SUBSET Idents /\ S \ t \in SUBSET Idents
  BY FS_Subset
<1>2. {} \in A
  <2>1. Worth({}) = 0 /\ S \ {} = S /\ Worth(S) \in Nat
    BY <1>1, WorthStep
  <2> QED
    BY <2>1
<1>3. ASSUME NEW t \in SUBSET T, NEW x \in T \ t, t \in A
      PROVE  t \cup {x} \in A
  <2> DEFINE u == t \cup {x}
  <2>1. u \in SUBSET T /\ x \in u /\ u \ {x} = t /\ x \in S \ t /\ (S \ t) \ {x} = S \ u
    OBVIOUS
  <2> HIDE DEF u
  <2>2. /\ Worth(u) = Worth(t) + Val(x) /\ Worth(S \ t) = Worth(S \ u) + Val(x)
        /\ Worth(t) \in Nat /\ Worth(S \ u) \in Nat
    BY <1>1, <2>1, WorthStep
  <2>3. Val(x) \in Nat
    BY <2>1, ValType DEF ValOf
  <2>4. \A a, b, c \in Nat : (a + b) + c = a + (c + b)
    OBVIOUS
  <2>5. Worth(S) = Worth(S \ u) + Worth(u)
    BY <1>3, <2>2, <2>3, <2>4
  <2> QED
    BY <2>1, <2>5 DEF u
<1> HIDE DEF A
<1>4. SUBSET T \subseteq A
  BY <1>1, <1>2, <1>3, SubsetInduction
<1>5. Worth(S \ T) \in Nat /\ Worth(T) \in Nat
  BY <1>1, WorthStep
<1> QED
  BY <1>4, <1>5 DEF A

LEMMA WorthUnion ==
    ASSUME NEW S \in SUBSET Idents, IsFiniteSet(S), NEW T \in SUBSET Idents, IsFiniteSet(T)
    PROVE  Worth(S \cup T) <= Worth(S) + Worth(T)
<1>1. IsFiniteSet(S \cup T) /\ S \cup T \in SUBSET Idents
  BY FS_Union
<1>2. Worth(S \cup T) = Worth((S \cup T) \ T) + Worth(T) /\ Worth(T) \in Nat
  BY <1>1, WorthMinus
<1>3. /\ Worth(S) = Worth(S \ (S \cap T)) + Worth(S \cap T)
      /\ Worth(S \ (S \cap T)) \in Nat /\ Worth(S \cap T) \in Nat
  BY WorthMinus
<1>4. (S \cup T) \ T = S \ (S \cap T)
  OBVIOUS
<1>5. \A a, b, c \in Nat : a + b <= (a + c) + b
  OBVIOUS
<1> QED
  BY <1>2, <1>3, <1>4, <1>5

-----------------------------------------------------------------------------
(* What a transaction pays and what it consumes *)

Paid(tx) == FoldSeq(LAMBDA o, s : s + o.val, 0, tx.outs)

\* No transaction pays so much that the sum of its outputs wraps (Mine.cpp:163 does
\* not look at that).
NoOverflow == \A tx \in Txs : Paid(tx) < Modulus

\* A sum over the positions of identifiers is what they are worth.
LEMMA SumWorth ==
    ASSUME NEW n \in Nat, NEW ids \in [1..n -> Idents],
           \A i, j \in 1..n : ids[i] = ids[j] => i = j,
           NEW w \in [1..n -> Nat], \A i \in 1..n : w[i] = Val(ids[i]),
           NEW h, Summing(h, 1..n, w)
    PROVE  h[1..n] = Worth({ids[i] : i \in 1..n}) /\ h[1..n] \in Nat
<1> DEFINE D == 1..n
           C == {ids[i] : i \in D}
<1>1. IsFiniteSet(D) /\ D \in SUBSET D
  BY FS_Interval
<1>2. IsFiniteSet(C) /\ C \in SUBSET Idents /\ ids \in [D -> C]
  BY <1>1, ImageFinite
<1>3. /\ \A i, j \in D : ids[i] = ids[j] => i = j
      /\ \A i \in D : ValOf[ids[i]] = w[i]
      /\ w \in [D -> Nat] /\ Summing(h, D, w)
  BY <1>2 DEF ValOf
<1> HIDE DEF D, C
<1>4. PICK k : Summing(k, C, ValOf) /\ Worth(C) = k[C]
  BY <1>2, WorthSum
<1>5. Renamed(h, k, D, ids)
  BY <1>1, <1>2, <1>3, <1>4, ValType, SumImage
<1>6. h[D] = k[C]
  BY <1>1, <1>5 DEF C, Renamed
<1>7. Worth(C) \in Nat
  BY <1>2, WorthStep
<1> QED
  BY <1>4, <1>6, <1>7 DEF D, C

LEMMA OutWorth ==
    ASSUME NEW tx \in Txs
    PROVE  /\ Paid(tx) = Worth(ToSet(OutIdents(tx))) /\ Paid(tx) \in Nat
           /\ Paid(tx) < Modulus => ValOutgoing(tx) = Paid(tx)
           /\ ToSet(OutIdents(tx)) \in SUBSET Idents /\ IsFiniteSet(ToSet(OutIdents(tx)))
<1> DEFINE n == Len(tx.outs)
           D == DOMAIN tx.outs
           w == [i \in D |-> tx.outs[i].val]
           ids == OutIdents(tx)
           EqP(h) == h = [s \in SUBSET D |-> IF s = {} THEN 0
                            ELSE h[s \ {Chosen(s)}] + tx.outs[Chosen(s)].val]
           EqO(h) == h = [s \in SUBSET D |-> IF s = {} THEN 0
                            ELSE (h[s \ {Chosen(s)}] + tx.outs[Chosen(s)].val) % Modulus]
           P == CHOOSE h : EqP(h)
           O == CHOOSE h : EqO(h)
<1>1. n \in Nat /\ D = 1..n /\ w \in [D -> Nat] /\ IsFiniteSet(D) /\ D \in SUBSET D
  BY TxType, FS_Interval
<1>2. Paid(tx) = P[D]
  BY DEF Paid, FoldSeq, FoldFunction, FoldFunctionOnSet, MapThenFoldSet, Chosen
<1>3. ValOutgoing(tx) = O[D]
  BY DEF ValOutgoing, FoldSeq, FoldFunction, FoldFunctionOnSet, MapThenFoldSet, Chosen
<1>4. \A s \in SUBSET D : s # {} => tx.outs[Chosen(s)].val = w[Chosen(s)]
  BY ChosenIn
<1>5. \A i \in D : ids[i] \in Idents /\ w[i] = Val(ids[i]) /\ ids[i].pos = i - 1
  BY OutIdent
<1>6. DOMAIN ids = D /\ ids = [i \in D |-> ids[i]]
  BY DEF OutIdents
<1> HIDE DEF n, D, w, ids
<1>7. \A h : EqP(h) <=> Summing(h, D, w)
  BY <1>4 DEF Summing
<1>8. \A h : EqO(h) <=> SummingModulo(h, D, w, Modulus)
  BY <1>4 DEF SummingModulo
<1> HIDE DEF EqP, EqO
<1>9. Summing(P, D, w)
  <2>1. \E h : Summing(h, D, w)
    BY <1>1, SumExists
  <2> QED
    BY <1>7, <2>1
<1>10. SummingModulo(O, D, w, Modulus)
  <2>1. \E h : SummingModulo(h, D, w, Modulus)
    BY <1>1, SumModuloExists, BoundsAssumption
  <2> QED
    BY <1>8, <2>1
<1> HIDE DEF P, O
<1>11. ids \in [1..n -> Idents] /\ \A i, j \in 1..n : ids[i] = ids[j] => i = j
  <2>1. \A i, j \in 1..n : i - 1 = j - 1 => i = j
    BY <1>1
  <2> QED
    BY <1>1, <1>5, <1>6, <2>1
<1>12. P[D] = Worth({ids[i] : i \in D}) /\ P[D] \in Nat
  <2>1. w \in [1..n -> Nat] /\ (\A i \in 1..n : w[i] = Val(ids[i])) /\ Summing(P, 1..n, w)
    BY <1>1, <1>5, <1>9
  <2>2. P[1..n] = Worth({ids[i] : i \in 1..n}) /\ P[1..n] \in Nat
    BY <1>1, <1>11, <2>1, SumWorth
  <2> QED
    BY <1>1, <2>2
<1>13. ToSet(ids) = {ids[i] : i \in D}
  BY <1>6 DEF ToSet
<1>14. P[D] < Modulus => O[D] = P[D]
  <2>1. Modulus \in Nat \ {0}
    BY BoundsAssumption
  <2>2. w \in [D -> Nat] /\ D \in SUBSET D /\ IsFiniteSet(D)
    BY <1>1
  <2>3. \A s \in SUBSET D :
          O[s] \in Nat /\ O[s] <= P[s] /\ (P[s] < Modulus => O[s] = P[s])
    BY <1>9, <1>10, <2>1, <2>2, SumModulo
  <2> QED
    BY <2>3
<1>15. ToSet(ids) \in SUBSET Idents /\ IsFiniteSet(ToSet(ids))
  <2>1. IsFiniteSet({ids[i] : i \in D})
    BY <1>1, ImageFinite
  <2> QED
    BY <1>5, <1>13, <2>1
<1> QED
  BY <1>2, <1>3, <1>12, <1>13, <1>14, <1>15 DEF ids

LEMMA InWorth ==
    ASSUME NEW tx \in Txs, ToSet(InIdents(tx)) \in SUBSET Idents
    PROVE  /\ ValIncoming(tx) <= Worth(ToSet(InIdents(tx))) /\ ValIncoming(tx) \in Nat
           /\ Worth(ToSet(InIdents(tx))) \in Nat
<1> DEFINE n == Len(tx.ins)
           ids == InIdents(tx)
           D == DOMAIN ids
           w == [i \in D |-> Val(ids[i])]
           EqI(h) == h = [s \in SUBSET D |-> IF s = {} THEN 0
                            ELSE (h[s \ {Chosen(s)}] + Val(ids[Chosen(s)])) % Modulus]
           I == CHOOSE h : EqI(h)
<1>1. n \in Nat /\ D = 1..n
  BY TxType DEF InIdents
<1>2. ValIncoming(tx) = I[D]
  BY DEF ValIncoming, FoldSeq, FoldFunction, FoldFunctionOnSet, MapThenFoldSet, Chosen
<1>3. ids = [i \in D |-> ids[i]] /\ \A i \in D : ids[i].pos = i - 1
  BY DEF InIdents, Ident
<1>4. ToSet(ids) = {ids[i] : i \in D}
  BY DEF ToSet
<1> HIDE DEF n, D, ids
<1>5. \A i \in D : ids[i] \in Idents
  BY <1>4 DEF ids
<1>6. w \in [D -> Nat] /\ (\A i \in D : w[i] = Val(ids[i])) /\ IsFiniteSet(D) /\ D \in SUBSET D
  <2>1. IsFiniteSet(D)
    BY <1>1, FS_Interval
  <2> QED
    BY <1>5, <2>1, ValType DEF ValOf
<1>7. \A s \in SUBSET D : s # {} => Val(ids[Chosen(s)]) = w[Chosen(s)]
  BY ChosenIn
<1> HIDE DEF w
<1>8. \A h : EqI(h) <=> SummingModulo(h, D, w, Modulus)
  BY <1>7 DEF SummingModulo
<1> HIDE DEF EqI
<1>9. PICK h : Summing(h, D, w)
  BY <1>6, SumExists
<1>10. SummingModulo(I, D, w, Modulus)
  <2>1. \E k : SummingModulo(k, D, w, Modulus)
    BY <1>6, SumModuloExists, BoundsAssumption
  <2> QED
    BY <1>8, <2>1
<1> HIDE DEF I
<1>11. ids \in [1..n -> Idents] /\ \A i, j \in 1..n : ids[i] = ids[j] => i = j
  <2>1. \A i, j \in 1..n : i - 1 = j - 1 => i = j
    BY <1>1
  <2> QED
    BY <1>1, <1>3, <1>5, <2>1
<1>12. h[D] = Worth({ids[i] : i \in D}) /\ h[D] \in Nat
  <2>1. w \in [1..n -> Nat] /\ (\A i \in 1..n : w[i] = Val(ids[i])) /\ Summing(h, 1..n, w)
    BY <1>1, <1>6, <1>9
  <2>2. h[1..n] = Worth({ids[i] : i \in 1..n}) /\ h[1..n] \in Nat
    BY <1>1, <1>11, <2>1, SumWorth
  <2> QED
    BY <1>1, <2>2
<1>13. I[D] \in Nat /\ I[D] <= h[D]
  <2>1. Modulus \in Nat \ {0}
    BY BoundsAssumption
  <2>2. \A s \in SUBSET D : I[s] \in Nat /\ I[s] <= h[s]
    BY <1>6, <1>9, <1>10, <2>1, SumModulo
  <2> QED
    BY <2>2
<1> QED
  BY <1>2, <1>4, <1>12, <1>13 DEF ids

-----------------------------------------------------------------------------
(* The data of a block *)

InSet(tx) == ToSet(InIdents(tx))
OutSet(tx) == ToSet(OutIdents(tx))

\* Outputs that nothing in the block has taken yet are still in the batch.
UnspentInv ==
    /\ unspent \in SUBSET Idents /\ IsFiniteSet(unspent)
    /\ batch.unspent \in SUBSET Idents /\ IsFiniteSet(batch.unspent)
    /\ minted \in Nat /\ minting \in Nat
    /\ pc = "block" => unspent \ spendings \subseteq batch.unspent

Bounds == done \in 0..MaxTxs /\ begun \in 0..MaxBlocks /\ coinbase \in BOOLEAN

DataInv ==
    /\ UnspentInv /\ Bounds
    /\ AccountsType(accounts) /\ AccountsType(batch.accounts)

LEMMA LeastChosen ==
    ASSUME NEW n \in Nat, NEW paid \in SUBSET (1..n), paid # {}
    PROVE  First(paid) \in {i - 1 : i \in paid}
<1>1. paid \in SUBSET Nat
  OBVIOUS
<1>2. \E i \in paid : \A j \in paid : i <= j
  BY <1>1, LeastNumber
<1> QED
  BY <1>2 DEF First

\* Step 5 keeps the lists of an account.
LEMMA AccountType ==
    ASSUME AccountsType(accounts), NEW tx \in Txs, NEW k \in Keys
    PROVE  /\ DOMAIN AccountAfter(tx, k) \subseteq Hashes
           /\ \A h \in DOMAIN AccountAfter(tx, k) : AccountAfter(tx, k)[h] \in PositionsOf(h, k)
<1> DEFINE spent == IF IsCoinBase(tx) THEN {}
                    ELSE {tx.ins[i].prev : i \in {j \in DOMAIN tx.ins : tx.ins[j].sig = k}}
           kept == Restrict(accounts[k], DOMAIN accounts[k] \ spent)
           paid == {i \in DOMAIN tx.outs : tx.outs[i].key = k}
           h0 == Hash(tx)
           more == [h \in DOMAIN kept \cup {h0} |->
                      IF h \in DOMAIN kept THEN kept[h] ELSE First(paid)]
<1>1. AccountAfter(tx, k) = IF paid = {} \/ h0 \in DOMAIN kept THEN kept ELSE more
  BY DEF AccountAfter
<1>2. /\ DOMAIN accounts[k] \subseteq Hashes
      /\ \A h \in DOMAIN accounts[k] : accounts[k][h] \in PositionsOf(h, k)
  BY DEF AccountsType
<1> HIDE DEF spent
<1>3. /\ DOMAIN kept \subseteq Hashes
      /\ \A h \in DOMAIN kept : kept[h] \in PositionsOf(h, k)
  BY <1>2 DEF Restrict
<1>4. h0 \in Hashes
  BY DEF Hashes
<1>5. paid # {} => First(paid) \in PositionsOf(h0, k)
  <2>1. Len(tx.outs) \in Nat /\ paid \in SUBSET (1..Len(tx.outs))
    BY TxType
  <2>2. PositionsOf(h0, k) = {i - 1 : i \in paid}
    BY DEF PositionsOf, Hash
  <2> HIDE DEF paid
  <2> QED
    BY <2>1, <2>2, LeastChosen
<1> HIDE DEF kept, paid, h0
<1>6. CASE paid = {} \/ h0 \in DOMAIN kept
  BY <1>1, <1>3, <1>6
<1>7. CASE ~(paid = {} \/ h0 \in DOMAIN kept)
  <2>1. AccountAfter(tx, k) = more
    BY <1>1, <1>7
  <2>2. DOMAIN more \subseteq Hashes
    BY <1>3, <1>4
  <2>3. \A h \in DOMAIN more : more[h] \in PositionsOf(h, k)
    BY <1>3, <1>5, <1>7
  <2> HIDE DEF more
  <2> QED
    BY <2>1, <2>2, <2>3
<1> QED
  BY <1>6, <1>7

LEMMA BatchedType ==
    ASSUME DataInv, NEW tx \in Txs
    PROVE  /\ Batched(tx).unspent = (batch.unspent \ (IF IsCoinBase(tx) THEN {} ELSE InSet(tx)))
                                      \cup OutSet(tx)
           /\ Batched(tx).unspent \in SUBSET Idents /\ IsFiniteSet(Batched(tx).unspent)
           /\ AccountsType(Batched(tx).accounts)
<1>1. Batched(tx).unspent = (batch.unspent \ (IF IsCoinBase(tx) THEN {} ELSE InSet(tx)))
                              \cup OutSet(tx)
  BY DEF Batched, InSet, OutSet
<1>2. OutSet(tx) \in SUBSET Idents /\ IsFiniteSet(OutSet(tx))
  BY OutWorth DEF OutSet
<1>3. \A S : /\ batch.unspent \ S \in SUBSET Idents
             /\ IsFiniteSet((batch.unspent \ S) \cup OutSet(tx))
  <2> SUFFICES ASSUME NEW S
               PROVE  /\ batch.unspent \ S \in SUBSET Idents
                      /\ IsFiniteSet((batch.unspent \ S) \cup OutSet(tx))
    OBVIOUS
  <2>1. batch.unspent \ S \in SUBSET Idents /\ IsFiniteSet(batch.unspent \ S)
    BY FS_Difference DEF DataInv, UnspentInv
  <2> QED
    BY <1>2, <2>1, FS_Union
<1>4. AccountsType(Batched(tx).accounts)
  <2>1. \A k \in Keys :
          Batched(tx).accounts[k] = IF k \in Touched(tx) THEN AccountAfter(tx, k)
                                    ELSE batch.accounts[k]
    BY DEF Batched
  <2>2. DOMAIN Batched(tx).accounts = Keys
    BY DEF Batched
  <2> QED
    BY <2>1, <2>2, AccountType DEF DataInv, AccountsType
<1> QED
  BY <1>1, <1>2, <1>3, <1>4

\* The inputs of a transaction that is accepted are unspent, and still in the batch.
LEMMA InputsInBatch ==
    ASSUME DataInv, NEW tx \in Txs, pc = "block", InputsFree(tx)
    PROVE  /\ InSet(tx) \subseteq unspent /\ InSet(tx) \cap spendings = {}
           /\ InSet(tx) \subseteq batch.unspent /\ InSet(tx) \in SUBSET Idents
<1>1. \A id \in InSet(tx) : id \in unspent /\ id \notin spendings
  BY DEF InSet, ToSet, InIdents, InputsFree, RefusedInput
<1> QED
  BY <1>1 DEF DataInv, UnspentInv

LEMMA InitData == Init => DataInv
<1> SUFFICES ASSUME Init
             PROVE  DataInv
  OBVIOUS
<1>1. AccountsType([k \in Keys |-> EmptyMap])
  BY DEF AccountsType, EmptyMap
<1>2. UnspentInv
  BY FS_EmptySet DEF Init, UnspentInv
<1>3. Bounds
  <2>1. 0 \in 0..MaxTxs /\ 0 \in 0..MaxBlocks
    BY BoundsAssumption
  <2> QED
    BY <2>1 DEF Init, Bounds
<1> QED
  BY <1>1, <1>2, <1>3 DEF Init, DataInv

LEMMA DataStep ==
    ASSUME DataInv, [Next]_vars
    PROVE  DataInv'
<1>0. /\ UnspentInv /\ Bounds /\ AccountsType(accounts) /\ AccountsType(batch.accounts)
  BY DEF DataInv
<1>1. CASE BeginBlock
  <2>1. /\ UNCHANGED <<unspent, accounts, minted>> /\ minting' = 0
        /\ batch' = [unspent |-> unspent, accounts |-> accounts]
    BY <1>1 DEF BeginBlock, db
  <2>2. UnspentInv'
    BY <1>0, <2>1 DEF UnspentInv
  <2>3. Bounds'
    <3>1. 0 \in 0..MaxTxs /\ \A n \in 0..MaxBlocks : n < MaxBlocks => n + 1 \in 0..MaxBlocks
      BY BoundsAssumption
    <3>2. begun < MaxBlocks /\ begun' = begun + 1 /\ done' = 0 /\ coinbase' = FALSE
      BY <1>1 DEF BeginBlock
    <3> QED
      BY <1>0, <3>1, <3>2 DEF Bounds
  <2> QED
    BY <1>0, <2>1, <2>2, <2>3 DEF DataInv
<1>2. CASE EndBlock \/ FinalizeFails \/ SaveBlock \/ Crash
  <2>1. UNCHANGED <<unspent, accounts, minted, minting, batch, done, begun, coinbase>>
    BY <1>2 DEF EndBlock, FinalizeFails, SaveBlock, Crash, Restart, db
  <2>2. pc' # "block"
    BY <1>2 DEF EndBlock, FinalizeFails, SaveBlock, Crash, Restart, After
  <2> QED
    BY <1>0, <2>1, <2>2 DEF DataInv, UnspentInv, Bounds, AccountsType
<1>3. CASE Finalize
  <2>1. /\ UNCHANGED <<minting, batch, done, begun, coinbase>> /\ pc' # "block"
        /\ unspent' = batch.unspent /\ accounts' = batch.accounts
        /\ minted' = minted + minting
    BY <1>3 DEF Finalize, After
  <2>2. UnspentInv'
    BY <1>0, <2>1 DEF UnspentInv
  <2>3. Bounds'
    BY <1>0, <2>1 DEF Bounds
  <2> QED
    BY <1>0, <2>1, <2>2, <2>3 DEF DataInv
<1>4. ASSUME NEW tx \in Txs, AcceptCoinBase(tx)
      PROVE  DataInv'
  <2>1. /\ UNCHANGED <<unspent, accounts, minted, pc, spendings, begun>> /\ pc = "block"
        /\ batch' = Batched(tx) /\ minting' = Paid(tx) /\ coinbase' = TRUE
        /\ done' = done + 1 /\ done < MaxTxs /\ IsCoinBase(tx)
    BY <1>4 DEF AcceptCoinBase, NextTx, db, Paid
  <2>2. Paid(tx) \in Nat
    BY OutWorth
  <2>3. UnspentInv'
    BY <1>0, <2>1, <2>2, BatchedType DEF UnspentInv
  <2>4. Bounds'
    BY <1>0, <2>1, BoundsAssumption DEF Bounds
  <2> QED
    BY <1>0, <2>1, <2>3, <2>4, BatchedType DEF DataInv
<1>5. ASSUME NEW tx \in Txs, AcceptTx(tx)
      PROVE  DataInv'
  <2>1. /\ UNCHANGED <<unspent, accounts, minted, minting, coinbase, pc, begun>>
        /\ pc = "block" /\ batch' = Batched(tx) /\ spendings' = spendings \cup InSet(tx)
        /\ done' = done + 1 /\ done < MaxTxs /\ ~IsCoinBase(tx)
    BY <1>5 DEF AcceptTx, NextTx, db, InSet
  <2>2. UnspentInv'
    BY <1>0, <2>1, BatchedType DEF UnspentInv
  <2>3. Bounds'
    BY <1>0, <2>1, BoundsAssumption DEF Bounds
  <2> QED
    BY <1>0, <2>1, <2>2, <2>3, BatchedType DEF DataInv
<1>6. ASSUME NEW tx \in Txs, RefuseBlock(tx) \/ DismissTx(tx) \/ ThrowAt(tx)
      PROVE  DataInv'
  <2>1. /\ UNCHANGED <<unspent, accounts, minted, minting, coinbase, begun, batch>>
        /\ done' = done + 1 /\ done < MaxTxs
        /\ pc' # "block" \/ (pc = "block" /\ spendings \subseteq spendings')
    BY <1>6 DEF RefuseBlock, DismissTx, ThrowAt, Restart, NextTx, db
  <2>2. UnspentInv'
    BY <1>0, <2>1 DEF UnspentInv
  <2>3. Bounds'
    BY <1>0, <2>1, BoundsAssumption DEF Bounds
  <2> QED
    BY <1>0, <2>1, <2>2, <2>3 DEF DataInv
<1>7. CASE UNCHANGED vars
  BY <1>0, <1>7 DEF vars, DataInv, UnspentInv, Bounds, AccountsType
<1> QED
  BY <1>1, <1>2, <1>3, <1>4, <1>5, <1>6, <1>7 DEF Next

LEMMA DataInvariant == Spec => []DataInv
  BY InitData, DataStep, PTL DEF Spec

\* Types; and a position in an account's list is that of an output which goes to the
\* account (steps 4 and 5 of processBlock), for any accounts and transactions.
THEOREM TypeTheorem == Spec => []TypeOK
<1>1. IndInv /\ DataInv => TypeOK
  BY DEF IndInv, CountsInv, Places, DataInv, UnspentInv, Bounds, TypeOK
<1> QED
  BY <1>1, IndInvTheorem, DataInvariant, PTL

-----------------------------------------------------------------------------
(* The value of what is unspent *)

Writing == pc \in {"block", "commit"}

SupplyInv ==
    /\ Worth(unspent) <= minted
    /\ Writing => /\ Worth(batch.unspent) <= minted + minting
                  /\ ~coinbase => minting = 0

LEMMA AcceptedPays ==
    ASSUME NoOverflow, DataInv, NEW tx \in Txs, pc = "block", InputsFree(tx),
           ValOutgoing(tx) <= ValIncoming(tx)
    PROVE  /\ Worth(OutSet(tx)) <= Worth(InSet(tx))
           /\ Worth(OutSet(tx)) \in Nat /\ Worth(InSet(tx)) \in Nat
<1>1. InSet(tx) \in SUBSET Idents
  BY InputsInBatch
<1>2. /\ ValIncoming(tx) <= Worth(InSet(tx)) /\ ValIncoming(tx) \in Nat
      /\ Worth(InSet(tx)) \in Nat
  BY <1>1, InWorth DEF InSet
<1>3. ValOutgoing(tx) = Worth(OutSet(tx)) /\ Worth(OutSet(tx)) \in Nat
  BY OutWorth DEF NoOverflow, OutSet
<1> QED
  BY <1>2, <1>3

\* A transaction that is accepted leaves no more value in the batch than there was.
LEMMA AcceptSupply ==
    ASSUME NoOverflow, DataInv, NEW tx \in Txs, AcceptTx(tx)
    PROVE  Worth(batch'.unspent) <= Worth(batch.unspent)
<1>1. /\ pc = "block" /\ InputsFree(tx) /\ ValOutgoing(tx) <= ValIncoming(tx)
      /\ ~IsCoinBase(tx) /\ batch' = Batched(tx)
  BY DEF AcceptTx, NextTx
<1> DEFINE B == batch.unspent
           I == InSet(tx)
           O == OutSet(tx)
<1>2. batch'.unspent = (B \ I) \cup O
  BY <1>1, BatchedType
<1>3. B \in SUBSET Idents /\ IsFiniteSet(B) /\ I \in SUBSET B
  BY <1>1, InputsInBatch DEF DataInv, UnspentInv
<1>4. O \in SUBSET Idents /\ IsFiniteSet(O)
  BY OutWorth DEF OutSet
<1>5. Worth(O) <= Worth(I) /\ Worth(O) \in Nat
  BY <1>1, AcceptedPays
<1> HIDE DEF B, I, O
<1>6. Worth(B) = Worth(B \ I) + Worth(I) /\ Worth(B \ I) \in Nat /\ Worth(I) \in Nat
  BY <1>3, WorthMinus
<1>7. Worth((B \ I) \cup O) <= Worth(B \ I) + Worth(O)
  <2>1. B \ I \in SUBSET Idents /\ IsFiniteSet(B \ I)
    BY <1>3, FS_Difference
  <2> QED
    BY <1>4, <2>1, WorthUnion
<1>8. Worth((B \ I) \cup O) \in Nat
  <2>1. B \ I \in SUBSET Idents /\ IsFiniteSet((B \ I) \cup O)
    BY <1>3, <1>4, FS_Difference, FS_Union
  <2> QED
    BY <1>4, <2>1, WorthStep
<1>9. \A a, b, c, d \in Nat : d <= c /\ a <= b + d => a <= b + c
  OBVIOUS
<1>10. Worth((B \ I) \cup O) <= Worth(B)
  BY <1>5, <1>6, <1>7, <1>8, <1>9
<1> QED
  BY <1>2, <1>10 DEF B

\* The coinbase of a block adds what it pays.
LEMMA CoinBaseSupply ==
    ASSUME DataInv, NEW tx \in Txs, AcceptCoinBase(tx)
    PROVE  Worth(batch'.unspent) <= Worth(batch.unspent) + minting' /\ minting' \in Nat
<1>1. IsCoinBase(tx) /\ batch' = Batched(tx) /\ minting' = Paid(tx)
  BY DEF AcceptCoinBase, Paid
<1>2. batch'.unspent = batch.unspent \cup OutSet(tx)
  BY <1>1, BatchedType
<1>3. Worth(OutSet(tx)) = Paid(tx) /\ Paid(tx) \in Nat
      /\ OutSet(tx) \in SUBSET Idents /\ IsFiniteSet(OutSet(tx))
  BY OutWorth DEF OutSet
<1>4. Worth(batch.unspent \cup OutSet(tx)) <= Worth(batch.unspent) + Worth(OutSet(tx))
  BY <1>3, WorthUnion DEF DataInv, UnspentInv
<1> QED
  BY <1>1, <1>2, <1>3, <1>4

LEMMA InitSupply == Init => SupplyInv
<1> SUFFICES ASSUME Init
             PROVE  SupplyInv
  OBVIOUS
<1>1. Worth({}) = 0
  BY WorthStep, FS_EmptySet
<1> QED
  BY <1>1 DEF Init, SupplyInv, Writing

LEMMA SupplyStep ==
    ASSUME NoOverflow, DataInv, DataInv', SupplyInv, [Next]_vars
    PROVE  SupplyInv'
<1>0. /\ Worth(unspent) \in Nat /\ Worth(batch.unspent) \in Nat
      /\ minted \in Nat /\ minting \in Nat /\ Worth(unspent) <= minted
  BY WorthStep DEF DataInv, UnspentInv, SupplyInv
<1>1. CASE BeginBlock
  BY <1>0, <1>1 DEF BeginBlock, db, SupplyInv, Writing
<1>2. CASE EndBlock
  BY <1>2 DEF EndBlock, After, db, SupplyInv, Writing
<1>3. CASE FinalizeFails \/ SaveBlock \/ Crash
  BY <1>3 DEF FinalizeFails, SaveBlock, Crash, Restart, After, db, SupplyInv, Writing
<1>4. CASE Finalize
  BY <1>4 DEF Finalize, After, SupplyInv, Writing
<1>5. ASSUME NEW tx \in Txs, AcceptCoinBase(tx)
      PROVE  SupplyInv'
  <2>1. /\ UNCHANGED <<unspent, minted, pc>> /\ pc = "block" /\ ~coinbase /\ coinbase' = TRUE
    BY <1>5 DEF AcceptCoinBase, NextTx, db
  <2>2. Worth(batch'.unspent) <= Worth(batch.unspent) + minting' /\ minting' \in Nat
    BY <1>5, CoinBaseSupply
  <2>3. Worth(batch.unspent) <= minted
    BY <1>0, <2>1 DEF SupplyInv, Writing
  <2>4. Worth(batch'.unspent) \in Nat
    BY WorthStep DEF DataInv, UnspentInv
  <2>5. Worth(batch'.unspent) <= minted + minting'
    BY <1>0, <2>2, <2>3, <2>4
  <2> QED
    BY <2>1, <2>5 DEF SupplyInv
<1>6. ASSUME NEW tx \in Txs, AcceptTx(tx)
      PROVE  SupplyInv'
  <2>1. /\ UNCHANGED <<unspent, minted, minting, coinbase, pc>> /\ pc = "block"
    BY <1>6 DEF AcceptTx, NextTx, db
  <2>2. Worth(batch'.unspent) <= Worth(batch.unspent)
    BY <1>6, AcceptSupply
  <2>3. Worth(batch'.unspent) \in Nat
    BY WorthStep DEF DataInv, UnspentInv
  <2>4. Worth(batch'.unspent) <= minted + minting
    BY <1>0, <2>1, <2>2, <2>3 DEF SupplyInv, Writing
  <2> QED
    BY <2>1, <2>4 DEF SupplyInv, Writing
<1>7. ASSUME NEW tx \in Txs, RefuseBlock(tx) \/ DismissTx(tx) \/ ThrowAt(tx)
      PROVE  SupplyInv'
  BY <1>7 DEF RefuseBlock, DismissTx, ThrowAt, Restart, NextTx, db, SupplyInv, Writing
<1>8. CASE UNCHANGED vars
  BY <1>8 DEF vars, SupplyInv, Writing
<1> QED
  BY <1>1, <1>2, <1>3, <1>4, <1>5, <1>6, <1>7, <1>8 DEF Next

\* No sequence of blocks, good or bad, whole or interrupted, leaves more value unspent
\* than the coinbases of the written blocks created (step 2 of processBlock, Mine.cpp:130,
\* together with the batch), as long as no transaction's outputs sum up to 2^64.
THEOREM SupplyBoundedTheorem == ASSUME NoOverflow PROVE Spec => []SupplyBounded
<1>1. DataInv /\ DataInv' /\ SupplyInv /\ [Next]_vars => SupplyInv'
  BY SupplyStep
<1>2. SupplyInv => SupplyBounded
  BY DEF SupplyInv, SupplyBounded
<1> QED
  BY <1>1, <1>2, InitSupply, DataInvariant, PTL DEF Spec

-----------------------------------------------------------------------------
(* Every batch that is written is a block of the ledger *)

CoinBases == {tx \in Txs : IsCoinBase(tx)}
Spent(block) == UNION {InSet(t) : t \in block \ CoinBases}
Created(block) == UNION {OutSet(t) : t \in block}

\* The transactions of the block that were accepted so far, and what they make of the
\* database: gone is what one of them created and another consumed after it.
Building(block, gone) ==
    /\ block \in SUBSET Txs /\ gone \in SUBSET (Created(block) \cap Spent(block))
    /\ Cardinality(block \cap CoinBases) <= 1
    /\ \A t \in block \ CoinBases : /\ InSet(t) \subseteq unspent
                                    /\ Worth(OutSet(t)) <= Worth(InSet(t))
    /\ \A t, u \in block \ CoinBases : t # u => InSet(t) \cap InSet(u) = {}
    /\ batch.unspent = (unspent \ Spent(block)) \cup (Created(block) \ gone)
    /\ pc = "block" => Spent(block) \subseteq spendings
    /\ ~coinbase => block \cap CoinBases = {}

BlockInv == Writing => \E block, gone : Building(block, gone)

\* The sets that one more transaction leaves, of what was consumed and created before.
LEMMA OneMore ==
    ASSUME NEW U, NEW S, NEW C, NEW G \in SUBSET (C \cap S), NEW I, NEW O
    PROVE  LET more == (G \cup (C \cap I)) \ O
           IN /\ more \in SUBSET ((C \cup O) \cap (S \cup I))
              /\ (((U \ S) \cup (C \ G)) \ I) \cup O
                   = (U \ (S \cup I)) \cup ((C \cup O) \ more)
  OBVIOUS

LEMMA AcceptBlock ==
    ASSUME NoOverflow, DataInv, NEW tx \in Txs, AcceptTx(tx),
           NEW block, NEW gone, Building(block, gone)
    PROVE  \E b, g : Building(b, g)'
<1> DEFINE I == InSet(tx)
           O == OutSet(tx)
           b == block \cup {tx}
           g == (gone \cup (Created(block) \cap I)) \ O
<1>1. /\ UNCHANGED <<unspent, coinbase, pc>> /\ pc = "block" /\ ~IsCoinBase(tx)
      /\ InputsFree(tx) /\ ValOutgoing(tx) <= ValIncoming(tx)
      /\ batch' = Batched(tx) /\ spendings' = spendings \cup I
  BY DEF AcceptTx, NextTx, db, InSet
<1>2. /\ I \subseteq unspent /\ I \cap spendings = {} /\ Worth(O) <= Worth(I)
  BY <1>1, InputsInBatch, AcceptedPays
<1>3. batch'.unspent = (batch.unspent \ I) \cup O
  BY <1>1, BatchedType
<1>4. tx \notin CoinBases /\ b \cap CoinBases = block \cap CoinBases
      /\ b \ CoinBases = (block \ CoinBases) \cup {tx} /\ b \in SUBSET Txs
  BY <1>1 DEF CoinBases, Building
<1>5. Spent(b) = Spent(block) \cup I /\ Created(b) = Created(block) \cup O
  BY <1>4 DEF Spent, Created
<1>6. Spent(block) \subseteq spendings
  BY <1>1 DEF Building
<1>7. \A t \in block \ CoinBases : InSet(t) \cap I = {}
  BY <1>2, <1>6 DEF Spent
<1>8. /\ g \in SUBSET (Created(b) \cap Spent(b))
      /\ batch'.unspent = (unspent \ Spent(b)) \cup (Created(b) \ g)
  <2>1. /\ gone \in SUBSET (Created(block) \cap Spent(block))
        /\ batch.unspent = (unspent \ Spent(block)) \cup (Created(block) \ gone)
    BY DEF Building
  <2> HIDE DEF I, O, b
  <2> QED
    BY <1>3, <1>5, <2>1, OneMore
<1>9. \A t \in b \ CoinBases : /\ InSet(t) \subseteq unspent
                               /\ Worth(OutSet(t)) <= Worth(InSet(t))
  <2>1. \A t \in block \ CoinBases : /\ InSet(t) \subseteq unspent
                                     /\ Worth(OutSet(t)) <= Worth(InSet(t))
    BY DEF Building
  <2> QED
    BY <1>2, <1>4, <2>1
<1>10. \A t, u \in b \ CoinBases : t # u => InSet(t) \cap InSet(u) = {}
  <2>1. \A t, u \in block \ CoinBases : t # u => InSet(t) \cap InSet(u) = {}
    BY DEF Building
  <2> QED
    BY <1>4, <1>7, <2>1
<1>11. Cardinality(b \cap CoinBases) <= 1 /\ (~coinbase => b \cap CoinBases = {})
  BY <1>4 DEF Building
<1>12. Spent(b) \subseteq spendings'
  BY <1>1, <1>5, <1>6
<1> HIDE DEF b, g
<1>13. Building(b, g)'
  BY <1>1, <1>4, <1>8, <1>9, <1>10, <1>11, <1>12 DEF Building
<1> QED
  BY <1>13

LEMMA CoinBaseBlock ==
    ASSUME DataInv, NEW tx \in Txs, AcceptCoinBase(tx),
           NEW block, NEW gone, Building(block, gone)
    PROVE  \E b, g : Building(b, g)'
<1> DEFINE O == OutSet(tx)
           b == block \cup {tx}
           g == (gone \cup (Created(block) \cap {})) \ O
<1>1. /\ UNCHANGED <<unspent, pc, spendings>> /\ pc = "block" /\ IsCoinBase(tx)
      /\ ~coinbase /\ coinbase' = TRUE /\ batch' = Batched(tx)
  BY DEF AcceptCoinBase, NextTx, db
<1>2. batch'.unspent = (batch.unspent \ {}) \cup O
  BY <1>1, BatchedType
<1>3. /\ b \cap CoinBases = {tx} /\ b \in SUBSET Txs
      /\ b \ CoinBases = block \ CoinBases
  BY <1>1 DEF CoinBases, Building
<1>4. Cardinality(b \cap CoinBases) <= 1
  BY <1>3, FS_Singleton
<1>5. Spent(b) = Spent(block) \cup {} /\ Created(b) = Created(block) \cup O
  BY <1>3 DEF Spent, Created
<1>6. /\ g \in SUBSET (Created(b) \cap Spent(b))
      /\ batch'.unspent = (unspent \ Spent(b)) \cup (Created(b) \ g)
  <2>1. /\ gone \in SUBSET (Created(block) \cap Spent(block))
        /\ batch.unspent = (unspent \ Spent(block)) \cup (Created(block) \ gone)
    BY DEF Building
  <2> HIDE DEF O, b
  <2> QED
    BY <1>2, <1>5, <2>1, OneMore
<1> HIDE DEF b, g
<1>7. Building(b, g)'
  BY <1>1, <1>3, <1>4, <1>5, <1>6 DEF Building
<1> QED
  BY <1>7

LEMMA BlockStep ==
    ASSUME NoOverflow, DataInv, BlockInv, [Next]_vars
    PROVE  BlockInv'
<1>1. CASE BeginBlock
  <2>1. /\ batch'.unspent = unspent /\ unspent' = unspent
        /\ pc' = "block" /\ spendings' = {} /\ coinbase' = FALSE
    BY <1>1 DEF BeginBlock, db
  <2>2. Spent({}) = {} /\ Created({}) = {}
    BY DEF Spent, Created
  <2>3. {} \cap CoinBases = {} /\ {} \ CoinBases = {} /\ Cardinality({}) <= 1
    BY FS_EmptySet
  <2>4. Building({}, {})'
    BY <2>1, <2>2, <2>3 DEF Building
  <2> QED
    BY <2>4 DEF BlockInv
<1>2. CASE EndBlock
  <2>1. PICK block, gone : Building(block, gone)
    BY <1>2 DEF BlockInv, Writing, EndBlock
  <2>2. UNCHANGED <<unspent, batch, coinbase>> /\ pc' = "commit"
    BY <1>2 DEF EndBlock, After, db
  <2>3. Building(block, gone)'
    BY <2>1, <2>2 DEF Building
  <2> QED
    BY <2>3 DEF BlockInv
<1>3. CASE Finalize \/ FinalizeFails \/ SaveBlock \/ Crash
  BY <1>3 DEF Finalize, FinalizeFails, SaveBlock, Crash, Restart, After, BlockInv, Writing
<1>4. ASSUME NEW tx \in Txs, AcceptCoinBase(tx)
      PROVE  BlockInv'
  <2>1. PICK block, gone : Building(block, gone)
    BY <1>4 DEF AcceptCoinBase, NextTx, BlockInv, Writing
  <2> QED
    BY <1>4, <2>1, CoinBaseBlock DEF BlockInv
<1>5. ASSUME NEW tx \in Txs, AcceptTx(tx)
      PROVE  BlockInv'
  <2>1. PICK block, gone : Building(block, gone)
    BY <1>5 DEF AcceptTx, NextTx, BlockInv, Writing
  <2> QED
    BY <1>5, <2>1, AcceptBlock DEF BlockInv
<1>6. ASSUME NEW tx \in Txs, DismissTx(tx)
      PROVE  BlockInv'
  <2>1. PICK block, gone : Building(block, gone)
    BY <1>6 DEF DismissTx, NextTx, BlockInv, Writing
  <2>2. UNCHANGED <<unspent, batch, coinbase, pc>> /\ spendings \subseteq spendings'
    BY <1>6 DEF DismissTx, NextTx, db
  <2>3. Building(block, gone)'
    BY <2>1, <2>2 DEF Building
  <2> QED
    BY <2>3 DEF BlockInv
<1>7. ASSUME NEW tx \in Txs, RefuseBlock(tx) \/ ThrowAt(tx)
      PROVE  BlockInv'
  BY <1>7 DEF RefuseBlock, ThrowAt, Restart, BlockInv, Writing
<1>8. CASE UNCHANGED vars
  <2>1. UNCHANGED <<unspent, batch, coinbase, pc, spendings>>
    BY <1>8 DEF vars
  <2>2. ASSUME NEW block, NEW gone, Building(block, gone)
        PROVE  Building(block, gone)'
    BY <2>1, <2>2 DEF Building
  <2> QED
    BY <2>1, <2>2 DEF BlockInv, Writing
<1> QED
  BY <1>1, <1>2, <1>3, <1>4, <1>5, <1>6, <1>7, <1>8 DEF Next

\* The writing of a batch is a block of the ledger.
LEMMA FinalizeApplies ==
    ASSUME BlockInv, Finalize
    PROVE  Ledger!ApplyBlock
<1>1. PICK block, gone : Building(block, gone)
  BY DEF Finalize, BlockInv, Writing
<1>2. unspent' = batch.unspent /\ commits' = commits + 1
  BY DEF Finalize
<1>3. block \in SUBSET Txs
  BY <1>1 DEF Building
<1>4. Ledger!Acceptable(block)
  <2>1. Cardinality(block \cap CoinBases) <= 1
    BY <1>1 DEF Building
  <2>2. \A t \in block \ CoinBases : /\ InSet(t) \subseteq unspent
                                     /\ Worth(OutSet(t)) <= Worth(InSet(t))
    BY <1>1 DEF Building
  <2>3. \A t, u \in block \ CoinBases : t # u => InSet(t) \cap InSet(u) = {}
    BY <1>1 DEF Building
  <2>4. Ledger!Cardinality(block \cap CoinBases) = Cardinality(block \cap CoinBases)
    BY DEF Ledger!Cardinality, Cardinality
  <2> QED
    BY <2>1, <2>2, <2>3, <2>4 DEF Ledger!Acceptable, CoinBases, InSet, OutSet
<1>5. batch.unspent \in Ledger!Effects(block)
  BY <1>1 DEF Building, Ledger!Effects, Spent, Created, CoinBases, InSet, OutSet
<1> QED
  BY <1>2, <1>3, <1>4, <1>5 DEF Ledger!ApplyBlock

LEMMA OthersStutter ==
    ASSUME [Next]_vars, ~Finalize
    PROVE  UNCHANGED <<unspent, commits>>
<1>1. CASE BeginBlock \/ EndBlock \/ FinalizeFails \/ SaveBlock \/ Crash
  BY <1>1 DEF BeginBlock, EndBlock, FinalizeFails, SaveBlock, Crash, Restart, db
<1>2. ASSUME NEW tx \in Txs, AcceptCoinBase(tx) \/ RefuseBlock(tx) \/ AcceptTx(tx)
                               \/ DismissTx(tx) \/ ThrowAt(tx)
      PROVE  UNCHANGED <<unspent, commits>>
  BY <1>2 DEF AcceptCoinBase, RefuseBlock, AcceptTx, DismissTx, ThrowAt, Restart, db
<1>3. CASE UNCHANGED vars
  BY <1>3 DEF vars
<1> QED
  BY <1>1, <1>2, <1>3 DEF Next

\* A block takes effect as a whole or not at all, and what takes effect consumes
\* outputs that were unspent, none twice, and pays out no more than it consumes:
\* processBlock implements the ledger of UtxoLedger, whatever is refused, dismissed,
\* thrown or interrupted on the way, as long as no transaction's outputs sum up to 2^64.
THEOREM LedgerTheorem == ASSUME NoOverflow PROVE Spec => LedgerSpec
<1>1. Init => BlockInv
  BY DEF Init, BlockInv, Writing
<1>2. DataInv /\ BlockInv /\ [Next]_vars => BlockInv'
  BY BlockStep
<1>3. Init => Ledger!Init
  BY DEF Init, Ledger!Init
<1>4. BlockInv /\ [Next]_vars => [Ledger!ApplyBlock]_<<unspent, commits>>
  BY FinalizeApplies, OthersStutter
<1> QED
  BY <1>1, <1>2, <1>3, <1>4, DataInvariant, PTL DEF Spec, LedgerSpec, Ledger!Spec
=============================================================================
