--------------------------------- MODULE Script ---------------------------------
(***************************************************************************)
(* The evaluation of a signature script and of a public-key script on one  *)
(* stack (MCP/MCP06/scriptInterpreter.cpp, script.cpp, script.h and        *)
(* scriptFunctions.cpp).  Scripts are read one instruction at a time, any  *)
(* instruction may come next, and any may be the last.                     *)
(*                                                                         *)
(* A stack element is a number, a signature, a key or a hash; its bytes    *)
(* are left out.  What is signed does not depend on the script             *)
(* (signatureHash), so code separators and FindAndDelete make no           *)
(* difference.  Which signatures verify is a parameter: what is said of    *)
(* scripts holds for any checker.  The one of this repository verifies     *)
(* none, as Account::verify refuses an account without a wallet address.   *)
(***************************************************************************)
EXTENDS Integers, SequencesExt, FiniteSets

CONSTANTS
    MaxNum,          \* the largest operand: 2^31 - 1
    MaxOps,          \* MAX_OPS_PER_SCRIPT
    MaxStack,        \* MAX_STACK_SIZE
    MaxPubkeys,      \* MAX_PUBKEYS_PER_MULTISIG
    FlagSets,        \* values of flags, as sets of the names in SCRIPT_VERIFY
    Verifies,        \* pairs of a signature and a key verifySignature accepts
    Literals,        \* elements that data pushes push
    Unlocking,       \* sequences of elements a script may begin with
    Opcodes,         \* instructions that may occur
    MaxLen           \* bound of the model: instructions per script, by phase

ASSUME ScriptAssumption ==
    /\ MaxNum \in Nat \ {0} /\ MaxOps \in Nat /\ MaxStack \in Nat \ {0}
    /\ MaxPubkeys \in Nat \ {0}
    /\ MaxLen \in [{"sig", "pubkey"} -> Nat \ {0}]
    /\ \A u \in Unlocking : Len(u) <= MaxStack

VARIABLES
    phase,           \* "sig" and "pubkey": the script being run; "done"
    flags,
    stack, alt,      \* m_vecStack, m_vecAltStack; the top is the last element
    vfExec,          \* one BOOLEAN for each IF that is open
    nOpCount,
    error,           \* what verifyScript returns
    length,          \* instructions read of the script
    small,           \* history: n if the last opcode read was OP_n, else 0
    sigops,          \* history: GetSigOpCount of what was read of the script
    checks           \* history: signatures checked while running the script

vars == <<phase, flags, stack, alt, vfExec, nOpCount, error, length, small, sigops,
          checks>>

Init ==
    /\ phase = "sig"
    /\ flags \in FlagSets
    /\ stack = <<>> /\ alt = <<>> /\ vfExec = <<>>
    /\ nOpCount = 0
    /\ error = "OK"
    /\ length = 0 /\ small = 0 /\ sigops = 0 /\ checks = 0

-----------------------------------------------------------------------------
(* Elements *)

Num(n) == <<"num", n>>         \* zero is the empty vector
NegativeZero == <<"negzero">>  \* 0x80
Sig(k) == <<"sig", k>>
Key(k) == <<"key", k>>
Hash(op, e) == <<op>> \o e
ZeroBytes == <<"zerobytes">>   \* 32 bytes that are zero

Empty == Num(0)
Bool(b) == IF b THEN Num(1) ELSE Empty

CastToBool(e) == e \notin {Empty, NegativeZero, ZeroBytes}

Magnitude(n) == IF n < 0 THEN -n ELSE n
Minimal == "MINIMALDATA" \in flags

\* Mutant: operands of more than four bytes are taken.
IsAnyNumber(e) == e[1] = "num" \/ (e = NegativeZero /\ ~Minimal)
\* What the constructor of CScriptNum takes; it throws otherwise.
IsNumber(e) ==
    \/ e[1] = "num" /\ Magnitude(e[2]) <= MaxNum
    \/ e = NegativeZero /\ ~Minimal

Value(e) == IF e = NegativeZero THEN 0 ELSE e[2]

\* What is pushed is bytes; here it is a number only if it can be an operand.
IsPush(e) ==
    \/ e \in {NegativeZero, ZeroBytes}
    \/ e = <<e[1], e[2]>> /\ (e[1] = "num" => e[2] \in -MaxNum..MaxNum)

PushedBy(u) == {u[i] : i \in DOMAIN u}

ASSUME PushAssumption ==
    /\ \A e \in Literals : IsPush(e)
    /\ \A u \in Unlocking : u \in Seq(PushedBy(u)) /\ \A e \in PushedBy(u) : IsPush(e)

SizeOf(e) == IF e = Empty THEN 0 ELSE IF e[1] \in {"num", "negzero"} THEN 1 ELSE 2

-----------------------------------------------------------------------------
(* Reading an instruction *)

Conditionals == {"IF", "NOTIF", "ELSE", "ENDIF", "VERIF", "VERNOTIF"}
DisabledOps == {"CAT", "MUL"}          \* two of the fifteen
Pushes == {"PUSH", "RESERVED"}         \* not above OP_16

Executing == \A i \in DOMAIN vfExec : vfExec[i]

PushOnly == phase = "sig" /\ "SIGPUSHONLY" \in flags

\* What an instruction that runs makes of the state.
Ok(s) == [err |-> "OK", stack |-> s, alt |-> alt, exec |-> vfExec, keys |-> 0,
          checks |-> checks]
Err(e) == [Ok(stack) EXCEPT !.err = e]

\* verifyScript returns; what the interpreter still holds is not used again.
Fail(e) ==
    /\ phase' = "done"
    /\ error' = e
    /\ stack' = <<>> /\ alt' = <<>> /\ vfExec' = <<>>
    /\ nOpCount' = 0 /\ checks' = 0

Apply(r) ==
    /\ stack' = r.stack
    /\ alt' = r.alt
    /\ vfExec' = r.exec
    /\ checks' = r.checks
    /\ UNCHANGED <<phase, error>>

Counted(op) == nOpCount + (IF op \in Pushes THEN 0 ELSE 1)

\* Mutant: conditionals are run as other instructions are.
RunsIfExecuting(op) == Executing
Runs(op) == Executing \/ op \in Conditionals

\* Mutant: the alternative stack does not count.
MainStackTooDeep(r) == Len(r.stack) > MaxStack
TooDeep(r) == Len(r.stack) + Len(r.alt) > MaxStack

\* One round of evalScript's loop for opcode op, with result r if it runs.  The
\* signature script may have to be of pushes only; verifyScript looks first.
Step(op, r) ==
    /\ phase # "done"
    /\ length < MaxLen[phase]
    /\ length' = length + 1
    /\ UNCHANGED flags
    /\ IF PushOnly /\ op \notin Pushes
       THEN Fail("SIG_PUSHONLY")
       ELSE IF Counted(op) > MaxOps THEN Fail("OP_COUNT")
       ELSE IF op \in DisabledOps THEN Fail("DISABLED_OPCODE")
       ELSE IF ~Runs(op) THEN Apply(Ok(stack)) /\ nOpCount' = Counted(op)
       ELSE IF r.err # "OK" THEN Fail(r.err)
       ELSE IF TooDeep(r) THEN Fail("STACK_SIZE")
       ELSE Apply(r) /\ nOpCount' = Counted(op) + r.keys

\* GetSigOpCount(true) goes on by n; the opcode before the next is OP_(next).
Count(n, next) == sigops' = sigops + n /\ small' = next

Plain(op, r) == op \in Opcodes /\ Step(op, r) /\ Count(0, 0)

Top == stack[Len(stack)]
At(i) == stack[Len(stack) + 1 - i]              \* stacktop(-i)
Below(n) == SubSeq(stack, 1, Len(stack) - n)
Needs(n, r) == IF Len(stack) < n THEN Err("INVALID_STACK_OPERATION") ELSE r

-----------------------------------------------------------------------------
(* Pushes *)

\* n if the shortest push of the element is OP_n.
SmallNumber(e) == IF e[1] = "num" /\ Value(e) \in 1..16 THEN Value(e) ELSE 0

\* A push is minimal if it is the shortest that pushes the element.
Push(e, minimal) ==
    /\ Step("PUSH", IF Minimal /\ ~minimal THEN Err("ERR_MINIMALDATA")
                    ELSE Ok(Append(stack, e)))
    /\ Count(0, IF minimal THEN SmallNumber(e) ELSE 0)

\* The pushes a script begins with, all at once.
PushAll(u) ==
    /\ phase # "done" /\ length = 0 /\ Len(stack) + Len(alt) + Len(u) <= MaxStack
    /\ stack' = stack \o u
    /\ length' = MaxLen[phase] - 1
    /\ UNCHANGED <<phase, flags, alt, vfExec, nOpCount, error, checks>>
    /\ Count(0, IF u = <<>> THEN 0 ELSE SmallNumber(Last(u)))

\* Instructions that cannot be read: a script or a push that is too long, and a
\* push whose bytes are missing.
Malformed ==
    /\ phase # "done" /\ length < MaxLen[phase]
    /\ \E e \in {"SCRIPT_SIZE", "BAD_OPCODE", "PUSH_SIZE"} :
         /\ e = "SCRIPT_SIZE" => length = 0
         /\ Fail(IF e = "BAD_OPCODE" /\ PushOnly THEN "SIG_PUSHONLY" ELSE e)
    /\ UNCHANGED <<flags, length, small, sigops>>

-----------------------------------------------------------------------------
(* Control *)

\* Opcodes nothing handles: NOP2 and NOP3 are two of them.
BadOpcode(op) ==
    op \in {"RESERVED", "VER", "VERIF", "VERNOTIF", "NOP2", "NOP3"}
    /\ Plain(op, Err("BAD_OPCODE"))

Nop(op) ==
    /\ op \in {"NOP", "NOP1"}
    /\ Plain(op, IF op = "NOP1" /\ "DISCOURAGE_UPGRADABLE_NOPS" \in flags
                 THEN Err("ERR_DISCOURAGE_UPGRADABLE_NOPS") ELSE Ok(stack))

Disabled(op) == op \in DisabledOps /\ Plain(op, Ok(stack))

\* Mutant: the condition is popped where nothing is executed, too.
IfAlways(op) ==
    /\ op \in {"IF", "NOTIF"}
    /\ Plain(op, IF Len(stack) < 1 THEN Err("UNBALANCED_CONDITIONAL")
                 ELSE [Ok(Below(1)) EXCEPT
                         !.exec = Append(@, Executing /\ CastToBool(Top) = (op = "IF"))])
If(op) ==
    /\ op \in {"IF", "NOTIF"}
    /\ Plain(op, IF ~Executing THEN [Ok(stack) EXCEPT !.exec = Append(@, FALSE)]
                 ELSE IF Len(stack) < 1 THEN Err("UNBALANCED_CONDITIONAL")
                 ELSE [Ok(Below(1)) EXCEPT
                         !.exec = Append(@, CastToBool(Top) = (op = "IF"))])

Else ==
    Plain("ELSE", IF vfExec = <<>> THEN Err("UNBALANCED_CONDITIONAL")
                  ELSE [Ok(stack) EXCEPT !.exec = Append(Front(@), ~Last(@))])

EndIf ==
    Plain("ENDIF", IF vfExec = <<>> THEN Err("UNBALANCED_CONDITIONAL")
                   ELSE [Ok(stack) EXCEPT !.exec = Front(@)])

Verify ==
    Plain("VERIFY", Needs(1, IF CastToBool(Top) THEN Ok(Below(1)) ELSE Err("VERIFY")))

Return == Plain("RETURN", Err("RETURN"))

-----------------------------------------------------------------------------
(* Stack *)

\* How many elements an instruction takes, and which of them, counted from the
\* top, it leaves.
Shuffles ==
    [DROP |-> <<1, <<>>>>, DUP |-> <<1, <<1, 1>>>>,
     2DROP |-> <<2, <<>>>>, 2DUP |-> <<2, <<2, 1, 2, 1>>>>,
     NIP |-> <<2, <<1>>>>, OVER |-> <<2, <<2, 1, 2>>>>,
     SWAP |-> <<2, <<1, 2>>>>, TUCK |-> <<2, <<1, 2, 1>>>>,
     3DUP |-> <<3, <<3, 2, 1, 3, 2, 1>>>>, ROT |-> <<3, <<2, 1, 3>>>>,
     2OVER |-> <<4, <<4, 3, 2, 1, 4, 3>>>>, 2SWAP |-> <<4, <<2, 1, 4, 3>>>>,
     2ROT |-> <<6, <<4, 3, 2, 1, 6, 5>>>>]

Shuffle(op) ==
    LET n == Shuffles[op][1]
        left == Shuffles[op][2]
    IN /\ op \in DOMAIN Shuffles
       /\ Plain(op, Needs(n, Ok(Below(n) \o [i \in DOMAIN left |-> At(left[i])])))

IfDup ==
    Plain("IFDUP", Needs(1, Ok(IF CastToBool(Top) THEN Append(stack, Top) ELSE stack)))

Depth == Plain("DEPTH", Ok(Append(stack, Num(Len(stack)))))

Size == Plain("SIZE", Needs(1, Ok(Append(stack, Num(SizeOf(Top))))))

PickOrRoll(op) ==
    LET n == Value(Top)
        rest == Below(1)
        x == rest[Len(rest) - n]
    IN /\ op \in {"PICK", "ROLL"}
       /\ Plain(op, Needs(2,
            IF ~IsNumber(Top) THEN Err("UNKNOWN_ERROR")
            ELSE IF n < 0 \/ n >= Len(rest) THEN Err("INVALID_STACK_OPERATION")
            ELSE Ok(Append(IF op = "PICK" THEN rest ELSE RemoveAt(rest, Len(rest) - n), x))))

ToAltStack ==
    Plain("TOALTSTACK", Needs(1, [Ok(Below(1)) EXCEPT !.alt = Append(@, Top)]))

FromAltStack ==
    Plain("FROMALTSTACK", IF alt = <<>> THEN Err("INVALID_ALTSTACK_OPERATION")
                          ELSE [Ok(Append(stack, Last(alt))) EXCEPT !.alt = Front(@)])

-----------------------------------------------------------------------------
(* Comparing, counting, hashing *)

\* The last step of an instruction that ends in VERIFY.
Verified(op, verify, s, b) ==
    IF op # verify THEN Ok(Append(s, Bool(b)))
    ELSE IF b THEN Ok(s) ELSE Err(verify)

Equal(op) ==
    /\ op \in {"EQUAL", "EQUALVERIFY"}
    /\ Plain(op, Needs(2, Verified(op, "EQUALVERIFY", Below(2), At(2) = At(1))))

UnaryResults(n) ==
    [1ADD |-> n + 1, 1SUB |-> n - 1, NEGATE |-> -n, ABS |-> Magnitude(n),
     NOT |-> IF n = 0 THEN 1 ELSE 0, 0NOTEQUAL |-> IF n # 0 THEN 1 ELSE 0]

Unary(op) ==
    /\ op \in DOMAIN UnaryResults(0)
    /\ Plain(op, Needs(1, IF IsNumber(Top)
                          THEN Ok(Append(Below(1), Num(UnaryResults(Value(Top))[op])))
                          ELSE Err("UNKNOWN_ERROR")))

Truth(b) == IF b THEN 1 ELSE 0

BinaryResults(m, n) ==
    [ADD |-> m + n, SUB |-> m - n,
     MIN |-> IF m < n THEN m ELSE n, MAX |-> IF m > n THEN m ELSE n,
     BOOLAND |-> Truth(m # 0 /\ n # 0), BOOLOR |-> Truth(m # 0 \/ n # 0),
     NUMEQUAL |-> Truth(m = n), NUMEQUALVERIFY |-> Truth(m = n),
     NUMNOTEQUAL |-> Truth(m # n), LESSTHAN |-> Truth(m < n),
     GREATERTHAN |-> Truth(m > n), LESSTHANOREQUAL |-> Truth(m <= n),
     GREATERTHANOREQUAL |-> Truth(m >= n)]

Binary(op) ==
    LET v == BinaryResults(Value(At(2)), Value(At(1)))[op]
    IN /\ op \in DOMAIN BinaryResults(0, 0)
       /\ Plain(op, Needs(2,
            IF ~IsNumber(At(1)) \/ ~IsNumber(At(2)) THEN Err("UNKNOWN_ERROR")
            ELSE IF op = "NUMEQUALVERIFY" THEN Verified(op, op, Below(2), v = 1)
            ELSE Ok(Append(Below(2), Num(v)))))

Within ==
    Plain("WITHIN", Needs(3,
        IF \E i \in 1..3 : ~IsNumber(At(i)) THEN Err("UNKNOWN_ERROR")
        ELSE Ok(Append(Below(3), Bool(/\ Value(At(2)) <= Value(At(3))
                                      /\ Value(At(3)) < Value(At(1)))))))

\* The SHA3 opcodes leave the bytes of a hash that was never computed.
HashTop(op) ==
    /\ op \in {"HASH256", "SHA3_256"}
    /\ Plain(op, Needs(1, Ok(Append(Below(1),
                            IF op = "HASH256" THEN Hash(op, Top) ELSE ZeroBytes))))

CodeSeparator == Plain("CODESEPARATOR", Ok(stack))

-----------------------------------------------------------------------------
(* Signatures *)

Good(sig, key) == sig # Empty /\ <<sig, key>> \in Verifies

SigEncoded(sig) ==
    \/ sig = Empty \/ sig[1] = "sig"
    \/ flags \cap {"DERSIG", "LOW_S", "STRICTENC"} = {}

KeyEncoded(key) == key[1] = "key" \/ "STRICTENC" \notin flags

EncodingError(sig, key) ==
    IF ~SigEncoded(sig) THEN "SIG_DER" ELSE IF ~KeyEncoded(key) THEN "PUBKEYTYPE" ELSE "OK"

Checking(n, r) == [r EXCEPT !.checks = @ + n]

\* A key is copied as 65 bytes, however long it is, into an array of 64, and the
\* checker's transaction is never set: checking a signature may end the process.
StepChecking(op, r) ==
    \/ Step(op, r)
    \/ r.checks > checks /\ Step(op, Err("process ended"))

CheckSig(op) ==
    LET sig == At(2)
        good == Good(sig, At(1))
        bad == EncodingError(sig, At(1))
        r == IF bad # "OK" THEN Err(bad)
             ELSE IF ~good /\ "NULLFAIL" \in flags /\ sig # Empty
                  THEN Checking(1, Err("SIG_NULLFAIL"))
             ELSE Checking(1, Verified(op, "CHECKSIGVERIFY", Below(2), good))
    IN /\ op \in {"CHECKSIG", "CHECKSIGVERIFY"} \cap Opcodes
       /\ StepChecking(op, Needs(2, r))
       /\ Count(1, 0)

\* Mutant: a key is compared with the next signature, whether it was good or not.
EachOnce(sigs, keys) ==
    LET rest[i \in 1..(Len(keys) + 1)] ==
          IF i > Len(sigs) THEN [err |-> "OK", good |-> TRUE, checks |-> 0]
          ELSE IF ~Good(sigs[i], keys[i]) THEN [err |-> "OK", good |-> FALSE, checks |-> 1]
          ELSE [rest[i + 1] EXCEPT !.checks = @ + 1]
    IN rest[1]
\* The loop of CHECKMULTISIG: every key is tried once, for the next signature that
\* has no key yet; it ends when more signatures are left than keys.
Matched(sigs, keys) ==
    LET rest[j \in 1..(Len(keys) + 1)] ==
          [i \in 1..(Len(sigs) + 1) |->
             IF i > Len(sigs) THEN [err |-> "OK", good |-> TRUE, checks |-> 0]
             ELSE IF Len(sigs) - i > Len(keys) - j
                  THEN [err |-> "OK", good |-> FALSE, checks |-> 0]
             ELSE IF EncodingError(sigs[i], keys[j]) # "OK"
                  THEN [err |-> EncodingError(sigs[i], keys[j]), good |-> FALSE, checks |-> 0]
             ELSE [rest[j + 1][IF Good(sigs[i], keys[j]) THEN i + 1 ELSE i]
                     EXCEPT !.checks = @ + 1]]
    IN rest[1][1]

\* (dummy sig ... n-of-sigs key ... n-of-keys -- bool)
KeysCount == Value(At(1))
SigsCount == Value(At(KeysCount + 2))
MultisigKeys == [j \in 1..KeysCount |-> At(1 + j)]
MultisigSigs == [i \in 1..SigsCount |-> At(KeysCount + 2 + i)]

\* What follows once both counts are in range and the stack is deep enough.
Multisig(op) ==
    LET n == KeysCount + SigsCount + 3
        m == Matched(MultisigSigs, MultisigKeys)
        r == Verified(op, "CHECKMULTISIGVERIFY", Below(n), m.good)
    IN IF m.err # "OK" THEN Checking(m.checks, Err(m.err))
       ELSE IF /\ ~m.good /\ "NULLFAIL" \in flags
               /\ \E i \in DOMAIN MultisigSigs : MultisigSigs[i] # Empty
            THEN Checking(m.checks, Err("SIG_NULLFAIL"))
       ELSE IF "NULLDUMMY" \in flags /\ At(n) # Empty
            THEN Checking(m.checks, Err("SIG_NULLDUMMY"))
       ELSE Checking(m.checks, [r EXCEPT !.keys = KeysCount])

\* Mutant: an instruction counts once.
OneSigOp == 1
\* The operations counted for a CHECKMULTISIG: as many as there are keys if their
\* number is the opcode before.
MultisigSigOps == IF small # 0 THEN small ELSE MaxPubkeys

CheckMultisig(op) ==
    /\ op \in {"CHECKMULTISIG", "CHECKMULTISIGVERIFY"} \cap Opcodes
    /\ StepChecking(op, Needs(1,
         IF ~IsNumber(Top) THEN Err("UNKNOWN_ERROR")
         ELSE IF KeysCount \notin 0..MaxPubkeys THEN Err("PUBKEY_COUNT")
         ELSE IF Counted(op) + KeysCount > MaxOps THEN Err("OP_COUNT")
         ELSE Needs(KeysCount + 2,
           IF ~IsNumber(At(KeysCount + 2)) THEN Err("UNKNOWN_ERROR")
           ELSE IF SigsCount \notin 0..KeysCount THEN Err("SIG_COUNT")
           ELSE Needs(KeysCount + SigsCount + 3, Multisig(op)))))
    /\ Count(MultisigSigOps, 0)

-----------------------------------------------------------------------------
(* verifyScript *)

\* The signature script has run: the public-key script goes on with its stacks.
ToPubkeyScript ==
    /\ phase = "sig"
    /\ IF vfExec # <<>> THEN Fail("UNBALANCED_CONDITIONAL") /\ UNCHANGED sigops
       ELSE /\ phase' = "pubkey"
            /\ nOpCount' = 0 /\ sigops' = 0 /\ checks' = 0
            /\ UNCHANGED <<stack, alt, vfExec, error>>
    /\ length' = 0 /\ small' = 0
    /\ UNCHANGED flags

\* Pay-to-script-hash is switched off (IsPayToScriptHash), so what is left is to
\* look at the stack, and at CLEANSTACK.
Verdict ==
    IF vfExec # <<>> THEN "UNBALANCED_CONDITIONAL"
    ELSE IF stack = <<>> \/ ~CastToBool(Last(stack)) THEN "EVAL_FALSE"
    ELSE IF "CLEANSTACK" \in flags /\ ("P2SH" \in flags \/ Len(stack) # 1)
         THEN "ERR_CLEANSTACK"
    ELSE "OK"

Finish ==
    /\ phase = "pubkey"
    /\ Fail(Verdict)
    /\ UNCHANGED <<flags, length, small, sigops>>

Next ==
    \/ \E e \in Literals, minimal \in BOOLEAN : Push(e, minimal)
    \/ \E u \in Unlocking : PushAll(u)
    \/ Malformed \/ Else \/ EndIf \/ Verify \/ Return
    \/ IfDup \/ Depth \/ Size \/ ToAltStack \/ FromAltStack \/ Within \/ CodeSeparator
    \/ \E op \in Opcodes :
         \/ BadOpcode(op) \/ Nop(op) \/ Disabled(op) \/ If(op)
         \/ Shuffle(op) \/ PickOrRoll(op) \/ Equal(op) \/ Unary(op) \/ Binary(op)
         \/ HashTop(op) \/ CheckSig(op) \/ CheckMultisig(op)
    \/ ToPubkeyScript \/ Finish

Spec == Init /\ [][Next]_vars

-----------------------------------------------------------------------------
(* Properties *)

Errors ==
    {"OK", "UNKNOWN_ERROR", "EVAL_FALSE", "RETURN", "SCRIPT_SIZE", "PUSH_SIZE",
     "OP_COUNT", "STACK_SIZE", "SIG_COUNT", "PUBKEY_COUNT", "VERIFY", "EQUALVERIFY",
     "CHECKMULTISIGVERIFY", "CHECKSIGVERIFY", "NUMEQUALVERIFY", "BAD_OPCODE",
     "DISABLED_OPCODE", "INVALID_STACK_OPERATION", "INVALID_ALTSTACK_OPERATION",
     "UNBALANCED_CONDITIONAL", "SIG_DER", "ERR_MINIMALDATA", "SIG_PUSHONLY",
     "SIG_NULLDUMMY", "PUBKEYTYPE", "ERR_CLEANSTACK", "SIG_NULLFAIL",
     "ERR_DISCOURAGE_UPGRADABLE_NOPS", "process ended"}

\* Types, and the limits of script.h: the two stacks together and the operations
\* of a script, keys included, stay within theirs after every instruction.
TypeOK ==
    /\ phase \in {"sig", "pubkey", "done"}
    /\ flags \in FlagSets
    /\ Len(stack) + Len(alt) <= MaxStack
    /\ vfExec \in Seq(BOOLEAN)
    /\ nOpCount \in 0..MaxOps
    /\ error \in Errors
    /\ length \in Nat
    /\ small \in 0..16 /\ sigops \in Nat /\ checks \in Nat

\* GetSigOpCount, which only reads a script, is never less than the number of
\* signatures evalScript really checks in it.
SigOpsCounted == checks <= sigops

\* Whatever a script computes, no number needs more than a byte beyond an operand:
\* the assertions of CScriptNum's operators hold.
ArithmeticFits ==
    \A i \in DOMAIN stack : stack[i][1] = "num" =>
        \/ Magnitude(stack[i][2]) <= 2 * MaxNum
        \/ stack[i][2] \in 0..MaxStack

\* What is between a false condition and its ELSE or ENDIF touches neither stack
\* and checks nothing, conditionals inside it included (evalScript, vfExec).
SkippedHasNoEffect ==
    [][~Executing /\ length' > length /\ phase' # "done"
         => UNCHANGED <<stack, alt, checks>>]_vars

\* CHECKMULTISIG finds a key for every signature whenever there is a way to do it
\* that keeps them in order.
InOrder(sigs, keys) ==
    \E f \in [DOMAIN sigs -> DOMAIN keys] :
        /\ \A i \in DOMAIN sigs : Good(sigs[i], keys[f[i]])
        /\ \A i, j \in DOMAIN sigs : i < j => f[i] < f[j]

MultisigIsComplete ==
    [][\A op \in {"CHECKMULTISIG"} \cap Opcodes :
         CheckMultisig(op) /\ Executing /\ phase' # "done"
           => (Last(stack') = Bool(TRUE) <=> InOrder(MultisigSigs, MultisigKeys))]_vars
=================================================================================
