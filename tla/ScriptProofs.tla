------------------------------ MODULE ScriptProofs -----------------------------
(***************************************************************************)
(* Proofs about Script, for any flags, any limits, any signatures that     *)
(* verify and scripts of any length.                                       *)
(***************************************************************************)
EXTENDS Script, Induction

\* A script begins outside all conditionals, also the second one.
OpenInv ==
    /\ phase \in {"sig", "pubkey", "done"}
    /\ length \in Nat
    /\ phase # "done" /\ length = 0 => vfExec = <<>>

LEMMA InitOpen == Init => OpenInv
  BY DEF Init, OpenInv

-----------------------------------------------------------------------------
(* One instruction *)

\* A script that has ended stays ended, and an instruction leaves its phase alone
\* or ends it.
LEMMA StepPhase ==
    ASSUME OpenInv, NEW op, NEW r, Step(op, r)
    PROVE  phase' \in {phase, "done"} /\ length' = length + 1
  BY DEF Step, Fail, Apply

\* Where nothing is executed, an instruction that is no conditional is passed over.
LEMMA SkippedStep ==
    ASSUME NEW op, NEW r, Step(op, r), ~Executing, phase' # "done",
           op \in Conditionals =>
             r.err # "OK" \/ (r.stack = stack /\ r.alt = alt /\ r.checks = checks)
    PROVE  UNCHANGED <<stack, alt, checks>>
<1>1. CASE Runs(op)
  <2>1. op \in Conditionals /\ phase' = phase
    BY <1>1 DEF Runs, Step, Fail, Apply
  <2>2. r.err = "OK" /\ Apply(r)
    BY <1>1, <2>1 DEF Step, Fail
  <2> QED
    BY <2>1, <2>2 DEF Apply
<1>2. CASE ~Runs(op)
  <2>1. Apply(Ok(stack))
    BY <1>2 DEF Step, Fail
  <2> QED
    BY <2>1 DEF Apply, Ok
<1> QED
  BY <1>1, <1>2

\* Every step is one of an instruction, or none of them.
Instruction ==
    \E op, r : /\ Step(op, r)
               /\ op \in Conditionals /\ ~Executing =>
                    r.err # "OK" \/ (r.stack = stack /\ r.alt = alt /\ r.checks = checks)

LEMMA ByInstruction ==
    ASSUME NEW op, NEW r, Step(op, r), op \notin Conditionals
    PROVE  Instruction
  BY DEF Instruction

LEMMA ByPlain ==
    ASSUME NEW op, NEW r, Plain(op, r), op \notin Conditionals
    PROVE  Instruction
  BY ByInstruction DEF Plain

LEMMA ByConditional ==
    ASSUME NEW op, NEW r, Plain(op, r), ~Executing =>
             r.err # "OK" \/ (r.stack = stack /\ r.alt = alt /\ r.checks = checks)
    PROVE  Instruction
  BY DEF Plain, Instruction

LEMMA NextCases ==
    ASSUME Next
    PROVE  \/ Instruction
           \/ \E u \in Unlocking : PushAll(u)
           \/ Malformed \/ ToPubkeyScript \/ Finish
<1>1. CASE \E e \in Literals, minimal \in BOOLEAN : Push(e, minimal)
  BY <1>1, ByInstruction DEF Push, Conditionals
<1>2. CASE Else
  <2> DEFINE r == IF vfExec = <<>> THEN Err("UNBALANCED_CONDITIONAL")
                  ELSE [Ok(stack) EXCEPT !.exec = Append(Front(@), ~Last(@))]
  <2>1. r.err # "OK" \/ (r.stack = stack /\ r.alt = alt /\ r.checks = checks)
    BY DEF Ok, Err
  <2>2. Plain("ELSE", r)
    BY <1>2 DEF Else
  <2> QED
    BY <2>1, <2>2, ByConditional
<1>3. CASE EndIf
  <2> DEFINE r == IF vfExec = <<>> THEN Err("UNBALANCED_CONDITIONAL")
                  ELSE [Ok(stack) EXCEPT !.exec = Front(@)]
  <2>1. r.err # "OK" \/ (r.stack = stack /\ r.alt = alt /\ r.checks = checks)
    BY DEF Ok, Err
  <2>2. Plain("ENDIF", r)
    BY <1>3 DEF EndIf
  <2> QED
    BY <2>1, <2>2, ByConditional
<1>4. CASE Verify \/ Return
  BY <1>4, ByPlain DEF Verify, Return, Conditionals
<1>5. CASE IfDup \/ Depth \/ Size
  BY <1>5, ByPlain DEF IfDup, Depth, Size, Conditionals
<1>6. CASE ToAltStack \/ FromAltStack \/ Within \/ CodeSeparator
  <2>1. \A op \in {"TOALTSTACK", "FROMALTSTACK", "WITHIN", "CODESEPARATOR"} :
          op \notin Conditionals
    BY DEF Conditionals
  <2>2. CASE ToAltStack
    BY <2>1, <2>2, ByPlain DEF ToAltStack
  <2>3. CASE FromAltStack
    BY <2>1, <2>3, ByPlain DEF FromAltStack
  <2>4. CASE Within
    BY <2>1, <2>4, ByPlain DEF Within
  <2>5. CASE CodeSeparator
    BY <2>1, <2>5, ByPlain DEF CodeSeparator
  <2> QED
    BY <1>6, <2>2, <2>3, <2>4, <2>5
<1>7. ASSUME NEW op \in Opcodes, BadOpcode(op)
      PROVE  Instruction
  <2>1. Err("BAD_OPCODE").err # "OK"
    BY DEF Err, Ok
  <2> QED
    BY <1>7, <2>1, ByConditional DEF BadOpcode
<1>8. ASSUME NEW op \in Opcodes, If(op)
      PROVE  Instruction
  <2> DEFINE r == IF ~Executing THEN [Ok(stack) EXCEPT !.exec = Append(@, FALSE)]
                  ELSE IF Len(stack) < 1 THEN Err("UNBALANCED_CONDITIONAL")
                  ELSE [Ok(Below(1)) EXCEPT
                          !.exec = Append(@, CastToBool(Top) = (op = "IF"))]
  <2>1. ~Executing => r.stack = stack /\ r.alt = alt /\ r.checks = checks
    BY DEF Ok
  <2>2. Plain(op, r)
    BY <1>8 DEF If
  <2> QED
    BY <2>1, <2>2, ByConditional
<1>9. ASSUME NEW op \in Opcodes, Nop(op) \/ Disabled(op) \/ PickOrRoll(op) \/ Equal(op)
                                   \/ HashTop(op)
      PROVE  Instruction
  BY <1>9, ByPlain DEF Nop, Disabled, DisabledOps, PickOrRoll, Equal, HashTop, Conditionals
<1>10. ASSUME NEW op \in Opcodes, Shuffle(op) \/ Unary(op) \/ Binary(op)
       PROVE  Instruction
  <2>1. op \notin Conditionals
    BY <1>10 DEF Shuffle, Shuffles, Unary, UnaryResults, Binary, BinaryResults, Conditionals
  <2> QED
    BY <1>10, <2>1, ByPlain DEF Shuffle, Unary, Binary
<1>11. ASSUME NEW op \in Opcodes, CheckSig(op) \/ CheckMultisig(op)
       PROVE  Instruction
  <2>1. op \notin Conditionals
    BY <1>11 DEF CheckSig, CheckMultisig, Conditionals
  <2> QED
    BY <1>11, <2>1, ByInstruction DEF CheckSig, CheckMultisig, StepChecking
<1> QED
  BY <1>1, <1>2, <1>3, <1>4, <1>5, <1>6, <1>7, <1>8, <1>9, <1>10, <1>11 DEF Next

-----------------------------------------------------------------------------

LEMMA OpenStep ==
    ASSUME OpenInv, [Next]_vars
    PROVE  OpenInv'
<1>1. CASE Instruction
  <2>1. PICK op, r : Step(op, r)
    BY <1>1 DEF Instruction
  <2>2. phase' \in {phase, "done"} /\ length' = length + 1
    BY <2>1, StepPhase
  <2> QED
    BY <2>2 DEF OpenInv
<1>2. ASSUME NEW u \in Unlocking, PushAll(u)
      PROVE  OpenInv'
  <2>1. MaxLen[phase] - 1 \in Nat
    BY <1>2, ScriptAssumption DEF PushAll, OpenInv
  <2> QED
    BY <1>2, <2>1 DEF PushAll, OpenInv
<1>3. CASE Malformed \/ Finish
  BY <1>3 DEF Malformed, Finish, Fail, OpenInv
<1>4. CASE ToPubkeyScript
  BY <1>4 DEF ToPubkeyScript, Fail, OpenInv
<1>5. CASE UNCHANGED vars
  BY <1>5 DEF vars, OpenInv
<1> QED
  BY <1>1, <1>2, <1>3, <1>4, <1>5, NextCases

\* Every script begins outside all conditionals: one that leaves a conditional open
\* ends the verification (evalScript, scriptInterpreter.cpp:64, and verifyScript, 773).
THEOREM OpenTheorem == Spec => []OpenInv
  BY InitOpen, OpenStep, PTL DEF Spec

\* What is between a false condition and its ELSE or ENDIF touches neither stack and
\* checks nothing, conditionals inside it included (evalScript,
\* scriptInterpreter.cpp:159), in scripts of any length and under any flags.
THEOREM SkippedHasNoEffectTheorem == Spec => SkippedHasNoEffect
<1>1. ASSUME OpenInv, [Next]_vars, ~Executing, length' > length, phase' # "done"
      PROVE  UNCHANGED <<stack, alt, checks>>
  <2>1. CASE Instruction
    BY <1>1, <2>1, SkippedStep DEF Instruction
  <2>2. CASE \E u \in Unlocking : PushAll(u)
    BY <1>1, <2>2 DEF PushAll, OpenInv, Executing
  <2>3. CASE Malformed \/ ToPubkeyScript \/ Finish
    BY <1>1, <2>3 DEF Malformed, ToPubkeyScript, Finish, Fail, OpenInv
  <2>4. CASE UNCHANGED vars
    BY <1>1, <2>4 DEF vars, OpenInv
  <2> QED
    BY <1>1, <2>1, <2>2, <2>3, <2>4, NextCases
<1> QED
  BY <1>1, OpenTheorem, PTL DEF SkippedHasNoEffect, Spec

-----------------------------------------------------------------------------
(* Elements and stacks *)

\* A number on a stack is an operand, what one operation makes of operands, or the
\* depth of a stack.
Fits(e) ==
    /\ \E S : e \in Seq(S)
    /\ e[1] = "num" => /\ e[2] \in Int
                       /\ Magnitude(e[2]) <= 2 * MaxNum \/ e[2] \in 0..MaxStack

Fit(s) == \E S : s \in Seq(S) /\ \A e \in S : Fits(e)

LEMMA Limits ==
    /\ MaxNum \in Nat /\ MaxNum >= 1 /\ MaxStack \in Nat /\ MaxStack >= 1
    /\ MaxPubkeys \in Nat /\ MaxOps \in Nat
  BY ScriptAssumption

LEMMA NumFits ==
    ASSUME NEW n \in Int, Magnitude(n) <= 2 * MaxNum \/ n \in 0..MaxStack
    PROVE  Fits(Num(n)) /\ Value(Num(n)) = n
<1>1. Num(n) \in Seq({"num", n}) /\ Num(n)[1] = "num" /\ Num(n)[2] = n
  BY DEF Num
<1>2. Num(n) # NegativeZero
  BY DEF Num, NegativeZero
<1> QED
  BY <1>1, <1>2 DEF Fits, Value

LEMMA SmallFits == \A n \in 0..2 : Fits(Num(n)) /\ Value(Num(n)) = n
<1> TAKE n \in 0..2
<1>1. n \in Int /\ Magnitude(n) <= 2 * MaxNum
  BY Limits DEF Magnitude
<1> QED
  BY <1>1, NumFits

LEMMA BoolFits == \A b \in BOOLEAN : Fits(Bool(b))
  BY SmallFits DEF Bool, Empty

LEMMA PushFits ==
    ASSUME NEW e, IsPush(e)
    PROVE  Fits(e)
<1>1. CASE e \in {NegativeZero, ZeroBytes}
  <2>1. NegativeZero \in Seq({"negzero"}) /\ NegativeZero[1] # "num"
        /\ ZeroBytes \in Seq({"zerobytes"}) /\ ZeroBytes[1] # "num"
    BY DEF NegativeZero, ZeroBytes
  <2> QED
    BY <1>1, <2>1 DEF Fits
<1>2. CASE e = <<e[1], e[2]>> /\ (e[1] = "num" => e[2] \in -MaxNum..MaxNum)
  <2>1. e \in Seq({e[1], e[2]})
    <3> DEFINE a == e[1]
               b == e[2]
    <3> HIDE DEF a, b
    <3>1. <<a, b>> \in Seq({a, b})
      OBVIOUS
    <3> QED
      BY <1>2, <3>1 DEF a, b
  <2>2. e[1] = "num" => e[2] \in Int /\ Magnitude(e[2]) <= 2 * MaxNum
    <3>1. \A n \in -MaxNum..MaxNum : n \in Int /\ Magnitude(n) <= 2 * MaxNum
      BY Limits DEF Magnitude
    <3> QED
      BY <1>2, <3>1
  <2> QED
    BY <2>1, <2>2 DEF Fits
<1> QED
  BY <1>1, <1>2 DEF IsPush

LEMMA HashFits ==
    ASSUME NEW e, Fits(e)
    PROVE  Fits(Hash("HASH256", e)) /\ Fits(ZeroBytes)
<1>1. PICK S : e \in Seq(S)
  BY DEF Fits
<1> DEFINE h == <<"HASH256">>
           U == S \cup {"HASH256"}
<1>2. h \in Seq(U) /\ Len(h) = 1 /\ h[1] = "HASH256"
  OBVIOUS
<1>3. e \in Seq(U)
  BY <1>1, SeqMonotonic
<1>4. Len(e) \in Nat
  BY <1>1, LenProperties
<1> HIDE DEF h, U
<1>5. /\ h \o e \in Seq(U)
      /\ \A i \in 1..(Len(h) + Len(e)) : (h \o e)[i] = IF i <= Len(h) THEN h[i] ELSE e[i - Len(h)]
  BY <1>2, <1>3, ConcatProperties
<1>6. (h \o e)[1] = "HASH256"
  <2>1. 1 \in 1..(Len(h) + Len(e)) /\ 1 <= Len(h)
    BY <1>2, <1>4
  <2> QED
    BY <1>2, <1>5, <2>1
<1>7. Fits(h \o e)
  BY <1>5, <1>6 DEF Fits
<1> QED
  BY <1>7, PushFits DEF Hash, h, IsPush

LEMMA FitType ==
    ASSUME NEW s, Fit(s)
    PROVE  Len(s) \in Nat /\ DOMAIN s = 1..Len(s) /\ \A i \in 1..Len(s) : Fits(s[i])
<1>1. PICK S : s \in Seq(S) /\ \A e \in S : Fits(e)
  BY DEF Fit
<1> QED
  BY <1>1, LenProperties

LEMMA FitEmpty == Fit(<<>>)
<1> DEFINE S == {Num(0)}
<1>1. <<>> \in Seq(S)
  OBVIOUS
<1>2. \A e \in S : Fits(e)
  BY SmallFits
<1> HIDE DEF S
<1> QED
  BY <1>1, <1>2 DEF Fit

LEMMA FitAppend ==
    ASSUME NEW s, Fit(s), NEW e, Fits(e)
    PROVE  /\ Fit(Append(s, e)) /\ Append(s, e) # <<>> /\ Last(Append(s, e)) = e
           /\ Len(Append(s, e)) = Len(s) + 1
<1>1. PICK S : s \in Seq(S) /\ \A x \in S : Fits(x)
  BY DEF Fit
<1> DEFINE U == S \cup {e}
<1>2. s \in Seq(U) /\ e \in U /\ \A x \in U : Fits(x)
  BY <1>1, SeqMonotonic
<1> HIDE DEF U
<1>3. /\ Append(s, e) \in Seq(U) /\ Append(s, e) # <<>>
      /\ Len(Append(s, e)) = Len(s) + 1 /\ Append(s, e)[Len(s) + 1] = e
  BY <1>2, AppendProperties
<1> QED
  BY <1>2, <1>3 DEF Fit, Last

LEMMA FitPart ==
    ASSUME NEW s, Fit(s), NEW a \in 1..(Len(s) + 1), NEW b \in 0..Len(s)
    PROVE  /\ Fit(SubSeq(s, a, b))
           /\ Len(SubSeq(s, a, b)) = IF a <= b THEN b - a + 1 ELSE 0
           /\ \A i \in 1..(b - a + 1) : SubSeq(s, a, b)[i] = s[a + i - 1]
<1>1. PICK S : s \in Seq(S) /\ \A x \in S : Fits(x)
  BY DEF Fit
<1>2. Len(s) \in Nat /\ a \in Int /\ b \in Int /\ \A i \in a..b : s[i] \in S
  BY <1>1, LenProperties
<1>3. /\ SubSeq(s, a, b) \in Seq(S)
      /\ Len(SubSeq(s, a, b)) = IF a <= b THEN b - a + 1 ELSE 0
      /\ \A i \in 1..(b - a + 1) : SubSeq(s, a, b)[i] = s[a + i - 1]
  BY <1>2, SubSeqProperties
<1> QED
  BY <1>1, <1>3 DEF Fit

LEMMA FitConcat ==
    ASSUME NEW s, Fit(s), NEW t, Fit(t)
    PROVE  Fit(s \o t) /\ Len(s \o t) = Len(s) + Len(t)
           /\ (t # <<>> => s \o t # <<>> /\ Last(s \o t) = Last(t))
<1>1. PICK S : s \in Seq(S) /\ \A x \in S : Fits(x)
  BY DEF Fit
<1>2. PICK T : t \in Seq(T) /\ \A x \in T : Fits(x)
  BY DEF Fit
<1> DEFINE U == S \cup T
<1>3. s \in Seq(U) /\ t \in Seq(U) /\ \A x \in U : Fits(x)
  BY <1>1, <1>2, SeqMonotonic
<1> HIDE DEF U
<1>4. /\ s \o t \in Seq(U) /\ Len(s \o t) = Len(s) + Len(t)
      /\ \A i \in 1..(Len(s) + Len(t)) : (s \o t)[i] = IF i <= Len(s) THEN s[i] ELSE t[i - Len(s)]
  BY <1>3, ConcatProperties
<1>5. ASSUME t # <<>>
      PROVE  s \o t # <<>> /\ Last(s \o t) = Last(t)
  <2>1. Len(s) \in Nat /\ Len(t) \in Nat /\ Len(t) > 0
    BY <1>3, <1>5, LenProperties, EmptySeq
  <2>2. /\ Len(s) + Len(t) \in 1..(Len(s) + Len(t)) /\ ~(Len(s) + Len(t) <= Len(s))
        /\ (Len(s) + Len(t)) - Len(s) = Len(t) /\ Len(s) + Len(t) # 0
    BY <2>1
  <2>3. (s \o t)[Len(s) + Len(t)] = t[Len(t)]
    BY <1>4, <2>2
  <2>4. s \o t # <<>>
    BY <1>4, <2>2
  <2> QED
    BY <1>4, <2>3, <2>4 DEF Last
<1> QED
  BY <1>3, <1>4, <1>5 DEF Fit

\* What is below the top, and what is at a place counted from it.
LEMMA FitBelow ==
    ASSUME Fit(stack), NEW n \in 0..Len(stack)
    PROVE  Fit(Below(n)) /\ Len(Below(n)) = Len(stack) - n
<1>1. Len(stack) \in Nat
  BY FitType
<1>2. 1 \in 1..(Len(stack) + 1) /\ Len(stack) - n \in 0..Len(stack)
      /\ (IF 1 <= Len(stack) - n THEN (Len(stack) - n) - 1 + 1 ELSE 0) = Len(stack) - n
  BY <1>1
<1> QED
  BY <1>2, FitPart DEF Below

LEMMA FitAt ==
    ASSUME Fit(stack), NEW i \in 1..Len(stack)
    PROVE  Fits(At(i)) /\ Top = At(1)
<1>1. Len(stack) \in Nat
  BY FitType
<1>2. Len(stack) + 1 - i \in 1..Len(stack) /\ Len(stack) + 1 - 1 = Len(stack)
  BY <1>1
<1> QED
  BY <1>2, FitType DEF At, Top

LEMMA FitFront ==
    ASSUME NEW s, Fit(s), s # <<>>
    PROVE  Fit(Front(s)) /\ Fits(Last(s))
<1>1. Len(s) \in Nat /\ Len(s) > 0
  BY EmptySeq DEF Fit
<1>2. 1 \in 1..(Len(s) + 1) /\ Len(s) - 1 \in 0..Len(s) /\ Len(s) \in 1..Len(s)
  BY <1>1
<1> QED
  BY <1>2, FitPart, FitType DEF Front, Last

LEMMA FitRemoved ==
    ASSUME NEW s, Fit(s), NEW i \in 1..Len(s)
    PROVE  Fit(RemoveAt(s, i))
<1>1. Len(s) \in Nat
  BY FitType
<1>2. /\ 1 \in 1..(Len(s) + 1) /\ i - 1 \in 0..Len(s)
      /\ i + 1 \in 1..(Len(s) + 1) /\ Len(s) \in 0..Len(s)
  BY <1>1
<1>3. Fit(SubSeq(s, 1, i - 1)) /\ Fit(SubSeq(s, i + 1, Len(s)))
  BY <1>2, FitPart
<1> QED
  BY <1>3, FitConcat DEF RemoveAt

LEMMA FitPushes ==
    ASSUME NEW u \in Unlocking
    PROVE  Fit(u)
<1>1. u \in Seq(PushedBy(u)) /\ \A e \in PushedBy(u) : Fits(e)
  BY PushAssumption, PushFits
<1> QED
  BY <1>1 DEF Fit

-----------------------------------------------------------------------------
(* The inductive invariant *)

StackInv == Fit(stack) /\ Fit(alt) /\ Len(stack) + Len(alt) <= MaxStack

CountInv ==
    /\ flags \in FlagSets /\ error \in Errors
    /\ vfExec \in Seq(BOOLEAN)
    /\ nOpCount \in 0..MaxOps
    /\ small \in 0..16 /\ sigops \in Nat /\ checks \in Nat
    /\ checks <= sigops

\* The number that GetSigOpCount takes for the keys of a CHECKMULTISIG is the one
\* that evalScript finds on the stack, if the instruction is run.
SmallInv ==
    phase # "done" /\ small # 0 /\ Executing =>
        stack # <<>> /\ Value(Last(stack)) = small

ScriptInv == OpenInv /\ StackInv /\ CountInv /\ SmallInv

LEMMA InitScript == Init => ScriptInv
<1> SUFFICES ASSUME Init
             PROVE  ScriptInv
  OBVIOUS
<1>1. StackInv
  <2>1. Len(<<>>) = 0
    OBVIOUS
  <2> QED
    BY <2>1, FitEmpty, Limits DEF Init, StackInv
<1>2. CountInv
  BY Limits DEF Init, CountInv, Errors
<1> QED
  BY <1>1, <1>2, InitOpen DEF ScriptInv, SmallInv, Init

\* What an instruction may make of the state if GetSigOpCount goes on by n.
Result(r, n) ==
    /\ r.err \in Errors
    /\ Fit(r.stack) /\ Fit(r.alt) /\ r.exec \in Seq(BOOLEAN)
    /\ r.keys \in Nat /\ r.checks \in Nat /\ r.checks <= checks + n

LEMMA StepInv ==
    ASSUME ScriptInv, NEW op, NEW r, NEW n \in Nat, NEW next \in 0..16,
           Step(op, r), Count(n, next), Result(r, n),
           r.err = "OK" => r.keys = 0 \/ Counted(op) + r.keys <= MaxOps,
           next # 0 => /\ op \notin Conditionals
                       /\ r.err = "OK" => r.stack # <<>> /\ Value(Last(r.stack)) = next
    PROVE  ScriptInv'
<1>1. OpenInv /\ StackInv /\ CountInv
  BY DEF ScriptInv
<1>2. OpenInv'
  <2>1. phase' \in {phase, "done"} /\ length' = length + 1
    BY <1>1, StepPhase
  <2> QED
    BY <1>1, <2>1 DEF OpenInv
<1>3. flags' = flags /\ sigops' = sigops + n /\ small' = next
  BY DEF Step, Count
<1>4. sigops' \in Nat /\ checks <= sigops' /\ checks + n <= sigops'
  BY <1>1, <1>3 DEF CountInv
<1>5. Counted(op) \in Nat
  BY <1>1, Limits DEF Counted, CountInv
<1>6. ASSUME NEW e \in Errors, Fail(e)
      PROVE  ScriptInv'
  <2>1. StackInv'
    <3>1. Len(<<>>) = 0
      OBVIOUS
    <3> QED
      BY <1>6, <3>1, FitEmpty, Limits DEF Fail, StackInv
  <2>2. CountInv'
    <3>1. <<>> \in Seq(BOOLEAN)
      OBVIOUS
    <3> QED
      BY <1>1, <1>3, <1>4, <1>6, <3>1, Limits DEF Fail, CountInv
  <2>3. SmallInv'
    BY <1>6 DEF Fail, SmallInv
  <2> QED
    BY <1>2, <2>1, <2>2, <2>3 DEF ScriptInv
<1>7. CASE Apply(Ok(stack)) /\ nOpCount' = Counted(op) /\ Counted(op) <= MaxOps /\ ~Runs(op)
  <2>1. UNCHANGED <<stack, alt, vfExec, checks, phase, error>>
    BY <1>7 DEF Apply, Ok
  <2>2. StackInv' /\ CountInv'
    BY <1>1, <1>3, <1>4, <1>5, <1>7, <2>1, Limits DEF StackInv, CountInv
  <2>3. SmallInv'
    BY <1>7, <2>1 DEF SmallInv, Executing, Runs
  <2> QED
    BY <1>2, <2>2, <2>3 DEF ScriptInv
<1>8. CASE /\ Runs(op) /\ r.err = "OK" /\ ~TooDeep(r) /\ Apply(r)
           /\ Counted(op) <= MaxOps /\ nOpCount' = Counted(op) + r.keys
  <2>1. /\ stack' = r.stack /\ alt' = r.alt /\ vfExec' = r.exec /\ checks' = r.checks
        /\ UNCHANGED <<phase, error>>
    BY <1>8 DEF Apply
  <2>2. StackInv'
    <3>1. Len(r.stack) + Len(r.alt) <= MaxStack
      <4>1. Len(r.stack) \in Nat /\ Len(r.alt) \in Nat
        BY FitType DEF Result
      <4>2. ~(Len(r.stack) + Len(r.alt) > MaxStack)
        BY <1>8 DEF TooDeep
      <4>3. \A a, b \in Nat : ~(a + b > MaxStack) => a + b <= MaxStack
        BY Limits
      <4> QED
        BY <4>1, <4>2, <4>3
    <3> QED
      BY <2>1, <3>1 DEF StackInv, Result
  <2>3. CountInv'
    <3>1. nOpCount' \in 0..MaxOps
      BY <1>5, <1>8, Limits DEF Result
    <3>2. checks' \in Nat /\ checks' <= sigops'
      BY <1>1, <1>4, <2>1 DEF Result, CountInv
    <3> QED
      BY <1>1, <1>3, <1>4, <2>1, <3>1, <3>2 DEF CountInv, Result
  <2>4. SmallInv'
    BY <1>3, <1>8, <2>1 DEF SmallInv
  <2> QED
    BY <1>2, <2>2, <2>3, <2>4 DEF ScriptInv
<1>9. \/ \E e \in Errors : Fail(e)
      \/ Apply(Ok(stack)) /\ nOpCount' = Counted(op) /\ Counted(op) <= MaxOps /\ ~Runs(op)
      \/ /\ Runs(op) /\ r.err = "OK" /\ ~TooDeep(r) /\ Apply(r)
         /\ Counted(op) <= MaxOps /\ nOpCount' = Counted(op) + r.keys
  <2>1. {"SIG_PUSHONLY", "OP_COUNT", "DISABLED_OPCODE", "STACK_SIZE"} \subseteq Errors
        /\ r.err \in Errors
    BY DEF Errors, Result
  <2>2. Counted(op) > MaxOps \/ Counted(op) <= MaxOps
    BY <1>5, Limits
  <2> QED
    BY <2>1, <2>2 DEF Step
<1> QED
  BY <1>6, <1>7, <1>8, <1>9

-----------------------------------------------------------------------------
(* Results of instructions *)

LEMMA ErrResult ==
    ASSUME ScriptInv, NEW e \in Errors, NEW n \in Nat
    PROVE  /\ Result(Err(e), n) /\ Err(e).keys = 0 /\ Err(e).err = e
           /\ Err(e).checks = checks
<1>1. /\ Fit(stack) /\ Fit(alt) /\ vfExec \in Seq(BOOLEAN) /\ checks \in Nat
  BY DEF ScriptInv, StackInv, CountInv
<1>2. Err(e) = [err |-> e, stack |-> stack, alt |-> alt, exec |-> vfExec, keys |-> 0,
                checks |-> checks]
  BY DEF Err, Ok
<1> QED
  BY <1>1, <1>2 DEF Result

LEMMA OkResult ==
    ASSUME ScriptInv, NEW s, Fit(s), NEW n \in Nat
    PROVE  /\ Result(Ok(s), n) /\ Ok(s).keys = 0 /\ Ok(s).err = "OK" /\ Ok(s).stack = s
           /\ Ok(s).checks = checks
<1>1. /\ Fit(alt) /\ vfExec \in Seq(BOOLEAN) /\ checks \in Nat /\ "OK" \in Errors
  BY DEF ScriptInv, StackInv, CountInv, Errors
<1> QED
  BY <1>1 DEF Result, Ok

LEMMA FrontType ==
    ASSUME NEW S, NEW s \in Seq(S), s # <<>>
    PROVE  Front(s) \in Seq(S)
<1>1. Len(s) \in Nat /\ Len(s) > 0
  BY LenProperties, EmptySeq
<1>2. 1 \in Int /\ Len(s) - 1 \in Int /\ \A i \in 1..(Len(s) - 1) : s[i] \in S
  BY <1>1, ElementOfSeq
<1> QED
  BY <1>2, SubSeqProperties DEF Front

\* An instruction that neither checks signatures nor pushes a count.
LEMMA PlainInv ==
    ASSUME ScriptInv, NEW op, NEW r, Plain(op, r), Result(r, 0), r.keys = 0
    PROVE  ScriptInv'
<1>1. Step(op, r) /\ Count(0, 0) /\ 0 \in Nat /\ 0 \in 0..16
  BY DEF Plain
<1> QED
  BY <1>1, StepInv

Small(r) == Result(r, 0) /\ r.keys = 0

LEMMA SmallErr == ASSUME ScriptInv, NEW e \in Errors PROVE Small(Err(e))
  BY ErrResult DEF Small

LEMMA SmallOk == ASSUME ScriptInv, NEW s, Fit(s) PROVE Small(Ok(s))
  BY OkResult DEF Small

LEMMA SmallNeeds ==
    ASSUME ScriptInv, NEW n, NEW r, ~(Len(stack) < n) => Small(r)
    PROVE  Small(Needs(n, r))
<1>1. "INVALID_STACK_OPERATION" \in Errors
  BY DEF Errors
<1> QED
  BY <1>1, SmallErr DEF Needs

LEMMA SmallVerified ==
    ASSUME ScriptInv, NEW op, NEW verify \in Errors, NEW s, Fit(s), NEW b \in BOOLEAN
    PROVE  Small(Verified(op, verify, s, b))
<1>1. Fit(Append(s, Bool(b)))
  BY BoolFits, FitAppend
<1> QED
  BY <1>1, SmallOk, SmallErr DEF Verified

\* What the stack holds when it is deep enough.
LEMMA Deep ==
    ASSUME ScriptInv, NEW n \in Nat, ~(Len(stack) < n)
    PROVE  /\ Fit(stack) /\ Len(stack) \in Nat /\ Len(stack) >= n /\ Fit(Below(n))
           /\ \A i \in 1..n : Fits(At(i))
           /\ n > 0 => Top = At(1) /\ stack # <<>>
<1>1. Fit(stack) /\ Len(stack) \in Nat
  BY FitType DEF ScriptInv, StackInv
<1>2. n \in 0..Len(stack)
  BY <1>1
<1>3. \A i \in 1..n : i \in 1..Len(stack)
  BY <1>2
<1>4. n > 0 => 1 \in 1..Len(stack) /\ stack # <<>>
  BY <1>2, EmptySeq
<1> QED
  BY <1>1, <1>2, <1>3, <1>4, FitBelow, FitAt

\* An operand.
LEMMA Operand ==
    ASSUME NEW e, Fits(e), IsNumber(e)
    PROVE  Value(e) \in -MaxNum..MaxNum /\ Value(e) \in Int
<1>1. CASE e = NegativeZero
  BY <1>1, Limits DEF Value
<1>2. CASE e # NegativeZero
  <2>1. e[1] = "num" /\ Magnitude(e[2]) <= MaxNum /\ e[2] \in Int
    BY <1>2 DEF IsNumber, Fits
  <2> QED
    BY <1>2, <2>1, Limits DEF Value, Magnitude
<1> QED
  BY <1>1, <1>2

LEMMA NearFits ==
    ASSUME NEW n \in Int, -(2 * MaxNum) <= n, n <= 2 * MaxNum
    PROVE  Fits(Num(n))
<1>1. Magnitude(n) <= 2 * MaxNum
  BY Limits DEF Magnitude
<1> QED
  BY <1>1, NumFits

-----------------------------------------------------------------------------
(* Every instruction keeps the invariant *)

LEMMA PushInv ==
    ASSUME ScriptInv, NEW e \in Literals, NEW minimal \in BOOLEAN, Push(e, minimal)
    PROVE  ScriptInv'
<1> DEFINE r == IF Minimal /\ ~minimal THEN Err("ERR_MINIMALDATA") ELSE Ok(Append(stack, e))
           next == IF minimal THEN SmallNumber(e) ELSE 0
<1>1. Step("PUSH", r) /\ Count(0, next) /\ "PUSH" \notin Conditionals
  BY DEF Push, Conditionals
<1>2. Fits(e) /\ Fit(stack)
  BY PushAssumption, PushFits DEF ScriptInv, StackInv
<1>3. Fit(Append(stack, e)) /\ Append(stack, e) # <<>> /\ Last(Append(stack, e)) = e
  BY <1>2, FitAppend
<1>4. next \in 0..16 /\ (next # 0 => Value(e) = next)
  BY DEF SmallNumber
<1>5. Small(r)
  <2>1. "ERR_MINIMALDATA" \in Errors
    BY DEF Errors
  <2> QED
    BY <1>3, <2>1, SmallErr, SmallOk
<1>6. r.err = "OK" => r.stack = Append(stack, e)
  <2>1. Err("ERR_MINIMALDATA").err # "OK" /\ Ok(Append(stack, e)).stack = Append(stack, e)
    BY DEF Err, Ok
  <2> QED
    BY <2>1
<1> HIDE DEF r, next
<1>7. Result(r, 0) /\ r.keys = 0 /\ 0 \in Nat
  BY <1>5 DEF Small
<1>8. next # 0 => /\ "PUSH" \notin Conditionals
                  /\ r.err = "OK" => r.stack # <<>> /\ Value(Last(r.stack)) = next
  BY <1>1, <1>3, <1>4, <1>6
<1> QED
  BY <1>1, <1>4, <1>7, <1>8, StepInv

LEMMA PushAllInv ==
    ASSUME ScriptInv, NEW u \in Unlocking, PushAll(u)
    PROVE  ScriptInv'
<1>1. /\ Fit(stack) /\ Fit(alt) /\ Fit(u) /\ OpenInv /\ CountInv
  BY FitPushes DEF ScriptInv, StackInv
<1>2. /\ phase # "done" /\ Len(stack) + Len(alt) + Len(u) <= MaxStack
      /\ stack' = stack \o u /\ length' = MaxLen[phase] - 1
      /\ UNCHANGED <<phase, flags, alt, vfExec, nOpCount, error, checks>>
      /\ sigops' = sigops + 0 /\ small' = IF u = <<>> THEN 0 ELSE SmallNumber(Last(u))
      /\ vfExec = <<>>
  BY <1>1 DEF PushAll, Count, OpenInv
<1>3. OpenInv'
  <2>1. MaxLen[phase] - 1 \in Nat
    BY <1>1, <1>2, ScriptAssumption DEF OpenInv
  <2> QED
    BY <1>1, <1>2, <2>1 DEF OpenInv
<1>4. StackInv'
  <2>1. Fit(stack \o u) /\ Len(stack \o u) = Len(stack) + Len(u)
        /\ Len(stack) \in Nat /\ Len(alt) \in Nat /\ Len(u) \in Nat
    BY <1>1, FitConcat, FitType
  <2> QED
    BY <1>1, <1>2, <2>1, Limits DEF StackInv
<1>5. small' \in 0..16 /\ (small' # 0 => u # <<>> /\ Value(Last(u)) = small')
  BY <1>2 DEF SmallNumber
<1>6. CountInv'
  BY <1>1, <1>2, <1>5 DEF CountInv
<1>7. SmallInv'
  BY <1>1, <1>2, <1>5, FitConcat DEF SmallInv
<1> QED
  BY <1>3, <1>4, <1>6, <1>7 DEF ScriptInv

LEMMA FailInv ==
    ASSUME ScriptInv, NEW e \in Errors, Fail(e), flags' = flags, small' \in 0..16,
           sigops' \in Nat, length' \in Nat
    PROVE  ScriptInv'
<1>1. Len(<<>>) = 0 /\ <<>> \in Seq(BOOLEAN)
  OBVIOUS
<1> QED
  BY <1>1, FitEmpty, Limits DEF ScriptInv, Fail, StackInv, CountInv, SmallInv, OpenInv

LEMMA MalformedInv == ScriptInv /\ Malformed => ScriptInv'
<1> SUFFICES ASSUME ScriptInv, Malformed
             PROVE  ScriptInv'
  OBVIOUS
<1>1. PICK e \in {"SCRIPT_SIZE", "BAD_OPCODE", "PUSH_SIZE"} :
        Fail(IF e = "BAD_OPCODE" /\ PushOnly THEN "SIG_PUSHONLY" ELSE e)
  BY DEF Malformed
<1>2. (IF e = "BAD_OPCODE" /\ PushOnly THEN "SIG_PUSHONLY" ELSE e) \in Errors
  BY DEF Errors
<1>3. UNCHANGED <<flags, length, small, sigops>>
  BY DEF Malformed
<1> QED
  BY <1>1, <1>2, <1>3, FailInv DEF ScriptInv, CountInv, OpenInv

LEMMA FinishInv == ScriptInv /\ Finish => ScriptInv'
<1> SUFFICES ASSUME ScriptInv, Finish
             PROVE  ScriptInv'
  OBVIOUS
<1>1. Verdict \in Errors
  BY DEF Verdict, Errors
<1>2. Fail(Verdict) /\ UNCHANGED <<flags, length, small, sigops>>
  BY DEF Finish
<1> QED
  BY <1>1, <1>2, FailInv DEF ScriptInv, CountInv, OpenInv

LEMMA ToPubkeyInv == ScriptInv /\ ToPubkeyScript => ScriptInv'
<1> SUFFICES ASSUME ScriptInv, ToPubkeyScript
             PROVE  ScriptInv'
  OBVIOUS
<1>1. CASE vfExec # <<>>
  <2>1. Fail("UNBALANCED_CONDITIONAL") /\ sigops' = sigops /\ length' = 0 /\ small' = 0
        /\ flags' = flags /\ "UNBALANCED_CONDITIONAL" \in Errors
    BY <1>1 DEF ToPubkeyScript, Errors
  <2> QED
    BY <2>1, FailInv DEF ScriptInv, CountInv
<1>2. CASE vfExec = <<>>
  <2>1. /\ phase' = "pubkey" /\ nOpCount' = 0 /\ sigops' = 0 /\ checks' = 0
        /\ UNCHANGED <<stack, alt, vfExec, error, flags>> /\ length' = 0 /\ small' = 0
    BY <1>2 DEF ToPubkeyScript
  <2> QED
    BY <1>2, <2>1, Limits DEF ScriptInv, OpenInv, StackInv, CountInv, SmallInv
<1> QED
  BY <1>1, <1>2

\* A result that changes the conditionals only, or the alternative stack too.
Executed(s, x) == [Ok(s) EXCEPT !.exec = x]

LEMMA ExecResult ==
    ASSUME ScriptInv, NEW s, Fit(s), NEW x \in Seq(BOOLEAN)
    PROVE  Small(Executed(s, x))
<1>1. [Ok(s) EXCEPT !.exec = x] = [err |-> "OK", stack |-> s, alt |-> alt, exec |-> x,
                                   keys |-> 0, checks |-> checks]
  BY DEF Ok
<1>2. Fit(alt) /\ checks \in Nat /\ "OK" \in Errors
  BY DEF ScriptInv, StackInv, CountInv, Errors
<1> QED
  BY <1>1, <1>2 DEF Small, Result, Executed

LEMMA AltResult ==
    ASSUME ScriptInv, NEW s, Fit(s), NEW t, Fit(t)
    PROVE  Small([Ok(s) EXCEPT !.alt = t])
<1>1. [Ok(s) EXCEPT !.alt = t] = [err |-> "OK", stack |-> s, alt |-> t, exec |-> vfExec,
                                  keys |-> 0, checks |-> checks]
  BY DEF Ok
<1>2. vfExec \in Seq(BOOLEAN) /\ checks \in Nat /\ "OK" \in Errors
  BY DEF ScriptInv, CountInv, Errors
<1> QED
  BY <1>1, <1>2 DEF Small, Result

LEMMA ControlInv ==
    ASSUME ScriptInv, NEW op \in Opcodes,
           \/ BadOpcode(op) \/ Nop(op) \/ Disabled(op) \/ If(op) \/ Else \/ EndIf
           \/ Verify \/ Return \/ CodeSeparator
    PROVE  ScriptInv'
<1>1. Fit(stack) /\ vfExec \in Seq(BOOLEAN)
  BY DEF ScriptInv, StackInv, CountInv
<1>2. {"BAD_OPCODE", "ERR_DISCOURAGE_UPGRADABLE_NOPS", "UNBALANCED_CONDITIONAL", "VERIFY",
       "RETURN"} \subseteq Errors
  BY DEF Errors
<1>3. CASE BadOpcode(op)
  BY <1>2, <1>3, SmallErr, PlainInv DEF BadOpcode, Small
<1>4. CASE Nop(op)
  <2> DEFINE r == IF op = "NOP1" /\ "DISCOURAGE_UPGRADABLE_NOPS" \in flags
                  THEN Err("ERR_DISCOURAGE_UPGRADABLE_NOPS") ELSE Ok(stack)
  <2>1. Plain(op, r)
    BY <1>4 DEF Nop
  <2>2. Small(r)
    BY <1>1, <1>2, SmallErr, SmallOk
  <2> QED
    BY <2>1, <2>2, PlainInv DEF Small
<1>5. CASE Disabled(op) \/ CodeSeparator
  <2>1. Small(Ok(stack))
    BY <1>1, SmallOk
  <2> QED
    BY <1>5, <2>1, PlainInv DEF Disabled, CodeSeparator, Small
<1>6. CASE If(op)
  <2> DEFINE r == IF ~Executing THEN [Ok(stack) EXCEPT !.exec = Append(@, FALSE)]
                  ELSE IF Len(stack) < 1 THEN Err("UNBALANCED_CONDITIONAL")
                  ELSE [Ok(Below(1)) EXCEPT
                          !.exec = Append(@, CastToBool(Top) = (op = "IF"))]
  <2>1. Plain(op, r)
    BY <1>6 DEF If
  <2>2. \A b \in BOOLEAN : Append(vfExec, b) \in Seq(BOOLEAN)
    BY <1>1, AppendProperties
  <2>3. \A t : Ok(t).exec = vfExec
    BY DEF Ok
  <2>4. CASE ~Executing
    <3>1. r = Executed(stack, Append(vfExec, FALSE))
      BY <2>3, <2>4 DEF Executed
    <3>2. Small(Executed(stack, Append(vfExec, FALSE)))
      BY <1>1, <2>2, ExecResult
    <3> HIDE DEF r
    <3> QED
      BY <2>1, <3>1, <3>2, PlainInv DEF Small
  <2>5. CASE Executing /\ Len(stack) < 1
    <3>1. r = Err("UNBALANCED_CONDITIONAL")
      BY <2>5
    <3> HIDE DEF r
    <3> QED
      BY <1>2, <2>1, <3>1, SmallErr, PlainInv DEF Small
  <2>6. CASE Executing /\ ~(Len(stack) < 1)
    <3> DEFINE b == CastToBool(Top) = (op = "IF")
    <3>1. r = Executed(Below(1), Append(vfExec, b))
      BY <2>3, <2>6 DEF Executed
    <3>2. Fit(Below(1)) /\ b \in BOOLEAN
      BY <2>6, Deep
    <3> HIDE DEF b
    <3>3. Small(Executed(Below(1), Append(vfExec, b)))
      BY <2>2, <3>2, ExecResult
    <3> HIDE DEF r
    <3> QED
      BY <2>1, <3>1, <3>3, PlainInv DEF Small
  <2> QED
    BY <2>4, <2>5, <2>6
<1>7. CASE Else
  <2> DEFINE r == IF vfExec = <<>> THEN Err("UNBALANCED_CONDITIONAL")
                  ELSE [Ok(stack) EXCEPT !.exec = Append(Front(@), ~Last(@))]
  <2>1. Plain("ELSE", r)
    BY <1>7 DEF Else
  <2>2. Small(r)
    <3>1. CASE vfExec = <<>>
      BY <1>2, <3>1, SmallErr
    <3>2. CASE vfExec # <<>>
      <4>1. r = Executed(stack, Append(Front(vfExec), ~Last(vfExec)))
        BY <3>2 DEF Ok, Executed
      <4>2. Append(Front(vfExec), ~Last(vfExec)) \in Seq(BOOLEAN)
        <5>1. Front(vfExec) \in Seq(BOOLEAN)
          BY <1>1, <3>2, FrontType
        <5>2. (~Last(vfExec)) \in BOOLEAN
          OBVIOUS
        <5> QED
          BY <5>1, <5>2, AppendProperties
      <4>3. Small(Executed(stack, Append(Front(vfExec), ~Last(vfExec))))
        BY <1>1, <4>2, ExecResult
      <4> QED
        BY <4>1, <4>3, Zenon
    <3> QED
      BY <3>1, <3>2
  <2> QED
    BY <2>1, <2>2, PlainInv DEF Small
<1>8. CASE EndIf
  <2> DEFINE r == IF vfExec = <<>> THEN Err("UNBALANCED_CONDITIONAL")
                  ELSE [Ok(stack) EXCEPT !.exec = Front(@)]
  <2>1. Plain("ENDIF", r)
    BY <1>8 DEF EndIf
  <2>2. Small(r)
    <3>1. CASE vfExec = <<>>
      BY <1>2, <3>1, SmallErr
    <3>2. CASE vfExec # <<>>
      <4>1. r = Executed(stack, Front(vfExec))
        BY <3>2 DEF Ok, Executed
      <4>2. Front(vfExec) \in Seq(BOOLEAN)
        BY <1>1, <3>2, FrontType
      <4>3. Small(Executed(stack, Front(vfExec)))
        BY <1>1, <4>2, ExecResult
      <4> QED
        BY <4>1, <4>3, Zenon
    <3> QED
      BY <3>1, <3>2
  <2> QED
    BY <2>1, <2>2, PlainInv DEF Small
<1>9. CASE Verify
  <2> DEFINE q == IF CastToBool(Top) THEN Ok(Below(1)) ELSE Err("VERIFY")
  <2>1. Plain("VERIFY", Needs(1, q))
    BY <1>9 DEF Verify
  <2>2. ~(Len(stack) < 1) => Small(q)
    BY <1>2, Deep, SmallErr, SmallOk
  <2> HIDE DEF q
  <2>3. Small(Needs(1, q))
    BY <2>2, SmallNeeds
  <2> QED
    BY <2>1, <2>3, PlainInv DEF Small
<1>10. CASE Return
  BY <1>2, <1>10, SmallErr, PlainInv DEF Return, Small
<1> QED
  BY <1>3, <1>4, <1>5, <1>6, <1>7, <1>8, <1>9, <1>10

\* The places a shuffle takes are those it looks at.
LEMMA ShuffleType ==
    \A op \in DOMAIN Shuffles :
        Shuffles[op][1] \in Nat /\ Shuffles[op][2] \in Seq(1..Shuffles[op][1])
<1>1. DOMAIN Shuffles = {"DROP", "DUP", "2DROP", "2DUP", "NIP", "OVER", "SWAP", "TUCK",
                         "3DUP", "ROT", "2OVER", "2SWAP", "2ROT"}
  BY DEF Shuffles
<1>2. /\ Shuffles["DROP"] = <<1, <<>>>> /\ Shuffles["DUP"] = <<1, <<1, 1>>>>
      /\ Shuffles["2DROP"] = <<2, <<>>>> /\ Shuffles["2DUP"] = <<2, <<2, 1, 2, 1>>>>
      /\ Shuffles["NIP"] = <<2, <<1>>>> /\ Shuffles["OVER"] = <<2, <<2, 1, 2>>>>
      /\ Shuffles["SWAP"] = <<2, <<1, 2>>>> /\ Shuffles["TUCK"] = <<2, <<1, 2, 1>>>>
      /\ Shuffles["3DUP"] = <<3, <<3, 2, 1, 3, 2, 1>>>>
      /\ Shuffles["ROT"] = <<3, <<2, 1, 3>>>>
      /\ Shuffles["2OVER"] = <<4, <<4, 3, 2, 1, 4, 3>>>>
      /\ Shuffles["2SWAP"] = <<4, <<2, 1, 4, 3>>>>
      /\ Shuffles["2ROT"] = <<6, <<4, 3, 2, 1, 6, 5>>>>
  BY DEF Shuffles
<1>3. /\ <<>> \in Seq(1..1) /\ <<1, 1>> \in Seq(1..1)
      /\ <<>> \in Seq(1..2) /\ <<2, 1, 2, 1>> \in Seq(1..2) /\ <<1>> \in Seq(1..2)
      /\ <<2, 1, 2>> \in Seq(1..2) /\ <<1, 2>> \in Seq(1..2) /\ <<1, 2, 1>> \in Seq(1..2)
      /\ <<3, 2, 1, 3, 2, 1>> \in Seq(1..3) /\ <<2, 1, 3>> \in Seq(1..3)
      /\ <<4, 3, 2, 1, 4, 3>> \in Seq(1..4) /\ <<2, 1, 4, 3>> \in Seq(1..4)
      /\ <<4, 3, 2, 1, 6, 5>> \in Seq(1..6)
  OBVIOUS
<1>4. ASSUME NEW op, NEW n \in Nat, NEW left \in Seq(1..n), Shuffles[op] = <<n, left>>
      PROVE  Shuffles[op][1] \in Nat /\ Shuffles[op][2] \in Seq(1..Shuffles[op][1])
  BY <1>4
<1> DEFINE Sound(op) == Shuffles[op][1] \in Nat
                        /\ Shuffles[op][2] \in Seq(1..Shuffles[op][1])
<1>5. 1 \in Nat /\ 2 \in Nat /\ 3 \in Nat /\ 4 \in Nat /\ 6 \in Nat
  OBVIOUS
<1>6. Sound("DROP") /\ Sound("DUP")
  BY <1>2, <1>3, <1>4, <1>5
<1>7. Sound("2DROP") /\ Sound("2DUP") /\ Sound("NIP") /\ Sound("OVER") /\ Sound("SWAP")
      /\ Sound("TUCK")
  BY <1>2, <1>3, <1>4, <1>5
<1>8. Sound("3DUP") /\ Sound("ROT") /\ Sound("2OVER") /\ Sound("2SWAP") /\ Sound("2ROT")
  BY <1>2, <1>3, <1>4, <1>5
<1> HIDE DEF Sound
<1>9. \A op \in DOMAIN Shuffles : Sound(op)
  BY <1>1, <1>6, <1>7, <1>8
<1> QED
  BY <1>9 DEF Sound

LEMMA ShuffleInv ==
    ASSUME ScriptInv, NEW op \in Opcodes, Shuffle(op)
    PROVE  ScriptInv'
<1> DEFINE n == Shuffles[op][1]
           left == Shuffles[op][2]
           moved == [i \in DOMAIN left |-> At(left[i])]
<1>1. op \in DOMAIN Shuffles /\ Plain(op, Needs(n, Ok(Below(n) \o moved)))
  BY DEF Shuffle
<1>2. n \in Nat /\ left \in Seq(1..n)
  BY <1>1, ShuffleType
<1> HIDE DEF n, left
<1>3. ASSUME ~(Len(stack) < n)
      PROVE  Small(Ok(Below(n) \o moved))
  <2>1. Fit(Below(n)) /\ \A i \in 1..n : Fits(At(i))
    BY <1>2, <1>3, Deep
  <2> DEFINE S == {At(i) : i \in 1..n}
  <2>2. Len(left) \in Nat /\ DOMAIN left = 1..Len(left) /\ \A i \in 1..Len(left) : left[i] \in 1..n
    BY <1>2, LenProperties, ElementOfSeq
  <2>3. moved \in [1..Len(left) -> S]
    BY <2>2
  <2>4. moved \in Seq(S)
    BY <2>2, <2>3, SeqDef
  <2>5. \A e \in S : Fits(e)
    BY <2>1
  <2> HIDE DEF S, moved
  <2>6. Fit(moved)
    BY <2>4, <2>5 DEF Fit
  <2> QED
    BY <2>1, <2>6, FitConcat, SmallOk
<1> HIDE DEF moved
<1>4. Small(Needs(n, Ok(Below(n) \o moved)))
  BY <1>3, SmallNeeds
<1> QED
  BY <1>1, <1>4, PlainInv DEF Small

LEMMA StackOpsInv ==
    ASSUME ScriptInv, IfDup \/ Depth \/ Size \/ ToAltStack \/ FromAltStack
    PROVE  ScriptInv'
<1>1. Fit(stack) /\ Fit(alt) /\ Len(stack) \in Nat /\ Len(alt) \in Nat
      /\ Len(stack) + Len(alt) <= MaxStack
  BY FitType DEF ScriptInv, StackInv
<1>2. CASE IfDup
  <2> DEFINE q == Ok(IF CastToBool(Top) THEN Append(stack, Top) ELSE stack)
  <2>1. ~(Len(stack) < 1) => Small(q)
    <3>1. ~(Len(stack) < 1) => Fits(Top)
      BY Deep
    <3> QED
      BY <1>1, <3>1, FitAppend, SmallOk
  <2>2. Plain("IFDUP", Needs(1, q))
    BY <1>2 DEF IfDup
  <2> HIDE DEF q
  <2> QED
    BY <2>1, <2>2, SmallNeeds, PlainInv DEF Small
<1>3. CASE Depth
  <2>1. Len(stack) \in 0..MaxStack /\ Len(stack) \in Int
    BY <1>1, Limits
  <2>2. Fits(Num(Len(stack)))
    BY <2>1, NumFits
  <2>3. Small(Ok(Append(stack, Num(Len(stack)))))
    BY <1>1, <2>2, FitAppend, SmallOk
  <2> QED
    BY <1>3, <2>3, PlainInv DEF Depth, Small
<1>4. CASE Size
  <2> DEFINE q == Ok(Append(stack, Num(SizeOf(Top))))
  <2>1. SizeOf(Top) \in 0..2
    BY DEF SizeOf
  <2>2. Small(q)
    BY <1>1, <2>1, SmallFits, FitAppend, SmallOk
  <2>3. Plain("SIZE", Needs(1, q))
    BY <1>4 DEF Size
  <2> HIDE DEF q
  <2> QED
    BY <2>2, <2>3, SmallNeeds, PlainInv DEF Small
<1>5. CASE ToAltStack
  <2> DEFINE q == [Ok(Below(1)) EXCEPT !.alt = Append(@, Top)]
  <2>1. q = [Ok(Below(1)) EXCEPT !.alt = Append(alt, Top)]
    BY DEF Ok
  <2>2. ~(Len(stack) < 1) => Small(q)
    <3>1. ~(Len(stack) < 1) => Fit(Below(1)) /\ Fits(Top)
      BY Deep
    <3> QED
      BY <1>1, <2>1, <3>1, FitAppend, AltResult
  <2>3. Plain("TOALTSTACK", Needs(1, q))
    BY <1>5 DEF ToAltStack
  <2> HIDE DEF q
  <2> QED
    BY <2>2, <2>3, SmallNeeds, PlainInv DEF Small
<1>6. CASE FromAltStack
  <2> DEFINE q == IF alt = <<>> THEN Err("INVALID_ALTSTACK_OPERATION")
                  ELSE [Ok(Append(stack, Last(alt))) EXCEPT !.alt = Front(@)]
  <2>1. CASE alt = <<>>
    <3>1. "INVALID_ALTSTACK_OPERATION" \in Errors
      BY DEF Errors
    <3> QED
      BY <1>6, <2>1, <3>1, SmallErr, PlainInv DEF FromAltStack, Small
  <2>2. CASE alt # <<>>
    <3>1. q = [Ok(Append(stack, Last(alt))) EXCEPT !.alt = Front(alt)]
      BY <2>2 DEF Ok
    <3>2. Small(q)
      BY <1>1, <2>2, <3>1, FitFront, FitAppend, AltResult
    <3>3. Plain("FROMALTSTACK", q)
      BY <1>6 DEF FromAltStack
    <3> HIDE DEF q
    <3> QED
      BY <3>2, <3>3, PlainInv DEF Small
  <2> QED
    BY <2>1, <2>2
<1> QED
  BY <1>2, <1>3, <1>4, <1>5, <1>6

LEMMA PickOrRollInv ==
    ASSUME ScriptInv, NEW op \in Opcodes, PickOrRoll(op)
    PROVE  ScriptInv'
<1> DEFINE n == Value(Top)
           rest == Below(1)
           x == rest[Len(rest) - n]
           t == Append(IF op = "PICK" THEN rest ELSE RemoveAt(rest, Len(rest) - n), x)
           q == IF ~IsNumber(Top) THEN Err("UNKNOWN_ERROR")
                ELSE IF n < 0 \/ n >= Len(rest) THEN Err("INVALID_STACK_OPERATION")
                ELSE Ok(t)
<1>1. Plain(op, Needs(2, q))
  BY DEF PickOrRoll
<1>2. {"UNKNOWN_ERROR", "INVALID_STACK_OPERATION"} \subseteq Errors
  BY DEF Errors
<1>3. ASSUME ~(Len(stack) < 2), IsNumber(Top), ~(n < 0 \/ n >= Len(rest))
      PROVE  Fit(t)
  <2>1. Len(stack) \in Nat /\ ~(Len(stack) < 1)
    <3>1. Len(stack) \in Nat
      BY FitType DEF ScriptInv, StackInv
    <3> QED
      BY <1>3, <3>1
  <2>2. Fit(rest) /\ Fits(Top)
    BY <2>1, Deep
  <2>3. n \in Int
    BY <1>3, <2>2, Operand
  <2> HIDE DEF n, rest
  <2>4. Len(rest) \in Nat
    BY <2>2, FitType
  <2>5. Len(rest) - n \in 1..Len(rest)
    BY <1>3, <2>3, <2>4
  <2>6. Fits(x) /\ Fit(RemoveAt(rest, Len(rest) - n))
    BY <2>2, <2>5, FitType, FitRemoved
  <2> QED
    BY <2>2, <2>6, FitAppend
<1>4. ~(Len(stack) < 2) => Small(q)
  BY <1>2, <1>3, SmallErr, SmallOk
<1> HIDE DEF q
<1> QED
  BY <1>1, <1>4, SmallNeeds, PlainInv DEF Small

\* What one operation makes of operands.
LEMMA UnaryFits ==
    ASSUME NEW n \in Int, n \in -MaxNum..MaxNum, NEW op \in DOMAIN UnaryResults(0)
    PROVE  Fits(Num(UnaryResults(n)[op]))
<1>1. op \in {"1ADD", "1SUB", "NEGATE", "ABS", "NOT", "0NOTEQUAL"}
  BY DEF UnaryResults
<1>2. /\ UnaryResults(n)["1ADD"] = n + 1 /\ UnaryResults(n)["1SUB"] = n - 1
      /\ UnaryResults(n)["NEGATE"] = -n /\ UnaryResults(n)["ABS"] = Magnitude(n)
      /\ UnaryResults(n)["NOT"] \in {0, 1} /\ UnaryResults(n)["0NOTEQUAL"] \in {0, 1}
  BY DEF UnaryResults
<1> DEFINE Near(v) == v \in Int /\ -(2 * MaxNum) <= v /\ v <= 2 * MaxNum
<1>3. Near(n + 1) /\ Near(n - 1) /\ Near(-n) /\ Near(Magnitude(n)) /\ Near(0) /\ Near(1)
  BY Limits DEF Magnitude
<1> HIDE DEF Near
<1>4. Near(UnaryResults(n)[op])
  BY <1>1, <1>2, <1>3
<1> QED
  BY <1>4, NearFits DEF Near

LEMMA BinaryFits ==
    ASSUME NEW m \in Int, m \in -MaxNum..MaxNum, NEW n \in Int, n \in -MaxNum..MaxNum,
           NEW op \in DOMAIN BinaryResults(0, 0)
    PROVE  Fits(Num(BinaryResults(m, n)[op]))
<1> DEFINE Truths == {"BOOLAND", "BOOLOR", "NUMEQUAL", "NUMEQUALVERIFY", "NUMNOTEQUAL",
                      "LESSTHAN", "GREATERTHAN", "LESSTHANOREQUAL", "GREATERTHANOREQUAL"}
<1>1. op \in Truths \cup {"ADD", "SUB", "MIN", "MAX"}
  BY DEF BinaryResults
<1>2. /\ BinaryResults(m, n)["ADD"] = m + n /\ BinaryResults(m, n)["SUB"] = m - n
      /\ BinaryResults(m, n)["MIN"] \in {m, n} /\ BinaryResults(m, n)["MAX"] \in {m, n}
  BY DEF BinaryResults
<1>3. \A t \in Truths : BinaryResults(m, n)[t] \in {0, 1}
  BY DEF BinaryResults, Truth
<1> DEFINE Near(v) == v \in Int /\ -(2 * MaxNum) <= v /\ v <= 2 * MaxNum
<1>4. Near(m + n) /\ Near(m - n) /\ Near(m) /\ Near(n) /\ Near(0) /\ Near(1)
  BY Limits
<1> HIDE DEF Near, Truths
<1>5. Near(BinaryResults(m, n)[op])
  BY <1>1, <1>2, <1>3, <1>4
<1> QED
  BY <1>5, NearFits DEF Near

LEMMA ArithmeticInv ==
    ASSUME ScriptInv, NEW op \in Opcodes,
           Equal(op) \/ Unary(op) \/ Binary(op) \/ Within \/ HashTop(op)
    PROVE  ScriptInv'
<1>1. {"UNKNOWN_ERROR", "EQUALVERIFY", "NUMEQUALVERIFY"} \subseteq Errors
  BY DEF Errors
<1>2. Len(stack) \in Nat
  BY FitType DEF ScriptInv, StackInv
<1>3. CASE Equal(op)
  <2> DEFINE q == Verified(op, "EQUALVERIFY", Below(2), At(2) = At(1))
  <2>1. Plain(op, Needs(2, q))
    BY <1>3 DEF Equal
  <2>2. ~(Len(stack) < 2) => Small(q)
    BY <1>1, Deep, SmallVerified
  <2> HIDE DEF q
  <2> QED
    BY <2>1, <2>2, SmallNeeds, PlainInv DEF Small
<1>4. CASE Unary(op)
  <2> DEFINE v == UnaryResults(Value(Top))[op]
             q == IF IsNumber(Top) THEN Ok(Append(Below(1), Num(v))) ELSE Err("UNKNOWN_ERROR")
  <2>1. Plain(op, Needs(1, q)) /\ op \in DOMAIN UnaryResults(0)
    BY <1>4 DEF Unary
  <2>2. ASSUME ~(Len(stack) < 1), IsNumber(Top)
        PROVE  Fit(Append(Below(1), Num(v)))
    <3>1. Fit(Below(1)) /\ Fits(Top)
      BY <2>2, Deep
    <3>2. Value(Top) \in -MaxNum..MaxNum /\ Value(Top) \in Int
      BY <2>2, <3>1, Operand
    <3>3. Fits(Num(v))
      BY <2>1, <3>2, UnaryFits
    <3> HIDE DEF v
    <3> QED
      BY <3>1, <3>3, FitAppend
  <2> HIDE DEF v
  <2>3. ~(Len(stack) < 1) => Small(q)
    BY <1>1, <2>2, SmallErr, SmallOk
  <2> HIDE DEF q
  <2> QED
    BY <2>1, <2>3, SmallNeeds, PlainInv DEF Small
<1>5. CASE Binary(op)
  <2> DEFINE v == BinaryResults(Value(At(2)), Value(At(1)))[op]
             q == IF ~IsNumber(At(1)) \/ ~IsNumber(At(2)) THEN Err("UNKNOWN_ERROR")
                  ELSE IF op = "NUMEQUALVERIFY" THEN Verified(op, op, Below(2), v = 1)
                  ELSE Ok(Append(Below(2), Num(v)))
  <2>1. Plain(op, Needs(2, q)) /\ op \in DOMAIN BinaryResults(0, 0)
    BY <1>5 DEF Binary
  <2>2. ASSUME ~(Len(stack) < 2), IsNumber(At(1)), IsNumber(At(2))
        PROVE  Fit(Below(2)) /\ Fit(Append(Below(2), Num(v)))
    <3>1. Fit(Below(2)) /\ Fits(At(1)) /\ Fits(At(2))
      BY <2>2, Deep
    <3>2. /\ Value(At(1)) \in -MaxNum..MaxNum /\ Value(At(1)) \in Int
          /\ Value(At(2)) \in -MaxNum..MaxNum /\ Value(At(2)) \in Int
      BY <2>2, <3>1, Operand
    <3>3. Fits(Num(v))
      BY <2>1, <3>2, BinaryFits
    <3> HIDE DEF v
    <3> QED
      BY <3>1, <3>3, FitAppend
  <2> HIDE DEF v
  <2>3. ~(Len(stack) < 2) => Small(q)
    <3>1. (v = 1) \in BOOLEAN
      OBVIOUS
    <3> QED
      BY <1>1, <2>2, <3>1, SmallErr, SmallOk, SmallVerified
  <2> HIDE DEF q
  <2> QED
    BY <2>1, <2>3, SmallNeeds, PlainInv DEF Small
<1>6. CASE Within
  <2> DEFINE b == /\ Value(At(2)) <= Value(At(3))
                  /\ Value(At(3)) < Value(At(1))
             q == IF \E i \in 1..3 : ~IsNumber(At(i)) THEN Err("UNKNOWN_ERROR")
                  ELSE Ok(Append(Below(3), Bool(b)))
  <2>1. Plain("WITHIN", Needs(3, q))
    BY <1>6 DEF Within
  <2>2. b \in BOOLEAN
    OBVIOUS
  <2> HIDE DEF b
  <2>3. ~(Len(stack) < 3) => Fit(Append(Below(3), Bool(b)))
    BY <2>2, Deep, BoolFits, FitAppend
  <2>4. ~(Len(stack) < 3) => Small(q)
    BY <1>1, <2>3, SmallErr, SmallOk
  <2> HIDE DEF q
  <2> QED
    BY <2>1, <2>4, SmallNeeds, PlainInv DEF Small
<1>7. CASE HashTop(op)
  <2> DEFINE e == IF op = "HASH256" THEN Hash(op, Top) ELSE ZeroBytes
             q == Ok(Append(Below(1), e))
  <2>1. Plain(op, Needs(1, q))
    BY <1>7 DEF HashTop
  <2>2. ~(Len(stack) < 1) => Fit(Below(1)) /\ Fits(e)
    BY Deep, HashFits
  <2> HIDE DEF e
  <2>3. ~(Len(stack) < 1) => Small(q)
    BY <2>2, FitAppend, SmallOk
  <2> HIDE DEF q
  <2> QED
    BY <2>1, <2>3, SmallNeeds, PlainInv DEF Small
<1> QED
  BY <1>3, <1>4, <1>5, <1>6, <1>7

-----------------------------------------------------------------------------
(* Matching signatures with keys *)

Outcomes == [err : Errors, good : BOOLEAN, checks : Nat]

\* What the loop of CHECKMULTISIG makes of the signatures from i and the keys from j
\* on, if it makes row of the keys after j.
Cell(sigs, keys, j, i, row) ==
    IF i > Len(sigs) THEN [err |-> "OK", good |-> TRUE, checks |-> 0]
    ELSE IF Len(sigs) - i > Len(keys) - j
         THEN [err |-> "OK", good |-> FALSE, checks |-> 0]
    ELSE IF EncodingError(sigs[i], keys[j]) # "OK"
         THEN [err |-> EncodingError(sigs[i], keys[j]), good |-> FALSE, checks |-> 0]
    ELSE [row[IF Good(sigs[i], keys[j]) THEN i + 1 ELSE i] EXCEPT !.checks = @ + 1]

LEMMA EncodingType ==
    ASSUME NEW sig, NEW key
    PROVE  EncodingError(sig, key) \in Errors
  BY DEF EncodingError, Errors

LEMMA CellType ==
    ASSUME NEW sigs, NEW keys, Len(sigs) \in Nat, Len(keys) \in Nat, NEW j \in Int,
           NEW i \in 1..(Len(sigs) + 1), NEW row \in [1..(Len(sigs) + 1) -> Outcomes]
    PROVE  Cell(sigs, keys, j, i, row) \in Outcomes
<1>1. "OK" \in Errors /\ EncodingError(sigs[i], keys[j]) \in Errors
  BY EncodingType DEF Errors
<1>2. ASSUME ~(i > Len(sigs))
      PROVE  [row[IF Good(sigs[i], keys[j]) THEN i + 1 ELSE i] EXCEPT !.checks = @ + 1]
               \in Outcomes
  <2>1. (IF Good(sigs[i], keys[j]) THEN i + 1 ELSE i) \in 1..(Len(sigs) + 1)
    BY <1>2
  <2>2. \A o \in Outcomes : [o EXCEPT !.checks = @ + 1] \in Outcomes
    BY DEF Outcomes
  <2> QED
    BY <2>1, <2>2
<1>3. \A e \in Errors : \A b \in BOOLEAN : [err |-> e, good |-> b, checks |-> 0] \in Outcomes
  BY DEF Outcomes
<1> QED
  BY <1>1, <1>2, <1>3 DEF Cell

\* The rows of the loop: what Matched is, one key after the other.
AreRows(rest, sigs, keys) ==
    /\ rest \in [1..(Len(keys) + 1) -> [1..(Len(sigs) + 1) -> Outcomes]]
    /\ \A j \in 1..(Len(keys) + 1), i \in 1..(Len(sigs) + 1) :
          rest[j][i] = Cell(sigs, keys, j, i, rest[j + 1])
    /\ Matched(sigs, keys) = rest[1][1]

LEMMA MatchedRows ==
    ASSUME NEW sigs, NEW keys, Len(sigs) \in Nat, Len(keys) \in Nat
    PROVE  \E rest : AreRows(rest, sigs, keys)
<1> DEFINE S == Len(sigs)
           K == Len(keys)
           V == [1..(S + 1) -> Outcomes]
           Eq(f) == f = [j \in 1..(K + 1) |->
                          [i \in 1..(S + 1) |-> Cell(sigs, keys, j, i, f[j + 1])]]
<1>1. S \in Nat /\ K \in Nat
  OBVIOUS
<1>2. PICK f : /\ f \in [Nat -> V]
               /\ f[0] \in V
               /\ \A n \in Nat : f[n + 1] =
                    [i \in 1..(S + 1) |-> Cell(sigs, keys, K - n, i, f[n])]
               /\ f[0] = [i \in 1..(S + 1) |-> [err |-> "OK", good |-> i > S, checks |-> 0]]
  <2> DEFINE base == [i \in 1..(S + 1) |-> [err |-> "OK", good |-> i > S, checks |-> 0]]
             row(n, v) == [i \in 1..(S + 1) |-> Cell(sigs, keys, K - n, i, v)]
             step == [n \in Nat |-> [v \in V |-> row(n, v)]]
  <2>1. base \in V
    BY <1>1 DEF Outcomes, Errors
  <2>2. \A n \in Nat : \A v \in V : row(n, v) \in V
    <3> SUFFICES ASSUME NEW n \in Nat, NEW v \in V, NEW i \in 1..(S + 1)
                 PROVE  Cell(sigs, keys, K - n, i, v) \in Outcomes
      OBVIOUS
    <3>1. K - n \in Int
      BY <1>1
    <3> QED
      BY <1>1, <3>1, CellType
  <2> HIDE DEF V, base, row
  <2>3. step \in Steps(V)
    BY <2>2 DEF Steps
  <2>4. \A n \in Nat : \A v \in V : step[n][v] = row(n, v)
    OBVIOUS
  <2> HIDE DEF step
  <2>5. PICK f : Iterates(f, V, base, step)
    BY <2>1, <2>3, Recursion
  <2>6. /\ f \in [Nat -> V] /\ f[0] = base
        /\ \A n \in Nat : f[n + 1] = row(n, f[n])
    BY <2>4, <2>5 DEF Iterates
  <2>7. f[0] \in V
    BY <2>1, <2>6
  <2> QED
    BY <2>6, <2>7 DEF base, row
<1> DEFINE g == [j \in 1..(K + 1) |-> f[K + 1 - j]]
<1> HIDE DEF S, K, V
<1>3. \A j \in 1..(K + 1) : K + 1 - j \in Nat /\ g[j] \in V
  BY <1>1, <1>2
<1>4. ASSUME NEW j \in 1..(K + 1)
      PROVE  g[j] = [i \in 1..(S + 1) |-> Cell(sigs, keys, j, i, g[j + 1])]
  <2>1. CASE j = K + 1
    <3>1. K + 1 - j = 0 /\ K - j = -1
      BY <1>1, <2>1
    <3>2. \A i \in 1..(S + 1) : Cell(sigs, keys, j, i, g[j + 1]) =
            [err |-> "OK", good |-> i > S, checks |-> 0]
      <4> SUFFICES ASSUME NEW i \in 1..(S + 1)
                   PROVE  Cell(sigs, keys, j, i, g[j + 1]) =
                            [err |-> "OK", good |-> i > S, checks |-> 0]
        OBVIOUS
      <4>1. CASE i > S
        BY <4>1 DEF Cell, S
      <4>2. CASE ~(i > S)
        <5>1. S - i > K - j
          BY <1>1, <3>1, <4>2
        <5>2. (i > S) = FALSE
          BY <4>2
        <5>3. Cell(sigs, keys, j, i, g[j + 1]) = [err |-> "OK", good |-> FALSE, checks |-> 0]
          BY <4>2, <5>1 DEF Cell, S, K
        <5> QED
          BY <5>2, <5>3
      <4> QED
        BY <4>1, <4>2
    <3>3. g[j] = f[0]
      BY <3>1
    <3> QED
      BY <1>2, <3>2, <3>3
  <2>2. CASE j # K + 1
    <3>1. K - j \in Nat /\ (K - j) + 1 = K + 1 - j /\ K - (K - j) = j
          /\ j + 1 \in 1..(K + 1) /\ K + 1 - (j + 1) = K - j
      BY <1>1, <2>2
    <3>2. g[j] = f[(K - j) + 1] /\ g[j + 1] = f[K - j]
      BY <3>1
    <3> HIDE DEF g
    <3>3. f[(K - j) + 1] = [i \in 1..(S + 1) |-> Cell(sigs, keys, K - (K - j), i, f[K - j])]
      BY <1>2, <3>1
    <3> QED
      BY <3>1, <3>2, <3>3
  <2> QED
    BY <2>1, <2>2
<1>5. Eq(g)
  <2>1. g = [j \in 1..(K + 1) |-> g[j]]
    OBVIOUS
  <2> HIDE DEF g
  <2> QED
    BY <1>4, <2>1
<1> DEFINE rest == CHOOSE h : Eq(h)
<1>6. Eq(rest)
  BY <1>5
<1>7. Matched(sigs, keys) = rest[1][1]
  BY DEF Matched, Cell, S, K
<1> HIDE DEF g
<1> HIDE DEF rest
<1>8. \A j \in 1..(K + 1) :
        rest[j] = [i \in 1..(S + 1) |-> Cell(sigs, keys, j, i, rest[j + 1])]
  BY <1>6
<1>9. rest \in [1..(K + 1) -> V]
  <2> DEFINE T == {j \in 1..(K + 1) : rest[j] \in V}
  <2>1. K + 1 \in T
    <3>1. ASSUME NEW i \in 1..(S + 1)
          PROVE  Cell(sigs, keys, K + 1, i, rest[(K + 1) + 1]) \in Outcomes
      <4>1. CASE i > S
        BY <4>1 DEF Cell, S, Outcomes, Errors
      <4>2. CASE ~(i > S)
        <5>1. S - i > K - (K + 1)
          BY <1>1, <4>2
        <5>2. Cell(sigs, keys, K + 1, i, rest[(K + 1) + 1])
                = [err |-> "OK", good |-> FALSE, checks |-> 0]
          BY <4>2, <5>1 DEF Cell, S, K
        <5>3. "OK" \in Errors
          BY DEF Errors
        <5>4. [err |-> "OK", good |-> FALSE, checks |-> 0] \in Outcomes
          BY <5>3 DEF Outcomes
        <5> QED
          BY <5>2, <5>4
      <4> QED
        BY <4>1, <4>2
    <3>2. K + 1 \in 1..(K + 1)
      BY <1>1
    <3>3. rest[K + 1] = [i \in 1..(S + 1) |-> Cell(sigs, keys, K + 1, i, rest[(K + 1) + 1])]
      BY <1>8, <3>2
    <3> QED
      BY <3>1, <3>2, <3>3 DEF V
  <2>2. ASSUME NEW j \in (1 + 1)..(K + 1), j \in T
        PROVE  j - 1 \in T
    <3>1. j - 1 \in 1..(K + 1) /\ j - 1 \in Int /\ (j - 1) + 1 = j
      BY <1>1
    <3>2. rest[j] \in V
      BY <2>2
    <3>3. \A i \in 1..(S + 1) : Cell(sigs, keys, j - 1, i, rest[j]) \in Outcomes
      BY <1>1, <3>1, <3>2, CellType DEF S, K, V
    <3>4. rest[j - 1] = [i \in 1..(S + 1) |-> Cell(sigs, keys, j - 1, i, rest[j])]
      BY <1>8, <3>1
    <3> QED
      BY <3>1, <3>3, <3>4 DEF V
  <2> HIDE DEF T
  <2>3. 1..(K + 1) \subseteq T
    <3>1. 1 \in Int /\ K + 1 \in Int
      BY <1>1
    <3> QED
      BY <2>1, <2>2, <3>1, DownInduction
  <2>4. rest = [j \in 1..(K + 1) |-> rest[j]]
    BY <1>6
  <2> QED
    BY <2>3, <2>4 DEF T
<1> QED
  BY <1>7, <1>8, <1>9 DEF S, K, V, AreRows

\* The signatures from i on have keys from j on, in order.
From(sigs, keys, i, j) ==
    \E f \in [i..Len(sigs) -> j..Len(keys)] :
        /\ \A a \in i..Len(sigs) : Good(sigs[a], keys[f[a]])
        /\ \A a, b \in i..Len(sigs) : a < b => f[a] < f[b]

\* Each takes a key of its own, so there must be as many keys as signatures.
LEMMA TooFewKeys ==
    ASSUME NEW sigs, NEW keys, Len(sigs) \in Nat, Len(keys) \in Nat,
           NEW i \in 1..Len(sigs), NEW j \in Int,
           Len(sigs) - i > Len(keys) - j
    PROVE  ~From(sigs, keys, i, j)
<1> SUFFICES ASSUME From(sigs, keys, i, j)
             PROVE  FALSE
  OBVIOUS
<1> DEFINE S == Len(sigs)
           K == Len(keys)
<1>0. S \in Nat /\ K \in Nat /\ i \in 1..S /\ S - i > K - j
  OBVIOUS
<1>1. PICK f \in [i..S -> j..K] : \A a, b \in i..S : a < b => f[a] < f[b]
  BY DEF From
<1> HIDE DEF S, K
<1> DEFINE T == {a \in i..S : f[a] >= j + (a - i)}
<1>2. i \in T
  <2>1. i \in i..S /\ i - i = 0
    BY <1>0
  <2>2. f[i] \in j..K
    BY <1>1, <2>1
  <2> QED
    BY <2>1, <2>2
<1>3. ASSUME NEW a \in i..(S - 1), a \in T
      PROVE  a + 1 \in T
  <2>1. a \in i..S /\ a + 1 \in i..S /\ a < a + 1 /\ a \in Int
    BY <1>0
  <2>2. f[a] \in Int /\ f[a + 1] \in Int /\ f[a] < f[a + 1]
    BY <1>1, <2>1
  <2>3. f[a] >= j + (a - i)
    BY <1>3
  <2>4. f[a + 1] >= j + ((a + 1) - i)
    BY <1>0, <2>1, <2>2, <2>3
  <2> QED
    BY <2>1, <2>4
<1> HIDE DEF T
<1>4. i..S \subseteq T
  <2>1. i \in Int /\ S \in Int
    BY <1>0
  <2> QED
    BY <1>2, <1>3, <2>1, UpInduction
<1>5. S \in i..S /\ f[S] \in j..K
  <2>1. S \in i..S
    BY <1>0
  <2> QED
    BY <1>1, <2>1
<1>6. f[S] >= j + (S - i)
  BY <1>4, <1>5 DEF T
<1> QED
  BY <1>0, <1>5, <1>6

\* If a signature is good for a key, nothing is lost if it takes that key.
LEMMA TakeKey ==
    ASSUME NEW sigs, NEW keys, Len(sigs) \in Nat, Len(keys) \in Nat,
           NEW i \in 1..Len(sigs), NEW j \in 1..Len(keys), Good(sigs[i], keys[j])
    PROVE  From(sigs, keys, i, j) <=> From(sigs, keys, i + 1, j + 1)
<1> DEFINE S == Len(sigs)
           K == Len(keys)
<1>0. S \in Nat /\ K \in Nat /\ i \in 1..S /\ j \in 1..K /\ i \in Int /\ j \in Int
  OBVIOUS
<1>1. ASSUME From(sigs, keys, i, j)
      PROVE  From(sigs, keys, i + 1, j + 1)
  <2>1. PICK f \in [i..S -> j..K] : /\ \A a \in i..S : Good(sigs[a], keys[f[a]])
                                    /\ \A a, b \in i..S : a < b => f[a] < f[b]
    BY <1>1 DEF From
  <2> DEFINE g == [a \in (i + 1)..S |-> f[a]]
  <2> HIDE DEF S, K
  <2>2. i \in i..S /\ \A a \in (i + 1)..S : a \in i..S /\ i < a
    BY <1>0
  <2>3. \A a \in (i + 1)..S : f[i] \in j..K /\ f[a] \in j..K /\ f[i] < f[a]
    BY <2>1, <2>2
  <2>4. \A m, n \in j..K : m < n => n \in (j + 1)..K
    BY <1>0
  <2>5. g \in [(i + 1)..S -> (j + 1)..K]
    BY <2>3, <2>4
  <2>6. /\ \A a \in (i + 1)..S : Good(sigs[a], keys[g[a]])
        /\ \A a, b \in (i + 1)..S : a < b => g[a] < g[b]
    BY <2>1, <2>2
  <2> HIDE DEF g
  <2> QED
    BY <2>5, <2>6 DEF From, S, K
<1>2. ASSUME From(sigs, keys, i + 1, j + 1)
      PROVE  From(sigs, keys, i, j)
  <2>1. PICK f \in [(i + 1)..S -> (j + 1)..K] :
          /\ \A a \in (i + 1)..S : Good(sigs[a], keys[f[a]])
          /\ \A a, b \in (i + 1)..S : a < b => f[a] < f[b]
    BY <1>2 DEF From
  <2> DEFINE g == [a \in i..S |-> IF a = i THEN j ELSE f[a]]
  <2> HIDE DEF S, K
  <2>2. \A a \in i..S : a # i => a \in (i + 1)..S
    BY <1>0
  <2>3. (\A n \in (j + 1)..K : n \in j..K /\ j < n) /\ j \in j..K
    BY <1>0
  <2>4. \A a \in (i + 1)..S : f[a] \in j..K /\ j < f[a]
    BY <2>1, <2>3
  <2>5. g \in [i..S -> j..K]
    BY <2>2, <2>3, <2>4
  <2>6. \A a \in i..S : Good(sigs[a], keys[g[a]])
    BY <2>1, <2>2
  <2>7. ASSUME NEW a \in i..S, NEW b \in i..S, a < b
        PROVE  g[a] < g[b]
    <3>1. b # i
      BY <1>0, <2>7
    <3>2. b \in (i + 1)..S /\ g[b] = f[b]
      BY <2>2, <3>1
    <3>3. CASE a = i
      BY <2>4, <3>2, <3>3
    <3>4. CASE a # i
      BY <2>1, <2>2, <2>7, <3>2, <3>4
    <3> QED
      BY <3>3, <3>4
  <2> HIDE DEF g
  <2> QED
    BY <2>5, <2>6, <2>7 DEF From, S, K
<1> QED
  BY <1>1, <1>2

\* If it is not, the key is of no use.
LEMMA SkipKey ==
    ASSUME NEW sigs, NEW keys, Len(sigs) \in Nat, Len(keys) \in Nat,
           NEW i \in 1..Len(sigs), NEW j \in 1..Len(keys), ~Good(sigs[i], keys[j])
    PROVE  From(sigs, keys, i, j) <=> From(sigs, keys, i, j + 1)
<1> DEFINE S == Len(sigs)
           K == Len(keys)
<1>0. S \in Nat /\ K \in Nat /\ i \in 1..S /\ j \in 1..K /\ i \in Int /\ j \in Int
  OBVIOUS
<1>1. ASSUME From(sigs, keys, i, j)
      PROVE  From(sigs, keys, i, j + 1)
  <2>1. PICK f \in [i..S -> j..K] : /\ \A a \in i..S : Good(sigs[a], keys[f[a]])
                                    /\ \A a, b \in i..S : a < b => f[a] < f[b]
    BY <1>1 DEF From
  <2> HIDE DEF S, K
  <2>2. i \in i..S /\ \A a \in i..S : a = i \/ i < a
    BY <1>0
  <2>3. f[i] \in j..K /\ f[i] # j
    BY <2>1, <2>2
  <2>4. \A m, n \in j..K : m # j /\ (n = m \/ m < n) => n \in (j + 1)..K
    BY <1>0
  <2>5. \A a \in i..S : f[a] \in (j + 1)..K
    <3> SUFFICES ASSUME NEW a \in i..S
                 PROVE  f[a] \in (j + 1)..K
      OBVIOUS
    <3>1. f[a] \in j..K /\ (f[a] = f[i] \/ f[i] < f[a])
      BY <2>1, <2>2
    <3> QED
      BY <2>3, <2>4, <3>1
  <2>6. f \in [i..S -> (j + 1)..K]
    BY <2>1, <2>5
  <2> QED
    BY <2>1, <2>6 DEF From, S, K
<1>2. ASSUME From(sigs, keys, i, j + 1)
      PROVE  From(sigs, keys, i, j)
  <2>1. PICK f \in [i..S -> (j + 1)..K] : /\ \A a \in i..S : Good(sigs[a], keys[f[a]])
                                          /\ \A a, b \in i..S : a < b => f[a] < f[b]
    BY <1>2 DEF From
  <2> HIDE DEF S, K
  <2>2. \A n \in (j + 1)..K : n \in j..K
    BY <1>0
  <2>3. f \in [i..S -> j..K]
    BY <2>1, <2>2
  <2> QED
    BY <2>1, <2>3 DEF From, S, K
<1> QED
  BY <1>1, <1>2

\* The loop checks at most one signature per key, and finds keys if there are any.
LEMMA MatchedIsComplete ==
    ASSUME NEW sigs, NEW keys, Len(sigs) \in Nat, Len(keys) \in Nat
    PROVE  /\ Matched(sigs, keys) \in Outcomes
           /\ Matched(sigs, keys).checks <= Len(keys)
           /\ Matched(sigs, keys).err = "OK" =>
                (Matched(sigs, keys).good <=> From(sigs, keys, 1, 1))
<1> DEFINE S == Len(sigs)
           K == Len(keys)
<1>0. S \in Nat /\ K \in Nat /\ 1 \in 1..(K + 1) /\ 1 \in 1..(S + 1)
  OBVIOUS
<1>r. PICK rest : AreRows(rest, sigs, keys)
  BY MatchedRows
<1>1. /\ rest \in [1..(K + 1) -> [1..(S + 1) -> Outcomes]]
      /\ \A j \in 1..(K + 1), i \in 1..(S + 1) :
            rest[j][i] = Cell(sigs, keys, j, i, rest[j + 1])
      /\ Matched(sigs, keys) = rest[1][1]
  BY <1>r, Zenon DEF AreRows
<1> DEFINE Right(o, i, j) == /\ o.checks <= K + 1 - j
                             /\ o.err = "OK" => (o.good <=> From(sigs, keys, i, j))
           T == {j \in 1..(K + 1) : \A i \in 1..(S + 1) : Right(rest[j][i], i, j)}
<1>2. ASSUME NEW i \in 1..(S + 1), NEW j \in 1..(K + 1),
             i > S \/ S - i > K - j \/ EncodingError(sigs[i], keys[j]) # "OK"
      PROVE  Right(rest[j][i], i, j)
  <2>1. rest[j][i] = Cell(sigs, keys, j, i, rest[j + 1]) /\ 0 <= K + 1 - j /\ j \in Int
    BY <1>0, <1>1
  <2>2. CASE i > S
    <3>1. rest[j][i] = [err |-> "OK", good |-> TRUE, checks |-> 0]
      BY <2>1, <2>2 DEF Cell
    <3>2. i..S = {} /\ i..Len(sigs) = {}
      BY <1>0, <2>2
    <3>3. [a \in {} |-> j] \in [{} -> j..Len(keys)]
      OBVIOUS
    <3>4. From(sigs, keys, i, j)
      BY <3>2, <3>3 DEF From
    <3> QED
      BY <2>1, <3>1, <3>4
  <2>3. CASE ~(i > S) /\ S - i > K - j
    <3>1. rest[j][i] = [err |-> "OK", good |-> FALSE, checks |-> 0]
      BY <2>1, <2>3 DEF Cell
    <3>2. i \in 1..Len(sigs)
      BY <1>0, <2>3
    <3>3. ~From(sigs, keys, i, j)
      BY <1>0, <2>1, <2>3, <3>2, TooFewKeys
    <3> QED
      BY <2>1, <3>1, <3>3
  <2>4. CASE ~(i > S) /\ ~(S - i > K - j) /\ EncodingError(sigs[i], keys[j]) # "OK"
    <3>1. rest[j][i] = [err |-> EncodingError(sigs[i], keys[j]), good |-> FALSE, checks |-> 0]
      BY <2>1, <2>4 DEF Cell
    <3> QED
      BY <2>1, <2>4, <3>1
  <2> QED
    BY <1>2, <2>2, <2>3, <2>4
<1>3. K + 1 \in T
  <2>1. K + 1 \in 1..(K + 1) /\ \A i \in 1..(S + 1) : i > S \/ S - i > K - (K + 1)
    BY <1>0
  <2> HIDE DEF Right
  <2> QED
    BY <1>2, <2>1
<1>4. ASSUME NEW j \in (1 + 1)..(K + 1), j \in T
      PROVE  j - 1 \in T
  <2> DEFINE k == j - 1
  <2>1. k \in 1..(K + 1) /\ k \in 1..K /\ k + 1 = j /\ K + 1 - j = K - k /\ k \in Int
    BY <1>0
  <2> HIDE DEF k
  <2>2. ASSUME NEW i \in 1..(S + 1), ~(i > S), ~(S - i > K - k),
               EncodingError(sigs[i], keys[k]) = "OK"
        PROVE  Right(rest[k][i], i, k)
    <3> DEFINE n == IF Good(sigs[i], keys[k]) THEN i + 1 ELSE i
               o == rest[k + 1][n]
    <3>1. n \in 1..(S + 1) /\ i \in 1..S
      BY <1>0, <2>2
    <3>2. rest[k][i] = [o EXCEPT !.checks = @ + 1]
      BY <1>1, <2>1, <2>2 DEF Cell
    <3>3. Right(o, n, j) /\ o \in Outcomes
      <4> HIDE DEF Right
      <4> QED
        BY <1>1, <1>4, <2>1, <3>1
    <3>4. From(sigs, keys, i, k) <=> From(sigs, keys, n, k + 1)
      BY <2>1, <3>1, TakeKey, SkipKey
    <3> HIDE DEF o, n
    <3>5. /\ rest[k][i].checks = o.checks + 1 /\ rest[k][i].err = o.err
          /\ rest[k][i].good = o.good /\ o.checks \in Nat
      BY <3>2, <3>3 DEF Outcomes
    <3>6. rest[k][i].checks <= K + 1 - k
      <4>1. o.checks <= K - k
        BY <2>1, <3>3
      <4> QED
        BY <1>0, <2>1, <3>5, <4>1
    <3> QED
      BY <2>1, <3>3, <3>4, <3>5, <3>6
  <2> HIDE DEF Right
  <2>3. \A i \in 1..(S + 1) : Right(rest[k][i], i, k)
    BY <1>2, <2>1, <2>2
  <2> QED
    BY <2>1, <2>3 DEF k
<1>5. 1..(K + 1) \subseteq T
  <2>1. 1 \in Int /\ K + 1 \in Int
    BY <1>0
  <2> HIDE DEF T
  <2> QED
    BY <1>3, <1>4, <2>1, DownInduction
<1>6. Right(rest[1][1], 1, 1) /\ rest[1][1] \in Outcomes
  BY <1>0, <1>1, <1>5
<1>7. K + 1 - 1 = K
  BY <1>0
<1> QED
  BY <1>1, <1>6, <1>7

-----------------------------------------------------------------------------
(* Checking signatures *)

Basic(r) == (\E s : Fit(s) /\ r = Ok(s)) \/ (\E e \in Errors : r = Err(e))

LEMMA VerifiedBasic ==
    ASSUME NEW op, NEW verify \in Errors, NEW s, Fit(s), NEW b \in BOOLEAN
    PROVE  Basic(Verified(op, verify, s, b))
<1>1. Fit(Append(s, Bool(b)))
  BY BoolFits, FitAppend
<1> QED
  BY <1>1 DEF Verified, Basic

LEMMA CheckingResult ==
    ASSUME ScriptInv, NEW r, Basic(r), NEW n \in Nat, NEW k \in Nat
    PROVE  /\ Result(Checking(n, r), n) /\ Checking(n, r).keys = 0
           /\ Checking(n, r).err = r.err
           /\ LET q == Checking(n, [r EXCEPT !.keys = k])
              IN  Result(q, n) /\ q.keys = k /\ q.err = r.err /\ q.stack = r.stack
<1>1. Small(r)
  BY SmallErr, SmallOk DEF Basic
<1>2. PICK e, s : r = [err |-> e, stack |-> s, alt |-> alt, exec |-> vfExec, keys |-> 0,
                      checks |-> checks]
  BY DEF Basic, Ok, Err
<1>3. Checking(n, r) =
        [err |-> r.err, stack |-> r.stack, alt |-> r.alt, exec |-> r.exec, keys |-> r.keys,
         checks |-> r.checks + n]
  <2>1. Checking(n, r) = [err |-> e, stack |-> s, alt |-> alt, exec |-> vfExec, keys |-> 0,
                          checks |-> checks + n]
    BY <1>2 DEF Checking
  <2> QED
    BY <1>2, <2>1
<1>4. Checking(n, [r EXCEPT !.keys = k]) =
        [err |-> r.err, stack |-> r.stack, alt |-> r.alt, exec |-> r.exec, keys |-> k,
         checks |-> r.checks + n]
  <2>1. [r EXCEPT !.keys = k] = [err |-> e, stack |-> s, alt |-> alt, exec |-> vfExec,
                                 keys |-> k, checks |-> checks]
    BY <1>2
  <2>2. Checking(n, [r EXCEPT !.keys = k]) =
          [err |-> e, stack |-> s, alt |-> alt, exec |-> vfExec, keys |-> k,
           checks |-> checks + n]
    <3> DEFINE q == [r EXCEPT !.keys = k]
    <3>1. Checking(n, q) = [q EXCEPT !.checks = q.checks + n]
      BY DEF Checking
    <3>2. q = [err |-> e, stack |-> s, alt |-> alt, exec |-> vfExec, keys |-> k,
               checks |-> checks]
      BY <2>1
    <3> HIDE DEF q
    <3>3. Checking(n, q) = [err |-> e, stack |-> s, alt |-> alt, exec |-> vfExec, keys |-> k,
                            checks |-> checks + n]
      BY <3>1, <3>2
    <3> QED
      BY <3>3 DEF q
  <2> QED
    BY <1>2, <2>2
<1>5. r.checks + n \in Nat /\ r.checks + n <= checks + n /\ r.keys = 0 /\ r.keys \in Nat
      /\ r.err \in Errors /\ Fit(r.stack) /\ Fit(r.alt) /\ r.exec \in Seq(BOOLEAN)
  <2>1. r.checks \in Nat /\ r.checks <= checks + 0 /\ checks \in Nat
    BY <1>1 DEF Small, Result, ScriptInv, CountInv
  <2>2. r.checks + n \in Nat /\ r.checks + n <= checks + n
    BY <2>1
  <2> QED
    BY <1>1, <2>2 DEF Small, Result
<1> QED
  BY <1>3, <1>4, <1>5 DEF Result

\* The result matters only if the instruction runs.
LEMMA StepRuns ==
    ASSUME NEW op, NEW r, NEW q, Step(op, r), ~Runs(op)
    PROVE  Step(op, q)
  BY DEF Step

LEMMA CheckingStep ==
    ASSUME NEW op, NEW r, StepChecking(op, r)
    PROVE  Step(op, r) \/ Step(op, Err("process ended"))
  BY DEF StepChecking

LEMMA CheckSigInv ==
    ASSUME ScriptInv, NEW op \in Opcodes, CheckSig(op)
    PROVE  ScriptInv'
<1> DEFINE sig == At(2)
           good == Good(sig, At(1))
           bad == EncodingError(sig, At(1))
           r == IF bad # "OK" THEN Err(bad)
                ELSE IF ~good /\ "NULLFAIL" \in flags /\ sig # Empty
                     THEN Checking(1, Err("SIG_NULLFAIL"))
                ELSE Checking(1, Verified(op, "CHECKSIGVERIFY", Below(2), good))
<1>1. StepChecking(op, Needs(2, r)) /\ Count(1, 0)
  BY DEF CheckSig
<1>2. {"SIG_NULLFAIL", "CHECKSIGVERIFY", "process ended", "INVALID_STACK_OPERATION"}
        \subseteq Errors
  BY DEF Errors
<1>3. 1 \in Nat /\ 0 \in 0..16 /\ 2 \in Nat
  OBVIOUS
<1> DEFINE Sound(q) == Result(q, 1) /\ q.keys = 0
<1>4. \A e \in Errors : Sound(Err(e))
  BY <1>3, ErrResult
<1>5. ASSUME ~(Len(stack) < 2)
      PROVE  Sound(r)
  <2>1. Fit(Below(2)) /\ bad \in Errors /\ good \in BOOLEAN
    BY <1>3, <1>5, Deep, EncodingType DEF Good
  <2> HIDE DEF bad, good, sig
  <2>2. Basic(Verified(op, "CHECKSIGVERIFY", Below(2), good))
    BY <1>2, <2>1, VerifiedBasic
  <2>3. Basic(Err("SIG_NULLFAIL"))
    BY <1>2 DEF Basic
  <2>4. Sound(Checking(1, Err("SIG_NULLFAIL")))
    BY <1>3, <2>3, CheckingResult
  <2>5. Sound(Checking(1, Verified(op, "CHECKSIGVERIFY", Below(2), good)))
    BY <1>3, <2>2, CheckingResult
  <2> HIDE DEF Sound
  <2> QED
    BY <1>4, <2>1, <2>4, <2>5
<1> HIDE DEF r, Sound
<1>6. Sound(Needs(2, r))
  BY <1>2, <1>4, <1>5 DEF Needs
<1>7. \E q : Step(op, q) /\ Sound(q)
  BY <1>1, <1>2, <1>4, <1>6, CheckingStep
<1>8. PICK q : Step(op, q) /\ Result(q, 1) /\ q.keys = 0
  BY <1>7 DEF Sound
<1> QED
  BY <1>1, <1>3, <1>8, StepInv

LEMMA FunctionSeq ==
    ASSUME NEW K \in Nat, NEW S, NEW f \in [1..K -> S]
    PROVE  f \in Seq(S) /\ Len(f) = K /\ DOMAIN f = 1..K
<1>1. f \in Seq(S)
  BY SeqDef
<1>2. Len(f) \in Nat /\ 1..Len(f) = 1..K
  BY <1>1, LenProperties
<1>3. \A n \in Nat : 1..n = 1..K => n = K
  <2> SUFFICES ASSUME NEW n \in Nat, 1..n = 1..K
               PROVE  n = K
    OBVIOUS
  <2>1. n > 0 => n \in 1..K
    OBVIOUS
  <2>2. K > 0 => K \in 1..n
    OBVIOUS
  <2> QED
    BY <2>1, <2>2
<1> QED
  BY <1>1, <1>2, <1>3

\* What CHECKMULTISIG makes of the state, if it runs.
MultisigResult(op) ==
    Needs(1,
        IF ~IsNumber(Top) THEN Err("UNKNOWN_ERROR")
        ELSE IF KeysCount \notin 0..MaxPubkeys THEN Err("PUBKEY_COUNT")
        ELSE IF Counted(op) + KeysCount > MaxOps THEN Err("OP_COUNT")
        ELSE Needs(KeysCount + 2,
           IF ~IsNumber(At(KeysCount + 2)) THEN Err("UNKNOWN_ERROR")
           ELSE IF SigsCount \notin 0..KeysCount THEN Err("SIG_COUNT")
           ELSE Needs(KeysCount + SigsCount + 3, Multisig(op))))

InRange(op) ==
    /\ KeysCount \in 0..MaxPubkeys /\ SigsCount \in 0..KeysCount
    /\ ~(Counted(op) + KeysCount > MaxOps)
    /\ Len(stack) >= KeysCount + SigsCount + 3

LEMMA MultisigRange ==
    ASSUME ScriptInv, NEW op
    PROVE  \/ \E e \in Errors \ {"OK"} : MultisigResult(op) = Err(e)
           \/ InRange(op) /\ MultisigResult(op) = Multisig(op)
<1>1. {"UNKNOWN_ERROR", "PUBKEY_COUNT", "OP_COUNT", "SIG_COUNT", "INVALID_STACK_OPERATION"}
        \subseteq Errors \ {"OK"}
  BY DEF Errors
<1>2. Len(stack) \in Nat
  BY FitType DEF ScriptInv, StackInv
<1>3. ASSUME KeysCount \in 0..MaxPubkeys, SigsCount \in 0..KeysCount,
             ~(Len(stack) < KeysCount + SigsCount + 3)
      PROVE  Len(stack) >= KeysCount + SigsCount + 3
  <2> DEFINE n == KeysCount + SigsCount + 3
  <2>1. n \in Int
    <3> HIDE DEF n
    <3>1. KeysCount \in Int /\ SigsCount \in Int
      BY <1>3, Limits
    <3> QED
      BY <3>1 DEF n
  <2>2. ~(Len(stack) < n)
    BY <1>3
  <2> HIDE DEF n
  <2>3. Len(stack) >= n
    BY <1>2, <2>1, <2>2
  <2> QED
    BY <2>3 DEF n
<1> QED
  BY <1>1, <1>3 DEF MultisigResult, InRange, Needs

\* The elements that are taken as signatures and as keys.
LEMMA MultisigElements ==
    ASSUME KeysCount \in Nat, SigsCount \in Nat
    PROVE  /\ Len(MultisigKeys) = KeysCount /\ DOMAIN MultisigKeys = 1..KeysCount
           /\ Len(MultisigSigs) = SigsCount /\ DOMAIN MultisigSigs = 1..SigsCount
<1> DEFINE K == KeysCount
           S == SigsCount
           keys == {At(1 + j) : j \in 1..K}
           sigs == {At(K + 2 + i) : i \in 1..S}
<1>1. MultisigKeys \in [1..K -> keys] /\ MultisigSigs \in [1..S -> sigs]
  BY DEF MultisigKeys, MultisigSigs
<1> HIDE DEF K, S, keys, sigs
<1>2. K \in Nat /\ S \in Nat
  BY DEF K, S
<1>3. /\ Len(MultisigKeys) = K /\ DOMAIN MultisigKeys = 1..K
      /\ Len(MultisigSigs) = S /\ DOMAIN MultisigSigs = 1..S
  BY <1>1, <1>2, FunctionSeq
<1> QED
  BY <1>3 DEF K, S

\* In order is from the first on.
LEMMA InOrderFrom ==
    ASSUME KeysCount \in Nat, SigsCount \in Nat
    PROVE  InOrder(MultisigSigs, MultisigKeys) <=> From(MultisigSigs, MultisigKeys, 1, 1)
<1> DEFINE keys == MultisigKeys
           sigs == MultisigSigs
<1>1. DOMAIN keys = 1..Len(keys) /\ DOMAIN sigs = 1..Len(sigs)
  BY MultisigElements
<1> HIDE DEF keys, sigs
<1>2. InOrder(sigs, keys) <=> From(sigs, keys, 1, 1)
  BY <1>1 DEF InOrder, From
<1> QED
  BY <1>2 DEF keys, sigs

\* What an instruction that reaches its signatures makes of the state.
LEMMA MultisigReached ==
    ASSUME ScriptInv, phase # "done", Executing, NEW op, InRange(op)
    PROVE  /\ Result(Multisig(op), MultisigSigOps)
           /\ Multisig(op).err = "OK" =>
                /\ Multisig(op).keys = 0 \/ Counted(op) + Multisig(op).keys <= MaxOps
                /\ op = "CHECKMULTISIG" =>
                     Last(Multisig(op).stack) = Bool(InOrder(MultisigSigs, MultisigKeys))
<1> DEFINE K == KeysCount
           n == KeysCount + SigsCount + 3
           m == Matched(MultisigSigs, MultisigKeys)
           v == Verified(op, "CHECKMULTISIGVERIFY", Below(n), m.good)
<1>1. K \in Nat /\ SigsCount \in Nat /\ K <= MaxPubkeys
  BY Limits DEF InRange
<1>2. m \in Outcomes /\ m.checks <= K
      /\ (m.err = "OK" => (m.good <=> InOrder(MultisigSigs, MultisigKeys)))
  BY <1>1, MultisigElements, MatchedIsComplete, InOrderFrom
<1>3. n \in Nat /\ Len(stack) \in Nat /\ ~(Len(stack) < n) /\ n > 0
  <2>1. Len(stack) \in Nat
    BY FitType DEF ScriptInv, StackInv
  <2>2. n \in Nat /\ n > 0
    BY <1>1
  <2>3. Len(stack) >= n
    BY DEF InRange
  <2> HIDE DEF n
  <2> QED
    BY <2>1, <2>2, <2>3
<1>4. K <= MultisigSigOps /\ MultisigSigOps \in Nat
  <2>1. CASE small = 0
    BY <1>1, <2>1, Limits DEF MultisigSigOps
  <2>2. CASE small # 0
    <3>1. stack # <<>> /\ Value(Last(stack)) = small /\ small \in 0..16
      BY <2>2 DEF ScriptInv, SmallInv, CountInv
    <3>2. Last(stack) = At(1)
      <4> HIDE DEF n
      <4>1. Len(stack) + 1 - 1 = Len(stack)
        BY <1>3
      <4> QED
        BY <4>1 DEF At, Last
    <3>3. K = small
      BY <3>1, <3>2 DEF KeysCount
    <3> QED
      BY <2>2, <3>1, <3>3 DEF MultisigSigOps
  <2> QED
    BY <2>1, <2>2
<1>5. Fit(Below(n))
  <2> HIDE DEF n
  <2> QED
    BY <1>3, Deep
<1>6. {"SIG_NULLFAIL", "SIG_NULLDUMMY", "CHECKMULTISIGVERIFY"} \subseteq Errors
  BY DEF Errors
<1>7. m.checks \in Nat /\ m.err \in Errors /\ m.good \in BOOLEAN
  <2> HIDE DEF m
  <2> QED
    BY <1>2 DEF Outcomes
<1> HIDE DEF n, m
<1>8. Basic(v)
  BY <1>5, <1>6, <1>7, VerifiedBasic
<1> DEFINE Sound(q) == /\ Result(q, MultisigSigOps)
                       /\ q.err = "OK" =>
                            /\ q.keys = 0 \/ Counted(op) + q.keys <= MaxOps
                            /\ op = "CHECKMULTISIG" =>
                                 Last(q.stack) = Bool(InOrder(MultisigSigs, MultisigKeys))
<1>9. \A q : Result(q, m.checks) => Result(q, MultisigSigOps)
  <2>1. \A c : c \in Nat /\ c <= checks + m.checks => c <= checks + MultisigSigOps
    <3>1. checks \in Nat
      BY DEF ScriptInv, CountInv
    <3>2. m.checks <= MultisigSigOps
      BY <1>1, <1>2, <1>4, <1>7
    <3> HIDE DEF K
    <3> QED
      BY <1>4, <1>7, <3>1, <3>2
  <2> QED
    BY <2>1 DEF Result
<1>10. ASSUME NEW e \in Errors, e # "OK"
       PROVE  Sound(Checking(m.checks, Err(e)))
  <2>1. Basic(Err(e)) /\ Err(e).err = e
    BY DEF Basic, Err, Ok
  <2> QED
    BY <1>1, <1>7, <1>9, <1>10, <2>1, CheckingResult
<1>11. ASSUME m.err = "OK"
       PROVE  Sound(Checking(m.checks, [v EXCEPT !.keys = K]))
  <2> DEFINE q == Checking(m.checks, [v EXCEPT !.keys = K])
  <2>1. Result(q, m.checks) /\ q.keys = K /\ q.err = v.err /\ q.stack = v.stack
    BY <1>1, <1>7, <1>8, CheckingResult
  <2>2. Counted(op) + K <= MaxOps
    <3>1. Counted(op) \in Nat
      BY Limits DEF ScriptInv, CountInv, Counted
    <3>2. ~(Counted(op) + K > MaxOps)
      BY DEF InRange
    <3> HIDE DEF K
    <3> QED
      BY <1>1, <3>1, <3>2, Limits
  <2>3. op = "CHECKMULTISIG" => v.stack = Append(Below(n), Bool(m.good))
    BY DEF Verified, Ok
  <2>4. Last(Append(Below(n), Bool(m.good))) = Bool(m.good)
    BY <1>5, <1>7, BoolFits, FitAppend
  <2>5. Bool(m.good) = Bool(InOrder(MultisigSigs, MultisigKeys))
    BY <1>2, <1>11 DEF Bool
  <2> HIDE DEF q, v, K
  <2>6. Result(q, MultisigSigOps)
    BY <1>9, <2>1
  <2>7. q.keys = 0 \/ Counted(op) + q.keys <= MaxOps
    BY <2>1, <2>2
  <2>8. op = "CHECKMULTISIG" =>
          Last(q.stack) = Bool(InOrder(MultisigSigs, MultisigKeys))
    BY <2>1, <2>3, <2>4, <2>5
  <2>9. Sound(q)
    BY <2>6, <2>7, <2>8
  <2> QED
    BY <2>9 DEF q
<1>12. \/ m.err # "OK" /\ Multisig(op) = Checking(m.checks, Err(m.err))
       \/ Multisig(op) = Checking(m.checks, Err("SIG_NULLFAIL"))
       \/ Multisig(op) = Checking(m.checks, Err("SIG_NULLDUMMY"))
       \/ m.err = "OK" /\ Multisig(op) = Checking(m.checks, [v EXCEPT !.keys = K])
  BY DEF Multisig, m, n
<1> HIDE DEF Sound, v, K
<1>13. Sound(Multisig(op))
  BY <1>6, <1>7, <1>10, <1>11, <1>12
<1> QED
  BY <1>13 DEF Sound

LEMMA CheckMultisigInv ==
    ASSUME ScriptInv, NEW op \in Opcodes, CheckMultisig(op)
    PROVE  ScriptInv'
<1> DEFINE r == MultisigResult(op)
           Sound(q) == /\ Result(q, MultisigSigOps)
                       /\ q.err = "OK" => q.keys = 0 \/ Counted(op) + q.keys <= MaxOps
<1>1. StepChecking(op, r) /\ Count(MultisigSigOps, 0)
  BY DEF CheckMultisig, MultisigResult
<1>2. op \notin Conditionals /\ phase # "done"
  BY <1>1 DEF CheckMultisig, Conditionals, StepChecking, Step
<1>3. "process ended" \in Errors /\ 0 \in 0..16
  BY DEF Errors
<1>4. MultisigSigOps \in Nat
  BY Limits DEF MultisigSigOps, ScriptInv, CountInv
<1>5. \A e \in Errors : Sound(Err(e))
  BY <1>4, ErrResult
<1> HIDE DEF r
<1>6. \E q : Step(op, q) /\ Sound(q)
  <2>1. CASE Executing
    <3>1. \/ \E e \in Errors : r = Err(e)
          \/ InRange(op) /\ r = Multisig(op)
      <4>1. \/ \E e \in Errors \ {"OK"} : MultisigResult(op) = Err(e)
            \/ InRange(op) /\ MultisigResult(op) = Multisig(op)
        BY MultisigRange
      <4> HIDE DEF Sound
      <4> QED
        BY <4>1 DEF r
    <3>2. InRange(op) => Sound(Multisig(op))
      BY <1>2, <2>1, MultisigReached
    <3> HIDE DEF Sound
    <3> QED
      BY <1>1, <1>3, <1>5, <3>1, <3>2, CheckingStep
  <2>2. CASE ~Executing
    <3>1. ~Runs(op)
      BY <1>2, <2>2 DEF Runs
    <3>2. Step(op, Err("process ended"))
      BY <1>1, <3>1, CheckingStep, StepRuns
    <3> HIDE DEF Sound
    <3> QED
      BY <1>3, <1>5, <3>2
  <2> QED
    BY <2>1, <2>2
<1>7. PICK q : /\ Step(op, q) /\ Result(q, MultisigSigOps)
               /\ q.err = "OK" => q.keys = 0 \/ Counted(op) + q.keys <= MaxOps
  BY <1>6
<1> QED
  BY <1>1, <1>3, <1>4, <1>7, StepInv

-----------------------------------------------------------------------------

LEMMA ScriptNext ==
    ASSUME ScriptInv, [Next]_vars
    PROVE  ScriptInv'
<1>1. CASE \E e \in Literals, minimal \in BOOLEAN : Push(e, minimal)
  BY <1>1, PushInv
<1>2. CASE \E u \in Unlocking : PushAll(u)
  BY <1>2, PushAllInv
<1>3. CASE Malformed \/ ToPubkeyScript \/ Finish
  BY <1>3, MalformedInv, ToPubkeyInv, FinishInv
<1>4. CASE IfDup \/ Depth \/ Size \/ ToAltStack \/ FromAltStack
  BY <1>4, StackOpsInv
<1>5. CASE Else \/ EndIf \/ Verify \/ Return \/ CodeSeparator \/ Within
  <2>1. \E op : op \in Opcodes
    BY <1>5 DEF Else, EndIf, Verify, Return, CodeSeparator, Within, Plain
  <2> QED
    BY <1>5, <2>1, ControlInv, ArithmeticInv
<1>6. ASSUME NEW op \in Opcodes,
             \/ BadOpcode(op) \/ Nop(op) \/ Disabled(op) \/ If(op)
             \/ Shuffle(op) \/ PickOrRoll(op) \/ Equal(op) \/ Unary(op) \/ Binary(op)
             \/ HashTop(op) \/ CheckSig(op) \/ CheckMultisig(op)
      PROVE  ScriptInv'
  BY <1>6, ControlInv, ShuffleInv, PickOrRollInv, ArithmeticInv, CheckSigInv, CheckMultisigInv
<1>7. CASE UNCHANGED vars
  BY <1>7 DEF vars, ScriptInv, OpenInv, StackInv, CountInv, SmallInv, Executing
<1> QED
  BY <1>1, <1>2, <1>3, <1>4, <1>5, <1>6, <1>7 DEF Next

LEMMA ScriptInvariant == Spec => []ScriptInv
  BY InitScript, ScriptNext, PTL DEF Spec

\* Types, and the limits of script.h: the stack and the alternative stack hold
\* MAX_STACK_SIZE elements together at most, and a script runs MAX_OPS_PER_SCRIPT
\* operations at most, the keys of its CHECKMULTISIGs included.
THEOREM TypeTheorem == Spec => []TypeOK
<1>1. ScriptInv => TypeOK
  BY DEF ScriptInv, OpenInv, StackInv, CountInv, TypeOK
<1> QED
  BY <1>1, ScriptInvariant, PTL

\* GetSigOpCount (script.cpp:161), which only reads a script, is never less than the
\* number of signatures evalScript checks in it.
THEOREM SigOpsCountedTheorem == Spec => []SigOpsCounted
<1>1. ScriptInv => SigOpsCounted
  BY DEF ScriptInv, CountInv, SigOpsCounted
<1> QED
  BY <1>1, ScriptInvariant, PTL

\* Whatever a script computes, no number needs more than a byte beyond an operand
\* (CScriptNum, script.h): sums and differences of operands are at most twice as
\* large, and what is larger is the depth of a stack.
THEOREM ArithmeticFitsTheorem == Spec => []ArithmeticFits
<1>1. ASSUME ScriptInv
      PROVE  ArithmeticFits
  <2>1. Fit(stack)
    BY <1>1 DEF ScriptInv, StackInv
  <2>2. \A i \in DOMAIN stack : Fits(stack[i])
    BY <2>1, FitType
  <2> QED
    BY <2>2 DEF ArithmeticFits, Fits
<1> QED
  BY <1>1, ScriptInvariant, PTL

\* CHECKMULTISIG finds a key for every signature whenever there is a way to do it
\* that keeps them in order (evalScript, scriptInterpreter.cpp:639), for any number
\* of keys, although it takes the first key that verifies and never goes back.
THEOREM MultisigIsCompleteTheorem == Spec => MultisigIsComplete
<1>1. ASSUME ScriptInv, NEW op, op = "CHECKMULTISIG", CheckMultisig(op), Executing,
             phase' # "done"
      PROVE  Last(stack') = Bool(TRUE) <=> InOrder(MultisigSigs, MultisigKeys)
  <2> DEFINE r == MultisigResult(op)
  <2>1. StepChecking(op, r)
    BY <1>1 DEF CheckMultisig, MultisigResult
  <2>2. phase # "done"
    BY <2>1 DEF StepChecking, Step
  <2> HIDE DEF r
  <2>3. \A q : Step(op, q) => q.err = "OK" /\ stack' = q.stack
    <3>1. Runs(op)
      BY <1>1 DEF Runs
    <3> QED
      BY <1>1, <3>1 DEF Step, Fail, Apply
  <2>4. Err("process ended").err # "OK" /\ \A e \in Errors \ {"OK"} : Err(e).err # "OK"
    BY DEF Err, Ok
  <2>5. r.err = "OK" /\ stack' = r.stack
    BY <2>1, <2>3, <2>4, CheckingStep
  <2>6. InRange(op) /\ r = Multisig(op)
    <3>1. \/ \E e \in Errors \ {"OK"} : MultisigResult(op) = Err(e)
          \/ InRange(op) /\ MultisigResult(op) = Multisig(op)
      BY <1>1, MultisigRange
    <3> QED
      BY <2>4, <2>5, <3>1 DEF r
  <2>7. Last(stack') = Bool(InOrder(MultisigSigs, MultisigKeys))
    BY <1>1, <2>2, <2>5, <2>6, MultisigReached
  <2>8. \A b \in BOOLEAN : Bool(b) = Bool(TRUE) <=> b
    BY DEF Bool, Empty, Num
  <2>9. InOrder(MultisigSigs, MultisigKeys) \in BOOLEAN
    BY DEF InOrder
  <2> QED
    BY <2>7, <2>8, <2>9
<1>2. ASSUME ScriptInv, [Next]_vars
      PROVE  [\A op \in {"CHECKMULTISIG"} \cap Opcodes :
                CheckMultisig(op) /\ Executing /\ phase' # "done"
                  => (Last(stack') = Bool(TRUE) <=> InOrder(MultisigSigs, MultisigKeys))]_vars
  BY <1>1, <1>2
<1> QED
  BY <1>2, ScriptInvariant, PTL DEF MultisigIsComplete, Spec
================================================================================
