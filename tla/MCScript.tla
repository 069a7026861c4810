------------------------------- MODULE MCScript -------------------------------
(* Small instances of Script for TLC. *)
EXTENDS Script

\* Nothing, a single signature, two of three in and out of order, and six
\* elements for the deepest instruction; counts are pushed last.
MCUnlocking ==
    {<<Sig(1), Key(1)>>,
     <<Empty, Sig(3), Sig(1), Num(2), Key(3), Key(2), Key(1), Num(3)>>,
     <<Empty, Sig(1), Sig(3), Num(2), Key(3), Key(2), Key(1), Num(3)>>,
     <<NegativeZero, Sig(1), Num(1), Num(-3), Num(-3), Num(-3)>>}
MCLiterals == {Empty, Num(2), Sig(1)}

MCVerifies == {<<Sig(k), Key(k)>> : k \in {1, 3}}

MCFlagSets ==
    {{"CLEANSTACK"},
     {"STRICTENC", "NULLFAIL", "MINIMALDATA"},
     {"P2SH", "CLEANSTACK", "NULLDUMMY", "SIGPUSHONLY", "DISCOURAGE_UPGRADABLE_NOPS"}}

MCMaxLen == [sig |-> 2, pubkey |-> 3]

MCOpcodes ==
    {"VER", "VERIF", "NOP1", "CAT", "IF", "NOTIF", "ELSE", "ENDIF", "VERIFY", "RETURN",
     "DUP", "NIP", "2ROT", "IFDUP", "DEPTH", "SIZE", "ROLL", "TOALTSTACK",
     "FROMALTSTACK", "EQUAL", "EQUALVERIFY", "1ADD", "NEGATE", "ADD", "NUMEQUALVERIFY", "WITHIN",
     "HASH256", "SHA3_256", "CODESEPARATOR", "CHECKSIG", "CHECKSIGVERIFY",
     "CHECKMULTISIG", "CHECKMULTISIGVERIFY"}
===============================================================================
