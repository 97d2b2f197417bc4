----------------------------- MODULE BranchCode -----------------------------
(***************************************************************************)
(* B and BL as words: an opcode and a displacement in words, modulo the    *)
(* width of the immediate.  The patcher encodes with it, the payload       *)
(* builder decodes what the assembler made of it.                          *)
(***************************************************************************)
EXTENDS Integers

CONSTANT HalfRange      \* how many words a branch reaches back; 2^25 on arm64

ASSUME BranchAssumption == HalfRange \in Nat \ {0}

Modulus == 2 * HalfRange
BRANCH_OPCODES == {"b", "bl"}
Word == [op : BRANCH_OPCODES \cup {"other"}, imm : 0..(Modulus - 1)]

\* The addresses encode_branch and _check_branch do not refuse.
Encodable(site, target) ==
    /\ site % 4 = 0 /\ target % 4 = 0
    /\ -(4 * HalfRange) <= target - site
    /\ target - site < 4 * HalfRange

EncodeBranch(op, site, target) ==
    [op |-> op, imm |-> ((target - site) \div 4) % Modulus]

\* Where a branch at site goes.
Target(word, site) ==
    site + 4 * (IF word.imm < HalfRange THEN word.imm ELSE word.imm - Modulus)
=============================================================================
