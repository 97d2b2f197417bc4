---------------------------- MODULE BasenameScan ----------------------------
(***************************************************************************)
(* The loop by which a resolver decides whether the image dladdr found is  *)
(* the bridge: it walks dli_fname to the NUL, steps back over as many      *)
(* bytes as the basename has, and compares.  Dispatch takes its verdict as *)
(* given (NamedFor); this module is what the verdict is worth.             *)
(*                                                                         *)
(* Addresses count from dli_fname; the path's last byte is followed by a   *)
(* NUL, and the bytes before the path and behind its NUL are not ours.     *)
(***************************************************************************)
EXTENDS Integers, Sequences

CONSTANTS
    Chars,      \* the characters of paths
    Slash,
    Nul,
    Basename,   \* the unit's basename
    Paths       \* what dli_fname may point at

ASSUME ScanAssumption ==
    /\ Slash \in Chars /\ Nul \notin Chars
    /\ Basename \in Seq(Chars \ {Slash}) /\ Basename # <<>>
    /\ Paths \subseteq Seq(Chars)

VARIABLES
    path,       \* the string at dli_fname
    pc,
    x4,         \* the register that walks over the string
    offset,     \* the character of the basename that is compared next
    read        \* the addresses that were read (history)

vars == <<path, pc, x4, offset, read>>

Size == Len(Basename)
Byte(a) == IF a + 1 \in DOMAIN path THEN path[a + 1] ELSE Nul
Goto(l) == pc' = l
Read(a) == read' = read \cup {a}

Init ==
    /\ path \in Paths
    /\ pc = "scan" /\ x4 = 0 /\ offset = 0 /\ read = {}

\* Mutant: the scan of an early version, which stopped at a slash.
ScanToSlash ==
    /\ pc = "scan"
    /\ Read(x4)
    /\ IF Byte(x4) \in {Nul, Slash}
       THEN Goto("suffix") /\ UNCHANGED x4
       ELSE x4' = x4 + 1 /\ UNCHANGED pc
    /\ UNCHANGED <<path, offset>>

\* Mutant: the register is not advanced.
ScanInPlace ==
    /\ pc = "scan"
    /\ Read(x4)
    /\ IF Byte(x4) = Nul THEN Goto("suffix") ELSE UNCHANGED pc
    /\ UNCHANGED <<path, x4, offset>>

Scan ==
    /\ pc = "scan"
    /\ Read(x4)
    /\ IF Byte(x4) = Nul
       THEN Goto("suffix") /\ UNCHANGED x4
       ELSE x4' = x4 + 1 /\ UNCHANGED pc
    /\ UNCHANGED <<path, offset>>

\* Mutant: b.lo in place of b.ls.
StepBackLower ==
    /\ pc = "suffix"
    /\ x4' = x4 - Size
    /\ Goto(IF x4' < 0 THEN "old" ELSE "slash")
    /\ UNCHANGED <<path, offset, read>>

\* Room for the basename and for one byte before it, or OLD.
StepBack ==
    /\ pc = "suffix"
    /\ x4' = x4 - Size
    /\ Goto(IF x4' <= 0 THEN "old" ELSE "slash")
    /\ UNCHANGED <<path, offset, read>>

\* Mutant: any character may stand before the basename.
AnyBefore ==
    /\ pc = "slash"
    /\ Read(x4 - 1)
    /\ Goto("compare")
    /\ UNCHANGED <<path, x4, offset>>

CheckSlash ==
    /\ pc = "slash"
    /\ Read(x4 - 1)
    /\ Goto(IF Byte(x4 - 1) = Slash THEN "compare" ELSE "old")
    /\ UNCHANGED <<path, x4, offset>>

CompareChar ==
    /\ pc = "compare"
    /\ Read(x4 + offset)
    /\ offset' = offset + 1
    /\ Goto(IF Byte(x4 + offset) # Basename[offset + 1] THEN "old"
            ELSE IF offset' = Size THEN "nul" ELSE "compare")
    /\ UNCHANGED <<path, x4>>

CompareNul ==
    /\ pc = "nul"
    /\ Read(x4 + Size)
    /\ Goto(IF Byte(x4 + Size) = Nul THEN "store" ELSE "old")
    /\ UNCHANGED <<path, x4, offset>>

Next == Scan \/ StepBack \/ CheckSlash \/ CompareChar \/ CompareNul

Spec == Init /\ [][Next]_vars /\ WF_vars(Next)

-----------------------------------------------------------------------------
\* The type invariant of the registers.
ScanTypeOK ==
    /\ path \in Paths
    /\ pc \in {"scan", "suffix", "slash", "compare", "nul", "store", "old"}
    /\ x4 \in Int /\ (pc # "old" => x4 \in Nat)
    /\ offset \in 0..Size
    /\ read \subseteq Int

\* No read leaves the string: neither a path shorter than the basename, nor an
\* empty one, nor a mismatch makes the resolver touch a byte that is not there.
ReadsInside == read \subseteq 0..Len(path)

\* What "the final path component is the basename" means.
FinalComponent ==
    /\ Size <= Len(path)
    /\ \A k \in 1..Size : path[Len(path) - Size + k] = Basename[k]
    /\ Size = Len(path) \/ path[Len(path) - Size] = Slash

\* The verdict: an image is taken for the bridge exactly when the last
\* component of its path is the basename and there is something before it (a
\* path that is the basename alone, which dyld does not report, is refused); a
\* name that merely ends like the basename, or contains it, is another image.
VerdictExact ==
    /\ pc = "store" => FinalComponent /\ Size < Len(path)
    /\ pc = "old" => ~FinalComponent \/ Size = Len(path)

\* The loops end: every scan comes to a verdict.
ScanEnds == <>(pc \in {"store", "old"})

-----------------------------------------------------------------------------
\* The inductive invariant: where the register is, and what is known already.
Compared(n) == \A k \in 1..Size : k <= n => path[Len(path) - Size + k] = Basename[k]
Before == Size < Len(path) /\ path[Len(path) - Size] = Slash

ScanInv ==
    /\ ScanTypeOK /\ ReadsInside /\ VerdictExact
    /\ pc = "scan" => x4 <= Len(path) /\ offset = 0
    /\ pc = "suffix" => x4 = Len(path) /\ offset = 0
    /\ pc \in {"slash", "compare", "nul", "store"} =>
           x4 = Len(path) - Size /\ x4 > 0
    /\ pc = "slash" => offset = 0
    /\ pc = "compare" => Before /\ offset < Size /\ Compared(offset)
    /\ pc = "nul" => Before /\ Compared(Size)
=============================================================================
