------------------------- MODULE BasenameScanProofs -------------------------
(***************************************************************************)
(* For every alphabet, basename and path: ScanInv is inductive, so that    *)
(* the verdict is exact and no byte outside the string is read.            *)
(***************************************************************************)
EXTENDS BasenameScan, TLAPS

\* What the assumption says of a path and of the basename.
LEMMA PathFacts ==
    ASSUME path \in Paths
    PROVE  /\ Len(path) \in Nat /\ DOMAIN path = 1..Len(path)
           /\ \A i \in 1..Len(path) : path[i] # Nul
           /\ Size \in Nat \ {0} /\ DOMAIN Basename = 1..Size
           /\ \A k \in 1..Size : Basename[k] # Nul
BY ScanAssumption DEF Size

\* The byte behind the string, and that one only, is the NUL.
LEMMA ByteFacts ==
    ASSUME path \in Paths, NEW a \in 0..Len(path)
    PROVE  /\ Byte(a) = Nul <=> a = Len(path)
           /\ a < Len(path) => Byte(a) = path[a + 1]
<1>1. Len(path) \in Nat /\ DOMAIN path = 1..Len(path) /\ \A i \in 1..Len(path) : path[i] # Nul
    BY PathFacts
<1>2. a + 1 \in 1..Len(path) <=> a < Len(path)
    BY <1>1
<1>3. a = Len(path) => Byte(a) = Nul
    BY <1>1, <1>2 DEF Byte
<1>4. a < Len(path) => Byte(a) = path[a + 1] /\ path[a + 1] # Nul
    BY <1>1, <1>2 DEF Byte
<1>5. a = Len(path) <=> ~(a < Len(path))
  <2>1. \A n \in Nat : \A b \in 0..n : b = n <=> ~(b < n)
      OBVIOUS
  <2> QED
      BY <1>1, <2>1
<1>6. a < Len(path) => Byte(a) # Nul
    BY <1>4, Zenon
<1>7. Byte(a) = Nul <=> a = Len(path)
    BY <1>3, <1>5, <1>6, Zenon
<1> QED
    BY <1>4, <1>7, Zenon

LEMMA InitScan == Init => ScanInv
<1> SUFFICES ASSUME Init PROVE ScanInv
    OBVIOUS
<1>1. Len(path) \in Nat /\ Size \in Nat \ {0}
    BY PathFacts DEF Init
<1> QED
    BY <1>1 DEF Init, ScanInv, ScanTypeOK, ReadsInside, VerdictExact

LEMMA ScanKeeps == ScanInv /\ Scan => ScanInv'
<1> SUFFICES ASSUME ScanInv, Scan PROVE ScanInv'
    OBVIOUS
<1> USE DEF ScanInv, ScanTypeOK
<1>1. /\ pc = "scan" /\ path' = path /\ offset' = offset /\ read' = read \cup {x4}
      /\ path \in Paths /\ x4 \in Nat /\ x4 <= Len(path) /\ offset = 0
      /\ read \subseteq 0..Len(path)
    BY DEF Scan, Read, ReadsInside
<1>2. Len(path) \in Nat /\ Size \in Nat \ {0}
    BY <1>1, PathFacts
<1>3. Byte(x4) = Nul <=> x4 = Len(path)
    BY <1>1, <1>2, ByteFacts
<1>4. read' \subseteq 0..Len(path) /\ read' \subseteq Int
    BY <1>1, <1>2
<1>5. CASE Byte(x4) = Nul
  <2>1. pc' = "suffix" /\ x4' = x4 /\ x4 = Len(path)
      BY <1>3, <1>5 DEF Scan, Goto
  <2> QED
      BY <1>1, <1>2, <1>4, <2>1 DEF ReadsInside, VerdictExact
<1>6. CASE Byte(x4) # Nul
  <2>1. pc' = "scan" /\ x4' = x4 + 1 /\ x4 < Len(path)
      BY <1>1, <1>2, <1>3, <1>6 DEF Scan
  <2> QED
      BY <1>1, <1>2, <1>4, <2>1 DEF ReadsInside, VerdictExact
<1> QED
    BY <1>5, <1>6

LEMMA StepBackKeeps == ScanInv /\ StepBack => ScanInv'
<1> SUFFICES ASSUME ScanInv, StepBack PROVE ScanInv'
    OBVIOUS
<1> USE DEF ScanInv, ScanTypeOK
<1>1. /\ pc = "suffix" /\ path' = path /\ offset' = offset /\ read' = read
      /\ path \in Paths /\ x4 = Len(path) /\ x4' = x4 - Size /\ offset = 0
      /\ read \subseteq 0..Len(path) /\ read \subseteq Int
    BY DEF StepBack, ReadsInside
<1>2. Len(path) \in Nat /\ Size \in Nat \ {0}
    BY <1>1, PathFacts
<1>3. CASE x4' <= 0
  <2>1. pc' = "old" /\ Len(path) <= Size
      BY <1>1, <1>2, <1>3 DEF StepBack, Goto
  <2>2. VerdictExact'
      BY <1>1, <1>2, <2>1 DEF VerdictExact, FinalComponent, Size
  <2> QED
      BY <1>1, <1>2, <2>1, <2>2 DEF ReadsInside, Size
<1>4. CASE ~(x4' <= 0)
  <2>1. pc' = "slash" /\ x4' > 0 /\ x4' \in Nat
      BY <1>1, <1>2, <1>4 DEF StepBack, Goto
  <2> QED
      BY <1>1, <1>2, <2>1 DEF ReadsInside, VerdictExact, Size
<1> QED
    BY <1>3, <1>4

LEMMA CheckSlashKeeps == ScanInv /\ CheckSlash => ScanInv'
<1> SUFFICES ASSUME ScanInv, CheckSlash PROVE ScanInv'
    OBVIOUS
<1> USE DEF ScanInv, ScanTypeOK
<1>1. /\ pc = "slash" /\ path' = path /\ offset' = offset /\ x4' = x4
      /\ read' = read \cup {x4 - 1} /\ offset = 0
      /\ path \in Paths /\ x4 = Len(path) - Size /\ x4 > 0 /\ x4 \in Nat
      /\ read \subseteq 0..Len(path)
    BY DEF CheckSlash, Read, ReadsInside
<1>2. Len(path) \in Nat /\ Size \in Nat \ {0}
    BY <1>1, PathFacts
<1>3. Byte(x4 - 1) = path[Len(path) - Size]
  <2>1. x4 - 1 \in 0..Len(path) /\ x4 - 1 < Len(path) /\ (x4 - 1) + 1 = Len(path) - Size
      BY <1>1, <1>2
  <2> QED
      BY <1>1, <2>1, ByteFacts
<1>4. read' \subseteq 0..Len(path) /\ read' \subseteq Int
  <2>1. x4 - 1 \in 0..Len(path)
      BY <1>1, <1>2
  <2>2. 0..Len(path) \subseteq Int
      BY <1>2
  <2> QED
      BY <1>1, <2>1, <2>2, Zenon
<1>5. CASE Byte(x4 - 1) = Slash
  <2>1. pc' = "compare"
      BY <1>5 DEF CheckSlash, Goto
  <2>2. Before'
      BY <1>1, <1>2, <1>3, <1>5 DEF Before, Size
  <2>3. Compared(0)'
      BY <1>2 DEF Compared, Size
  <2> QED
      BY <1>1, <1>2, <1>4, <2>1, <2>2, <2>3 DEF ReadsInside, VerdictExact, Size
<1>6. CASE Byte(x4 - 1) # Slash
  <2>1. pc' = "old"
      BY <1>6 DEF CheckSlash, Goto
  <2>2. ~FinalComponent'
      BY <1>1, <1>2, <1>3, <1>6 DEF FinalComponent, Size
  <2> QED
      BY <1>1, <1>2, <1>4, <2>1, <2>2 DEF ReadsInside, VerdictExact, Size
<1> QED
    BY <1>5, <1>6

LEMMA CompareCharKeeps == ScanInv /\ CompareChar => ScanInv'
<1> SUFFICES ASSUME ScanInv, CompareChar PROVE ScanInv'
    OBVIOUS
<1> USE DEF ScanInv, ScanTypeOK
<1>1. /\ pc = "compare" /\ path' = path /\ offset' = offset + 1 /\ x4' = x4
      /\ read' = read \cup {x4 + offset} /\ offset \in Nat /\ offset < Size
      /\ path \in Paths /\ x4 = Len(path) - Size /\ x4 > 0 /\ x4 \in Nat
      /\ read \subseteq 0..Len(path) /\ Before /\ Compared(offset)
    BY DEF CompareChar, Read, ReadsInside
<1>2. Len(path) \in Nat /\ Size \in Nat \ {0}
    BY <1>1, PathFacts
<1>3. /\ x4 + offset \in 0..Len(path) /\ x4 + offset < Len(path)
      /\ (x4 + offset) + 1 = Len(path) - Size + (offset + 1)
    BY <1>1, <1>2
<1>4. Byte(x4 + offset) = path[Len(path) - Size + (offset + 1)]
    BY <1>1, <1>3, ByteFacts
<1>5. read' \subseteq 0..Len(path) /\ read' \subseteq Int
  <2>1. 0..Len(path) \subseteq Int
      BY <1>2
  <2> QED
      BY <1>1, <1>3, <2>1, Zenon
<1>6. offset' \in 0..Size /\ offset + 1 \in 1..Size
    BY <1>1, <1>2
<1>7. Before'
    BY <1>1 DEF Before, Size
<1>8. CASE Byte(x4 + offset) # Basename[offset + 1]
  <2>1. pc' = "old"
      BY <1>8 DEF CompareChar, Goto
  <2>2. ~FinalComponent'
      BY <1>1, <1>4, <1>6, <1>8 DEF FinalComponent, Size
  <2> QED
      BY <1>1, <1>2, <1>5, <1>6, <2>1, <2>2 DEF ReadsInside, VerdictExact, Size
<1>9. CASE Byte(x4 + offset) = Basename[offset + 1]
  <2>1. Compared(offset + 1)
    <3> SUFFICES ASSUME NEW k \in 1..Size, k <= offset + 1
                 PROVE  path[Len(path) - Size + k] = Basename[k]
        BY DEF Compared
    <3>1. CASE k = offset + 1
        BY <1>4, <1>9, <3>1
    <3>2. CASE k # offset + 1
      <4>1. k <= offset
          BY <1>1, <1>2, <3>2
      <4> QED
          BY <1>1, <4>1 DEF Compared
    <3> QED
        BY <3>1, <3>2
  <2>2. Compared(offset)'
      BY <1>1, <2>1 DEF Compared, Size
  <2>3. CASE offset + 1 = Size
    <3>1. pc' = "nul"
        BY <1>1, <1>9, <2>3 DEF CompareChar, Goto
    <3>2. Compared(Size)'
        BY <1>1, <2>1, <2>3 DEF Compared, Size
    <3> QED
        BY <1>1, <1>2, <1>5, <1>6, <1>7, <3>1, <3>2 DEF ReadsInside, VerdictExact, Size
  <2>4. CASE offset + 1 # Size
    <3>1. pc' = "compare" /\ offset' < Size
        BY <1>1, <1>2, <1>9, <2>4 DEF CompareChar, Goto
    <3> QED
        BY <1>1, <1>2, <1>5, <1>6, <1>7, <2>2, <3>1 DEF ReadsInside, VerdictExact, Size
  <2> QED
      BY <2>3, <2>4
<1> QED
    BY <1>8, <1>9

LEMMA CompareNulKeeps == ScanInv /\ CompareNul => ScanInv'
<1> SUFFICES ASSUME ScanInv, CompareNul PROVE ScanInv'
    OBVIOUS
<1> USE DEF ScanInv, ScanTypeOK
<1>1. /\ pc = "nul" /\ path' = path /\ offset' = offset /\ x4' = x4
      /\ read' = read \cup {x4 + Size}
      /\ path \in Paths /\ x4 = Len(path) - Size /\ x4 > 0 /\ x4 \in Nat
      /\ read \subseteq 0..Len(path) /\ Before /\ Compared(Size)
    BY DEF CompareNul, Read, ReadsInside
<1>2. Len(path) \in Nat /\ Size \in Nat \ {0}
    BY <1>1, PathFacts
<1>3. x4 + Size = Len(path)
    BY <1>1, <1>2
<1>4. Byte(x4 + Size) = Nul
    BY <1>1, <1>2, <1>3, ByteFacts
<1>5. pc' = "store"
    BY <1>4 DEF CompareNul, Goto
<1>6. read' \subseteq 0..Len(path) /\ read' \subseteq Int
  <2>1. x4 + Size \in 0..Len(path)
      BY <1>2, <1>3
  <2>2. 0..Len(path) \subseteq Int
      BY <1>2
  <2> QED
      BY <1>1, <2>1, <2>2, Zenon
<1>7. FinalComponent' /\ Size < Len(path)
    BY <1>1, <1>2 DEF FinalComponent, Before, Compared, Size
<1> QED
    BY <1>1, <1>2, <1>5, <1>6, <1>7 DEF ReadsInside, VerdictExact, Size

\* The inductive invariant of the scan.
THEOREM ScanInvariance == Spec => []ScanInv
<1>1. ScanInv /\ [Next]_vars => ScanInv'
  <2> SUFFICES ASSUME ScanInv, [Next]_vars PROVE ScanInv'
      OBVIOUS
  <2>1. CASE Scan
      BY <2>1, ScanKeeps
  <2>2. CASE StepBack
      BY <2>2, StepBackKeeps
  <2>3. CASE CheckSlash
      BY <2>3, CheckSlashKeeps
  <2>4. CASE CompareChar
      BY <2>4, CompareCharKeeps
  <2>5. CASE CompareNul
      BY <2>5, CompareNulKeeps
  <2>6. CASE UNCHANGED vars
      BY <2>6 DEF vars, ScanInv, ScanTypeOK, ReadsInside, VerdictExact, FinalComponent,
                  Before, Compared, Size
  <2> QED
      BY <2>1, <2>2, <2>3, <2>4, <2>5, <2>6 DEF Next
<1> QED
    BY <1>1, InitScan, PTL DEF Spec

\* The resolver takes an image for the bridge exactly when its path ends with
\* a slash and the basename, for every basename and every path.
THEOREM VerdictIsExact == Spec => []VerdictExact
<1>1. ScanInv => VerdictExact
    BY DEF ScanInv
<1> QED
    BY <1>1, ScanInvariance, PTL

\* The scan reads no byte outside the string, for every basename and path.
THEOREM ReadsStayInside == Spec => []ReadsInside
<1>1. ScanInv => ReadsInside
    BY DEF ScanInv
<1> QED
    BY <1>1, ScanInvariance, PTL

\* The registers keep their types.
THEOREM ScanTypeCorrect == Spec => []ScanTypeOK
<1>1. ScanInv => ScanTypeOK
    BY DEF ScanInv
<1> QED
    BY <1>1, ScanInvariance, PTL
-----------------------------------------------------------------------------
\* How many instruction groups of the loops are still to come, at most.
StepsLeft ==
    CASE pc = "scan"    -> (Len(path) - x4) + Size + 4
      [] pc = "suffix"  -> Size + 3
      [] pc = "slash"   -> Size + 2
      [] pc = "compare" -> (Size - offset) + 1
      [] pc = "nul"     -> 1
      [] OTHER          -> 0

CountsDown == StepsLeft' < StepsLeft

LEMMA StepsLeftFacts ==
    ASSUME ScanInv
    PROVE  StepsLeft \in Nat /\ (StepsLeft = 0 <=> pc \in {"store", "old"})
<1>1. Len(path) \in Nat /\ Size \in Nat \ {0}
    BY PathFacts DEF ScanInv, ScanTypeOK
<1>2. /\ pc = "scan" => StepsLeft = (Len(path) - x4) + Size + 4
      /\ pc = "suffix" => StepsLeft = Size + 3
      /\ pc = "slash" => StepsLeft = Size + 2
      /\ pc = "compare" => StepsLeft = (Size - offset) + 1
      /\ pc = "nul" => StepsLeft = 1
      /\ pc \in {"store", "old"} => StepsLeft = 0
    BY DEF StepsLeft
<1>3. /\ pc \in {"scan", "suffix", "slash", "compare", "nul", "store", "old"}
      /\ pc = "scan" => x4 \in Nat /\ x4 <= Len(path)
      /\ pc = "compare" => offset \in Nat /\ offset < Size
    BY <1>1 DEF ScanInv, ScanTypeOK
<1> QED
    BY <1>1, <1>2, <1>3

LEMMA EveryStepCounts == ScanInv /\ Next => CountsDown
<1> SUFFICES ASSUME ScanInv, Next PROVE StepsLeft' < StepsLeft
    BY DEF CountsDown
<1>1. Len(path) \in Nat /\ Size \in Nat \ {0} /\ path' = path /\ Size' = Size
    BY PathFacts DEF ScanInv, ScanTypeOK, Next, Scan, StepBack, CheckSlash, CompareChar,
                     CompareNul, Size
<1>2. CASE Scan
  <2>1. pc = "scan" /\ x4 \in Nat /\ StepsLeft = (Len(path) - x4) + Size + 4
      BY <1>2 DEF Scan, StepsLeft, ScanInv, ScanTypeOK
  <2>2. CASE pc' = "suffix" /\ x4 <= Len(path)
      BY <1>1, <2>1, <2>2 DEF StepsLeft
  <2>3. CASE pc' = "scan" /\ x4' = x4 + 1
      BY <1>1, <2>1, <2>3 DEF StepsLeft
  <2> QED
      BY <1>2, <2>2, <2>3 DEF Scan, Goto, ScanInv
<1>3. CASE StepBack
    BY <1>1, <1>3 DEF StepBack, Goto, StepsLeft
<1>4. CASE CheckSlash
  <2>1. pc = "slash" /\ offset = 0 /\ offset' = 0 /\ pc' \in {"compare", "old"}
      BY <1>4 DEF CheckSlash, Goto, ScanInv
  <2> QED
      BY <1>1, <2>1 DEF StepsLeft
<1>5. CASE CompareChar
  <2>1. /\ pc = "compare" /\ offset \in Nat /\ offset < Size /\ offset' = offset + 1
        /\ pc' \in {"compare", "nul", "old"}
      BY <1>1, <1>5 DEF CompareChar, Goto, ScanInv, ScanTypeOK
  <2> QED
      BY <1>1, <2>1 DEF StepsLeft
<1>6. CASE CompareNul
    BY <1>6 DEF CompareNul, Goto, StepsLeft
<1> QED
    BY <1>2, <1>3, <1>4, <1>5, <1>6 DEF Next

\* The safety half of ScanEnds: every step of the loops leaves fewer to take,
\* of Len(path) + Size + 4 at the start, so that no path, however long, and no
\* mismatch, however late, keeps a resolver in them for ever.  That a step is
\* taken as long as there is no verdict is the fairness of Spec.
THEOREM ScanCountsDown ==
    Spec => [](StepsLeft \in Nat /\ (StepsLeft = 0 <=> pc \in {"store", "old"}))
            /\ [][CountsDown]_vars
<1>1. ScanInv => StepsLeft \in Nat /\ (StepsLeft = 0 <=> pc \in {"store", "old"})
    BY StepsLeftFacts
<1>2. ScanInv /\ [Next]_vars => [CountsDown]_vars
    BY EveryStepCounts
<1> QED
    BY <1>1, <1>2, ScanInvariance, PTL DEF Spec
=============================================================================
