--------------------------- MODULE PayloadLayout ----------------------------
(***************************************************************************)
(* Where _build_payload puts things: one word and the slots of each unit   *)
(* in the data blob, which must stay inside one page because the code      *)
(* reaches it with one adrp and 12-bit offsets; the code blocks, then the  *)
(* symbol strings, in the text.  Each pass is a loop over a cursor.        *)
(***************************************************************************)
EXTENDS Integers, Sequences

CONSTANTS Jobs      \* what there is to place: [units, code, strings, data]

UNIT_HEADER_SIZE == 8
SLOT_SIZE == 8
PAGE == 4096

\* units[i] is the number of APIs of unit i, code[i] the encoded size of block
\* i, strings[i] the length of a symbol, data the address of the data blob.
ASSUME LayoutAssumption ==
    \A j \in Jobs :
        /\ j.data \in Nat
        /\ j.units \in Seq(Nat \ {0})
        /\ j.code \in Seq(Nat \ {0})
        /\ j.strings \in Seq(Nat \ {0})

VARIABLES
    job,        \* the payload that is built
    pass,       \* "data", "code", "strings", "built" or "rejected"
    next,       \* the piece the pass places next
    cursor,     \* the first byte it has not placed
    unitAt,     \* offsets in the data blob
    codeAt,     \* offsets in the text
    stringAt

vars == <<job, pass, next, cursor, unitAt, codeAt, stringAt>>
placed == <<unitAt, codeAt, stringAt>>

\* (value + 3) & ~3
Align4(value) == ((value + 3) \div 4) * 4

DataLo == job.data % PAGE
UnitSize(i) == UNIT_HEADER_SIZE + SLOT_SIZE * job.units[i]

Init ==
    /\ job \in Jobs
    /\ pass = IF job.data % 16 = 0 THEN "data" ELSE "rejected"
    /\ next = 1
    /\ cursor = 0
    /\ unitAt = [i \in DOMAIN job.units |-> 0]
    /\ codeAt = [i \in DOMAIN job.code |-> 0]
    /\ stringAt = [i \in DOMAIN job.strings |-> 0]

Start(p) == pass' = p /\ next' = 1 /\ cursor' = 0 /\ UNCHANGED <<job, placed>>
Reject == pass' = "rejected" /\ UNCHANGED <<job, next, cursor, placed>>

\* Mutant: the word is taken to have no padding.
PlaceUnitUnpadded ==
    /\ pass = "data" /\ next \in DOMAIN job.units
    /\ unitAt' = [unitAt EXCEPT ![next] = cursor]
    /\ cursor' = cursor + 4 + SLOT_SIZE * job.units[next]
    /\ next' = next + 1
    /\ UNCHANGED <<job, pass, codeAt, stringAt>>

PlaceUnit ==
    /\ pass = "data" /\ next \in DOMAIN job.units
    /\ unitAt' = [unitAt EXCEPT ![next] = cursor]
    /\ cursor' = cursor + UnitSize(next)
    /\ next' = next + 1
    /\ UNCHANGED <<job, pass, codeAt, stringAt>>

\* Mutant: only the size of the blob is compared with the page.
CheckPageSize ==
    /\ pass = "data" /\ next \notin DOMAIN job.units
    /\ IF cursor > PAGE THEN Reject ELSE Start("code")

\* Mutant: a full page is one byte too many.
CheckPageStrict ==
    /\ pass = "data" /\ next \notin DOMAIN job.units
    /\ IF DataLo + cursor >= PAGE THEN Reject ELSE Start("code")

CheckPage ==
    /\ pass = "data" /\ next \notin DOMAIN job.units
    /\ IF DataLo + cursor > PAGE THEN Reject ELSE Start("code")

PlaceBlock ==
    /\ pass = "code" /\ next \in DOMAIN job.code
    /\ IF job.code[next] % 4 # 0
       THEN Reject
       ELSE /\ codeAt' = [codeAt EXCEPT ![next] = cursor]
            /\ cursor' = cursor + job.code[next]
            /\ next' = next + 1
            /\ UNCHANGED <<job, pass, unitAt, stringAt>>

\* The strings follow the code.
StartStrings ==
    /\ pass = "code" /\ next \notin DOMAIN job.code
    /\ pass' = "strings" /\ next' = 1
    /\ UNCHANGED <<job, cursor, placed>>

\* Mutant: no room for the terminating NUL.
PlaceStringBare ==
    /\ pass = "strings" /\ next \in DOMAIN job.strings
    /\ stringAt' = [stringAt EXCEPT ![next] = Align4(cursor)]
    /\ cursor' = Align4(cursor) + job.strings[next]
    /\ next' = next + 1
    /\ UNCHANGED <<job, pass, unitAt, codeAt>>

PlaceString ==
    /\ pass = "strings" /\ next \in DOMAIN job.strings
    /\ stringAt' = [stringAt EXCEPT ![next] = Align4(cursor)]
    /\ cursor' = Align4(cursor) + job.strings[next] + 1
    /\ next' = next + 1
    /\ UNCHANGED <<job, pass, unitAt, codeAt>>

\* The text is padded to whole words.
Finish ==
    /\ pass = "strings" /\ next \notin DOMAIN job.strings
    /\ pass' = "built"
    /\ cursor' = Align4(cursor)
    /\ UNCHANGED <<job, next, placed>>

Next ==
    \/ PlaceUnit \/ CheckPage \/ PlaceBlock \/ StartStrings \/ PlaceString \/ Finish

Spec == Init /\ [][Next]_vars
-----------------------------------------------------------------------------
(***************************************************************************)
(* What a payload that is built can rely on.                               *)
(***************************************************************************)
\* The type invariant: each pass stays within its pieces.
LayoutTypeOK ==
    /\ job \in Jobs
    /\ pass \in {"data", "code", "strings", "built", "rejected"}
    /\ next \in Nat \ {0}
    /\ cursor \in Nat
    /\ unitAt \in [DOMAIN job.units -> Nat]
    /\ codeAt \in [DOMAIN job.code -> Nat]
    /\ stringAt \in [DOMAIN job.strings -> Nat]

\* The doublewords of unit i, by their offset in the page: the state word with
\* its padding is number 0, the slot of API k is number k.
Words(i) == 0..job.units[i]
WordAt(i, k) == DataLo + unitAt[i] + SLOT_SIZE * k

\* Every state word and every slot of a built payload has its bytes to itself:
\* a unit that publishes, or stores a slot, writes into no other unit, and the
\* pair (unit, API) a veneer loads from is the one its resolver stored to.
WordsApart ==
    pass \in {"code", "strings", "built"} =>
        \A i, j \in DOMAIN job.units : \A k \in Words(i), l \in Words(j) :
            \/ i = j /\ k = l
            \/ WordAt(i, k) + SLOT_SIZE <= WordAt(j, l)
            \/ WordAt(j, l) + SLOT_SIZE <= WordAt(i, k)

\* Every one of them is aligned, as ldar, ldaxr and stlr require, and lies
\* within the one page the adrp names, whole.
WordsReachable ==
    pass \in {"code", "strings", "built"} =>
        \A i \in DOMAIN job.units : \A k \in Words(i) :
            WordAt(i, k) % SLOT_SIZE = 0 /\ WordAt(i, k) + SLOT_SIZE <= PAGE

\* Code and strings do not run into each other: blocks follow one another,
\* every string starts on a word behind all of the code, and ends, with its
\* NUL, before the next one and before the end of the text.
TextApart ==
    pass = "built" =>
        /\ \A i \in DOMAIN job.code : \A j \in DOMAIN job.strings :
               codeAt[i] % 4 = 0 /\ codeAt[i] + job.code[i] <= stringAt[j]
        /\ \A i, j \in DOMAIN job.code : i < j => codeAt[i] + job.code[i] <= codeAt[j]
        /\ \A i, j \in DOMAIN job.strings :
               i < j => stringAt[i] + job.strings[i] < stringAt[j]
        /\ \A i \in DOMAIN job.strings :
               stringAt[i] % 4 = 0 /\ stringAt[i] + job.strings[i] < cursor

\* The sums of the sizes of the first units: none, one, two...
Sums(units) ==
    LET upTo[n \in 0..Len(units)] ==
            IF n = 0 THEN 0 ELSE upTo[n - 1] + UNIT_HEADER_SIZE + SLOT_SIZE * units[n]
    IN  upTo
DataSize == Sums(job.units)[Len(job.units)]

\* The placement of phase A (data_size, the reservation of the segment) and
\* that of phase B (unit_offsets) agree on where the blob ends; and a payload
\* is refused only for a misaligned segment, a blob that leaves its page, or a
\* block that is not made of instructions.
RefusalsJustified ==
    /\ pass = "data" /\ next \notin DOMAIN job.units => cursor = DataSize
    /\ pass = "rejected" =>
           \/ job.data % 16 # 0
           \/ DataLo + DataSize > PAGE
           \/ \E i \in DOMAIN job.code : job.code[i] % 4 # 0

-----------------------------------------------------------------------------
(***************************************************************************)
(* The inductive invariant behind them: the pieces placed so far are in    *)
(* order, aligned, and end before the cursor.                              *)
(***************************************************************************)
UnitsPlaced(n, end) ==
    \A i \in DOMAIN job.units : i < n =>
        /\ unitAt[i] % SLOT_SIZE = 0
        /\ unitAt[i] + UnitSize(i) <= end
        /\ \A j \in DOMAIN job.units :
               i < j /\ j < n => unitAt[i] + UnitSize(i) <= unitAt[j]

BlocksPlaced(n, end) ==
    \A i \in DOMAIN job.code : i < n =>
        /\ codeAt[i] % 4 = 0
        /\ codeAt[i] + job.code[i] <= end
        /\ \A j \in DOMAIN job.code :
               i < j /\ j < n => codeAt[i] + job.code[i] <= codeAt[j]

StringsPlaced(n, end) ==
    \A i \in DOMAIN job.strings : i < n =>
        /\ stringAt[i] % 4 = 0
        /\ stringAt[i] + job.strings[i] < end
        /\ \A j \in DOMAIN job.code : codeAt[j] + job.code[j] <= stringAt[i]
        /\ \A j \in DOMAIN job.strings :
               i < j /\ j < n => stringAt[i] + job.strings[i] < stringAt[j]

DataInv ==
    /\ pass # "rejected" => job.data % 16 = 0
    /\ pass = "data" => cursor % SLOT_SIZE = 0 /\ UnitsPlaced(next, cursor)
    /\ pass \in {"code", "strings", "built"} =>
           UnitsPlaced(Len(job.units) + 1, PAGE - DataLo)
CodeInv ==
    /\ pass = "code" => cursor % 4 = 0 /\ BlocksPlaced(next, cursor)
    /\ pass \in {"strings", "built"} => BlocksPlaced(Len(job.code) + 1, cursor)
StringInv ==
    /\ pass = "strings" => StringsPlaced(next, cursor)
    /\ pass = "built" => StringsPlaced(Len(job.strings) + 1, cursor)

\* The units have nothing between them.
Tight ==
    pass = "data" =>
        /\ next <= Len(job.units) + 1
        /\ cursor = IF next = 1 THEN 0 ELSE unitAt[next - 1] + UnitSize(next - 1)
        /\ \A i \in DOMAIN job.units : i < next =>
               unitAt[i] = IF i = 1 THEN 0 ELSE unitAt[i - 1] + UnitSize(i - 1)

LayoutInv == LayoutTypeOK /\ DataInv /\ CodeInv /\ StringInv
=============================================================================
