------------------------ MODULE PayloadLayoutProofs -------------------------
(***************************************************************************)
(* For payloads of any number of units, blocks and strings of any size:    *)
(* LayoutInv is inductive, and what a built payload relies on follows.     *)
(***************************************************************************)
EXTENDS PayloadLayout, TLAPS

USE DEF UNIT_HEADER_SIZE, SLOT_SIZE, PAGE

\* A job has positive sizes, whichever pass looks at them.
LEMMA JobSizes ==
    ASSUME job \in Jobs
    PROVE  /\ job.data \in Nat
           /\ \A i \in DOMAIN job.units : i \in Nat \ {0} /\ i <= Len(job.units)
                                          /\ job.units[i] \in Nat \ {0}
           /\ \A i \in DOMAIN job.code : i \in Nat \ {0} /\ i <= Len(job.code)
                                         /\ job.code[i] \in Nat \ {0}
           /\ \A i \in DOMAIN job.strings : i \in Nat \ {0} /\ i <= Len(job.strings)
                                            /\ job.strings[i] \in Nat \ {0}
           /\ Len(job.units) \in Nat /\ Len(job.code) \in Nat /\ Len(job.strings) \in Nat
BY LayoutAssumption

\* A unit takes whole doublewords.
LEMMA UnitSizes ==
    ASSUME job \in Jobs, NEW i \in DOMAIN job.units
    PROVE  UnitSize(i) \in Nat /\ UnitSize(i) % 8 = 0 /\ i \in Nat \ {0} /\ i <= Len(job.units)
<1>1. job.units[i] \in Nat /\ i \in Nat \ {0} /\ i <= Len(job.units)
    BY JobSizes
<1>2. ASSUME NEW c \in Nat PROVE 8 + 8 * c \in Nat /\ (8 + 8 * c) % 8 = 0
    OBVIOUS
<1> QED
    BY <1>1, <1>2 DEF UnitSize

\* Rounding up to words: the result is a multiple of four, and not smaller.
LEMMA AlignedUp ==
    ASSUME NEW v \in Nat
    PROVE  Align4(v) \in Nat /\ Align4(v) >= v /\ Align4(v) % 4 = 0
BY DEF Align4

LEMMA InitLayout == Init => LayoutInv
<1> SUFFICES ASSUME Init PROVE LayoutInv
    OBVIOUS
<1>1. LayoutTypeOK
    BY DEF Init, LayoutTypeOK
<1>2. \A i \in DOMAIN job.units : ~(i < 1)
    BY JobSizes DEF Init
<1>3. DataInv
    BY <1>1, <1>2 DEF Init, DataInv, UnitsPlaced
<1> QED
    BY <1>1, <1>3 DEF Init, LayoutInv, CodeInv, StringInv

-----------------------------------------------------------------------------
\* The data pass.
LEMMA PlaceUnitKeeps == LayoutInv /\ PlaceUnit => LayoutInv'
<1> SUFFICES ASSUME LayoutInv, PlaceUnit PROVE LayoutInv'
    OBVIOUS
<1> USE DEF LayoutInv
<1>1. /\ pass = "data" /\ pass' = "data" /\ job' = job /\ next \in DOMAIN job.units
      /\ next' = next + 1 /\ cursor' = cursor + UnitSize(next)
      /\ unitAt' = [unitAt EXCEPT ![next] = cursor]
      /\ codeAt' = codeAt /\ stringAt' = stringAt
      /\ job \in Jobs /\ next \in Nat \ {0} /\ cursor \in Nat
      /\ unitAt \in [DOMAIN job.units -> Nat]
    BY DEF PlaceUnit, LayoutTypeOK
<1>2. \A i \in DOMAIN job.units : UnitSize(i) \in Nat /\ UnitSize(i) % 8 = 0 /\ i \in Nat
    BY <1>1, UnitSizes
<1>3. LayoutTypeOK'
    BY <1>1, <1>2 DEF LayoutTypeOK
<1>nat. \A i \in DOMAIN job.units : i \in Nat
    BY <1>2
<1>4. cursor % 8 = 0 /\ cursor' % 8 = 0
  <2>1. ASSUME NEW m \in Nat, NEW n \in Nat, m % 8 = 0, n % 8 = 0 PROVE (m + n) % 8 = 0
      BY <2>1
  <2>2. cursor % 8 = 0
      BY <1>1 DEF DataInv
  <2> QED
      BY <1>1, <1>2, <2>1, <2>2
<1>5. UnitsPlaced(next, cursor)'
  <2> SUFFICES ASSUME NEW i \in DOMAIN job.units, i < next + 1
               PROVE  /\ unitAt'[i] % 8 = 0
                      /\ unitAt'[i] + UnitSize(i) <= cursor + UnitSize(next)
                      /\ \A j \in DOMAIN job.units :
                             i < j /\ j < next + 1 => unitAt'[i] + UnitSize(i) <= unitAt'[j]
      BY <1>1 DEF UnitsPlaced, UnitSize
  <2>1. UnitsPlaced(next, cursor) /\ cursor % 8 = 0
      BY <1>1 DEF DataInv
  <2>2. UnitSize(i) \in Nat
      BY <1>2
  <2>3. CASE i = next
      BY <1>1, <1>2, <2>1, <2>3
  <2>4. CASE i < next
    <3>1. unitAt'[i] = unitAt[i]
        BY <1>1, <2>4
    <3>2. unitAt[i] % 8 = 0 /\ unitAt[i] + UnitSize(i) <= cursor
        BY <2>1, <2>4 DEF UnitsPlaced
    <3>3. ASSUME NEW j \in DOMAIN job.units, i < j, j < next + 1
          PROVE  unitAt'[i] + UnitSize(i) <= unitAt'[j]
      <4>1. CASE j = next
          BY <1>1, <3>1, <3>2, <4>1
      <4>2. CASE j # next
        <5>1. j < next
          <6>1. j \in Nat /\ next \in Nat
              BY <1>1, <1>nat
          <6> QED
              BY <3>3, <4>2, <6>1
        <5>2. unitAt'[j] = unitAt[j]
            BY <1>1, <4>2
        <5> QED
            BY <2>1, <2>4, <3>1, <3>3, <5>1, <5>2 DEF UnitsPlaced
      <4> QED
          BY <4>1, <4>2
    <3> QED
        BY <1>1, <1>2, <2>2, <3>1, <3>2, <3>3
  <2>5. i \in Nat /\ next \in Nat
      BY <1>1, <1>nat
  <2> QED
      BY <2>3, <2>4, <2>5
<1>6. DataInv'
    BY <1>1, <1>4, <1>5 DEF DataInv
<1> QED
    BY <1>1, <1>3, <1>6 DEF CodeInv, StringInv

LEMMA CheckPageKeeps == LayoutInv /\ CheckPage => LayoutInv'
<1> SUFFICES ASSUME LayoutInv, CheckPage PROVE LayoutInv'
    OBVIOUS
<1> USE JobSizes DEF LayoutInv
<1>1. /\ pass = "data" /\ next \notin DOMAIN job.units /\ UNCHANGED <<job, placed>>
      /\ job \in Jobs /\ next \in Nat \ {0} /\ cursor \in Nat
      /\ unitAt \in [DOMAIN job.units -> Nat]
    BY DEF CheckPage, Reject, Start, LayoutTypeOK
<1>2. CASE DataLo + cursor > PAGE
    BY <1>1, <1>2 DEF CheckPage, Reject, LayoutTypeOK, DataInv, CodeInv, StringInv, placed
<1>3. CASE ~(DataLo + cursor > PAGE)
  <2>1. pass' = "code" /\ next' = 1 /\ cursor' = 0
      BY <1>1, <1>3 DEF CheckPage, Start
  <2>2. LayoutTypeOK'
      BY <1>1, <2>1 DEF LayoutTypeOK, placed
  <2>3. DataLo \in Nat /\ cursor <= PAGE - DataLo
      BY <1>1, <1>3 DEF DataLo
  <2>4. \A i \in DOMAIN job.units : i < next
      BY <1>1
  <2>5. UnitsPlaced(next, cursor)
      BY <1>1 DEF DataInv
  <2>6. \A i \in DOMAIN job.units : UnitSize(i) \in Nat /\ unitAt[i] \in Nat
      BY <1>1 DEF UnitSize
  <2>7. UnitsPlaced(Len(job.units) + 1, PAGE - DataLo)
      BY <1>1, <2>3, <2>4, <2>5, <2>6 DEF UnitsPlaced
  <2>8. DataInv'
      BY <1>1, <2>1, <2>7 DEF DataInv, UnitsPlaced, UnitSize, DataLo, placed
  <2>9. \A i \in DOMAIN job.code : ~(i < 1)
      BY <1>1
  <2> QED
      BY <1>1, <2>1, <2>2, <2>8, <2>9 DEF CodeInv, StringInv, BlocksPlaced, placed
<1> QED
    BY <1>2, <1>3

-----------------------------------------------------------------------------
\* The text passes leave the data blob alone.
LEMMA DataKept ==
    ASSUME DataInv, job' = job, unitAt' = unitAt,
           pass \in {"code", "strings"}, pass' \in {"code", "strings", "built", "rejected"}
    PROVE  DataInv'
BY DEF DataInv, UnitsPlaced, UnitSize, DataLo

LEMMA PlaceBlockKeeps == LayoutInv /\ PlaceBlock => LayoutInv'
<1> SUFFICES ASSUME LayoutInv, PlaceBlock PROVE LayoutInv'
    OBVIOUS
<1> USE DEF LayoutInv
<1>1. /\ pass = "code" /\ next \in DOMAIN job.code /\ job' = job
      /\ unitAt' = unitAt /\ stringAt' = stringAt /\ pass' \in {"code", "rejected"}
      /\ job \in Jobs /\ next \in Nat \ {0} /\ cursor \in Nat
      /\ codeAt \in [DOMAIN job.code -> Nat]
    BY DEF PlaceBlock, Reject, LayoutTypeOK, placed
<1>2. DataInv'
    BY <1>1, DataKept
<1>3. \A i \in DOMAIN job.code : i \in Nat /\ job.code[i] \in Nat
    BY <1>1, JobSizes
<1>4. CASE job.code[next] % 4 # 0
    BY <1>1, <1>2, <1>4 DEF PlaceBlock, Reject, LayoutTypeOK, CodeInv, StringInv, placed
<1>5. CASE job.code[next] % 4 = 0
  <2>1. /\ codeAt' = [codeAt EXCEPT ![next] = cursor] /\ next' = next + 1
        /\ cursor' = cursor + job.code[next] /\ pass' = "code"
      BY <1>1, <1>5 DEF PlaceBlock
  <2>2. LayoutTypeOK'
      BY <1>1, <1>3, <2>1 DEF LayoutTypeOK
  <2>3. cursor % 4 = 0 /\ BlocksPlaced(next, cursor)
      BY <1>1 DEF CodeInv
  <2>4. cursor' % 4 = 0
    <3>1. ASSUME NEW m \in Nat, NEW n \in Nat, m % 4 = 0, n % 4 = 0 PROVE (m + n) % 4 = 0
        BY <3>1
    <3> QED
        BY <1>1, <1>3, <1>5, <2>1, <2>3, <3>1
  <2>5. ASSUME NEW i \in DOMAIN job.code, i < next + 1
        PROVE  /\ codeAt'[i] % 4 = 0
               /\ codeAt'[i] + job.code[i] <= cursor + job.code[next]
               /\ \A j \in DOMAIN job.code :
                      i < j /\ j < next + 1 => codeAt'[i] + job.code[i] <= codeAt'[j]
    <3>1. CASE i = next
        BY <1>1, <1>3, <2>1, <2>3, <3>1
    <3>2. CASE i < next
      <4>1. codeAt'[i] = codeAt[i]
          BY <1>1, <2>1, <3>2
      <4>2. codeAt[i] % 4 = 0 /\ codeAt[i] + job.code[i] <= cursor
          BY <2>3, <3>2 DEF BlocksPlaced
      <4>3. ASSUME NEW j \in DOMAIN job.code, i < j, j < next + 1
            PROVE  codeAt'[i] + job.code[i] <= codeAt'[j]
        <5>1. CASE j = next
            BY <1>1, <2>1, <4>1, <4>2, <5>1
        <5>2. CASE j # next
          <6>1. j < next
            <7>1. j \in Nat /\ next \in Nat
                BY <1>1, <1>3
            <7> QED
                BY <4>3, <5>2, <7>1
          <6>2. codeAt'[j] = codeAt[j]
              BY <1>1, <2>1, <5>2
          <6> QED
              BY <2>3, <3>2, <4>1, <4>3, <6>1, <6>2 DEF BlocksPlaced
        <5> QED
            BY <5>1, <5>2
      <4>4. codeAt[i] \in Nat /\ job.code[i] \in Nat /\ job.code[next] \in Nat
          BY <1>1, <1>3
      <4> QED
          BY <1>1, <4>1, <4>2, <4>3, <4>4
    <3>3. i \in Nat /\ next \in Nat
        BY <1>1, <1>3
    <3> QED
        BY <2>5, <3>1, <3>2, <3>3
  <2>6. CodeInv'
      BY <1>1, <2>1, <2>4, <2>5 DEF CodeInv, BlocksPlaced
  <2> QED
      BY <1>2, <2>1, <2>2, <2>6 DEF StringInv
<1> QED
    BY <1>4, <1>5

LEMMA StartStringsKeeps == LayoutInv /\ StartStrings => LayoutInv'
<1> SUFFICES ASSUME LayoutInv, StartStrings PROVE LayoutInv'
    OBVIOUS
<1> USE DEF LayoutInv
<1>1. /\ pass = "code" /\ next \notin DOMAIN job.code /\ job' = job
      /\ unitAt' = unitAt /\ codeAt' = codeAt /\ stringAt' = stringAt
      /\ pass' = "strings" /\ next' = 1 /\ cursor' = cursor
      /\ job \in Jobs /\ next \in Nat \ {0} /\ cursor \in Nat
    BY DEF StartStrings, LayoutTypeOK, placed
<1>2. DataInv' /\ LayoutTypeOK'
    BY <1>1, DataKept DEF LayoutTypeOK
<1>3. \A i \in DOMAIN job.code : i < next
  <2>1. job.code \in Seq(Nat \ {0})
      BY <1>1, LayoutAssumption
  <2> QED
      BY <1>1, <2>1
<1>4. BlocksPlaced(Len(job.code) + 1, cursor)
    BY <1>1, <1>3 DEF CodeInv, BlocksPlaced
<1>5. CodeInv'
    BY <1>1, <1>4 DEF CodeInv, BlocksPlaced
<1>6. \A i \in DOMAIN job.strings : ~(i < 1)
    BY <1>1, JobSizes
<1> QED
    BY <1>1, <1>2, <1>5, <1>6 DEF StringInv, StringsPlaced

LEMMA PlaceStringKeeps == LayoutInv /\ PlaceString => LayoutInv'
<1> SUFFICES ASSUME LayoutInv, PlaceString PROVE LayoutInv'
    OBVIOUS
<1> USE DEF LayoutInv
<1> DEFINE start == Align4(cursor)
<1>1. /\ pass = "strings" /\ pass' = "strings" /\ next \in DOMAIN job.strings /\ job' = job
      /\ unitAt' = unitAt /\ codeAt' = codeAt
      /\ stringAt' = [stringAt EXCEPT ![next] = start]
      /\ next' = next + 1 /\ cursor' = start + job.strings[next] + 1
      /\ job \in Jobs /\ next \in Nat \ {0} /\ cursor \in Nat
      /\ stringAt \in [DOMAIN job.strings -> Nat] /\ codeAt \in [DOMAIN job.code -> Nat]
    BY DEF PlaceString, LayoutTypeOK
<1>2. start \in Nat /\ start >= cursor /\ start % 4 = 0
    BY <1>1, AlignedUp
<1> HIDE DEF start
<1>3. \A i \in DOMAIN job.strings : i \in Nat /\ job.strings[i] \in Nat
    BY <1>1, JobSizes
<1>4. \A i \in DOMAIN job.code : codeAt[i] \in Nat /\ job.code[i] \in Nat
    BY <1>1, JobSizes
<1>5. cursor' \in Nat /\ cursor' > start
    BY <1>1, <1>2, <1>3
<1>6. DataInv' /\ LayoutTypeOK'
    BY <1>1, <1>2, <1>5, DataKept DEF LayoutTypeOK
<1>7. BlocksPlaced(Len(job.code) + 1, cursor)
    BY <1>1 DEF CodeInv
<1>8. ASSUME NEW i \in DOMAIN job.code
      PROVE  codeAt[i] + job.code[i] <= start /\ codeAt[i] + job.code[i] <= cursor'
  <2>1. i < Len(job.code) + 1
      BY <1>1, JobSizes
  <2>2. codeAt[i] + job.code[i] <= cursor
      BY <1>7, <2>1 DEF BlocksPlaced
  <2>3. codeAt[i] + job.code[i] \in Nat
      BY <1>4
  <2> QED
      BY <1>1, <1>2, <1>5, <2>2, <2>3
<1>9. CodeInv'
    BY <1>1, <1>7, <1>8 DEF CodeInv, BlocksPlaced
<1>10. StringsPlaced(next, cursor)
    BY <1>1 DEF StringInv
<1>11. ASSUME NEW i \in DOMAIN job.strings, i < next + 1
       PROVE  /\ stringAt'[i] % 4 = 0
              /\ stringAt'[i] + job.strings[i] < start + job.strings[next] + 1
              /\ \A j \in DOMAIN job.code : codeAt[j] + job.code[j] <= stringAt'[i]
              /\ \A j \in DOMAIN job.strings :
                     i < j /\ j < next + 1 => stringAt'[i] + job.strings[i] < stringAt'[j]
  <2>1. CASE i = next
    <3>1. stringAt'[i] = start
        BY <1>1, <2>1
    <3>2. \A j \in DOMAIN job.code : codeAt[j] + job.code[j] <= start
        BY <1>8
    <3>3. \A j \in DOMAIN job.strings : ~(i < j /\ j < next + 1)
        BY <1>1, <1>3, <2>1
    <3> QED
        BY <1>2, <1>3, <2>1, <3>1, <3>2, <3>3
  <2>2. CASE i < next
    <3>1. stringAt'[i] = stringAt[i] /\ stringAt[i] \in Nat /\ job.strings[i] \in Nat
        BY <1>1, <1>3, <2>2
    <3>2. /\ stringAt[i] % 4 = 0 /\ stringAt[i] + job.strings[i] < cursor
          /\ \A j \in DOMAIN job.code : codeAt[j] + job.code[j] <= stringAt[i]
        BY <1>10, <2>2 DEF StringsPlaced
    <3>3. ASSUME NEW j \in DOMAIN job.strings, i < j, j < next + 1
          PROVE  stringAt'[i] + job.strings[i] < stringAt'[j]
      <4>1. CASE j = next
        <5>1. stringAt'[j] = start
            BY <1>1, <4>1
        <5> QED
            BY <1>1, <1>2, <3>1, <3>2, <5>1
      <4>2. CASE j # next
        <5>1. j < next
          <6>1. j \in Nat /\ next \in Nat
              BY <1>1, <1>3
          <6> QED
              BY <3>3, <4>2, <6>1
        <5>2. stringAt'[j] = stringAt[j]
            BY <1>1, <4>2
        <5> QED
            BY <1>10, <2>2, <3>1, <3>3, <5>1, <5>2 DEF StringsPlaced
      <4> QED
          BY <4>1, <4>2
    <3>4. stringAt[i] + job.strings[i] < start + job.strings[next] + 1
      <4>1. job.strings[next] \in Nat /\ cursor \in Nat
          BY <1>1, <1>3
      <4> QED
          BY <1>2, <3>1, <3>2, <4>1
    <3> QED
        BY <3>1, <3>2, <3>3, <3>4
  <2>3. i \in Nat /\ next \in Nat
      BY <1>1, <1>3
  <2> QED
      BY <1>11, <2>1, <2>2, <2>3
<1>12. StringInv'
    BY <1>1, <1>11 DEF StringInv, StringsPlaced
<1> QED
    BY <1>6, <1>9, <1>12

LEMMA FinishKeeps == LayoutInv /\ Finish => LayoutInv'
<1> SUFFICES ASSUME LayoutInv, Finish PROVE LayoutInv'
    OBVIOUS
<1> USE DEF LayoutInv
<1>1. /\ pass = "strings" /\ pass' = "built" /\ next \notin DOMAIN job.strings /\ job' = job
      /\ unitAt' = unitAt /\ codeAt' = codeAt /\ stringAt' = stringAt
      /\ next' = next /\ cursor' = Align4(cursor)
      /\ job \in Jobs /\ next \in Nat \ {0} /\ cursor \in Nat
      /\ stringAt \in [DOMAIN job.strings -> Nat] /\ codeAt \in [DOMAIN job.code -> Nat]
    BY DEF Finish, LayoutTypeOK, placed
<1>2. cursor' \in Nat /\ cursor' >= cursor
    BY <1>1, AlignedUp
<1>3. DataInv' /\ LayoutTypeOK'
    BY <1>1, <1>2, DataKept DEF LayoutTypeOK
<1>4. \A i \in DOMAIN job.code : codeAt[i] \in Nat /\ job.code[i] \in Nat
    BY <1>1, JobSizes
<1>5. CodeInv'
    BY <1>1, <1>2, <1>4 DEF CodeInv, BlocksPlaced
<1>6. \A i \in DOMAIN job.strings :
          i < next /\ stringAt[i] \in Nat /\ job.strings[i] \in Nat
  <2>1. job.strings \in Seq(Nat \ {0})
      BY <1>1, LayoutAssumption
  <2> QED
      BY <1>1, <2>1
<1>7. StringsPlaced(next, cursor)
    BY <1>1 DEF StringInv
<1>8. StringInv'
    BY <1>1, <1>2, <1>6, <1>7 DEF StringInv, StringsPlaced
<1> QED
    BY <1>3, <1>5, <1>8

-----------------------------------------------------------------------------
\* The inductive invariant: whatever the sizes, the pieces that are placed are
\* in order, aligned and in their bounds.
THEOREM LayoutInvariance == Spec => []LayoutInv
<1>1. LayoutInv /\ [Next]_vars => LayoutInv'
  <2> SUFFICES ASSUME LayoutInv, [Next]_vars PROVE LayoutInv'
      OBVIOUS
  <2>1. CASE PlaceUnit
      BY <2>1, PlaceUnitKeeps
  <2>2. CASE CheckPage
      BY <2>2, CheckPageKeeps
  <2>3. CASE PlaceBlock
      BY <2>3, PlaceBlockKeeps
  <2>4. CASE StartStrings
      BY <2>4, StartStringsKeeps
  <2>5. CASE PlaceString
      BY <2>5, PlaceStringKeeps
  <2>6. CASE Finish
      BY <2>6, FinishKeeps
  <2>7. CASE UNCHANGED vars
      BY <2>7 DEF vars, LayoutInv, LayoutTypeOK, DataInv, CodeInv, StringInv, UnitsPlaced,
                  BlocksPlaced, StringsPlaced, UnitSize, DataLo
  <2> QED
      BY <2>1, <2>2, <2>3, <2>4, <2>5, <2>6, <2>7 DEF Next
<1> QED
    BY <1>1, InitLayout, PTL DEF Spec

\* No two words of a built payload share a byte, whatever units it has.
THEOREM WordsAreApart == Spec => []WordsApart
<1>1. LayoutInv => WordsApart
  <2> SUFFICES ASSUME LayoutInv, pass \in {"code", "strings", "built"},
                      NEW i \in DOMAIN job.units, NEW j \in DOMAIN job.units,
                      NEW k \in Words(i), NEW l \in Words(j)
               PROVE  \/ i = j /\ k = l
                      \/ WordAt(i, k) + 8 <= WordAt(j, l)
                      \/ WordAt(j, l) + 8 <= WordAt(i, k)
      BY DEF WordsApart
  <2>1. /\ job \in Jobs /\ unitAt \in [DOMAIN job.units -> Nat]
        /\ UnitsPlaced(Len(job.units) + 1, PAGE - DataLo)
      BY DEF LayoutInv, LayoutTypeOK, DataInv
  <2>2. /\ DataLo \in Nat /\ unitAt[i] \in Nat /\ unitAt[j] \in Nat
        /\ i \in Nat /\ j \in Nat /\ i <= Len(job.units) /\ j <= Len(job.units)
        /\ job.units[i] \in Nat /\ job.units[j] \in Nat /\ Len(job.units) \in Nat
      BY <2>1, JobSizes DEF DataLo
  <2>3. /\ k \in Nat /\ k <= job.units[i]
        /\ l \in Nat /\ l <= job.units[j]
    <3>1. k \in 0..job.units[i] /\ l \in 0..job.units[j]
        BY DEF Words
    <3> QED
        BY <2>2, <3>1
  <2>4. /\ WordAt(i, k) = DataLo + unitAt[i] + 8 * k
        /\ WordAt(j, l) = DataLo + unitAt[j] + 8 * l
      BY DEF WordAt
  \* Words of two units: the later unit starts behind the earlier one.
  <2>5. ASSUME NEW d \in Nat, NEW m \in Nat, NEW n \in Nat,
               NEW u \in Nat, NEW p \in Nat, NEW q \in Nat,
               m + (8 + 8 * u) <= n, p <= u
        PROVE  d + m + 8 * p + 8 <= d + n + 8 * q
      BY <2>5
  <2>6. CASE i < j
    <3>1. unitAt[i] + UnitSize(i) <= unitAt[j]
        BY <2>1, <2>2, <2>6 DEF UnitsPlaced
    <3>2. unitAt[i] + (8 + 8 * job.units[i]) <= unitAt[j]
        BY <3>1 DEF UnitSize
    <3>3. DataLo + unitAt[i] + 8 * k + 8 <= DataLo + unitAt[j] + 8 * l
        BY <2>2, <2>3, <2>5, <3>2
    <3> QED
        BY <2>4, <3>3
  <2>7. CASE j < i
    <3>1. unitAt[j] + UnitSize(j) <= unitAt[i]
        BY <2>1, <2>2, <2>7 DEF UnitsPlaced
    <3>2. unitAt[j] + (8 + 8 * job.units[j]) <= unitAt[i]
        BY <3>1 DEF UnitSize
    <3>3. DataLo + unitAt[j] + 8 * l + 8 <= DataLo + unitAt[i] + 8 * k
        BY <2>2, <2>3, <2>5, <3>2
    <3> QED
        BY <2>4, <3>3
  \* Words of one unit: they are numbered.
  <2>8. ASSUME NEW m \in Nat, NEW p \in Nat, NEW q \in Nat
        PROVE  p = q \/ m + 8 * p + 8 <= m + 8 * q \/ m + 8 * q + 8 <= m + 8 * p
      OBVIOUS
  <2>9. CASE i = j
    <3>1. DataLo + unitAt[i] \in Nat
        BY <2>2
    <3>2. \/ k = l
          \/ DataLo + unitAt[i] + 8 * k + 8 <= DataLo + unitAt[i] + 8 * l
          \/ DataLo + unitAt[i] + 8 * l + 8 <= DataLo + unitAt[i] + 8 * k
        BY <2>3, <2>8, <3>1
    <3> QED
        BY <2>4, <2>9, <3>2
  <2> QED
      BY <2>2, <2>6, <2>7, <2>9
<1> QED
    BY <1>1, LayoutInvariance, PTL

\* The offset in its page of an aligned address is aligned.
LEMMA AlignedInPage ==
    ASSUME NEW d \in Nat, d % 16 = 0 PROVE (d % 4096) % 8 = 0
OBVIOUS

\* Every word of a built payload is aligned and in its page, whatever units
\* it has.
THEOREM WordsAreReachable == Spec => []WordsReachable
<1>1. LayoutInv => WordsReachable
  <2> SUFFICES ASSUME LayoutInv, pass \in {"code", "strings", "built"},
                      NEW i \in DOMAIN job.units, NEW k \in Words(i)
               PROVE  WordAt(i, k) % 8 = 0 /\ WordAt(i, k) + 8 <= 4096
      BY DEF WordsReachable
  <2>1. /\ job \in Jobs /\ unitAt \in [DOMAIN job.units -> Nat] /\ job.data % 16 = 0
        /\ UnitsPlaced(Len(job.units) + 1, PAGE - DataLo)
      BY DEF LayoutInv, LayoutTypeOK, DataInv
  <2>2. /\ DataLo \in Nat /\ unitAt[i] \in Nat /\ i \in Nat /\ i <= Len(job.units)
        /\ job.units[i] \in Nat /\ Len(job.units) \in Nat /\ job.data \in Nat
      BY <2>1, JobSizes DEF DataLo
  <2>3. k \in 0..job.units[i]
      BY DEF Words
  <2>4. unitAt[i] % 8 = 0 /\ unitAt[i] + UnitSize(i) <= PAGE - DataLo
      BY <2>1, <2>2 DEF UnitsPlaced
  <2>5. DataLo % 8 = 0
    <3>1. job.data \in Nat /\ job.data % 16 = 0
        BY <2>1, <2>2
    <3>2. (job.data % 4096) % 8 = 0
        BY <3>1, AlignedInPage
    <3> QED
        BY <3>2 DEF DataLo
  <2>6. ASSUME NEW m \in Nat, NEW n \in Nat, NEW q \in Nat, m % 8 = 0, n % 8 = 0
        PROVE  (m + n + 8 * q) % 8 = 0
      BY <2>6
  <2>7. WordAt(i, k) % 8 = 0
    <3>1. k \in Nat
        BY <2>2, <2>3
    <3>2. DataLo \in Nat /\ unitAt[i] \in Nat /\ unitAt[i] % 8 = 0
        BY <2>2, <2>4
    <3>3. (DataLo + unitAt[i] + 8 * k) % 8 = 0
        BY <2>5, <2>6, <3>1, <3>2
    <3>4. WordAt(i, k) = DataLo + unitAt[i] + 8 * k
        BY DEF WordAt
    <3> QED
        BY <3>3, <3>4
  <2>8. ASSUME NEW d \in Nat, NEW m \in Nat, NEW u \in Nat, NEW q \in Nat,
               m + (8 + 8 * u) <= 4096 - d, q <= u
        PROVE  d + m + 8 * q + 8 <= 4096
      BY <2>8
  <2>9. WordAt(i, k) + 8 <= 4096
    <3>1. unitAt[i] + (8 + 8 * job.units[i]) <= 4096 - DataLo
        BY <2>4 DEF UnitSize
    <3>2. k \in Nat /\ k <= job.units[i]
        BY <2>2, <2>3
    <3>3. DataLo + unitAt[i] + 8 * k + 8 <= 4096
        BY <2>2, <2>8, <3>1, <3>2
    <3>4. WordAt(i, k) = DataLo + unitAt[i] + 8 * k
        BY DEF WordAt
    <3> QED
        BY <3>3, <3>4
  <2> QED
      BY <2>7, <2>9
<1> QED
    BY <1>1, LayoutInvariance, PTL

\* The pieces of a built text do not run into each other, whatever they are.
THEOREM TextIsApart == Spec => []TextApart
<1>1. LayoutInv => TextApart
  <2> SUFFICES ASSUME LayoutInv, pass = "built" PROVE TextApart
      BY DEF TextApart
  <2>1. /\ job \in Jobs /\ BlocksPlaced(Len(job.code) + 1, cursor)
        /\ StringsPlaced(Len(job.strings) + 1, cursor)
      BY DEF LayoutInv, LayoutTypeOK, CodeInv, StringInv
  <2>2. /\ \A i \in DOMAIN job.code : i < Len(job.code) + 1
        /\ \A i \in DOMAIN job.strings : i < Len(job.strings) + 1
      BY <2>1, JobSizes
  <2> QED
      BY <2>1, <2>2 DEF TextApart, BlocksPlaced, StringsPlaced
<1> QED
    BY <1>1, LayoutInvariance, PTL

\* The passes of a build stay within their pieces.
THEOREM LayoutTypeCorrect == Spec => []LayoutTypeOK
<1>1. LayoutInv => LayoutTypeOK
    BY DEF LayoutInv
<1> QED
    BY <1>1, LayoutInvariance, PTL

-----------------------------------------------------------------------------
(***************************************************************************)
(* The end of the data.                                                    *)
(***************************************************************************)
LEMMA TightHolds == Spec => []Tight
<1>1. Init => Tight
    BY JobSizes DEF Init, Tight
<1>2. LayoutInv /\ Tight /\ [Next]_vars => Tight'
  <2> SUFFICES ASSUME LayoutInv, Tight, [Next]_vars, pass' = "data" PROVE Tight'
      BY DEF Tight
  <2>1. CASE PlaceUnit
    <3>1. /\ pass = "data" /\ job' = job /\ next \in DOMAIN job.units
          /\ next' = next + 1 /\ cursor' = cursor + UnitSize(next)
          /\ unitAt' = [unitAt EXCEPT ![next] = cursor]
          /\ job \in Jobs /\ cursor \in Nat /\ unitAt \in [DOMAIN job.units -> Nat]
        BY <2>1 DEF PlaceUnit, LayoutInv, LayoutTypeOK
    <3>2. next \in Nat \ {0} /\ next <= Len(job.units) /\ DOMAIN job.units = 1..Len(job.units)
          /\ Len(job.units) \in Nat
        BY <3>1, JobSizes, LayoutAssumption
    <3>3. next' <= Len(job.units) + 1 /\ next' # 1 /\ next' - 1 = next /\ unitAt'[next] = cursor
        BY <3>1, <3>2
    <3>4. ASSUME NEW i \in DOMAIN job.units, i < next'
          PROVE  unitAt'[i] = IF i = 1 THEN 0 ELSE unitAt'[i - 1] + UnitSize(i - 1)
      <4>1. i \in Nat \ {0} /\ i <= next
          BY <3>1, <3>2, <3>4
      <4>2. CASE i < next
          BY <3>1, <3>2, <4>1, <4>2 DEF Tight
      <4>3. CASE i = next
          BY <3>1, <3>2, <3>3, <4>1, <4>3 DEF Tight
      <4> QED BY <4>1, <4>2, <4>3, <3>2
    <3> QED BY <3>1, <3>3, <3>4 DEF Tight, UnitSize
  <2>2. CASE UNCHANGED vars
      BY <2>2 DEF vars, Tight, UnitSize
  <2>3. ~ (CheckPage \/ PlaceBlock \/ StartStrings \/ PlaceString \/ Finish)
      BY DEF CheckPage, PlaceBlock, StartStrings, PlaceString, Finish, Start, Reject
  <2> QED BY <2>1, <2>2, <2>3 DEF Next
<1> QED BY <1>1, <1>2, LayoutInvariance, PTL DEF Spec

\* The recursion of Sums.
Obeys(f, units) ==
    f = [n \in 0..Len(units) |->
            IF n = 0 THEN 0 ELSE f[n - 1] + UNIT_HEADER_SIZE + SLOT_SIZE * units[n]]

\* Sums obeys its recursion if anything does.
LEMMA SumsObeys == ASSUME NEW units, NEW g, Obeys(g, units) PROVE Obeys(Sums(units), units)
BY Zenon DEF Sums, Obeys

LEMMA ObeysAt ==
    ASSUME NEW units, NEW f, Obeys(f, units), NEW n \in 0..Len(units)
    PROVE  f[n] = IF n = 0 THEN 0 ELSE f[n - 1] + UNIT_HEADER_SIZE + SLOT_SIZE * units[n]
BY Zenon DEF Obeys

\* Whatever obeys it is, so far, the cursor: an induction over the steps of the
\* pass instead of one over the list.
CursorIsSum == pass = "data" => \A f : Obeys(f, job.units) => f[next - 1] = cursor

LEMMA CursorIsSumHolds == Spec => []CursorIsSum
<1>1. Init => CursorIsSum
  <2> SUFFICES ASSUME Init, NEW f, Obeys(f, job.units) PROVE f[next - 1] = cursor
      BY DEF CursorIsSum
  <2>1. 0 \in 0..Len(job.units) /\ next - 1 = 0 /\ cursor = 0
      BY JobSizes DEF Init
  <2> QED BY <2>1, ObeysAt
<1>2. LayoutInv /\ Tight /\ CursorIsSum /\ [Next]_vars => CursorIsSum'
  <2> SUFFICES ASSUME LayoutInv, Tight, CursorIsSum, [Next]_vars, pass' = "data",
                      NEW f, Obeys(f, job.units)'
               PROVE  f[next' - 1] = cursor'
      BY DEF CursorIsSum
  <2>1. CASE PlaceUnit
    <3>1. /\ pass = "data" /\ job' = job /\ next \in DOMAIN job.units
          /\ next' = next + 1 /\ cursor' = cursor + UnitSize(next)
          /\ job \in Jobs /\ cursor \in Nat
        BY <2>1 DEF PlaceUnit, LayoutInv, LayoutTypeOK
    <3>2. next \in Nat \ {0} /\ next <= Len(job.units) /\ Len(job.units) \in Nat /\ job.units[next] \in Nat
        BY <3>1, JobSizes
    <3>3. Obeys(f, job.units)
        BY <3>1 DEF Obeys
    <3>4. f[next - 1] = cursor
        BY <3>1, <3>3 DEF CursorIsSum
    <3>5. f[next] = f[next - 1] + 8 + 8 * job.units[next]
      <4>1. next \in 0..Len(job.units) /\ next # 0
          BY <3>2
      <4> QED BY <3>3, <4>1, ObeysAt
    <3>6. next' - 1 = next
        BY <3>1, <3>2
    <3> QED BY <3>1, <3>2, <3>4, <3>5, <3>6 DEF UnitSize
  <2>2. CASE UNCHANGED vars
      BY <2>2 DEF vars, CursorIsSum, Obeys
  <2>3. ~ (CheckPage \/ PlaceBlock \/ StartStrings \/ PlaceString \/ Finish)
      BY DEF CheckPage, PlaceBlock, StartStrings, PlaceString, Finish, Start, Reject
  <2> QED BY <2>1, <2>2, <2>3 DEF Next
<1> QED BY <1>1, <1>2, LayoutInvariance, TightHolds, PTL DEF Spec

\* After the last unit the cursor is the sum: the offsets themselves, with the
\* cursor at the end, obey the recursion.
LEMMA EndIsSum ==
    ASSUME LayoutInv, Tight, CursorIsSum, pass = "data", next \notin DOMAIN job.units
    PROVE  cursor = DataSize
<1> DEFINE L == Len(job.units)
           g == [n \in 0..L |-> IF n < L THEN unitAt[n + 1] ELSE cursor]
<1>1. /\ job \in Jobs /\ cursor \in Nat /\ unitAt \in [DOMAIN job.units -> Nat]
      /\ L \in Nat /\ DOMAIN job.units = 1..L /\ next \in Nat \ {0}
    BY JobSizes, LayoutAssumption DEF LayoutInv, LayoutTypeOK
<1>2. next = L + 1
    BY <1>1 DEF Tight
<1>3. \A n \in 0..L : g[n] = IF n < L THEN unitAt[n + 1] ELSE cursor
    OBVIOUS
<1>d. g = [n \in 0..L |-> g[n]]
    OBVIOUS
<1> HIDE DEF g
<1>4. ASSUME NEW n \in 0..L
      PROVE  g[n] = IF n = 0 THEN 0 ELSE g[n - 1] + 8 + 8 * job.units[n]
  <2>1. CASE n = 0
    <3>1. CASE L = 0
        BY <1>1, <1>2, <1>3, <2>1, <3>1 DEF Tight
    <3>2. CASE L # 0
      <4>1. 1 \in DOMAIN job.units /\ 1 < next /\ g[0] = unitAt[1]
          BY <1>1, <1>2, <1>3, <3>2
      <4> QED BY <2>1, <4>1 DEF Tight
    <3> QED BY <3>1, <3>2
  <2>2. CASE n # 0
    <3>1. n \in DOMAIN job.units /\ n - 1 \in 0..L /\ n - 1 < L /\ (n - 1) + 1 = n
        BY <1>1, <2>2
    <3>2. g[n - 1] = unitAt[n] /\ unitAt[n] \in Nat /\ job.units[n] \in Nat
        BY <1>1, <1>3, <3>1, JobSizes
    <3>3. UnitSize(n) = 8 + 8 * job.units[n]
        BY DEF UnitSize
    <3>4. g[n] = unitAt[n] + UnitSize(n)
      <4>1. CASE n < L
        <5>1. n + 1 \in DOMAIN job.units /\ n + 1 < next /\ n + 1 # 1 /\ (n + 1) - 1 = n
            BY <1>1, <1>2, <2>2, <4>1
        <5> QED BY <1>3, <4>1, <5>1 DEF Tight
      <4>2. CASE n = L
        <5>1. next # 1 /\ next - 1 = n
            BY <1>1, <1>2, <2>2, <4>2
        <5> QED BY <1>1, <1>3, <4>2, <5>1 DEF Tight
      <4> QED BY <1>1, <4>1, <4>2
    <3> QED BY <2>2, <3>2, <3>3, <3>4
  <2> QED BY <2>1, <2>2
<1>5. Obeys(g, job.units)
    BY <1>d, <1>4 DEF Obeys
<1>6. Obeys(Sums(job.units), job.units)
    BY <1>5, SumsObeys
<1>7. next - 1 = L
    BY <1>1, <1>2
<1> QED BY <1>6, <1>7 DEF CursorIsSum, DataSize

\* Phase A's data_size is where phase B's unit_offsets ends, for any number of
\* units; and a payload is refused only for a misaligned segment, data that leave
\* the page, or a block that is no whole number of instructions.
THEOREM RefusalsAreJustified == Spec => []RefusalsJustified
<1> DEFINE Reason ==
        \/ job.data % 16 # 0
        \/ DataLo + DataSize > PAGE
        \/ \E i \in DOMAIN job.code : job.code[i] % 4 # 0
           Refused == pass = "rejected" => Reason
<1>1. Init => Refused
    BY DEF Init
<1>2. LayoutInv /\ Tight /\ CursorIsSum /\ Refused /\ [Next]_vars => Refused'
  <2> SUFFICES ASSUME LayoutInv, Tight, CursorIsSum, Refused, [Next]_vars, pass' = "rejected"
               PROVE  Reason'
      OBVIOUS
  <2>1. CASE CheckPage
      BY <2>1, EndIsSum DEF CheckPage, Reject, Start, DataLo, DataSize
  <2>2. CASE PlaceBlock
      BY <2>2 DEF PlaceBlock, Reject
  <2>3. CASE UNCHANGED vars
      BY <2>3 DEF vars, DataLo, DataSize
  <2>4. ~ (PlaceUnit \/ StartStrings \/ PlaceString \/ Finish)
      BY DEF PlaceUnit, StartStrings, PlaceString, Finish
  <2> QED BY <2>1, <2>2, <2>3, <2>4 DEF Next
<1>3. LayoutInv /\ Tight /\ CursorIsSum /\ Refused => RefusalsJustified
    BY EndIsSum DEF RefusalsJustified
<1> QED BY <1>1, <1>2, <1>3, LayoutInvariance, TightHolds, CursorIsSumHolds, PTL DEF Spec
=============================================================================
