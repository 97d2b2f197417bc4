----------------------------- MODULE PixelFormat -----------------------------
(***************************************************************************)
(* npa_modern_pixfmt: the number an application that was built with FFmpeg *)
(* 4.4 gives a pixel format, to the number modern FFmpeg gives it.  Three  *)
(* of the old formats are gone, and every later one has moved.             *)
(***************************************************************************)
EXTENDS Integers, TLAPS

VAAPI_MOCO == 44
VAAPI_IDCT == 45
VAAPI == 46
XVMC == 153
LegacyNB == 198
NONE == -1

Dropped == {VAAPI_MOCO, VAAPI_IDCT, XVMC}

Modern(legacy) ==
    IF legacy \in Dropped \/ legacy < 0 THEN NONE
    ELSE IF legacy < VAAPI THEN legacy
    ELSE IF legacy <= XVMC THEN legacy - 2
    ELSE IF legacy < LegacyNB THEN legacy - 3
    ELSE NONE

\* The formats both versions have.  Modern FFmpeg numbers them without gaps, in
\* the same order, and whatever it has added comes behind them.
Kept == (0..(LegacyNB - 1)) \ Dropped
ModernKept == 0..(LegacyNB - 4)

-----------------------------------------------------------------------------
\* No format is read as another one: the mapping keeps the order of the formats
\* that were kept and leaves no number out, and there is only one such mapping.
\* It is what makes P010 (161) arrive as P010 and not as a neighbour of it.
THEOREM KeptInOrder ==
    /\ \A l \in Kept : Modern(l) \in ModernKept
    /\ \A k, l \in Kept : k < l => Modern(k) < Modern(l)
    /\ \A n \in ModernKept : \E l \in Kept : Modern(l) = n
<1> USE DEF Kept, ModernKept, Dropped, VAAPI_MOCO, VAAPI_IDCT, VAAPI, XVMC, LegacyNB, NONE
<1>1. ASSUME NEW l \in Kept PROVE Modern(l) \in ModernKept
  BY DEF Modern
<1>2. ASSUME NEW k \in Kept, NEW l \in Kept, k < l PROVE Modern(k) < Modern(l)
  BY <1>2 DEF Modern
<1>3. ASSUME NEW n \in ModernKept PROVE \E l \in Kept : Modern(l) = n
  <2>1. CASE n < 44
    <3>1. n \in Kept /\ Modern(n) = n
      BY <2>1 DEF Modern
    <3> QED BY <3>1
  <2>2. CASE 44 <= n /\ n < 151
    <3>1. n + 2 \in Kept /\ Modern(n + 2) = n
      BY <2>2 DEF Modern
    <3> QED BY <3>1
  <2>3. CASE 151 <= n
    <3>1. n + 3 \in Kept /\ Modern(n + 3) = n
      BY <2>3 DEF Modern
    <3> QED BY <3>1
  <2> QED BY <2>1, <2>2, <2>3
<1> QED BY <1>1, <1>2, <1>3

\* A format that has no modern counterpart, a negative number and a number
\* behind the old enumeration become NONE, which sws_getContext refuses.
THEOREM NothingElseMapped == \A l \in Int : Modern(l) = NONE <=> l \notin Kept
  BY DEF Modern, Kept, Dropped, VAAPI_MOCO, VAAPI_IDCT, VAAPI, XVMC, LegacyNB, NONE
=============================================================================
