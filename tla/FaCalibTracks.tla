---------------------------- MODULE FaCalibTracks ----------------------------
(***************************************************************************)
(* For any number of channels and any width of the converter, and however  *)
(* transfers fail and calibrations are replaced: the registers and the DAC *)
(* of a channel follow its range and its offsets.                          *)
(***************************************************************************)
EXTENDS FaCalibProofs

(* The driver does not replace the samples by test data.                   *)
RealSamples == ~TestAdc

-----------------------------------------------------------------------------
(* The arithmetic of zfad_offset_to_dac(), one operation at a time.        *)

LEMMA MulMonotone ==
  ASSUME NEW a \in Int, NEW b \in Int, NEW k \in Nat, a <= b
  PROVE  a * k <= b * k
OBVIOUS

LEMMA MulInt ==
  ASSUME NEW a \in Int, NEW b \in Int
  PROVE  a * b \in Int
OBVIOUS

LEMMA DivBounds ==
  ASSUME NEW a \in Int, NEW m \in Nat \ {0}
  PROVE  /\ a \div m \in Int
         /\ (a \div m) * m <= a /\ a <= (a \div m) * m + m - 1
OBVIOUS

LEMMA DivMonotone ==
  ASSUME NEW a \in Int, NEW b \in Int, NEW m \in Nat \ {0}, a <= b
  PROVE  a \div m <= b \div m
<1> DEFINE x == a \div m
           y == b \div m
<1>1. /\ x \in Int /\ x * m <= a /\ a <= x * m + m - 1
      /\ y \in Int /\ y * m <= b /\ b <= y * m + m - 1
  BY DivBounds
<1>2. SUFFICES ASSUME y + 1 <= x PROVE FALSE
  BY <1>1
<1>3. (y + 1) * m <= x * m
  BY <1>1, <1>2, MulMonotone
<1>4. (y + 1) * m = y * m + m
  BY <1>1
<1> QED
  BY <1>1, <1>3, <1>4

(* Truncation loses less than one.                                         *)
LEMMA TruncateBounds ==
  ASSUME NEW a \in Int, NEW m \in Nat \ {0}
  PROVE  /\ Truncate(a, m) \in Int
         /\ a - m + 1 <= Truncate(a, m) * m /\ Truncate(a, m) * m <= a + m - 1
<1>1. CASE a >= 0
  BY <1>1, DivBounds DEF Truncate
<1>2. CASE ~(a >= 0)
  <2> DEFINE q == (-a) \div m
  <2>1. q \in Int /\ q * m <= -a /\ -a <= q * m + m - 1
    BY DivBounds
  <2>2. Truncate(a, m) = -q
    BY <1>2 DEF Truncate
  <2>3. (-q) * m = -(q * m)
    BY <2>1
  <2> HIDE DEF q
  <2> QED
    BY <2>1, <2>2, <2>3
<1> QED
  BY <1>1, <1>2

LEMMA TruncateMonotone ==
  ASSUME NEW a \in Int, NEW b \in Int, NEW m \in Nat \ {0}, a <= b
  PROVE  Truncate(a, m) <= Truncate(b, m)
<1>1. CASE a >= 0
  BY <1>1, DivMonotone DEF Truncate
<1>2. CASE ~(a >= 0) /\ ~(b >= 0)
  <2>1. (-b) \div m <= (-a) \div m
    BY DivMonotone
  <2>2. (-b) \div m \in Int /\ (-a) \div m \in Int
    BY DivBounds
  <2> QED
    BY <1>2, <2>1, <2>2 DEF Truncate
<1>3. CASE ~(a >= 0) /\ b >= 0
  <2>1. 0 \div m <= (-a) \div m /\ 0 \div m <= b \div m
    BY <1>3, DivMonotone
  <2>2. 0 \div m = 0
    OBVIOUS
  <2>3. (-a) \div m \in Int /\ b \div m \in Int
    BY DivBounds
  <2> QED
    BY <1>3, <2>1, <2>2, <2>3 DEF Truncate
<1> QED
  BY <1>1, <1>2, <1>3

LEMMA ClipMonotone ==
  ASSUME NEW x \in Int, NEW y \in Int, x <= y
  PROVE  Clip(x) \in Int /\ Clip(y) \in Int /\ Clip(x) <= Clip(y)
BY ScaleAssumption DEF Clip

LEMMA ClampMonotone ==
  ASSUME NEW x \in Int, NEW y \in Int, x <= y
  PROVE  Clamp(x) \in Int /\ Clamp(y) \in Int /\ Clamp(x) <= Clamp(y)
BY ScaleAssumption DEF Clamp

(* A greater offset never gives a smaller number.                          *)
LEMMA ToDacMonotone ==
  ASSUME NEW uv \in Int, NEW uw \in Int, NEW off \in Int, NEW g \in Nat, uv <= uw
  PROVE  ToDac(uv, off, g) <= ToDac(uw, off, g)
<1> USE ScaleAssumption
<1> DEFINE t(u) == Truncate(u * HALF, FULL)
           y(u) == (Clip(t(u)) + off) * g
<1>1. uv * HALF \in Int /\ uw * HALF \in Int /\ uv * HALF <= uw * HALF
  BY MulMonotone, MulInt
<1>2. t(uv) \in Int /\ t(uw) \in Int /\ t(uv) <= t(uw)
  BY <1>1, TruncateBounds, TruncateMonotone
<1> HIDE DEF t
<1>3. /\ Clip(t(uv)) \in Int /\ Clip(t(uw)) \in Int
      /\ Clip(t(uv)) <= Clip(t(uw))
  BY <1>2, ClipMonotone
<1>4. y(uv) \in Int /\ y(uw) \in Int /\ y(uv) <= y(uw)
  <2>1. Clip(t(uv)) + off <= Clip(t(uw)) + off
    BY <1>3
  <2> QED
    BY <1>3, <2>1, MulMonotone, MulInt
<1> HIDE DEF y
<1>5. /\ y(uv) \div HALF \in Int /\ y(uw) \div HALF \in Int
      /\ y(uv) \div HALF <= y(uw) \div HALF
  BY <1>4, DivMonotone, DivBounds
<1>6. Clamp(y(uv) \div HALF + HALF) <= Clamp(y(uw) \div HALF + HALF)
  <2>1. y(uv) \div HALF + HALF <= y(uw) \div HALF + HALF
    BY <1>5
  <2> QED
    BY <1>5, <2>1, ClampMonotone
<1> QED
  BY <1>6 DEF y, t, ToDac

(* The distance of two numbers, with the operators that add and scale.     *)
Within(a, b, d) == b - d <= a /\ a <= b + d

LEMMA WithinScaled ==
  ASSUME NEW a \in Int, NEW b \in Int, NEW d \in Int, NEW k \in Nat, Within(a, b, d)
  PROVE  Within(a * k, b * k, d * k)
<1>1. (b - d) * k <= a * k /\ a * k <= (b + d) * k
  BY MulMonotone DEF Within
<1>2. (b - d) * k = b * k - d * k /\ (b + d) * k = b * k + d * k
  OBVIOUS
<1>3. a * k \in Int /\ b * k \in Int /\ d * k \in Int
  BY MulInt
<1> QED
  BY <1>1, <1>2, <1>3 DEF Within

LEMMA WithinAdded ==
  ASSUME NEW a \in Int, NEW b \in Int, NEW c \in Int, NEW d \in Int, NEW e \in Int,
         Within(a, b, d), Within(b, c, e)
  PROVE  Within(a, c, d + e)
BY DEF Within

(* Truncating and clipping lose at most one, for an offset in bounds.      *)
LEMMA ClippedNear ==
  ASSUME NEW uv \in Int, InBounds(uv)
  PROVE  LET x == Clip(Truncate(uv * HALF, FULL))
         IN x \in Int /\ Within(x * FULL, uv * HALF, FULL)
<1> USE ScaleAssumption
<1> DEFINE a == uv * HALF
           t == Truncate(a, FULL)
<1>1. a \in Int
  BY MulInt
<1>2. a <= FULL * HALF
  BY MulMonotone DEF InBounds
<1> HIDE DEF a
<1>3. /\ t \in Int
      /\ a - FULL + 1 <= t * FULL /\ t * FULL <= a + FULL - 1
  BY <1>1, TruncateBounds
<1> HIDE DEF t
<1>4. CASE t = HALF
  <2>1. Clip(t) = HALF - 1 /\ (HALF - 1) * FULL = HALF * FULL - FULL
    BY <1>4 DEF Clip
  <2>2. HALF * FULL = FULL * HALF /\ HALF * FULL \in Int
    BY MulInt
  <2>3. (HALF - 1) * FULL <= a /\ a - FULL <= (HALF - 1) * FULL
    BY <1>1, <1>2, <1>3, <1>4, <2>1, <2>2
  <2>4. (HALF - 1) * FULL \in Int
    BY MulInt
  <2>5. Within((HALF - 1) * FULL, a, FULL)
    BY <1>1, <2>3, <2>4 DEF Within
  <2> QED
    BY <2>1, <2>5 DEF a, t
<1>5. CASE t # HALF
  <2>1. Clip(t) = t
    BY <1>5 DEF Clip
  <2>2. t * FULL \in Int
    BY <1>3, MulInt
  <2>3. Within(t * FULL, a, FULL)
    BY <1>1, <1>3, <2>2 DEF Within
  <2> QED
    BY <1>3, <2>1, <2>3 DEF a, t
<1> QED
  BY <1>4, <1>5

(* What is within a distance stays so when both are held to one scale.     *)
Held(x, low, high) == IF x < low THEN low ELSE IF x > high THEN high ELSE x

LEMMA WithinHeld ==
  ASSUME NEW a \in Int, NEW b \in Int, NEW d \in Nat, NEW low \in Int, NEW high \in Int,
         low <= high, Within(a, b, d)
  PROVE  Within(Held(a, low, high), Held(b, low, high), d)
BY DEF Within, Held

LEMMA ClampHeld ==
  ASSUME NEW z \in Int
  PROVE  /\ Clamp(z + HALF) \in Int
         /\ (Clamp(z + HALF) - HALF) * FULL * HALF =
              Held(z * FULL * HALF, -HALF * FULL * HALF, (HALF - 1) * FULL * HALF)
<1> USE ScaleAssumption
<1> DEFINE k == FULL * HALF
           c == Clamp(z + HALF) - HALF
<1>1. k \in Nat \ {0}
  OBVIOUS
<1>2. \A a \in Int : a * FULL * HALF = a * k /\ a * k \in Int
  OBVIOUS
<1>3. -HALF * FULL * HALF = (-HALF) * k
  OBVIOUS
<1> HIDE DEF k
<1>4. /\ c \in Int /\ c = Held(z, -HALF, HALF - 1)
      /\ Clamp(z + HALF) \in Int
  BY DEF Clamp, Held
<1>5. CASE z < -HALF
  <2>1. (z + 1) * k <= (-HALF) * k
    BY <1>1, <1>5, MulMonotone
  <2>2. (z + 1) * k = z * k + k
    BY <1>1
  <2>3. z * k < (-HALF) * k
    BY <1>1, <1>2, <2>1, <2>2
  <2>4. c = -HALF
    BY <1>4, <1>5 DEF Held
  <2> QED
    BY <1>2, <1>3, <1>4, <2>3, <2>4 DEF Held
<1>6. CASE z > HALF - 1
  <2>1. (HALF - 1 + 1) * k <= z * k
    BY <1>1, <1>6, MulMonotone
  <2>2. (HALF - 1 + 1) * k = (HALF - 1) * k + k
    BY <1>1
  <2>3. (HALF - 1) * k < z * k
    BY <1>1, <1>2, <2>1, <2>2
  <2>4. c = HALF - 1
    BY <1>4, <1>6 DEF Held
  <2>5. (-HALF) * k <= (HALF - 1) * k
    BY <1>1, MulMonotone
  <2>6. (-HALF) * k \in Int /\ (HALF - 1) * k \in Int /\ z * k \in Int
    BY <1>1, MulInt
  <2> QED
    BY <1>2, <1>3, <1>4, <2>3, <2>4, <2>5, <2>6 DEF Held
<1>7. CASE -HALF <= z /\ z <= HALF - 1
  <2>1. (-HALF) * k <= z * k /\ z * k <= (HALF - 1) * k
    BY <1>1, <1>7, MulMonotone
  <2>2. c = z
    BY <1>4, <1>7 DEF Held
  <2>3. (-HALF) * k \in Int /\ (HALF - 1) * k \in Int /\ z * k \in Int
    BY <1>1, MulInt
  <2> QED
    BY <1>2, <1>3, <1>4, <2>1, <2>2, <2>3 DEF Held
<1> QED
  BY <1>5, <1>6, <1>7

(* The DAC's number is the exact one up to its two roundings: the offset   *)
(* truncated to the DAC's unit, and the product to a whole number.         *)
LEMMA ToDacExact ==
  ASSUME NEW uv \in Int, NEW off \in Int, NEW g \in Nat, InBounds(uv)
  PROVE  Near((ToDac(uv, off, g) - HALF) * FULL * HALF, Exact(uv, off, g),
              FULL * HALF + FULL * g)
<1> USE ScaleAssumption
<1> DEFINE x == Clip(Truncate(uv * HALF, FULL))
           y == (x + off) * g
           z == y \div HALF
           e == (uv * HALF + off * FULL) * g
           d == FULL * HALF + FULL * g
<1>1. x \in Int /\ Within(x * FULL, uv * HALF, FULL)
  BY ClippedNear
<1>2. ToDac(uv, off, g) = Clamp(z + HALF)
  BY DEF ToDac
<1> HIDE DEF x
<1>3. Within(y * FULL, e, FULL * g)
  <2>1. Within((x + off) * FULL, uv * HALF + off * FULL, FULL)
    <3>1. (x + off) * FULL = x * FULL + off * FULL
      BY <1>1
    <3>2. x * FULL \in Int /\ off * FULL \in Int /\ uv * HALF \in Int
      BY <1>1, MulInt
    <3> QED
      BY <1>1, <3>1, <3>2 DEF Within
  <2>2. (x + off) * FULL \in Int /\ uv * HALF + off * FULL \in Int
    BY <1>1, MulInt
  <2>3. Within((x + off) * FULL * g, e, FULL * g)
    <3> DEFINE a == (x + off) * FULL
               b == uv * HALF + off * FULL
    <3>1. a \in Int /\ b \in Int /\ FULL \in Int /\ Within(a, b, FULL)
      BY <2>1, <2>2
    <3> HIDE DEF a, b
    <3>2. \A k \in Nat : Within(a * k, b * k, FULL * k)
      BY <3>1, WithinScaled
    <3> QED
      BY <3>2 DEF a, b
  <2>4. (x + off) * FULL * g = y * FULL
    <3>1. \A a \in Int : a * FULL * g = a * g * FULL
      OBVIOUS
    <3> QED
      BY <1>1, <3>1
  <2> QED
    BY <2>3, <2>4
<1>4. y \in Int /\ e \in Int /\ d \in Nat /\ FULL * g \in Int
  <2>1. uv * HALF + off * FULL \in Int /\ x + off \in Int
    BY <1>1, MulInt
  <2> QED
    BY <2>1, MulInt
<1> HIDE DEF y, e
<1>5. z \in Int /\ Within(z * FULL * HALF, y * FULL, FULL * HALF)
  <2>1. z \in Int /\ z * HALF <= y /\ y <= z * HALF + HALF - 1
    BY <1>4, DivBounds
  <2> HIDE DEF z
  <2>2. z * HALF \in Int
    BY <2>1, MulInt
  <2>3. Within(z * HALF, y, HALF)
    BY <1>4, <2>1, <2>2 DEF Within
  <2>4. Within(z * HALF * FULL, y * FULL, HALF * FULL)
    <3> DEFINE a == z * HALF
    <3>1. a \in Int /\ y \in Int /\ HALF \in Int /\ Within(a, y, HALF)
      BY <1>4, <2>2, <2>3
    <3> HIDE DEF a
    <3>2. \A k \in Nat : Within(a * k, y * k, HALF * k)
      BY <3>1, WithinScaled
    <3> QED
      BY <3>2 DEF a
  <2>5. z * HALF * FULL = z * FULL * HALF /\ HALF * FULL = FULL * HALF
    BY <2>1
  <2> QED
    BY <2>1, <2>4, <2>5
<1> HIDE DEF z
<1>6. Within(z * FULL * HALF, e, d)
  <2>1. z * FULL * HALF \in Int /\ y * FULL \in Int /\ FULL * HALF \in Int
    BY <1>4, <1>5, MulInt
  <2> QED
    BY <1>3, <1>4, <1>5, <2>1, WithinAdded
<1> DEFINE low == -HALF * FULL * HALF
           high == (HALF - 1) * FULL * HALF
<1>7. low \in Int /\ high \in Int /\ low <= high /\ z * FULL * HALF \in Int
  <2>1. \A a \in Int : a * FULL * HALF \in Int
    OBVIOUS
  <2>2. low <= 0 /\ 0 <= high /\ low \in Int
    OBVIOUS
  <2> QED
    BY <1>5, <2>1, <2>2
<1>8. Exact(uv, off, g) = Held(e, low, high)
  BY DEF Exact, Held, e
<1> HIDE DEF d, low, high
<1>9. Within(Held(z * FULL * HALF, low, high), Held(e, low, high), d)
  BY <1>4, <1>6, <1>7, WithinHeld
<1>10. (Clamp(z + HALF) - HALF) * FULL * HALF = Held(z * FULL * HALF, low, high)
  BY <1>5, ClampHeld DEF low, high
<1> QED
  BY <1>2, <1>8, <1>9, <1>10 DEF Within, Near, d

-----------------------------------------------------------------------------
(* The ranges.                                                             *)

(* The code's way to the calibration of a range is the hardware's need.    *)
LEMMA Needed ==
  ASSUME RealSamples
  PROVE  /\ \A range \in 0 .. 6 : NeededStanza[zfad_hw_range[range]] = CalibRange(range)
         /\ \A c \in HwCodes : NeededStanza[c] = CalibRange(RangeOf(c))
         /\ \A c \in HwCodes : NeededStanza[c] \in Stanzas
<1>1. ASSUME NEW range \in 0 .. 6
      PROVE  /\ NeededStanza[zfad_hw_range[range]] = CalibRange(range)
             /\ CalibRange(range) \in Stanzas
  <2>1. zfad_hw_range[range] \in HwCodes
    BY CodesType
  <2>2. range \in {0, 1, 2, 3, 4, 5, 6}
    OBVIOUS
  <2> QED
    BY <2>1, <2>2 DEF RealSamples, NeededStanza, zfad_hw_range, CalibRange,
                      RANGE_1V, RANGE_OPEN, RANGE_10V_CAL, Stanzas
<1>2. ASSUME NEW c \in HwCodes
      PROVE  RangeOf(c) \in 0 .. 6 /\ zfad_hw_range[RangeOf(c)] = c
  BY DEF HwCodes, RangeOf
<1> QED
  BY <1>1, <1>2

(* The DAC of a channel holds the sum of its offsets.                      *)
DacFor(ch, uv, c) ==
  LET s == calib.dac[NeededStanza[c]] IN ToDac(uv, s.offset[ch], s.gain[ch])

DacHolds(ch) ==
  InBounds(Sum(ch)) /\ code[ch] \in HwCodes /\ dac[ch] = DacFor(ch, Sum(ch), code[ch])

LEMMA AppliedHolds ==
  ASSUME RealSamples, NEW ch, NEW uv, NEW c, Applies(uv, c)
  PROVE  AppliedDac(calib, ch, uv, c, FALSE) = DacFor(ch, uv, c)
BY Needed DEF AppliedDac, Applies, DacFor

(* The inputs; the outputs; and the types they rest on.                    *)
TrackInv == IInv /\ AdcTracks /\ \A ch \in Chan \ behind : DacHolds(ch)

LEMMA WrapZero == Wrap32(0 + 0) = 0
<1>1. INT \div 2 \in Nat /\ INT \in Nat \ {0} /\ INT \div 2 <= INT - 1
  BY ScaleAssumption
<1>2. (0 + INT \div 2) % INT = INT \div 2
  BY <1>1, ModSmall
<1> QED
  BY <1>1, <1>2 DEF Wrap32

LEMMA InitTrack == ASSUME RealSamples PROVE Init => TrackInv
<1> SUFFICES ASSUME Init
             PROVE  TrackInv
  OBVIOUS
<1>1. PICK file \in Files, lost \in SUBSET Chan, old \in Word16 :
        Loaded(Verified(file), lost, old)
  BY DEF Init
<1>2. /\ 1 \in 0 .. 6 /\ zfad_hw_range[1] \in HwCodes
      /\ CalibRange(1) = 1 /\ NeededStanza[zfad_hw_range[1]] = 1
  BY Needed, CodesType DEF RealSamples, CalibRange, RANGE_OPEN, RANGE_10V_CAL
<1>3. ASSUME NEW ch \in Chan
      PROVE  InputFits(ch)
  BY <1>1, <1>2 DEF Loaded, RANGE_1V, InputFits
<1>4. ASSUME NEW ch \in Chan \ behind
      PROVE  DacHolds(ch)
  <2>1. Sum(ch) = 0
    BY <1>1, WrapZero DEF Loaded, Sum
  <2>2. InBounds(0)
    BY ScaleAssumption DEF InBounds
  <2>3. /\ ch \notin lost /\ calib = Verified(file) /\ code[ch] = zfad_hw_range[1]
        /\ dac[ch] = ToDac(0, calib.dac[1].offset[ch], calib.dac[1].gain[ch])
    BY <1>1, <1>4 DEF Loaded, RANGE_1V
  <2> QED
    BY <1>2, <2>1, <2>2, <2>3 DEF DacHolds, DacFor
<1> QED
  BY <1>3, <1>4, InitIInv DEF TrackInv, AdcTracks

(* A channel that a step leaves alone.                                     *)
LEMMA OthersHold ==
  ASSUME NEW ch \in Chan, DacHolds(ch), calib' = calib, user'[ch] = user[ch],
         zero'[ch] = zero[ch], code'[ch] = code[ch], dac'[ch] = dac[ch]
  PROVE  DacHolds(ch)'
BY DEF DacHolds, DacFor, Sum

(* zfad_apply_offset() for a sum that is in bounds, with the transfer done.*)
LEMMA ApplyHolds ==
  ASSUME RealSamples, TypeOK, NEW ch \in Chan, NEW uv, Sum(ch)' = uv,
         Applies(uv, code'[ch]), calib' = calib,
         dac'[ch] = AppliedDac(calib, ch, uv, code'[ch], FALSE)
  PROVE  DacHolds(ch)'
<1>1. dac'[ch] = DacFor(ch, uv, code'[ch])
  BY AppliedHolds
<1> QED
  BY <1>1 DEF DacHolds, DacFor, Applies

LEMMA ApplyOffsetTracks ==
  ASSUME RealSamples, TypeOK, NEW ch \in Chan, NEW c, ApplyOffset(ch, c),
         code'[ch] = c, UNCHANGED <<calib, user, zero>>, ch \notin behind'
  PROVE  DacHolds(ch)'
<1>1. PICK fail \in BOOLEAN, lost \in BOOLEAN :
        /\ dac' = [dac EXCEPT ![ch] = AppliedDac(calib, ch, Sum(ch), c, lost)]
        /\ behind' = Behind(ch, Sum(ch), c, lost)
  BY DEF ApplyOffset
<1>2. Applies(Sum(ch), c) /\ lost = FALSE
  BY <1>1 DEF Behind
<1>3. Sum(ch)' = Sum(ch)
  BY DEF Sum
<1>4. dac'[ch] = AppliedDac(calib, ch, Sum(ch), c, FALSE)
  BY <1>1, <1>2 DEF TypeOK
<1> QED
  BY <1>2, <1>3, <1>4, ApplyHolds

(* A channel whose range is refused keeps its DAC, and is behind.          *)
LEMMA SetRangeTracks ==
  ASSUME RealSamples, TrackInv, NEW ch \in Chan, NEW range, NEW c,
         SetRange(ch, range, c), UNCHANGED <<calib, user, zero>>
  PROVE  /\ \A other \in Chan \ behind' : DacHolds(other)'
         /\ \A other \in Chan \ {ch} : InputFits(other) => InputFits(other)'
<1> USE DEF TrackInv, IInv
<1>1. ASSUME NEW other \in Chan \ {ch}
      PROVE  /\ code'[other] = code[other] /\ dac'[other] = dac[other]
             /\ gain'[other] = gain[other] /\ offset'[other] = offset[other]
             /\ other \notin behind' => other \notin behind
  BY DEF SetRange, ApplyOffset, Calibrate, adcRegs, Behind, TypeOK
<1>2. ASSUME NEW other \in Chan \ {ch}, other \notin behind'
      PROVE  DacHolds(other)'
  BY <1>1, <1>2, OthersHold
<1>3. ASSUME ch \notin behind'
      PROVE  DacHolds(ch)'
  <2>1. ApplyOffset(ch, c) /\ code'[ch] = c
    BY <1>3 DEF SetRange, TypeOK
  <2> QED
    BY <1>3, <2>1, ApplyOffsetTracks
<1>4. ASSUME NEW other \in Chan \ {ch}, InputFits(other)
      PROVE  InputFits(other)'
  BY <1>1, <1>4 DEF InputFits
<1> QED
  BY <1>2, <1>3, <1>4

LEMMA NextTrack == ASSUME RealSamples PROVE TrackInv /\ [Next]_vars => TrackInv'
<1> SUFFICES ASSUME TrackInv, [Next]_vars
             PROVE  TrackInv'
  OBVIOUS
<1>0. TypeOK /\ IInv' /\ Int32 \subseteq Int
  BY NextIInv DEF TrackInv, IInv, Int32
<1>1. ASSUME NEW ch \in Chan, NEW v \in Values, UserOffset(ch, v)
      PROVE  TrackInv'
  <2>1. UNCHANGED <<calib, zero, code, adcRegs, recal>>
    BY <1>1 DEF UserOffset
  <2>2. AdcTracks'
    BY <2>1 DEF TrackInv, AdcTracks, InputFits, adcRegs
  <2>3. ASSUME NEW other \in Chan \ behind', other # ch
        PROVE  DacHolds(other)'
    <3>1. /\ other \in Chan \ behind
          /\ user'[other] = user[other] /\ dac'[other] = dac[other]
      BY <1>0, <1>1, <2>3 DEF UserOffset, Behind, TypeOK
    <3> QED
      BY <2>1, <3>1, OthersHold DEF TrackInv
  <2>4. ASSUME ch \notin behind'
        PROVE  DacHolds(ch)'
    <3> DEFINE uv == Wrap32(v + zero[ch])
    <3>1. PICK fail \in BOOLEAN, lost \in BOOLEAN :
            /\ Spi(fail, lost)
            /\ dac' = [dac EXCEPT ![ch] = AppliedDac(calib, ch, uv, code[ch], lost)]
            /\ user' = [user EXCEPT ![ch] = Kept(v, uv, code[ch], fail)]
            /\ behind' = Behind(ch, uv, code[ch], fail)
      BY <1>1 DEF UserOffset
    <3> HIDE DEF uv
    <3>2. Applies(uv, code[ch]) /\ fail = FALSE /\ lost = FALSE
      BY <2>4, <3>1 DEF Behind, Spi
    <3>3. user'[ch] = v /\ Sum(ch)' = uv
      BY <1>0, <2>1, <3>1, <3>2 DEF Kept, TypeOK, Sum, uv
    <3>4. dac'[ch] = AppliedDac(calib, ch, uv, code[ch], FALSE)
      BY <1>0, <3>1, <3>2 DEF TypeOK
    <3> QED
      BY <1>0, <2>1, <3>2, <3>3, <3>4, ApplyHolds
  <2> QED
    BY <1>0, <2>2, <2>3, <2>4 DEF TrackInv
<1>2. ASSUME NEW ch \in Chan, NEW v \in Values, ZeroOffset(ch, v)
      PROVE  TrackInv'
  <2>1. UNCHANGED <<calib, user, code, adcRegs, recal>>
    BY <1>2 DEF ZeroOffset
  <2>2. AdcTracks'
    BY <2>1 DEF TrackInv, AdcTracks, InputFits, adcRegs
  <2>3. ASSUME NEW other \in Chan \ behind', other # ch
        PROVE  DacHolds(other)'
    <3>1. /\ other \in Chan \ behind
          /\ zero'[other] = zero[other] /\ dac'[other] = dac[other]
      BY <1>0, <1>2, <2>3 DEF ZeroOffset, Behind, TypeOK
    <3> QED
      BY <2>1, <3>1, OthersHold DEF TrackInv
  <2>4. ASSUME ch \notin behind'
        PROVE  DacHolds(ch)'
    <3> DEFINE uv == Wrap32(user[ch] + v)
    <3>1. PICK fail \in BOOLEAN, lost \in BOOLEAN :
            /\ Spi(fail, lost)
            /\ dac' = [dac EXCEPT ![ch] = AppliedDac(calib, ch, uv, code[ch], lost)]
            /\ zero' = [zero EXCEPT ![ch] = Kept(v, uv, code[ch], fail)]
            /\ behind' = Behind(ch, uv, code[ch], fail)
      BY <1>2 DEF ZeroOffset
    <3> HIDE DEF uv
    <3>2. Applies(uv, code[ch]) /\ fail = FALSE /\ lost = FALSE
      BY <2>4, <3>1 DEF Behind, Spi
    <3>3. zero'[ch] = v /\ Sum(ch)' = uv
      BY <1>0, <2>1, <3>1, <3>2 DEF Kept, TypeOK, Sum, uv
    <3>4. dac'[ch] = AppliedDac(calib, ch, uv, code[ch], FALSE)
      BY <1>0, <3>1, <3>2 DEF TypeOK
    <3> QED
      BY <1>0, <2>1, <3>2, <3>3, <3>4, ApplyHolds
  <2> QED
    BY <1>0, <2>2, <2>3, <2>4 DEF TrackInv
<1>3. ASSUME NEW ch \in Chan, NEW range \in Ranges, UserRange(ch, range)
      PROVE  TrackInv'
  <2>1. range \in 0 .. 6 /\ zfad_hw_range[range] \in HwCodes
    BY InputAssumption, CodesType
  <2>2. /\ SetRange(ch, range, zfad_hw_range[range])
        /\ UNCHANGED <<calib, user, zero>> /\ recal' = recal \ {ch}
    BY <1>3 DEF UserRange
  <2>3. /\ \A other \in Chan \ behind' : DacHolds(other)'
        /\ \A other \in Chan \ {ch} : InputFits(other) => InputFits(other)'
    BY <2>2, SetRangeTracks
  <2>4. InputFits(ch)'
    <3>1. /\ CalibRange(range) \in Stanzas
          /\ NeededStanza[zfad_hw_range[range]] = CalibRange(range)
      BY <2>1, CodesType, Needed
    <3>2. /\ code'[ch] = zfad_hw_range[range]
          /\ gain'[ch] = calib.adc[CalibRange(range)].gain[ch]
          /\ offset'[ch] = calib.adc[CalibRange(range)].offset[ch] % (2 * HALF)
      BY <1>0, <2>2, <3>1 DEF SetRange, Calibrate, InputStanza, Indices, Stanzas, TypeOK
    <3> QED
      BY <2>1, <2>2, <3>1, <3>2 DEF InputFits
  <2>5. AdcTracks'
    BY <2>2, <2>3, <2>4 DEF TrackInv, AdcTracks
  <2> QED
    BY <1>0, <2>3, <2>5 DEF TrackInv
<1>4. CASE ResetOffset
  <2>1. PICK lost \in SUBSET Chan :
          /\ user' = [ch \in Chan |-> 0] /\ zero' = [ch \in Chan |-> 0]
          /\ dac' = [ch \in Chan |-> AppliedDac(calib, ch, 0, code[ch], ch \in lost)]
          /\ behind' = {ch \in Chan : ch \in lost \/ ~Applies(0, code[ch])}
          /\ UNCHANGED <<calib, code, adcRegs, recal>>
    BY <1>4 DEF ResetOffset
  <2>2. AdcTracks'
    BY <2>1 DEF TrackInv, AdcTracks, InputFits, adcRegs
  <2>3. ASSUME NEW ch \in Chan \ behind'
        PROVE  DacHolds(ch)'
    <3>1. Applies(0, code[ch]) /\ (ch \in lost) = FALSE
      BY <2>1, <2>3
    <3>2. Sum(ch)' = 0
      BY <2>1, WrapZero DEF Sum
    <3>3. dac'[ch] = AppliedDac(calib, ch, 0, code[ch], FALSE)
      BY <2>1, <3>1
    <3> QED
      BY <1>0, <2>1, <3>1, <3>2, <3>3, ApplyHolds
  <2> QED
    BY <1>0, <2>2, <2>3 DEF TrackInv
<1>5. ASSUME NEW file \in Files, WriteCalib(file)
      PROVE  TrackInv'
  BY <1>0, <1>5 DEF WriteCalib, TrackInv, AdcTracks
<1>6. ASSUME NEW ch \in Chan, ApplyCalib(ch)
      PROVE  TrackInv'
  <2>1. PICK c \in CodeAt(code[ch]) : SetRange(ch, code[ch], c)
    BY <1>6 DEF ApplyCalib
  <2>2. UNCHANGED <<calib, user, zero>> /\ recal' = recal \cup {ch}
    BY <1>6 DEF ApplyCalib
  <2>3. /\ \A other \in Chan \ behind' : DacHolds(other)'
        /\ \A other \in Chan \ {ch} : InputFits(other) => InputFits(other)'
    BY <2>1, <2>2, SetRangeTracks
  <2> QED
    BY <1>0, <2>2, <2>3 DEF TrackInv, AdcTracks
<1>7. ASSUME NEW ch \in Chan, ApplyAgain(ch)
      PROVE  TrackInv'
  <2>1. /\ ApplyOffset(ch, code[ch])
        /\ UNCHANGED <<calib, user, zero, code, adcRegs, recal>>
    BY <1>7 DEF ApplyAgain
  <2>2. AdcTracks'
    BY <2>1 DEF TrackInv, AdcTracks, InputFits, adcRegs
  <2>3. ASSUME NEW other \in Chan \ behind', other # ch
        PROVE  DacHolds(other)'
    <3>1. other \in Chan \ behind /\ dac'[other] = dac[other]
      BY <1>0, <2>1, <2>3 DEF ApplyOffset, Behind, TypeOK
    <3> QED
      BY <2>1, <3>1, OthersHold DEF TrackInv
  <2>4. ch \notin behind' => DacHolds(ch)'
    BY <1>0, <2>1, ApplyOffsetTracks
  <2> QED
    BY <1>0, <2>2, <2>3, <2>4 DEF TrackInv
<1>8. CASE UNCHANGED vars
  BY <1>0, <1>8 DEF vars, TrackInv, AdcTracks, InputFits, DacHolds, DacFor, Sum, adcRegs
<1> QED
  BY <1>1, <1>2, <1>3, <1>4, <1>5, <1>6, <1>7, <1>8 DEF Next

LEMMA SpecTrack == ASSUME RealSamples PROVE Spec => []TrackInv
BY InitTrack, NextTrack, PTL DEF Spec

-----------------------------------------------------------------------------
(* Whichever of the special and the calibrating ranges a channel has, its  *)
(* gain and offset are those of that range, unless fa_write_eeprom() was   *)
(* called since the range was chosen.                                      *)
THEOREM AdcTracksHolds == ASSUME RealSamples PROVE Spec => []AdcTracks
<1>1. TrackInv => AdcTracks
  BY DEF TrackInv
<1> QED
  BY <1>1, SpecTrack, PTL

(* The numbers of a calibration in use.                                    *)
LEMMA DacNumbers ==
  ASSUME RealSamples, TypeOK, CalibOk(calib), NEW ch \in Chan, code[ch] \in HwCodes
  PROVE  LET s == calib.dac[NeededStanza[code[ch]]]
         IN s.offset[ch] \in Int /\ s.gain[ch] \in Nat
<1> DEFINE s == calib.dac[NeededStanza[code[ch]]]
<1>1. s \in Stanza
  BY Needed DEF TypeOK, Calib
<1> HIDE DEF s
<1>2. s.gain[ch] \in Word16 /\ s.offset[ch] \in Int
  BY <1>1, StanzaNumbers
<1> QED
  BY <1>2 DEF Word16, s

(* The DAC of a channel holds the calibrated sum of its offsets, to the two*)
(* roundings of zfad_offset_to_dac(), unless that sum was refused, lost or *)
(* not acknowledged.                                                       *)
THEOREM DacTracksHolds == ASSUME RealSamples PROVE Spec => []DacTracks
<1>1. TrackInv => DacTracks
  <2> SUFFICES ASSUME TrackInv, NEW ch \in Chan \ behind
               PROVE  LET s == calib.dac[NeededStanza[code[ch]]]
                      IN Near((dac[ch] - HALF) * FULL * HALF,
                              Exact(Sum(ch), s.offset[ch], s.gain[ch]),
                              FULL * HALF + FULL * s.gain[ch])
    BY DEF DacTracks
  <2> DEFINE s == calib.dac[NeededStanza[code[ch]]]
  <2>1. TypeOK /\ CalibOk(calib) /\ DacHolds(ch)
    BY DEF TrackInv, IInv
  <2>2. s.offset[ch] \in Int /\ s.gain[ch] \in Nat /\ Sum(ch) \in Int
    BY <2>1, DacNumbers, SumType DEF DacHolds
  <2>3. dac[ch] = ToDac(Sum(ch), s.offset[ch], s.gain[ch]) /\ InBounds(Sum(ch))
    BY <2>1 DEF DacHolds, DacFor
  <2> HIDE DEF s
  <2>4. Near((dac[ch] - HALF) * FULL * HALF, Exact(Sum(ch), s.offset[ch], s.gain[ch]),
             FULL * HALF + FULL * s.gain[ch])
    BY <2>2, <2>3, ToDacExact
  <2> QED
    BY <2>4 DEF s
<1> QED
  BY <1>1, SpecTrack, PTL

(* In one range and with one calibration a greater offset never lowers the *)
(* DAC, whatever happened in between to either of the two offsets.         *)
THEOREM DacMonotonicHolds == ASSUME RealSamples PROVE Spec => DacMonotonic
<1>1. TrackInv /\ TrackInv' => Monotonic
  <2> SUFFICES ASSUME TrackInv, TrackInv', NEW ch \in (Chan \ behind) \ behind',
                      code'[ch] = code[ch], calib' = calib, Sum(ch) <= Sum(ch)'
               PROVE  dac[ch] <= dac'[ch]
    BY DEF Monotonic
  <2> DEFINE s == calib.dac[NeededStanza[code[ch]]]
  <2>1. TypeOK /\ CalibOk(calib) /\ DacHolds(ch) /\ TypeOK' /\ DacHolds(ch)'
    BY DEF TrackInv, IInv
  <2>2. s.offset[ch] \in Int /\ s.gain[ch] \in Nat /\ Sum(ch) \in Int
    BY <2>1, DacNumbers, SumType DEF DacHolds
  <2>3. Sum(ch)' \in Int
    <3>1. \A a \in Int : Wrap32(a) \in Int
      BY WrapType
    <3>2. user'[ch] \in Int /\ zero'[ch] \in Int
      BY <2>1 DEF TypeOK, Int32
    <3> QED
      BY <3>1, <3>2 DEF Sum
  <2>4. /\ dac[ch] = ToDac(Sum(ch), s.offset[ch], s.gain[ch])
        /\ dac'[ch] = ToDac(Sum(ch)', s.offset[ch], s.gain[ch])
    BY <2>1 DEF DacHolds, DacFor
  <2> HIDE DEF s
  <2> QED
    BY <2>2, <2>3, <2>4, ToDacMonotone
<1>2. [Next]_vars /\ TrackInv /\ TrackInv' => [Monotonic]_vars
  BY <1>1
<1> QED
  BY <1>2, SpecTrack, PTL DEF Spec, DacMonotonic

(* An offset other than 0 is remembered for the user only once the DAC has *)
(* got it: zfad_set_offset() resets it when the transfer fails.            *)
THEOREM AcknowledgedHolds == ASSUME RealSamples PROVE Spec => Acknowledged
<1> DEFINE Got(ch) ==
      /\ (user'[ch] # user[ch] /\ user'[ch] # 0) \/ (zero'[ch] # zero[ch] /\ zero'[ch] # 0)
      /\ Applies(Sum(ch)', code[ch])
      => dac'[ch] = DacFor(ch, Sum(ch)', code[ch])
<1>1. ASSUME TrackInv, TrackInv', [Next]_vars, NEW ch \in Chan
      PROVE  Got(ch)
  <2> SUFFICES ASSUME (user'[ch] # user[ch] /\ user'[ch] # 0)
                        \/ (zero'[ch] # zero[ch] /\ zero'[ch] # 0),
                      Applies(Sum(ch)', code[ch])
               PROVE  dac'[ch] = DacFor(ch, Sum(ch)', code[ch])
    OBVIOUS
  <2>0. TypeOK /\ TypeOK'
    BY <1>1 DEF TrackInv, IInv
  <2>1. ASSUME NEW v \in Values, NEW fail \in BOOLEAN, NEW lost \in BOOLEAN, NEW uv,
               Spi(fail, lost), uv = Sum(ch)',
               dac' = [dac EXCEPT ![ch] = AppliedDac(calib, ch, uv, code[ch], lost)],
               Kept(v, uv, code[ch], fail) # 0
        PROVE  dac'[ch] = DacFor(ch, Sum(ch)', code[ch])
    <3>1. lost = FALSE
      BY <2>1 DEF Kept, Spi
    <3> QED
      BY <2>0, <2>1, <3>1, AppliedHolds DEF TypeOK
  <2>2. ASSUME NEW other \in Chan, NEW v \in Values, UserOffset(other, v)
        PROVE  dac'[ch] = DacFor(ch, Sum(ch)', code[ch])
    <3>1. other = ch
      BY <2>0, <2>2 DEF UserOffset, TypeOK
    <3> DEFINE uv == Wrap32(v + zero[ch])
    <3>2. PICK fail \in BOOLEAN, lost \in BOOLEAN :
            /\ Spi(fail, lost) /\ zero' = zero
            /\ dac' = [dac EXCEPT ![ch] = AppliedDac(calib, ch, uv, code[ch], lost)]
            /\ user' = [user EXCEPT ![ch] = Kept(v, uv, code[ch], fail)]
      BY <2>2, <3>1 DEF UserOffset
    <3>3. Kept(v, uv, code[ch], fail) # 0 /\ Kept(v, uv, code[ch], fail) = v
      BY <2>0, <3>2 DEF Kept, TypeOK
    <3>4. uv = Sum(ch)'
      BY <2>0, <3>2, <3>3 DEF Sum, TypeOK
    <3> HIDE DEF uv
    <3> QED
      BY <2>1, <3>2, <3>3, <3>4
  <2>3. ASSUME NEW other \in Chan, NEW v \in Values, ZeroOffset(other, v)
        PROVE  dac'[ch] = DacFor(ch, Sum(ch)', code[ch])
    <3>1. other = ch
      BY <2>0, <2>3 DEF ZeroOffset, TypeOK
    <3> DEFINE uv == Wrap32(user[ch] + v)
    <3>2. PICK fail \in BOOLEAN, lost \in BOOLEAN :
            /\ Spi(fail, lost) /\ user' = user
            /\ dac' = [dac EXCEPT ![ch] = AppliedDac(calib, ch, uv, code[ch], lost)]
            /\ zero' = [zero EXCEPT ![ch] = Kept(v, uv, code[ch], fail)]
      BY <2>3, <3>1 DEF ZeroOffset
    <3>3. Kept(v, uv, code[ch], fail) # 0 /\ Kept(v, uv, code[ch], fail) = v
      BY <2>0, <3>2 DEF Kept, TypeOK
    <3>4. uv = Sum(ch)'
      BY <2>0, <3>2, <3>3 DEF Sum, TypeOK
    <3> HIDE DEF uv
    <3> QED
      BY <2>1, <3>2, <3>3, <3>4
  <2>4. CASE ResetOffset
    BY <2>4 DEF ResetOffset
  <2>5. CASE UNCHANGED <<user, zero>>
    BY <2>5
  <2> QED
    BY <1>1, <2>2, <2>3, <2>4, <2>5 DEF Next, UserRange, WriteCalib, ApplyCalib, ApplyAgain,
                                          vars
<1>2. TrackInv /\ TrackInv' /\ [Next]_vars => [\A ch \in Chan : Got(ch)]_vars
  BY <1>1
<1>3. [\A ch \in Chan : Got(ch)]_vars <=>
        [\A ch \in Chan :
           /\ (user'[ch] # user[ch] /\ user'[ch] # 0)
              \/ (zero'[ch] # zero[ch] /\ zero'[ch] # 0)
           /\ Applies(Sum(ch)', code[ch])
           => LET s == calib.dac[NeededStanza[code[ch]]]
              IN dac'[ch] = ToDac(Sum(ch)', s.offset[ch], s.gain[ch])]_vars
  BY DEF DacFor
<1> QED
  BY <1>2, <1>3, SpecTrack, PTL DEF Spec, Acknowledged
=============================================================================
