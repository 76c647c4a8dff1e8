--------------------------- MODULE FaCalibProofs ---------------------------
(***************************************************************************)
(* For any number of channels, any width of the converter and any          *)
(* calibration file: the registers and the DAC get numbers of their width, *)
(* and no calibration beyond the accepted margins ever reaches an input.   *)
(***************************************************************************)
EXTENDS FaCalib, TLAPS

(* A remainder is in its range, and what is in range is its own remainder. *)
LEMMA ModRange ==
  ASSUME NEW x \in Int, NEW m \in Nat \ {0}
  PROVE  x % m \in 0 .. m - 1
OBVIOUS

LEMMA ModSmall ==
  ASSUME NEW m \in Nat \ {0}, NEW x \in 0 .. m - 1
  PROVE  x % m = x
OBVIOUS

LEMMA ModNext ==
  ASSUME NEW m \in Nat \ {0}, NEW x \in m .. 2 * m - 1
  PROVE  x % m = x - m
OBVIOUS

LEMMA Width ==
  /\ 2 * HALF \in Nat \ {0} /\ HALF \in Nat \ {0} /\ HALF <= 2 * HALF - 1
  /\ INT \div 2 \in Nat /\ INT \div 2 <= INT
BY ScaleAssumption

LEMMA WrapType ==
  ASSUME NEW x \in Int
  PROVE  Wrap32(x) \in Int32 /\ Wrap32(x) \in Int
<1>1. INT \div 2 \in Nat /\ INT \in Nat \ {0}
  BY ScaleAssumption, Width
<1>2. (x + INT \div 2) % INT \in 0 .. INT - 1
  BY <1>1, ModRange
<1> QED
  BY <1>1, <1>2 DEF Wrap32, Int32

LEMMA LowBitsType == ASSUME NEW x \in Int PROVE x % (2 * HALF) \in Word16
BY Width, ModRange DEF Word16

LEMMA ToDacType ==
  ASSUME NEW uv \in Int, NEW off \in Int, NEW g \in Int
  PROVE  ToDac(uv, off, g) \in Word16
<1>1. \A x \in Int : Clamp(x) \in Word16
  BY Width DEF Clamp, Word16
<1>2. uv * HALF \in Int
  BY ScaleAssumption
<1>3. \A a \in Int : Truncate(a, FULL) \in Int
  BY ScaleAssumption DEF Truncate
<1>4. Clip(Truncate(uv * HALF, FULL)) \in Int
  BY <1>2, <1>3, Width DEF Clip
<1>5. \A a \in Int : a \div HALF + HALF \in Int
  BY Width
<1>6. (Clip(Truncate(uv * HALF, FULL)) + off) * g \in Int
  BY <1>4
<1> QED
  BY <1>1, <1>5, <1>6 DEF ToDac

-----------------------------------------------------------------------------
(* The calibration.                                                        *)

LEMMA IdentityOk == Identity \in Stanza /\ StanzaOk(Identity)
<1>1. Identity \in Stanza
  BY ScaleAssumption DEF Identity, Stanza, Word16
<1>2. Signed16(0) = 0
  BY Width, ModSmall DEF Signed16
<1> QED
  BY <1>1, <1>2, ScaleAssumption DEF Identity, StanzaOk, Abs

LEMMA VerifiedType ==
  ASSUME NEW file \in Calib
  PROVE  Verified(file) \in Calib /\ CalibOk(Verified(file))
<1>1. CASE CalibOk(file)
  BY <1>1 DEF Verified
<1>2. CASE ~CalibOk(file)
  BY <1>2, IdentityOk DEF Verified, CalibOk, Calib
<1> QED
  BY <1>1, <1>2

(* A gain within 16 bits whose difference from one, taken as a signed 16   *)
(* bit number, is small is itself near one.                                *)
LEMMA GainNear ==
  ASSUME NEW g \in Word16, Abs(Signed16(g - HALF)) <= DeltaGain
  PROVE  Near(g, HALF, DeltaGain)
<1>1. g \in 0 .. 2 * HALF - 1
  BY DEF Word16
<1>2. Signed16(g - HALF) = g - HALF
  BY <1>1, Width, ModSmall DEF Signed16
<1> QED
  BY <1>1, <1>2, ScaleAssumption DEF Near, Abs

(* The same of a temperature, whose difference may be out of 16 bits: then *)
(* it wraps to a number below -DeltaTemp.                                  *)
LEMMA TemperatureNear ==
  ASSUME NEW t \in Word16, Abs(Signed16(t - IdenTemp)) <= DeltaTemp
  PROVE  Near(t, IdenTemp, DeltaTemp)
<1>1. t \in 0 .. 2 * HALF - 1 /\ IdenTemp \in 0 .. HALF - 1
  BY ScaleAssumption DEF Word16
<1>2. CASE t - IdenTemp + HALF < 2 * HALF
  <2>1. Signed16(t - IdenTemp) = t - IdenTemp
    BY <1>1, <1>2, Width, ModSmall DEF Signed16
  <2> QED
    BY <1>1, <2>1, ScaleAssumption DEF Near, Abs
<1>3. CASE t - IdenTemp + HALF >= 2 * HALF
  <2>1. Signed16(t - IdenTemp) = t - IdenTemp - 2 * HALF
    BY <1>1, <1>3, Width, ModNext DEF Signed16
  <2> QED
    BY <1>1, <2>1, ScaleAssumption DEF Abs
<1> QED
  BY <1>1, <1>2, <1>3, Width

LEMMA StanzaSane ==
  ASSUME NEW s \in Stanza, StanzaOk(s)
  PROVE  /\ Near(s.temperature, IdenTemp, DeltaTemp)
         /\ \A ch \in Chan : /\ Near(s.offset[ch], 0, DeltaOffset)
                             /\ Near(s.gain[ch], HALF, DeltaGain)
<1>1. Near(s.temperature, IdenTemp, DeltaTemp)
  BY TemperatureNear DEF StanzaOk, Stanza
<1>2. ASSUME NEW ch \in Chan
      PROVE  Near(s.offset[ch], 0, DeltaOffset)
  <2>1. s.offset[ch] \in Int /\ DeltaOffset \in Int
    BY ScaleAssumption DEF Stanza
  <2> QED
    BY <2>1 DEF StanzaOk, Near, Abs
<1>3. ASSUME NEW ch \in Chan
      PROVE  Near(s.gain[ch], HALF, DeltaGain)
  BY GainNear DEF StanzaOk, Stanza
<1> QED
  BY <1>1, <1>2, <1>3

LEMMA StanzaNumbers ==
  ASSUME NEW s \in Stanza, NEW ch \in Chan
  PROVE  s.gain[ch] \in Word16 /\ s.gain[ch] \in Int /\ s.offset[ch] \in Int
<1>1. Word16 \subseteq Int /\ -HALF .. HALF - 1 \subseteq Int
  BY DEF Word16
<1>2. s.gain[ch] \in Word16 /\ s.offset[ch] \in -HALF .. HALF - 1
  BY DEF Stanza
<1> QED
  BY <1>1, <1>2

LEMMA InputStanzaSane ==
  ASSUME NEW r \in Indices, calib \in Calib, CalibOk(calib)
  PROVE  InputStanza(calib, r) \in Stanza /\ StanzaOk(InputStanza(calib, r))
<1>1. CASE r = 3
  BY <1>1 DEF InputStanza, Calib, CalibOk, Stanzas
<1>2. CASE r # 3
  BY <1>2 DEF InputStanza, Calib, CalibOk, Stanzas, Indices
<1> QED
  BY <1>1, <1>2

-----------------------------------------------------------------------------
(* The codes of the range field, and the DAC.                              *)

LEMMA CodesType ==
  /\ \A range \in 0 .. 6 : /\ zfad_hw_range[range] \in HwCodes
                           /\ CalibRange(range) \in Stanzas
  /\ \A c \in HwCodes : CalibRange(RangeOf(c)) \in Stanzas
  /\ HwCodes \subseteq Codes
  /\ \A c \in Codes : CodeAt(c) \subseteq Codes
<1>1. \A range \in 0 .. 6 : zfad_hw_range[range] \in HwCodes
  BY DEF HwCodes
<1>2. \A range \in 0 .. 6 : CalibRange(range) \in Stanzas
  BY DEF CalibRange, Stanzas, RANGE_OPEN, RANGE_1V, RANGE_10V_CAL
<1>3. \A c \in HwCodes : RangeOf(c) \in 0 .. 6
  BY DEF HwCodes, RangeOf
<1>4. HwCodes \subseteq Codes
  BY DEF Codes
<1>5. \A c \in Codes : CodeAt(c) \subseteq Codes
  BY <1>1, <1>4 DEF CodeAt
<1> QED
  BY <1>1, <1>2, <1>3, <1>4, <1>5

LEMMA AppliedDacType ==
  ASSUME TypeOK, NEW cal \in Calib, NEW ch \in Chan, NEW uv \in Int, NEW c,
         NEW lost
  PROVE  AppliedDac(cal, ch, uv, c, lost) \in Word16
<1>1. dac[ch] \in Word16
  BY DEF TypeOK
<1>2. ASSUME c \in HwCodes
      PROVE  LET s == cal.dac[CalibRange(RangeOf(c))]
             IN ToDac(uv, s.offset[ch], s.gain[ch]) \in Word16
  <2> DEFINE st == cal.dac[CalibRange(RangeOf(c))]
  <2>1. st \in Stanza
    BY <1>2, CodesType DEF Calib
  <2>2. st.offset[ch] \in Int /\ st.gain[ch] \in Int
    BY <2>1, StanzaNumbers
  <2> QED
    BY <2>2, ToDacType
<1> QED
  BY <1>1, <1>2 DEF AppliedDac, Applies

LEMMA SumType ==
  ASSUME TypeOK, NEW ch \in Chan
  PROVE  /\ Int32 \subseteq Int
         /\ user[ch] \in Int /\ zero[ch] \in Int /\ Sum(ch) \in Int
<1>1. Int32 \subseteq Int
  BY DEF Int32
<1>2. user[ch] \in Int /\ zero[ch] \in Int
  BY <1>1 DEF TypeOK
<1>3. Wrap32(user[ch] + zero[ch]) \in Int32
  BY <1>2, WrapType
<1> QED
  BY <1>1, <1>2, <1>3 DEF Sum

-----------------------------------------------------------------------------
(* The inductive invariant: types, a verified calibration, and gains that  *)
(* came from one.  GainSane is not inductive without the second.           *)

IInv == TypeOK /\ CalibOk(calib) /\ GainSane

LEMMA InitIInv == Init => IInv
<1> SUFFICES ASSUME Init
             PROVE  IInv
  OBVIOUS
<1>0. PICK file \in Files, lost \in SUBSET Chan, old \in Word16 :
        Loaded(Verified(file), lost, old)
  BY DEF Init
<1> DEFINE cal == Verified(file)
<1>1. cal \in Calib /\ CalibOk(cal)
  BY InputAssumption, VerifiedType
<1> HIDE DEF cal
<1>2. /\ cal.adc[RANGE_1V] \in Stanza /\ StanzaOk(cal.adc[RANGE_1V])
      /\ cal.dac[RANGE_1V] \in Stanza
  BY <1>1 DEF Calib, CalibOk, Stanzas, RANGE_1V
<1>3. \A ch \in Chan : /\ cal.adc[RANGE_1V].gain[ch] \in Word16
                       /\ cal.adc[RANGE_1V].offset[ch] \in Int
                       /\ cal.dac[RANGE_1V].gain[ch] \in Int
                       /\ cal.dac[RANGE_1V].offset[ch] \in Int
  BY <1>2, StanzaNumbers
<1>4. /\ calib = cal /\ todo = {} /\ again = {} /\ recal = {} /\ behind \subseteq Chan
      /\ user \in [Chan -> Int32] /\ zero \in [Chan -> Int32]
  <2>1. 0 \in Int32
    BY ScaleAssumption, Width DEF Int32
  <2> QED
    BY <1>0, <2>1 DEF cal, Loaded
<1>5. code \in [Chan -> Codes]
  BY <1>0, CodesType DEF RANGE_1V, Loaded
<1>6. gain \in [Chan -> Word16] /\ offset \in [Chan -> Word16]
  BY <1>0, <1>3, LowBitsType DEF cal, Loaded
<1>7. dac \in [Chan -> Word16]
  BY <1>0, <1>3, ToDacType DEF cal, Loaded
<1>8. GainSane
  BY <1>0, <1>2, StanzaSane DEF GainSane, cal, Loaded
<1> QED
  BY <1>1, <1>4, <1>5, <1>6, <1>7, <1>8 DEF IInv, TypeOK

LEMMA ApplyOffsetType ==
  ASSUME IInv, NEW ch \in Chan, NEW c, ApplyOffset(ch, c)
  PROVE  dac' \in [Chan -> Word16]
<1>1. calib \in Calib /\ Sum(ch) \in Int
  BY SumType DEF IInv, TypeOK
<1> QED
  BY <1>1, AppliedDacType DEF IInv, ApplyOffset, TypeOK

LEMMA SetRangeIInv ==
  ASSUME IInv, NEW ch \in Chan, NEW range, NEW c \in Codes,
         SetRange(ch, range, c)
  PROVE  /\ code' \in [Chan -> Codes] /\ dac' \in [Chan -> Word16]
         /\ gain' \in [Chan -> Word16] /\ offset' \in [Chan -> Word16]
         /\ GainSane'
<1> USE DEF IInv
<1>1. code' \in [Chan -> Codes]
  BY DEF SetRange, TypeOK
<1>2. dac' \in [Chan -> Word16]
  <2>1. CASE CalibRange(range) \in Indices
    BY <2>1, ApplyOffsetType DEF SetRange
  <2>2. CASE CalibRange(range) \notin Indices
    BY <2>2 DEF SetRange, TypeOK
  <2> QED
    BY <2>1, <2>2
<1>3. CASE CalibRange(range) \in Indices
  <2> DEFINE s == InputStanza(calib, CalibRange(range))
  <2>1. s \in Stanza /\ StanzaOk(s)
    BY <1>3, InputStanzaSane DEF TypeOK
  <2>2. s.gain[ch] \in Word16 /\ s.offset[ch] \in Int
    BY <2>1 DEF Stanza
  <2>3. Near(s.gain[ch], HALF, DeltaGain)
    BY <2>1, StanzaSane
  <2>4. /\ gain' = [gain EXCEPT ![ch] = s.gain[ch]]
        /\ offset' = [offset EXCEPT ![ch] = s.offset[ch] % (2 * HALF)]
    BY <1>3 DEF SetRange, Calibrate
  <2> HIDE DEF s
  <2>5. gain' \in [Chan -> Word16] /\ offset' \in [Chan -> Word16]
    BY <2>2, <2>4, LowBitsType DEF TypeOK
  <2>6. GainSane'
    BY <2>3, <2>4 DEF GainSane, TypeOK
  <2> QED
    BY <1>1, <1>2, <2>5, <2>6
<1>4. CASE CalibRange(range) \notin Indices
  <2>1. gain' = gain /\ offset' = offset
    BY <1>4 DEF SetRange, adcRegs
  <2> QED
    BY <1>1, <1>2, <2>1 DEF TypeOK, GainSane
<1> QED
  BY <1>3, <1>4

(* What is remembered of the channels.                                     *)
LEMMA NextHistory ==
  ASSUME TypeOK, [Next]_vars
  PROVE  recal' \subseteq Chan /\ behind' \subseteq Chan
<1> USE DEF TypeOK, Behind
<1>1. ASSUME NEW ch \in Chan, NEW v \in Values, UserOffset(ch, v) \/ ZeroOffset(ch, v)
      PROVE  recal' \subseteq Chan /\ behind' \subseteq Chan
  BY <1>1 DEF UserOffset, ZeroOffset
<1>2. ASSUME NEW ch \in Chan, NEW range \in Ranges, UserRange(ch, range)
      PROVE  recal' \subseteq Chan /\ behind' \subseteq Chan
  BY <1>2 DEF UserRange, SetRange, ApplyOffset
<1>3. CASE ResetOffset
  BY <1>3 DEF ResetOffset
<1>4. ASSUME NEW file \in Files, WriteCalib(file)
      PROVE  recal' \subseteq Chan /\ behind' \subseteq Chan
  BY <1>4 DEF WriteCalib
<1>5. ASSUME NEW ch \in Chan, ApplyCalib(ch)
      PROVE  recal' \subseteq Chan /\ behind' \subseteq Chan
  BY <1>5 DEF ApplyCalib, SetRange, ApplyOffset
<1>6. ASSUME NEW ch \in Chan, ApplyAgain(ch)
      PROVE  recal' \subseteq Chan /\ behind' \subseteq Chan
  BY <1>6 DEF ApplyAgain, ApplyOffset
<1>7. CASE UNCHANGED vars
  BY <1>7 DEF vars
<1> QED
  BY <1>1, <1>2, <1>3, <1>4, <1>5, <1>6, <1>7 DEF Next

LEMMA NextIInv == IInv /\ [Next]_vars => IInv'
<1> SUFFICES ASSUME IInv, [Next]_vars
             PROVE  IInv'
  OBVIOUS
<1> USE DEF IInv
<1>0. /\ calib \in Calib /\ 0 \in Int32
      /\ recal' \subseteq Chan /\ behind' \subseteq Chan
  BY ScaleAssumption, Width, NextHistory DEF TypeOK, Int32
<1>1. ASSUME NEW ch \in Chan, NEW v \in Values, UserOffset(ch, v)
      PROVE  IInv'
  <2>1. v \in Int32 /\ v \in Int /\ zero[ch] \in Int
    BY InputAssumption, SumType
  <2>2. Wrap32(v + zero[ch]) \in Int
    BY <2>1, WrapType, SumType
  <2>3. user' \in [Chan -> Int32]
    BY <1>0, <1>1, <2>1 DEF UserOffset, TypeOK, Kept
  <2>4. dac' \in [Chan -> Word16]
    BY <1>0, <1>1, <2>2, AppliedDacType DEF UserOffset, TypeOK
  <2> QED
    BY <1>0, <1>1, <2>3, <2>4 DEF UserOffset, TypeOK, GainSane, adcRegs
<1>2. ASSUME NEW ch \in Chan, NEW v \in Values, ZeroOffset(ch, v)
      PROVE  IInv'
  <2>1. v \in Int32 /\ v \in Int /\ user[ch] \in Int
    BY InputAssumption, SumType
  <2>2. Wrap32(user[ch] + v) \in Int
    BY <2>1, WrapType, SumType
  <2>3. zero' \in [Chan -> Int32]
    BY <1>0, <1>2, <2>1 DEF ZeroOffset, TypeOK, Kept
  <2>4. dac' \in [Chan -> Word16]
    BY <1>0, <1>2, <2>2, AppliedDacType DEF ZeroOffset, TypeOK
  <2> QED
    BY <1>0, <1>2, <2>3, <2>4 DEF ZeroOffset, TypeOK, GainSane, adcRegs
<1>3. ASSUME NEW ch \in Chan, NEW range \in Ranges, UserRange(ch, range)
      PROVE  IInv'
  <2>1. range \in 0 .. 6 /\ zfad_hw_range[range] \in Codes
    BY InputAssumption, CodesType
  <2>2. SetRange(ch, range, zfad_hw_range[range])
    BY <1>3 DEF UserRange
  <2>3. UNCHANGED <<calib, user, zero, todo, again>>
    BY <1>3 DEF UserRange
  <2> QED
    BY <1>0, <2>1, <2>2, <2>3, SetRangeIInv DEF TypeOK
<1>4. CASE ResetOffset
  <2>1. user' \in [Chan -> Int32] /\ zero' \in [Chan -> Int32]
    BY <1>0, <1>4 DEF ResetOffset
  <2>2. dac' \in [Chan -> Word16]
    BY <1>0, <1>4, AppliedDacType DEF ResetOffset
  <2> QED
    BY <1>0, <1>4, <2>1, <2>2 DEF ResetOffset, TypeOK, GainSane, adcRegs
<1>5. ASSUME NEW file \in Files, WriteCalib(file)
      PROVE  IInv'
  <2>1. calib' \in Calib /\ CalibOk(calib')
    BY <1>5, InputAssumption, VerifiedType DEF WriteCalib
  <2> QED
    BY <1>0, <1>5, <2>1 DEF WriteCalib, TypeOK, GainSane, adcRegs
<1>6. ASSUME NEW ch \in Chan, ApplyCalib(ch)
      PROVE  IInv'
  <2>1. PICK c \in CodeAt(code[ch]) : SetRange(ch, code[ch], c)
    BY <1>6 DEF ApplyCalib
  <2>2. c \in Codes
    BY <2>1, CodesType DEF TypeOK
  <2>3. /\ UNCHANGED <<calib, user, zero>>
        /\ todo' \subseteq Chan /\ again' \subseteq Chan
    BY <1>6 DEF ApplyCalib, TypeOK
  <2> QED
    BY <1>0, <2>1, <2>2, <2>3, SetRangeIInv DEF TypeOK
<1>7. ASSUME NEW ch \in Chan, ApplyAgain(ch)
      PROVE  IInv'
  <2>1. dac' \in [Chan -> Word16]
    BY <1>7, ApplyOffsetType DEF ApplyAgain
  <2> QED
    BY <1>0, <1>7, <2>1 DEF ApplyAgain, TypeOK, GainSane, adcRegs
<1>8. CASE UNCHANGED vars
  BY <1>8 DEF vars, TypeOK, GainSane, adcRegs
<1> QED
  BY <1>1, <1>2, <1>3, <1>4, <1>5, <1>6, <1>7, <1>8 DEF Next

LEMMA SpecIInv == Spec => []IInv
<1> QED
  BY InitIInv, NextIInv, PTL DEF Spec

(* What is sent to the converter's 16 bit registers and to the DAC fits    *)
(* them, whatever offsets users ask for and calibrations they write.       *)
THEOREM TypeCorrect == Spec => []TypeOK
<1>1. IInv => TypeOK
  BY DEF IInv
<1> QED
  BY <1>1, SpecIInv, PTL

(* The calibration in use is plausible in every number: fa_verify_calib()  *)
(* is not deceived by differences that do not fit 16 bits.                 *)
THEOREM CalibrationSane == Spec => []CalibSane
<1>1. ASSUME IInv PROVE CalibSane
  <2>1. \A r \in Stanzas : /\ calib.adc[r] \in Stanza /\ StanzaOk(calib.adc[r])
                           /\ calib.dac[r] \in Stanza /\ StanzaOk(calib.dac[r])
    BY <1>1 DEF IInv, TypeOK, Calib, CalibOk
  <2> QED
    BY <2>1, StanzaSane DEF CalibSane
<1> QED
  BY <1>1, SpecIInv, PTL

(* No input is amplified by an implausible gain, not even by the stanza    *)
(* past the last one or halfway through a recalibration.                   *)
THEOREM InputGainSane == Spec => []GainSane
<1>1. IInv => GainSane
  BY DEF IInv
<1> QED
  BY <1>1, SpecIInv, PTL
=============================================================================
