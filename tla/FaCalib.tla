------------------------------ MODULE FaCalib ------------------------------
(***************************************************************************)
(* Ranges, offsets and calibration of the input channels: what the user's  *)
(* attributes and the calibration file do to the range register, to the    *)
(* ADC's gain and offset correction and to the DAC that shifts the input.  *)
(*                                                                         *)
(* A write of an attribute is one step.  A write of the calibration file   *)
(* is not serialised with them: it copies the data, then recalibrates      *)
(* channel after channel.                                                  *)
(***************************************************************************)
EXTENDS Integers

CONSTANTS
  Chan,         (* the channels, numbers in the order the loops visit them  *)
  HALF,         (* 0x8000: half of the 16 bit scale, and a gain of one      *)
  FULL,         (* 5000000: the offset, in microvolts, of half a scale      *)
  INT,          (* the modulus of 32 bit arithmetic                         *)
  DeltaOffset, DeltaGain,
                (* FA_CALIB_MAX_DELTA_OFFSET, FA_CALIB_MAX_DELTA_GAIN       *)
  IdenTemp, DeltaTemp,
                (* the identity's temperature, FA_CALIB_MAX_DELTA_TEMP      *)
  TestAdc,      (* fa_enable_test_data_adc                                  *)
  Values,       (* the offsets users write                                  *)
  Ranges,       (* the ranges users select                                  *)
  Files,        (* the calibrations an EEPROM, or a user, may hold          *)
  Beyond,       (* what reading past zfad_hw_range[] puts into a register   *)
  Writable,     (* whether the user writes calibrations                     *)
  SpiFails      (* whether a transfer to the DAC may fail                   *)

Stanzas == 0 .. 2
Word16  == 0 .. 2 * HALF - 1
Stanza  == [offset : [Chan -> -HALF .. HALF - 1], gain : [Chan -> Word16],
            temperature : Word16]
Calib   == [adc : [Stanzas -> Stanza], dac : [Stanzas -> Stanza]]
Int32   == -(INT \div 2) .. INT - INT \div 2 - 1

ASSUME ScaleAssumption ==
  /\ Chan \subseteq Nat
  /\ HALF \in Nat \ {0} /\ FULL \in Nat \ {0} /\ INT \in Nat \ {0}
  /\ DeltaOffset \in 0 .. HALF - 1 /\ DeltaGain \in 0 .. HALF - 1
  /\ IdenTemp \in 0 .. HALF - 1 /\ DeltaTemp \in 0 .. IdenTemp

ASSUME InputAssumption ==
  /\ Values \subseteq Int32 /\ Ranges \subseteq 0 .. 6 /\ Beyond \subseteq Nat
  /\ Files \subseteq Calib
  /\ TestAdc \in BOOLEAN /\ Writable \in BOOLEAN /\ SpiFails \in BOOLEAN

VARIABLES
  calib,   (* fa->calib                                                     *)
  user,    (* fa->user_offset                                               *)
  zero,    (* fa->zero_offset                                               *)
  code,    (* the range field of each channel's control register            *)
  gain,    (* each channel's gain correction register                       *)
  offset,  (* each channel's offset correction register                     *)
  dac,     (* the value each channel's DAC was last sent                    *)
  todo,    (* channels fa_write_eeprom() has still to recalibrate           *)
  again,   (* channels whose range fa_apply_calib() has set, and whose      *)
           (* offset it still has to apply                                  *)
  recal,   (* history: channels that a written calibration was applied to,  *)
           (* or waits for, since their range was chosen                    *)
  behind   (* history: channels whose DAC did not get the last sum of their *)
           (* offsets, or got it for a calibration or a range that was      *)
           (* replaced since                                                *)

adcRegs == <<gain, offset>>
vars == <<calib, user, zero, code, gain, offset, dac, todo, again,
          recal, behind>>

-----------------------------------------------------------------------------
(* enum fa100m14b4c_input_range, and zfad_hw_range[].                      *)

RANGE_10V == 0
RANGE_1V == 1
RANGE_OPEN == 3
RANGE_10V_CAL == 4

zfad_hw_range ==
  [range \in 0 .. 6 |-> CASE range = 0 -> 69 [] range = 1 -> 17
                          [] range = 2 -> 35 [] range = 3 -> 0
                          [] range = 4 -> 68 [] range = 5 -> 64
                          [] range = 6 -> 66]

HwCodes == {zfad_hw_range[range] : range \in 0 .. 6}
Codes   == HwCodes \cup Beyond

(* zfad_convert_hw_range(), for a known code.                              *)
RangeOf(c) == CHOOSE range \in 0 .. 6 : zfad_hw_range[range] = c

(* The calibration a range uses; and the mistake of calibrating every      *)
(* special range as 1V.  Definitions named for a mistake are not used.     *)
CalibRangeNoCal(range) ==
  IF range = RANGE_OPEN \/ TestAdc \/ range >= RANGE_10V_CAL
  THEN RANGE_1V ELSE range

CalibRange(range) ==
  IF range = RANGE_OPEN \/ TestAdc THEN RANGE_1V
  ELSE IF range >= RANGE_10V_CAL THEN range - RANGE_10V_CAL ELSE range

-----------------------------------------------------------------------------
(* fa_verify_calib(): one bad number anywhere, and the identity is used.   *)

Abs(x) == IF x < 0 THEN -x ELSE x
Signed16(x) == ((x + HALF) % (2 * HALF)) - HALF
Wrap32(x) == ((x + INT \div 2) % INT) - INT \div 2

Identity == [offset |-> [ch \in Chan |-> 0], gain |-> [ch \in Chan |-> HALF],
             temperature |-> IdenTemp]

StanzaOk(s) ==
  /\ \A ch \in Chan : /\ Abs(s.offset[ch]) <= DeltaOffset
                      /\ Abs(Signed16(s.gain[ch] - HALF)) <= DeltaGain
  /\ Abs(Signed16(s.temperature - IdenTemp)) <= DeltaTemp

(* The inputs' stanzas only; a verification that reports and keeps.        *)
CalibOkAdc(cal) == \A r \in Stanzas : StanzaOk(cal.adc[r])
VerifiedKeeps(cal) == cal

CalibOk(cal) == \A r \in Stanzas : StanzaOk(cal.adc[r]) /\ StanzaOk(cal.dac[r])

Verified(cal) == IF CalibOk(cal) THEN cal
                 ELSE [adc |-> [r \in Stanzas |-> Identity],
                       dac |-> [r \in Stanzas |-> Identity]]

-----------------------------------------------------------------------------
(* zfad_offset_to_dac(): division truncates, the shift rounds down.        *)

Truncate(a, b) == IF a >= 0 THEN a \div b ELSE -((-a) \div b)
Clip(x) == IF x = HALF THEN HALF - 1 ELSE x
(* Values left to the 16 bits of the transfer, or bounded above only.      *)
ClampBy16Bits(x) == x % (2 * HALF)
ClampAbove(x) == IF x >= 2 * HALF THEN 2 * HALF - 1 ELSE x

Clamp(x) == IF x < 0 THEN 0 ELSE IF x >= 2 * HALF THEN 2 * HALF - 1 ELSE x

(* A DAC that is not corrected for its own offset.                         *)
ToDacNoOffset(uv, off, g) ==
  Clamp((Clip(Truncate(uv * HALF, FULL)) * g) \div HALF + HALF)

ToDac(uv, off, g) ==
  Clamp(((Clip(Truncate(uv * HALF, FULL)) + off) * g) \div HALF + HALF)

InBounds(uv) == -FULL <= uv /\ uv <= FULL

(* zfad_apply_offset() gets as far as the DAC.                             *)
Applies(uv, c) == InBounds(uv) /\ c \in HwCodes

(* What the DAC of a channel holds after zfad_apply_offset(), when a       *)
(* transfer, if there is one, gets lost or not.                            *)
AppliedDac(cal, ch, uv, c, lost) ==
  IF Applies(uv, c) /\ ~lost
  THEN LET s == cal.dac[CalibRange(RangeOf(c))]
       IN ToDac(uv, s.offset[ch], s.gain[ch])
  ELSE dac[ch]

Sum(ch) == Wrap32(user[ch] + zero[ch])

(* What becomes of behind when a channel's sum is applied.                 *)
Behind(ch, uv, c, missed) ==
  IF Applies(uv, c) /\ ~missed THEN behind \ {ch} ELSE behind \cup {ch}

-----------------------------------------------------------------------------
(* After fa_read_eeprom_calib() and the rest of __fa_init(): the 1V range, *)
(* no offset.  Where a transfer got lost the DAC holds what it held.       *)
Loaded(cal, lost, old) ==
  /\ calib = cal
  /\ user = [ch \in Chan |-> 0] /\ zero = [ch \in Chan |-> 0]
  /\ code = [ch \in Chan |-> zfad_hw_range[RANGE_1V]]
  /\ gain = [ch \in Chan |-> cal.adc[RANGE_1V].gain[ch]]
  /\ offset = [ch \in Chan |-> cal.adc[RANGE_1V].offset[ch] % (2 * HALF)]
  /\ dac = [ch \in Chan |->
              IF ch \in lost THEN old
              ELSE ToDac(0, cal.dac[RANGE_1V].offset[ch],
                         cal.dac[RANGE_1V].gain[ch])]
  /\ todo = {} /\ again = {} /\ recal = {} /\ behind = lost

Init ==
  \E file \in Files, lost \in SUBSET Chan, old \in Word16 :
    /\ lost # {} => SpiFails
    /\ Loaded(Verified(file), lost, old)

(* A transfer that fails did or did not reach the DAC.                     *)
Spi(fail, lost) == (fail => SpiFails) /\ (lost => fail)

(* A write of an offset attribute: refused values stay, a value the DAC    *)
(* did not acknowledge becomes 0.                                          *)
KeptAnyway(v, uv, c, fail) == v

Kept(v, uv, c, fail) == IF Applies(uv, c) /\ fail THEN 0 ELSE v

UserOffset(ch, v) ==
  \E fail, lost \in BOOLEAN :
    LET uv == Wrap32(v + zero[ch]) IN
    /\ Spi(fail, lost)
    /\ dac' = [dac EXCEPT ![ch] = AppliedDac(calib, ch, uv, code[ch], lost)]
    /\ user' = [user EXCEPT ![ch] = Kept(v, uv, code[ch], fail)]
    /\ behind' = Behind(ch, uv, code[ch], fail)
    /\ UNCHANGED <<calib, zero, code, adcRegs, todo, again, recal>>

ZeroOffset(ch, v) ==
  \E fail, lost \in BOOLEAN :
    LET uv == Wrap32(user[ch] + v) IN
    /\ Spi(fail, lost)
    /\ dac' = [dac EXCEPT ![ch] = AppliedDac(calib, ch, uv, code[ch], lost)]
    /\ zero' = [zero EXCEPT ![ch] = Kept(v, uv, code[ch], fail)]
    /\ behind' = Behind(ch, uv, code[ch], fail)
    /\ UNCHANGED <<calib, user, code, adcRegs, todo, again, recal>>

(* zfad_reset_offset().                                                    *)
ResetOffset ==
  \E lost \in SUBSET Chan :
    /\ lost # {} => SpiFails
    /\ user' = [ch \in Chan |-> 0] /\ zero' = [ch \in Chan |-> 0]
    /\ dac' = [ch \in Chan |->
                 AppliedDac(calib, ch, 0, code[ch], ch \in lost)]
    /\ behind' = {ch \in Chan : ch \in lost \/ ~Applies(0, code[ch])}
    /\ UNCHANGED <<calib, code, adcRegs, todo, again, recal>>

(* zfad_apply_offset(), with c in the range register.  Neither caller      *)
(* looks at what it returns.                                               *)
ApplyOffset(ch, c) ==
  \E fail, lost \in BOOLEAN :
    /\ Spi(fail, lost)
    /\ dac' = [dac EXCEPT ![ch] = AppliedDac(calib, ch, Sum(ch), c, lost)]
    /\ behind' = Behind(ch, Sum(ch), c, lost)

(* zfad_set_range(): the register, then the input's calibration and the    *)
(* offset, unless the index is refused: the DAC is then left with what it  *)
(* got for the range before.  The check of the index admits one too many,  *)
(* which is the DAC's first stanza.                                        *)
Indices == 0 .. 3
InputStanza(cal, r) == IF r = 3 THEN cal.dac[0] ELSE cal.adc[r]

Calibrate(ch, r) ==
  LET s == InputStanza(calib, r)
  IN /\ gain' = [gain EXCEPT ![ch] = s.gain[ch]]
     /\ offset' = [offset EXCEPT ![ch] = s.offset[ch] % (2 * HALF)]

SetRange(ch, range, c) ==
  /\ code' = [code EXCEPT ![ch] = c]
  /\ \/ /\ CalibRange(range) \in Indices
        /\ Calibrate(ch, CalibRange(range)) /\ ApplyOffset(ch, c)
     \/ /\ CalibRange(range) \notin Indices
        /\ behind' = behind \cup {ch}
        /\ UNCHANGED <<adcRegs, dac>>

UserRange(ch, range) ==
  /\ SetRange(ch, range, zfad_hw_range[range])
  /\ recal' = recal \ {ch}
  /\ UNCHANGED <<calib, user, zero, todo, again>>

(* fa_write_eeprom().                                                      *)
WriteCalib(file) ==
  /\ Writable /\ todo = {} /\ again = {}
  /\ calib' = Verified(file)
  /\ todo' = Chan /\ recal' = Chan /\ behind' = Chan
  /\ UNCHANGED <<user, zero, code, adcRegs, dac, again>>

(* fa_apply_calib() takes the register's value for the number of a range:  *)
(* read past the end, zfad_hw_range[] yields anything.                     *)
CodeAt(index) == IF index \in 0 .. 6 THEN {zfad_hw_range[index]}
                 ELSE Codes

ApplyCalib(ch) ==
  /\ again = {}
  /\ ch \in todo /\ \A other \in todo : ch <= other
  /\ \E c \in CodeAt(code[ch]) : SetRange(ch, code[ch], c)
  /\ todo' = todo \ {ch} /\ again' = {ch} /\ recal' = recal \cup {ch}
  /\ UNCHANGED <<calib, user, zero>>

(* And then applies the offset itself, whatever zfad_set_range() answered: *)
(* the DAC of a channel whose range was refused is reached here.           *)
ApplyAgain(ch) ==
  /\ ch \in again /\ again' = again \ {ch}
  /\ ApplyOffset(ch, code[ch])
  /\ UNCHANGED <<calib, user, zero, code, adcRegs, todo, recal>>

Next ==
  \/ \E ch \in Chan, v \in Values : UserOffset(ch, v) \/ ZeroOffset(ch, v)
  \/ \E ch \in Chan, range \in Ranges : UserRange(ch, range)
  \/ ResetOffset
  \/ \E file \in Files : WriteCalib(file)
  \/ \E ch \in Chan : ApplyCalib(ch) \/ ApplyAgain(ch)

Spec == Init /\ [][Next]_vars

-----------------------------------------------------------------------------
(* Properties.                                                             *)

(* The type of every variable: what is sent to the DAC fits its 16 bits.   *)
TypeOK ==
  /\ calib \in Calib
  /\ user \in [Chan -> Int32] /\ zero \in [Chan -> Int32]
  /\ code \in [Chan -> Codes]
  /\ gain \in [Chan -> Word16] /\ offset \in [Chan -> Word16]
  /\ dac \in [Chan -> Word16]
  /\ todo \subseteq Chan /\ again \subseteq Chan
  /\ recal \subseteq Chan /\ behind \subseteq Chan

Near(x, y, delta) == y - delta <= x /\ x <= y + delta

(* Whatever an EEPROM or a user holds, the calibration in use is plausible *)
(* for inputs and outputs of every channel (fa_verify_calib()): 16 bit     *)
(* differences accept no number that is far off.                           *)
CalibSane ==
  \A r \in Stanzas : \A s \in {calib.adc[r], calib.dac[r]} :
    /\ Near(s.temperature, IdenTemp, DeltaTemp)
    /\ \A ch \in Chan : /\ Near(s.offset[ch], 0, DeltaOffset)
                        /\ Near(s.gain[ch], HALF, DeltaGain)

(* However ranges change and calibrations are written, half-way through    *)
(* recalibration too, no input is amplified by an implausible gain.        *)
GainSane == \A ch \in Chan : Near(gain[ch], HALF, DeltaGain)

(* The stanza the hardware needs for each code of the range field.         *)
NeededStanza == [c \in HwCodes |-> CASE c \in {69, 68}    -> 0
                                     [] c \in {17, 64, 0} -> 1
                                     [] c \in {35, 66}    -> 2]

(* A channel's input is corrected for the range its register selects.      *)
InputFits(ch) ==
  /\ code[ch] \in HwCodes
  /\ LET s == calib.adc[NeededStanza[code[ch]]]
     IN gain[ch] = s.gain[ch] /\ offset[ch] = s.offset[ch] % (2 * HALF)

(* Whichever of the special and the calibrating ranges a channel has: its  *)
(* gain and offset are those of that range, unless a calibration was       *)
(* written since it was chosen.                                            *)
AdcTracks == \A ch \in Chan \ recal : InputFits(ch)

(* The offset, in real arithmetic and scaled by FULL * HALF, that a        *)
(* calibrated DAC should hold, within its scale.                           *)
Exact(uv, off, g) ==
  LET e == (uv * HALF + off * FULL) * g
      low == -HALF * FULL * HALF
      high == (HALF - 1) * FULL * HALF
  IN IF e < low THEN low ELSE IF e > high THEN high ELSE e

(* Unless the last sum of a channel's offsets was refused, lost, or not    *)
(* acknowledged, its DAC holds that sum for the calibration of the         *)
(* channel's range, to the two roundings.                                  *)
DacTracks ==
  \A ch \in Chan \ behind :
    LET s == calib.dac[NeededStanza[code[ch]]]
    IN Near((dac[ch] - HALF) * FULL * HALF,
            Exact(Sum(ch), s.offset[ch], s.gain[ch]),
            FULL * HALF + FULL * s.gain[ch])

(* In one range a greater offset never lowers the DAC, across truncation,  *)
(* clipping and clamping.                                                  *)
Monotonic ==
  \A ch \in (Chan \ behind) \ behind' :
    code'[ch] = code[ch] /\ calib' = calib /\ Sum(ch) <= Sum(ch)'
      => dac[ch] <= dac'[ch]

DacMonotonic == [][Monotonic]_vars

(* However transfers fail and calibrations are written, an offset other    *)
(* than 0 is remembered for the user only once the DAC has got it, as long *)
(* as it is in bounds and the range is known: otherwise it is 0 again.     *)
Acknowledged ==
  [][\A ch \in Chan :
       /\ (user'[ch] # user[ch] /\ user'[ch] # 0)
          \/ (zero'[ch] # zero[ch] /\ zero'[ch] # 0)
       /\ Applies(Sum(ch)', code[ch])
       => LET s == calib.dac[NeededStanza[code[ch]]]
          IN dac'[ch] = ToDac(Sum(ch)', s.offset[ch], s.gain[ch])]_vars

(* New calibration data take effect (driver-user.rst, calibration_data):   *)
(* once they are written the channels are corrected with them.             *)
CalibApplied ==
  todo = {} /\ again = {} => \A ch \in Chan : InputFits(ch)

(* Changing the range adjusts the offset to the new calibration            *)
(* (driver-user.rst, chN-vref): the DAC goes on to stand for the offset it *)
(* stood for.                                                              *)
RangeAdjusts ==
  [][\A ch \in Chan :
       code'[ch] # code[ch] /\ todo = {} /\ again = {} =>
         LET old == calib.dac[NeededStanza[code[ch]]]
             new == calib.dac[NeededStanza[code'[ch]]]
         IN \E uv \in -FULL .. FULL :
              /\ dac[ch] = ToDac(uv, old.offset[ch], old.gain[ch])
              /\ dac'[ch] = ToDac(uv, new.offset[ch], new.gain[ch])]_vars
=============================================================================
