------------------------------ MODULE FaThermo ------------------------------
(***************************************************************************)
(* The thermometer of the card and the readers of its temperature.  A read *)
(* fetches the result of a conversion that the read before it has ordered, *)
(* and orders the next one.  Time is counted in the shortest conversion,   *)
(* 94 ms.  Readers interleave where one sleeps; that two sequences of the  *)
(* one-wire bus itself do not mix is assumed.                              *)
(***************************************************************************)
EXTENDS Integers

CONSTANTS
  Readers,   (* who reads the attribute                                     *)
  Atomic,    (* the readers that hold a lock of ZIO's and cannot sleep      *)
  JIFFIES,   (* the modulus of jiffies                                      *)
  U32,       (* the modulus of unsigned 32 bit arithmetic                   *)
  Temps,     (* what the card may measure, in 16ths of a degree             *)
  PowerOn    (* what the thermometer holds before its first conversion      *)

(* The longest conversion takes 8; the card measures from -256 to almost   *)
(* 256 degrees at most, and no temperature above zero overflows Milli.     *)
ASSUME ThermoAssumption ==
  /\ Atomic \subseteq Readers
  /\ JIFFIES \in Nat /\ JIFFIES >= 16
  /\ U32 \in Nat /\ U32 > 8
  /\ Temps \subseteq Int
  /\ \A t \in Temps : -4096 <= t /\ t < 4096 /\ 1000 * t + 8 < U32
  /\ PowerOn \in Nat

Nobody == -1 (* no result yet, nobody asleep                               *)

VARIABLES
  now,       (* jiffies                                                     *)
  next_t,    (* fa->next_t: 0 for "never asked"                             *)
  temp,      (* fa->temp                                                    *)
  sleep,     (* for each reader the time msleep() still takes, or Nobody    *)
  got,       (* what each reader was last told, or Nobody                   *)
  scratch,   (* the thermometer's last result                               *)
  left,      (* the time until its conversion ends, 0 if there is none      *)
  bits       (* its resolution, as the bits 5 and 6 of its configuration    *)

thermoVars == <<now, next_t, temp, sleep, got, scratch, left, bits>>

(* time_before(); and a comparison that forgets the wrap.                  *)
BeforePlain(a, b) == a < b
Before(a, b) == (b - a) % JIFFIES \in 1 .. JIFFIES \div 2

(* The time a conversion takes, for a configuration.                       *)
TimeShort(cfg) == 2 ^ (cfg \div 2)
Time(cfg) == 2 ^ cfg
Longest == 3

(* The data bytes to a number, 0x1000 standing for the sign.               *)
Decoded(raw) == IF (raw \div 4096) % 2 = 1 THEN raw - 65536 ELSE raw

(* zfad_info_get(): 16ths to 1000ths, in unsigned numbers.                 *)
Milli(t) == (((t % U32) * 1000 + 8) % U32) \div 16

ThermoInit ==
  /\ now \in 0 .. JIFFIES - 1 /\ next_t = 0 /\ temp = 0
  /\ sleep = [r \in Readers |-> Nobody] /\ got = [r \in Readers |-> Nobody]
  /\ scratch = PowerOn /\ left = 0 /\ bits \in 0 .. Longest

-----------------------------------------------------------------------------
(* __temp_command_and_next_t().  An order leaves a conversion that is under *)
(* way alone.                                                              *)
Order(cfg) == /\ next_t' = (now + Time(cfg)) % JIFFIES
              /\ left' = IF left = 0 THEN 2 ^ bits ELSE left

(* What follows the wait in fa_read_temp().                                *)
Fetch(r) ==
  /\ temp' = Decoded(scratch) /\ got' = [got EXCEPT ![r] = Milli(temp')]
  /\ Order(bits) /\ sleep' = [sleep EXCEPT ![r] = Nobody]
  /\ UNCHANGED <<now, scratch, bits>>

(* The result is not there yet: who cannot sleep gets the last one.        *)
Early(r, time) ==
  IF r \in Atomic THEN got' = [got EXCEPT ![r] = Milli(temp)] /\ UNCHANGED sleep
                  ELSE sleep' = [sleep EXCEPT ![r] = time] /\ UNCHANGED got

(* A first read orders a conversion of the longest kind.                   *)
First(r) ==
  /\ next_t = 0 /\ sleep[r] = Nobody
  /\ Order(Longest) /\ Early(r, Time(Longest))
  /\ UNCHANGED <<now, temp, scratch, bits>>

Again(r) ==
  /\ next_t # 0 /\ sleep[r] = Nobody
  /\ IF Before(now, next_t)
     THEN /\ Early(r, (next_t - now) % JIFFIES)
          /\ UNCHANGED <<now, next_t, temp, scratch, left, bits>>
     ELSE Fetch(r)

(* fa->next_t may have moved meanwhile.                                    *)
Awake(r) == sleep[r] = 0 /\ Fetch(r)

(* Time passes.  Nobody lets half of the range of jiffies pass between two *)
(* reads: from then on a read would sleep for the other half.              *)
Tick ==
  /\ next_t # 0 => (now - next_t) % JIFFIES # JIFFIES \div 2 - 1
  /\ now' = (now + 1) % JIFFIES
  /\ sleep' = [r \in Readers |-> IF sleep[r] \in {Nobody, 0} THEN sleep[r]
                                 ELSE sleep[r] - 1]
  /\ left' = IF left = 0 THEN 0 ELSE left - 1
  /\ IF left = 1 THEN scratch' \in {t % 65536 : t \in Temps} ELSE UNCHANGED scratch
  /\ UNCHANGED <<next_t, temp, got, bits>>

ThermoNext == Tick \/ \E r \in Readers : First(r) \/ Again(r) \/ Awake(r)

ThermoSpec == ThermoInit /\ [][ThermoNext]_thermoVars

-----------------------------------------------------------------------------
(* No reader is told what the thermometer held before it ever measured,    *)
(* whoever orders a conversion while others wait for one, and when jiffies *)
(* wrap or next_t happens to be the mark for "never asked"; who cannot     *)
(* sleep may be told 0.  Thousandths (fa-zio-drv.c:356) are right to half  *)
(* of one, above zero.                                                     *)
Measured ==
  \A r \in Readers :
    got[r] # Nobody =>
      \/ r \in Atomic /\ got[r] = 0
      \/ \E t \in Temps : /\ got[r] = Milli(t)
                          /\ t >= 0 => 16 * got[r] - 1000 * t \in -8 .. 8

(* A reader never waits for longer than the longest conversion.            *)
ShortWait == \A r \in Readers : sleep[r] # Nobody => sleep[r] <= 2 ^ Longest
=============================================================================
