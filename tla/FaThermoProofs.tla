--------------------------- MODULE FaThermoProofs ---------------------------
(***************************************************************************)
(* For any number of readers, with and without locks, any resolution of    *)
(* the thermometer and wherever jiffies wrap: no reader is told what the   *)
(* thermometer held before it measured, and none waits for too long.       *)
(***************************************************************************)
EXTENDS FaThermo, TLAPS

(* The time until next_t, and the time since then.                         *)
Ahead == (next_t - now) % JIFFIES
Since == (now - next_t) % JIFFIES

Raw == {t % 65536 : t \in Temps}

ThermoType ==
  /\ now \in 0 .. JIFFIES - 1 /\ next_t \in 0 .. JIFFIES - 1
  /\ bits \in 0 .. Longest /\ left \in 0 .. 8
  /\ temp \in Temps \cup {0} /\ scratch \in Raw \cup {PowerOn}
  /\ sleep \in [Readers -> Nobody .. 8] /\ got \in [Readers -> Int]

(* The mark is ahead by one conversion at most, or not ahead at all.       *)
NearMark == next_t # 0 => Ahead \in 0 .. 8 \/ Since < JIFFIES \div 2

(* As long as nothing was measured, whoever waits and whoever comes waits  *)
(* for the conversion under way to end.                                    *)
WaitsLong ==
  scratch \notin Raw =>
    /\ \A r \in Readers : sleep[r] # Nobody => left > 0 /\ left <= sleep[r]
    /\ next_t # 0 => left > 0 /\ left <= Ahead /\ Ahead <= 8

ThermoInv == ThermoType /\ NearMark /\ WaitsLong /\ Measured

-----------------------------------------------------------------------------
(* Arithmetic.                                                             *)

LEMMA ModWindow ==
  ASSUME NEW m \in Nat \ {0}, NEW x \in -m .. 2 * m - 1
  PROVE  x % m = IF x < 0 THEN x + m ELSE IF x >= m THEN x - m ELSE x
<1>1. CASE x < 0
  <2>1. x + m \in 0 .. m - 1
    BY <1>1
  <2>2. x % m = (x + m) % m /\ (x + m) % m = x + m
    BY <2>1
  <2> QED
    BY <1>1, <2>2
<1>2. CASE x >= m
  <2>1. x - m \in 0 .. m - 1
    BY <1>2
  <2> QED
    BY <1>2, <2>1
<1>3. CASE 0 <= x /\ x < m
  BY <1>3
<1> QED
  BY <1>1, <1>2, <1>3

(* How far it is from one time to another.                                 *)
LEMMA FromTo ==
  ASSUME NEW a \in 0 .. JIFFIES - 1, NEW b \in 0 .. JIFFIES - 1
  PROVE  (b - a) % JIFFIES = IF a <= b THEN b - a ELSE b - a + JIFFIES
<1> DEFINE d == b - a
<1>1. JIFFIES \in Nat \ {0} /\ a \in Int /\ b \in Int
  BY ThermoAssumption, SMT
<1>2. /\ d \in -JIFFIES .. 2 * JIFFIES - 1 /\ ~(d >= JIFFIES)
      /\ d < 0 <=> ~(a <= b)
  BY <1>1, SMT
<1>3. d % JIFFIES = IF d < 0 THEN d + JIFFIES
                    ELSE IF d >= JIFFIES THEN d - JIFFIES ELSE d
  <2> HIDE DEF d
  <2> QED
    BY <1>1, <1>2, ModWindow, Zenon
<1> QED
  BY <1>2, <1>3, Zenon

(* A time that is a while after another one.                               *)
LEMMA After ==
  ASSUME NEW a \in 0 .. JIFFIES - 1, NEW k \in 1 .. 8
  PROVE  /\ (a + k) % JIFFIES \in 0 .. JIFFIES - 1
         /\ (a + k) % JIFFIES = IF a + k >= JIFFIES THEN a + k - JIFFIES ELSE a + k
         /\ (((a + k) % JIFFIES) - a) % JIFFIES = k
<1>1. JIFFIES \in Nat \ {0} /\ JIFFIES >= 16 /\ a \in Int /\ k \in Int
  BY ThermoAssumption, SMT
<1>2. PICK x \in Int : x = a + k
  BY <1>1, SMT
<1>3. (a + k) % JIFFIES = IF a + k >= JIFFIES THEN a + k - JIFFIES ELSE a + k
  <2>1. x \in -JIFFIES .. 2 * JIFFIES - 1 /\ ~(x < 0)
    BY <1>1, <1>2, SMT
  <2>2. x % JIFFIES = IF x < 0 THEN x + JIFFIES
                      ELSE IF x >= JIFFIES THEN x - JIFFIES ELSE x
    BY <1>1, <2>1, ModWindow, Zenon
  <2>3. x % JIFFIES = IF x >= JIFFIES THEN x - JIFFIES ELSE x
    BY <2>1, <2>2, SMT
  <2> QED
    BY <1>1, <1>2, <2>3, SMT
<1>4. PICK w \in Int : w = (a + k) % JIFFIES
  BY <1>1, <1>3, SMT
<1>5. w = IF a + k >= JIFFIES THEN a + k - JIFFIES ELSE a + k
  BY <1>3, <1>4, Zenon
<1>6. w \in 0 .. JIFFIES - 1
  BY <1>1, <1>5, SMT
<1>7. (w - a) % JIFFIES = IF a <= w THEN w - a ELSE w - a + JIFFIES
  BY <1>6, FromTo, Zenon
<1>8. (w - a) % JIFFIES = k
  BY <1>1, <1>5, <1>6, <1>7, SMT
<1> QED
  BY <1>4, <1>5, <1>6, <1>8, Zenon

(* The time a conversion takes.                                            *)
LEMMA TimeIs ==
  /\ Longest = 3 /\ 2 ^ Longest = 8 /\ Time(Longest) = 8
  /\ \A cfg \in 0 .. Longest : Time(cfg) \in 1 .. 8 /\ 2 ^ cfg \in 1 .. 8
<1>1. 2 ^ 0 = 1 /\ 2 ^ 1 = 2 /\ 2 ^ 2 = 4 /\ 2 ^ 3 = 8
  OBVIOUS
<1>2. \A cfg \in 0 .. 3 : cfg = 0 \/ cfg = 1 \/ cfg = 2 \/ cfg = 3
  OBVIOUS
<1> QED
  BY <1>1, <1>2 DEF Longest, Time

(* The data bytes give back the temperature they stand for.                *)
LEMMA DecodedRaw ==
  ASSUME NEW t \in Temps
  PROVE  Decoded(t % 65536) = t
<1>1. t \in Int /\ t >= -4096 /\ t < 4096
  BY ThermoAssumption, SMT
<1>2. CASE t < 0
  <2>1. t % 65536 = t + 65536 /\ (t + 65536) \div 4096 = 15
    BY <1>1, <1>2, SMT
  <2> QED
    BY <1>1, <2>1, SMT DEF Decoded
<1>3. CASE ~(t < 0)
  <2>1. t % 65536 = t /\ t \div 4096 = 0
    BY <1>1, <1>3, SMT
  <2> QED
    BY <2>1, SMT DEF Decoded
<1> QED
  BY <1>2, <1>3

LEMMA RawDecoded ==
  ASSUME NEW raw \in Raw
  PROVE  Decoded(raw) \in Temps
BY DecodedRaw, SMT DEF Raw

(* v thousandths stand for t 16ths to half of one, above zero.             *)
Right(t, v) == t >= 0 => 16 * v - 1000 * t \in -8 .. 8

LEMMA MilliRight ==
  /\ Milli(0) = 0
  /\ \A t \in Temps \cup {0} :
       Milli(t) \in Int /\ Right(t, Milli(t))
<1>1. U32 \in Nat \ {0} /\ U32 > 8
  BY ThermoAssumption, SMT
<1>2. ASSUME NEW t \in Int, t >= 0, 1000 * t + 8 < U32
      PROVE  Milli(t) = (1000 * t + 8) \div 16
  <2>1. t % U32 = t /\ (1000 * t + 8) % U32 = 1000 * t + 8
    BY <1>1, <1>2, SMT
  <2>2. t * 1000 + 8 = 1000 * t + 8
    BY SMT
  <2> QED
    BY <2>1, <2>2, SMT DEF Milli
<1>3. ASSUME NEW t \in Int, t >= 0
      PROVE  16 * ((1000 * t + 8) \div 16) - 1000 * t \in -8 .. 8
  BY <1>3, SMT
<1>4. Milli(0) = 0
  BY <1>1, <1>2, SMT
<1>5. ASSUME NEW t \in Int
      PROVE  Milli(t) \in Int
  BY <1>1, SMT DEF Milli
<1>6. \A t \in Temps \cup {0} : t \in Int /\ 1000 * t + 8 < U32
  BY <1>1, ThermoAssumption, SMT
<1>7. ASSUME NEW t \in Temps \cup {0}
      PROVE  Right(t, Milli(t))
  <2>1. ASSUME t >= 0
        PROVE  16 * Milli(t) - 1000 * t \in -8 .. 8
    <3>1. Milli(t) = (1000 * t + 8) \div 16
      BY <1>2, <1>6, <2>1, SMT
    <3> QED
      BY <1>3, <1>6, <2>1, <3>1, SMT
  <2> QED
    BY <2>1 DEF Right
<1>8. ASSUME NEW t \in Temps \cup {0}
      PROVE  Milli(t) \in Int
  <2>1. t \in Int
    BY <1>6
  <2> QED
    BY <1>5, <2>1, Zenon
<1> QED
  BY <1>4, <1>7, <1>8, Zenon

-----------------------------------------------------------------------------
(* The steps.                                                              *)

(* Where the mark is, seen from now.                                       *)
LEMMA MarkIs ==
  ASSUME ThermoType
  PROVE  /\ Ahead = IF now <= next_t THEN next_t - now ELSE next_t - now + JIFFIES
         /\ Since = IF next_t <= now THEN now - next_t ELSE now - next_t + JIFFIES
<1>1. now \in 0 .. JIFFIES - 1 /\ next_t \in 0 .. JIFFIES - 1
  BY Zenon DEF ThermoType
<1> QED
  BY <1>1, FromTo, Zenon DEF Ahead, Since

(* An order puts the mark as far ahead as it says, and there is a          *)
(* conversion under way: the one that was, or a new one.                   *)
LEMMA OrderAhead ==
  ASSUME ThermoType, NEW cfg \in 0 .. Longest, Order(cfg), now' = now
  PROVE  /\ next_t' \in 0 .. JIFFIES - 1 /\ Ahead' = Time(cfg)
         /\ left' \in 1 .. 8 /\ (left > 0 => left' = left)
<1>1. Time(cfg) \in 1 .. 8
  BY TimeIs, Zenon
<1>2. 2 ^ bits \in 1 .. 8 /\ left \in 0 .. 8 /\ now \in 0 .. JIFFIES - 1
  BY TimeIs, Zenon DEF ThermoType
<1>3. /\ next_t' = (now + Time(cfg)) % JIFFIES
      /\ left' = IF left = 0 THEN 2 ^ bits ELSE left
  BY Zenon DEF Order
<1>4. next_t' \in 0 .. JIFFIES - 1 /\ (next_t' - now) % JIFFIES = Time(cfg)
  BY <1>1, <1>2, <1>3, After, Zenon
<1>5. left' \in 1 .. 8 /\ (left > 0 => left' = left)
  BY <1>2, <1>3, SMT
<1> QED
  BY <1>4, <1>5, Zenon DEF Ahead

(* A tick brings the mark nearer, or leaves it further behind.             *)
LEMMA TickMark ==
  ASSUME ThermoType, Tick
  PROVE  /\ now' \in 0 .. JIFFIES - 1 /\ next_t' = next_t
         /\ Ahead > 0 => Ahead' = Ahead - 1
         /\ Since < JIFFIES \div 2 - 1 => Since' = Since + 1
<1>1. /\ now \in 0 .. JIFFIES - 1 /\ next_t \in 0 .. JIFFIES - 1
      /\ now' = (now + 1) % JIFFIES /\ next_t' = next_t
  BY SMT DEF ThermoType, Tick
<1>2. 1 \in 1 .. 8
  BY SMT
<1>3. /\ now' \in 0 .. JIFFIES - 1
      /\ now' = IF now + 1 >= JIFFIES THEN now + 1 - JIFFIES ELSE now + 1
  BY <1>1, <1>2, After, Zenon
<1>4. /\ Ahead' = IF now' <= next_t THEN next_t - now' ELSE next_t - now' + JIFFIES
      /\ Since' = IF next_t <= now' THEN now' - next_t ELSE now' - next_t + JIFFIES
  BY <1>1, <1>3, FromTo, Zenon DEF Ahead, Since
<1>5. JIFFIES \in Nat /\ JIFFIES >= 16
  BY ThermoAssumption, SMT
<1> QED
  BY <1>1, <1>3, <1>4, <1>5, MarkIs, SMT

(* A mark that is near is ahead by the rules of jiffies just when it is    *)
(* ahead by one conversion at most.                                        *)
LEMMA BeforeNear ==
  ASSUME ThermoType, NearMark, next_t # 0
  PROVE  IF Before(now, next_t) THEN Ahead \in 1 .. 8 ELSE Ahead \notin 1 .. 8
<1>1. /\ now \in 0 .. JIFFIES - 1 /\ next_t \in 0 .. JIFFIES - 1
      /\ JIFFIES \in Nat /\ JIFFIES >= 16
  BY ThermoAssumption, SMT DEF ThermoType
<1>2. Ahead \in 0 .. 8 \/ Since < JIFFIES \div 2
  BY Zenon DEF NearMark
<1>3. Before(now, next_t) <=> Ahead \in 1 .. JIFFIES \div 2
  BY Zenon DEF Before, Ahead
<1>4. Ahead \in Int /\ Since \in Int
  BY <1>1, MarkIs, SMT
<1>5. JIFFIES \div 2 \in Int /\ 2 * (JIFFIES \div 2) <= JIFFIES /\ 8 <= JIFFIES \div 2
  BY <1>1, SMT
<1>6. Ahead \in 1 .. JIFFIES \div 2 => Ahead \in 1 .. 8
  BY <1>1, <1>2, <1>4, <1>5, MarkIs, SMT
<1>7. Ahead \in 1 .. 8 => Ahead \in 1 .. JIFFIES \div 2
  BY <1>4, <1>5, SMT
<1> QED
  BY <1>3, <1>6, <1>7, Zenon

LEMMA InitThermo == ThermoInit => ThermoInv
<1> SUFFICES ASSUME ThermoInit PROVE ThermoInv
  OBVIOUS
<1>1. ThermoType
  BY ThermoAssumption, SMT DEF ThermoInit, ThermoType, Nobody
<1>2. NearMark /\ WaitsLong /\ Measured
  BY SMT DEF ThermoInit, NearMark, WaitsLong, Measured, Nobody
<1> QED
  BY <1>1, <1>2, Zenon DEF ThermoInv

(* A reader is told v after something was measured, or has a lock.         *)
Told(r, v) == \/ r \in Atomic /\ v = 0
              \/ \E t \in Temps : v = Milli(t) /\ Right(t, v)

LEMMA MeasuredTold ==
  /\ Measured <=> \A r \in Readers : got[r] # Nobody => Told(r, got[r])
  /\ \A r \in Readers : \A t \in Temps : Told(r, Milli(t))
  /\ \A r \in Atomic : Told(r, Milli(0))
<1>1. Measured <=> \A r \in Readers : got[r] # Nobody => Told(r, got[r])
  BY SMT DEF Measured, Told, Right
<1>2. \A r \in Readers : \A t \in Temps : Told(r, Milli(t))
  BY MilliRight, Zenon DEF Told
<1>3. \A r \in Atomic : Told(r, Milli(0))
  BY MilliRight, Zenon DEF Told
<1> QED
  BY <1>1, <1>2, <1>3, Zenon

(* Who comes early is told the last result or waits for the conversion     *)
(* under way.                                                              *)
LEMMA EarlyKeeps ==
  ASSUME ThermoInv, NEW r \in Readers, NEW time \in 1 .. 8, Early(r, time),
         left > 0 => left' = left,
         scratch \notin Raw => left' > 0 /\ left' <= time
  PROVE  /\ sleep' \in [Readers -> Nobody .. 8] /\ got' \in [Readers -> Int]
         /\ scratch \notin Raw =>
              \A q \in Readers : sleep'[q] # Nobody => left' > 0 /\ left' <= sleep'[q]
         /\ \A q \in Readers : got'[q] # Nobody => Told(q, got'[q])
<1>1. /\ temp \in Temps \cup {0}
      /\ sleep \in [Readers -> Nobody .. 8] /\ got \in [Readers -> Int]
      /\ Measured
  BY Zenon DEF ThermoInv, ThermoType
<1>2. scratch \notin Raw =>
        \A q \in Readers : sleep[q] # Nobody => left > 0 /\ left <= sleep[q]
  BY Zenon DEF ThermoInv, WaitsLong
<1>3. Milli(temp) \in Int
  BY <1>1, MilliRight, Zenon
<1>4. CASE r \in Atomic
  <2>1. got' = [got EXCEPT ![r] = Milli(temp)] /\ sleep' = sleep
    BY <1>4, Zenon DEF Early
  <2>2. got' \in [Readers -> Int]
    BY <1>1, <1>3, <2>1, Zenon
  <2>3. Told(r, Milli(temp))
    BY <1>1, <1>4, MeasuredTold, Zenon
  <2>4. \A q \in Readers : got'[q] # Nobody => Told(q, got'[q])
    <3>1. \A q \in Readers : got'[q] = IF q = r THEN Milli(temp) ELSE got[q]
      BY <1>1, <2>1, Zenon
    <3> QED
      BY <1>1, <2>3, <3>1, MeasuredTold, Zenon
  <2>5. \A q \in Readers : sleep[q] # Nobody /\ scratch \notin Raw =>
           left' > 0 /\ left' <= sleep[q]
    BY <1>2, Zenon
  <2> QED
    BY <1>1, <2>1, <2>2, <2>4, <2>5, Zenon
<1>5. CASE r \notin Atomic
  <2>1. sleep' = [sleep EXCEPT ![r] = time] /\ got' = got
    BY <1>5, Zenon DEF Early
  <2>2. time \in Nobody .. 8
    BY SMT DEF Nobody
  <2>3. sleep' \in [Readers -> Nobody .. 8]
    BY <1>1, <2>1, <2>2, Zenon
  <2>4. \A q \in Readers : sleep'[q] = IF q = r THEN time ELSE sleep[q]
    BY <1>1, <2>1, Zenon
  <2>5. scratch \notin Raw =>
          \A q \in Readers : sleep'[q] # Nobody => left' > 0 /\ left' <= sleep'[q]
    BY <1>2, <2>4, Zenon
  <2>6. \A q \in Readers : got'[q] # Nobody => Told(q, got'[q])
    BY <1>1, <2>1, MeasuredTold, Zenon
  <2> QED
    BY <1>1, <2>1, <2>3, <2>5, <2>6, Zenon
<1> QED
  BY <1>4, <1>5, Zenon

(* A reader fetches only what was measured.                                *)
LEMMA FetchKeeps ==
  ASSUME ThermoInv, NEW r \in Readers, Fetch(r), scratch \in Raw
  PROVE  ThermoInv'
<1>1. /\ temp' = Decoded(scratch) /\ got' = [got EXCEPT ![r] = Milli(temp')]
      /\ Order(bits) /\ sleep' = [sleep EXCEPT ![r] = Nobody]
      /\ now' = now /\ scratch' = scratch /\ bits' = bits
  BY Zenon DEF Fetch
<1>2. /\ now \in 0 .. JIFFIES - 1 /\ bits \in 0 .. Longest
      /\ sleep \in [Readers -> Nobody .. 8] /\ got \in [Readers -> Int]
      /\ ThermoType /\ Measured
  BY Zenon DEF ThermoInv, ThermoType
<1>3. /\ next_t' \in 0 .. JIFFIES - 1 /\ Ahead' = Time(bits) /\ Time(bits) \in 1 .. 8
      /\ left' \in 1 .. 8
  BY <1>1, <1>2, OrderAhead, TimeIs, Zenon
<1>4. PICK t \in Temps : temp' = t
  BY <1>1, RawDecoded, Zenon
<1>5. got' = [got EXCEPT ![r] = Milli(t)] /\ Milli(t) \in Int
  BY <1>1, <1>4, MilliRight, Zenon
<1>6. ThermoType'
  <2>1. Nobody \in Nobody .. 8 /\ left' \in 0 .. 8
    BY <1>3, SMT DEF Nobody
  <2>2. sleep' \in [Readers -> Nobody .. 8] /\ got' \in [Readers -> Int]
    BY <1>1, <1>2, <1>5, <2>1, Zenon
  <2> QED
    BY <1>1, <1>2, <1>3, <1>4, <2>1, <2>2, Zenon DEF ThermoType
<1>7. NearMark'
  BY <1>3, SMT DEF NearMark
<1>8. WaitsLong'
  BY <1>1, Zenon DEF WaitsLong
<1>9. Measured'
  <2>1. \A q \in Readers : got'[q] = IF q = r THEN Milli(t) ELSE got[q]
    BY <1>2, <1>5, Zenon
  <2>2. \A q \in Readers : got'[q] # Nobody => Told(q, got'[q])
    BY <1>2, <2>1, MeasuredTold, Zenon
  <2> QED
    BY <2>2, SMT DEF Measured, Told, Right
<1> QED
  BY <1>6, <1>7, <1>8, <1>9, Zenon DEF ThermoInv

LEMMA FirstKeeps ==
  ASSUME ThermoInv, NEW r \in Readers, First(r)
  PROVE  ThermoInv'
<1>1. /\ next_t = 0 /\ Order(Longest) /\ Early(r, Time(Longest))
      /\ now' = now /\ temp' = temp /\ scratch' = scratch /\ bits' = bits
  BY Zenon DEF First
<1>2. /\ now \in 0 .. JIFFIES - 1 /\ bits \in 0 .. Longest
      /\ temp \in Temps \cup {0} /\ scratch \in Raw \cup {PowerOn}
      /\ ThermoType
  BY Zenon DEF ThermoInv, ThermoType
<1>3. Longest \in 0 .. Longest /\ Time(Longest) = 8 /\ 8 \in 1 .. 8
  BY TimeIs, SMT DEF Longest
<1>4. /\ next_t' \in 0 .. JIFFIES - 1 /\ Ahead' = 8
      /\ left' \in 1 .. 8 /\ (left > 0 => left' = left)
  BY <1>1, <1>2, <1>3, OrderAhead, Zenon
<1>5. left' > 0 /\ left' <= 8 /\ left' \in 0 .. 8
  BY <1>4, SMT
<1>6. /\ sleep' \in [Readers -> Nobody .. 8] /\ got' \in [Readers -> Int]
      /\ scratch \notin Raw =>
           \A q \in Readers : sleep'[q] # Nobody => left' > 0 /\ left' <= sleep'[q]
      /\ \A q \in Readers : got'[q] # Nobody => Told(q, got'[q])
  BY <1>1, <1>3, <1>4, <1>5, EarlyKeeps, Zenon
<1>7. ThermoType'
  BY <1>1, <1>2, <1>4, <1>5, <1>6, Zenon DEF ThermoType
<1>8. NearMark'
  BY <1>4, SMT DEF NearMark
<1>9. WaitsLong'
  <2>1. Ahead' <= 8 /\ left' <= Ahead'
    BY <1>4, <1>5, SMT
  <2> QED
    BY <1>1, <1>5, <1>6, <2>1, Zenon DEF WaitsLong
<1>10. Measured'
  BY <1>6, SMT DEF Measured, Told, Right
<1> QED
  BY <1>7, <1>8, <1>9, <1>10, Zenon DEF ThermoInv

LEMMA AgainKeeps ==
  ASSUME ThermoInv, NEW r \in Readers, Again(r)
  PROVE  ThermoInv'
<1>1. next_t # 0
  BY Zenon DEF Again
<1>2. ThermoType /\ NearMark /\ WaitsLong
  BY Zenon DEF ThermoInv
<1>3. CASE Before(now, next_t)
  <2>1. Ahead \in 1 .. 8
    BY <1>1, <1>2, <1>3, BeforeNear, Zenon
  <2>2. /\ Early(r, Ahead)
        /\ now' = now /\ next_t' = next_t /\ temp' = temp
        /\ scratch' = scratch /\ left' = left /\ bits' = bits
    BY <1>3, Zenon DEF Again, Ahead
  <2>3. scratch \notin Raw => left > 0 /\ left <= Ahead /\ Ahead <= 8
    BY <1>1, <1>2, Zenon DEF WaitsLong
  <2>4. /\ sleep' \in [Readers -> Nobody .. 8] /\ got' \in [Readers -> Int]
        /\ scratch \notin Raw =>
             \A q \in Readers : sleep'[q] # Nobody => left' > 0 /\ left' <= sleep'[q]
        /\ \A q \in Readers : got'[q] # Nobody => Told(q, got'[q])
    BY <2>1, <2>2, <2>3, EarlyKeeps, Zenon
  <2>5. Ahead' = Ahead /\ Since' = Since
    BY <2>2, Zenon DEF Ahead, Since
  <2>6. ThermoType'
    BY <1>2, <2>2, <2>4, Zenon DEF ThermoType
  <2>7. NearMark'
    BY <1>2, <2>2, <2>5, Zenon DEF NearMark
  <2>8. WaitsLong'
    BY <1>2, <2>2, <2>3, <2>4, <2>5, Zenon DEF WaitsLong
  <2>9. Measured'
    BY <2>4, SMT DEF Measured, Told, Right
  <2> QED
    BY <2>6, <2>7, <2>8, <2>9, Zenon DEF ThermoInv
<1>4. CASE ~Before(now, next_t)
  <2>1. Fetch(r)
    BY <1>4, Zenon DEF Again
  <2>2. Ahead \notin 1 .. 8
    BY <1>1, <1>2, <1>4, BeforeNear, Zenon
  <2>3. scratch \in Raw
    <3>1. SUFFICES ASSUME scratch \notin Raw PROVE FALSE
      OBVIOUS
    <3>2. left > 0 /\ left <= Ahead /\ Ahead <= 8
      BY <1>1, <1>2, <3>1, Zenon DEF WaitsLong
    <3>3. left \in 0 .. 8 /\ Ahead \in Int
      BY <1>2, MarkIs, ThermoAssumption, SMT DEF ThermoType
    <3> QED
      BY <2>2, <3>2, <3>3, SMT
  <2> QED
    BY <2>1, <2>3, FetchKeeps, Zenon
<1> QED
  BY <1>3, <1>4, Zenon

LEMMA AwakeKeeps ==
  ASSUME ThermoInv, NEW r \in Readers, Awake(r)
  PROVE  ThermoInv'
<1>1. sleep[r] = 0 /\ Fetch(r)
  BY Zenon DEF Awake
<1>2. scratch \notin Raw => \A q \in Readers : sleep[q] # Nobody => left > 0 /\ left <= sleep[q]
  BY Zenon DEF ThermoInv, WaitsLong
<1>3. left \in 0 .. 8 /\ 0 # Nobody
  BY SMT DEF ThermoInv, ThermoType, Nobody
<1>4. scratch \in Raw
  BY <1>1, <1>2, <1>3, SMT
<1> QED
  BY <1>1, <1>4, FetchKeeps, Zenon

LEMMA TickKeeps ==
  ASSUME ThermoInv, Tick
  PROVE  ThermoInv'
<1>1. /\ next_t # 0 => Since # JIFFIES \div 2 - 1
      /\ sleep' = [r \in Readers |-> IF sleep[r] \in {Nobody, 0} THEN sleep[r]
                                     ELSE sleep[r] - 1]
      /\ left' = IF left = 0 THEN 0 ELSE left - 1
      /\ IF left = 1 THEN scratch' \in Raw ELSE scratch' = scratch
      /\ temp' = temp /\ got' = got /\ bits' = bits
  BY SMT DEF Tick, Since, Raw
<1>2. ThermoType /\ NearMark /\ WaitsLong /\ Measured
  BY Zenon DEF ThermoInv
<1>3. /\ now' \in 0 .. JIFFIES - 1 /\ next_t' = next_t
      /\ Ahead > 0 => Ahead' = Ahead - 1
      /\ Since < JIFFIES \div 2 - 1 => Since' = Since + 1
  BY <1>2, TickMark, Zenon
<1>4. /\ left \in 0 .. 8 /\ sleep \in [Readers -> Nobody .. 8]
      /\ JIFFIES \in Nat /\ JIFFIES >= 16 /\ Nobody = -1
      /\ scratch \in Raw \cup {PowerOn}
  BY <1>2, ThermoAssumption, SMT DEF ThermoType, Nobody
<1>5. ThermoType'
  <2>1. left' \in 0 .. 8
    BY <1>1, <1>4, SMT
  <2>2. \A r \in Readers : sleep'[r] \in Nobody .. 8
    BY <1>1, <1>4, SMT
  <2>3. sleep' \in [Readers -> Nobody .. 8]
    BY <1>1, <2>2, Zenon
  <2>4. scratch' \in Raw \cup {PowerOn}
    BY <1>1, <1>4, Zenon
  <2> QED
    BY <1>1, <1>2, <1>3, <2>1, <2>3, <2>4, Zenon DEF ThermoType
<1>6. NearMark'
  <2>1. SUFFICES ASSUME next_t # 0 PROVE Ahead' \in 0 .. 8 \/ Since' < JIFFIES \div 2
    BY <1>3, Zenon DEF NearMark
  <2>2. Ahead \in 0 .. 8 \/ Since < JIFFIES \div 2
    BY <1>2, <2>1, Zenon DEF NearMark
  <2>3. Since \in Int /\ Ahead \in Int /\ (Ahead = 0 => Since = 0)
    BY <1>2, <1>4, MarkIs, SMT DEF ThermoType
  <2>4. JIFFIES \div 2 \in Int /\ JIFFIES \div 2 >= 8
    BY <1>4, SMT
  <2> QED
    BY <1>1, <1>3, <2>1, <2>2, <2>3, <2>4, SMT
<1>7. WaitsLong'
  <2>1. SUFFICES ASSUME scratch' \notin Raw
                 PROVE  /\ \A r \in Readers : sleep'[r] # Nobody => left' > 0 /\ left' <= sleep'[r]
                        /\ next_t # 0 => left' > 0 /\ left' <= Ahead' /\ Ahead' <= 8
    BY <1>3, Zenon DEF WaitsLong
  <2>2. left # 1 /\ scratch \notin Raw
    BY <1>1, <2>1, Zenon
  <2>3. /\ \A r \in Readers : sleep[r] # Nobody => left > 0 /\ left <= sleep[r]
        /\ next_t # 0 => left > 0 /\ left <= Ahead /\ Ahead <= 8
    BY <1>2, <2>2, Zenon DEF WaitsLong
  <2>4. \A r \in Readers : sleep'[r] # Nobody => left' > 0 /\ left' <= sleep'[r]
    BY <1>1, <1>4, <2>2, <2>3, SMT
  <2>5. Ahead \in Int
    BY <1>2, <1>4, MarkIs, SMT DEF ThermoType
  <2>6. next_t # 0 => left' > 0 /\ left' <= Ahead' /\ Ahead' <= 8
    BY <1>1, <1>3, <1>4, <2>2, <2>3, <2>5, SMT
  <2> QED
    BY <2>4, <2>6, Zenon
<1>8. Measured'
  <2>1. \A r \in Readers : got'[r] # Nobody => Told(r, got'[r])
    BY <1>1, <1>2, MeasuredTold, Zenon
  <2> QED
    BY <2>1, SMT DEF Measured, Told, Right
<1> QED
  BY <1>5, <1>6, <1>7, <1>8, Zenon DEF ThermoInv

LEMMA NextThermo == ThermoInv /\ [ThermoNext]_thermoVars => ThermoInv'
<1> SUFFICES ASSUME ThermoInv, [ThermoNext]_thermoVars PROVE ThermoInv'
  OBVIOUS
<1>1. CASE Tick
  BY <1>1, TickKeeps, Zenon
<1>2. ASSUME NEW r \in Readers, First(r) PROVE ThermoInv'
  BY <1>2, FirstKeeps, Zenon
<1>3. ASSUME NEW r \in Readers, Again(r) PROVE ThermoInv'
  BY <1>3, AgainKeeps, Zenon
<1>4. ASSUME NEW r \in Readers, Awake(r) PROVE ThermoInv'
  BY <1>4, AwakeKeeps, Zenon
<1>5. CASE UNCHANGED thermoVars
  BY <1>5, SMT DEF thermoVars, ThermoInv, ThermoType, NearMark, WaitsLong, Ahead,
                   Since, Measured
<1> QED
  BY <1>1, <1>2, <1>3, <1>4, <1>5, Zenon DEF ThermoNext

LEMMA ThermoInvHolds == ThermoSpec => []ThermoInv
BY InitThermo, NextThermo, PTL DEF ThermoSpec

-----------------------------------------------------------------------------
(* No reader is ever told what the thermometer held at power on, and what  *)
(* it is told is right to half of a thousandth (fa_read_temp,              *)
(* zfad_info_get): for any number of readers, with locks or without, any   *)
(* resolution and any modulus of jiffies.                                  *)
THEOREM MeasuredHolds == ThermoSpec => []Measured
<1>1. ThermoInv => Measured
  BY Zenon DEF ThermoInv
<1> QED
  BY <1>1, ThermoInvHolds, PTL

(* No wait for a conversion is longer than the longest conversion          *)
(* (fa_read_temp's msleep).                                                *)
THEOREM ShortWaitHolds == ThermoSpec => []ShortWait
<1>1. ThermoInv => ShortWait
  BY TimeIs, SMT DEF ThermoInv, ThermoType, ShortWait, Nobody
<1> QED
  BY <1>1, ThermoInvHolds, PTL
=============================================================================
