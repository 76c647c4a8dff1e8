-------------------------- MODULE FaTrgConfProofs --------------------------
(***************************************************************************)
(* For every width of the numbers, every size of the memory and every      *)
(* number a user may write: what users read is what the core does, the     *)
(* blocks of an armed acquisition are its shots, in its memory, one after  *)
(* the other, although sizes and offsets are computed with a wrap; and the *)
(* core listens to the sources the user chose.                             *)
(***************************************************************************)
EXTENDS FaTrgConf, Integers, TLAPS

(* Remainders: their range, and the multiples they do not see.             *)
LEMMA ModRange ==
  ASSUME NEW x \in Int, NEW m \in Nat \ {0}
  PROVE  x % m \in 0 .. m - 1
OBVIOUS

LEMMA ModSmall ==
  ASSUME NEW m \in Nat \ {0}, NEW x \in 0 .. m - 1
  PROVE  x % m = x
OBVIOUS

LEMMA Division ==
  ASSUME NEW x \in Int, NEW m \in Nat \ {0}
  PROVE  x = m * (x \div m) + (x % m) /\ x \div m \in Int
OBVIOUS

LEMMA Product ==
  /\ \A a, b, c \in Nat : a <= b => a * c <= b * c
  /\ \A m \in Nat \ {0}, d \in Int : d >= 1 => m * d >= m
  /\ \A m, a, b \in Int : m * (a + b) = m * a + m * b /\ m * (a - b) = m * a - m * b
OBVIOUS

LEMMA ModUnique ==
  ASSUME NEW m \in Nat \ {0}, NEW q \in Int, NEW r \in 0 .. m - 1
  PROVE  (r + m * q) % m = r
<1> DEFINE x == r + m * q
           d == q - (x \div m)
<1>1. x \in Int /\ m * q \in Int
  OBVIOUS
<1>2. x = m * (x \div m) + (x % m) /\ x \div m \in Int /\ x % m \in 0 .. m - 1
  BY <1>1, Division, ModRange
<1>3. d \in Int /\ m * d = (x % m) - r
  <2>1. m * d = m * q - m * (x \div m)
    BY <1>2, Product
  <2> QED
    BY <1>1, <1>2, <2>1
<1>4. ~(d >= 1)
  <2> SUFFICES ASSUME d >= 1 PROVE FALSE
    OBVIOUS
  <2>1. m * d >= m
    BY <1>3, Product
  <2> QED
    BY <1>2, <1>3, <2>1
<1>5. ~(d <= -1)
  <2> SUFFICES ASSUME d <= -1 PROVE FALSE
    OBVIOUS
  <2>1. m * (-d) >= m /\ m * (-d) = -(m * d)
    BY <1>3, Product
  <2> QED
    BY <1>2, <1>3, <2>1
<1>6. d = 0
  BY <1>3, <1>4, <1>5
<1>7. m * d = 0
  BY <1>6
<1> QED
  BY <1>2, <1>3, <1>7

LEMMA ModAdd ==
  ASSUME NEW x \in Int, NEW q \in Int, NEW m \in Nat \ {0}
  PROVE  (x + m * q) % m = x % m
<1> DEFINE r == x % m
           p == (x \div m) + q
<1>1. x = m * (x \div m) + r /\ x \div m \in Int /\ r \in 0 .. m - 1
  BY Division, ModRange
<1>2. x + m * q = r + m * p /\ p \in Int
  BY <1>1, Product
<1> HIDE DEF r, p
<1>3. (r + m * p) % m = r
  BY <1>1, <1>2, ModUnique
<1> QED
  BY <1>2, <1>3 DEF r

(* Twice a remainder and the tag: as if the wrap were last.                *)
LEMMA ModTwice ==
  ASSUME NEW a \in Nat, NEW m \in Nat \ {0}
  PROVE  (2 * (a % m) + 16) % m = (2 * a + 16) % m
<1> DEFINE x == 2 * (a % m) + 16
           q == 2 * (a \div m)
<1>1. a = m * (a \div m) + (a % m) /\ a \div m \in Int /\ a % m \in Int
  BY Division, ModRange
<1>2. m * q = 2 * (m * (a \div m))
  BY <1>1
<1>3. 2 * a + 16 = x + m * q /\ x \in Int /\ q \in Int
  BY <1>1, <1>2
<1> HIDE DEF x, q
<1>4. (2 * a + 16) % m = x % m
  BY <1>3, ModAdd
<1> QED
  BY <1>4 DEF x

LEMMA Widths ==
  /\ WORD \in Nat \ {0} /\ FIELD \in Nat \ {0} /\ 1 < FIELD /\ FIELD <= WORD
  /\ Counts \subseteq 0 .. WORD - 1
BY TrgAssumption

-----------------------------------------------------------------------------
(* Types.                                                                  *)

LEMMA SizesType ==
  ASSUME ConfTypeOK
  PROVE  /\ Samples \in 0 .. WORD - 1 /\ TiSamples \in 0 .. WORD - 1
         /\ BlockSize \in 0 .. WORD - 1
         /\ ShotSize(Samples) \in 0 .. WORD - 1
<1>0. attr.pre + attr.post \in Int
  BY DEF ConfTypeOK, Attributes, Registers
<1>1. Samples \in 0 .. WORD - 1
  BY <1>0, Widths, ModRange DEF Samples
<1>2. TiSamples \in 0 .. WORD - 1
  <2>1. Samples * 4 \in Int
    BY <1>1, Widths
  <2> QED
    BY <2>1, Widths, ModRange DEF TiSamples
<1>3. BlockSize \in 0 .. WORD - 1
  <2>1. 2 * TiSamples + 16 \in Int
    BY <1>2, Widths
  <2> QED
    BY <2>1, Widths, ModRange DEF BlockSize
<1>4. ShotSize(Samples) \in 0 .. WORD - 1
  <2>1. (Samples + 2) * 8 \in Int
    BY <1>1, Widths
  <2> QED
    BY <2>1, Widths, ModRange DEF ShotSize
<1> QED
  BY <1>1, <1>2, <1>3, <1>4

LEMMA LayoutType ==
  ASSUME ConfTypeOK, NEW shots \in Nat
  PROVE  Layout(shots) \in Seq(Block) /\ Len(Layout(shots)) = shots
<1>0. BlockSize \in 0 .. WORD - 1 /\ BlockSize \in Nat
  BY SizesType, Widths
<1>1. ASSUME NEW k \in 1 .. shots
      PROVE  ((k - 1) * BlockSize) % WORD \in 0 .. WORD - 1
  <2>1. (k - 1) * BlockSize \in Int
    BY <1>0
  <2> QED
    BY <2>1, Widths, ModRange
<1>2. \A k \in 1 .. shots :
        [offset |-> ((k - 1) * BlockSize) % WORD, size |-> BlockSize]
          \in Block
  BY <1>0, <1>1 DEF Block
<1>3. Layout(shots) \in [1 .. shots -> Block]
  BY <1>2 DEF Layout
<1> QED
  BY <1>3

LEMMA NoBlocks == << >> \in Seq(Block)
OBVIOUS

LEMMA InitType == ConfInit => ConfTypeOK
<1> SUFFICES ASSUME ConfInit PROVE ConfTypeOK
  OBVIOUS
<1>1. own \in BOOLEAN /\ on \in BOOLEAN /\ spoilt \in BOOLEAN
  BY DEF ConfInit
<1>2. attr \in Attributes /\ reg \in Registers
  BY Widths DEF ConfInit, Defaults, Attributes, Registers
<1>3. blocks \in Seq(Block)
  BY NoBlocks DEF ConfInit
<1> QED
  BY <1>1, <1>2, <1>3 DEF ConfTypeOK

LEMMA ConfigureType ==
  ASSUME ConfTypeOK, NEW a \in Attributes, NEW r \in Registers, Configure(a, r),
         spoilt' \in BOOLEAN
  PROVE  ConfTypeOK'
<1>1. Sources(on, a) \in SUBSET {"sw", "external"}
  BY DEF Sources, Attributes
<1>2. [r EXCEPT !.src = Sources(on, a)] \in Registers
  BY <1>1 DEF Registers
<1> QED
  BY <1>2 DEF ConfTypeOK, Configure

LEMMA NextType == ConfTypeOK /\ [ConfNext]_confVars => ConfTypeOK'
<1> SUFFICES ASSUME ConfTypeOK, [ConfNext]_confVars PROVE ConfTypeOK'
  OBVIOUS
<1> USE Widths, NoBlocks
<1>1. ASSUME NEW v \in Counts, SetShots(v) PROVE ConfTypeOK'
  <2>1. v % FIELD \in 0 .. FIELD - 1
    BY ModRange
  <2> QED
    BY <1>1, <2>1, ConfigureType DEF SetShots, ToShots, ConfTypeOK, Attributes, Registers
<1>2. ASSUME NEW v \in Counts, SetPre(v) PROVE ConfTypeOK'
  BY <1>2, ConfigureType DEF SetPre, ConfTypeOK, Attributes, Registers
<1>3. ASSUME NEW v \in Counts, SetPost(v) PROVE ConfTypeOK'
  <2>1. ~TooFew(v) => v - 1 \in 0 .. WORD - 1
    BY DEF TooFew
  <2> QED
    BY <1>3, <2>1, ConfigureType DEF SetPost, ToPost, ConfTypeOK, Attributes, Registers
<1>4. ASSUME NEW s \in SUBSET {"sw", "external"}, SetSrc(s) PROVE ConfTypeOK'
  BY <1>4, ConfigureType DEF SetSrc, ConfTypeOK, Attributes, Registers
<1>5. CASE Read
  <2>1. reg.post + 1 \in Int
    BY DEF ConfTypeOK, Attributes, Registers
  <2>2. FromPost(reg.post) \in 0 .. WORD - 1
    BY <2>1, ModRange DEF FromPost
  <2> QED
    BY <1>5, <2>2 DEF Read, ConfTypeOK, Attributes, Registers
<1>6. ASSUME NEW enabled \in BOOLEAN, Enable(enabled) PROVE ConfTypeOK'
  <2>1. Sources(enabled, attr) \in SUBSET {"sw", "external"}
    BY DEF Sources, ConfTypeOK, Attributes, Registers
  <2>2. reg' \in Registers
    BY <1>6, <2>1 DEF Enable, ConfTypeOK, Attributes, Registers
  <2>3. blocks' \in Seq(Block)
    BY <1>6 DEF Enable, ConfTypeOK
  <2> QED
    BY <1>6, <2>2, <2>3 DEF Enable, ConfTypeOK
<1>7. ASSUME NEW v \in Counts, Replace(v) PROVE ConfTypeOK'
  <2>1. /\ [shots |-> 1, pre |-> 0, post |-> v, src |-> {}] \in Attributes
        /\ ResetRegs \in Registers
    BY DEF ResetRegs, Attributes, Registers
  <2> QED
    BY <1>7, <2>1 DEF Replace, ConfTypeOK
<1>8. CASE Restore
  BY <1>8 DEF Restore, Defaults, ConfTypeOK, Attributes, Registers
<1>9. CASE Arm
  <2>1. attr.shots \in Nat
    BY DEF ConfTypeOK, Attributes, Registers
  <2>2. blocks' \in Seq(Block)
    BY <1>9, <2>1, LayoutType DEF Arm
  <2>3. reg' \in Registers
    BY <1>9 DEF Arm, ArmedSources, ConfTypeOK, Attributes, Registers
  <2> QED
    BY <1>9, <2>2, <2>3 DEF Arm, ConfTypeOK
<1>10. CASE SoftInput
  <2>0. TiSamples \in 0 .. WORD - 1 /\ 2 * TiSamples \in Int
    BY SizesType
  <2>1. (2 * TiSamples) % WORD \in 0 .. WORD - 1 /\ TiSamples \in 0 .. WORD - 1
    BY <2>0, ModRange
  <2>2. blocks' \in Seq(Block)
    BY <1>10, <2>1 DEF SoftInput, Block
  <2>3. reg' \in Registers
    BY <1>10, <2>1 DEF SoftInput, ConfTypeOK, Attributes, Registers
  <2> QED
    BY <1>10, <2>2, <2>3 DEF SoftInput, ConfTypeOK
<1>11. CASE StopCset
  BY <1>11 DEF StopCset, ConfTypeOK
<1>12. CASE Finish
  BY <1>12 DEF Finish, ConfTypeOK, Attributes, Registers
<1>13. CASE UNCHANGED confVars
  BY <1>13 DEF confVars, ConfTypeOK
<1> QED
  BY <1>1, <1>2, <1>3, <1>4, <1>5, <1>6, <1>7, <1>8, <1>9, <1>10, <1>11, <1>12, <1>13
     DEF ConfNext

(* The type of every variable.                                             *)
THEOREM TypeCorrect == ConfSpec => []ConfTypeOK
BY InitType, NextType, PTL DEF ConfSpec

-----------------------------------------------------------------------------
(* Registers and attributes.  Each register holds by itself what the       *)
(* attribute says, or what zfat_destroy() left; but the post samples only  *)
(* until another trigger's acquisition.                                    *)

PostFollows ==
  /\ own => reg.post + 1 = attr.post /\ attr.post < WORD
  /\ ~own => reg.post = 0

Follow ==
  /\ own => reg.shots = ToShots(attr.shots) /\ reg.pre = attr.pre
  /\ ~own => reg.shots = 1 /\ reg.pre = 0
  /\ ~spoilt => PostFollows

LEMMA One == ToShots(1) = 1
BY TrgAssumption, ModSmall DEF ToShots

LEMMA InitFollow == ConfInit => Follow
BY One, TrgAssumption DEF ConfInit, Defaults, Follow, PostFollows

LEMMA ConfigureFollow ==
  ASSUME NEW a, NEW r \in Registers, Configure(a, r),
         r.shots = ToShots(a.shots), r.pre = a.pre,
         ~spoilt' => r.post + 1 = a.post /\ a.post < WORD
  PROVE  Follow'
<1>1. own' = own /\ own /\ attr' = a
  BY DEF Configure
<1>2. reg'.shots = r.shots /\ reg'.pre = r.pre /\ reg'.post = r.post
  BY DEF Configure, Registers
<1> QED
  BY <1>1, <1>2 DEF Follow, PostFollows

LEMMA NextFollow == ConfTypeOK /\ Follow /\ [ConfNext]_confVars => Follow'
<1> SUFFICES ASSUME ConfTypeOK, Follow, [ConfNext]_confVars PROVE Follow'
  OBVIOUS
<1> USE Widths DEF Follow, PostFollows
<1>1. ASSUME NEW v \in Counts, SetShots(v) PROVE Follow'
  <2>1. own /\ spoilt' = spoilt
    BY <1>1 DEF SetShots, Configure
  <2>2. CASE v = 0
    BY <1>1, <2>1, <2>2, ConfigureFollow DEF SetShots, ConfTypeOK
  <2>3. CASE v # 0
    <3>1. v % FIELD \in 0 .. FIELD - 1
      BY ModRange
    <3> DEFINE a == [attr EXCEPT !.shots = v]
               r == [reg EXCEPT !.shots = ToShots(v)]
    <3>2. r \in Registers
      BY <3>1 DEF ConfTypeOK, Attributes, Registers, ToShots
    <3>3. /\ r.shots = ToShots(a.shots) /\ r.pre = a.pre
          /\ ~spoilt' => r.post + 1 = a.post /\ a.post < WORD
      BY <2>1 DEF ConfTypeOK, Attributes, Registers
    <3>4. Configure(a, r)
      BY <1>1, <2>3 DEF SetShots
    <3> HIDE DEF a, r
    <3> QED
      BY <3>2, <3>3, <3>4, ConfigureFollow
  <2> QED
    BY <2>2, <2>3
<1>2. ASSUME NEW v \in Counts, SetPre(v) PROVE Follow'
  <2> DEFINE a == [attr EXCEPT !.pre = v]
             r == [reg EXCEPT !.pre = v]
  <2>1. own /\ spoilt' = spoilt /\ Configure(a, r)
    BY <1>2 DEF SetPre, Configure
  <2>2. r \in Registers
    BY DEF ConfTypeOK, Attributes, Registers
  <2>3. /\ r.shots = ToShots(a.shots) /\ r.pre = a.pre
        /\ ~spoilt' => r.post + 1 = a.post /\ a.post < WORD
    BY <2>1 DEF ConfTypeOK, Attributes, Registers
  <2> HIDE DEF a, r
  <2> QED
    BY <2>1, <2>2, <2>3, ConfigureFollow
<1>3. ASSUME NEW v \in Counts, SetPost(v) PROVE Follow'
  <2>1. own
    BY <1>3 DEF SetPost, Configure
  <2>2. CASE TooFew(v)
    BY <1>3, <2>1, <2>2, ConfigureFollow DEF SetPost, ConfTypeOK
  <2>3. CASE ~TooFew(v)
    <3> DEFINE a == [attr EXCEPT !.post = v]
               r == [reg EXCEPT !.post = ToPost(v)]
    <3>1. v \in Nat /\ v - 1 \in Nat /\ v < WORD
      BY <2>3, TrgAssumption DEF TooFew
    <3>2. r \in Registers
      <4>1. ToPost(v) \in 0 .. WORD - 1
        BY <3>1 DEF ToPost
      <4> QED
        BY <4>1 DEF ConfTypeOK, Registers
    <3>3. /\ r.shots = ToShots(a.shots) /\ r.pre = a.pre
          /\ r.post + 1 = a.post /\ a.post < WORD
      BY <2>1, <3>1 DEF ConfTypeOK, Attributes, Registers, ToPost
    <3>4. Configure(a, r)
      BY <1>3, <2>3 DEF SetPost
    <3> HIDE DEF a, r
    <3> QED
      BY <3>2, <3>3, <3>4, ConfigureFollow
  <2> QED
    BY <2>2, <2>3
<1>4. ASSUME NEW s \in SUBSET {"sw", "external"}, SetSrc(s) PROVE Follow'
  <2> DEFINE a == [attr EXCEPT !.src = s]
  <2>1. own /\ spoilt' = spoilt /\ Configure(a, reg)
    BY <1>4 DEF SetSrc, Configure
  <2>2. /\ reg.shots = ToShots(a.shots) /\ reg.pre = a.pre
        /\ ~spoilt' => reg.post + 1 = a.post /\ a.post < WORD
        /\ reg \in Registers
    BY <2>1 DEF ConfTypeOK, Attributes, Registers
  <2> HIDE DEF a
  <2> QED
    BY <2>1, <2>2, ConfigureFollow
<1>5. CASE Read
  <2>1. own /\ own' = own /\ reg' = reg
    BY <1>5 DEF Read
  <2>2. reg.shots \in 0 .. FIELD - 1
    BY <2>1, ModRange DEF ToShots, ConfTypeOK, Attributes, Registers
  <2>3. ToShots(reg.shots) = reg.shots
    BY <2>2, ModSmall DEF ToShots
  <2>4. ASSUME ~spoilt PROVE FromPost(reg.post) = attr.post
    <3>1. reg.post + 1 \in 0 .. WORD - 1
      BY <2>1, <2>4 DEF ConfTypeOK, Attributes, Registers
    <3> QED
      BY <2>1, <2>4, <3>1, ModSmall DEF FromPost
  <2>5. /\ attr'.shots \in {attr.shots, reg.shots}
        /\ attr'.pre = attr.pre /\ (~spoilt => attr'.post = attr.post)
        /\ spoilt' = spoilt
    BY <1>5, <2>1, <2>4 DEF Read, ConfTypeOK, Attributes, Registers
  <2> QED
    BY <2>1, <2>3, <2>5
<1>6. ASSUME NEW enabled \in BOOLEAN, Enable(enabled) PROVE Follow'
  BY <1>6 DEF Enable, ConfTypeOK, Attributes, Registers
<1>7. ASSUME NEW v \in Counts, Replace(v) PROVE Follow'
  BY <1>7 DEF Replace, ResetRegs
<1>8. CASE Restore
  BY <1>8, One, TrgAssumption DEF Restore, Defaults
<1>9. CASE Arm
  BY <1>9 DEF Arm, ConfTypeOK, Attributes, Registers
<1>10. CASE SoftInput
  BY <1>10 DEF SoftInput
<1>11. CASE StopCset
  BY <1>11 DEF StopCset
<1>12. CASE Finish
  BY <1>12 DEF Finish, ConfTypeOK, Attributes, Registers
<1>13. CASE UNCHANGED confVars
  BY <1>13 DEF confVars
<1> QED
  BY <1>1, <1>2, <1>3, <1>4, <1>5, <1>6, <1>7, <1>8, <1>9, <1>10, <1>11, <1>12, <1>13
     DEF ConfNext

LEMMA FollowImplies == ConfTypeOK /\ Follow => CoreFollows
BY DEF ConfTypeOK, Attributes, Registers, Follow, PostFollows, CoreFollows

(* Through every sequence of writes, reads and other triggers users read   *)
(* back what the core does.                                                *)
THEOREM CoreFollowsHolds == ConfSpec => []CoreFollows
<1>1. ConfTypeOK /\ Follow /\ [ConfNext]_confVars => Follow'
  BY NextFollow
<1> QED
  BY <1>1, InitType, NextType, InitFollow, FollowImplies, PTL DEF ConfSpec

-----------------------------------------------------------------------------
(* The blocks.                                                             *)

Placed(b) == \A k \in 1 .. Len(b) :
  /\ b[k].offset + b[k].size <= MEMORY
  /\ k > 1 => b[k].offset = b[k - 1].offset + b[k - 1].size

(* What arming and the check compute on different ways is the same.        *)
LEMMA SameSize == ConfTypeOK => BlockSize = ShotSize(Samples)
<1> SUFFICES ASSUME ConfTypeOK PROVE BlockSize = ShotSize(Samples)
  OBVIOUS
<1>1. Samples * 4 \in Nat /\ 2 * (Samples * 4) + 16 = (Samples + 2) * 8
  BY SizesType, Widths
<1>2. (2 * ((Samples * 4) % WORD) + 16) % WORD = (2 * (Samples * 4) + 16) % WORD
  BY <1>1, Widths, ModTwice
<1> QED
  BY <1>1, <1>2 DEF BlockSize, TiSamples, ShotSize

(* When all shots fit the memory, no offset wraps.                         *)
LEMMA LayoutExact ==
  ASSUME ConfTypeOK, NEW shots \in Nat, ~Overflows(shots, Samples), NEW k \in 1 .. shots
  PROVE  /\ Layout(shots)[k] = [offset |-> (k - 1) * BlockSize, size |-> BlockSize]
         /\ (k - 1) * BlockSize + BlockSize <= MEMORY
         /\ (k - 1) * BlockSize \in Nat
<1> DEFINE s == BlockSize
<1>1. s \in Nat /\ s * shots <= MEMORY
  <2>1. s \in Nat /\ ~(s * shots > MEMORY)
    BY SizesType, SameSize, Widths DEF Overflows
  <2> HIDE DEF s
  <2>2. s * shots \in Nat /\ MEMORY \in Nat
    BY <2>1, TrgAssumption
  <2> QED
    BY <2>1, <2>2
<1> HIDE DEF s
<1>2. k * s <= shots * s /\ shots * s = s * shots
  BY <1>1, Product
<1>3. (k - 1) * s + s = k * s /\ (k - 1) * s \in Nat
  BY <1>1, Product
<1>4. (k - 1) * s + s <= MEMORY
  <2>1. k * s \in Nat /\ s * shots \in Nat /\ MEMORY \in Nat
    BY <1>1, TrgAssumption
  <2> QED
    BY <1>1, <1>2, <1>3, <2>1
<1>5. (k - 1) * s \in 0 .. WORD - 1
  BY <1>1, <1>3, <1>4, TrgAssumption
<1>6. ((k - 1) * s) % WORD = (k - 1) * s
  BY <1>5, Widths, ModSmall
<1>7. Layout(shots)[k] = [offset |-> ((k - 1) * s) % WORD, size |-> s]
  BY DEF Layout, s
<1> QED
  BY <1>3, <1>4, <1>6, <1>7 DEF s

LEMMA LayoutPlaced ==
  ASSUME ConfTypeOK, NEW shots \in Nat, ~Overflows(shots, Samples)
  PROVE  Placed(Layout(shots))
<1> DEFINE b == Layout(shots)
           s == BlockSize
<1>0. Len(b) = shots /\ s \in Nat
  BY LayoutType, SizesType, Widths
<1> SUFFICES ASSUME NEW k \in 1 .. shots
             PROVE  /\ b[k].offset + b[k].size <= MEMORY
                    /\ k > 1 => b[k].offset = b[k - 1].offset + b[k - 1].size
  BY <1>0 DEF Placed
<1>1. /\ b[k] = [offset |-> (k - 1) * s, size |-> s]
      /\ (k - 1) * s + s <= MEMORY /\ (k - 1) * s \in Nat
  BY LayoutExact
<1>2. ASSUME k > 1
      PROVE  /\ b[k - 1] = [offset |-> (k - 1 - 1) * s, size |-> s]
             /\ (k - 1 - 1) * s \in Nat
  <2>1. k - 1 \in 1 .. shots
    BY <1>2
  <2> QED
    BY <2>1, LayoutExact
<1> HIDE DEF b, s
<1>3. (k - 1 - 1) * s + s = (k - 1) * s
  BY <1>0, Product
<1> QED
  BY <1>1, <1>2, <1>3

(* The invariant: whose blocks they are decides what is known of them.     *)
InMemory ==
  /\ own => Placed(blocks)
  /\ ~own => \/ blocks = << >>
             \/ /\ blocks = <<[offset |-> 0, size |-> (2 * TiSamples) % WORD]>>
                /\ ~Overflows(1, Samples)

LEMMA NothingPlaced == Placed(<< >>)
BY DEF Placed

LEMMA InitInMemory == ConfInit => InMemory
BY NothingPlaced DEF ConfInit, InMemory

LEMMA NextInMemory == ConfTypeOK /\ InMemory /\ [ConfNext]_confVars => InMemory'
<1> SUFFICES ASSUME ConfTypeOK, InMemory, [ConfNext]_confVars PROVE InMemory'
  OBVIOUS
<1> USE NothingPlaced
<1>1. ASSUME NEW a, NEW r, Configure(a, r) PROVE InMemory'
  <2>1. own' /\ blocks' = << >>
    BY <1>1 DEF Configure
  <2> QED
    BY <2>1 DEF InMemory, Placed
<1>2. ASSUME NEW v \in Counts, SetShots(v) \/ SetPre(v) \/ SetPost(v) PROVE InMemory'
  BY <1>1, <1>2 DEF SetShots, SetPre, SetPost
<1>3. ASSUME NEW s \in SUBSET {"sw", "external"}, SetSrc(s) PROVE InMemory'
  BY <1>1, <1>3 DEF SetSrc
<1>4. CASE Read
  <2>1. own' /\ own /\ blocks' = blocks
    BY <1>4 DEF Read
  <2> QED
    BY <2>1 DEF InMemory, Placed
<1>5. ASSUME NEW enabled \in BOOLEAN, Enable(enabled) PROVE InMemory'
  <2>1. own' /\ own /\ (blocks' = blocks \/ blocks' = << >>)
    BY <1>5 DEF Enable
  <2> QED
    BY <2>1 DEF InMemory, Placed
<1>6. ASSUME NEW v \in Counts, Replace(v) PROVE InMemory'
  BY <1>6 DEF Replace, InMemory
<1>7. CASE Restore
  <2>1. own' /\ blocks' = << >>
    BY <1>7 DEF Restore
  <2> QED
    BY <2>1 DEF InMemory, Placed
<1>8. CASE Arm
  <2>1. own' /\ attr.shots \in Nat
    BY <1>8 DEF Arm, ConfTypeOK, Attributes, Registers
  <2>2. Placed(blocks')
    BY <1>8, <2>1, LayoutPlaced DEF Arm, Accepts
  <2> QED
    BY <2>1, <2>2 DEF InMemory, Placed
<1>9. CASE SoftInput
  <2>1. /\ ~own' /\ attr' = attr /\ ~Overflows(1, Samples)
        /\ blocks' = <<[offset |-> 0, size |-> (2 * TiSamples) % WORD]>>
    BY <1>9 DEF SoftInput, Accepts
  <2>2. Samples' = Samples /\ TiSamples' = TiSamples
    BY <2>1 DEF Samples, TiSamples
  <2>3. ~Overflows(1, Samples)'
    BY <2>1, <2>2 DEF Overflows, ShotSize
  <2> QED
    BY <2>1, <2>2, <2>3 DEF InMemory
<1>10. CASE StopCset
  BY <1>10 DEF StopCset, InMemory
<1>11. CASE Finish
  <2>1. own' /\ blocks' = << >>
    BY <1>11 DEF Finish
  <2> QED
    BY <2>1 DEF InMemory, Placed
<1>12. CASE UNCHANGED confVars
  BY <1>12 DEF confVars, InMemory, Placed, Overflows, ShotSize, Samples, TiSamples
<1> QED
  BY <1>2, <1>3, <1>4, <1>5, <1>6, <1>7, <1>8, <1>9, <1>10, <1>11, <1>12 DEF ConfNext

LEMMA SamplesExact ==
  ASSUME ConfTypeOK, 8 * (attr.pre + attr.post + 2) < WORD
  PROVE  /\ Samples = attr.pre + attr.post /\ TiSamples = 4 * Samples
         /\ (2 * TiSamples) % WORD = 8 * Samples
         /\ BlockSize = 8 * Samples + 16 /\ ShotSize(Samples) = 8 * Samples + 16
<1> DEFINE n == attr.pre + attr.post
<1>1. n \in Nat /\ 8 * (n + 2) < WORD
  BY DEF ConfTypeOK, Attributes, Registers
<1>2. n \in 0 .. WORD - 1 /\ n * 4 \in 0 .. WORD - 1 /\ 2 * (n * 4) \in 0 .. WORD - 1
      /\ 2 * (n * 4) + 16 \in 0 .. WORD - 1
  BY <1>1, Widths
<1>3. Samples = n
  BY <1>2, Widths, ModSmall DEF Samples
<1> HIDE DEF n
<1>4. TiSamples = n * 4
  BY <1>2, <1>3, Widths, ModSmall DEF TiSamples
<1>5. (2 * TiSamples) % WORD = 2 * (n * 4) /\ BlockSize = 2 * (n * 4) + 16
  BY <1>2, <1>4, Widths, ModSmall DEF BlockSize
<1>6. n * 4 = 4 * n /\ 2 * (n * 4) = 8 * n
  BY <1>1
<1> QED
  BY <1>3, <1>4, <1>5, <1>6, SameSize DEF n

LEMMA InMemoryImplies == ConfTypeOK /\ InMemory => BlocksInMemory
<1> SUFFICES ASSUME ConfTypeOK, InMemory PROVE BlocksInMemory
  OBVIOUS
<1>1. CASE own
  BY <1>1 DEF InMemory, BlocksInMemory, Placed
<1>2. CASE ~own /\ blocks = << >>
  BY <1>2 DEF BlocksInMemory
<1>3. CASE ~own /\ blocks # << >> /\ ~TooBig
  <2> DEFINE c == [offset |-> 0, size |-> (2 * TiSamples) % WORD]
  <2>1. blocks = <<c>> /\ ~Overflows(1, Samples)
    BY <1>3 DEF InMemory
  <2>2. 8 * (attr.pre + attr.post + 2) < WORD
    BY <1>3, Widths DEF TooBig, ConfTypeOK, Attributes, Registers
  <2>3. ShotSize(Samples) <= MEMORY
    BY <2>1, SizesType, Widths, TrgAssumption DEF Overflows
  <2>4. c.offset + c.size <= MEMORY
    BY <2>2, <2>3, SamplesExact, SizesType, Widths, TrgAssumption
  <2> HIDE DEF c
  <2>5. \A k \in 1 .. Len(blocks) : k = 1 /\ blocks[k] = c
    BY <2>1
  <2> QED
    BY <2>4, <2>5 DEF BlocksInMemory
<1> QED
  BY <1>1, <1>2, <1>3 DEF BlocksInMemory

(* Whatever is written, in whatever order: the blocks of an acquisition    *)
(* lie within the memory, one after the other; the block of another        *)
(* trigger, when its samples do not wrap.                                  *)
THEOREM BlocksInMemoryHolds == ConfSpec => []BlocksInMemory
BY InitType, NextType, InitInMemory, NextInMemory, InMemoryImplies, PTL DEF ConfSpec

-----------------------------------------------------------------------------
(* The core and the blocks.  The shots may be read back, and shrink to     *)
(* what fits the register, while an acquisition is armed: what the blocks  *)
(* agree with is the register.                                             *)

Armed ==
  own /\ ~spoilt /\ blocks # << >> /\ Len(blocks) < FIELD =>
    /\ Len(blocks) = reg.shots /\ blocks = Layout(reg.shots)
    /\ ~Overflows(reg.shots, Samples)

LEMMA NextArmed == ConfTypeOK /\ Follow /\ Armed /\ [ConfNext]_confVars => Armed'
<1> SUFFICES ASSUME ConfTypeOK, Follow, Armed, [ConfNext]_confVars PROVE Armed'
  OBVIOUS
<1> USE Widths
<1>0. ASSUME blocks' = << >> PROVE Armed'
  BY <1>0 DEF Armed
<1>1. ASSUME own' = own, spoilt' = spoilt, blocks' = blocks, reg'.shots = reg.shots,
             ~spoilt => attr'.pre = attr.pre /\ attr'.post = attr.post
      PROVE  Armed'
  <2> SUFFICES ASSUME ~spoilt PROVE Armed'
    BY <1>1 DEF Armed
  <2>1. Samples' = Samples /\ TiSamples' = TiSamples /\ BlockSize' = BlockSize
    BY <1>1 DEF Samples, TiSamples, BlockSize
  <2>2. Layout(reg.shots)' = Layout(reg.shots)
    BY <1>1, <2>1 DEF Layout
  <2>3. Overflows(reg.shots, Samples)' = Overflows(reg.shots, Samples)
    BY <1>1, <2>1 DEF Overflows, ShotSize
  <2> QED
    BY <1>1, <2>1, <2>2, <2>3 DEF Armed
<1>2. ASSUME NEW a, NEW r, Configure(a, r) PROVE Armed'
  BY <1>0, <1>2 DEF Configure
<1>3. ASSUME NEW v \in Counts, SetShots(v) \/ SetPre(v) \/ SetPost(v) PROVE Armed'
  BY <1>2, <1>3 DEF SetShots, SetPre, SetPost
<1>4. ASSUME NEW s \in SUBSET {"sw", "external"}, SetSrc(s) PROVE Armed'
  BY <1>2, <1>4 DEF SetSrc
<1>5. CASE Read
  <2>1. /\ own /\ own' = own /\ reg' = reg /\ blocks' = blocks
        /\ spoilt' = spoilt
    BY <1>5 DEF Read
  <2>2. ASSUME ~spoilt PROVE FromPost(reg.post) = attr.post
    <3>1. reg.post + 1 \in 0 .. WORD - 1 /\ reg.post + 1 = attr.post
      BY <2>1, <2>2 DEF Follow, PostFollows, ConfTypeOK, Attributes, Registers
    <3> QED
      BY <3>1, ModSmall DEF FromPost
  <2>3. ~spoilt => attr'.pre = attr.pre /\ attr'.post = attr.post
    BY <1>5, <2>1, <2>2 DEF Read, ConfTypeOK, Attributes, Registers, Follow
  <2> QED
    BY <1>1, <2>1, <2>3
<1>6. ASSUME NEW enabled \in BOOLEAN, Enable(enabled) PROVE Armed'
  <2>1. /\ own' = own /\ attr' = attr /\ reg'.shots = reg.shots /\ spoilt' = spoilt
        /\ (blocks' = blocks \/ blocks' = << >>)
    BY <1>6 DEF Enable, ConfTypeOK, Attributes, Registers
  <2> QED
    BY <1>0, <1>1, <2>1
<1>7. ASSUME NEW v \in Counts, Replace(v) PROVE Armed'
  BY <1>0, <1>7 DEF Replace
<1>8. CASE Restore
  BY <1>0, <1>8 DEF Restore
<1>9. CASE Arm /\ blocks' = << >>
  BY <1>0, <1>9
<1>10. CASE Arm /\ blocks' # << >>
  <2>1. /\ own /\ own' = own /\ attr' = attr /\ attr.shots \in Nat
        /\ Accepts(attr.shots) /\ blocks' = Layout(attr.shots)
        /\ reg'.shots = reg.shots
    BY <1>10 DEF Arm, ConfTypeOK, Attributes, Registers
  <2>2. Len(blocks') = attr.shots
    BY <2>1, LayoutType
  <2>3. ASSUME attr.shots < FIELD PROVE reg.shots = attr.shots
    <3>1. attr.shots \in 0 .. FIELD - 1
      BY <2>1, <2>3
    <3> QED
      BY <2>1, <3>1, ModSmall DEF Follow, ToShots
  <2>4. Samples' = Samples /\ TiSamples' = TiSamples /\ BlockSize' = BlockSize
    BY <2>1 DEF Samples, TiSamples, BlockSize
  <2>5. Layout(reg.shots)' = Layout(reg.shots)
    BY <2>1, <2>4 DEF Layout
  <2>6. Overflows(reg.shots, Samples)' = Overflows(reg.shots, Samples)
    BY <2>1, <2>4 DEF Overflows, ShotSize
  <2> QED
    BY <2>1, <2>2, <2>3, <2>4, <2>5, <2>6 DEF Armed, Accepts
<1>11. CASE SoftInput
  BY <1>11 DEF SoftInput, Armed
<1>12. CASE StopCset
  BY <1>0, <1>12 DEF StopCset
<1>13. CASE Finish
  BY <1>0, <1>13 DEF Finish
<1>14. CASE UNCHANGED confVars
  BY <1>1, <1>14 DEF confVars
<1> QED
  BY <1>3, <1>4, <1>5, <1>6, <1>7, <1>8, <1>9, <1>10, <1>11, <1>12, <1>13, <1>14 DEF ConfNext

(* Of the numbers the code computes with, a shot of the core is a block.   *)
LEMMA ShotIsBlock ==
  ASSUME ConfTypeOK, Follow, Armed, own, ~spoilt, blocks # << >>, ~TooBig
  PROVE  /\ BlockSize = CoreShot /\ Samples = reg.pre + reg.post + 1
         /\ Len(blocks) = reg.shots /\ blocks = Layout(reg.shots)
         /\ ~Overflows(reg.shots, Samples)
<1>1. 8 * (attr.pre + attr.post + 2) < WORD /\ Len(blocks) < FIELD
  BY Widths DEF TooBig, ConfTypeOK, Attributes, Registers
<1>2. Samples = attr.pre + attr.post /\ BlockSize = 8 * Samples + 16
  BY <1>1, SamplesExact
<1>3. reg.pre + reg.post + 1 = attr.pre + attr.post
  BY DEF ConfTypeOK, Attributes, Registers, Follow, PostFollows
<1> QED
  BY <1>1, <1>2, <1>3 DEF CoreShot, Armed

LEMMA ArmedImplies == ConfTypeOK /\ Follow /\ Armed => BlocksAreShots /\ CoreFits
<1> SUFFICES ASSUME ConfTypeOK, Follow, Armed, own, ~spoilt, blocks # << >>, ~TooBig
             PROVE  /\ Len(blocks) = reg.shots
                    /\ \A k \in 1 .. Len(blocks) :
                         /\ blocks[k].offset = (k - 1) * CoreShot
                         /\ blocks[k].size = CoreShot
                    /\ reg.shots * CoreShot <= MEMORY
                    /\ reg.shots > 1 => reg.pre + reg.post + 1 <= DPRAM
  BY DEF BlocksAreShots, CoreFits
<1> DEFINE n == reg.shots
           s == BlockSize
<1>1. /\ s = CoreShot /\ Samples = reg.pre + reg.post + 1 /\ s \in Nat
      /\ Len(blocks) = n /\ blocks = Layout(n) /\ ~Overflows(n, Samples) /\ n \in Nat
  BY ShotIsBlock, SizesType, Widths DEF ConfTypeOK, Attributes, Registers
<1>2. \A k \in 1 .. n : blocks[k] = [offset |-> (k - 1) * s, size |-> s]
  BY <1>1, LayoutExact
<1>3. ~(s * n > MEMORY)
  BY <1>1, SameSize DEF Overflows
<1>4. n > 1 => Samples <= DPRAM
  BY <1>1, SizesType, Widths, TrgAssumption DEF Overflows
<1> HIDE DEF s
<1>5. n * s = s * n /\ n * s \in Nat /\ MEMORY \in Nat
  BY <1>1, TrgAssumption
<1>6. n * CoreShot <= MEMORY
  BY <1>1, <1>3, <1>5
<1>7. ASSUME NEW k \in 1 .. Len(blocks)
      PROVE  blocks[k].offset = (k - 1) * CoreShot /\ blocks[k].size = CoreShot
  <2>1. k \in 1 .. n /\ s = CoreShot
    BY <1>1
  <2>2. blocks[k] = [offset |-> (k - 1) * s, size |-> s]
    BY <1>2, <2>1
  <2> QED
    BY <2>1, <2>2
<1>8. n > 1 => reg.pre + reg.post + 1 <= DPRAM
  BY <1>1, <1>4
<1> QED
  BY <1>1, <1>6, <1>7, <1>8

LEMMA InitArmed == ConfInit => Armed
BY DEF ConfInit, Armed

(* The blocks of an armed acquisition are the shots of the core, one by    *)
(* one and to the byte.                                                    *)
THEOREM BlocksAreShotsHolds == ConfSpec => []BlocksAreShots
<1>1. ConfTypeOK /\ Follow /\ [ConfNext]_confVars => Follow'
  BY NextFollow
<1>2. ConfTypeOK /\ Follow /\ Armed /\ [ConfNext]_confVars => Armed'
  BY NextArmed
<1> QED
  BY <1>1, <1>2, InitType, NextType, InitFollow, InitArmed, ArmedImplies, PTL DEF ConfSpec

(* The core of an armed acquisition stays within its memory, and within    *)
(* its buffer when there are several shots.                                *)
THEOREM CoreFitsHolds == ConfSpec => []CoreFits
<1>1. ConfTypeOK /\ Follow /\ [ConfNext]_confVars => Follow'
  BY NextFollow
<1>2. ConfTypeOK /\ Follow /\ Armed /\ [ConfNext]_confVars => Armed'
  BY NextArmed
<1> QED
  BY <1>1, <1>2, InitType, NextType, InitFollow, InitArmed, ArmedImplies, PTL DEF ConfSpec

-----------------------------------------------------------------------------
(* The sources.                                                            *)

LEMMA NextListens == ConfTypeOK /\ ArmedListens /\ [ConfNext]_confVars => ArmedListens'
<1> SUFFICES ASSUME ConfTypeOK, ArmedListens, [ConfNext]_confVars PROVE ArmedListens'
  OBVIOUS
<1>1. ASSUME NEW a, NEW r, Configure(a, r) PROVE ArmedListens'
  BY <1>1 DEF Configure, ArmedListens
<1>2. ASSUME NEW v \in Counts, SetShots(v) \/ SetPre(v) \/ SetPost(v)
      PROVE  ArmedListens'
  BY <1>1, <1>2 DEF SetShots, SetPre, SetPost
<1>3. ASSUME NEW s \in SUBSET {"sw", "external"}, SetSrc(s) PROVE ArmedListens'
  BY <1>1, <1>3 DEF SetSrc
<1>4. CASE Read
  BY <1>4 DEF Read, ArmedListens, ConfTypeOK, Attributes, Registers
<1>5. ASSUME NEW enabled \in BOOLEAN, Enable(enabled) PROVE ArmedListens'
  BY <1>5 DEF Enable, Sources, ArmedListens, ConfTypeOK, Attributes, Registers
<1>6. ASSUME NEW v \in Counts, Replace(v) PROVE ArmedListens'
  BY <1>6 DEF Replace, ArmedListens
<1>7. CASE Restore
  BY <1>7 DEF Restore, ArmedListens
<1>8. CASE Arm
  BY <1>8 DEF Arm, ArmedSources, ArmedListens, ConfTypeOK, Attributes, Registers
<1>9. CASE SoftInput
  BY <1>9 DEF SoftInput, ArmedListens
<1>10. CASE StopCset
  BY <1>10 DEF StopCset, ArmedListens
<1>11. CASE Finish
  BY <1>11 DEF Finish, ArmedListens
<1>12. CASE UNCHANGED confVars
  BY <1>12 DEF confVars, ArmedListens
<1> QED
  BY <1>2, <1>3, <1>4, <1>5, <1>6, <1>7, <1>8, <1>9, <1>10, <1>11, <1>12 DEF ConfNext

(* An armed acquisition can be triggered by the sources the user chose,    *)
(* whatever was configured, disabled or replaced before.                   *)
THEOREM ArmedListensHolds == ConfSpec => []ArmedListens
<1>1. ConfInit => ArmedListens
  BY DEF ConfInit, ArmedListens
<1> QED
  BY <1>1, InitType, NextType, NextListens, PTL DEF ConfSpec
=============================================================================
