---------------------------- MODULE FaAcqProofs ----------------------------
EXTENDS FaAcqProps, TLAPS

(***************************************************************************)
(* What FaAcq guarantees for every value of its constants: both carriers,  *)
(* any user, any failure, any number of shots and blocks.                  *)
(*                                                                         *)
(* Types and counters are one inductive invariant, split by the variables  *)
(* its parts speak of, so that a step is examined once per part.  The last *)
(* theorem needs to know, besides, which job each step of the interrupt    *)
(* context belongs to (JobMatches): the flag may be raised in a step of an *)
(* acquisition's work only because that work is sure to pass through       *)
(* WorkLower or to leave a DMA behind.                                     *)
(***************************************************************************)

(* Who owns the blocks that are held.  A context that fills a vector owns  *)
(* what it put there and nobody gave away; a vector that priv_d points to, *)
(* and nobody fills any more, owns its entries.                            *)
Live(c) == mine[c] - gone[c]
Left    == IF vec \in Contexts /\ ~Filling(vec) THEN nBlk ELSE 0

FillingInv ==
  /\ \A c \in Contexts :
       /\ gone[c] <= mine[c]
       /\ ~Filling(c) => mine[c] = 0 /\ gone[c] = 0
       /\ Filling(c) /\ vec = c => mine[c] = nBlk /\ gone[c] = 0
  /\ vec = "none" => nBlk = 0

(* The types of the counters are inductive with the ownership of blocks:   *)
(* what an abort, the end of a transfer or a failed arming subtracts from  *)
(* the blocks held, when a racing user makes it free some of them again,   *)
(* is in one of these parts.                                               *)
OwnedInv == Live("user") + Live("irq") + Left <= held

WithinBuffer == held + stored <= BufLen

BlockInv == BlockType /\ FillingInv /\ OwnedInv /\ WithinBuffer

(* The interrupt context runs a job exactly when it is not idle, and the   *)
(* steps of fa_irq_work() only for an ACQ_END.                             *)
JobMatches ==
  /\ pc["irq"] = "idle" <=> job = "none"
  /\ pc["irq"] \in {"acqLock", "acqEnd", "poll", "xfer", "lower", "workEnd",
        "ack"}
     => job = "acq"

(* The inductive invariant behind OnlyDeathStrands.                        *)
OwnerInv == JobMatches /\ OnlyDeathStrands

(* A step in which no context begins or ends to fill a vector, and which   *)
(* leaves the blocks alone; and one that gives away what priv_d points to. *)
SameFilling == \A c \in Contexts : Filling(c)' <=> Filling(c)

LEMMA OwnersKept ==
  ASSUME BlockInv, UNCHANGED blocks, SameFilling
  PROVE  FillingInv' /\ OwnedInv' /\ WithinBuffer'
BY DEF BlockInv, FillingInv, OwnedInv, WithinBuffer, Live, Left, SameFilling,
   Contexts, blocks, filling

LEMMA GivenAway ==
  ASSUME BlockInv, GiveAway(nShots), SameFilling, vec = "none" \/ InVector,
         NEW n \in Nat, n <= nShots, stored' = IF vec = "none" THEN stored ELSE stored + n
  PROVE  /\ FillingInv' /\ OwnedInv' /\ WithinBuffer'
         /\ vec' = "none" /\ nBlk' \in Nat /\ held' \in Nat /\ stored' \in Nat
         /\ mine' \in [Contexts -> Nat] /\ gone' \in [Contexts -> Nat]
         /\ stale' \subseteq Contexts
<1> USE ParamAssumption DEF BlockInv, BlockType, FillingInv, OwnedInv, WithinBuffer,
        SameFilling
<1>0. nShots \in Nat
  OBVIOUS
<1>1. CASE vec = "none"
  <2>1. UNCHANGED blocks
    BY <1>1 DEF GiveAway, blocks, filling, Contexts
  <2> QED
    BY <1>1, <2>1, OwnersKept DEF blocks, filling
<1>2. CASE vec # "none"
  <2>0. vec \in Contexts /\ (nShots = 0 \/ nShots <= nBlk)
    BY <1>2 DEF InVector
  <2>1. /\ vec' = "none" /\ nBlk' = 0 /\ held' = held - nShots /\ mine' = mine
        /\ gone' = [c \in Contexts |-> IF vec = c /\ Filling(c) THEN nShots ELSE gone[c]]
        /\ stale' \subseteq Contexts
    BY <1>2 DEF GiveAway
  <2>2. CASE Filling(vec)
    <3>1. mine[vec] = nBlk /\ gone[vec] = 0 /\ Left = 0 /\ Left' = 0
      BY <2>0, <2>1, <2>2 DEF Left, Contexts
    <3>2. /\ gone'[vec] = nShots
          /\ \A c \in Contexts \ {vec} : gone'[c] = gone[c]
      BY <2>0, <2>1, <2>2
    <3>3. nShots <= mine[vec] /\ \A c \in Contexts : gone'[c] <= mine'[c]
      BY <1>0, <2>0, <2>1, <3>1, <3>2
    <3>4. OwnedInv' /\ held' >= 0
      BY <1>0, <2>0, <2>1, <3>1, <3>2, <3>3 DEF Live, Contexts
    <3> QED
      BY <1>0, <1>2, <2>0, <2>1, <2>2, <3>2, <3>3, <3>4 DEF Contexts
  <2>3. CASE ~Filling(vec)
    <3>1. Left = nBlk /\ Left' = 0
      BY <2>0, <2>1, <2>3 DEF Left, Contexts
    <3>2. gone' = gone
      BY <2>1, <2>3
    <3>3. OwnedInv' /\ held' >= 0
      BY <1>0, <2>0, <2>1, <3>1, <3>2 DEF Live, Contexts
    <3> QED
      BY <1>0, <1>2, <2>0, <2>1, <2>3, <3>2, <3>3 DEF Contexts
  <2> QED
    BY <2>2, <2>3
<1> QED
  BY <1>1, <1>2

(* The end of a failed arming.                                             *)
LEMMA VectorDropped ==
  ASSUME ContextType, BlockInv, NEW c \in Contexts, Filling(c), DropVector(c)
  PROVE  /\ FillingInv' /\ OwnedInv' /\ WithinBuffer'
         /\ vec' \in Contexts \cup {"none"}
         /\ nBlk' \in Nat /\ held' \in Nat /\ stored' \in Nat
         /\ mine' \in [Contexts -> Nat] /\ gone' \in [Contexts -> Nat]
         /\ stale' \subseteq Contexts
<1> USE ParamAssumption DEF BlockInv, BlockType, FillingInv, OwnedInv, WithinBuffer
<1>1. /\ mine' = [mine EXCEPT ![c] = 0] /\ gone' = [gone EXCEPT ![c] = 0]
      /\ stale' \subseteq Contexts /\ stored' = stored
      /\ mine'[c] = 0 /\ gone'[c] = 0
  BY DEF DropVector, Forget
<1>2. /\ ~Filling(c)'
      /\ \A other \in Contexts \ {c} :
           /\ Filling(other)' <=> Filling(other)
           /\ mine'[other] = mine[other] /\ gone'[other] = gone[other]
  BY <1>1 DEF ContextType, DropVector, Goto, Filling
<1>3. CASE FreeFilled(c) /\ nBlk' = 0 /\ vec' = "none"
  <2>1. held' = held - Live(c) /\ 0 <= Live(c) /\ Left' = 0 /\ Left \in Nat
    BY <1>3 DEF FreeFilled, Live, Left, Contexts
  <2>2. OwnedInv' /\ held' >= 0
    BY <1>1, <1>2, <2>1 DEF Live, Contexts
  <2> QED
    BY <1>1, <1>2, <1>3, <2>1, <2>2 DEF Contexts, Live
<1>4. CASE UNCHANGED <<held, nBlk, vec>> /\ c \in stale
  <2>1. CASE vec = c
    <3>1. Live(c) = nBlk /\ Left = 0 /\ Live(c)' = 0 /\ Left' = nBlk
      BY <1>1, <1>2, <1>4, <2>1 DEF Live, Left
    <3>2. OwnedInv'
      BY <1>1, <1>2, <1>4, <2>1, <3>1 DEF Live, Contexts
    <3> QED
      BY <1>1, <1>2, <1>4, <2>1, <3>2 DEF Contexts
  <2>2. CASE vec # c
    <3>1. Live(c) >= 0 /\ Live(c)' = 0 /\ Left' = Left
      BY <1>1, <1>2, <1>4, <2>2 DEF Live, Left, Contexts
    <3>2. OwnedInv'
      BY <1>1, <1>2, <1>4, <3>1 DEF Live, Left, Contexts
    <3> QED
      BY <1>1, <1>2, <1>4, <2>2, <3>2 DEF Contexts
  <2> QED
    BY <2>1, <2>2
<1> QED
  BY <1>3, <1>4 DEF DropVector

(* No step breaks the types of the counters or the ownership of blocks.    *)
LEMMA BlocksStep ==
  ASSUME ContextType, BlockInv, [Next]_vars PROVE BlockInv'
<1> USE ParamAssumption DEF BlockInv, BlockType, vars, ctl, counts, blocks, filling,
         flags, sw, core, irqs, SameFilling, Filling, Goto, ContextType, Contexts
<1>1. ASSUME NEW command \in {"START", "STOP"}, UserFsmCommand(command)
      PROVE BlockInv'
  BY <1>1, OwnersKept DEF UserFsmCommand, Call
<1>2. CASE UserAutoStart
  BY <1>2, OwnersKept DEF UserAutoStart
<1>3. CASE UserShots
  BY <1>3, OwnersKept DEF UserShots
<1>4. CASE UserDisable
  <2>1. SameFilling /\ 0 <= nShots /\ 0 \in Nat
    BY <1>4 DEF UserDisable, AbortDisable, Fault
  <2>2. CASE GiveAway(nShots) /\ (InVector \/ vec = "none") /\ stored' = stored
    BY <1>4, <2>1, <2>2, GivenAway DEF UserDisable, AbortDisable, Fault
  <2>3. CASE UNCHANGED blocks
    BY <1>4, <2>1, <2>3, OwnersKept DEF UserDisable, AbortDisable, Fault
  <2> QED
    BY <1>4, <2>2, <2>3 DEF UserDisable, AbortDisable, Fault
<1>5. CASE SrcOff
  BY <1>5, OwnersKept DEF SrcOff
<1>6. CASE UserEnable
  BY <1>6, OwnersKept DEF UserEnable
<1>7. CASE UserRead
  BY <1>7 DEF UserRead, FillingInv, OwnedInv, WithinBuffer, Live, Left
<1>8. ASSUME NEW c \in Contexts, Fsm(c) PROVE BlockInv'
  <2>1. CASE FsmAbort(c)
    <3>1. SameFilling /\ 0 <= nShots /\ 0 \in Nat
      BY <2>1 DEF FsmAbort, AbortDisable, Fault
    <3>2. CASE GiveAway(nShots) /\ (InVector \/ vec = "none") /\ stored' = stored
      BY <2>1, <3>1, <3>2, GivenAway DEF FsmAbort, AbortDisable, Fault
    <3>3. CASE UNCHANGED blocks
      BY <2>1, <3>1, <3>3, OwnersKept DEF FsmAbort, AbortDisable, Fault
    <3> QED
      BY <2>1, <3>2, <3>3 DEF FsmAbort, AbortDisable, Fault
  <2>2. CASE FsmReset(c)
    BY <2>2, OwnersKept DEF FsmReset, Return
  <2>3. CASE FsmMask(c)
    BY <2>3, OwnersKept DEF FsmMask, DisableIrqs
  <2>4. CASE FsmArm(c)
    BY <2>4, OwnersKept DEF FsmArm
  <2>5. CASE FsmAlloc(c)
    <3>1. /\ mine' = mine /\ gone' = gone /\ stale' = stale /\ held' = held
          /\ stored' = stored /\ mine[c] = 0 /\ gone[c] = 0
      BY <2>5 DEF FsmAlloc, FillingInv
    <3>2. CASE Goto(c, "armfail") /\ UNCHANGED <<vec, nBlk>>
      BY <2>5, <3>1, <3>2, OwnersKept DEF FsmAlloc
    <3>3. CASE Goto(c, "fill") /\ vec' = c /\ nBlk' = 0
      <4>1. Filling(c)' /\ \A other \in Contexts \ {c} : Filling(other)' <=> Filling(other)
        BY <2>5, <3>3 DEF FsmAlloc
      <4>2. Left' = 0 /\ Left \in Nat
        BY <3>3, <4>1 DEF Left
      <4>3. OwnedInv'
        <5>1. \A b \in Contexts : Live(b)' = Live(b) /\ Live(b) \in Int
          BY <3>1 DEF Live
        <5> QED
          BY <3>1, <4>2, <5>1 DEF OwnedInv
      <4> QED
        BY <2>5, <3>1, <3>3, <4>1, <4>3 DEF FsmAlloc, FillingInv, WithinBuffer
    <3> QED
      BY <2>5, <3>2, <3>3 DEF FsmAlloc
  <2>6. CASE FsmFill(c)
    <3>1. CASE DropVector(c)
      BY <2>6, <3>1, VectorDropped DEF FsmFill
    <3>2. CASE Goto(c, "rawio") /\ UNCHANGED blocks
      BY <2>6, <3>2, OwnersKept DEF FsmFill
    <3>3. CASE /\ held + stored < BufLen
               /\ mine' = [mine EXCEPT ![c] = @ + 1] /\ held' = held + 1
               /\ nBlk' = IF vec = c THEN nBlk + 1 ELSE nBlk
               /\ UNCHANGED <<pc, vec, stored, gone, stale>>
      <4>1. SameFilling /\ Filling(c)
        BY <2>6, <3>3 DEF FsmFill
      <4>2. /\ mine'[c] = mine[c] + 1 /\ held' = held + 1 /\ vec' = vec
            /\ \A other \in Contexts \ {c} : mine'[other] = mine[other]
            /\ gone' = gone /\ stale' = stale /\ stored' = stored
        BY <3>3
      <4>3. Left' = Left /\ Left \in Nat
        BY <3>3, <4>1 DEF Left
      <4>4. OwnedInv'
        <5>1. /\ Live(c)' = Live(c) + 1 /\ \A b \in Contexts : Live(b) \in Int
              /\ \A other \in Contexts \ {c} : Live(other)' = Live(other)
          BY <4>2 DEF Live
        <5> QED
          BY <3>3, <4>3, <5>1 DEF OwnedInv
      <4> QED
        BY <2>6, <3>3, <4>1, <4>2, <4>4 DEF FsmFill, FillingInv, WithinBuffer
    <3> QED
      BY <2>6, <3>1, <3>2, <3>3 DEF FsmFill
  <2>7. CASE FsmRawIo(c)
    <3>1. CASE DropVector(c)
      BY <2>7, <3>1, VectorDropped DEF FsmRawIo
    <3>2. CASE Goto(c, "armcheck") /\ Forget(c) /\ UNCHANGED <<vec, nBlk, held, stored>>
      BY <2>7, <3>2 DEF FsmRawIo, Forget, FillingInv, OwnedInv, WithinBuffer, Live, Left
    <3> QED
      BY <2>7, <3>1, <3>2 DEF FsmRawIo
  <2>8. CASE FsmArmFail(c)
    BY <2>8, OwnersKept DEF FsmArmFail
  <2>9. CASE FsmArmCheck(c)
    BY <2>9, OwnersKept DEF FsmArmCheck, Return
  <2>10. CASE FsmUnmask(c)
    BY <2>10, OwnersKept DEF FsmUnmask, EnableIrqs
  <2>11. CASE FsmCmd(c)
    BY <2>11, OwnersKept DEF FsmCmd, Return
  <2> QED BY <1>8, <2>1, <2>2, <2>3, <2>4, <2>5, <2>6, <2>7, <2>8, <2>9, <2>10,
        <2>11 DEF Fsm
<1>9. ASSUME Irq PROVE BlockInv'
  <2>1. CASE IrqEnter
    BY <2>1, OwnersKept DEF IrqEnter
  <2>2. CASE IrqAcqEnd
    BY <2>2, OwnersKept DEF IrqAcqEnd, RecordIrq
  <2>3. CASE WorkAcqEnd
    BY <2>3, OwnersKept DEF WorkAcqEnd, FiredShots
  <2>4. CASE WorkPoll
    BY <2>4, OwnersKept DEF WorkPoll, DisableSources
  <2>5. CASE SpecDmaStart
    BY <2>5, OwnersKept DEF SpecDmaStart
  <2>6. CASE SvecDmaShot
    BY <2>6, OwnersKept DEF SvecDmaShot
  <2>7. CASE DmaDone
    BY <2>7, OwnersKept DEF DmaDone, ReleaseSg
  <2>8. CASE DataDone
    <3>1. SameFilling /\ Filled \in Nat /\ Filled <= nShots
      BY <2>8 DEF DataDone, Filled
    <3>2. CASE vec # "none" /\ InVector /\ GiveAway(nShots) /\ stored' = stored + Filled
      BY <2>8, <3>1, <3>2, GivenAway DEF DataDone
    <3>3. CASE UNCHANGED blocks
      BY <2>8, <3>1, <3>3, OwnersKept DEF DataDone
    <3> QED
      BY <2>8, <3>2, <3>3 DEF DataDone
  <2>9. CASE DmaDoneSrc
    BY <2>9, OwnersKept DEF DmaDoneSrc, AfterDone
  <2>10. CASE WorkLower
    BY <2>10, OwnersKept DEF WorkLower, LowerBusy
  <2>11. CASE WorkEnd
    BY <2>11, OwnersKept DEF WorkEnd, Call
  <2>12. CASE DmaError
    BY <2>12, OwnersKept DEF DmaError, ReleaseSg, Call
  <2>13. CASE Ack
    BY <2>13, OwnersKept DEF Ack, IrqDone
  <2>14. CASE IrqDma
    BY <2>14, OwnersKept DEF IrqDma, Call
  <2>15. CASE IrqDmaOut
    BY <2>15, OwnersKept DEF IrqDmaOut, LowerBusy, IrqDone
  <2> QED BY <1>9, <2>1, <2>2, <2>3, <2>4, <2>5, <2>6, <2>7, <2>8, <2>9, <2>10,
        <2>11, <2>12, <2>13, <2>14, <2>15 DEF Irq
<1>10. CASE HwFire
  BY <1>10, OwnersKept DEF HwFire
<1>11. CASE HwAcqEnd
  BY <1>11, OwnersKept DEF HwAcqEnd
<1>12. CASE HwDmaEnd
  BY <1>12, OwnersKept DEF HwDmaEnd
<1>13. CASE UNCHANGED vars
  BY <1>13, OwnersKept
<1> QED BY <1>1, <1>2, <1>3, <1>4, <1>5, <1>6, <1>7, <1>8, <1>9, <1>10, <1>11,
      <1>12, <1>13 DEF Next

(* No step of either context leaves the code it is in.                     *)
LEMMA ContextStep ==
  ASSUME ContextType, [Next]_vars PROVE ContextType'
<1> USE ParamAssumption DEF ContextType, Contexts, Steps, FsmSteps, AcqSteps,
         vars, ctl, counts, blocks, filling, flags, sw, core, irqs
<1>1. ASSUME NEW command \in {"START", "STOP"}, UserFsmCommand(command)
      PROVE ContextType'
  BY <1>1 DEF UserFsmCommand, Call, Goto
<1>2. CASE UserAutoStart
  BY <1>2 DEF UserAutoStart, Goto
<1>3. CASE UserShots
  BY <1>3 DEF UserShots, Goto
<1>4. CASE UserDisable
  BY <1>4 DEF UserDisable, AbortDisable, Fault, Goto
<1>5. CASE SrcOff
  BY <1>5 DEF SrcOff, Goto
<1>6. CASE UserEnable
  BY <1>6 DEF UserEnable, Goto
<1>7. CASE UserRead
  BY <1>7 DEF UserRead
<1>8. ASSUME NEW c \in Contexts, Fsm(c) PROVE ContextType'
  <2>1. CASE FsmAbort(c)
    BY <2>1 DEF FsmAbort, AbortDisable, Fault, Goto
  <2>2. CASE FsmReset(c)
    BY <2>2 DEF FsmReset, Return, Goto
  <2>3. CASE FsmMask(c)
    BY <2>3 DEF FsmMask, DisableIrqs, Goto
  <2>4. CASE FsmArm(c)
    BY <2>4 DEF FsmArm, Goto
  <2>5. CASE FsmAlloc(c)
    BY <2>5 DEF FsmAlloc, Goto
  <2>6. CASE FsmFill(c)
    BY <2>6 DEF FsmFill, DropVector, Goto
  <2>7. CASE FsmRawIo(c)
    BY <2>7 DEF FsmRawIo, DropVector, Goto
  <2>8. CASE FsmArmFail(c)
    BY <2>8 DEF FsmArmFail, Goto
  <2>9. CASE FsmArmCheck(c)
    BY <2>9 DEF FsmArmCheck, Return, Goto
  <2>10. CASE FsmUnmask(c)
    BY <2>10 DEF FsmUnmask, EnableIrqs, Goto
  <2>11. CASE FsmCmd(c)
    BY <2>11 DEF FsmCmd, Return, Goto
  <2> QED BY <1>8, <2>1, <2>2, <2>3, <2>4, <2>5, <2>6, <2>7, <2>8, <2>9, <2>10,
        <2>11 DEF Fsm
<1>9. ASSUME Irq PROVE ContextType'
  <2>1. CASE IrqEnter
    BY <2>1 DEF IrqEnter, Goto
  <2>2. CASE IrqAcqEnd
    BY <2>2 DEF IrqAcqEnd, RecordIrq, Goto
  <2>3. CASE WorkAcqEnd
    BY <2>3 DEF WorkAcqEnd, Goto
  <2>4. CASE WorkPoll
    BY <2>4 DEF WorkPoll, DisableSources, Goto
  <2>5. CASE SpecDmaStart
    BY <2>5 DEF SpecDmaStart, Goto
  <2>6. CASE SvecDmaShot
    BY <2>6 DEF SvecDmaShot, Goto
  <2>7. CASE DmaDone
    BY <2>7 DEF DmaDone, ReleaseSg, Goto
  <2>8. CASE DataDone
    BY <2>8 DEF DataDone, Goto
  <2>9. CASE DmaDoneSrc
    BY <2>9 DEF DmaDoneSrc, AfterDone, Goto
  <2>10. CASE WorkLower
    BY <2>10 DEF WorkLower, LowerBusy, Goto
  <2>11. CASE WorkEnd
    BY <2>11 DEF WorkEnd, Call, Goto
  <2>12. CASE DmaError
    BY <2>12 DEF DmaError, ReleaseSg, Call, Goto
  <2>13. CASE Ack
    BY <2>13 DEF Ack, IrqDone, Goto
  <2>14. CASE IrqDma
    BY <2>14 DEF IrqDma, Call, Goto
  <2>15. CASE IrqDmaOut
    BY <2>15 DEF IrqDmaOut, LowerBusy, IrqDone, Goto
  <2> QED BY <1>9, <2>1, <2>2, <2>3, <2>4, <2>5, <2>6, <2>7, <2>8, <2>9, <2>10,
        <2>11, <2>12, <2>13, <2>14, <2>15 DEF Irq
<1>10. CASE HwFire
  BY <1>10 DEF HwFire
<1>11. CASE HwAcqEnd
  BY <1>11 DEF HwAcqEnd
<1>12. CASE HwDmaEnd
  BY <1>12 DEF HwDmaEnd
<1>13. CASE UNCHANGED vars
  BY <1>13
<1> QED BY <1>1, <1>2, <1>3, <1>4, <1>5, <1>6, <1>7, <1>8, <1>9, <1>10, <1>11,
      <1>12, <1>13 DEF Next

(* No step breaks the types of the state machines' variables.              *)
LEMMA EnumStep ==
  ASSUME EnumType, [Next]_vars PROVE EnumType'
<1> USE ParamAssumption DEF EnumType,
         vars, ctl, counts, blocks, filling, flags, sw, core, irqs
<1>1. ASSUME NEW command \in {"START", "STOP"}, UserFsmCommand(command)
      PROVE EnumType'
  BY <1>1 DEF UserFsmCommand, Call
<1>2. CASE UserAutoStart
  BY <1>2 DEF UserAutoStart
<1>3. CASE UserShots
  BY <1>3 DEF UserShots
<1>4. CASE UserDisable
  BY <1>4 DEF UserDisable, AbortDisable, Fault
<1>5. CASE SrcOff
  BY <1>5 DEF SrcOff
<1>6. CASE UserEnable
  BY <1>6 DEF UserEnable
<1>7. CASE UserRead
  BY <1>7 DEF UserRead
<1>8. ASSUME NEW c \in Contexts, Fsm(c) PROVE EnumType'
  <2>1. CASE FsmAbort(c)
    BY <2>1 DEF FsmAbort, AbortDisable, Fault
  <2>2. CASE FsmReset(c)
    BY <2>2 DEF FsmReset, Return
  <2>3. CASE FsmMask(c)
    BY <2>3 DEF FsmMask, DisableIrqs
  <2>4. CASE FsmArm(c)
    BY <2>4 DEF FsmArm
  <2>5. CASE FsmAlloc(c)
    BY <2>5 DEF FsmAlloc
  <2>6. CASE FsmFill(c)
    BY <2>6 DEF FsmFill, DropVector
  <2>7. CASE FsmRawIo(c)
    BY <2>7 DEF FsmRawIo, DropVector
  <2>8. CASE FsmArmFail(c)
    BY <2>8 DEF FsmArmFail
  <2>9. CASE FsmArmCheck(c)
    BY <2>9 DEF FsmArmCheck, Return
  <2>10. CASE FsmUnmask(c)
    BY <2>10 DEF FsmUnmask, EnableIrqs
  <2>11. CASE FsmCmd(c)
    BY <2>11 DEF FsmCmd, Return
  <2> QED BY <1>8, <2>1, <2>2, <2>3, <2>4, <2>5, <2>6, <2>7, <2>8, <2>9, <2>10,
        <2>11 DEF Fsm
<1>9. ASSUME Irq PROVE EnumType'
  <2>1. CASE IrqEnter
    BY <2>1 DEF IrqEnter
  <2>2. CASE IrqAcqEnd
    BY <2>2 DEF IrqAcqEnd, RecordIrq
  <2>3. CASE WorkAcqEnd
    BY <2>3 DEF WorkAcqEnd
  <2>4. CASE WorkPoll
    BY <2>4 DEF WorkPoll, DisableSources
  <2>5. CASE SpecDmaStart
    BY <2>5 DEF SpecDmaStart
  <2>6. CASE SvecDmaShot
    BY <2>6 DEF SvecDmaShot
  <2>7. CASE DmaDone
    BY <2>7 DEF DmaDone, ReleaseSg
  <2>8. CASE DataDone
    BY <2>8 DEF DataDone
  <2>9. CASE DmaDoneSrc
    BY <2>9 DEF DmaDoneSrc, AfterDone
  <2>10. CASE WorkLower
    BY <2>10 DEF WorkLower, LowerBusy
  <2>11. CASE WorkEnd
    BY <2>11 DEF WorkEnd, Call
  <2>12. CASE DmaError
    BY <2>12 DEF DmaError, ReleaseSg, Call
  <2>13. CASE Ack
    BY <2>13 DEF Ack, IrqDone
  <2>14. CASE IrqDma
    BY <2>14 DEF IrqDma, Call, NothingProgrammed
  <2>15. CASE IrqDmaOut
    BY <2>15 DEF IrqDmaOut, LowerBusy, IrqDone
  <2> QED BY <1>9, <2>1, <2>2, <2>3, <2>4, <2>5, <2>6, <2>7, <2>8, <2>9, <2>10,
        <2>11, <2>12, <2>13, <2>14, <2>15 DEF Irq
<1>10. CASE HwFire
  BY <1>10 DEF HwFire
<1>11. CASE HwAcqEnd
  BY <1>11 DEF HwAcqEnd
<1>12. CASE HwDmaEnd
  BY <1>12 DEF HwDmaEnd
<1>13. CASE UNCHANGED vars
  BY <1>13
<1> QED BY <1>1, <1>2, <1>3, <1>4, <1>5, <1>6, <1>7, <1>8, <1>9, <1>10, <1>11,
      <1>12, <1>13 DEF Next

(* No step breaks the types of the flags.                                  *)
LEMMA FlagStep ==
  ASSUME FlagType, [Next]_vars PROVE FlagType'
<1> USE ParamAssumption DEF FlagType,
         vars, ctl, counts, blocks, filling, flags, sw, core, irqs
<1>1. ASSUME NEW command \in {"START", "STOP"}, UserFsmCommand(command)
      PROVE FlagType'
  BY <1>1 DEF UserFsmCommand, Call
<1>2. CASE UserAutoStart
  BY <1>2 DEF UserAutoStart
<1>3. CASE UserShots
  BY <1>3 DEF UserShots
<1>4. CASE UserDisable
  BY <1>4 DEF UserDisable, AbortDisable, Fault
<1>5. CASE SrcOff
  BY <1>5 DEF SrcOff
<1>6. CASE UserEnable
  BY <1>6 DEF UserEnable
<1>7. CASE UserRead
  BY <1>7 DEF UserRead
<1>8. ASSUME NEW c \in Contexts, Fsm(c) PROVE FlagType'
  <2>1. CASE FsmAbort(c)
    BY <2>1 DEF FsmAbort, AbortDisable, Fault
  <2>2. CASE FsmReset(c)
    BY <2>2 DEF FsmReset, Return
  <2>3. CASE FsmMask(c)
    BY <2>3 DEF FsmMask, DisableIrqs
  <2>4. CASE FsmArm(c)
    BY <2>4 DEF FsmArm
  <2>5. CASE FsmAlloc(c)
    BY <2>5 DEF FsmAlloc
  <2>6. CASE FsmFill(c)
    BY <2>6 DEF FsmFill, DropVector
  <2>7. CASE FsmRawIo(c)
    BY <2>7 DEF FsmRawIo, DropVector
  <2>8. CASE FsmArmFail(c)
    BY <2>8 DEF FsmArmFail
  <2>9. CASE FsmArmCheck(c)
    BY <2>9 DEF FsmArmCheck, Return
  <2>10. CASE FsmUnmask(c)
    BY <2>10 DEF FsmUnmask, EnableIrqs
  <2>11. CASE FsmCmd(c)
    BY <2>11 DEF FsmCmd, Return
  <2> QED BY <1>8, <2>1, <2>2, <2>3, <2>4, <2>5, <2>6, <2>7, <2>8, <2>9, <2>10,
        <2>11 DEF Fsm
<1>9. ASSUME Irq PROVE FlagType'
  <2>1. CASE IrqEnter
    BY <2>1 DEF IrqEnter
  <2>2. CASE IrqAcqEnd
    BY <2>2 DEF IrqAcqEnd, RecordIrq, RaiseBusy
  <2>3. CASE WorkAcqEnd
    BY <2>3 DEF WorkAcqEnd
  <2>4. CASE WorkPoll
    BY <2>4 DEF WorkPoll, DisableSources
  <2>5. CASE SpecDmaStart
    BY <2>5 DEF SpecDmaStart
  <2>6. CASE SvecDmaShot
    BY <2>6 DEF SvecDmaShot
  <2>7. CASE DmaDone
    BY <2>7 DEF DmaDone, ReleaseSg
  <2>8. CASE DataDone
    BY <2>8 DEF DataDone
  <2>9. CASE DmaDoneSrc
    BY <2>9 DEF DmaDoneSrc, AfterDone
  <2>10. CASE WorkLower
    BY <2>10 DEF WorkLower, LowerBusy
  <2>11. CASE WorkEnd
    BY <2>11 DEF WorkEnd, Call
  <2>12. CASE DmaError
    BY <2>12 DEF DmaError, ReleaseSg, Call
  <2>13. CASE Ack
    BY <2>13 DEF Ack, IrqDone
  <2>14. CASE IrqDma
    BY <2>14 DEF IrqDma, Call, NothingProgrammed
  <2>15. CASE IrqDmaOut
    BY <2>15 DEF IrqDmaOut, LowerBusy, IrqDone
  <2> QED BY <1>9, <2>1, <2>2, <2>3, <2>4, <2>5, <2>6, <2>7, <2>8, <2>9, <2>10,
        <2>11, <2>12, <2>13, <2>14, <2>15 DEF Irq
<1>10. CASE HwFire
  BY <1>10 DEF HwFire
<1>11. CASE HwAcqEnd
  BY <1>11 DEF HwAcqEnd
<1>12. CASE HwDmaEnd
  BY <1>12 DEF HwDmaEnd
<1>13. CASE UNCHANGED vars
  BY <1>13
<1> QED BY <1>1, <1>2, <1>3, <1>4, <1>5, <1>6, <1>7, <1>8, <1>9, <1>10, <1>11,
      <1>12, <1>13 DEF Next

(* The types, and the ownership of blocks, in every behaviour.             *)
LEMMA TypesAndBlocks == Spec => []TypeOK /\ []WithinBuffer
<1> DEFINE Inv == ContextType /\ BlockInv /\ EnumType /\ FlagType
<1>1. Init => Inv
  <2> USE ParamAssumption DEF Init
  <2>1. Init => ContextType
    BY DEF ContextType, Contexts, Steps
  <2>2. Init => BlockInv
    BY DEF BlockInv, BlockType, FillingInv, OwnedInv, WithinBuffer, Live, Left,
       Filling, Contexts
  <2>3. Init => EnumType
    BY DEF EnumType
  <2>4. Init => FlagType
    BY DEF FlagType
  <2> QED BY <2>1, <2>2, <2>3, <2>4
<1>2. Inv /\ [Next]_vars => Inv'
  BY BlocksStep, ContextStep, EnumStep, FlagStep
<1>3. Inv => TypeOK /\ WithinBuffer
  BY DEF BlockInv, TypeOK
<1> QED BY <1>1, <1>2, <1>3, PTL DEF Spec

(* The type invariant for any user: the counters of shots never leave the  *)
(* range of unsigned int, and the blocks held are never fewer than none,   *)
(* where a block that a racing context frees a second time, the one that   *)
(* was taken from under it, is subtracted once.                            *)
THEOREM TypeOKHolds == Spec => []TypeOK
BY TypesAndBlocks, PTL

(* No step leaves HW_BUSY raised without somebody to lower it.             *)
LEMMA OwnerStep ==
  ASSUME OwnerInv, TypeOK, [Next]_vars PROVE OwnerInv'
<1> USE ParamAssumption DEF OwnerInv, JobMatches, OnlyDeathStrands, WillLower, TypeOK,
      ContextType, EnumType, Contexts, FsmSteps, AcqSteps,
         vars, ctl, counts, blocks, filling, flags, sw, core, irqs
<1>1. ASSUME NEW command \in {"START", "STOP"}, UserFsmCommand(command)
      PROVE OwnerInv'
  BY <1>1 DEF UserFsmCommand, Call, Goto
<1>2. CASE UserAutoStart
  BY <1>2 DEF UserAutoStart, Goto
<1>3. CASE UserShots
  BY <1>3 DEF UserShots, Goto
<1>4. CASE UserDisable
  BY <1>4 DEF UserDisable, AbortDisable, Fault, Goto
<1>5. CASE SrcOff
  BY <1>5 DEF SrcOff, Goto
<1>6. CASE UserEnable
  BY <1>6 DEF UserEnable, Goto
<1>7. CASE UserRead
  BY <1>7 DEF UserRead
<1>8. ASSUME NEW c \in Contexts, Fsm(c) PROVE OwnerInv'
  <2>1. CASE FsmAbort(c)
    BY <2>1 DEF FsmAbort, AbortDisable, Fault, Goto
  <2>2. CASE FsmReset(c)
    BY <2>2 DEF FsmReset, Return, Goto
  <2>3. CASE FsmMask(c)
    BY <2>3 DEF FsmMask, DisableIrqs, Goto
  <2>4. CASE FsmArm(c)
    BY <2>4 DEF FsmArm, Goto
  <2>5. CASE FsmAlloc(c)
    BY <2>5 DEF FsmAlloc, Goto
  <2>6. CASE FsmFill(c)
    BY <2>6 DEF FsmFill, DropVector, Goto
  <2>7. CASE FsmRawIo(c)
    BY <2>7 DEF FsmRawIo, DropVector, Goto
  <2>8. CASE FsmArmFail(c)
    BY <2>8 DEF FsmArmFail, Goto
  <2>9. CASE FsmArmCheck(c)
    BY <2>9 DEF FsmArmCheck, Return, Goto
  <2>10. CASE FsmUnmask(c)
    BY <2>10 DEF FsmUnmask, EnableIrqs, Goto
  <2>11. CASE FsmCmd(c)
    BY <2>11 DEF FsmCmd, Return, Goto
  <2> QED BY <1>8, <2>1, <2>2, <2>3, <2>4, <2>5, <2>6, <2>7, <2>8, <2>9, <2>10,
        <2>11 DEF Fsm
<1>9. ASSUME Irq PROVE OwnerInv'
  <2>1. CASE IrqEnter
    BY <2>1 DEF IrqEnter, Goto
  <2>2. CASE IrqAcqEnd
    BY <2>2 DEF IrqAcqEnd, RecordIrq, Goto
  <2>3. CASE WorkAcqEnd
    BY <2>3 DEF WorkAcqEnd, Goto
  <2>4. CASE WorkPoll
    BY <2>4 DEF WorkPoll, DisableSources, Goto
  <2>5. CASE SpecDmaStart
    BY <2>5 DEF SpecDmaStart, Goto
  <2>6. CASE SvecDmaShot
    BY <2>6 DEF SvecDmaShot, Goto
  <2>7. CASE DmaDone
    BY <2>7 DEF DmaDone, ReleaseSg, Goto
  <2>8. CASE DataDone
    BY <2>8 DEF DataDone, Goto
  <2>9. CASE DmaDoneSrc
    BY <2>9 DEF DmaDoneSrc, AfterDone, Goto
  <2>10. CASE WorkLower
    BY <2>10 DEF WorkLower, LowerBusy, Goto
  <2>11. CASE WorkEnd
    BY <2>11 DEF WorkEnd, Call, Goto
  <2>12. CASE DmaError
    BY <2>12 DEF DmaError, ReleaseSg, Call, Goto
  <2>13. CASE Ack
    BY <2>13 DEF Ack, IrqDone, Goto
  <2>14. CASE IrqDma
    BY <2>14 DEF IrqDma, Call, Goto, NothingProgrammed
  <2>15. CASE IrqDmaOut
    BY <2>15 DEF IrqDmaOut, LowerBusy, IrqDone, Goto
  <2> QED BY <1>9, <2>1, <2>2, <2>3, <2>4, <2>5, <2>6, <2>7, <2>8, <2>9, <2>10,
        <2>11, <2>12, <2>13, <2>14, <2>15 DEF Irq
<1>10. CASE HwFire
  BY <1>10 DEF HwFire
<1>11. CASE HwAcqEnd
  BY <1>11 DEF HwAcqEnd
<1>12. CASE HwDmaEnd
  BY <1>12 DEF HwDmaEnd
<1>13. CASE UNCHANGED vars
  BY <1>13
<1> QED BY <1>1, <1>2, <1>3, <1>4, <1>5, <1>6, <1>7, <1>8, <1>9, <1>10, <1>11,
      <1>12, <1>13 DEF Next

(* Whatever the user does and whatever fails, ZIO_CSET_HW_BUSY is left     *)
(* raised with nobody to lower it only where the interrupt's thread died.  *)
THEOREM OnlyDeathStrandsHolds == Spec => []OnlyDeathStrands
<1>1. Init => OwnerInv
  BY DEF Init, OwnerInv, JobMatches, OnlyDeathStrands, WillLower, Contexts
<1>2. OwnerInv /\ TypeOK /\ [Next]_vars => OwnerInv'
  BY OwnerStep
<1>3. OwnerInv => OnlyDeathStrands
  BY DEF OwnerInv
<1> QED BY <1>1, <1>2, <1>3, TypeOKHolds, PTL DEF Spec
=============================================================================
