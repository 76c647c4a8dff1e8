---------------------------- MODULE FaAcqCareful ----------------------------
(***************************************************************************)
(* What a careful user may rely on, for every number of shots and blocks   *)
(* and on both carriers: the properties of a careful use, and that the     *)
(* driver implements AcqSession.                                           *)
(*                                                                         *)
(* CarefulInv says who may touch an acquisition when.  A START has the     *)
(* machine for itself; a stop or a disable meets no automatic start; and   *)
(* from RaiseBusy to the delivery ZIO_CSET_HW_BUSY keeps both out.         *)
(***************************************************************************)
EXTENDS FaAcqProofs

(* The user is careful, ZIO's abort waits for HW_BUSY, and shots fit their *)
(* counter.  The carrier, what the user writes and what fails are free.    *)
CarefulUse ==
  /\ Careful /\ BusyAbort = "wait"
  /\ ShotChoices \subseteq 1 .. UINT - 1

(* A SPEC transfer can always be started: the run spec_error shows what    *)
(* becomes of one that cannot.                                             *)
SpecStarts == "SPEC" \in Carriers => "xfer" \notin Failures \ NotOnSpec

Running(c, command) == pc[c] \in FsmSteps /\ cmd[c] = command

(* An acquisition is in the hands of the interrupt's work or of the DMA.   *)
Handling == \/ pc["irq"] \in {"acqEnd", "poll", "xfer", "dmaDone", "dataDone"}
            \/ dma # "idle" \/ DmaFailed

(* A START is past the abort it begins with.                               *)
Starting(c) == Running(c, "START") /\ pc[c] # "abort"

(* Where each context may be, with which command, and beside whom.         *)
ControlInv ==
  /\ pc["user"] \in {"idle", "srcOff"} \cup FsmSteps
  /\ pc["irq"] # "srcOff"
  /\ job = "none" <=> pc["irq"] = "idle"
  /\ \A c \in Contexts :
       /\ pc[c] \in FsmSteps \ {"abort", "reset", "mask", "cmd"}
            => cmd[c] = "START"
       /\ pc[c] = "mask" => cmd[c] = "STOP"
  /\ Running("user", "START") => pc["irq"] = "idle" /\ dma = "idle"
  /\ Running("user", "STOP") \/ pc["user"] = "srcOff"
       => ~autoStart /\ ~Running("irq", "START")
  /\ pc["irq"] \in FsmSteps => (cmd["irq"] = "STOP" <=> res = "err" \/ job = "dma")
  /\ res = "err" => pc["irq"] \in {"lower", "dmaErr", "ack", "oops"} \cup FsmSteps
  /\ pc["irq"] = "dmaErr" => res = "err" \/ job = "dma"

(* What each carrier takes part in.  On a SPEC a command of the work or of *)
(* the handler waits in its abort for the flag that only they can lower,   *)
(* and a transfer that did not start ends them.                            *)
CarrierInv ==
  /\ job \notin {"warn", "drop"}
  /\ carrier = "SVEC" =>
       dma = "idle" /\ job # "dma" /\ pc["irq"] \notin {"out", "oops"}
  /\ carrier = "SPEC" =>
       /\ pc["irq"] \in FsmSteps =>
            pc["irq"] = "abort" /\ (dma # "idle" \/ job = "dma")
       /\ pc["irq"] = "workEnd" => dma # "idle"
       /\ pc["irq"] \in {"dmaDone", "dataDone", "doneSrc", "out"} => job = "dma"
       /\ job = "dma" => \/ pc["irq"] \in {"dmaDone", "dataDone", "doneSrc", "out"}
                         \/ DmaFailed
       /\ job = "dma" \/ res = "err" => dma = "idle"
       /\ res = "err" => job = "acq" /\ pc["irq"] \in {"lower", "dmaErr", "oops"}
       /\ pc["irq"] \in {"lower", "oops"} => res = "err"
       /\ pc["irq"] = "oops" => "xfer" \in Failures \ NotOnSpec
       /\ res = "err" => "xfer" \in Failures \ NotOnSpec
       /\ sgLive <=> \/ dma # "idle" \/ pc["irq"] = "dmaDone"
                     \/ DmaFailed /\ pc["irq"] = "dmaErr"
       /\ dma # "idle" => pc["irq"] \in {"idle", "workEnd", "ack", "abort"}
       /\ dma # "idle" \/ pc["irq"] \in {"acqEnd", "poll", "xfer"}
            => lastIrq = "adc"

(* The ADC core rests while an acquisition is handled or one is started.   *)
CoreInv ==
  /\ dma # "idle" \/ pc["irq"] \notin {"idle", "ack"} \/ Running("user", "START")
       => fsm = "IDLE" /\ ~adcPend
  /\ adcPend => fsm = "IDLE"
  /\ adcPend \/ pc["irq"] \in {"acqLock", "acqEnd"} => rem = 0
  /\ Handling /\ pc["irq"] # "acqEnd" => nFires = nShots
  /\ Transferring => ~srcOn
  /\ armed /\ ~(\E c \in Contexts : Starting(c)) => fresh
  /\ disabled /\ pc["user"] # "srcOff" => ~srcOn

(* The vector, step by step of the arming and of the abort.                *)
VectorInv ==
  /\ held = nBlk
  /\ vec = "none" => nBlk = 0
  /\ stale = {} /\ gone = [c \in Contexts |-> 0]
  /\ vec # "none" => armed
  /\ armed /\ (\A c \in Contexts : ~Arming(c))
       => vec # "none" /\ nBlk = nShots /\ nShots > 0
  /\ \A c \in Contexts :
       /\ pc[c] \in {"alloc", "armfail"} => armed /\ vec = "none"
       /\ pc[c] \in {"fill", "rawio"} =>
            armed /\ vec = c /\ mine[c] = nBlk /\ nShots > 0 /\ nBlk <= nShots
       /\ ~Filling(c) => mine[c] = 0
       /\ pc[c] = "rawio" => nBlk = nShots
       /\ pc[c] = "unmask" => armed
       /\ pc[c] \in {"reset", "mask"} => ~armed
       /\ pc[c] = "arm" => ~armed
       /\ Running(c, "START") /\ pc[c] = "abort" => ~armed \/ busy
       /\ pc[c] = "cmd" => (armed <=> cmd[c] = "START")

(* HW_BUSY is raised for exactly as long as an acquisition is handled, and *)
(* a disabled trigger has none.                                            *)
FlagInv ==
  /\ busy <=> Handling \/ pc["irq"] \in {"doneSrc", "lower", "out"}
  /\ Handling => armed
  /\ disabled => ~armed /\ ~busy
  /\ pc["user"] = "srcOff" => ~armed
  /\ pc["irq"] \in {"doneSrc", "out"} => ~armed
  /\ pc["irq"] = "ack" /\ res = "err" => ~armed
  /\ pc["irq"] \in {"lower", "workEnd"} /\ carrier = "SVEC" /\ res = "ok"
       => ~armed

CarefulInv == ControlInv /\ CarrierInv /\ CoreInv /\ VectorInv /\ FlagInv

-----------------------------------------------------------------------------
(* No step of a careful use leaves the invariant.                          *)
LEMMA CarefulStep ==
  ASSUME CarefulUse, TypeOK, CarefulInv, [Next]_vars
  PROVE  CarefulInv'
<1> USE ParamAssumption DEF CarefulUse, CarefulInv, ControlInv, CarrierInv,
      CoreInv, VectorInv, FlagInv, Running, Starting, DmaFailed, Handling, Transferring, Arming,
      Filling, Goto, Contexts, FsmSteps, Fault, TypeOK, ContextType, BlockType,
      EnumType, FlagType,
      vars, ctl, counts, blocks, filling, flags, sw, core, irqs
<1>1. ASSUME NEW command \in {"START", "STOP"}, UserFsmCommand(command)
      PROVE CarefulInv'
  BY <1>1 DEF UserFsmCommand, Call, Quiet, AutoStarting
<1>2. CASE UserAutoStart
  BY <1>2 DEF UserAutoStart, LeftOut
<1>3. CASE UserShots
  BY <1>3 DEF UserShots
<1>4. CASE UserDisable
  BY <1>4 DEF UserDisable, AbortDisable, GiveAway, AbortMayRun, AbortNeeded,
        InVector, AutoStarting
<1>5. CASE SrcOff
  BY <1>5 DEF SrcOff
<1>6. CASE UserEnable
  BY <1>6 DEF UserEnable
<1>7. CASE UserRead
  BY <1>7 DEF UserRead
<1>8. ASSUME NEW c \in Contexts, Fsm(c) PROVE CarefulInv'
  <2>1. CASE FsmAbort(c)
    BY <2>1 DEF FsmAbort, AbortDisable, GiveAway, AbortMayRun, AbortNeeded, InVector
  <2>2. CASE FsmReset(c)
    BY <2>2 DEF FsmReset, Return
  <2>3. CASE FsmMask(c)
    BY <2>3 DEF FsmMask, DisableIrqs
  <2>4. CASE FsmArm(c)
    BY <2>4 DEF FsmArm
  <2>5. CASE FsmAlloc(c)
    BY <2>5 DEF FsmAlloc
  <2>6. CASE FsmFill(c)
    BY <2>6 DEF FsmFill, MoreBlocks, DropVector, Forget, FreeFilled
  <2>7. CASE FsmRawIo(c)
    BY <2>7 DEF FsmRawIo, DropVector, Forget, FreeFilled
  <2>8. CASE FsmArmFail(c)
    BY <2>8 DEF FsmArmFail
  <2>9. CASE FsmArmCheck(c)
    BY <2>9 DEF FsmArmCheck, Return
  <2>10. CASE FsmUnmask(c)
    BY <2>10 DEF FsmUnmask, EnableIrqs
  <2>11. CASE FsmCmd(c)
    BY <2>11 DEF FsmCmd, Return
  <2> QED BY <1>8, <2>1, <2>2, <2>3, <2>4, <2>5, <2>6, <2>7, <2>8, <2>9,
        <2>10, <2>11 DEF Fsm
<1>9. ASSUME Irq PROVE CarefulInv'
  <2>1. CASE IrqEnter
    BY <2>1 DEF IrqEnter
  <2>2. CASE IrqAcqEnd
    BY <2>2 DEF IrqAcqEnd, RecordIrq, RaiseBusy
  <2>3. CASE WorkAcqEnd
    <3>1. nFires' = nShots
      BY <2>3 DEF WorkAcqEnd, FiredShots
    <3> QED BY <2>3, <3>1 DEF WorkAcqEnd
  <2>4. CASE WorkPoll
    BY <2>4 DEF WorkPoll, DisableSources
  <2>5. CASE SpecDmaStart
    BY <2>5 DEF SpecDmaStart, InVector, MayFail, LeftOut
  <2>6. CASE SvecDmaShot
    BY <2>6 DEF SvecDmaShot, SvecShotOk
  <2>7. CASE DmaDone
    BY <2>7 DEF DmaDone, DoneOk, ReleaseSg, InVector
  <2>8. CASE DataDone
    <3>1. /\ armed /\ vec # "none" /\ nBlk = nShots /\ held = nBlk
          /\ dma = "idle"
          /\ pc["user"] \notin FsmSteps \/ Running("user", "STOP")
      BY <2>8 DEF DataDone
    <3>2. InVector BY <3>1 DEF InVector
    <3> QED BY <2>8, <3>1, <3>2 DEF DataDone, GiveAway
  <2>9. CASE DmaDoneSrc
    BY <2>9 DEF DmaDoneSrc, AfterDone
  <2>10. CASE WorkLower
    BY <2>10 DEF WorkLower, LowerBusy
  <2>11. CASE WorkEnd
    BY <2>11 DEF WorkEnd, Call
  <2>12. CASE DmaError
    BY <2>12 DEF DmaError, ReleaseSg, Call
  <2>13. CASE Ack
    BY <2>13 DEF Ack, IrqDone
  <2>14. CASE IrqDma
    BY <2>14 DEF IrqDma, NothingProgrammed, Call
  <2>15. CASE IrqDmaOut
    BY <2>15 DEF IrqDmaOut, LowerBusy, IrqDone
  <2> QED BY <1>9, <2>1, <2>2, <2>3, <2>4, <2>5, <2>6, <2>7, <2>8, <2>9,
        <2>10, <2>11, <2>12, <2>13, <2>14, <2>15 DEF Irq
<1>10. CASE HwFire
  BY <1>10 DEF HwFire
<1>11. CASE HwAcqEnd
  BY <1>11 DEF HwAcqEnd
<1>12. CASE HwDmaEnd
  BY <1>12 DEF HwDmaEnd, MayFail, LeftOut
<1>13. CASE UNCHANGED vars
  BY <1>13
<1> QED BY <1>1, <1>2, <1>3, <1>4, <1>5, <1>6, <1>7, <1>8, <1>9, <1>10, <1>11,
      <1>12, <1>13 DEF Next

LEMMA CarefulInit == Init => CarefulInv
BY ParamAssumption DEF Init, CarefulInv, ControlInv, CarrierInv, CoreInv,
   VectorInv, FlagInv, Running, Starting, DmaFailed, Handling, Transferring,
   Arming, Filling, Contexts, FsmSteps

LEMMA CarefulInvariant ==
  ASSUME CarefulUse
  PROVE  Spec => []CarefulInv
<1>1. CarefulInv /\ TypeOK /\ [Next]_vars => CarefulInv'
  BY CarefulStep
<1> QED
  BY <1>1, CarefulInit, TypeOKHolds, PTL DEF Spec

-----------------------------------------------------------------------------
(* What the invariant says of one state.                                   *)

(* An acquisition that is handled has its vector: nobody is arming.        *)
LEMMA HandledIsWhole ==
  ASSUME TypeOK, CarefulInv, Handling
  PROVE  /\ armed /\ vec # "none" /\ nBlk = nShots /\ nShots > 0
         /\ ~(\E c \in Contexts : Starting(c))
<1> USE ParamAssumption DEF CarefulInv, ControlInv, CarrierInv, Handling,
      DmaFailed, Starting, Running, Contexts, FsmSteps, TypeOK, ContextType, EnumType
<1>1. armed
  BY DEF FlagInv
<1>2. ~(\E c \in Contexts : Starting(c))
  OBVIOUS
<1>3. \A c \in Contexts : ~Arming(c)
  BY <1>2 DEF Arming
<1> QED
  BY <1>1, <1>2, <1>3 DEF VectorInv

(* No handler, work or command of a careful use follows a bad pointer.     *)
THEOREM NoFaultHolds ==
  ASSUME CarefulUse, SpecStarts
  PROVE  Spec => []NoFault
<1>1. TypeOK /\ CarefulInv => NoFault
  BY ParamAssumption DEF CarefulInv, ControlInv, CarrierInv, NoFault, SpecStarts,
     Contexts, FsmSteps, TypeOK, EnumType
<1> QED
  BY <1>1, TypeOKHolds, CarefulInvariant, PTL

(* HW_BUSY always has an owner that lives and will lower it.  On a SPEC    *)
(* this is so even where a failed start kills the work: it has lowered the *)
(* flag before.                                                            *)
THEOREM BusyHasOwnerHolds ==
  ASSUME CarefulUse
  PROVE  Spec => []BusyHasOwner
<1>1. TypeOK /\ CarefulInv => BusyHasOwner
  BY ParamAssumption DEF CarefulInv, ControlInv, CarrierInv, FlagInv, BusyHasOwner,
     WillLower, Handling, DmaFailed, AcqSteps, FsmSteps, TypeOK, EnumType
<1> QED
  BY <1>1, TypeOKHolds, CarefulInvariant, PTL

(* No path of a careful use loses a block, or takes it from under a        *)
(* context that would free it again.                                       *)
THEOREM BlocksAccountedHolds ==
  ASSUME CarefulUse
  PROVE  Spec => []BlocksAccounted
<1>1. CarefulInv => BlocksAccounted
  BY DEF CarefulInv, VectorInv, BlocksAccounted, Filling
<1> QED
  BY <1>1, CarefulInvariant, PTL

(* Counters, vector and flag agree all through a transfer, and every shot  *)
(* of it was acquired.                                                     *)
THEOREM TransferWholeHolds ==
  ASSUME CarefulUse
  PROVE  Spec => []TransferWhole
<1>1. TypeOK /\ CarefulInv => TransferWhole
  <2> SUFFICES ASSUME TypeOK, CarefulInv, Transferring
               PROVE  /\ nShots = nBlk /\ nShots > 0 /\ nFires = nShots
                      /\ vec # "none" /\ armed
    BY DEF TransferWhole
  <2>1. Handling /\ pc["irq"] # "acqEnd"
    BY ParamAssumption DEF Transferring, Handling, CarefulInv, CarrierInv,
       TypeOK, EnumType
  <2>2. nFires = nShots
    BY <2>1 DEF CarefulInv, CoreInv
  <2> QED
    BY <2>1, <2>2, HandledIsWhole
<1> QED
  BY <1>1, TypeOKHolds, CarefulInvariant, PTL

(* What is transferred belongs to the arming of now, and nothing can       *)
(* overwrite it: this is where HW_BUSY and the quiet machine of a START    *)
(* are needed, the run svec_restart shows what happens without.            *)
THEOREM TransferFreshHolds ==
  ASSUME CarefulUse
  PROVE  Spec => []TransferFresh
<1>1. TypeOK /\ CarefulInv => TransferFresh
  <2> SUFFICES ASSUME TypeOK, CarefulInv, Transferring
               PROVE  fresh /\ fsm = "IDLE" /\ ~srcOn
    BY DEF TransferFresh
  <2>1. Handling
    BY DEF Transferring, Handling
  <2>2. fresh
    BY <2>1, HandledIsWhole DEF CarefulInv, CoreInv
  <2>3. fsm = "IDLE" /\ ~srcOn
    BY DEF CarefulInv, CoreInv, Transferring
  <2> QED
    BY <2>2, <2>3
<1> QED
  BY <1>1, TypeOKHolds, CarefulInvariant, PTL

(* A disabled trigger listens to no source, whoever arms or finishes.      *)
THEOREM DisabledIsSilentHolds ==
  ASSUME CarefulUse
  PROVE  Spec => []DisabledIsSilent
<1>1. CarefulInv => DisabledIsSilent
  BY DEF CarefulInv, CoreInv, DisabledIsSilent
<1> QED
  BY <1>1, CarefulInvariant, PTL

(* A DMA interrupt always finds its ACQ_END before it.                     *)
THEOREM NoWarnHolds ==
  ASSUME CarefulUse
  PROVE  Spec => []NoWarn
<1>1. CarefulInv => NoWarn
  BY DEF CarefulInv, CarrierInv, NoWarn
<1> QED
  BY <1>1, CarefulInvariant, PTL

(* The SPEC scatterlist is released once for every DMA.                    *)
THEOREM ScatterlistOnceHolds ==
  ASSUME CarefulUse
  PROVE  Spec => []ScatterlistOnce
<1>1. CarefulInv => ScatterlistOnce
  BY DEF CarefulInv, CarrierInv, ScatterlistOnce
<1> QED
  BY <1>1, CarefulInvariant, PTL

-----------------------------------------------------------------------------
(* HW_BUSY and the context that lowers it.  On a SPEC its command waits    *)
(* when a transfer has failed or the machine restarts by itself, because   *)
(* the flag is lowered after the command (fa-spec-irq.c:99, spec_auto).    *)
SpecRests == "SPEC" \in Carriers => /\ "auto" \notin UserCmds \ NotOnSpec
                                   /\ "dma" \notin Failures \ NotOnSpec

SpecNoCommand ==
  carrier = "SPEC" => /\ ~autoStart /\ dma # "err" /\ pc["irq"] \notin FsmSteps
                      /\ ~(job = "dma" /\ pc["irq"] = "dmaErr")

LEMMA SpecNoCommandStep ==
  ASSUME SpecRests, TypeOK, CarefulInv, SpecNoCommand, [Next]_vars
  PROVE  SpecNoCommand'
<1> USE ParamAssumption DEF CarefulInv, ControlInv, CarrierInv, SpecNoCommand,
      SpecRests, Goto, Contexts, FsmSteps, Fault, TypeOK, ContextType,
      EnumType, FlagType, vars, ctl, counts, blocks, filling, flags, sw, core, irqs
<1>1. ASSUME NEW command \in {"START", "STOP"}, UserFsmCommand(command)
      PROVE SpecNoCommand'
  BY <1>1 DEF UserFsmCommand, Call
<1>2. CASE UserAutoStart
  BY <1>2 DEF UserAutoStart, LeftOut
<1>3. CASE UserShots \/ SrcOff \/ UserEnable \/ UserRead
  BY <1>3 DEF UserShots, SrcOff, UserEnable, UserRead
<1>4. CASE UserDisable
  BY <1>4 DEF UserDisable, AbortDisable
<1>5. ASSUME Fsm("user") PROVE SpecNoCommand'
  BY <1>5 DEF Fsm, FsmAbort, AbortDisable, FsmReset, Return, FsmMask,
     DisableIrqs, FsmArm, FsmAlloc, FsmFill, MoreBlocks, DropVector, FreeFilled,
     FsmRawIo, FsmArmFail, FsmArmCheck, FsmUnmask, EnableIrqs, FsmCmd
<1>6. ASSUME Fsm("irq") PROVE SpecNoCommand'
  BY <1>6 DEF Fsm, FsmAbort, AbortDisable, FsmReset, Return, FsmMask,
     DisableIrqs, FsmArm, FsmAlloc, FsmFill, MoreBlocks, DropVector, FreeFilled,
     FsmRawIo, FsmArmFail, FsmArmCheck, FsmUnmask, EnableIrqs, FsmCmd
<1>7. ASSUME Irq PROVE SpecNoCommand'
  <2>1. CASE IrqEnter \/ IrqAcqEnd \/ WorkAcqEnd \/ WorkPoll
    BY <2>1 DEF IrqEnter, IrqAcqEnd, RecordIrq, WorkAcqEnd, WorkPoll,
       DisableSources
  <2>2. CASE SpecDmaStart \/ SvecDmaShot
    BY <2>2 DEF SpecDmaStart, SvecDmaShot
  <2>3. CASE DmaDone \/ DataDone \/ DmaDoneSrc
    BY <2>3 DEF DmaDone, ReleaseSg, DataDone, DmaDoneSrc, AfterDone
  <2>4. CASE WorkLower \/ WorkEnd
    BY <2>4 DEF WorkLower, WorkEnd, Call
  <2>5. CASE DmaError
    BY <2>5 DEF DmaError, ReleaseSg, Call, DmaFailed
  <2>6. CASE Ack \/ IrqDma \/ IrqDmaOut
    BY <2>6 DEF Ack, IrqDone, IrqDma, IrqDmaOut, Call
  <2> QED
    BY <1>7, <2>1, <2>2, <2>3, <2>4, <2>5, <2>6 DEF Irq
<1>8. CASE HwFire \/ HwAcqEnd
  BY <1>8 DEF HwFire, HwAcqEnd
<1>9. CASE HwDmaEnd
  BY <1>9 DEF HwDmaEnd, MayFail, LeftOut
<1>10. CASE UNCHANGED vars
  BY <1>10
<1> QED
  BY <1>1, <1>2, <1>3, <1>4, <1>5, <1>6, <1>7, <1>8, <1>9, <1>10 DEF Next

(* Neither the handler nor the work ever waits for the flag that only they *)
(* lower: on a SVEC whatever fails and whether or not it restarts by       *)
(* itself, on a SPEC as long as no DMA fails and it does not.              *)
THEOREM HandlerNeverWaitsHolds ==
  ASSUME CarefulUse, SpecRests
  PROVE  Spec => []HandlerNeverWaits
<1>1. Init => SpecNoCommand
  BY DEF Init, SpecNoCommand, FsmSteps, Contexts
<1>2. TypeOK /\ CarefulInv /\ SpecNoCommand /\ [Next]_vars => SpecNoCommand'
  BY SpecNoCommandStep
<1>3. TypeOK /\ CarefulInv /\ SpecNoCommand => HandlerNeverWaits
  BY ParamAssumption DEF HandlerNeverWaits, CarefulInv, CarrierInv, FlagInv,
     SpecNoCommand, Handling, DmaFailed, FsmSteps, TypeOK, EnumType
<1> QED
  BY <1>1, <1>2, <1>3, TypeOKHolds, CarefulInvariant, PTL DEF Spec

-----------------------------------------------------------------------------
(* The refinement.  A session is armed by the step that selects the        *)
(* sources, aborted by AbortDisable, acquired by RaiseBusy, delivered by   *)
(* DataDone and lost by the abort that follows a failed transfer.  Every   *)
(* other step leaves it alone.                                             *)

Simulated == Session!Next \/ UNCHANGED Session!vars

LEMMA SessionStep ==
  ASSUME CarefulUse, TypeOK, WithinBuffer, CarefulInv, [Next]_vars
  PROVE  Simulated
<1> USE ParamAssumption DEF CarefulUse, CarefulInv, ControlInv, CarrierInv,
      CoreInv, VectorInv, FlagInv, Running, Starting, DmaFailed, Handling, Transferring, Arming,
      Filling, Goto, Contexts, FsmSteps, Fault, TypeOK, ContextType, BlockType,
      EnumType, FlagType,
      vars, ctl, counts, blocks, filling, flags, sw, core, irqs,
      WithinBuffer, Simulated, Phase, Blocks, Ready,
      Session!vars, Session!Next, Session!Arm, Session!Abort,
      Session!Acquire, Session!Deliver, Session!Lose, Session!Read
<1>1. ASSUME NEW command \in {"START", "STOP"}, UserFsmCommand(command)
      PROVE Simulated
  BY <1>1 DEF UserFsmCommand, Call, Quiet, AutoStarting
<1>2. CASE UserAutoStart
  BY <1>2 DEF UserAutoStart, LeftOut
<1>3. CASE UserShots
  BY <1>3 DEF UserShots
<1>4. CASE UserDisable
  BY <1>4 DEF UserDisable, AbortDisable, GiveAway, AbortMayRun, AbortNeeded,
        InVector, AutoStarting
<1>5. CASE SrcOff
  BY <1>5 DEF SrcOff
<1>6. CASE UserEnable
  BY <1>6 DEF UserEnable
<1>7. CASE UserRead
  BY <1>7 DEF UserRead
<1>8. ASSUME NEW c \in Contexts, Fsm(c) PROVE Simulated
  <2>1. CASE FsmAbort(c)
    BY <2>1 DEF FsmAbort, AbortDisable, GiveAway, AbortMayRun, AbortNeeded, InVector
  <2>2. CASE FsmReset(c)
    BY <2>2 DEF FsmReset, Return
  <2>3. CASE FsmMask(c)
    BY <2>3 DEF FsmMask, DisableIrqs
  <2>4. CASE FsmArm(c)
    BY <2>4 DEF FsmArm
  <2>5. CASE FsmAlloc(c)
    BY <2>5 DEF FsmAlloc
  <2>6. CASE FsmFill(c)
    BY <2>6 DEF FsmFill, MoreBlocks, DropVector, Forget, FreeFilled
  <2>7. CASE FsmRawIo(c)
    BY <2>7 DEF FsmRawIo, DropVector, Forget, FreeFilled
  <2>8. CASE FsmArmFail(c)
    BY <2>8 DEF FsmArmFail
  <2>9. CASE FsmArmCheck(c)
    BY <2>9 DEF FsmArmCheck, Return
  <2>10. CASE FsmUnmask(c)
    BY <2>10 DEF FsmUnmask, EnableIrqs
  <2>11. CASE FsmCmd(c)
    BY <2>11 DEF FsmCmd, Return
  <2> QED BY <1>8, <2>1, <2>2, <2>3, <2>4, <2>5, <2>6, <2>7, <2>8, <2>9,
        <2>10, <2>11 DEF Fsm
<1>9. ASSUME Irq PROVE Simulated
  <2>1. CASE IrqEnter
    BY <2>1 DEF IrqEnter
  <2>2. CASE IrqAcqEnd
    BY <2>2 DEF IrqAcqEnd, RecordIrq, RaiseBusy
  <2>3. CASE WorkAcqEnd
    <3>1. nFires' = nShots
      BY <2>3 DEF WorkAcqEnd, FiredShots
    <3> QED BY <2>3, <3>1 DEF WorkAcqEnd
  <2>4. CASE WorkPoll
    BY <2>4 DEF WorkPoll, DisableSources
  <2>5. CASE SpecDmaStart
    BY <2>5 DEF SpecDmaStart, InVector, MayFail, LeftOut
  <2>6. CASE SvecDmaShot
    BY <2>6 DEF SvecDmaShot, SvecShotOk
  <2>7. CASE DmaDone
    BY <2>7 DEF DmaDone, DoneOk, ReleaseSg, InVector
  <2>8. CASE DataDone
    <3>1. /\ armed /\ vec # "none" /\ nBlk = nShots /\ held = nBlk
          /\ dma = "idle"
          /\ pc["user"] \notin FsmSteps \/ Running("user", "STOP")
      BY <2>8 DEF DataDone
    <3>2. InVector BY <3>1 DEF InVector
    <3>3. Ready /\ busy /\ ~Ready' BY <2>8, <3>1, <3>2 DEF DataDone, GiveAway
    <3>4. nFires = nShots BY <2>8, <3>1 DEF DataDone
    <3>5. stored' = stored + nBlk BY <2>8, <3>1, <3>2, <3>4 DEF DataDone,
          GiveAway, Filled
    <3> QED BY <3>3, <3>5
  <2>9. CASE DmaDoneSrc
    BY <2>9 DEF DmaDoneSrc, AfterDone
  <2>10. CASE WorkLower
    BY <2>10 DEF WorkLower, LowerBusy
  <2>11. CASE WorkEnd
    BY <2>11 DEF WorkEnd, Call
  <2>12. CASE DmaError
    BY <2>12 DEF DmaError, ReleaseSg, Call
  <2>13. CASE Ack
    BY <2>13 DEF Ack, IrqDone
  <2>14. CASE IrqDma
    BY <2>14 DEF IrqDma, NothingProgrammed, Call
  <2>15. CASE IrqDmaOut
    BY <2>15 DEF IrqDmaOut, LowerBusy, IrqDone
  <2> QED BY <1>9, <2>1, <2>2, <2>3, <2>4, <2>5, <2>6, <2>7, <2>8, <2>9,
        <2>10, <2>11, <2>12, <2>13, <2>14, <2>15 DEF Irq
<1>10. CASE HwFire
  BY <1>10 DEF HwFire
<1>11. CASE HwAcqEnd
  BY <1>11 DEF HwAcqEnd
<1>12. CASE HwDmaEnd
  BY <1>12 DEF HwDmaEnd, MayFail, LeftOut
<1>13. CASE UNCHANGED vars
  BY <1>13
<1> QED BY <1>1, <1>2, <1>3, <1>4, <1>5, <1>6, <1>7, <1>8, <1>9, <1>10, <1>11,
      <1>12, <1>13 DEF Next

LEMMA SessionInit == Init => Session!Init
BY DEF Init, Session!Init, Phase, Blocks, Ready

(* Whatever the carrier and the order of interrupts, works and commands,   *)
(* a careful user sees whole acquisitions: aborted, or acquired and then   *)
(* delivered with all their blocks or none.                                *)
THEOREM ImplementsHolds ==
  ASSUME CarefulUse
  PROVE  Spec => Implements
<1>1. TypeOK /\ WithinBuffer /\ CarefulInv /\ [Next]_vars
        => [Session!Next]_(Session!vars)
  BY SessionStep DEF Simulated
<1> QED
  BY <1>1, SessionInit, TypeOKHolds, TypesAndBlocks, CarefulInvariant,
     PTL DEF Spec, Implements, Session!Spec
=============================================================================
