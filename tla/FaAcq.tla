------------------------------- MODULE FaAcq -------------------------------
(***************************************************************************)
(* The life of one acquisition in the fmc-adc-100m14b driver: the state    *)
(* machine commands a user writes to sysfs, the ADC interrupt and the work *)
(* it queues, the transfer of the samples (SPEC: asynchronous, ended by a  *)
(* DMA interrupt; SVEC: blocking, inside the work), and the ADC core.      *)
(*                                                                         *)
(* Two threads of control run the driver: "user", the sysfs writes, and    *)
(* "irq", the chain interrupt handler -> work -> acknowledge.  The carrier *)
(* delivers no further interrupt before the acknowledge, so this chain is  *)
(* one context.  The cset spinlock makes single steps of Abort, Arm,       *)
(* IrqAcqEnd, DataDone and Lower; everything else interleaves.             *)
(***************************************************************************)
EXTENDS Integers

CONSTANTS
  Carriers,     (* the carriers there are: "SPEC", "SVEC"                   *)
  BusyAbort,    (* what ZIO's abort does while ZIO_CSET_HW_BUSY is raised:
                   "wait" for it to be lowered, or "skip" the abort         *)
  UserCmds,     (* which of "stop", "auto", "trigger", "shots" the user
                   writes, besides starting acquisitions and reading blocks *)
  Careful,      (* TRUE: the user starts only a quiet machine, and stops or
                   disables it only when no automatic start can be running  *)
  Failures,     (* which calls may fail: "alloc", "rawio", "pll", "xfer"
                   (starting, or on SVEC doing, a transfer), "dma" (SPEC)   *)
  NotOnSpec,    (* which of UserCmds and Failures are left out on a SPEC    *)
  ShotChoices,  (* the numbers of shots the user programs                   *)
  BufLen,       (* blocks the ZIO buffer can hold                           *)
  UINT          (* the modulus of unsigned int arithmetic                   *)

ASSUME ParamAssumption ==
  /\ Carriers \subseteq {"SPEC", "SVEC"}
  /\ BusyAbort \in {"wait", "skip"}
  /\ Careful \in BOOLEAN
  /\ ShotChoices \subseteq Nat \ {0}
  /\ BufLen \in Nat
  /\ UINT \in Nat \ {0}

VARIABLES
  pc,        (* the next step of each context; "oops" after a memory fault  *)
  cmd,       (* the zfad_fsm_command() argument of each context             *)
  job,       (* what the irq context is running                             *)
  res,       (* the result of zfad_dma_start() in the work                  *)
  xi,        (* the loop variable of fa_svec_dma_start()                    *)
  nShots,    (* fa->n_shots                                                 *)
  nFires,    (* fa->n_fires                                                 *)
  carrier,   (* fa->carrier_op                                              *)
  autoStart, (* fa->enable_auto_start                                       *)
  lastIrq,   (* fa->last_irq_core_src                                       *)
  sgLive,    (* fa->zdma points to an allocated, mapped scatterlist         *)
  vec,       (* interleave->priv_d: NULL ("none") or who allocated it       *)
  nBlk,      (* how many entries of that vector point to a block            *)
  held,      (* blocks taken from the ZIO buffer, neither stored nor freed  *)
  stored,    (* blocks stored in the ZIO buffer, for the user to read       *)
  mine,      (* "i" of each context filling a vector, the one it allocated  *)
  gone,      (* history: how many of those blocks were given away by another*)
             (* context, by way of priv_d                                   *)
  stale,     (* history: contexts whose vector another one freed meanwhile  *)
  armed,     (* ZIO_TI_ARMED                                                *)
  disabled,  (* the trigger instance's disabled status                      *)
  busy,      (* ZIO_CSET_HW_BUSY                                            *)
  cfgShots,  (* the trigger's post-shots attribute, and its register        *)
  fsm,       (* the ADC core's state machine: "IDLE" or "ACQ"               *)
  rem,       (* ZFAT_SHOTS_REM: shots the core still waits for              *)
  srcOn,     (* ZFAT_CFG_SRC selects the configured trigger sources         *)
  adcMask,   (* the ACQ_END interrupt is enabled                            *)
  adcPend,   (* the ACQ_END interrupt is latched                            *)
  dma,       (* the SPEC DMA core                                           *)
  fresh      (* history: the core was started for the arming of now         *)

ctl     == <<cmd, job, res, xi>>
counts  == <<nShots, nFires>>
filling == <<mine, gone, stale>>
blocks  == <<vec, nBlk, held, stored, filling>>
flags   == <<armed, disabled, busy>>
sw      == <<carrier, autoStart, lastIrq, sgLive, cfgShots>>
core    == <<fsm, rem, srcOn, fresh>>
irqs    == <<adcMask, adcPend, dma>>
vars    == <<pc, ctl, counts, blocks, flags, sw, core, irqs>>

Contexts == {"user", "irq"}
FsmSteps == {"abort", "reset", "mask", "arm", "alloc", "fill", "rawio",
             "armfail", "armcheck", "unmask", "cmd"}
AcqSteps == {"acqEnd", "poll", "xfer", "dmaDone", "dataDone", "doneSrc",
             "lower"}
Steps    == {"idle", "srcOff", "acqLock", "workEnd", "dmaErr", "ack", "out",
             "oops"} \cup FsmSteps \cup AcqSteps

-----------------------------------------------------------------------------
(* Mistakes the code could plausibly contain.  No definition below uses    *)
(* them: each can take the place of the definition named in its comment,   *)
(* to see that a property of the project notices.                          *)

(* RaiseBusy without the check for a concurrent stop.                      *)
RaiseBusyAlways == TRUE
(* AbortMayRun: the critical section does not hold off an abort.           *)
AbortAnyTime == TRUE
(* MoreBlocks with the loop bound off by one.                              *)
MoreBlocksByOne(c) == mine[c] <= nShots
(* FiredShots without the wrap of unsigned int.                            *)
FiredShotsSigned == nShots - rem
(* Filled with the comparison off by one.                                  *)
FilledLess == nFires - 1
(* FreeFilled: "out_allocate" only frees the vector.                       *)
FreeNothing(c) == UNCHANGED held
(* LowerBusy only when the transfer went well, or only in the work.        *)
LowerBusyOnSuccess == busy' = (busy /\ res = "err")
LowerBusyInWork == busy' = (busy /\ job # "acq")
(* RecordIrq forgotten.                                                    *)
RecordNothing(src) == UNCHANGED lastIrq
(* EnableIrqs forgotten.                                                   *)
EnableNothing == UNCHANGED adcMask
(* DisableSources forgotten.                                               *)
KeepSources == UNCHANGED srcOn
(* ReleaseSg forgotten.                                                    *)
KeepSg == UNCHANGED sgLive

-----------------------------------------------------------------------------
(* Helpers.                                                                *)

Goto(c, step) == pc' = [pc EXCEPT ![c] = step]

(* A context follows a pointer that is NULL, dangling or was never set.    *)
Fault(c) == /\ Goto(c, "oops")
            /\ UNCHANGED <<ctl, counts, blocks, flags, sw, core, irqs>>

Call(c, command) == /\ cmd' = [cmd EXCEPT ![c] = command]
                    /\ Goto(c, "abort")

(* The loops over "i < fa->n_shots" stay inside the vector.                *)
InVector == nShots = 0 \/ (vec # "none" /\ nShots <= nBlk)

(* Where zfad_fsm_command() returns to.                                    *)
Return(c) == Goto(c, IF c = "user" THEN "idle"
                     ELSE IF job = "acq" THEN "ack" ELSE "out")

LeftOut == IF carrier = "SPEC" THEN NotOnSpec ELSE {}

(* The user's view of a machine at rest, and of an automatic start.        *)
Quiet == /\ ~armed /\ ~busy /\ fsm = "IDLE"
         /\ pc["irq"] = "idle" /\ ~adcPend /\ dma = "idle"
AutoStarting == autoStart \/ (pc["irq"] \in FsmSteps /\ cmd["irq"] = "START")

Init ==
  /\ pc = [c \in Contexts |-> "idle"]
  /\ cmd = [c \in Contexts |-> "STOP"]
  /\ job = "none" /\ res = "ok" /\ xi = 0
  /\ nShots = 0 /\ nFires = 0
  /\ carrier \in Carriers
  /\ autoStart = FALSE /\ lastIrq = "none" /\ sgLive = FALSE
  /\ vec = "none" /\ nBlk = 0 /\ held = 0 /\ stored = 0
  /\ mine = [c \in Contexts |-> 0] /\ gone = [c \in Contexts |-> 0]
  /\ stale = {}
  /\ armed = FALSE /\ disabled = FALSE /\ busy = FALSE
  /\ cfgShots \in ShotChoices
  /\ fsm = "IDLE" /\ rem = 0 /\ srcOn = FALSE /\ fresh = FALSE
  /\ adcMask = FALSE /\ adcPend = FALSE /\ dma = "idle"

-----------------------------------------------------------------------------
(* ZIO: zio_trigger_abort_disable(), which calls zfat_abort() under the    *)
(* cset lock when the trigger is armed.                                    *)

AbortMayRun == BusyAbort = "wait" => ~busy
AbortNeeded == armed /\ ~busy

(* A context works with the vector it allocated, by a pointer of its own.  *)
Filling(c) == pc[c] \in {"fill", "rawio"}

(* The vector that priv_d points to is freed, the first n of its blocks    *)
(* are given away: perhaps under a context that is still filling it.       *)
GiveAway(n) ==
  LET under == {c \in Contexts : vec = c /\ Filling(c)}
  IN /\ vec' = "none" /\ nBlk' = 0
     /\ held' = IF vec = "none" THEN held ELSE held - n
     /\ stale' = stale \cup under
     /\ gone' = [c \in Contexts |-> IF c \in under THEN n ELSE gone[c]]
     /\ UNCHANGED mine

AbortDisable(c, disable, next) ==
  /\ AbortMayRun
  /\ \/ /\ AbortNeeded /\ ~InVector /\ vec # "none"
        /\ Fault(c)
     \/ /\ AbortNeeded /\ (InVector \/ vec = "none")
        /\ GiveAway(nShots)
        /\ armed' = FALSE /\ disabled' = (disabled \/ disable)
        /\ Goto(c, next)
        /\ UNCHANGED <<stored, busy, ctl, counts, sw, core, irqs>>
     \/ /\ ~AbortNeeded
        /\ disabled' = (disabled \/ disable)
        /\ Goto(c, next)
        /\ UNCHANGED <<armed, busy, blocks, ctl, counts, sw, core, irqs>>

-----------------------------------------------------------------------------
(* What the user does.                                                     *)

UserFsmCommand(command) ==
  /\ pc["user"] = "idle"
  /\ command = "STOP" => "stop" \in UserCmds
  /\ Careful => IF command = "START" THEN Quiet ELSE ~AutoStarting
  /\ Call("user", command)
  /\ UNCHANGED <<job, res, xi, counts, blocks, flags, sw, core, irqs>>

UserAutoStart ==
  /\ pc["user"] = "idle" /\ "auto" \in UserCmds \ LeftOut
  /\ autoStart' = ~autoStart
  /\ UNCHANGED <<pc, ctl, counts, blocks, flags, carrier, lastIrq, sgLive,
                 cfgShots, core, irqs>>

(* ZIO aborts before it changes an attribute of an armed trigger: only the *)
(* change of an unarmed one is a case of its own.                          *)
UserShots ==
  /\ pc["user"] = "idle" /\ "shots" \in UserCmds /\ ~armed
  /\ \E n \in ShotChoices \ {cfgShots} : cfgShots' = n
  /\ UNCHANGED <<pc, ctl, counts, blocks, flags, carrier, autoStart, lastIrq,
                 sgLive, core, irqs>>

UserDisable ==
  /\ pc["user"] = "idle" /\ "trigger" \in UserCmds /\ ~disabled
  /\ Careful => ~AutoStarting
  /\ AbortDisable("user", TRUE, "srcOff")

SrcOff ==
  /\ pc["user"] = "srcOff"
  /\ srcOn' = FALSE
  /\ Goto("user", "idle")
  /\ UNCHANGED <<ctl, counts, blocks, flags, sw, fsm, rem, fresh, irqs>>

UserEnable ==
  /\ pc["user"] = "idle" /\ disabled
  /\ disabled' = FALSE /\ srcOn' = TRUE
  /\ UNCHANGED <<pc, ctl, counts, blocks, armed, busy, sw, fsm, rem, fresh,
                 irqs>>

UserRead ==
  /\ stored > 0
  /\ stored' = stored - 1
  /\ UNCHANGED <<pc, ctl, counts, vec, nBlk, held, filling, flags, sw, core,
                 irqs>>

-----------------------------------------------------------------------------
(* zfad_fsm_command(), run by either context.                              *)

FsmAbort(c) == pc[c] = "abort" /\ AbortDisable(c, FALSE, "reset")

FsmReset(c) ==
  /\ pc[c] = "reset"
  /\ nShots' = 0 /\ nFires' = 0
  /\ \/ cmd[c] = "STOP" /\ Goto(c, "mask")
     \/ cmd[c] = "START" /\ Goto(c, "arm")
     \/ cmd[c] = "START" /\ "pll" \in Failures /\ Return(c)
  /\ UNCHANGED <<ctl, blocks, flags, sw, core, irqs>>

(* The EIC drops what it latched when an interrupt is disabled; the SPEC   *)
(* code writes an empty mask, which leaves the DMA interrupts enabled.     *)
DisableIrqs == adcMask' = FALSE /\ adcPend' = FALSE

FsmMask(c) ==
  /\ pc[c] = "mask"
  /\ autoStart' = FALSE
  /\ DisableIrqs
  /\ Goto(c, "cmd")
  /\ UNCHANGED <<ctl, counts, blocks, flags, carrier, lastIrq, sgLive, cfgShots,
                 core, dma>>

(* ZIO: zio_arm_trigger() takes the ARMED flag, then calls zfat_arm_trigger*)
FsmArm(c) ==
  /\ pc[c] = "arm"
  /\ IF armed \/ disabled
     THEN Goto(c, "armcheck") /\ UNCHANGED armed
     ELSE Goto(c, "alloc") /\ armed' = TRUE
  /\ UNCHANGED <<disabled, busy, ctl, counts, blocks, sw, core, irqs>>

FsmAlloc(c) ==
  /\ pc[c] = "alloc"
  /\ nShots' = cfgShots
  /\ fresh' = FALSE
  /\ \/ /\ vec' = c /\ nBlk' = 0
        /\ Goto(c, "fill")
     \/ /\ "alloc" \in Failures
        /\ Goto(c, "armfail")
        /\ UNCHANGED <<vec, nBlk>>
  /\ UNCHANGED <<nFires, held, stored, filling, ctl, flags, sw, fsm, rem,
                 srcOn, irqs>>

Forget(c) == /\ mine' = [mine EXCEPT ![c] = 0]
             /\ gone' = [gone EXCEPT ![c] = 0]
             /\ stale' = stale \ {c}

(* "out_allocate": the blocks of the context's own vector go back, those   *)
(* that went already too; the vector is freed; priv_d becomes NULL,        *)
(* whatever it points to by now.  What is freed again may or may not be    *)
(* the end of the thread.                                                  *)
FreeFilled(c) == held' = held - (mine[c] - gone[c])

DropVector(c) ==
  /\ Forget(c) /\ UNCHANGED stored
  /\ \/ /\ FreeFilled(c) /\ nBlk' = 0 /\ vec' = "none"
        /\ Goto(c, "armfail")
     \/ /\ c \in stale
        /\ Goto(c, "oops") /\ UNCHANGED <<held, nBlk, vec>>

MoreBlocks(c) == mine[c] < nShots
MayFail(call) == call \in Failures \ LeftOut

(* One turn of the allocation loop, which reads fa->n_shots every time and *)
(* writes to the context's own vector, whether priv_d points there or not. *)
FsmFill(c) ==
  /\ pc[c] = "fill"
  /\ \/ ~MoreBlocks(c) /\ Goto(c, "rawio") /\ UNCHANGED blocks
     \/ /\ MoreBlocks(c) /\ held + stored < BufLen
        /\ mine' = [mine EXCEPT ![c] = @ + 1] /\ held' = held + 1
        /\ nBlk' = IF vec = c THEN nBlk + 1 ELSE nBlk
        /\ UNCHANGED <<pc, vec, stored, gone, stale>>
     \/ /\ MoreBlocks(c)
        /\ MayFail("alloc") \/ held + stored >= BufLen
        /\ DropVector(c)
  /\ UNCHANGED <<ctl, counts, flags, sw, core, irqs>>

FsmRawIo(c) ==
  /\ pc[c] = "rawio"
  /\ \/ /\ srcOn' = TRUE /\ Goto(c, "armcheck")
        /\ Forget(c) /\ UNCHANGED <<vec, nBlk, held, stored>>
     \/ MayFail("rawio") /\ DropVector(c) /\ UNCHANGED srcOn
  /\ UNCHANGED <<ctl, counts, flags, sw, fsm, rem, fresh, irqs>>

FsmArmFail(c) ==
  /\ pc[c] = "armfail"
  /\ armed' = FALSE
  /\ Goto(c, "armcheck")
  /\ UNCHANGED <<disabled, busy, ctl, counts, blocks, sw, core, irqs>>

FsmArmCheck(c) ==
  /\ pc[c] = "armcheck"
  /\ IF armed THEN Goto(c, "unmask") ELSE Return(c)
  /\ UNCHANGED <<ctl, counts, blocks, flags, sw, core, irqs>>

EnableIrqs == adcMask' = TRUE

FsmUnmask(c) ==
  /\ pc[c] = "unmask"
  /\ EnableIrqs
  /\ Goto(c, "cmd")
  /\ UNCHANGED <<ctl, counts, blocks, flags, sw, core, adcPend, dma>>

FsmCmd(c) ==
  /\ pc[c] = "cmd"
  /\ IF cmd[c] = "START"
     THEN fsm' = "ACQ" /\ rem' = cfgShots /\ fresh' = TRUE
     ELSE fsm' = "IDLE" /\ UNCHANGED <<rem, fresh>>
  /\ Return(c)
  /\ UNCHANGED <<ctl, counts, blocks, flags, sw, srcOn, irqs>>

-----------------------------------------------------------------------------
(* The ADC interrupt: fa_irq_handler() and fa_irq_work().                  *)

IrqEnter ==
  /\ pc["irq"] = "idle" /\ adcPend
  /\ adcPend' = FALSE
  /\ job' = "acq"
  /\ Goto("irq", "acqLock")
  /\ UNCHANGED <<cmd, res, xi, counts, blocks, flags, sw, core, adcMask, dma>>

RecordIrq(src) == lastIrq' = src
RaiseBusy == vec # "none" /\ armed

IrqAcqEnd ==
  /\ pc["irq"] = "acqLock"
  /\ busy' = (busy \/ RaiseBusy)
  /\ IF busy'
     THEN Goto("irq", "acqEnd") /\ RecordIrq("adc")
     ELSE Goto("irq", "ack") /\ UNCHANGED lastIrq
  /\ UNCHANGED <<ctl, counts, blocks, armed, disabled, carrier, autoStart,
                 sgLive, cfgShots, core, irqs>>

FiredShots == (nShots - rem) % UINT

WorkAcqEnd ==
  /\ pc["irq"] = "acqEnd"
  /\ nFires' = FiredShots
  /\ Goto("irq", "poll")
  /\ UNCHANGED <<nShots, ctl, blocks, flags, sw, core, irqs>>

DisableSources == srcOn' = FALSE

(* zfad_dma_start(): the core must be idle; with one shot the vector's     *)
(* first entry gets the position of the trigger.                           *)
WorkPoll ==
  /\ pc["irq"] = "poll"
  /\ \/ /\ fsm # "IDLE"
        /\ res' = "err" /\ Goto("irq", "lower")
        /\ UNCHANGED srcOn
     \/ /\ fsm = "IDLE" /\ ~(nShots = 1 /\ vec = "none")
        /\ DisableSources /\ Goto("irq", "xfer")
        /\ UNCHANGED res
     \/ /\ fsm = "IDLE" /\ nShots = 1 /\ vec = "none"
        /\ DisableSources /\ Goto("irq", "oops")
        /\ UNCHANGED res
  /\ UNCHANGED <<cmd, job, xi, counts, blocks, flags, sw, fsm, rem, fresh,
                 irqs>>

SpecDmaStart ==
  /\ pc["irq"] = "xfer" /\ carrier = "SPEC"
  /\ \/ /\ InVector
        /\ sgLive' = TRUE /\ dma' = "run" /\ Goto("irq", "workEnd")
        /\ UNCHANGED res
     \/ /\ InVector /\ MayFail("xfer")
        /\ sgLive' = FALSE /\ res' = "err" /\ Goto("irq", "lower")
        /\ UNCHANGED dma
     \/ ~InVector /\ Goto("irq", "oops") /\ UNCHANGED <<sgLive, dma, res>>
  /\ UNCHANGED <<cmd, job, xi, counts, blocks, flags, carrier, autoStart,
                 lastIrq, cfgShots, core, adcMask, adcPend>>

(* fa_svec_dma_start(): the first access reads the vector, then each turn  *)
(* of the loop transfers a shot and reads fa->n_shots again.               *)
SvecShotOk == vec # "none" /\ (xi < nShots => xi < nBlk)

SvecDmaShot ==
  /\ pc["irq"] = "xfer" /\ carrier = "SVEC"
  /\ \/ /\ SvecShotOk /\ xi < nShots
        /\ xi' = xi + 1 /\ UNCHANGED <<pc, res>>
     \/ /\ SvecShotOk /\ xi < nShots /\ MayFail("xfer")
        /\ res' = "err" /\ Goto("irq", "lower") /\ UNCHANGED xi
     \/ /\ SvecShotOk /\ xi >= nShots
        /\ Goto("irq", "dmaDone") /\ UNCHANGED <<xi, res>>
     \/ ~SvecShotOk /\ Goto("irq", "oops") /\ UNCHANGED <<xi, res>>
  /\ UNCHANGED <<cmd, job, counts, blocks, flags, sw, core, irqs>>

(* zfad_dma_done(): the carrier releases its scatterlist, every block gets *)
(* its time stamp, and the last one is copied to the current control.      *)
DoneOk == /\ carrier = "SPEC" => sgLive
          /\ nShots > 0 /\ InVector

ReleaseSg == sgLive' = FALSE

DmaDone ==
  /\ pc["irq"] = "dmaDone"
  /\ \/ DoneOk /\ ReleaseSg /\ Goto("irq", "dataDone")
     \/ ~DoneOk /\ Goto("irq", "oops") /\ UNCHANGED sgLive
  /\ UNCHANGED <<ctl, counts, blocks, flags, carrier, autoStart, lastIrq,
                 cfgShots, core, irqs>>

Filled == IF nFires < nShots THEN nFires ELSE nShots

(* ZIO: zio_trigger_data_done() calls zfat_data_done() under the cset lock *)
(* and clears the ARMED flag.                                              *)
DataDone ==
  /\ pc["irq"] = "dataDone"
  /\ \/ /\ vec = "none"
        /\ armed' = FALSE /\ Goto("irq", "doneSrc")
        /\ UNCHANGED <<counts, blocks>>
     \/ /\ vec # "none" /\ InVector
        /\ stored' = stored + Filled /\ GiveAway(nShots)
        /\ nShots' = 0 /\ nFires' = 0
        /\ armed' = FALSE /\ Goto("irq", "doneSrc")
     \/ /\ vec # "none" /\ ~InVector
        /\ Goto("irq", "oops") /\ UNCHANGED <<armed, counts, blocks>>
  /\ UNCHANGED <<disabled, busy, ctl, sw, core, irqs>>

AfterDone == IF job = "acq" THEN "lower" ELSE "out"

DmaDoneSrc ==
  /\ pc["irq"] = "doneSrc"
  /\ srcOn' = TRUE
  /\ Goto("irq", AfterDone)
  /\ UNCHANGED <<ctl, counts, blocks, flags, sw, fsm, rem, fresh, irqs>>

LowerBusy == busy' = FALSE

WorkLower ==
  /\ pc["irq"] = "lower"
  /\ LowerBusy
  /\ Goto("irq", IF res = "err" THEN "dmaErr" ELSE "workEnd")
  /\ UNCHANGED <<armed, disabled, ctl, counts, blocks, sw, core, irqs>>

WorkEnd ==
  /\ pc["irq"] = "workEnd"
  /\ IF autoStart THEN Call("irq", "START")
     ELSE Goto("irq", "ack") /\ UNCHANGED cmd
  /\ UNCHANGED <<job, res, xi, counts, blocks, flags, sw, core, irqs>>

(* zfad_dma_error(): the carrier cleans up, then the machine is stopped.   *)
DmaError ==
  /\ pc["irq"] = "dmaErr"
  /\ \/ /\ carrier = "SPEC" => sgLive
        /\ ReleaseSg /\ Call("irq", "STOP")
     \/ /\ carrier = "SPEC" /\ ~sgLive
        /\ Goto("irq", "oops") /\ UNCHANGED <<sgLive, cmd>>
  /\ UNCHANGED <<job, res, xi, counts, blocks, flags, carrier, autoStart,
                 lastIrq, cfgShots, core, irqs>>

IrqDone == /\ job' = "none" /\ res' = "ok" /\ xi' = 0
           /\ Goto("irq", "idle")

Ack ==
  /\ pc["irq"] = "ack"
  /\ IrqDone
  /\ UNCHANGED <<cmd, counts, blocks, flags, sw, core, irqs>>

-----------------------------------------------------------------------------
(* The SPEC DMA interrupt: fa_spec_irq_handler().                          *)

NothingProgrammed == nShots = 0 \/ vec = "none"

IrqDma ==
  /\ pc["irq"] = "idle" /\ dma \in {"done", "err"}
  /\ dma' = "idle"
  /\ \/ /\ NothingProgrammed
        /\ job' = "drop" /\ Goto("irq", "out") /\ UNCHANGED cmd
     \/ /\ ~NothingProgrammed /\ lastIrq = "dma"
        /\ job' = "warn" /\ Call("irq", "STOP")
     \/ /\ ~NothingProgrammed /\ lastIrq # "dma"
        /\ job' = "dma" /\ UNCHANGED cmd
        /\ Goto("irq", IF dma = "done" THEN "dmaDone" ELSE "dmaErr")
  /\ UNCHANGED <<res, xi, counts, blocks, flags, sw, core, adcMask, adcPend>>

IrqDmaOut ==
  /\ pc["irq"] = "out"
  /\ LowerBusy
  /\ lastIrq' = CASE job = "dma"  -> "dma"
                  [] job = "warn" -> "none"
                  [] OTHER        -> lastIrq
  /\ IrqDone
  /\ UNCHANGED <<cmd, counts, blocks, armed, disabled, carrier, autoStart,
                 sgLive, cfgShots, core, irqs>>

-----------------------------------------------------------------------------
(* The hardware: trigger shots, end of the acquisition, end of the DMA.    *)

HwFire ==
  /\ fsm = "ACQ" /\ srcOn /\ rem > 0
  /\ rem' = rem - 1
  /\ UNCHANGED <<pc, ctl, counts, blocks, flags, sw, fsm, srcOn, fresh, irqs>>

HwAcqEnd ==
  /\ fsm = "ACQ" /\ rem = 0
  /\ fsm' = "IDLE"
  /\ adcPend' = (adcPend \/ adcMask)
  /\ UNCHANGED <<pc, ctl, counts, blocks, flags, sw, rem, srcOn, fresh,
                 adcMask, dma>>

HwDmaEnd ==
  /\ dma = "run"
  /\ \/ dma' = "done"
     \/ MayFail("dma") /\ dma' = "err"
  /\ UNCHANGED <<pc, ctl, counts, blocks, flags, sw, core, adcMask, adcPend>>

-----------------------------------------------------------------------------
Fsm(c) ==
  \/ FsmAbort(c) \/ FsmReset(c) \/ FsmMask(c) \/ FsmArm(c) \/ FsmAlloc(c)
  \/ FsmFill(c) \/ FsmRawIo(c) \/ FsmArmFail(c) \/ FsmArmCheck(c)
  \/ FsmUnmask(c) \/ FsmCmd(c)

Irq ==
  \/ IrqEnter \/ IrqAcqEnd \/ WorkAcqEnd \/ WorkPoll \/ SpecDmaStart
  \/ SvecDmaShot \/ DmaDone \/ DataDone \/ DmaDoneSrc \/ WorkLower \/ WorkEnd
  \/ DmaError \/ Ack \/ IrqDma \/ IrqDmaOut

Next ==
  \/ \E command \in {"START", "STOP"} : UserFsmCommand(command)
  \/ UserAutoStart \/ UserShots \/ UserDisable \/ SrcOff \/ UserEnable
  \/ UserRead
  \/ \E c \in Contexts : Fsm(c)
  \/ Irq
  \/ HwFire \/ HwAcqEnd \/ HwDmaEnd

Spec == Init /\ [][Next]_vars

(* A driver thread that can run does; triggers keep coming; a transfer     *)
(* ends.  The user need never issue a command nor read a block.            *)
Fairness ==
  /\ WF_vars(SrcOff \/ Fsm("user"))
  /\ WF_vars(Irq \/ Fsm("irq"))
  /\ WF_vars(HwFire) /\ WF_vars(HwAcqEnd)
  /\ WF_vars(HwDmaEnd)

FairSpec == Spec /\ Fairness
=============================================================================
