---------------------------- MODULE FaAcqProps ----------------------------
(***************************************************************************)
(* The properties of FaAcq, and the promise it implements.                 *)
(***************************************************************************)
EXTENDS FaAcq

(* A context between the vector's allocation and the end of the arming.    *)
Arming(c) == pc[c] \in {"alloc", "fill", "rawio", "armfail"}

(* The samples are on their way from the card to the blocks.               *)
Transferring == \/ pc["irq"] \in {"xfer", "dmaDone", "dataDone"}
                \/ dma # "idle"

-----------------------------------------------------------------------------
(* Properties of every use of the driver, racing users included.           *)

(* The type of every variable; counters stay unsigned ints.                *)
ContextType ==
  /\ pc \in [Contexts -> Steps]
  /\ cmd \in [Contexts -> {"START", "STOP"}]

BlockType ==
  /\ nShots \in ShotChoices \cup {0} /\ cfgShots \in ShotChoices
  /\ nFires \in 0 .. UINT - 1 /\ rem \in Nat /\ xi \in Nat
  /\ vec \in Contexts \cup {"none"}
  /\ nBlk \in Nat /\ held \in Nat /\ stored \in Nat
  /\ mine \in [Contexts -> Nat] /\ gone \in [Contexts -> Nat]
  /\ stale \subseteq Contexts

EnumType ==
  /\ carrier \in Carriers
  /\ job \in {"none", "acq", "dma", "warn", "drop"}
  /\ res \in {"ok", "err"}
  /\ lastIrq \in {"none", "adc", "dma"}
  /\ fsm \in {"IDLE", "ACQ"}
  /\ dma \in {"idle", "run", "done", "err"}

FlagType ==
  /\ armed \in BOOLEAN /\ disabled \in BOOLEAN /\ busy \in BOOLEAN
  /\ autoStart \in BOOLEAN /\ sgLive \in BOOLEAN
  /\ srcOn \in BOOLEAN /\ fresh \in BOOLEAN
  /\ adcMask \in BOOLEAN /\ adcPend \in BOOLEAN

TypeOK == ContextType /\ BlockType /\ EnumType /\ FlagType

(* However fa_irq_handler(), fa_irq_work() and fa_spec_irq_handler() leave *)
(* their sections, ZIO_CSET_HW_BUSY is left raised with nobody to lower it *)
(* only where the interrupt's thread has died of a memory fault, which     *)
(* racing users can bring about.                                           *)
WillLower == \/ pc["irq"] \in AcqSteps
             \/ dma # "idle"
             \/ job \in {"dma", "warn", "drop"}

OnlyDeathStrands == busy /\ pc["irq"] # "oops" => WillLower

-----------------------------------------------------------------------------
(* Properties of a careful use (Careful).                                  *)

(* No handler follows a NULL, dangling or unset pointer: the vector, a     *)
(* block in it, the last control, the scatterlist.                         *)
NoFault == \A c \in Contexts : pc[c] # "oops"

(* ZIO_CSET_HW_BUSY is never raised with nobody to lower it: a transfer is *)
(* being prepared or done, a DMA interrupt is to come, or it is being      *)
(* handled; and no thread dies before it has lowered the flag.  That they  *)
(* get there is BusyEnds.                                                  *)
BusyHasOwner == busy => WillLower /\ pc["irq"] # "oops"

(* Every block taken from the buffer by zfat_arm_trigger() is in the       *)
(* vector until it is stored or freed: stop, disable, failure and          *)
(* completion leak none.  And they release none twice: nobody gives away,  *)
(* frees or replaces the vector of a context that still fills it and would *)
(* free it again.                                                          *)
BlocksAccounted ==
  /\ held = nBlk
  /\ \A c \in Contexts : Filling(c) => vec = c /\ mine[c] = nBlk

(* All through a transfer the counters, the vector and the armed flag agree*)
(* on what is transferred: no command resets or frees under its loops, and *)
(* every shot was acquired.                                                *)
TransferWhole ==
  Transferring => /\ nShots = nBlk /\ nShots > 0 /\ nFires = nShots
                  /\ vec # "none" /\ armed

(* What is transferred was acquired for the blocks it goes to, by a core   *)
(* that is idle and cannot be triggered to overwrite it: a late ACQ_END is *)
(* never taken for that of the next acquisition.                           *)
TransferFresh == Transferring => fresh /\ fsm = "IDLE" /\ ~srcOn

(* While the trigger is disabled no source is selected, although arming    *)
(* and the end of a transfer write the configured sources.                 *)
DisabledIsSilent == disabled /\ pc["user"] # "srcOff" => ~srcOn

(* The DMA interrupts always alternate with ACQ_END, so the handler never  *)
(* takes the branch that warns and stops the machine.                      *)
NoWarn == job # "warn"

(* Only the interrupt's handler and work lower HW_BUSY, so they must never  *)
(* wait in an abort for it: fa_irq_work() lowers it before it stops or     *)
(* restarts the machine.                                                   *)
HandlerNeverWaits == pc["irq"] = "abort" => ~busy

(* A DMA has failed: its interrupt's handler, which alone lowers HW_BUSY,  *)
(* is to stop the machine.                                                 *)
DmaFailed == job = "dma" /\ pc["irq"] \in {"dmaErr", "abort"}

(* The SPEC scatterlist lives exactly from the start of a DMA to the       *)
(* handling of its interrupt: freed once, on every path.                   *)
ScatterlistOnce ==
  carrier = "SPEC" =>
    (sgLive <=> \/ dma # "idle" \/ pc["irq"] = "dmaDone"
                \/ DmaFailed /\ pc["irq"] = "dmaErr")

(* The critical section ends, on success and on failure.                   *)
BusyEnds == busy ~> ~busy

(* An armed acquisition is delivered, aborted or lost: it never hangs, as  *)
(* long as triggers come.                                                  *)
ArmedEnds == armed ~> ~armed

(* Every command of the user returns, the ones held off by HW_BUSY too.    *)
CallReturns == pc["user"] # "idle" ~> pc["user"] = "idle"

Ready == vec # "none" /\ armed /\ \A c \in Contexts : ~Arming(c)

Phase  == IF ~Ready THEN "idle"
          ELSE IF busy \/ res = "err" THEN "acquired" ELSE "armed"
Blocks == IF Ready THEN nBlk ELSE 0

Session == INSTANCE AcqSession WITH
  Room <- BufLen, Shots <- ShotChoices,
  phase <- Phase, blocks <- Blocks, ready <- stored

(* The driver delivers whole acquisitions: an armed one is aborted or      *)
(* acquired, an acquired one ends with all its blocks or none, whatever    *)
(* the order of interrupts, works and commands.                            *)
Implements == Session!Spec

-----------------------------------------------------------------------------
(* What the documentation says and the code does not do.                   *)

(* The machine is automatically restarted after the previous run is        *)
(* complete (driver-user.rst, fsm-auto-start): the work does not restart   *)
(* it while the samples are being transferred.                             *)
RestartAfterRun ==
  pc["irq"] = "abort" /\ cmd["irq"] = "START" => ~busy /\ dma = "idle"

(* A failed transfer stops the machine (fa-irq.c, zfad_dma_error): the     *)
(* error path lives to send the command.                                   *)
ErrorStops == ~(res = "err" /\ pc["irq"] = "oops")

(* A completed STOP ends the acquisition (driver-user.rst, fsm-command):   *)
(* the work does not start another one after it.                           *)
StopHolds ==
  [][pc["irq"] = "cmd" /\ pc'["irq"] # "cmd" /\ cmd["irq"] = "START"
     => ~(pc["user"] = "idle" /\ cmd["user"] = "STOP" /\ ~autoStart)]_vars

(* The abort of a command frees all blocks of the vector (fa-zio-trg.c,    *)
(* zfat_abort).                                                            *)
AbortFreesAll ==
  [][\A c \in Contexts :
       pc[c] = "abort" /\ pc'[c] = "reset" /\ vec # "none" /\ vec' = "none"
       => held' = held - nBlk]_vars
=============================================================================
