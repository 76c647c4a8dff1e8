------------------------------- MODULE FaLife -------------------------------
(***************************************************************************)
(* The life of the driver: loading the module, probing a mezzanine on its  *)
(* carrier, removing it, unloading; every step of these may fail.  Users,  *)
(* the interrupt, the work and the DMA go on meanwhile: their detail is in *)
(* FaAcq, here they only use what the life cycle takes and gives back.     *)
(***************************************************************************)
EXTENDS LifeParams, Sequences

VARIABLES
  stage,    (* the step that loading, probing, removing or unloading is at  *)
  carrier,  (* fa->carrier_op                                               *)
  i,        (* the index that fa_init(), fa_probe() or fa_remove() is at    *)
  inMods,   (* whether fa_probe()'s m points into mods[]                    *)
  torn,     (* fa_probe() is undoing its work with err = 0                  *)
  held,     (* what was acquired and not yet given back                     *)
  leaked,   (* what is still held by a device that is gone                  *)
  work,     (* INIT_WORK() has run                                          *)
  fault,    (* the first illegal access, or "none"                          *)
  mask,     (* ACQ_END is enabled in the interrupt controller               *)
  run,      (* the core's state machine was started                         *)
  auto,     (* fa->enable_auto_start                                        *)
  busy,     (* ZIO_CSET_HW_BUSY                                             *)
  chain,    (* where the interrupt's work is                                *)
  dma,      (* a SPEC transfer is under way                                 *)
  early,    (* history: an attribute was used before the end of a probe or  *)
            (* after the start of a removal                                 *)
  abrupt    (* history: a card was removed that was not quiet               *)

bus      == <<stage, carrier, i, inMods, torn, held, leaked, work>>
core     == <<mask, run, auto, busy, chain, dma>>
past     == <<early, abrupt>>
lifeVars == <<bus, fault, core, past>>

Mods       == <<"spi", "onewire", "zio", "debug">>
ModuleHas  == <<"workqueue", "trigger", "zio_driver", "fmc_driver">>
Gives(mod) == CASE mod = "zio" -> {"zio_device"} [] mod = "debug" -> {"dump"}
                [] OTHER -> {}

(* What belongs to the card: the rest of what is held is the module's.     *)
OfCard     == {"cdata", "zio_device", "dump", "adc_irq", "dma_irq", "pin"}

LifeInit ==
  /\ stage = "unloaded" /\ carrier = "SVEC" /\ i = 0 /\ inMods = FALSE
  /\ torn = FALSE /\ held = {} /\ leaked = {} /\ work = FALSE /\ fault = "none"
  /\ mask = FALSE /\ run = FALSE /\ auto = FALSE /\ busy = FALSE
  /\ chain = "idle" /\ dma = FALSE /\ early = FALSE /\ abrupt = FALSE

May(step) == step \in Failing
Goto(s)   == stage' = s
Take(r)   == held' = held \cup r /\ UNCHANGED fault
Keep      == UNCHANGED <<held, fault>>

(* A second release, of what somebody else may own by now.                 *)
Release(r) ==
  /\ held' = held \ {r}
  /\ fault' = IF r \in held \/ fault # "none" THEN fault ELSE "released_twice"

-----------------------------------------------------------------------------
(* fa_init(), its error path, and fa_exit().                               *)

Load == /\ stage = "unloaded" /\ Goto("init") /\ i' = 0
        /\ UNCHANGED <<carrier, inMods, torn, held, leaked, work, fault, core>>

LoadStep ==
  /\ stage = "init"
  /\ \/ /\ i < 4 /\ Take({ModuleHas[i + 1]}) /\ i' = i + 1 /\ UNCHANGED stage
     \/ /\ i < 4 /\ May(ModuleHas[i + 1]) /\ Goto("unload") /\ Keep
        /\ UNCHANGED i
     \/ i = 4 /\ Goto("ready") /\ Keep /\ UNCHANGED i
  /\ UNCHANGED <<carrier, inMods, torn, leaked, work, core>>

Unload == /\ stage = "ready" /\ Goto("unload") /\ i' = 4
          /\ UNCHANGED <<carrier, inMods, torn, held, leaked, work, fault, core>>

UnloadStep ==
  /\ stage = "unload"
  /\ \/ i > 0 /\ Release(ModuleHas[i]) /\ i' = i - 1 /\ UNCHANGED stage
     \/ i = 0 /\ Goto("unloaded") /\ Keep /\ UNCHANGED i
  /\ UNCHANGED <<carrier, inMods, torn, leaked, work, core>>

-----------------------------------------------------------------------------
(* fa_probe().  The index it validates the card with is the one its error  *)
(* path counts down, unless the loop over mods[] has set it.               *)

Probe ==
  /\ stage = "ready" /\ Goto("gateware")
  /\ carrier' \in Carriers /\ i' \in Busids /\ inMods' = FALSE
  /\ UNCHANGED <<torn, held, leaked, work, fault, core>>

(* fmc_reprogram() and __fa_sdb_get_device().                              *)
Gateware ==
  /\ stage = "gateware"
  /\ \/ Goto("carrier")
     \/ May("gateware") /\ Goto("undo")
  /\ Keep /\ UNCHANGED <<carrier, i, inMods, torn, leaked, work, core>>

(* fa_spec_init(), fa_svec_init(): the SPEC makes its checks after it has  *)
(* allocated the carrier data and before anything refers to them.          *)
CarrierInit ==
  /\ stage = "carrier"
  /\ \/ /\ Take({"cdata"}) /\ Goto("mods") /\ i' = 0 /\ inMods' = TRUE
        /\ UNCHANGED leaked
     \/ /\ May("carrier") /\ Goto("undo") /\ Keep
        /\ UNCHANGED <<i, inMods, leaked>>
     \/ /\ May("check") /\ carrier = "SPEC" /\ Goto("undo") /\ Keep
        /\ leaked' = leaked \cup {"cdata"} /\ UNCHANGED <<i, inMods>>
  /\ UNCHANGED <<carrier, torn, work, core>>

ModInit ==
  /\ stage = "mods" /\ i < 4
  /\ \/ Take(Gives(Mods[i + 1])) /\ i' = i + 1 /\ UNCHANGED stage
     \/ May(Mods[i + 1]) /\ Goto("undo") /\ Keep /\ UNCHANGED i
  /\ UNCHANGED <<carrier, inMods, torn, leaked, work, core>>

(* __fa_init(): the state machine is stopped, the automatic start is off.  *)
(* A failure returns at once, or undoes what the subsystems did.           *)
UndoAfterHwNone == 0
UndoAfterHw == i

HwInit ==
  /\ stage = "mods" /\ i = 4
  /\ \/ Goto("adc_irq") /\ run' = FALSE /\ auto' = FALSE /\ UNCHANGED i
     \/ /\ May("dma_mask") /\ Goto("undo") /\ i' = UndoAfterHw
        /\ UNCHANGED <<run, auto>>
  /\ Keep /\ UNCHANGED <<carrier, inMods, torn, leaked, work>>
  /\ UNCHANGED <<mask, busy, chain, dma>>

-----------------------------------------------------------------------------
(* fa_setup_irqs() and the carrier's part of it.  The handler is in place  *)
(* before the work it queues.  Of the failures only the first leaves no    *)
(* interrupt behind.                                                       *)

RequestAdc ==
  /\ stage = "adc_irq"
  /\ \/ "adc_irq" \notin leaked /\ Take({"adc_irq"}) /\ Goto("work")
     \/ (May("adc_irq") \/ "adc_irq" \in leaked) /\ Goto("undo") /\ Keep
  /\ UNCHANGED <<carrier, i, inMods, torn, leaked, work, core>>

InitWork ==
  /\ stage = "work" /\ Goto("dma_irq") /\ work' = TRUE
  /\ UNCHANGED <<carrier, i, inMods, torn, held, leaked, fault, core>>

CarrierIrqs ==
  /\ stage = "dma_irq"
  /\ \/ carrier = "SVEC" /\ Goto("pin") /\ Keep
     \/ carrier = "SPEC" /\ Goto("pin") /\ Take({"dma_irq"})
     \/ carrier = "SPEC" /\ May("dma_irq") /\ Goto("undo") /\ Keep
  /\ UNCHANGED <<carrier, i, inMods, torn, leaked, work, core>>

(* A carrier that is going away: what was built is undone, and the success *)
(* of fa_setup_irqs() is still in err.                                     *)
Pin ==
  /\ stage = "pin"
  /\ \/ Take({"pin"}) /\ Goto("live") /\ UNCHANGED torn
     \/ May("pin") /\ Goto("mask") /\ torn' = TRUE /\ Keep
  /\ UNCHANGED <<carrier, i, inMods, leaked, work, core>>

-----------------------------------------------------------------------------
(* fa_free_irqs(), for fa_remove() and for the error path of fa_probe().   *)

(* A card whose automatic start is off and which, on a SPEC, is idle.      *)
CardQuiet ==
  /\ ~auto /\ chain # "restart"
  /\ carrier = "SPEC" => ~run /\ chain = "idle" /\ ~dma

Remove ==
  /\ stage \in {"live", "torn"} /\ Goto("mask") /\ torn' = FALSE
  /\ UNCHANGED <<carrier, i, inMods, held, leaked, work, fault, core>>

(* fa_disable_irqs(); and giving back the handlers alone.                  *)
MaskedKept == mask
Masked == FALSE

MaskIrqs ==
  /\ stage = "mask" /\ Goto("free_dma") /\ mask' = Masked
  /\ UNCHANGED <<carrier, i, inMods, torn, held, leaked, work, fault>>
  /\ UNCHANGED <<run, auto, busy, chain, dma>>

(* The carriers with an interrupt of their own.                            *)
HasDmaIrqAny == TRUE
HasDmaIrq == carrier = "SPEC"

FreeDma ==
  /\ stage = "free_dma" /\ Goto("free_adc")
  /\ IF HasDmaIrq THEN Release("dma_irq") ELSE Keep
  /\ UNCHANGED <<carrier, i, inMods, torn, leaked, work, core>>

FreeAdc ==
  /\ stage = "free_adc" /\ Release("adc_irq")
  /\ Goto(IF torn THEN "undo" ELSE "flush")
  /\ UNCHANGED <<carrier, i, inMods, torn, leaked, work, core>>

(* flush_workqueue() waits for a work that is queued or running; a flush   *)
(* that starts too early would wait for the running one alone.             *)
FlushedRunning == chain \in {"idle", "queued"}
Flushed == chain = "idle"

(* Where fa_remove() begins to count down; and one past the end of mods[]. *)
LastExitPast == Len(Mods) + 1
LastExit == Len(Mods)

Flush ==
  /\ stage = "flush" /\ Flushed /\ Goto("exits") /\ i' = LastExit
  /\ UNCHANGED <<carrier, inMods, torn, held, leaked, work, fault, core>>

-----------------------------------------------------------------------------
(* The exits of the subsystems.  fa_zio_exit() unregisters the device: ZIO *)
(* aborts the trigger, which waits for ZIO_CSET_HW_BUSY, and destroys it.  *)

Exit(mod) ==
  CASE mod = "zio"   -> ~busy /\ Release("zio_device")
    [] mod = "debug" -> Release("dump")
    [] OTHER         -> Keep

(* The order of the exits: that of the inits, reversed.  And not reversed. *)
NthForward(k) == Mods[5 - k]
Nth(k) == Mods[k]

(* The loops of fa_remove() and of fa_probe()'s error path.                *)
ModExit ==
  /\ stage \in {"exits", "undo"} /\ i > 0 /\ (stage = "undo" => inMods)
  /\ Exit(Nth(i)) /\ i' = i - 1
  /\ UNCHANGED <<stage, carrier, inMods, torn, leaked, work, core>>

(* The error path decrements m while it is still NULL, and calls through it*)
WildExit ==
  /\ stage = "undo" /\ i > 0 /\ ~inMods
  /\ Goto("oops") /\ fault' = "wild_pointer"
  /\ UNCHANGED <<carrier, i, inMods, torn, held, leaked, work, core>>

(* A probe that failed: fa goes, with all that still refers to it.  If it  *)
(* returned 0 after all, the card counts as bound.                         *)
Orphans == held \cap OfCard

Undone ==
  /\ stage = "undo" /\ i = 0
  /\ IF torn THEN Goto("torn") /\ UNCHANGED <<held, leaked, work>>
     ELSE /\ Goto("ready") /\ work' = FALSE /\ held' = held \ OfCard
          /\ leaked' = leaked \cup Orphans
  /\ UNCHANGED <<carrier, i, inMods, torn, fault, core>>

CarrierExit ==
  /\ stage = "exits" /\ i = 0 /\ Release("cdata") /\ Goto("put")
  /\ UNCHANGED <<carrier, i, inMods, torn, leaked, work, core>>

(* module_put(), and the end of fa.                                        *)
Put ==
  /\ stage = "put" /\ Release("pin") /\ Goto("ready") /\ work' = FALSE
  /\ UNCHANGED <<carrier, i, inMods, torn, leaked, core>>

-----------------------------------------------------------------------------
(* Users, through the attributes of the ZIO device.                        *)

Reachable == "zio_device" \in held

Start ==
  /\ Reachable /\ ~busy /\ ~run /\ run' = TRUE /\ mask' = TRUE
  /\ UNCHANGED <<bus, fault, auto, busy, chain, dma>>

Stop ==
  /\ Reachable /\ ~busy /\ run' = FALSE /\ mask' = FALSE /\ auto' = FALSE
  /\ UNCHANGED <<bus, fault, busy, chain, dma>>

AutoStart ==
  /\ Reachable /\ auto' = ~auto
  /\ UNCHANGED <<bus, fault, mask, run, busy, chain, dma>>

-----------------------------------------------------------------------------
(* The end of an acquisition: the handler, its work, the transfer.         *)

Irq ==
  /\ mask /\ run /\ chain = "idle" /\ ~busy
  /\ \/ /\ "adc_irq" \in held /\ work
        /\ chain' = "queued" /\ busy' = TRUE /\ run' = FALSE /\ UNCHANGED fault
     \/ /\ "adc_irq" \in held /\ ~work /\ fault' = "work_not_ready"
        /\ run' = FALSE /\ UNCHANGED <<chain, busy>>
     \/ /\ "adc_irq" \in leaked /\ fault' = "device_gone"
        /\ run' = FALSE /\ UNCHANGED <<chain, busy>>
  /\ UNCHANGED <<bus, mask, auto, dma>>

(* fa_irq_work(): the transfer, to its end on a SVEC.                      *)
BusyKept == busy
BusyAfterSvec == FALSE

WorkDma ==
  /\ chain = "queued" /\ chain' = "done"
  /\ IF carrier = "SPEC" THEN dma' = TRUE /\ UNCHANGED busy
                         ELSE busy' = BusyAfterSvec /\ UNCHANGED dma
  /\ UNCHANGED <<bus, fault, mask, run, auto>>

WorkAuto ==
  /\ chain = "done" /\ chain' = IF auto THEN "restart" ELSE "ack"
  /\ UNCHANGED <<bus, fault, mask, run, auto, busy, dma>>

WorkStart ==
  /\ chain = "restart" /\ chain' = "ack" /\ ~busy
  /\ run' = TRUE /\ mask' = TRUE
  /\ UNCHANGED <<bus, fault, auto, busy, dma>>

WorkAck ==
  /\ chain = "ack" /\ chain' = "idle"
  /\ UNCHANGED <<bus, fault, mask, run, auto, busy, dma>>

(* fa_spec_irq_handler(): only this ends a SPEC's transfer.                *)
DmaEnd ==
  /\ dma /\ chain = "idle" /\ "dma_irq" \in held
  /\ dma' = FALSE /\ busy' = FALSE
  /\ UNCHANGED <<bus, fault, mask, run, auto, chain>>

-----------------------------------------------------------------------------
LoadOrUnload == LoadStep \/ UnloadStep
Probing == \/ Gateware \/ CarrierInit \/ ModInit \/ HwInit \/ RequestAdc
           \/ InitWork \/ CarrierIrqs \/ Pin
Freeing == \/ MaskIrqs \/ FreeDma \/ FreeAdc \/ Flush \/ ModExit \/ WildExit
           \/ Undone \/ CarrierExit \/ Put
Thread  == LoadOrUnload \/ Probing \/ Freeing
Using   == Start \/ Stop \/ AutoStart
Chain   == WorkDma \/ WorkAuto \/ WorkStart \/ WorkAck \/ DmaEnd

(* What is remembered of users and of removals.                            *)
UsedEarly    == early' = (early \/ stage # "live") /\ UNCHANGED abrupt
TakenOutLoud == abrupt' = (abrupt \/ stage = "torn" \/ ~CardQuiet) /\ UNCHANGED early

LifeNext ==
  \/ (Load \/ Unload \/ Probe \/ Thread \/ Irq \/ Chain) /\ UNCHANGED past
  \/ Using /\ UsedEarly
  \/ Remove /\ TakenOutLoud

LifeSpec == LifeInit /\ [][LifeNext]_lifeVars

(* Loading, probing and removing run in a thread that goes on when it can; *)
(* so does the work queue, and a transfer under way ends.                  *)
LifeFairness ==
  WF_lifeVars(Thread /\ UNCHANGED past) /\ WF_lifeVars(Chain /\ UNCHANGED past)

LifeFairSpec == LifeSpec /\ LifeFairness

-----------------------------------------------------------------------------
Stages == {"unloaded", "init", "ready", "unload", "gateware", "carrier",
           "mods", "adc_irq", "work", "dma_irq", "pin", "live", "torn", "mask",
           "free_dma", "free_adc", "flush", "exits", "undo", "put", "oops"}

(* The variables keep their types.  The index never leaves mods[] or, while *)
(* a card is validated and its failed probe undone, the list of busid=.    *)
LifeTypeOK ==
  /\ stage \in Stages /\ carrier \in {"SPEC", "SVEC"}
  /\ i \in 0 .. Len(Mods) \cup Busids
  /\ inMods \in BOOLEAN /\ torn \in BOOLEAN /\ work \in BOOLEAN
  /\ held \subseteq OfCard \cup {"workqueue", "trigger", "zio_driver", "fmc_driver"}
  /\ leaked \subseteq OfCard
  /\ fault \in {"none", "released_twice", "wild_pointer",
                "work_not_ready", "device_gone"}
  /\ mask \in BOOLEAN /\ run \in BOOLEAN /\ auto \in BOOLEAN /\ busy \in BOOLEAN
  /\ chain \in {"idle", "queued", "done", "restart", "ack"} /\ dma \in BOOLEAN
  /\ early \in BOOLEAN /\ abrupt \in BOOLEAN

Needs(r) ==
  CASE r = "trigger"    -> {"workqueue"}
    [] r = "zio_driver" -> {"trigger"}
    [] r = "fmc_driver" -> {"zio_driver"}
    [] r = "zio_device" -> {"zio_driver", "fmc_driver", "cdata"}
    [] r = "dump"       -> {"zio_device"}
    [] r = "adc_irq"    -> {"zio_device", "workqueue"}
    [] r = "dma_irq"    -> {"zio_device", "cdata"}
    [] OTHER            -> {}

(* At every step of every load, probe, removal and unload, failed ones     *)
(* too, nothing is held without what it is built on: the teardowns of      *)
(* fa_remove(), fa_exit() and the error paths are in a right order.  The   *)
(* ADC's interrupt, when that of the DMA was refused, is the exception.    *)
Abandoned == IF stage = "undo" THEN {"adc_irq"} ELSE {}
Supported == \A r \in held \ Abandoned : Needs(r) \subseteq held

(* Since the module was loaded users kept to cards whose probe had ended   *)
(* and whose removal had not begun, and removed none that was not quiet.   *)
Orderly == ~early /\ ~abrupt

(* The work and the transfer never run without the device, the carrier     *)
(* data and the queue they use: fa_remove() flushes in the right place.    *)
ChainAlive ==
  chain # "idle" \/ dma =>
    {"workqueue", "zio_device", "cdata"} \subseteq held \/ ~Orderly

(* Without a driver no interrupt is enabled.                               *)
SilentWhenGone == stage \in {"unloaded", "ready"} => ~mask \/ ~Orderly

(* fa-irq.c:414-418: removing the driver disables the interrupts, whatever *)
(* the card is doing.                                                      *)
RemovalSilences == stage \in {"unloaded", "ready"} => ~mask \/ early

(* A probe that fails gives back all but the carrier data, and the ADC's   *)
(* interrupt if the one of the DMA was refused.                            *)
NothingElseLeaks ==
  leaked \subseteq {"cdata"} \cup IF "SPEC" \in Carriers THEN {"adc_irq"} ELSE {}

(* Nothing is released twice, no exit is called through a wild pointer, no *)
(* handler runs before its work or after its device.  A card named in      *)
(* busid= is the exception: the place it has there is where the error path *)
(* begins to count (WildExit).                                             *)
NoFault ==
  \/ fault = "none" \/ ~Orderly
  \/ fault = "wild_pointer" /\ Busids # {0}

(* A removal, and an unload, end: the flush, and the abort that waits for  *)
(* the flag, are always answered.                                          *)
RemoveEnds ==
  (stage = "mask" /\ ~torn) \/ stage = "unload"
    ~> stage \in {"ready", "unloaded"} \/ ~Orderly
=============================================================================
