---------------------------- MODULE FaLifeProofs ----------------------------
(***************************************************************************)
(* For every carrier, every set of steps that may fail and whatever users  *)
(* do: nothing is held without what it is built on, and a failed probe     *)
(* leaves behind two known things at most.  For orderly users: the chain   *)
(* of interrupts never dies, and nothing works for a card that is gone.    *)
(***************************************************************************)
EXTENDS FaLife, Integers, TLAPS

(* The module's things are held in the order of fa_init(): how many of     *)
(* them depends on the stage only.                                         *)
Loaded == IF stage = "unloaded" THEN 0
          ELSE IF stage \in {"init", "unload"} THEN i ELSE 4

ModuleHeld ==
  /\ Loaded \in 0 .. 4
  /\ "workqueue" \in held <=> 1 <= Loaded
  /\ "trigger" \in held <=> 2 <= Loaded
  /\ "zio_driver" \in held <=> 3 <= Loaded
  /\ "fmc_driver" \in held <=> 4 <= Loaded

(* The card's things, by the stages in which each may be held.             *)
NoCard    == {"unloaded", "init", "ready", "unload", "gateware", "carrier", "oops"}
WithAdc   == {"work", "dma_irq", "pin", "live", "mask", "free_dma", "free_adc", "undo"}
WithDma   == {"pin", "live", "mask", "free_dma"}
WithPin   == {"live", "mask", "free_dma", "free_adc", "flush", "exits", "put"}
Built     == {"adc_irq", "work", "dma_irq", "pin"}

CardHeld ==
  /\ stage \in NoCard \/ (stage = "undo" /\ ~inMods) => held \cap OfCard = {}
  /\ "cdata" \in held => stage # "put"
  /\ "zio_device" \in held => "cdata" \in held
  /\ "dump" \in held => "zio_device" \in held
  /\ "adc_irq" \in held =>
       /\ stage \in WithAdc
       /\ IF stage = "undo" THEN carrier = "SPEC" /\ ~torn
          ELSE "zio_device" \in held
  /\ "dma_irq" \in held => /\ stage \in WithDma /\ carrier = "SPEC"
                           /\ "zio_device" \in held
  /\ "pin" \in held => stage \in WithPin /\ ~torn

(* The exits take apart what the index says is there.                      *)
Counted ==
  /\ stage \in {"gateware", "carrier"} => ~inMods
  /\ stage = "mods" \/ stage \in Built => inMods
  /\ stage = "mods" => "cdata" \in held /\ (i > 2 => "zio_device" \in held)
  /\ stage \in {"mods", "exits"} \/ (stage = "undo" /\ inMods) =>
       i <= 4 /\ (i < 4 => "dump" \notin held) /\ (i < 3 => "zio_device" \notin held)
  /\ stage \in Built => i = 4 /\ "zio_device" \in held
  /\ torn => /\ stage \in {"mask", "free_dma", "free_adc", "undo", "torn"}
             /\ inMods /\ (stage # "torn" /\ stage # "undo" => i = 4)
  /\ stage \notin {"unloaded", "init", "ready", "unload"} => carrier \in Carriers

IInv == LifeTypeOK /\ ModuleHeld /\ CardHeld /\ Counted /\ NothingElseLeaks

-----------------------------------------------------------------------------
(* Types.                                                                  *)

LEMMA AreStages ==
  /\ "unloaded" \in Stages /\ "init" \in Stages /\ "ready" \in Stages
  /\ "unload" \in Stages /\ "gateware" \in Stages /\ "carrier" \in Stages
  /\ "mods" \in Stages /\ "adc_irq" \in Stages /\ "work" \in Stages
  /\ "dma_irq" \in Stages /\ "pin" \in Stages /\ "live" \in Stages
  /\ "torn" \in Stages /\ "mask" \in Stages /\ "free_dma" \in Stages
  /\ "free_adc" \in Stages /\ "flush" \in Stages /\ "exits" \in Stages
  /\ "undo" \in Stages /\ "put" \in Stages /\ "oops" \in Stages
BY DEF Stages

LEMMA AreOfCard ==
  /\ "cdata" \in OfCard /\ "zio_device" \in OfCard /\ "dump" \in OfCard
  /\ "adc_irq" \in OfCard /\ "dma_irq" \in OfCard /\ "pin" \in OfCard
BY DEF OfCard

Flags ==
  /\ inMods \in BOOLEAN /\ torn \in BOOLEAN /\ work \in BOOLEAN
  /\ mask \in BOOLEAN /\ run \in BOOLEAN /\ auto \in BOOLEAN /\ busy \in BOOLEAN
  /\ dma \in BOOLEAN /\ early \in BOOLEAN /\ abrupt \in BOOLEAN

Places ==
  /\ stage \in Stages /\ carrier \in {"SPEC", "SVEC"} /\ i \in Nat
  /\ held \subseteq OfCard \cup {"workqueue", "trigger", "zio_driver", "fmc_driver"}
  /\ leaked \subseteq OfCard
  /\ fault \in {"none", "released_twice", "wild_pointer",
                "work_not_ready", "device_gone"}
  /\ chain \in {"idle", "queued", "done", "restart", "ack"}

(* The index is one of mods[], or the card's place in busid=.              *)
Indexed == i \in 0 .. 4 \cup Busids

LEMMA FourMods == Len(Mods) = 4
BY DEF Mods

LEMMA IndexIs ==
  /\ i \in 0 .. Len(Mods) \cup Busids <=> Indexed
  /\ Indexed => i \in Nat
<1>1. i \in 0 .. Len(Mods) \cup Busids <=> Indexed
  BY FourMods, Zenon DEF Indexed
<1>2. Indexed => i \in Nat
  BY LifeAssumption DEF Indexed
<1> QED
  BY <1>1, <1>2

LEMMA TypeIs == LifeTypeOK <=> Flags /\ Places /\ Indexed
BY IndexIs, Zenon DEF LifeTypeOK, Flags, Places

LEMMA InitFlags == LifeInit => Flags
BY DEF LifeInit, Flags

LEMMA InitPlaces == LifeInit => Places /\ Indexed
BY AreStages DEF LifeInit, Places, Indexed

LEMMA ModsAre ==
  /\ \A k \in 0 .. 4 : k < 4 => Gives(Mods[k + 1]) \subseteq {"zio_device", "dump"}
  /\ Gives(Mods[1]) = {} /\ Gives(Mods[2]) = {}
  /\ Gives(Mods[3]) = {"zio_device"} /\ Gives(Mods[4]) = {"dump"}
<1>1. /\ Gives(Mods[1]) = {} /\ Gives(Mods[2]) = {}
      /\ Gives(Mods[3]) = {"zio_device"} /\ Gives(Mods[4]) = {"dump"}
  BY DEF Gives, Mods
<1>2. \A k \in 0 .. 4 : k < 4 => k + 1 \in {1, 2, 3, 4}
  OBVIOUS
<1> QED
  BY <1>1, <1>2

LEMMA NextFlags == Flags /\ [LifeNext]_lifeVars => Flags'
<1> SUFFICES ASSUME Flags, [LifeNext]_lifeVars PROVE Flags'
  OBVIOUS
<1>0. early' \in BOOLEAN /\ abrupt' \in BOOLEAN
  BY DEF LifeNext, UsedEarly, TakenOutLoud, past, lifeVars, Flags
<1> USE <1>0 DEF Flags, bus, core
<1>1. CASE Load
  BY <1>1 DEF Load
<1>2. CASE LoadStep
  BY <1>2 DEF LoadStep, ModuleHas
<1>3. CASE Unload
  BY <1>3 DEF Unload
<1>4. CASE UnloadStep
  BY <1>4 DEF UnloadStep
<1>5. CASE Probe
  BY <1>5 DEF Probe
<1>6. CASE Gateware
  BY <1>6 DEF Gateware
<1>7. CASE CarrierInit
  BY <1>7 DEF CarrierInit
<1>8. CASE ModInit
  BY <1>8, ModsAre DEF ModInit
<1>9. CASE HwInit
  BY <1>9 DEF HwInit, UndoAfterHw
<1>10. CASE RequestAdc
  BY <1>10 DEF RequestAdc
<1>11. CASE InitWork
  BY <1>11 DEF InitWork
<1>12. CASE CarrierIrqs
  BY <1>12 DEF CarrierIrqs
<1>13. CASE Pin
  BY <1>13 DEF Pin
<1>14. CASE Remove
  BY <1>14 DEF Remove
<1>15. CASE MaskIrqs
  BY <1>15 DEF MaskIrqs, Masked
<1>16. CASE FreeDma
  BY <1>16 DEF FreeDma
<1>17. CASE FreeAdc
  BY <1>17 DEF FreeAdc
<1>18. CASE Flush
  BY <1>18, FourMods DEF Flush, LastExit
<1>19. CASE ModExit
  BY <1>19 DEF ModExit, Exit
<1>20. CASE WildExit
  BY <1>20 DEF WildExit
<1>21. CASE Undone
  BY <1>21 DEF Undone, Orphans
<1>22. CASE CarrierExit
  BY <1>22 DEF CarrierExit
<1>23. CASE Put
  BY <1>23 DEF Put
<1>24. CASE Start
  BY <1>24 DEF Start
<1>25. CASE Stop
  BY <1>25 DEF Stop
<1>26. CASE AutoStart
  BY <1>26 DEF AutoStart
<1>27. CASE Irq
  BY <1>27 DEF Irq
<1>28. CASE WorkDma
  BY <1>28 DEF WorkDma, BusyAfterSvec
<1>29. CASE WorkAuto
  BY <1>29 DEF WorkAuto
<1>30. CASE WorkStart
  BY <1>30 DEF WorkStart
<1>31. CASE WorkAck
  BY <1>31 DEF WorkAck
<1>32. CASE DmaEnd
  BY <1>32 DEF DmaEnd
<1>33. CASE UNCHANGED lifeVars
  BY <1>33 DEF lifeVars
<1> QED
  BY <1>1, <1>2, <1>3, <1>4, <1>5, <1>6, <1>7, <1>8, <1>9, <1>10, <1>11,
     <1>12, <1>13, <1>14, <1>15, <1>16, <1>17, <1>18, <1>19, <1>20, <1>21,
     <1>22, <1>23, <1>24, <1>25, <1>26, <1>27, <1>28, <1>29, <1>30, <1>31,
     <1>32, <1>33
     DEF LifeNext, Thread, LoadOrUnload, Probing, Freeing, Using, Chain

LEMMA NextPlaces == Places /\ [LifeNext]_lifeVars => Places'
<1> SUFFICES ASSUME Places, [LifeNext]_lifeVars PROVE Places'
  OBVIOUS
<1> USE LifeAssumption, AreStages, AreOfCard
        DEF Places, Goto, Take, Keep, Release, bus, core
<1>1. CASE Load
  BY <1>1 DEF Load
<1>2. CASE LoadStep
  BY <1>2 DEF LoadStep, ModuleHas
<1>3. CASE Unload
  BY <1>3 DEF Unload
<1>4. CASE UnloadStep
  BY <1>4 DEF UnloadStep
<1>5. CASE Probe
  BY <1>5 DEF Probe
<1>6. CASE Gateware
  BY <1>6 DEF Gateware
<1>7. CASE CarrierInit
  BY <1>7 DEF CarrierInit
<1>8. CASE ModInit
  BY <1>8, ModsAre DEF ModInit
<1>9. CASE HwInit
  BY <1>9 DEF HwInit, UndoAfterHw
<1>10. CASE RequestAdc
  BY <1>10 DEF RequestAdc
<1>11. CASE InitWork
  BY <1>11 DEF InitWork
<1>12. CASE CarrierIrqs
  BY <1>12 DEF CarrierIrqs
<1>13. CASE Pin
  BY <1>13 DEF Pin
<1>14. CASE Remove
  BY <1>14 DEF Remove
<1>15. CASE MaskIrqs
  BY <1>15 DEF MaskIrqs, Masked
<1>16. CASE FreeDma
  BY <1>16 DEF FreeDma
<1>17. CASE FreeAdc
  BY <1>17 DEF FreeAdc
<1>18. CASE Flush
  BY <1>18, FourMods DEF Flush, LastExit
<1>19. CASE ModExit
  BY <1>19 DEF ModExit, Exit
<1>20. CASE WildExit
  BY <1>20 DEF WildExit
<1>21. CASE Undone
  BY <1>21 DEF Undone, Orphans
<1>22. CASE CarrierExit
  BY <1>22 DEF CarrierExit
<1>23. CASE Put
  BY <1>23 DEF Put
<1>24. CASE Start
  BY <1>24 DEF Start
<1>25. CASE Stop
  BY <1>25 DEF Stop
<1>26. CASE AutoStart
  BY <1>26 DEF AutoStart
<1>27. CASE Irq
  BY <1>27 DEF Irq
<1>28. CASE WorkDma
  BY <1>28 DEF WorkDma, BusyAfterSvec
<1>29. CASE WorkAuto
  BY <1>29 DEF WorkAuto
<1>30. CASE WorkStart
  BY <1>30 DEF WorkStart
<1>31. CASE WorkAck
  BY <1>31 DEF WorkAck
<1>32. CASE DmaEnd
  BY <1>32 DEF DmaEnd
<1>33. CASE UNCHANGED lifeVars
  BY <1>33 DEF lifeVars
<1> QED
  BY <1>1, <1>2, <1>3, <1>4, <1>5, <1>6, <1>7, <1>8, <1>9, <1>10, <1>11,
     <1>12, <1>13, <1>14, <1>15, <1>16, <1>17, <1>18, <1>19, <1>20, <1>21,
     <1>22, <1>23, <1>24, <1>25, <1>26, <1>27, <1>28, <1>29, <1>30, <1>31,
     <1>32, <1>33
     DEF LifeNext, Thread, LoadOrUnload, Probing, Freeing, Using, Chain

-----------------------------------------------------------------------------
(* The users, the interrupt and the work leave the life cycle alone.       *)
LEMMA CoreSteps ==
  ASSUME Start \/ Stop \/ AutoStart \/ Irq \/ Chain \/ UNCHANGED lifeVars
  PROVE  UNCHANGED bus
BY DEF Start, Stop, AutoStart, Irq, Chain, WorkDma, WorkAuto, WorkStart, WorkAck,
       DmaEnd, lifeVars, bus

LEMMA NextModule == Places /\ ModuleHeld /\ [LifeNext]_lifeVars => ModuleHeld'
<1> SUFFICES ASSUME Places, ModuleHeld, [LifeNext]_lifeVars PROVE ModuleHeld'
  OBVIOUS
<1> USE DEF Places, OfCard, ModuleHeld, Loaded, Goto, Take, Keep, Release, bus
<1>1. CASE Load
  BY <1>1 DEF Load
<1>2. CASE LoadStep
  BY <1>2 DEF LoadStep, ModuleHas
<1>3. CASE Unload
  BY <1>3 DEF Unload
<1>4. CASE UnloadStep
  BY <1>4 DEF UnloadStep, ModuleHas
<1>5. CASE Probe
  BY <1>5 DEF Probe
<1>6. CASE Gateware
  BY <1>6 DEF Gateware
<1>7. CASE CarrierInit
  BY <1>7 DEF CarrierInit
<1>8. CASE ModInit
  BY <1>8, ModsAre DEF ModInit
<1>9. CASE HwInit
  BY <1>9 DEF HwInit, UndoAfterHw
<1>10. CASE RequestAdc
  BY <1>10 DEF RequestAdc
<1>11. CASE InitWork
  BY <1>11 DEF InitWork
<1>12. CASE CarrierIrqs
  BY <1>12 DEF CarrierIrqs
<1>13. CASE Pin
  BY <1>13 DEF Pin
<1>14. CASE Remove
  BY <1>14 DEF Remove
<1>15. CASE MaskIrqs
  BY <1>15 DEF MaskIrqs
<1>16. CASE FreeDma
  BY <1>16 DEF FreeDma, HasDmaIrq
<1>17. CASE FreeAdc
  BY <1>17 DEF FreeAdc
<1>18. CASE Flush
  BY <1>18, FourMods DEF Flush, LastExit
<1>19. CASE ModExit
  BY <1>19 DEF ModExit, Exit, Nth, Mods
<1>20. CASE WildExit
  BY <1>20 DEF WildExit
<1>21. CASE Undone
  BY <1>21 DEF Undone, Orphans
<1>22. CASE CarrierExit
  BY <1>22 DEF CarrierExit
<1>23. CASE Put
  BY <1>23 DEF Put
<1>24. CASE UNCHANGED bus
  BY <1>24
<1> QED
  BY <1>1, <1>2, <1>3, <1>4, <1>5, <1>6, <1>7, <1>8, <1>9, <1>10, <1>11,
     <1>12, <1>13, <1>14, <1>15, <1>16, <1>17, <1>18, <1>19, <1>20, <1>21,
     <1>22, <1>23, <1>24, CoreSteps
     DEF LifeNext, Thread, LoadOrUnload, Probing, Freeing, Using

LEMMA NextCard ==
  Places /\ Counted /\ CardHeld /\ [LifeNext]_lifeVars => CardHeld'
<1> SUFFICES ASSUME Places, Counted, CardHeld, [LifeNext]_lifeVars PROVE CardHeld'
  OBVIOUS
<1> USE DEF Places, OfCard, Counted, CardHeld, NoCard, WithAdc, WithDma, WithPin,
            Built, Goto, Take, Keep, Release, bus
<1>1. CASE Load
  BY <1>1 DEF Load
<1>2. CASE LoadStep
  BY <1>2 DEF LoadStep, ModuleHas
<1>3. CASE Unload
  BY <1>3 DEF Unload
<1>4. CASE UnloadStep
  BY <1>4 DEF UnloadStep, ModuleHas
<1>5. CASE Probe
  BY <1>5 DEF Probe
<1>6. CASE Gateware
  BY <1>6 DEF Gateware
<1>7. CASE CarrierInit
  BY <1>7 DEF CarrierInit
<1>8. CASE ModInit
  BY <1>8, ModsAre DEF ModInit
<1>9. CASE HwInit
  BY <1>9 DEF HwInit, UndoAfterHw
<1>10. CASE RequestAdc
  BY <1>10 DEF RequestAdc
<1>11. CASE InitWork
  BY <1>11 DEF InitWork
<1>12. CASE CarrierIrqs
  BY <1>12 DEF CarrierIrqs
<1>13. CASE Pin
  BY <1>13 DEF Pin
<1>14. CASE Remove
  BY <1>14 DEF Remove
<1>15. CASE MaskIrqs
  BY <1>15 DEF MaskIrqs
<1>16. CASE FreeDma
  BY <1>16 DEF FreeDma, HasDmaIrq
<1>17. CASE FreeAdc
  BY <1>17 DEF FreeAdc
<1>18. CASE Flush
  BY <1>18, FourMods DEF Flush, LastExit
<1>19. CASE ModExit
  BY <1>19 DEF ModExit, Exit, Nth, Mods
<1>20. CASE WildExit
  BY <1>20 DEF WildExit
<1>21. CASE Undone
  BY <1>21 DEF Undone, Orphans
<1>22. CASE CarrierExit
  BY <1>22 DEF CarrierExit
<1>23. CASE Put
  BY <1>23 DEF Put
<1>24. CASE UNCHANGED bus
  BY <1>24
<1> QED
  BY <1>1, <1>2, <1>3, <1>4, <1>5, <1>6, <1>7, <1>8, <1>9, <1>10, <1>11,
     <1>12, <1>13, <1>14, <1>15, <1>16, <1>17, <1>18, <1>19, <1>20, <1>21,
     <1>22, <1>23, <1>24, CoreSteps
     DEF LifeNext, Thread, LoadOrUnload, Probing, Freeing, Using

LEMMA NextCounted ==
  Places /\ Counted /\ CardHeld /\ [LifeNext]_lifeVars => Counted'
<1> SUFFICES ASSUME Places, Counted, CardHeld, [LifeNext]_lifeVars PROVE Counted'
  OBVIOUS
<1> USE DEF Places, OfCard, Counted, CardHeld, NoCard, WithAdc, WithDma, WithPin,
            Built, Goto, Take, Keep, Release, bus
<1>1. CASE Load
  BY <1>1 DEF Load
<1>2. CASE LoadStep
  BY <1>2 DEF LoadStep, ModuleHas
<1>3. CASE Unload
  BY <1>3 DEF Unload
<1>4. CASE UnloadStep
  BY <1>4 DEF UnloadStep, ModuleHas
<1>5. CASE Probe
  BY <1>5 DEF Probe
<1>6. CASE Gateware
  BY <1>6 DEF Gateware
<1>7. CASE CarrierInit
  BY <1>7 DEF CarrierInit
<1>8. CASE ModInit
  BY <1>8, ModsAre DEF ModInit
<1>9. CASE HwInit
  BY <1>9 DEF HwInit, UndoAfterHw
<1>10. CASE RequestAdc
  BY <1>10 DEF RequestAdc
<1>11. CASE InitWork
  BY <1>11 DEF InitWork
<1>12. CASE CarrierIrqs
  BY <1>12 DEF CarrierIrqs
<1>13. CASE Pin
  BY <1>13 DEF Pin
<1>14. CASE Remove
  BY <1>14 DEF Remove
<1>15. CASE MaskIrqs
  BY <1>15 DEF MaskIrqs
<1>16. CASE FreeDma
  BY <1>16 DEF FreeDma, HasDmaIrq
<1>17. CASE FreeAdc
  BY <1>17 DEF FreeAdc
<1>18. CASE Flush
  BY <1>18, FourMods DEF Flush, LastExit
<1>19. CASE ModExit
  BY <1>19 DEF ModExit, Exit, Nth, Mods
<1>20. CASE WildExit
  BY <1>20 DEF WildExit
<1>21. CASE Undone
  BY <1>21 DEF Undone, Orphans
<1>22. CASE CarrierExit
  BY <1>22 DEF CarrierExit
<1>23. CASE Put
  BY <1>23 DEF Put
<1>24. CASE UNCHANGED bus
  BY <1>24
<1> QED
  BY <1>1, <1>2, <1>3, <1>4, <1>5, <1>6, <1>7, <1>8, <1>9, <1>10, <1>11,
     <1>12, <1>13, <1>14, <1>15, <1>16, <1>17, <1>18, <1>19, <1>20, <1>21,
     <1>22, <1>23, <1>24, CoreSteps
     DEF LifeNext, Thread, LoadOrUnload, Probing, Freeing, Using

LEMMA NextLeaks ==
  Places /\ Counted /\ CardHeld /\ NothingElseLeaks /\ [LifeNext]_lifeVars
    => NothingElseLeaks'
<1> SUFFICES ASSUME Places, Counted, CardHeld, NothingElseLeaks, [LifeNext]_lifeVars
             PROVE NothingElseLeaks'
  OBVIOUS
<1> USE DEF Places, OfCard, Counted, CardHeld, NoCard, WithAdc, WithDma, WithPin,
            Built, NothingElseLeaks, bus
<1>1. CASE Load
  BY <1>1 DEF Load
<1>2. CASE LoadStep
  BY <1>2 DEF LoadStep, ModuleHas
<1>3. CASE Unload
  BY <1>3 DEF Unload
<1>4. CASE UnloadStep
  BY <1>4 DEF UnloadStep, ModuleHas
<1>5. CASE Probe
  BY <1>5 DEF Probe
<1>6. CASE Gateware
  BY <1>6 DEF Gateware
<1>7. CASE CarrierInit
  BY <1>7 DEF CarrierInit
<1>8. CASE ModInit
  BY <1>8, ModsAre DEF ModInit
<1>9. CASE HwInit
  BY <1>9 DEF HwInit, UndoAfterHw
<1>10. CASE RequestAdc
  BY <1>10 DEF RequestAdc
<1>11. CASE InitWork
  BY <1>11 DEF InitWork
<1>12. CASE CarrierIrqs
  BY <1>12 DEF CarrierIrqs
<1>13. CASE Pin
  BY <1>13 DEF Pin
<1>14. CASE Remove
  BY <1>14 DEF Remove
<1>15. CASE MaskIrqs
  BY <1>15 DEF MaskIrqs
<1>16. CASE FreeDma
  BY <1>16 DEF FreeDma, HasDmaIrq
<1>17. CASE FreeAdc
  BY <1>17 DEF FreeAdc
<1>18. CASE Flush
  BY <1>18, FourMods DEF Flush, LastExit
<1>19. CASE ModExit
  BY <1>19 DEF ModExit, Exit, Nth, Mods
<1>20. CASE WildExit
  BY <1>20 DEF WildExit
<1>21. CASE Undone
  <2>1. leaked' = leaked \/ (~torn /\ leaked' = leaked \cup (held \cap OfCard))
    BY <1>21 DEF Undone, Orphans
  <2>2. stage = "undo" /\ i = 0
    BY <1>21 DEF Undone
  <2>3. /\ "zio_device" \notin held /\ "dump" \notin held
        /\ "dma_irq" \notin held /\ "pin" \notin held
    BY <2>2
  <2>4. "adc_irq" \in held => "SPEC" \in Carriers
    BY <2>2
  <2>5. \A r \in held \cap OfCard : r = "cdata" \/ (r = "adc_irq" /\ "SPEC" \in Carriers)
    BY <2>3, <2>4
  <2>6. leaked' \subseteq {"cdata"} \cup (IF "SPEC" \in Carriers THEN {"adc_irq"} ELSE {})
    BY <2>1, <2>5
  <2> QED
    BY <2>6
<1>22. CASE CarrierExit
  BY <1>22 DEF CarrierExit
<1>23. CASE Put
  BY <1>23 DEF Put
<1>24. CASE UNCHANGED bus
  BY <1>24
<1> QED
  BY <1>1, <1>2, <1>3, <1>4, <1>5, <1>6, <1>7, <1>8, <1>9, <1>10, <1>11,
     <1>12, <1>13, <1>14, <1>15, <1>16, <1>17, <1>18, <1>19, <1>20, <1>21,
     <1>22, <1>23, <1>24, CoreSteps
     DEF LifeNext, Thread, LoadOrUnload, Probing, Freeing, Using

(* Counting up stops at the last of mods[], and counting down begins there *)
(* or lower: that is what ModuleHeld and Counted say of the index.         *)
LEMMA NextIndexed ==
  Places /\ Indexed /\ ModuleHeld /\ Counted /\ [LifeNext]_lifeVars => Indexed'
<1> SUFFICES ASSUME Places, Indexed, ModuleHeld, Counted, [LifeNext]_lifeVars
             PROVE  Indexed'
  OBVIOUS
<1> USE LifeAssumption DEF Places, Indexed, Goto
<1>1. CASE Load \/ Unload \/ Probe
  BY <1>1 DEF Load, Unload, Probe
<1>2. CASE LoadStep
  BY <1>2 DEF LoadStep
<1>3. CASE UnloadStep
  BY <1>3 DEF UnloadStep, ModuleHeld, Loaded
<1>4. CASE CarrierInit
  BY <1>4 DEF CarrierInit
<1>5. CASE ModInit
  BY <1>5 DEF ModInit
<1>6. CASE HwInit
  BY <1>6 DEF HwInit, UndoAfterHw
<1>7. CASE Flush
  BY <1>7, FourMods DEF Flush, LastExit
<1>8. CASE ModExit
  BY <1>8 DEF ModExit, Counted
<1>9. CASE UNCHANGED i
  BY <1>9
<1>10. CASE \/ Gateware \/ RequestAdc \/ InitWork \/ CarrierIrqs \/ Pin
            \/ Remove \/ MaskIrqs \/ FreeDma \/ FreeAdc \/ WildExit
            \/ Undone \/ CarrierExit \/ Put
  BY <1>10 DEF Gateware, RequestAdc, InitWork, CarrierIrqs, Pin, Remove, MaskIrqs,
               FreeDma, FreeAdc, WildExit, Undone, CarrierExit, Put
<1> QED
  BY <1>1, <1>2, <1>3, <1>4, <1>5, <1>6, <1>7, <1>8, <1>9, <1>10, CoreSteps
     DEF LifeNext, Thread, LoadOrUnload, Probing, Freeing, Using, bus

-----------------------------------------------------------------------------
LEMMA InitInv == LifeInit => IInv
<1> SUFFICES ASSUME LifeInit PROVE IInv
  OBVIOUS
<1>1. LifeTypeOK
  BY InitFlags, InitPlaces, TypeIs
<1>2. ModuleHeld
  BY DEF LifeInit, ModuleHeld, Loaded
<1>3. CardHeld
  BY DEF LifeInit, CardHeld
<1>4. Counted
  BY DEF LifeInit, Counted, Built
<1>5. NothingElseLeaks
  BY DEF LifeInit, NothingElseLeaks
<1> QED
  BY <1>1, <1>2, <1>3, <1>4, <1>5 DEF IInv

LEMMA NextInv == IInv /\ [LifeNext]_lifeVars => IInv'
<1> SUFFICES ASSUME IInv, [LifeNext]_lifeVars PROVE IInv'
  OBVIOUS
<1>1. /\ Flags /\ Places /\ Indexed
      /\ ModuleHeld /\ CardHeld /\ Counted /\ NothingElseLeaks
  BY TypeIs DEF IInv
<1>2. Flags' /\ Places' /\ Indexed'
  BY <1>1, NextFlags, NextPlaces, NextIndexed
<1>3. LifeTypeOK'
  BY <1>2, FourMods DEF LifeTypeOK, Flags, Places, Indexed
<1>4. ModuleHeld' /\ CardHeld' /\ Counted' /\ NothingElseLeaks'
  BY <1>1, NextModule, NextCard, NextCounted, NextLeaks
<1> QED
  BY <1>3, <1>4 DEF IInv

(* The type of every variable; among them the index, which never leaves    *)
(* mods[] but for a place in busid=: only because of what is held at each  *)
(* stage, so this needs the whole of IInv.                                 *)
THEOREM TypeCorrect == LifeSpec => []LifeTypeOK
<1>1. IInv => LifeTypeOK
  BY DEF IInv
<1> QED
  BY <1>1, InitInv, NextInv, PTL DEF LifeSpec

(* What is built on what, of the card, of the module, and between them.    *)
LEMMA InvSupported == IInv => Supported
<1> SUFFICES ASSUME IInv, NEW r \in held \ Abandoned PROVE Needs(r) \subseteq held
  BY DEF Supported
<1> USE DEF IInv, CardHeld
<1>1. \/ r \in {"cdata", "pin", "workqueue"} \/ r \in {"trigger", "zio_driver", "fmc_driver"}
      \/ r \in {"zio_device", "dump", "adc_irq", "dma_irq"}
  BY DEF LifeTypeOK, OfCard
<1>2. CASE r \in {"cdata", "pin", "workqueue"}
  BY <1>2 DEF Needs
<1>3. CASE r \in {"trigger", "zio_driver", "fmc_driver"}
  BY <1>3 DEF Needs, ModuleHeld
<1>4. CASE r \in {"zio_device", "dump", "adc_irq", "dma_irq"}
  <2>1. stage \notin NoCard
    BY <1>4 DEF OfCard
  <2>2. {"workqueue", "zio_driver", "fmc_driver"} \subseteq held
    BY <2>1 DEF NoCard, ModuleHeld, Loaded
  <2>3. CASE r = "zio_device"
    BY <2>2, <2>3 DEF Needs
  <2>4. CASE r = "dump"
    BY <2>4 DEF Needs
  <2>5. CASE r = "adc_irq"
    <3>1. "zio_device" \in held
      BY <2>5 DEF Abandoned
    <3> QED
      BY <2>2, <2>5, <3>1 DEF Needs
  <2>6. CASE r = "dma_irq"
    BY <2>6 DEF Needs
  <2> QED
    BY <1>4, <2>3, <2>4, <2>5, <2>6
<1> QED
  BY <1>1, <1>2, <1>3, <1>4

(* At every step of every load, probe, removal and unload, whichever of    *)
(* them fail, nothing is held without what it is built on.                 *)
THEOREM SupportedHolds == LifeSpec => []Supported
BY InitInv, NextInv, InvSupported, PTL DEF LifeSpec

(* A probe that fails, wherever it does, gives back all but two things.    *)
THEOREM NothingElseLeaksHolds == LifeSpec => []NothingElseLeaks
<1>1. IInv => NothingElseLeaks
  BY DEF IInv
<1> QED
  BY <1>1, InitInv, NextInv, PTL DEF LifeSpec

-----------------------------------------------------------------------------
(* What the life cycle promises to orderly users: those who keep to cards  *)
(* whose probe has ended and whose removal has not begun, and who remove   *)
(* none whose automatic start is on nor, on a SPEC, one that is working.   *)

(* From the end of a probe to the flush of a removal the card may work.    *)
Serving == {"live", "mask", "free_dma", "free_adc", "flush"}

(* Where the interrupt, its work and the transfer may be under way.  On a  *)
(* SPEC, which a removal finds idle, they never leave "live".              *)
ChainPlaced ==
  /\ chain # "idle" => stage \in Serving /\ ~torn
  /\ dma => stage = "live" /\ carrier = "SPEC"
  /\ carrier = "SPEC" /\ stage # "live" => chain = "idle"
  /\ mask => stage \in {"live", "mask"} /\ ~torn
  /\ carrier = "SPEC" /\ stage = "mask" => ~mask \/ ~run
  /\ auto \/ chain = "restart" => stage = "live"

(* The stages in which each of the card's things is held for certain: the  *)
(* converse of CardHeld.                                                   *)
Dismantling == stage \in {"mods", "exits"} \/ (stage = "undo" /\ inMods)
HasIrqs     == {"pin", "live", "mask", "free_dma"}

CardComplete ==
  /\ stage \in Built \cup Serving => {"cdata", "zio_device", "dump"} \subseteq held
  /\ Dismantling => /\ "cdata" \in held
                    /\ 3 <= i => "zio_device" \in held
                    /\ 4 <= i => "dump" \in held
  /\ stage \in {"work", "dma_irq", "free_adc"} \cup HasIrqs =>
       "adc_irq" \in held \ leaked
  /\ stage \in HasIrqs /\ carrier = "SPEC" => "dma_irq" \in held
  /\ stage \in {"dma_irq"} \cup HasIrqs => work
  /\ stage \in WithPin /\ ~torn => "pin" \in held

(* The one fault, and the index that leads to it.                          *)
OnlyBusid ==
  /\ stage \in {"gateware", "carrier"} \/ (stage = "undo" /\ ~inMods) => i \in Busids
  /\ fault # "none" => /\ fault = "wild_pointer" /\ stage = "oops" /\ Busids # {0}

OrderlyInv == Orderly => ChainPlaced /\ CardComplete /\ OnlyBusid
-----------------------------------------------------------------------------
(* The steps after which users still are orderly.                          *)
OrderlyUse     == stage = "live" /\ Using
OrderlyRemoval == stage = "live" /\ CardQuiet /\ Remove
OrderlyStep    == \/ Load \/ Unload \/ Probe \/ Thread \/ Irq \/ Chain
                  \/ OrderlyUse \/ OrderlyRemoval \/ UNCHANGED lifeVars

LEMMA StepsOrderly ==
  ASSUME LifeTypeOK, Orderly', [LifeNext]_lifeVars
  PROVE  Orderly /\ OrderlyStep
<1>1. CASE UNCHANGED lifeVars
  BY <1>1 DEF lifeVars, past, Orderly, OrderlyStep
<1>2. CASE (Load \/ Unload \/ Probe \/ Thread \/ Irq \/ Chain) /\ UNCHANGED past
  BY <1>2 DEF past, Orderly, OrderlyStep
<1>3. CASE Using /\ UsedEarly
  BY <1>3 DEF UsedEarly, Orderly, OrderlyStep, OrderlyUse, LifeTypeOK
<1>4. CASE Remove /\ TakenOutLoud
  BY <1>4 DEF Remove, TakenOutLoud, Orderly, OrderlyStep, OrderlyRemoval, LifeTypeOK
<1> QED
  BY <1>1, <1>2, <1>3, <1>4 DEF LifeNext

LEMMA NextPlaced ==
  ASSUME Flags, Places, Counted, ChainPlaced,
         OrderlyStep
  PROVE  ChainPlaced'
<1> USE DEF Flags, Places, Counted, ChainPlaced, Serving, Built, Goto, Take, Keep, Release, May, bus, core
<1>1. CASE Load
  BY <1>1 DEF Load
<1>2. CASE LoadStep
  BY <1>2 DEF LoadStep, ModuleHas
<1>3. CASE Unload
  BY <1>3 DEF Unload
<1>4. CASE UnloadStep
  BY <1>4 DEF UnloadStep, ModuleHas
<1>5. CASE Probe
  BY <1>5 DEF Probe
<1>6. CASE Gateware
  BY <1>6 DEF Gateware
<1>7. CASE CarrierInit
  BY <1>7 DEF CarrierInit
<1>8. CASE ModInit
  BY <1>8, ModsAre DEF ModInit
<1>9. CASE HwInit
  BY <1>9 DEF HwInit, UndoAfterHw
<1>10. CASE RequestAdc
  BY <1>10 DEF RequestAdc
<1>11. CASE InitWork
  BY <1>11 DEF InitWork
<1>12. CASE CarrierIrqs
  BY <1>12 DEF CarrierIrqs
<1>13. CASE Pin
  BY <1>13 DEF Pin
<1>14. CASE MaskIrqs
  BY <1>14 DEF MaskIrqs, Masked
<1>15. CASE FreeDma
  BY <1>15 DEF FreeDma, HasDmaIrq
<1>16. CASE FreeAdc
  BY <1>16 DEF FreeAdc
<1>17. CASE Flush
  BY <1>17, FourMods DEF Flush, Flushed, LastExit
<1>18. CASE ModExit
  BY <1>18 DEF ModExit, Exit, Nth, Mods
<1>19. CASE WildExit
  BY <1>19 DEF WildExit
<1>20. CASE Undone
  BY <1>20 DEF Undone, Orphans
<1>21. CASE CarrierExit
  BY <1>21 DEF CarrierExit
<1>22. CASE Put
  BY <1>22 DEF Put
<1>23. CASE OrderlyUse
  BY <1>23 DEF OrderlyUse, Using, Start, Stop, AutoStart
<1>24. CASE OrderlyRemoval
  BY <1>24 DEF OrderlyRemoval, Remove, CardQuiet
<1>25. CASE Irq
  BY <1>25 DEF Irq
<1>26. CASE WorkDma
  BY <1>26 DEF WorkDma, BusyAfterSvec
<1>27. CASE WorkAuto
  BY <1>27 DEF WorkAuto
<1>28. CASE WorkStart
  BY <1>28 DEF WorkStart
<1>29. CASE WorkAck
  BY <1>29 DEF WorkAck
<1>30. CASE DmaEnd
  BY <1>30 DEF DmaEnd
<1>31. CASE UNCHANGED lifeVars
  BY <1>31 DEF lifeVars, past
<1> QED
  BY <1>1, <1>2, <1>3, <1>4, <1>5, <1>6, <1>7, <1>8, <1>9, <1>10, <1>11,
     <1>12, <1>13, <1>14, <1>15, <1>16, <1>17, <1>18, <1>19, <1>20, <1>21,
     <1>22, <1>23, <1>24, <1>25, <1>26, <1>27, <1>28, <1>29, <1>30, <1>31
     DEF OrderlyStep, Thread, LoadOrUnload, Probing, Freeing, Chain

LEMMA NextComplete ==
  ASSUME Flags, Places, Counted, CardHeld, CardComplete,
         OrderlyStep
  PROVE  CardComplete'
<1> USE DEF Flags, Places, Counted, CardHeld, CardComplete, Dismantling, HasIrqs,
            Serving, OfCard, NoCard, WithAdc, WithDma, WithPin, Built,
            Goto, Take, Keep, Release, May, bus, core
<1>1. CASE Load
  BY <1>1 DEF Load
<1>2. CASE LoadStep
  BY <1>2 DEF LoadStep, ModuleHas
<1>3. CASE Unload
  BY <1>3 DEF Unload
<1>4. CASE UnloadStep
  BY <1>4 DEF UnloadStep, ModuleHas
<1>5. CASE Probe
  BY <1>5 DEF Probe
<1>6. CASE Gateware
  BY <1>6 DEF Gateware
<1>7. CASE CarrierInit
  BY <1>7 DEF CarrierInit
<1>8. CASE ModInit
  BY <1>8, ModsAre DEF ModInit
<1>9. CASE HwInit
  BY <1>9 DEF HwInit, UndoAfterHw
<1>10. CASE RequestAdc
  BY <1>10 DEF RequestAdc
<1>11. CASE InitWork
  BY <1>11 DEF InitWork
<1>12. CASE CarrierIrqs
  BY <1>12 DEF CarrierIrqs
<1>13. CASE Pin
  BY <1>13 DEF Pin
<1>14. CASE MaskIrqs
  BY <1>14 DEF MaskIrqs, Masked
<1>15. CASE FreeDma
  BY <1>15 DEF FreeDma, HasDmaIrq
<1>16. CASE FreeAdc
  BY <1>16 DEF FreeAdc
<1>17. CASE Flush
  BY <1>17, FourMods DEF Flush, Flushed, LastExit
<1>18. CASE ModExit
  BY <1>18 DEF ModExit, Exit, Nth, Mods
<1>19. CASE WildExit
  BY <1>19 DEF WildExit
<1>20. CASE Undone
  BY <1>20 DEF Undone, Orphans
<1>21. CASE CarrierExit
  BY <1>21 DEF CarrierExit
<1>22. CASE Put
  BY <1>22 DEF Put
<1>23. CASE OrderlyUse
  BY <1>23 DEF OrderlyUse, Using, Start, Stop, AutoStart
<1>24. CASE OrderlyRemoval
  BY <1>24 DEF OrderlyRemoval, Remove, CardQuiet
<1>25. CASE Irq
  BY <1>25 DEF Irq
<1>26. CASE WorkDma
  BY <1>26 DEF WorkDma, BusyAfterSvec
<1>27. CASE WorkAuto
  BY <1>27 DEF WorkAuto
<1>28. CASE WorkStart
  BY <1>28 DEF WorkStart
<1>29. CASE WorkAck
  BY <1>29 DEF WorkAck
<1>30. CASE DmaEnd
  BY <1>30 DEF DmaEnd
<1>31. CASE UNCHANGED lifeVars
  BY <1>31 DEF lifeVars, past
<1> QED
  BY <1>1, <1>2, <1>3, <1>4, <1>5, <1>6, <1>7, <1>8, <1>9, <1>10, <1>11,
     <1>12, <1>13, <1>14, <1>15, <1>16, <1>17, <1>18, <1>19, <1>20, <1>21,
     <1>22, <1>23, <1>24, <1>25, <1>26, <1>27, <1>28, <1>29, <1>30, <1>31
     DEF OrderlyStep, Thread, LoadOrUnload, Probing, Freeing, Chain

LEMMA NextBusid ==
  ASSUME Flags, Places, ModuleHeld, Counted, ChainPlaced, CardComplete, OnlyBusid,
         OrderlyStep
  PROVE  OnlyBusid'
<1> USE LifeAssumption
    DEF Flags, Places, ModuleHeld, Loaded, Counted, ChainPlaced, CardComplete,
        OnlyBusid, Dismantling, HasIrqs, Serving, OfCard, WithPin, Built,
        Goto, Take, Keep, Release, May, bus, core
<1>1. CASE Load
  BY <1>1 DEF Load
<1>2. CASE LoadStep
  BY <1>2 DEF LoadStep, ModuleHas
<1>3. CASE Unload
  BY <1>3 DEF Unload
<1>4. CASE UnloadStep
  BY <1>4 DEF UnloadStep, ModuleHas
<1>5. CASE Probe
  BY <1>5 DEF Probe
<1>6. CASE Gateware
  BY <1>6 DEF Gateware
<1>7. CASE CarrierInit
  BY <1>7 DEF CarrierInit
<1>8. CASE ModInit
  BY <1>8, ModsAre DEF ModInit
<1>9. CASE HwInit
  BY <1>9 DEF HwInit, UndoAfterHw
<1>10. CASE RequestAdc
  BY <1>10 DEF RequestAdc
<1>11. CASE InitWork
  BY <1>11 DEF InitWork
<1>12. CASE CarrierIrqs
  BY <1>12 DEF CarrierIrqs
<1>13. CASE Pin
  BY <1>13 DEF Pin
<1>14. CASE MaskIrqs
  BY <1>14 DEF MaskIrqs, Masked
<1>15. CASE FreeDma
  BY <1>15 DEF FreeDma, HasDmaIrq
<1>16. CASE FreeAdc
  BY <1>16 DEF FreeAdc
<1>17. CASE Flush
  BY <1>17, FourMods DEF Flush, Flushed, LastExit
<1>18. CASE ModExit
  BY <1>18 DEF ModExit, Exit, Nth, Mods
<1>19. CASE WildExit
  BY <1>19 DEF WildExit
<1>20. CASE Undone
  BY <1>20 DEF Undone, Orphans
<1>21. CASE CarrierExit
  BY <1>21 DEF CarrierExit
<1>22. CASE Put
  BY <1>22 DEF Put
<1>23. CASE OrderlyUse
  BY <1>23 DEF OrderlyUse, Using, Start, Stop, AutoStart
<1>24. CASE OrderlyRemoval
  BY <1>24 DEF OrderlyRemoval, Remove, CardQuiet
<1>25. CASE Irq
  BY <1>25 DEF Irq
<1>26. CASE WorkDma
  BY <1>26 DEF WorkDma, BusyAfterSvec
<1>27. CASE WorkAuto
  BY <1>27 DEF WorkAuto
<1>28. CASE WorkStart
  BY <1>28 DEF WorkStart
<1>29. CASE WorkAck
  BY <1>29 DEF WorkAck
<1>30. CASE DmaEnd
  BY <1>30 DEF DmaEnd
<1>31. CASE UNCHANGED lifeVars
  BY <1>31 DEF lifeVars, past
<1> QED
  BY <1>1, <1>2, <1>3, <1>4, <1>5, <1>6, <1>7, <1>8, <1>9, <1>10, <1>11,
     <1>12, <1>13, <1>14, <1>15, <1>16, <1>17, <1>18, <1>19, <1>20, <1>21,
     <1>22, <1>23, <1>24, <1>25, <1>26, <1>27, <1>28, <1>29, <1>30, <1>31
     DEF OrderlyStep, Thread, LoadOrUnload, Probing, Freeing, Chain

-----------------------------------------------------------------------------
(* The three parts hold together with the invariant that needs no orderly  *)
(* users.                                                                  *)
AllInv == IInv /\ OrderlyInv

LEMMA InitOrderly == LifeInit => AllInv
<1> SUFFICES ASSUME LifeInit PROVE AllInv
  OBVIOUS
<1>1. ChainPlaced
  BY DEF LifeInit, ChainPlaced
<1>2. CardComplete
  BY DEF LifeInit, CardComplete, Dismantling, HasIrqs, Serving, Built, WithPin
<1>3. OnlyBusid
  BY DEF LifeInit, OnlyBusid
<1> QED
  BY <1>1, <1>2, <1>3, InitInv DEF AllInv, OrderlyInv

LEMMA NextOrderly == AllInv /\ [LifeNext]_lifeVars => AllInv'
<1> SUFFICES ASSUME AllInv, [LifeNext]_lifeVars PROVE AllInv'
  OBVIOUS
<1>1. IInv'
  BY NextInv DEF AllInv
<1>2. ASSUME Orderly' PROVE (ChainPlaced /\ CardComplete /\ OnlyBusid)'
  <2>1. /\ Flags /\ Places /\ LifeTypeOK
        /\ ModuleHeld /\ CardHeld /\ Counted
    BY TypeIs DEF AllInv, IInv
  <2>2. Orderly /\ OrderlyStep
    BY <1>2, <2>1, StepsOrderly
  <2>3. ChainPlaced /\ CardComplete /\ OnlyBusid
    BY <2>2 DEF AllInv, OrderlyInv
  <2> QED
    BY <2>1, <2>2, <2>3, NextPlaced, NextComplete, NextBusid
<1> QED
  BY <1>1, <1>2 DEF AllInv, OrderlyInv

LEMMA OrderlyInvariant == LifeSpec => []AllInv
BY InitOrderly, NextOrderly, PTL DEF LifeSpec

(* Whatever fails, and at any moment of an acquisition that a card is      *)
(* removed, the interrupt's work and the transfer have the queue, the      *)
(* device and the carrier data they use: fa_remove() flushes after the     *)
(* last interrupt and before the first exit.                               *)
THEOREM ChainAliveHolds == LifeSpec => []ChainAlive
<1>1. AllInv => ChainAlive
  <2> SUFFICES ASSUME AllInv, Orderly, chain # "idle" \/ dma
               PROVE  {"workqueue", "zio_device", "cdata"} \subseteq held
    BY DEF ChainAlive
  <2>1. stage \in Serving
    BY DEF AllInv, OrderlyInv, ChainPlaced, Serving
  <2>2. {"cdata", "zio_device"} \subseteq held
    BY <2>1 DEF AllInv, OrderlyInv, CardComplete
  <2>3. "workqueue" \in held
    BY <2>1 DEF AllInv, IInv, ModuleHeld, Loaded, Serving
  <2> QED
    BY <2>2, <2>3
<1> QED
  BY <1>1, OrderlyInvariant, PTL

(* No probe, failed or not, and no removal leaves the interrupt enabled.   *)
THEOREM SilentWhenGoneHolds == LifeSpec => []SilentWhenGone
<1>1. AllInv => SilentWhenGone
  BY DEF AllInv, OrderlyInv, ChainPlaced, SilentWhenGone
<1> QED
  BY <1>1, OrderlyInvariant, PTL

(* Nothing is released twice, no handler runs before its work or after its *)
(* device; a wild exit needs a card that busid= names.                     *)
THEOREM NoFaultHolds == LifeSpec => []NoFault
<1>1. AllInv => NoFault
  BY DEF AllInv, OrderlyInv, OnlyBusid, NoFault
<1> QED
  BY <1>1, OrderlyInvariant, PTL
=============================================================================
