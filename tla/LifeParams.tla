----------------------------- MODULE LifeParams -----------------------------
(***************************************************************************)
(* What FaLife is explored for.                                            *)
(***************************************************************************)
EXTENDS Naturals

CONSTANTS
  Carriers,  (* the carriers a mezzanine may sit on: "SPEC", "SVEC"         *)
  Failing,   (* the steps that may fail                                     *)
  Busids     (* what fmc_validate() returns: 0, or the place of the card in *)
             (* the busid= parameter of the module                          *)

Fallible == {"workqueue", "trigger", "zio_driver", "fmc_driver", "gateware",
             "carrier", "check", "onewire", "zio", "dma_mask", "adc_irq",
             "dma_irq", "pin"}

ASSUME LifeAssumption ==
  /\ Carriers \subseteq {"SPEC", "SVEC"} /\ Failing \subseteq Fallible
  /\ Busids \subseteq Nat
=============================================================================
