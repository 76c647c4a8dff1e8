---------------------------- MODULE AcqSession ----------------------------
(***************************************************************************)
(* What an acquisition promises to the user of the driver, whatever the    *)
(* carrier and however interrupts, works and sysfs writes interleave: the  *)
(* machine is at rest, armed with a number of blocks, or done acquiring;   *)
(* a finished acquisition delivers all its blocks or, when its transfer    *)
(* fails, none of them; only an acquisition that is not being transferred  *)
(* can be aborted.                                                         *)
(***************************************************************************)
EXTENDS Naturals

CONSTANTS Shots,   (* how many blocks an acquisition may be armed with      *)
          Room     (* how many blocks can exist at a time                   *)

VARIABLES phase, blocks, ready

vars == <<phase, blocks, ready>>

Init == phase = "idle" /\ blocks = 0 /\ ready = 0

Arm == /\ phase = "idle" /\ phase' = "armed"
       /\ \E n \in Shots : n + ready <= Room /\ blocks' = n
       /\ UNCHANGED ready

Abort == /\ phase = "armed" /\ phase' = "idle"
         /\ blocks' = 0
         /\ UNCHANGED ready

Acquire == /\ phase = "armed" /\ phase' = "acquired"
           /\ UNCHANGED <<blocks, ready>>

Deliver == /\ phase = "acquired" /\ phase' = "idle"
           /\ ready' = ready + blocks /\ blocks' = 0

Lose == /\ phase = "acquired" /\ phase' = "idle"
        /\ blocks' = 0
        /\ UNCHANGED ready

Read == /\ ready > 0 /\ ready' = ready - 1
        /\ UNCHANGED <<phase, blocks>>

Next == Arm \/ Abort \/ Acquire \/ Deliver \/ Lose \/ Read

Spec == Init /\ [][Next]_vars
=============================================================================
