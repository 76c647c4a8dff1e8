------------------------------ MODULE TrgParams ------------------------------
(***************************************************************************)
(* The numbers FaTrgConf is written for.                                   *)
(***************************************************************************)
EXTENDS Naturals

CONSTANTS
  WORD,     (* 2^32: the modulus of the code's unsigned numbers             *)
  FIELD,    (* 2^16: the modulus of the register of the shots               *)
  MEMORY,   (* FA100M14B4C_MAX_ACQ_BYTE, the bytes of the device memory     *)
  DPRAM,    (* fa->mshot_max_samples, the samples of a shot among several   *)
  Counts    (* the numbers users write                                      *)

ASSUME TrgAssumption ==
  /\ WORD \in Nat /\ FIELD \in Nat /\ MEMORY \in Nat /\ DPRAM \in Nat
  /\ 1 < FIELD /\ FIELD <= WORD /\ 16 < WORD /\ MEMORY < WORD
  /\ Counts \subseteq 0 .. WORD - 1
=============================================================================
