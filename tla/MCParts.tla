------------------------------ MODULE MCParts ------------------------------
(***************************************************************************)
(* The parts of the driver that share no state with one another, each      *)
(* explored by itself: "part" says which one this behaviour is about, the  *)
(* others rest.  The calibration is here twice, with failures and without. *)
(***************************************************************************)
EXTENDS MCCalib, FaLife, FaTrgConf, FaThermo, SdbFind, GnDma

VARIABLE part

(* FaCalib as it is extended has no new calibrations and no failures.      *)
Faults  == INSTANCE FaCalib WITH
             Writable <- TRUE, SpiFails <- TRUE, Values <- {63},
             Ranges <- {2, 3}

(* What a DAC may hold that the probe's reset did not reach.               *)
OldDacs == {0, 2 * HALF - 1}

-----------------------------------------------------------------------------
(* Above and below zero.                                                   *)
MCTemps == {-1, 400}

(* Devices and other records, bridges to a subtree with a match and to one *)
(* without.                                                                *)
Leaf(matches, at)  == [tree |-> NoTree, match |-> matches, first |-> at]
Bridge(returns)    == [tree |-> returns, match |-> FALSE, first |-> 0]
Records(k) == {Leaf(TRUE, 16 * k), Leaf(FALSE, 0), Bridge(16 * k + 4),
               Bridge(-ENODEV)}
MCTables   == {<<>>} \cup {<<a, b, c>> : a \in Records(0), b \in Records(1),
                                       c \in Records(2)}

(* One page, and three, with addresses of one digit and of two.            *)
Page(k, at) == [off |-> 32 * k, addr |-> at, len |-> 8 * (k + 1)]
MCLists == {<<Page(0, a)>> : a \in {3, 250}}
           \cup {<<Page(0, a), Page(1, 14), Page(2, b)>> : a, b \in {3, 250}}
MCStale == {[start |-> 1, dma |-> [l |-> 7, h |-> 5], len |-> 1,
             next |-> [l |-> 7, h |-> 5], more |-> TRUE],
            [start |-> 0, dma |-> [l |-> 0, h |-> 0], len |-> 0,
             next |-> [l |-> 0, h |-> 0], more |-> FALSE]}

-----------------------------------------------------------------------------
(* A part that is not looked at.                                           *)
CalibRest  == Loaded(Plausible, {}, 0)
ThermoRest == ThermoInit /\ now = 0 /\ bits = 0
SdbRest    == SdbCall(<<>>, 0, 0)
DmaRest    == MapList(<<>>, 0, <<>>)

PartsInit ==
  /\ LifeInit /\ ConfInit
  /\ \/ /\ part = "calibration" /\ Init
        /\ ThermoRest /\ SdbRest /\ DmaRest
     \/ /\ part = "faults" /\ Faults!Init
        /\ \A ch \in behind : dac[ch] \in OldDacs
        /\ ThermoRest /\ SdbRest /\ DmaRest
     \/ /\ part = "thermo" /\ ThermoInit
        /\ CalibRest /\ SdbRest /\ DmaRest
     \/ /\ part \in {"life", "conf"}
        /\ CalibRest /\ ThermoRest /\ SdbRest /\ DmaRest
     \/ /\ part = "sdb" /\ SdbInit
        /\ CalibRest /\ ThermoRest /\ DmaRest
     \/ /\ part = "dma" /\ DmaInit
        /\ CalibRest /\ ThermoRest /\ SdbRest

PartsNext ==
  /\ UNCHANGED part
  /\ \/ /\ part = "calibration" /\ Next
        /\ UNCHANGED <<lifeVars, confVars, thermoVars, sdbVars, dmaVars>>
     \/ /\ part = "faults" /\ Faults!Next
        /\ UNCHANGED <<lifeVars, confVars, thermoVars, sdbVars, dmaVars>>
     \/ /\ part = "life" /\ LifeNext
        /\ UNCHANGED <<vars, confVars, thermoVars, sdbVars, dmaVars>>
     \/ /\ part = "conf" /\ ConfNext
        /\ UNCHANGED <<vars, lifeVars, thermoVars, sdbVars, dmaVars>>
     \/ /\ part = "thermo" /\ ThermoNext
        /\ UNCHANGED <<vars, lifeVars, confVars, sdbVars, dmaVars>>
     \/ /\ part = "sdb" /\ SdbNext
        /\ UNCHANGED <<vars, lifeVars, confVars, thermoVars, dmaVars>>
     \/ /\ part = "dma" /\ DmaNext
        /\ UNCHANGED <<vars, lifeVars, confVars, thermoVars, sdbVars>>

allVars   == <<part, vars, lifeVars, confVars, thermoVars, sdbVars, dmaVars>>
PartsSpec == PartsInit /\ [][PartsNext]_allVars /\ LifeFairness
=============================================================================
