------------------------------- MODULE SdbFind -------------------------------
(***************************************************************************)
(* fmc_find_sdb_device_ext(): where in the gateware's table is the core of *)
(* the mezzanine in the index-th slot.  The loop visits the records one    *)
(* after the other; of each it searches first the subtree, then looks      *)
(* whether the record itself is the device.                                *)
(***************************************************************************)
EXTENDS Integers, Sequences, FiniteSets

ENODEV == 19

(* What the search sees of a record: "tree" is what the search of its      *)
(* subtree returns, or NoTree; "match" whether it is the device looked     *)
(* for, at "first".  The table's reader hangs subtrees on bridges only.    *)
NoTree  == -1
Bridges == [tree : {-ENODEV} \cup Nat, match : {FALSE}, first : Nat]
Leaves  == [tree : {NoTree}, match : BOOLEAN, first : Nat]

CONSTANTS
  Tables,    (* the tables there may be                                     *)
  Bases,     (* where a table may begin                                     *)
  Slots      (* which of the matches is asked for                           *)

ASSUME SdbAssumption ==
  /\ Tables \subseteq Seq(Bridges \cup Leaves)
  /\ Bases \subseteq Nat /\ Slots \subseteq Nat

VARIABLES
  table, base, index,   (* the arguments                                    *)
  rec,                  (* the record the loop is at, counted from 1        *)
  looks,                (* what it looks at: "subtree", "device", or "done" *)
  ci,                   (* how many matches were counted                    *)
  found                 (* res, and at the end what is returned             *)

arguments == <<table, base, index>>
sdbVars   == <<arguments, rec, looks, ci, found>>

-----------------------------------------------------------------------------
(* Mistakes the code could plausibly contain, used by no definition below. *)

(* Wanted: counts before it compares.  NotFound: no error to begin with.   *)
WantedNext   == ci + 1 = index
NotFoundZero == 0

-----------------------------------------------------------------------------
Wanted   == ci = index
NotFound == -ENODEV

SdbCall(t, b, x) ==
  /\ table = t /\ base = b /\ index = x
  /\ rec = 1 /\ looks = "subtree" /\ ci = 0 /\ found = NotFound

SdbInit == \E t \in Tables, b \in Bases, x \in Slots : SdbCall(t, b, x)

Count == ci' = ci + 1

Return(place) ==
  /\ found' = place + base /\ looks' = "done"
  /\ Count /\ UNCHANGED rec

Subtree ==
  /\ looks = "subtree" /\ rec <= Len(table)
  /\ LET tree == table[rec].tree
         ThenDevice == looks' = "device" /\ UNCHANGED rec
     IN \/ /\ tree = NoTree
           /\ ThenDevice /\ UNCHANGED <<ci, found>>
        \/ /\ tree # NoTree /\ tree < 0
           /\ found' = tree /\ ThenDevice /\ UNCHANGED ci
        \/ tree >= 0 /\ Wanted /\ Return(tree)
        \/ /\ tree >= 0 /\ ~Wanted
           /\ found' = tree /\ Count /\ ThenDevice
  /\ UNCHANGED arguments

Device ==
  /\ looks = "device"
  /\ LET record == table[rec]
         GoOn   == looks' = "subtree" /\ rec' = rec + 1
     IN \/ ~record.match /\ GoOn /\ UNCHANGED <<ci, found>>
        \/ record.match /\ Wanted /\ Return(record.first)
        \/ record.match /\ ~Wanted /\ Count /\ GoOn /\ UNCHANGED found
  /\ UNCHANGED arguments

NoMore ==
  /\ looks = "subtree" /\ rec > Len(table)
  /\ looks' = "done"
  /\ UNCHANGED <<arguments, rec, ci, found>>

SdbNext == Subtree \/ Device \/ NoMore

SdbSpec == SdbInit /\ [][SdbNext]_sdbVars

-----------------------------------------------------------------------------
(* A record with a match, of itself or the first of its subtree: where it  *)
(* is, and in a table t how many such records come before the k-th.        *)
Hit(record) == record.match \/ record.tree >= 0
At(record)  == IF record.match THEN record.first ELSE record.tree
Rank(t, k)  == Cardinality({j \in 1 .. k - 1 : Hit(t[j])})

(* The index-th match, of the table and its subtrees together, is the one  *)
(* that fmc_find_sdb_device_ext() returns (fmc-util.c:15).                 *)
FindsIndexed ==
  looks = "done" =>
    \A k \in 1 .. Len(table) :
      Hit(table[k]) /\ Rank(table, k) = index => found = At(table[k]) + base

(* Without enough matches the search fails, if no subtree has one: else it *)
(* may answer with a match of another index.                               *)
FailsWithout ==
  looks = "done" /\ Rank(table, Len(table) + 1) <= index
    /\ (\A k \in 1 .. Len(table) : table[k].tree < 0)
  => found < 0
=============================================================================
