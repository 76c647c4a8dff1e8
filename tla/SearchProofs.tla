---------------------------- MODULE SearchProofs ----------------------------
(***************************************************************************)
(* The two loops over data, for every table and every list of pages: the   *)
(* search finds the index-th match or fails, and the core transfers every  *)
(* page of a chain.                                                        *)
(*                                                                         *)
(* The search counts right: before a record ci is the record's rank, and a *)
(* match is returned when its rank is the index.  No two matches have the  *)
(* same rank, so it is the only one.                                       *)
(***************************************************************************)
EXTENDS SdbFind, GnDma, FiniteSetTheorems, TLAPS

SdbType ==
  /\ table \in Seq(Bridges \cup Leaves) /\ base \in Nat /\ index \in Nat
  /\ rec \in 1 .. Len(table) + 1
  /\ looks \in {"subtree", "device", "done"}
  /\ ci \in Nat /\ found \in Int

(* What was counted at each stage of a record, and that the wanted match   *)
(* has not been passed.                                                    *)
Counted ==
  /\ looks # "done" => ci <= index
  /\ looks = "subtree" => ci = Rank(table, rec)
  /\ looks = "device" =>
       /\ rec <= Len(table)
       /\ ci = Rank(table, rec) + (IF table[rec].tree >= 0 THEN 1 ELSE 0)

(* What is returned: the match of the index, or what is left at the end of *)
(* a table without it.                                                     *)
Returned ==
  looks = "done" =>
    \/ /\ rec <= Len(table) /\ Hit(table[rec]) /\ Rank(table, rec) = index
       /\ found = At(table[rec]) + base
    \/ rec = Len(table) + 1 /\ Rank(table, rec) <= index

(* As long as no subtree has a match and no match is returned, it fails.   *)
Failing ==
  /\ \A k \in 1 .. Len(table) : table[k].tree < 0
  /\ looks # "done" \/ rec = Len(table) + 1
  => found < 0

SdbInv == SdbType /\ Counted /\ Returned /\ Failing

-----------------------------------------------------------------------------
(* Ranks.                                                                  *)

(* A rank is a number, that of a finite set.                               *)
LEMMA RankType ==
  ASSUME NEW t, NEW k \in Nat
  PROVE  /\ IsFiniteSet({j \in 1 .. k - 1 : Hit(t[j])})
         /\ Rank(t, k) \in Nat
<1>1. IsFiniteSet(1 .. k - 1)
  BY FS_Interval
<1>2. IsFiniteSet({j \in 1 .. k - 1 : Hit(t[j])})
  BY <1>1, FS_Subset
<1> QED
  BY <1>2, FS_CardinalityType DEF Rank

(* The rank grows by one over a match, and by nothing over another record. *)
LEMMA NextRank ==
  ASSUME NEW t, NEW k \in Nat \ {0}
  PROVE  Rank(t, k + 1) = IF Hit(t[k]) THEN Rank(t, k) + 1 ELSE Rank(t, k)
<1> DEFINE Before(n) == {j \in 1 .. n - 1 : Hit(t[j])}
<1>1. CASE Hit(t[k])
  <2>1. Before(k + 1) = Before(k) \cup {k} /\ k \notin Before(k)
    BY <1>1
  <2> QED
    BY <1>1, <2>1, RankType, FS_AddElement DEF Rank
<1>2. CASE ~Hit(t[k])
  <2>1. Before(k + 1) = Before(k)
    BY <1>2
  <2> QED
    BY <1>2, <2>1 DEF Rank
<1> QED
  BY <1>1, <1>2

(* What comes after a match has a higher rank.                             *)
LEMMA HigherRank ==
  ASSUME NEW t, NEW j \in Nat \ {0}, NEW k \in Nat, j < k, Hit(t[j])
  PROVE  Rank(t, j) < Rank(t, k)
<1> DEFINE Before(n) == {m \in 1 .. n - 1 : Hit(t[m])}
<1>1. Before(j + 1) \in SUBSET Before(k)
  OBVIOUS
<1>2. IsFiniteSet(Before(k))
  BY RankType
<1>3. Cardinality(Before(j + 1)) <= Cardinality(Before(k))
  BY <1>1, <1>2, FS_Subset
<1>4. Rank(t, j + 1) <= Rank(t, k)
  BY <1>3 DEF Rank
<1>5. Rank(t, j + 1) = Rank(t, j) + 1
  BY NextRank
<1>6. Rank(t, j) \in Nat /\ Rank(t, k) \in Nat
  BY RankType
<1> QED
  BY <1>4, <1>5, <1>6

(* The first match has rank 0.                                             *)
LEMMA FirstRank ==
  ASSUME NEW t
  PROVE  Rank(t, 1) = 0
<1>1. {j \in 1 .. 0 : Hit(t[j])} = {}
  OBVIOUS
<1> QED
  BY <1>1, FS_EmptySet DEF Rank

(* A record of a table.                                                    *)
LEMMA RecordType ==
  ASSUME SdbType, NEW k \in 1 .. Len(table)
  PROVE  /\ table[k].tree \in Int /\ table[k].match \in BOOLEAN
         /\ table[k].first \in Nat
         /\ table[k].tree = NoTree \/ table[k].tree >= 0
              \/ table[k].tree = -ENODEV
         /\ table[k].match => table[k].tree = NoTree
<1>1. table[k] \in Bridges \cup Leaves
  BY DEF SdbType
<1>2. CASE table[k] \in Bridges
  <2>1. table[k].tree \in {-ENODEV} \cup Nat
    BY <1>2 DEF Bridges
  <2>2. table[k].tree \in Int /\ (table[k].tree >= 0 \/ table[k].tree = -ENODEV)
    BY <2>1 DEF ENODEV
  <2>3. table[k].match = FALSE /\ table[k].first \in Nat
    BY <1>2 DEF Bridges
  <2> QED
    BY <2>2, <2>3
<1>3. CASE table[k] \in Leaves
  BY <1>3 DEF Leaves, NoTree
<1> QED
  BY <1>1, <1>2, <1>3

-----------------------------------------------------------------------------
(* The search.                                                             *)

LEMMA SdbInitial == SdbInit => SdbInv
<1> SUFFICES ASSUME NEW t \in Tables, NEW b \in Bases, NEW x \in Slots,
                    SdbCall(t, b, x)
             PROVE  SdbInv
  BY DEF SdbInit
<1> USE SdbAssumption DEF SdbCall, NotFound, ENODEV
<1>1. SdbType
  BY DEF SdbType
<1>2. Counted
  BY <1>1, FirstRank DEF Counted, SdbType
<1>3. Returned /\ Failing
  BY DEF Returned, Failing
<1> QED
  BY <1>1, <1>2, <1>3 DEF SdbInv

LEMMA SdbStep ==
  ASSUME SdbInv, [SdbNext]_sdbVars
  PROVE  SdbInv'
<1> USE DEF SdbInv
<1>1. CASE Subtree
  <2>1. rec \in 1 .. Len(table) /\ rec \in Nat
    BY <1>1 DEF Subtree, SdbType
  <2> DEFINE r == table[rec]
  <2>2. /\ r.tree \in Int /\ r.match \in BOOLEAN /\ r.first \in Nat
        /\ r.match => r.tree = NoTree
        /\ r.tree = NoTree \/ r.tree >= 0 \/ r.tree = -ENODEV
    BY <2>1, RecordType
  <2>3. Rank(table, rec) \in Nat
    BY <2>1, RankType
  <2>4. UNCHANGED arguments
    BY <1>1 DEF Subtree
  <2> USE <2>1, <2>2, <2>3, <2>4 DEF arguments, NoTree, ENODEV
  <2>5. CASE r.tree < 0
    <3>1. looks' = "device" /\ rec' = rec /\ ci' = ci
      BY <1>1, <2>5 DEF Subtree
    <3>2. found' = found \/ found' = r.tree
      BY <1>1, <2>5 DEF Subtree
    <3>3. SdbType'
      BY <3>1, <3>2 DEF SdbType
    <3>4. Counted' /\ Returned'
      BY <1>1, <2>5, <3>1 DEF Counted, Returned, Subtree
    <3>5. Failing'
      BY <1>1, <2>5, <3>1, <3>2 DEF Failing, Subtree
    <3> QED
      BY <3>3, <3>4, <3>5
  <2>6. CASE r.tree >= 0 /\ Wanted
    <3>1. /\ looks' = "done" /\ rec' = rec /\ ci' = ci + 1
          /\ found' = r.tree + base
      BY <1>1, <2>6 DEF Subtree, Return, Count
    <3>2. SdbType'
      BY <3>1 DEF SdbType
    <3>3. Counted' /\ Returned'
      BY <1>1, <2>6, <3>1 DEF Counted, Returned, Subtree, Hit, At, Wanted
    <3>4. Failing'
      BY <2>6, <3>1 DEF Failing
    <3> QED
      BY <3>2, <3>3, <3>4
  <2>7. CASE r.tree >= 0 /\ ~Wanted
    <3>1. /\ looks' = "device" /\ rec' = rec /\ ci' = ci + 1
          /\ found' = r.tree
      BY <1>1, <2>7 DEF Subtree, Count
    <3>2. SdbType'
      BY <3>1 DEF SdbType
    <3>3. Counted' /\ Returned'
      BY <1>1, <2>7, <3>1 DEF Counted, Returned, Subtree, Wanted, SdbType
    <3>4. Failing'
      BY <2>7, <3>1 DEF Failing
    <3> QED
      BY <3>2, <3>3, <3>4
  <2> QED
    BY <2>5, <2>6, <2>7
<1>2. CASE Device
  <2>1. rec \in 1 .. Len(table) /\ rec \in Nat \ {0}
    BY <1>2 DEF Device, SdbType, Counted
  <2> DEFINE r == table[rec]
  <2>2. /\ r.tree \in Int /\ r.match \in BOOLEAN /\ r.first \in Nat
        /\ r.match => r.tree = NoTree
    BY <2>1, RecordType
  <2>3. Rank(table, rec) \in Nat
    BY <2>1, RankType
  <2>4. UNCHANGED arguments
    BY <1>2 DEF Device
  <2>5. Rank(table, rec + 1)
          = IF Hit(r) THEN Rank(table, rec) + 1 ELSE Rank(table, rec)
    BY <2>1, NextRank
  <2>6. ci = Rank(table, rec) + (IF r.tree >= 0 THEN 1 ELSE 0) /\ ci <= index
    BY <1>2 DEF Device, Counted
  <2> USE <2>1, <2>2, <2>3, <2>4 DEF arguments, NoTree
  <2>7. CASE r.match /\ Wanted
    <3>1. /\ looks' = "done" /\ rec' = rec /\ ci' = ci + 1
          /\ found' = r.first + base
      BY <1>2, <2>7 DEF Device, Return, Count
    <3>2. SdbType'
      BY <3>1 DEF SdbType
    <3>3. Counted' /\ Returned'
      BY <2>6, <2>7, <3>1 DEF Counted, Returned, Hit, At, Wanted
    <3>4. Failing'
      BY <2>7, <3>1 DEF Failing
    <3> QED
      BY <3>2, <3>3, <3>4
  <2>8. CASE ~(r.match /\ Wanted)
    <3>1. /\ looks' = "subtree" /\ rec' = rec + 1 /\ found' = found
          /\ ci' = ci + (IF r.match THEN 1 ELSE 0)
      BY <1>2, <2>8 DEF Device, Count, SdbType
    <3>2. ci' = Rank(table, rec + 1) /\ ci' <= index
      BY <2>5, <2>6, <2>8, <3>1 DEF Hit, Wanted, SdbType
    <3>3. SdbType'
      BY <3>1 DEF SdbType
    <3>4. Counted' /\ Returned'
      BY <3>1, <3>2 DEF Counted, Returned
    <3>5. Failing'
      BY <1>2, <3>1 DEF Failing, Device
    <3> QED
      BY <3>3, <3>4, <3>5
  <2> QED
    BY <2>7, <2>8
<1>3. CASE NoMore
  <2>1. rec = Len(table) + 1
    BY <1>3 DEF NoMore, SdbType
  <2>2. SdbType' /\ Counted'
    BY <1>3 DEF NoMore, arguments, SdbType, Counted
  <2>3. Returned' /\ Failing'
    BY <1>3, <2>1 DEF NoMore, arguments, Counted, Returned, Failing
  <2> QED
    BY <2>2, <2>3
<1>4. CASE UNCHANGED sdbVars
  BY <1>4 DEF sdbVars, arguments, SdbType, Counted, Returned, Failing
<1> QED
  BY <1>1, <1>2, <1>3, <1>4 DEF SdbNext

LEMMA SdbInvHolds == SdbSpec => []SdbInv
BY SdbInitial, SdbStep, PTL DEF SdbSpec

(* The match returned has the index for its rank, and no other match has.  *)
THEOREM FindsIndexedHolds == SdbSpec => []FindsIndexed
<1>1. SdbInv => FindsIndexed
  <2> SUFFICES ASSUME SdbInv, looks = "done", NEW k \in 1 .. Len(table),
                      Hit(table[k]), Rank(table, k) = index
               PROVE  found = At(table[k]) + base
    BY DEF FindsIndexed
  <2>1. /\ rec \in Nat \ {0} /\ index \in Nat /\ k \in Nat \ {0}
        /\ Len(table) \in Nat
    BY DEF SdbInv, SdbType
  <2>2. ASSUME rec = Len(table) + 1, Rank(table, rec) <= index PROVE FALSE
    <3>1. k < rec /\ rec \in Nat
      BY <2>1, <2>2
    <3>2. Rank(table, k) < Rank(table, rec)
      BY <2>1, <3>1, HigherRank
    <3>3. Rank(table, rec) \in Nat
      BY <3>1, RankType
    <3> QED
      BY <2>1, <2>2, <3>2, <3>3
  <2>3. Hit(table[rec]) /\ Rank(table, rec) = index
          /\ found = At(table[rec]) + base
    BY <2>2 DEF SdbInv, Returned
  <2>4. ~(k < rec) /\ ~(rec < k)
    BY <2>1, <2>3, HigherRank
  <2> QED
    BY <2>1, <2>3, <2>4
<1> QED
  BY <1>1, SdbInvHolds, PTL

(* With fewer matches than asked for the loop runs to the end, and what is *)
(* left there is an error unless a subtree had a match.                    *)
THEOREM FailsWithoutHolds == SdbSpec => []FailsWithout
<1>1. SdbInv => FailsWithout
  <2> SUFFICES ASSUME SdbInv, looks = "done",
                      Rank(table, Len(table) + 1) <= index,
                      \A k \in 1 .. Len(table) : table[k].tree < 0
               PROVE  found < 0
    BY DEF FailsWithout
  <2>1. rec \in Nat \ {0} /\ index \in Nat /\ Len(table) \in Nat
    BY DEF SdbInv, SdbType
  <2>2. ASSUME rec <= Len(table), Hit(table[rec]), Rank(table, rec) = index
        PROVE  FALSE
    <3>1. rec < Len(table) + 1 /\ Len(table) + 1 \in Nat
      BY <2>1, <2>2
    <3>2. Rank(table, rec) < Rank(table, Len(table) + 1)
      BY <2>1, <2>2, <3>1, HigherRank
    <3>3. Rank(table, Len(table) + 1) \in Nat
      BY <3>1, RankType
    <3> QED
      BY <2>1, <2>2, <3>2, <3>3
  <2> QED
    BY <2>2 DEF SdbInv, Returned, Failing
<1> QED
  BY <1>1, SdbInvHolds, PTL

-----------------------------------------------------------------------------
(* Addresses.                                                              *)

(* What the registers hold, whatever the width of one.                     *)
LEMMA Division ==
  ASSUME NEW a \in Nat, NEW half \in Nat \ {0}
  PROVE  /\ a % half \in Nat /\ a \div half \in Nat
         /\ (a \div half) * half + (a % half) = a
<1>1. a % half \in Nat /\ a \div half \in Nat
  OBVIOUS
<1>2. a = half * (a \div half) + (a % half)
  OBVIOUS
<1>3. half * (a \div half) = (a \div half) * half
  BY <1>1
<1> QED
  BY <1>1, <1>2, <1>3

(* Two registers hold a whole address.                                     *)
LEMMA JoinSplit ==
  ASSUME NEW a \in Nat
  PROVE  Split(a) \in Addresses /\ Join(Split(a)) = a
BY Division, DmaAssumption DEF Split, Join, Addresses

(* Descriptors at one address are one descriptor.                          *)
LEMMA SamePlace ==
  ASSUME NEW s \in Nat \ {0}, NEW j \in Nat, NEW k \in Nat, s * j = s * k
  PROVE  j = k
OBVIOUS

-----------------------------------------------------------------------------
(* The chain.                                                              *)

DmaType ==
  /\ pages \in Seq(Pages) /\ Len(pages) \in Nat \ {0}
  /\ pool \in Nat /\ pageIdx \in 0 .. Len(pages)
  /\ items \in [0 .. Len(pages) - 1 -> Items] /\ regs \in Items
  /\ dmaCore \in {"idle", "run", "done"} /\ moved \in Seq(Pages)

(* What the descriptor of the k-th page, counted from 0, is to say.        *)
Describes(item, k) ==
  /\ item.start = pages[k + 1].off /\ item.len = pages[k + 1].len
  /\ Join(item.dma) = pages[k + 1].addr
  /\ item.more <=> k + 1 < Len(pages)
  /\ item.more => Join(item.next) = pool + ItemSize * (k + 1)

(* The pages already visited have their descriptors, the registers hold    *)
(* that of the page to be transferred next, and those before it have been. *)
DmaInv ==
  /\ DmaType
  /\ \A k \in 0 .. pageIdx - 1 : Describes(items[k], k)
  /\ \A k \in 1 .. Len(moved) : moved[k] = pages[k]
  /\ dmaCore = "idle" => moved = <<>> /\ (pageIdx > 0 => regs = items[0])
  /\ dmaCore # "idle" => pageIdx = Len(pages)
  /\ dmaCore = "run" => Len(moved) < Len(pages) /\ regs = items[Len(moved)]
  /\ dmaCore = "done" => Len(moved) = Len(pages)

LEMMA DmaInitial == DmaInit => DmaInv
<1> SUFFICES ASSUME NEW list \in Lists, NEW address \in Pools,
                    NEW old \in Stale, MapList(list, address, old)
             PROVE  DmaInv
  BY DEF DmaInit
<1>1. list \in Seq(Pages) /\ Len(list) \in Nat \ {0}
  BY DmaAssumption
<1>2. address \in Nat /\ old \in Items
  BY DmaAssumption
<1> QED
  BY <1>1, <1>2 DEF MapList, DmaInv, DmaType

(* gncore_dma_fill() writes the descriptor its page needs.                 *)
LEMMA FilledDescribes ==
  ASSUME DmaType, pageIdx < Len(pages)
  PROVE  Filled \in Items /\ Describes(Filled, pageIdx)
<1> DEFINE page == pages[pageIdx + 1]
<1>1. pageIdx \in Nat /\ pageIdx \in DOMAIN items /\ page \in Pages
  BY DEF DmaType
<1>2. page.off \in Nat /\ page.addr \in Nat /\ page.len \in Nat
  BY <1>1 DEF Pages
<1>3. Split(page.addr) \in Addresses /\ Join(Split(page.addr)) = page.addr
  BY <1>2, JoinSplit
<1>4. PICK next \in Nat : next = pool + ItemSize * NextIndex
  BY <1>1, DmaAssumption DEF DmaType, NextIndex
<1>5. Split(next) \in Addresses /\ Join(Split(next)) = next
  BY JoinSplit
<1>6. items[pageIdx].next \in Addresses
  BY <1>1 DEF DmaType, Items
<1>7. IsLast <=> ~(pageIdx + 1 < Len(pages))
  BY <1>1 DEF IsLast, DmaType
<1>8. Filled \in Items
  BY <1>2, <1>3, <1>4, <1>5, <1>6 DEF Filled, Items, IsLast
<1>9. Describes(Filled, pageIdx)
  BY <1>3, <1>4, <1>5, <1>7 DEF Describes, Filled, NextIndex
<1> QED
  BY <1>8, <1>9

(* The page of the registers is the next one to be transferred.            *)
LEMMA RegsAreNext ==
  ASSUME DmaInv, dmaCore = "run"
  PROVE  /\ Len(moved) \in 0 .. Len(pages) - 1
         /\ Describes(regs, Len(moved))
         /\ [off |-> regs.start, addr |-> Join(regs.dma), len |-> regs.len]
              = pages[Len(moved) + 1]
<1>1. Len(moved) \in 0 .. Len(pages) - 1
  BY DEF DmaInv, DmaType
<1>2. Describes(regs, Len(moved))
  BY <1>1 DEF DmaInv
<1>3. pages[Len(moved) + 1] \in Pages
  BY <1>1 DEF DmaInv, DmaType
<1> QED
  BY <1>1, <1>2, <1>3 DEF Describes, Pages

LEMMA DmaStep ==
  ASSUME DmaInv, [DmaNext]_dmaVars
  PROVE  DmaInv'
<1>1. CASE DmaFill
  <2>1. Filled \in Items /\ Describes(Filled, pageIdx)
    BY <1>1, FilledDescribes DEF DmaFill, DmaInv
  <2>2. /\ items' = [items EXCEPT ![pageIdx] = Filled]
        /\ regs' = IF pageIdx = 0 THEN Filled ELSE regs
        /\ pageIdx' = pageIdx + 1 /\ pageIdx < Len(pages)
        /\ UNCHANGED <<pages, pool, dmaCore, moved>>
    BY <1>1 DEF DmaFill
  <2>3. DmaType'
    BY <2>1, <2>2 DEF DmaInv, DmaType
  <2>4. ASSUME NEW k \in 0 .. pageIdx' - 1 PROVE Describes(items[k], k)'
    <3>1. k \in 0 .. pageIdx /\ pageIdx \in DOMAIN items /\ k \in DOMAIN items
      BY <2>2 DEF DmaInv, DmaType
    <3>2. CASE k = pageIdx
      BY <2>1, <2>2, <3>1, <3>2 DEF Describes, DmaInv, DmaType, Join
    <3>3. CASE k # pageIdx
      <4>1. items'[k] = items[k] /\ Describes(items[k], k)
        BY <2>2, <3>1, <3>3 DEF DmaInv, DmaType
      <4> QED
        BY <2>2, <4>1 DEF Describes, Join
    <3> QED
      BY <3>2, <3>3
  <2>5. dmaCore = "idle"
    BY <2>2 DEF DmaInv, DmaType
  <2>6. regs' = items'[0]
    BY <2>2, <2>5 DEF DmaInv, DmaType
  <2> QED
    BY <2>2, <2>3, <2>4, <2>5, <2>6 DEF DmaInv
<1>2. CASE DmaStart
  BY <1>2 DEF DmaStart, DmaInv, DmaType, Describes, Join
<1>3. CASE DmaMove
  <2> DEFINE n == Len(moved)
  <2>1. /\ n \in 0 .. Len(pages) - 1 /\ Describes(regs, n)
        /\ moved' = Append(moved, pages[n + 1])
    BY <1>3, RegsAreNext DEF DmaMove
  <2>2. UNCHANGED <<pages, pool, pageIdx, items>>
    BY <1>3 DEF DmaMove
  <2>3. pages[n + 1] \in Pages
    BY <2>1 DEF DmaInv, DmaType
  <2>4. moved' \in Seq(Pages) /\ Len(moved') = n + 1
    BY <2>1, <2>3 DEF DmaInv, DmaType
  <2>5. \A k \in 1 .. Len(moved') : moved'[k] = pages[k]
    BY <2>1, <2>3, <2>4 DEF DmaInv, DmaType
  <2>6. \A k \in 0 .. pageIdx' - 1 : Describes(items[k], k)'
    BY <2>2 DEF DmaInv, Describes, Join
  <2>7. pageIdx = Len(pages)
    BY <1>3 DEF DmaMove, DmaInv
  <2>8. CASE regs.more
    <3>1. PICK k \in DOMAIN items :
            Points(Join(regs.next), k) /\ regs' = items[k]
      BY <1>3, <2>8 DEF DmaMove
    <3>2. pool + ItemSize * k = pool + ItemSize * (n + 1)
      BY <2>1, <2>8, <3>1 DEF Points, Describes
    <3>3. ItemSize \in Nat \ {0} /\ k \in Nat /\ n + 1 \in Nat /\ pool \in Nat
      BY <2>1, <3>1, DmaAssumption DEF DmaInv, DmaType
    <3>4. k = n + 1
      <4>1. ItemSize * k = ItemSize * (n + 1)
        BY <3>2, <3>3
      <4> QED
        BY <3>3, <4>1, SamePlace
    <3>5. n + 1 < Len(pages)
      BY <2>1, <2>8 DEF Describes
    <3>6. dmaCore' = "run" /\ regs' \in Items
      BY <1>3, <2>8, <3>1 DEF DmaMove, DmaInv, DmaType
    <3>7. DmaType'
      BY <2>2, <2>4, <3>6 DEF DmaInv, DmaType
    <3> QED
      BY <2>2, <2>4, <2>5, <2>6, <2>7, <3>1, <3>4, <3>5, <3>6, <3>7 DEF DmaInv
  <2>9. CASE ~regs.more
    <3>1. dmaCore' = "done" /\ regs' = regs
      BY <1>3, <2>9 DEF DmaMove
    <3>2. n + 1 = Len(pages)
      BY <2>1, <2>9 DEF Describes, DmaInv, DmaType
    <3>3. DmaType'
      BY <2>2, <2>4, <3>1 DEF DmaInv, DmaType
    <3> QED
      BY <2>2, <2>4, <2>5, <2>6, <2>7, <3>1, <3>2, <3>3 DEF DmaInv
  <2> QED
    BY <2>8, <2>9
<1>4. CASE UNCHANGED dmaVars
  BY <1>4 DEF dmaVars, DmaInv, DmaType, Describes, Join
<1> QED
  BY <1>1, <1>2, <1>3, <1>4 DEF DmaNext

LEMMA DmaInvHolds == DmaSpec => []DmaInv
BY DmaInitial, DmaStep, PTL DEF DmaSpec

(* The core transfers the pages in order and stops after the last one,     *)
(* for every list of pages and wherever the descriptors are.               *)
THEOREM WholeChainHolds == DmaSpec => []WholeChain
<1>1. DmaInv => WholeChain
  <2> SUFFICES ASSUME DmaInv PROVE WholeChain
    OBVIOUS
  <2>1. Len(moved) <= Len(pages)
    BY DEF DmaInv, DmaType
  <2>2. ASSUME dmaCore = "run", regs.more
        PROVE  \E k \in DOMAIN items : Points(Join(regs.next), k)
    <3>1. Len(moved) \in 0 .. Len(pages) - 1 /\ Describes(regs, Len(moved))
      BY <2>2, RegsAreNext
    <3>2. Len(moved) + 1 \in DOMAIN items
      BY <2>2, <3>1 DEF Describes, DmaInv, DmaType
    <3> QED
      BY <2>2, <3>1, <3>2 DEF Describes, Points
  <2> QED
    BY <2>1, <2>2 DEF DmaInv, WholeChain
<1> QED
  BY <1>1, DmaInvHolds, PTL
=============================================================================
