-------------------------------- MODULE GnDma --------------------------------
(***************************************************************************)
(* The chain of descriptors of a SPEC transfer.  zio_dma_map_sg() calls    *)
(* gncore_dma_fill() for each page, in order; then the core is started: it *)
(* transfers the page of the descriptor in its registers, and fetches the  *)
(* next one from the address it finds there.                               *)
(***************************************************************************)
EXTENDS Integers, Sequences

CONSTANTS
  Lists,     (* the lists of pages there may be: each page has its address,
                its length and its place in the card's memory              *)
  Pools,     (* where the pool of the descriptors may begin                 *)
  Stale,     (* what the pool and the registers may hold from before        *)
  ItemSize,  (* sizeof(struct gncore_dma_item)                              *)
  HALFADDR   (* an address takes two registers, of numbers below this one   *)

Pages     == [off : Nat, addr : Nat, len : Nat]
Addresses == [l : Nat, h : Nat]
Items     == [start : Nat, dma : Addresses, len : Nat, next : Addresses,
              more : BOOLEAN]

ASSUME DmaAssumption ==
  /\ Lists \subseteq Seq(Pages) \ {<<>>}
  /\ Pools \subseteq Nat /\ Stale \subseteq Items
  /\ ItemSize \in Nat \ {0} /\ HALFADDR \in Nat \ {0}

VARIABLES
  pages, pool,  (* what is to be transferred; the pool's address            *)
  pageIdx,      (* zsg->page_idx, the pages whose descriptor is filled      *)
  items,        (* the pool                                                 *)
  regs,         (* the registers of the core: a descriptor                  *)
  dmaCore,      (* the core: "idle", "run", "done"                          *)
  moved         (* history: what it transferred, from where and to where    *)

dmaVars == <<pages, pool, pageIdx, items, regs, dmaCore, moved>>

-----------------------------------------------------------------------------
(* A mistake the code could plausibly contain, used by no definition below:*)
(* NextIndex is that of the page itself.                                   *)
NextIndexSame == pageIdx

-----------------------------------------------------------------------------
Split(a) == [l |-> a % HALFADDR, h |-> a \div HALFADDR]
Join(s)  == s.h * HALFADDR + s.l

(* The descriptor that the one being filled points to.                     *)
NextIndex == pageIdx + 1

MapList(list, address, old) ==
  /\ pages = list /\ pool = address /\ pageIdx = 0
  /\ items = [k \in 0 .. Len(list) - 1 |-> old] /\ regs = old
  /\ dmaCore = "idle" /\ moved = <<>>

DmaInit ==
  \E list \in Lists, address \in Pools, old \in Stale :
    MapList(list, address, old)

IsLast == pageIdx + 1 = Len(pages)

(* The last descriptor's next is not written.                              *)
Filled ==
  LET page == pages[pageIdx + 1] IN
  [start |-> page.off, dma |-> Split(page.addr), len |-> page.len,
   next  |-> IF IsLast THEN items[pageIdx].next
             ELSE Split(pool + ItemSize * NextIndex),
   more  |-> ~IsLast]

(* gncore_dma_fill(): the first descriptor goes to the core as well.       *)
DmaFill ==
  /\ pageIdx < Len(pages)
  /\ items' = [items EXCEPT ![pageIdx] = Filled]
  /\ regs' = IF pageIdx = 0 THEN Filled ELSE regs
  /\ pageIdx' = pageIdx + 1
  /\ UNCHANGED <<pages, pool, dmaCore, moved>>

DmaStart ==
  /\ pageIdx = Len(pages) /\ dmaCore = "idle"
  /\ dmaCore' = "run"
  /\ UNCHANGED <<pages, pool, pageIdx, items, regs, moved>>

(* The descriptor that is at an address.                                   *)
Points(address, k) == k \in DOMAIN items /\ pool + ItemSize * k = address

DmaMove ==
  /\ dmaCore = "run"
  /\ moved' = Append(moved, [off |-> regs.start, addr |-> Join(regs.dma),
                             len |-> regs.len])
  /\ \/ /\ regs.more
        /\ \E k \in DOMAIN items :
             Points(Join(regs.next), k) /\ regs' = items[k]
        /\ UNCHANGED dmaCore
     \/ /\ ~regs.more
        /\ dmaCore' = "done" /\ UNCHANGED regs
  /\ UNCHANGED <<pages, pool, pageIdx, items>>

DmaNext == DmaFill \/ DmaStart \/ DmaMove

DmaSpec == DmaInit /\ [][DmaNext]_dmaVars

-----------------------------------------------------------------------------
(* With the descriptors of gncore_dma_fill() the core transfers the pages  *)
(* in order, each from its place to its address; it finds a descriptor     *)
(* wherever it looks for one, and when it stops it has transferred all: of *)
(* one page, or of many, on both sides of 2^32.                            *)
WholeChain ==
  /\ Len(moved) <= Len(pages)
  /\ \A k \in 1 .. Len(moved) : moved[k] = pages[k]
  /\ dmaCore = "run" /\ regs.more => \E k \in DOMAIN items : Points(Join(regs.next), k)
  /\ dmaCore = "done" => Len(moved) = Len(pages)
=============================================================================
