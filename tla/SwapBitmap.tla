----------------------------- MODULE SwapBitmap -----------------------------
(***************************************************************************)
(* alloc_swap_slot and free_swap_slot of both kernels at the level of the  *)
(* bitmap words, driven by one caller in lockstep:                         *)
(*   lazy.c: 16 words of 64 slots, masks 1UL << j, a count check first;    *)
(*   demand_paging.c: 32 words of 32 slots, masks int 1 << bit, no count.  *)
(* The element type of p->swap_slot_bitmap is declared in proc.h, which is *)
(* not in the repository, so each variant's word width is a choice made at *)
(* Init from a constant set.  A word is the set of its bit positions that  *)
(* are 1 (TLC integers cannot hold 64-bit words).  int 1 << 31 is INT_MIN  *)
(* on the build's two's-complement target; stored into a 64-bit word it    *)
(* sign-extends to bits 31..63, and ~(1 << 31) is INT_MAX, clearing them.  *)
(* lheld and dheld are history variables: the slots the caller holds.      *)
(***************************************************************************)
EXTENDS Integers, FiniteSetsExt

CONSTANTS NSLOTS,        \* MAX_SWAP_SLOTS (lazy) and the literal 1024 (demand paging)
          LAZY_WIDTHS,   \* possible bit widths of a bitmap word in the lazy build
          DP_WIDTHS,     \* possible bit widths of a bitmap word in the demand-paging build
          FREEABLE       \* slot arguments the caller passes to free_swap_slot

VARIABLES lwidth, lwords, lheld, lret,
          dwidth, dwords, dheld, dret

vars == <<lwidth, lwords, lheld, lret, dwidth, dwords, dheld, dret>>

NWORDS == 32                      \* both initialisers clear words 0..31
Slots == 0..(NSLOTS - 1)
Bits(w) == 0..(w - 1)
NoWords == [i \in 0..(NWORDS - 1) |-> {}]

----------------------------------------------------------------------------
\* lazy.c: slot i*64 + j lives in word i, bit j.
LazyWordOf(s) == s \div 64
\* Faulty variant: 32 slots per word, as in the other kernel.
LazyBitOfNarrow(s) == s % 32
LazyBitOf(s) == s % 64
\* (1UL << j) as it lands in a word of lwidth bits.
LazyMask(j) == {j} \cap Bits(lwidth)
LazyIsFree(s) == LazyBitOf(s) \notin lwords[LazyWordOf(s)]
\* The nested loop visits i < 16, j < 64 and breaks at MAX_SWAP_SLOTS.
LazyScan == {s \in Slots : s < 16 * 64}
LazyFreeSlots == {s \in LazyScan : LazyIsFree(s)}

LazyAllocSwapSlot ==
    \/ /\ Cardinality(lheld) >= NSLOTS \/ LazyFreeSlots = {}
       /\ lret' = -1
       /\ UNCHANGED <<lwords, lheld>>
    \/ /\ Cardinality(lheld) < NSLOTS
       /\ LazyFreeSlots # {}
       /\ LET s == Min(LazyFreeSlots) IN
            /\ lwords' = [lwords EXCEPT ![LazyWordOf(s)] = @ \cup LazyMask(LazyBitOf(s))]
            /\ lret' = s
            /\ lheld' = lheld \cup {s}

LazyFreeSwapSlot(s) ==
    /\ IF s < 0 \/ s >= NSLOTS
         THEN UNCHANGED lwords
         ELSE lwords' = [lwords EXCEPT ![LazyWordOf(s)] = @ \ LazyMask(LazyBitOf(s))]
    /\ lheld' = lheld \ {s}
    /\ UNCHANGED lret

----------------------------------------------------------------------------
\* demand_paging.c: slot i lives in word i / 32, bit i % 32.
\* Faulty variant: word i / 64 with bit i % 32.
DpWordOfWide(i) == i \div 64
DpWordOf(i) == i \div 32
\* Faulty variant: 64 bits per word, as in the other kernel.
DpBitOfWide(i) == i % 64
DpBitOf(i) == i % 32
\* The bits (1 << bit) covers in a word of dwidth bits; ~(1 << bit) clears the same bits.
DpMask(bit) == IF bit = 31 THEN 31..(dwidth - 1) ELSE {bit}
DpIsFree(i) == dwords[DpWordOf(i)] \cap DpMask(DpBitOf(i)) = {}
DpFreeSlots == {i \in Slots : DpIsFree(i)}

DpAllocSwapSlot ==
    \/ /\ DpFreeSlots = {}
       /\ dret' = -1
       /\ UNCHANGED <<dwords, dheld>>
    \/ /\ DpFreeSlots # {}
       /\ LET i == Min(DpFreeSlots) IN
            /\ dwords' = [dwords EXCEPT ![DpWordOf(i)] = @ \cup DpMask(DpBitOf(i))]
            /\ dret' = i
            /\ dheld' = dheld \cup {i}

DpFreeSwapSlot(s) ==
    /\ IF s < 0 \/ s >= NSLOTS
         THEN UNCHANGED dwords
         ELSE dwords' = [dwords EXCEPT ![DpWordOf(s)] = @ \ DpMask(DpBitOf(s))]
    /\ dheld' = dheld \ {s}
    /\ UNCHANGED dret

----------------------------------------------------------------------------
Init ==
    /\ lwidth \in LAZY_WIDTHS /\ dwidth \in DP_WIDTHS
    /\ lwords = NoWords /\ dwords = NoWords
    /\ lheld = {} /\ dheld = {}
    /\ lret = -1 /\ dret = -1

\* The caller allocates a slot in both kernels.
Alloc ==
    /\ LazyAllocSwapSlot /\ DpAllocSwapSlot
    /\ UNCHANGED <<lwidth, dwidth>>

\* The caller frees a slot it holds, or passes one out of range.
Free(s) ==
    /\ s \in (lheld \cap dheld) \/ s \notin Slots
    /\ LazyFreeSwapSlot(s) /\ DpFreeSwapSlot(s)
    /\ UNCHANGED <<lwidth, dwidth>>

Next == Alloc \/ \E s \in FREEABLE : Free(s)

Spec == Init /\ [][Next]_vars

----------------------------------------------------------------------------
TypeOK ==
    /\ lwidth \in LAZY_WIDTHS /\ dwidth \in DP_WIDTHS
    /\ lwords \in [0..(NWORDS - 1) -> SUBSET Bits(lwidth)]
    /\ dwords \in [0..(NWORDS - 1) -> SUBSET Bits(dwidth)]
    /\ lheld \subseteq Slots /\ dheld \subseteq Slots
    /\ lret \in Slots \cup {-1} /\ dret \in Slots \cup {-1}

LazyAllocator == INSTANCE SwapSlots WITH used <- lheld, ret <- lret
DpAllocator   == INSTANCE SwapSlots WITH used <- dheld, ret <- dret

\* lazy.c's bitmap implements the allocator contract: every alloc_swap_slot
\* returns the lowest slot the caller does not hold, or -1 when it holds
\* them all, however allocations and frees across word boundaries interleave.
LazyImplementsSpec == LazyAllocator!Spec

\* demand_paging.c's bitmap implements the same contract, including slot 31
\* of every word, whose int mask 1 << 31 is negative.
DpImplementsSpec == DpAllocator!Spec
=============================================================================
