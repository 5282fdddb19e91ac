------------------------------ MODULE SwapSlots ------------------------------
(***************************************************************************)
(* The swap-slot allocator as the design promises it (spec 4.4): alloc     *)
(* hands out the lowest slot not in use, or -1 when every slot is taken;   *)
(* free gives a slot back, and an out-of-range slot is a silent no-op.     *)
(* used is the set of slots the caller holds; ret is what the last alloc   *)
(* returned.  The word-level bitmaps of SwapBitmap implement this.         *)
(***************************************************************************)
EXTENDS Integers, FiniteSetsExt

CONSTANT NSLOTS          \* MAX_SWAP_SLOTS

VARIABLES used, ret

Slots == 0..(NSLOTS - 1)

Init == used = {} /\ ret = -1

Alloc ==
    \/ /\ used = Slots
       /\ ret' = -1
       /\ UNCHANGED used
    \/ /\ used # Slots
       /\ ret' = Min(Slots \ used)
       /\ used' = used \cup {ret'}

Free(s) ==
    /\ used' = used \ ({s} \cap Slots)
    /\ UNCHANGED ret

\* A free of a slot out of range leaves used as it is: a stuttering step.
Next == Alloc \/ \E s \in Slots : Free(s)

Spec == Init /\ [][Next]_<<used, ret>>
=============================================================================
