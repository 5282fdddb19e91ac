----------------------------- MODULE LazyPaging -----------------------------
(***************************************************************************)
(* The demand-paging core of kernel/lazy.c, for one process, from the      *)
(* state kexec (kernel/exec.c) leaves it in.                               *)
(*                                                                         *)
(* Pages are page numbers (va / PGSIZE).  The page-info table is indexed   *)
(* by (va / PGSIZE) % MAX_PROC_PAGES, as get_page_info does.  Page         *)
(* contents are abstracted to tags that tell apart what the properties     *)
(* need: the zero page, the executable image of a given page, the argv     *)
(* page built by exec, and values stored by the user.                      *)
(*                                                                         *)
(* The process is single-threaded: a fault is handled by the trapped       *)
(* thread alone.  The physical-frame allocator (kalloc/kfree) is shared    *)
(* with the other CPUs, modelled by OtherAlloc/OtherFree, which may run    *)
(* between the eviction that frees a frame and the kalloc that retries.    *)
(***************************************************************************)
EXTENDS Integers, Sequences, FiniteSets, FiniteSetsExt, ExecLayout

CONSTANTS
    MAX_PROC_PAGES,  \* size of p->pages[], also the hash modulus
    MAX_SWAP_SLOTS,  \* slots of the per-process swap file (lazyalloc.h)
    NFRAMES,         \* physical frames in the machine
    Values,          \* values a user store may write
    SEQ_BOUND,       \* model bound on next_fifo_seq (faults per behaviour)
    SYSCALL_FAULTS,  \* TRUE: faults may also come from copyin/copyout
    NoFrame          \* model value: no mapping for the page

ASSUME MAX_PROC_PAGES \in Nat \ {0} /\ MAX_SWAP_SLOTS \in Nat \ {0}
ASSUME NFRAMES \in Nat \ {0} /\ SEQ_BOUND \in Nat /\ SYSCALL_FAULTS \in BOOLEAN

VARIABLES
    pages,              \* p->pages[]: the page-info table
    next_fifo_seq,      \* p->next_fifo_seq
    bitmap,             \* the set bits of p->swap_slot_bitmap
    num_swapped_pages,  \* p->num_swapped_pages
    swapfile,           \* p->swapfile_inode # 0
    swap,               \* swap[s]: contents of slot s of the swap file
    pt,                 \* pt[v]: frame the page table maps page v to
    fmem,               \* fmem[f]: contents of physical frame f
    free,               \* frames on the kalloc free list
    other,              \* frames held by the rest of the system
    status,             \* "user" | "retry" | "killed" | "exited"
    pending,            \* the fault waiting for its kalloc retry
    order               \* history: mapped pages, in the order they were mapped

vars == <<pages, next_fifo_seq, bitmap, num_swapped_pages, swapfile, swap,
          pt, fmem, free, other, status, pending, order>>

UNMAPPED == 0
RESIDENT == 1
SWAPPED  == 2

NoFault  == [va |-> 0, write |-> FALSE, swap |-> FALSE]

Frames    == 1..NFRAMES
Slots     == 0..(MAX_PROC_PAGES - 1)
SwapSlots == 0..(MAX_SWAP_SLOTS - 1)

\* get_page_info: the descriptor slot of a page.
Idx(v) == v % MAX_PROC_PAGES

\* The segment page whose exec_off/exec_len kexec left in slot i: pages
\* are registered in address order, so the highest colliding one wins.
ExecSrc(i) == {v \in SegPages : Idx(v) = i}

InitPageInfo(i) ==
    [va        |-> IF ExecSrc(i) = {} THEN 0 ELSE Max(ExecSrc(i)),
     state     |-> IF i = Idx(stackbase) THEN RESIDENT ELSE UNMAPPED,
     is_dirty  |-> FALSE,
     seq       |-> 0,
     swap_slot |-> -1]

Init ==
    /\ pages = [i \in Slots |-> InitPageInfo(i)]
    /\ next_fifo_seq = 1
    /\ bitmap = {}
    /\ num_swapped_pages = 0
    /\ swapfile = FALSE
    /\ swap = [s \in SwapSlots |-> Zero]
    /\ pt = [v \in VPN |-> IF v = stackbase THEN 1 ELSE NoFrame]
    /\ fmem = [f \in Frames |-> IF f = 1 THEN Argv ELSE Junk]
    /\ free = Frames \ {1}
    /\ other = {}
    /\ status = "user"
    /\ pending = NoFault
    /\ order = <<stackbase>>

Mapped(v)   == pt[v] # NoFrame
Writable(v) == ~InText(v)
Permits(v, write) == Mapped(v) /\ (~write \/ Writable(v))

(***************************************************************************)
(* Fault classification in lazy_handle_fault, in the code's order.         *)
(***************************************************************************)
IsSwapFault(v) == pages[Idx(v)].state = SWAPPED

Cause(v) ==
    LET stack_bottom == stack_top - (USERSTACK + 1) IN
    IF v >= stack_bottom /\ v < stack_top THEN "stack"
    ELSE IF v >= heap_start /\ v < stack_bottom THEN "heap"
    ELSE IF InText(v) \/ InData(v) THEN "exec"
    ELSE "unknown"

\* What the fresh frame holds: the image bytes at exec_off of v's slot for
\* an exec fault, zeros otherwise.
NewContent(v) ==
    IF Cause(v) = "exec" /\ ExecSrc(Idx(v)) # {}
    THEN Image(Max(ExecSrc(Idx(v))))
    ELSE Zero

\* What a swap-in reads: the descriptor's slot, if there is a swap file.
SwapInContent(d) ==
    IF swapfile /\ d.swap_slot >= 0 THEN swap[d.swap_slot] ELSE Zero

\* What the user would see in page v if it touched it now.
View(v) ==
    IF Mapped(v) THEN fmem[pt[v]]
    ELSE IF IsSwapFault(v) THEN SwapInContent(pages[Idx(v)])
    ELSE NewContent(v)

Kill ==
    /\ status' = "killed"
    /\ UNCHANGED <<pages, next_fifo_seq, bitmap, num_swapped_pages, swapfile,
                   swap, pt, fmem, free, other, pending, order>>

(***************************************************************************)
(* Swap slots: alloc_swap_slot and free_swap_slot.                         *)
(***************************************************************************)
AllocSwapSlot ==
    IF num_swapped_pages >= MAX_SWAP_SLOTS \/ SwapSlots \subseteq bitmap
    THEN -1
    ELSE Min(SwapSlots \ bitmap)

FreeSwapSlot(slot) ==
    IF slot < 0 \/ slot >= MAX_SWAP_SLOTS THEN bitmap ELSE bitmap \ {slot}

(***************************************************************************)
(* uvmunmap(p->pagetable, victim_va, PGSIZE, 1): the third argument is a   *)
(* page count, so the PGSIZE (4096) pages from victim_va on are unmapped:  *)
(* each mapped one has its PTE cleared and its frame kfree'd (filled with  *)
(* junk), an unmapped one is skipped.  Their descriptors are untouched.    *)
(***************************************************************************)
UnmapRange(va) == {u \in VPN : va =< u /\ u < va + 4096 /\ Mapped(u)}

UnmapFrames(va) == {pt[u] : u \in UnmapRange(va)}

\* Faulty variant: uvmunmap(..., do_free = 0), the frames are never freed.
UnmapNoFree(va) ==
    /\ pt' = [u \in VPN |-> IF u \in UnmapRange(va) THEN NoFrame ELSE pt[u]]
    /\ order' = SelectSeq(order, LAMBDA x : x \notin UnmapRange(va))
    /\ UNCHANGED <<free, fmem>>

Unmap(va) ==
    /\ pt' = [u \in VPN |-> IF u \in UnmapRange(va) THEN NoFrame ELSE pt[u]]
    /\ free' = free \cup UnmapFrames(va)
    /\ fmem' = [f \in Frames |-> IF f \in UnmapFrames(va) THEN Junk ELSE fmem[f]]
    /\ order' = SelectSeq(order, LAMBDA x : x \notin UnmapRange(va))

(***************************************************************************)
(* lazy_evict_page: the resident descriptor with the smallest seq (the     *)
(* first one on a tie) is the victim; its va is whatever the descriptor    *)
(* holds.                                                                  *)
(***************************************************************************)
Resident == {i \in Slots : pages[i].state = RESIDENT}

Victim ==
    CHOOSE i \in Resident :
        \A j \in Resident : \/ pages[i].seq < pages[j].seq
                            \/ pages[i].seq = pages[j].seq /\ i =< j

\* A victim goes to swap unless it is a clean text page.
NeedsSwap(i) ==
    pages[i].is_dirty \/ ~InText(pages[i].va)

\* Write the victim to a fresh slot (walkaddr finds no frame for a page
\* that is not mapped, and then nothing is written), mark it SWAPPED.
SwapOutVictim(i, slot) ==
    LET va == pages[i].va IN
    /\ swap' = IF Mapped(va) THEN [swap EXCEPT ![slot] = fmem[pt[va]]] ELSE swap
    /\ bitmap' = bitmap \cup {slot}
    /\ pages' = [pages EXCEPT ![i].state = SWAPPED, ![i].swap_slot = slot]
    /\ num_swapped_pages' = num_swapped_pages + 1

\* Faulty variant: the discard path also counts a swapped page out.
DiscardVictimUncounts(i) ==
    /\ pages' = [pages EXCEPT ![i].state = UNMAPPED, ![i].swap_slot = -1]
    /\ num_swapped_pages' = num_swapped_pages - 1
    /\ UNCHANGED <<swap, bitmap>>

DiscardVictim(i) ==
    /\ pages' = [pages EXCEPT ![i].state = UNMAPPED, ![i].swap_slot = -1]
    /\ UNCHANGED <<swap, bitmap, num_swapped_pages>>

\* create_swap_file: with no swap file yet, create() of /pgswpPID may
\* fail (no free inode, a full disk) and -1 is returned ...
CreateSwapFileFails == ~swapfile

\* ... or the file is made; with one already there it returns 0 at once.
CreateSwapFile == swapfile' = TRUE

\* The eviction of a fault that found no free frame; on success the fault
\* goes on to retry kalloc, on failure (-1) the process is killed.
LazyEvictPage(f) ==
    /\ UNCHANGED <<next_fifo_seq, other>>
    /\ IF Resident = {}
       THEN Kill
       ELSE LET i == Victim IN
            IF NeedsSwap(i)
            THEN \/ /\ CreateSwapFileFails
                    /\ Kill
                 \/ /\ CreateSwapFile
                    /\ IF AllocSwapSlot < 0
                       THEN /\ status' = "killed"
                            /\ UNCHANGED <<pages, bitmap, num_swapped_pages,
                                           swap, pt, fmem, free, pending, order>>
                       ELSE /\ SwapOutVictim(i, AllocSwapSlot)
                            /\ Unmap(pages[i].va)
                            /\ status' = "retry"
                            /\ pending' = f
            ELSE /\ DiscardVictim(i)
                 /\ Unmap(pages[i].va)
                 /\ swapfile' = swapfile
                 /\ status' = "retry"
                 /\ pending' = f

(***************************************************************************)
(* The two ways lazy_handle_fault fills frame fr and maps page v.          *)
(***************************************************************************)
MapFrame(v, fr, c) ==
    /\ free' = free \ {fr}
    /\ fmem' = [fmem EXCEPT ![fr] = c]
    /\ pt' = [pt EXCEPT ![v] = fr]
    /\ order' = Append(order, v)
    /\ next_fifo_seq' = next_fifo_seq + 1

\* The swap path: read the slot of v's descriptor, free the slot.  The
\* descriptor's va and is_dirty are left as they were.
SwapIn(v, fr) ==
    LET i == Idx(v)
        d == pages[i]
    IN
    /\ MapFrame(v, fr, SwapInContent(d))
    /\ pages' = [pages EXCEPT ![i].state = RESIDENT,
                              ![i].seq = next_fifo_seq,
                              ![i].swap_slot = -1]
    /\ bitmap' = IF d.swap_slot >= 0 THEN FreeSwapSlot(d.swap_slot) ELSE bitmap
    /\ num_swapped_pages' = IF d.swap_slot >= 0 THEN num_swapped_pages - 1
                                                ELSE num_swapped_pages
    /\ UNCHANGED <<swapfile, swap>>

\* The exec/heap/stack path: load or zero-fill, then overwrite v's slot.
MapNew(v, write, fr) ==
    /\ MapFrame(v, fr, NewContent(v))
    /\ pages' = [pages EXCEPT ![Idx(v)] = [va |-> v, state |-> RESIDENT,
                                           is_dirty |-> write,
                                           seq |-> next_fifo_seq,
                                           swap_slot |-> -1]]
    /\ UNCHANGED <<bitmap, num_swapped_pages, swapfile, swap>>

Materialise(f, fr) ==
    /\ IF f.swap THEN SwapIn(f.va, fr) ELSE MapNew(f.va, f.write, fr)
    /\ status' = "user"
    /\ pending' = NoFault
    /\ UNCHANGED other

(***************************************************************************)
(* The user process: a store that hits a writable mapping, and the trap    *)
(* into lazy_handle_fault when a load or store is not permitted.  A load   *)
(* that hits changes no state; what it would return is View.              *)
(***************************************************************************)
UserStore(v, x) ==
    /\ status = "user"
    /\ Permits(v, TRUE)
    /\ fmem' = [fmem EXCEPT ![pt[v]] = Written(x)]
    /\ UNCHANGED <<pages, next_fifo_seq, bitmap, num_swapped_pages, swapfile,
                   swap, pt, free, other, status, pending, order>>

(***************************************************************************)
(* lazy_handle_fault(p, v, write), up to the first kalloc.  It returns -1  *)
(* for a page already mapped and for an invalid address; the trap handler *)
(* then kills the process.  A store that traps on an unmapped text page   *)
(* gets the page mapped read-only, the re-executed store traps on the     *)
(* mapped page and the process dies: the model takes both traps as one    *)
(* step.  A copyin/copyout fault (SYSCALL_FAULTS) only fails the system   *)
(* call, so the page stays mapped and the process runs on.                *)
(***************************************************************************)
Fault(v, write) ==
    LET f == [va |-> v, write |-> write, swap |-> IsSwapFault(v)] IN
    /\ status = "user"
    /\ next_fifo_seq < SEQ_BOUND
    /\ ~Permits(v, write)
    /\ IF \/ Mapped(v)
          \/ ~f.swap /\ Cause(v) = "unknown"
          \/ write /\ ~Writable(v) /\ ~SYSCALL_FAULTS
       THEN Kill
       ELSE IF free # {}
       THEN \E fr \in free : Materialise(f, fr)
       ELSE LazyEvictPage(f)

\* The kalloc retried after a successful eviction; MEMFULL if it fails.
Retry ==
    /\ status = "retry"
    /\ IF free # {}
       THEN \E fr \in free : Materialise(pending, fr)
       ELSE Kill

(***************************************************************************)
(* The rest of the system allocating and freeing frames.                   *)
(***************************************************************************)
OtherAlloc ==
    /\ \E fr \in free : /\ free' = free \ {fr}
                        /\ other' = other \cup {fr}
    /\ UNCHANGED <<pages, next_fifo_seq, bitmap, num_swapped_pages, swapfile,
                   swap, pt, fmem, status, pending, order>>

OtherFree ==
    /\ \E fr \in other : /\ other' = other \ {fr}
                         /\ free' = free \cup {fr}
    /\ UNCHANGED <<pages, next_fifo_seq, bitmap, num_swapped_pages, swapfile,
                   swap, pt, fmem, status, pending, order>>

\* Teardown of the killed process: lazy_free drops the swap file, and
\* freeing the page table returns every mapped frame.
Exit ==
    LET used == {pt[v] : v \in {u \in VPN : Mapped(u)}} IN
    /\ status = "killed"
    /\ status' = "exited"
    /\ swapfile' = FALSE
    /\ free' = free \cup used
    /\ fmem' = [fr \in Frames |-> IF fr \in used THEN Junk ELSE fmem[fr]]
    /\ pt' = [v \in VPN |-> NoFrame]
    /\ order' = <<>>
    /\ UNCHANGED <<pages, next_fifo_seq, bitmap, num_swapped_pages, swap,
                   other, pending>>

Next ==
    \/ \E v \in VPN, x \in Values : UserStore(v, x)
    \/ \E v \in VPN, w \in BOOLEAN : Fault(v, w)
    \/ Retry
    \/ OtherAlloc
    \/ OtherFree
    \/ Exit

Spec == Init /\ [][Next]_vars

(***************************************************************************)
(* Properties.                                                             *)
(***************************************************************************)
Contents == {Zero, Argv, Junk} \cup {Image(v) : v \in VPN} \cup {Written(x) : x \in Values}

PageInfo == [va : VPN, state : {UNMAPPED, RESIDENT, SWAPPED}, is_dirty : BOOLEAN,
             seq : 0..SEQ_BOUND, swap_slot : -1..(MAX_SWAP_SLOTS - 1)]

TypeOK ==
    /\ pages \in [Slots -> PageInfo]
    /\ next_fifo_seq \in 1..SEQ_BOUND
    /\ bitmap \subseteq SwapSlots
    /\ num_swapped_pages \in 0..MAX_SWAP_SLOTS
    /\ swapfile \in BOOLEAN
    /\ swap \in [SwapSlots -> Contents]
    /\ pt \in [VPN -> Frames \cup {NoFrame}]
    /\ fmem \in [Frames -> Contents]
    /\ free \subseteq Frames /\ other \subseteq Frames
    /\ status \in {"user", "retry", "killed", "exited"}

\* I6/I7: the swap bitmap holds exactly the slots of the SWAPPED
\* descriptors, one slot each, and num_swapped_pages counts them: the
\* eviction that sets a bit and the swap-in that clears it stay paired.
SwapAccounting ==
    LET sw == {i \in Slots : pages[i].state = SWAPPED} IN
    /\ bitmap = {pages[i].swap_slot : i \in sw}
    /\ Cardinality(bitmap) = Cardinality(sw)
    /\ num_swapped_pages = Cardinality(sw)

\* L4 and no leak: every frame is on the free list, held by the rest of
\* the system, or mapped by exactly one page of this process, across
\* eviction, the kalloc retry and teardown.
FramesConserved ==
    LET used == {pt[v] : v \in {u \in VPN : Mapped(u)}} IN
    /\ free \cap other = {}
    /\ free \cap used = {}
    /\ other \cap used = {}
    /\ free \cup other \cup used = Frames
    /\ Cardinality(used) = Cardinality({u \in VPN : Mapped(u)})

\* L1/L2: what the process reads is what it last stored or what exec gave
\* it, however its pages are evicted, swapped and faulted back in.
\* Only the pages below p->sz are part of the process's memory.
VM == INSTANCE VirtualMemory WITH
        Pages <- VPN \ {stack_top},
        WritablePages <- {v \in VPN \ {stack_top} : Writable(v)},
        StoreContents <- {Written(x) : x \in Values},
        InitMem <- [v \in VPN \ {stack_top} |-> ExecMem[v]],
        mem <- [v \in VPN \ {stack_top} |-> View(v)],
        dead <- status \in {"killed", "exited"}

MemoryRefinement == VM!Spec

=============================================================================
