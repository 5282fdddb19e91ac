---------------------------- MODULE DemandPaging ----------------------------
(***************************************************************************)
(* The demand-paging core of kernel/demand_paging.c (Variant A of the     *)
(* spec), for one process, from the state kexec (kernel/exec.c) leaves it *)
(* in.                                                                     *)
(*                                                                         *)
(* Unlike lazy.c, descriptors are content-addressed: get_page_info looks   *)
(* up p->pages[0..num_pages) by va and appends a new descriptor while the  *)
(* table has room, so pages is a sequence whose length is num_pages.       *)
(* Every page is mapped read-only on first touch; a store to it traps     *)
(* into handle_write_fault, which marks it dirty and adds PTE_W (the set  *)
(* wr of pages mapped writable).  Eviction swaps out dirty pages and       *)
(* discards clean ones.                                                    *)
(*                                                                         *)
(* The trap handler that dispatches to handle_page_fault and               *)
(* handle_write_fault is not part of the repository; it is modelled as the *)
(* spec (section 4.8) describes, and a -1 from either kills the process.   *)
(***************************************************************************)
EXTENDS Integers, Sequences, FiniteSets, FiniteSetsExt, ExecLayout

CONSTANTS
    MAX_PROC_PAGES,    \* capacity of p->pages[]
    SWAP_SLOTS,        \* slots alloc_swap_slot scans (1024 in the code)
    NFRAMES,           \* physical frames in the machine
    Values,            \* values a user store may write
    SEQ_BOUND,         \* model bound on next_fifo_seq (faults per behaviour)
    SWAPFILE_AT_EXEC,  \* TRUE: the create_swap_file call exec.c disables
    PARTIAL_DATA,      \* TRUE: the ELF file's data bytes end inside the last data page
    EXEC_CALLS,        \* TRUE: the running program may call exec again
    SBRK_PAGES,        \* model bound: pages lazy sbrk may add above the exec-time p->sz
    NoFrame            \* model value: no mapping for the page

ASSUME MAX_PROC_PAGES \in Nat \ {0} /\ SWAP_SLOTS \in Nat \ {0}
ASSUME NFRAMES \in Nat \ {0} /\ SEQ_BOUND \in Nat /\ SBRK_PAGES \in Nat
ASSUME SWAPFILE_AT_EXEC \in BOOLEAN /\ PARTIAL_DATA \in BOOLEAN /\ EXEC_CALLS \in BOOLEAN

VARIABLES
    pages,              \* p->pages[0..num_pages)
    sz,                 \* p->sz in pages, rounded up
    exec_off,           \* exec_off[k]: p->exec_off[k-1] > 0 (a page to read from the ELF file)
    next_fifo_seq,      \* p->next_fifo_seq
    bitmap,             \* the set bits of p->swap_slot_bitmap
    num_swapped_pages,  \* p->num_swapped_pages
    swapfile,           \* p->swapfile # 0
    swap,               \* swap[s]: contents of slot s of the swap file
    pt,                 \* pt[v]: frame the page table maps page v to
    wr,                 \* pages whose PTE has PTE_W
    fmem,               \* fmem[f]: contents of physical frame f
    free,               \* frames on the kalloc free list
    other,              \* frames held by the rest of the system
    status,             \* "user" | "retry" | "killed" | "exited"
    pending,            \* the fault waiting for its kalloc retry
    killed_by,          \* history: why the process was killed
    order               \* history: mapped pages, in the order they were mapped

vars == <<pages, sz, exec_off, next_fifo_seq, bitmap, num_swapped_pages, swapfile, swap,
          pt, wr, fmem, free, other, status, pending, killed_by, order>>

UNMAPPED == 0
RESIDENT == 1
SWAPPED  == 2

\* A full page read from the file at the last data page's offset: the
\* data bytes, then whatever the file holds after them.
Overread(v) == <<"overread", v>>

NoFault   == [va |-> 0, write |-> FALSE]
Frames    == 1..NFRAMES
SwapSlots == 0..(SWAP_SLOTS - 1)
TableIdx  == 1..MAX_PROC_PAGES
\* Every page p->sz can reach, and the first page above that.
UVA       == 0..(stack_top + SBRK_PAGES)

(***************************************************************************)
(* get_page_info: find the descriptor of va, or append one while there is *)
(* room.  Find gives its index, 0 for none (a null pointer).               *)
(***************************************************************************)
NewPageInfo(v) ==
    [va |-> v, state |-> UNMAPPED, is_dirty |-> FALSE, seq |-> -1, swap_slot |-> -1]

Find(ps, v) ==
    IF \E i \in 1..Len(ps) : ps[i].va = v
    THEN CHOOSE i \in 1..Len(ps) : ps[i].va = v
    ELSE 0

LookupOrCreate(ps, v) ==
    IF Find(ps, v) # 0 \/ Len(ps) >= MAX_PROC_PAGES THEN ps
    ELSE Append(ps, NewPageInfo(v))

(***************************************************************************)
(* kexec: num_pages is reset, so get_page_info appends afresh; the segment *)
(* pages are registered in address order, each with a positive exec_off   *)
(* (every page of the model's segments has file bytes), then the eager    *)
(* stack page enters RESIDENT with seq = next_fifo_seq++.  What does not  *)
(* fit in the table is left unregistered.                                 *)
(***************************************************************************)
SegReg == [k \in 1..Min({MAX_PROC_PAGES, prog_end}) |-> NewPageInfo(k - 1)]

SegExecOff == [k \in TableIdx |-> k \in DOMAIN SegReg]

KexecPages(seq) ==
    IF Len(SegReg) < MAX_PROC_PAGES
    THEN Append(SegReg, [NewPageInfo(stackbase) EXCEPT !.state = RESIDENT, !.seq = seq])
    ELSE SegReg

\* next_fifo_seq after the stack page took seq.
KexecSeq(seq) == IF Len(SegReg) < MAX_PROC_PAGES THEN seq + 1 ELSE seq

\* create_swap_file as kexec would call it with the call at exec.c:227-231
\* enabled: the file is open afterwards, or create or filealloc failed and
\* p->swapfile is left as it was.  An existing /pgswpPID is reopened, so
\* the slots' contents survive.
CreateSwapFile(open) == IF SWAPFILE_AT_EXEC THEN {TRUE, open} ELSE {open}

\* demand_paging_init, then kexec.
Init ==
    /\ pages = KexecPages(0)
    /\ sz = stack_top
    /\ exec_off = SegExecOff
    /\ next_fifo_seq = KexecSeq(0)
    /\ bitmap = {}
    /\ num_swapped_pages = 0
    /\ swapfile \in CreateSwapFile(FALSE)
    /\ swap = [s \in SwapSlots |-> Zero]
    /\ pt = [v \in UVA |-> IF v = stackbase THEN 1 ELSE NoFrame]
    /\ wr = {stackbase}
    /\ fmem = [f \in Frames |-> IF f = 1 THEN Argv ELSE Junk]
    /\ free = Frames \ {1}
    /\ other = {}
    /\ status = "user"
    /\ pending = NoFault
    /\ killed_by = "none"
    /\ order = <<stackbase>>

Mapped(v) == pt[v] # NoFrame

\* The ELF bytes a page of the exec range reads: PGSIZE bytes at the
\* exec_off of its descriptor when that is positive, nothing (zeros)
\* otherwise.
ExecContent(ps, v) ==
    IF Find(ps, v) = 0 \/ ~exec_off[Find(ps, v)] THEN Zero
    ELSE IF PARTIAL_DATA /\ DATA_PAGES > 0 /\ v = prog_end - 1 THEN Overread(v)
    ELSE Image(v)

\* The classification of handle_page_fault, in the code's order.
Cause(ps, v) ==
    LET d == Find(ps, v) IN
    IF d # 0 /\ ps[d].state = SWAPPED THEN "swap"
    ELSE IF v >= text_start /\ v < data_end THEN "exec"
    ELSE IF v >= heap_start /\ v < sz THEN "heap"
    ELSE IF v < stack_top /\ v >= stack_top - 2 THEN "stack"
    ELSE "unknown"

Kill(ps, why) ==
    /\ pages' = ps
    /\ status' = "killed"
    /\ killed_by' = why
    /\ UNCHANGED <<sz, exec_off, next_fifo_seq, bitmap, num_swapped_pages, swapfile, swap,
                   pt, wr, fmem, free, other, pending, order>>

(***************************************************************************)
(* Swap slots: alloc_swap_slot and free_swap_slot.                         *)
(***************************************************************************)
\* Faulty variant: the scan runs one slot past the end (i <= 1024).
AllocSwapSlotPastEnd ==
    IF (0..SWAP_SLOTS) \subseteq bitmap THEN -1 ELSE Min((0..SWAP_SLOTS) \ bitmap)

AllocSwapSlot ==
    IF SwapSlots \subseteq bitmap THEN -1 ELSE Min(SwapSlots \ bitmap)

\* Faulty variant: the range check rejects slot 0 (slot <= 0).
FreeSwapSlotSkipsZero(slot) ==
    IF slot =< 0 \/ slot >= SWAP_SLOTS THEN bitmap ELSE bitmap \ {slot}

FreeSwapSlot(slot) ==
    IF slot < 0 \/ slot >= SWAP_SLOTS THEN bitmap ELSE bitmap \ {slot}
(***************************************************************************)
(* find_fifo_victim: the va of the resident descriptor with the smallest  *)
(* seq, the first one on a tie; 0 when there is none.                      *)
(***************************************************************************)
ResidentIn(ps) == {i \in 1..Len(ps) : ps[i].state = RESIDENT}

\* Faulty variant: the comparison reversed, the newest page is the victim.
FindFifoVictimNewest(ps) ==
    IF ResidentIn(ps) = {} THEN 0
    ELSE LET i == CHOOSE i \in ResidentIn(ps) :
                      \A j \in ResidentIn(ps) : ps[i].seq >= ps[j].seq
         IN ps[i].va

FindFifoVictim(ps) ==
    IF ResidentIn(ps) = {} THEN 0
    ELSE LET i == CHOOSE i \in ResidentIn(ps) :
                      \A j \in ResidentIn(ps) : \/ ps[i].seq < ps[j].seq
                                                \/ ps[i].seq = ps[j].seq /\ i =< j
         IN ps[i].va

\* *pte = 0; kfree(pa): the frame goes back to the free list as junk.
\* Faulty variant: the PTE is cleared but the frame is never kfree'd.
UnmapAndFreeLeaks(va) ==
    /\ pt' = [pt EXCEPT ![va] = NoFrame]
    /\ wr' = wr \ {va}
    /\ order' = SelectSeq(order, LAMBDA x : x # va)
    /\ UNCHANGED <<free, fmem>>

UnmapAndFree(va) ==
    /\ pt' = [pt EXCEPT ![va] = NoFrame]
    /\ wr' = wr \ {va}
    /\ free' = free \cup {pt[va]}
    /\ fmem' = [fmem EXCEPT ![pt[va]] = Junk]
    /\ order' = SelectSeq(order, LAMBDA x : x # va)

\* swap_out_page once the swap file and the slot are there: write the
\* frame to the slot, mark the descriptor SWAPPED.
SwapOutPage(ps, i, slot) ==
    LET va == ps[i].va IN
    /\ swap' = [swap EXCEPT ![slot] = fmem[pt[va]]]
    /\ bitmap' = bitmap \cup {slot}
    /\ pages' = [ps EXCEPT ![i].state = SWAPPED, ![i].swap_slot = slot]
    /\ num_swapped_pages' = num_swapped_pages + 1

\* The clean branch of evict_page: only the state changes.
\* Faulty variant: the clean branch forgets to mark the descriptor.
DiscardPageKeepsState(ps, i) ==
    /\ pages' = ps
    /\ UNCHANGED <<swap, bitmap, num_swapped_pages>>

DiscardPage(ps, i) ==
    /\ pages' = [ps EXCEPT ![i].state = UNMAPPED]
    /\ UNCHANGED <<swap, bitmap, num_swapped_pages>>

\* handle_page_fault found kalloc empty: pick a victim and evict it; on
\* success the fault goes on to retry kalloc.  Every -1 kills.
EvictForFault(ps, f) ==
    LET vva == FindFifoVictim(ps)
        i   == Find(ps, vva)
    IN
    IF vva = 0 THEN Kill(ps, "no_victim")
    ELSE IF i = 0 \/ ps[i].state # RESIDENT \/ ~Mapped(vva)
    THEN Kill(ps, "evict")
    ELSE IF ps[i].is_dirty /\ (~swapfile \/ AllocSwapSlot < 0)
    THEN Kill(ps, "evict")
    ELSE /\ IF ps[i].is_dirty THEN SwapOutPage(ps, i, AllocSwapSlot)
                              ELSE DiscardPage(ps, i)
         /\ UnmapAndFree(vva)
         /\ status' = "retry"
         /\ pending' = f
         /\ UNCHANGED <<sz, exec_off, next_fifo_seq, swapfile, other, killed_by>>

(***************************************************************************)
(* The rest of handle_page_fault once it holds frame fr: swap in, load    *)
(* from the executable or zero-fill, update the descriptor if there is    *)
(* one, and map the page read-only.                                        *)
(***************************************************************************)
\* The descriptor update shared by the exec and heap/stack paths; with no
\* descriptor (a full table) nothing is recorded and no seq is used.
MarkResident(ps, d) ==
    IF d = 0 THEN ps
    ELSE [ps EXCEPT ![d].state = RESIDENT, ![d].seq = next_fifo_seq,
                    ![d].is_dirty = FALSE]

MapReadOnly(v, fr, c) ==
    /\ free' = free \ {fr}
    /\ fmem' = [fmem EXCEPT ![fr] = c]
    /\ pt' = [pt EXCEPT ![v] = fr]
    /\ order' = Append(order, v)
    /\ UNCHANGED wr

SwapInPage(ps, d, v, fr) ==
    LET slot == ps[d].swap_slot IN
    IF ~swapfile \/ slot < 0
    THEN \* swap_in_page returns -1: kfree(mem) puts the frame back as the
         \* junk it was, and the process is killed
         Kill(ps, "swap_in")
    ELSE /\ MapReadOnly(v, fr, swap[slot])
         /\ bitmap' = FreeSwapSlot(slot)
         /\ pages' = [ps EXCEPT ![d].swap_slot = -1, ![d].state = RESIDENT,
                                ![d].seq = next_fifo_seq, ![d].is_dirty = FALSE]
         /\ num_swapped_pages' = IF num_swapped_pages > 0 THEN num_swapped_pages - 1
                                                          ELSE num_swapped_pages
         /\ next_fifo_seq' = next_fifo_seq + 1
         /\ status' = "user"
         /\ pending' = NoFault
         /\ UNCHANGED <<sz, exec_off, swapfile, swap, other, killed_by>>

LoadPage(ps, d, v, fr) ==
    /\ MapReadOnly(v, fr, IF Cause(ps, v) = "exec" THEN ExecContent(ps, v) ELSE Zero)
    /\ pages' = MarkResident(ps, d)
    /\ next_fifo_seq' = IF d = 0 THEN next_fifo_seq ELSE next_fifo_seq + 1
    /\ status' = "user"
    /\ pending' = NoFault
    /\ UNCHANGED <<sz, exec_off, bitmap, num_swapped_pages, swapfile, swap, other, killed_by>>

Materialise(ps, f, fr) ==
    LET d == Find(ps, f.va) IN
    IF Cause(ps, f.va) = "swap" THEN SwapInPage(ps, d, f.va, fr)
                                ELSE LoadPage(ps, d, f.va, fr)

(***************************************************************************)
(* Actions.                                                                *)
(***************************************************************************)
\* A user store that hits a writable mapping.
UserStore(v, x) ==
    /\ status = "user"
    /\ Mapped(v) /\ v \in wr
    /\ fmem' = [fmem EXCEPT ![pt[v]] = Written(x)]
    /\ UNCHANGED <<sz, exec_off, pages, next_fifo_seq, bitmap, num_swapped_pages, swapfile,
                   swap, pt, wr, free, other, status, pending, killed_by, order>>

\* handle_page_fault(p, v, write) for a load or store to an unmapped page,
\* up to the first kalloc.  get_page_info runs before the validity check.
HandlePageFault(v, write) ==
    LET ps == LookupOrCreate(pages, v)
        f  == [va |-> v, write |-> write]
    IN
    /\ status = "user"
    /\ next_fifo_seq < SEQ_BOUND
    /\ ~Mapped(v)
    /\ IF Cause(ps, v) = "unknown" THEN Kill(ps, "invalid")
       ELSE IF free # {} THEN \E fr \in free : Materialise(ps, f, fr)
       ELSE EvictForFault(ps, f)

\* The kalloc retried after evict_page; -1 if it still fails.
Retry ==
    /\ status = "retry"
    /\ IF free # {} THEN \E fr \in free : Materialise(pages, pending, fr)
                    ELSE Kill(pages, "memfull")

\* handle_write_fault(p, v) for a store to a mapped read-only page outside
\* the text.
HandleWriteFault(v) ==
    LET ps == LookupOrCreate(pages, v)
        d  == Find(ps, v)
    IN
    /\ status = "user"
    /\ Mapped(v) /\ v \notin wr /\ ~InText(v)
    /\ IF d = 0 \/ ps[d].state # RESIDENT THEN Kill(ps, "write_fault")
       ELSE /\ pages' = [ps EXCEPT ![d].is_dirty = TRUE]
            /\ wr' = wr \cup {v}
            /\ UNCHANGED <<sz, exec_off, next_fifo_seq, bitmap, num_swapped_pages, swapfile,
                           swap, pt, fmem, free, other, status, pending,
                           killed_by, order>>

\* A store to a mapped text page is a permission violation (spec 4.7).
TextStore(v) ==
    /\ status = "user"
    /\ Mapped(v) /\ InText(v)
    /\ Kill(pages, "text_store")

\* sys_sbrk(n, SBRK_LAZY) for n > 0: p->sz grows by n, which the model
\* counts in whole pages, and no frame is allocated.  The overflow test
\* addr + n < addr cannot fire below MAXVA.  The eager and shrinking
\* branches call growproc, which is not in the repository.
SysSbrk ==
    /\ status = "user"
    /\ sz < stack_top + SBRK_PAGES
    /\ sz' = sz + 1
    /\ UNCHANGED <<pages, exec_off, next_fifo_seq, bitmap, num_swapped_pages, swapfile,
                   swap, pt, wr, fmem, free, other, status, pending, killed_by, order>>

(***************************************************************************)
(* kexec called by the running program.  Before anything can fail it      *)
(* clears exec_off/exec_len and num_pages (exec.c:49-54), and it never    *)
(* resets the rest of the paging state: the swap bitmap, num_swapped_pages,*)
(* next_fifo_seq and the swap file carry over into the new image.         *)
(***************************************************************************)
\* namei, the ELF header or proc_pagetable fails: -1, the old image runs on.
ExecFailsEarly ==
    /\ pages' = <<>>
    /\ exec_off' = [k \in TableIdx |-> FALSE]
    /\ UNCHANGED <<sz, next_fifo_seq, bitmap, num_swapped_pages, swapfile, swap,
                   pt, wr, fmem, free, other, status, pending, killed_by, order>>

\* The segments are registered, then kalloc for the stack page finds no
\* frame (exec does not evict): the new page table is freed, -1.
ExecNoStackFrame ==
    /\ free = {}
    /\ pages' = SegReg
    /\ exec_off' = SegExecOff
    /\ UNCHANGED <<sz, next_fifo_seq, bitmap, num_swapped_pages, swapfile, swap,
                   pt, wr, fmem, free, other, status, pending, killed_by, order>>

\* Faulty variant: the old page table is freed with size 0, so none of
\* the old image's frames goes back to kalloc.
ExecCommitsKeepsOld ==
    \E fr \in free :
        /\ pages' = KexecPages(next_fifo_seq)
        /\ sz' = stack_top
        /\ exec_off' = SegExecOff
        /\ next_fifo_seq' = KexecSeq(next_fifo_seq)
        /\ pt' = [v \in UVA |-> IF v = stackbase THEN fr ELSE NoFrame]
        /\ wr' = {stackbase}
        /\ free' = free \ {fr}
        /\ fmem' = [fmem EXCEPT ![fr] = Argv]
        /\ order' = <<stackbase>>
        /\ swapfile' \in CreateSwapFile(swapfile)
        /\ UNCHANGED <<bitmap, num_swapped_pages, swap, other, status,
                       pending, killed_by>>

\* The new image is committed: the stack frame holds argv and is mapped
\* writable, and proc_freepagetable returns every frame of the old image.
ExecCommits ==
    LET used == {pt[v] : v \in {u \in UVA : Mapped(u)}} IN
    \E fr \in free :
        /\ pages' = KexecPages(next_fifo_seq)
        /\ sz' = stack_top
        /\ exec_off' = SegExecOff
        /\ next_fifo_seq' = KexecSeq(next_fifo_seq)
        /\ pt' = [v \in UVA |-> IF v = stackbase THEN fr ELSE NoFrame]
        /\ wr' = {stackbase}
        /\ free' = (free \ {fr}) \cup used
        /\ fmem' = [g \in Frames |-> IF g = fr THEN Argv
                                     ELSE IF g \in used THEN Junk ELSE fmem[g]]
        /\ order' = <<stackbase>>
        /\ swapfile' \in CreateSwapFile(swapfile)
        /\ UNCHANGED <<bitmap, num_swapped_pages, swap, other, status,
                       pending, killed_by>>

Exec ==
    /\ EXEC_CALLS
    /\ status = "user"
    /\ next_fifo_seq < SEQ_BOUND
    /\ \/ ExecFailsEarly
       \/ ExecNoStackFrame
       \/ ExecCommits

OtherAlloc ==
    /\ \E fr \in free : /\ free' = free \ {fr}
                        /\ other' = other \cup {fr}
    /\ UNCHANGED <<sz, exec_off, pages, next_fifo_seq, bitmap, num_swapped_pages, swapfile,
                   swap, pt, wr, fmem, status, pending, killed_by, order>>

OtherFree ==
    /\ \E fr \in other : /\ other' = other \ {fr}
                         /\ free' = free \cup {fr}
    /\ UNCHANGED <<sz, exec_off, pages, next_fifo_seq, bitmap, num_swapped_pages, swapfile,
                   swap, pt, wr, fmem, status, pending, killed_by, order>>

\* Teardown: delete_swap_file closes the swap file, and freeing the page
\* table returns every mapped frame.
Exit ==
    LET used == {pt[v] : v \in {u \in UVA : Mapped(u)}} IN
    /\ status = "killed"
    /\ status' = "exited"
    /\ swapfile' = FALSE
    /\ free' = free \cup used
    /\ fmem' = [fr \in Frames |-> IF fr \in used THEN Junk ELSE fmem[fr]]
    /\ pt' = [v \in UVA |-> NoFrame]
    /\ wr' = {}
    /\ order' = <<>>
    /\ UNCHANGED <<sz, exec_off, pages, next_fifo_seq, bitmap, num_swapped_pages, swap,
                   other, pending, killed_by>>

Next ==
    \/ \E v \in UVA, x \in Values : UserStore(v, x)
    \/ \E v \in UVA, w \in BOOLEAN : HandlePageFault(v, w)
    \/ \E v \in UVA : HandleWriteFault(v)
    \/ \E v \in UVA : TextStore(v)
    \/ Retry
    \/ SysSbrk
    \/ Exec
    \/ OtherAlloc
    \/ OtherFree
    \/ Exit

Spec == Init /\ [][Next]_vars

(***************************************************************************)
(* Properties.                                                             *)
(***************************************************************************)
Contents == {Zero, Argv, Junk} \cup {Image(v) : v \in UVA} \cup {Overread(v) : v \in UVA}
                \cup {Written(x) : x \in Values}

PageInfo == [va : UVA, state : {UNMAPPED, RESIDENT, SWAPPED}, is_dirty : BOOLEAN,
             seq : -1..SEQ_BOUND, swap_slot : -1..(SWAP_SLOTS - 1)]

Reasons == {"none", "invalid", "no_victim", "evict", "memfull", "swap_in",
            "write_fault", "text_store"}

TypeOK ==
    /\ pages \in Seq(PageInfo) /\ Len(pages) =< MAX_PROC_PAGES
    /\ sz \in stack_top..(stack_top + SBRK_PAGES)
    /\ exec_off \in [TableIdx -> BOOLEAN]
    /\ next_fifo_seq \in 0..SEQ_BOUND
    /\ bitmap \subseteq SwapSlots
    /\ num_swapped_pages \in 0..SWAP_SLOTS
    /\ swapfile \in BOOLEAN
    /\ swap \in [SwapSlots -> Contents]
    /\ pt \in [UVA -> Frames \cup {NoFrame}]
    /\ wr \subseteq UVA
    /\ fmem \in [Frames -> Contents]
    /\ free \subseteq Frames /\ other \subseteq Frames
    /\ status \in {"user", "retry", "killed", "exited"}
    /\ killed_by \in Reasons

\* I6/I7: the swap bitmap holds exactly the slots of the SWAPPED
\* descriptors, one slot each, and num_swapped_pages counts them.
SwapAccounting ==
    LET sw == {i \in 1..Len(pages) : pages[i].state = SWAPPED} IN
    /\ bitmap = {pages[i].swap_slot : i \in sw}
    /\ Cardinality(bitmap) = Cardinality(sw)
    /\ num_swapped_pages = Cardinality(sw)

\* L4 and no leak: every frame is on the free list, held by the rest of
\* the system, or mapped by exactly one page of this process.
FramesConserved ==
    LET used == {pt[v] : v \in {u \in UVA : Mapped(u)}} IN
    /\ free \cap other = {}
    /\ free \cap used = {}
    /\ other \cap used = {}
    /\ free \cup other \cup used = Frames
    /\ Cardinality(used) = Cardinality({u \in UVA : Mapped(u)})

\* I1-I3 while the process runs: a page is mapped exactly when it has a
\* RESIDENT descriptor, so every resident page takes part in FIFO
\* replacement and a full table ends the process (spec section 7).
TrackedResidency ==
    status \in {"user", "retry"} =>
        /\ \A v \in UVA : Mapped(v) =>
               \E i \in 1..Len(pages) : pages[i].va = v /\ pages[i].state = RESIDENT
        /\ \A i \in 1..Len(pages) : pages[i].state = RESIDENT => Mapped(pages[i].va)

MS == INSTANCE Introspection

\* Spec 4.9: the counts memstat reports to a running process are its
\* resident pages and its swapped pages.
MemStatAccurate ==
    LET r == MS!SysMemstat([i \in 0..(Len(pages) - 1) |-> pages[i + 1]],
                           Len(pages), sz, next_fifo_seq)
    IN
    status = "user" =>
        /\ r.num_resident_pages = Cardinality({v \in UVA : Mapped(v)})
        /\ r.num_swapped_pages = num_swapped_pages

\* What the user would see in page v if it touched it now.
View(v) ==
    LET d == Find(pages, v) IN
    IF Mapped(v) THEN fmem[pt[v]]
    ELSE IF d # 0 /\ pages[d].state = SWAPPED THEN swap[pages[d].swap_slot]
    ELSE IF Cause(pages, v) = "exec" THEN ExecContent(pages, v)
    ELSE Zero

\* The pages p->sz may come to cover: those below stack_top, and those
\* sbrk may add.  A page sbrk has not yet granted reads as zeros.
UserPages == UVA \ {stack_top + SBRK_PAGES}

\* L1/L2: what the process reads is what it last stored or what exec gave
\* it, however its pages are discarded, swapped and faulted back in.
VM == INSTANCE VirtualMemory WITH
        Pages <- UserPages,
        WritablePages <- {v \in UserPages : ~InText(v)},
        StoreContents <- {Written(x) : x \in Values},
        InitMem <- [v \in UserPages |-> IF v \in VPN THEN ExecMem[v] ELSE Zero],
        mem <- [v \in UserPages |-> View(v)],
        dead <- status \in {"killed", "exited"}

MemoryRefinement == VM!Spec

\* L3: an eviction (the step of a fault into its kalloc retry) unmaps the
\* page that has been mapped longest.
FifoEviction ==
    [][status = "user" /\ status' = "retry" =>
         \A v \in UVA : Mapped(v) /\ ~Mapped(v)' => v = Head(order)]_vars

\* Spec 4.6/7: a fault gives up for want of a victim only when no
\* descriptor is resident (find_fifo_victim's 0 and the test at 400).
NoVictimOnlyWhenNoneResident ==
    [][killed_by' = "no_victim" /\ killed_by = "none" => ResidentIn(pages) = {}]_vars
=============================================================================
