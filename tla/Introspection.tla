---------------------------- MODULE Introspection ----------------------------
(***************************************************************************)
(* sys_memstat (kernel/sysproc.c): the snapshot of the page-info table a  *)
(* process can read about itself, as a function of its paging state.  The *)
(* system call only reads that state and copies the record out to the     *)
(* caller's buffer, so it is an operator the paging modules instantiate.   *)
(***************************************************************************)
EXTENDS Integers, FiniteSets

MAX_PAGES_INFO == 128   \* memstat.h
\* (uint)p->pages[i].va: the byte address cut to 32 bits, that is, with
\* PGSIZE 4096, the page number modulo 2^20 (as a page number).
StatVa(vpn) == vpn % 1048576

\* Page states as memstat.h numbers them.
StatRESIDENT == 1
StatSWAPPED  == 2

\* Faulty variant: the counting loop starts at slot 1.
SysMemstatSkipsFirst(tbl, num_pages, sz, next_fifo_seq) ==
    LET listed == {i \in DOMAIN tbl : 0 < i /\ i < num_pages /\ i < MAX_PAGES_INFO} IN
    [num_pages_total    |-> sz,
     num_resident_pages |-> Cardinality({i \in listed : tbl[i].state = StatRESIDENT}),
     num_swapped_pages  |-> Cardinality({i \in listed : tbl[i].state = StatSWAPPED}),
     next_fifo_seq      |-> next_fifo_seq,
     pages              |-> [i \in listed |-> [tbl[i] EXCEPT !.va = StatVa(@)]]]

\* tbl is p->pages[] indexed from 0 (va as a page number), num_pages is p->num_pages, sz is p->sz
\* in pages (so num_pages_total, rounded up, is sz itself).  Slots
\* [0, min(num_pages, MAX_PAGES_INFO)) are counted and copied.
SysMemstat(tbl, num_pages, sz, next_fifo_seq) ==
    LET listed == {i \in DOMAIN tbl : i < num_pages /\ i < MAX_PAGES_INFO} IN
    [num_pages_total    |-> sz,
     num_resident_pages |-> Cardinality({i \in listed : tbl[i].state = StatRESIDENT}),
     num_swapped_pages  |-> Cardinality({i \in listed : tbl[i].state = StatSWAPPED}),
     next_fifo_seq      |-> next_fifo_seq,
     pages              |-> [i \in listed |-> [tbl[i] EXCEPT !.va = StatVa(@)]]]
=============================================================================
