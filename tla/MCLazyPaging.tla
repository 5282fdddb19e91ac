---------------------------- MODULE MCLazyPaging ----------------------------
(***************************************************************************)
(* Instantiates LazyPaging for TLC.  A program of two text pages and one   *)
(* data page; exec puts the guard page at 3, the stack page at 4 and       *)
(* stack_top at 5, so VPN = 0..5 and page 5 is the first page past p->sz.  *)
(***************************************************************************)
EXTENDS LazyPaging

MC_TEXT_PAGES == 2
MC_DATA_PAGES == 1
MC_USERSTACK  == 1

\* A program whose only PT_LOAD segment is executable.
MC_NO_DATA_PAGES == 0

\* A table as large as the address space: no two pages share a slot.
MC_TABLE_NO_COLLISION == 6
\* A table smaller than the program: page 3 shares slot 0 with page 0.
MC_TABLE_COLLIDING == 3

\* Two swap slots: enough for both non-text pages the model can dirty,
\* and one slot is enough to run the swap file out.
MC_SWAP_SLOTS == 2
MC_SWAP_SLOTS_TIGHT == 1

\* Three frames: the exec stack page plus two, so a third mapped page
\* forces an eviction, and the other CPUs can take the last free one.
MC_FRAMES == 3

MC_VALUES == {1}

\* Up to five faults after exec: enough to map, evict and refault each
\* page of the program at least once.
MC_SEQ_BOUND == 6
=============================================================================
