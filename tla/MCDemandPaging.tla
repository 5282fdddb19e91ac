--------------------------- MODULE MCDemandPaging ---------------------------
(***************************************************************************)
(* Instantiates DemandPaging for TLC, with the program of MCLazyPaging:   *)
(* text pages 0-1, data page 2, guard page 3, stack page 4, stack_top 5.   *)
(***************************************************************************)
EXTENDS DemandPaging

MC_TEXT_PAGES == 2
MC_DATA_PAGES == 1
MC_USERSTACK  == 1

\* Room for every page of UVA with one sbrk page: the table never fills.
MC_TABLE_ROOMY == 7
\* Room for what exec registers (pages 0-2 and the stack page) only.
MC_TABLE_EXEC_ONLY == 4

MC_SWAP_SLOTS == 2
MC_FRAMES     == 3
MC_VALUES     == {1}
MC_SEQ_BOUND  == 6

\* With exec calls, three faults or execs after the first exec: enough to
\* evict and retry before and after an exec.
MC_SEQ_BOUND_EXEC == 4

\* With sbrk, four faults after exec: with frames held by other CPUs that
\* is enough to swap a page out and back in, or to fault on the page sbrk
\* grants after two evictions.  One sbrk page makes page 5 (stack_top) a
\* heap page and leaves page 6 above p->sz.
MC_SEQ_BOUND_SBRK == 5
MC_SBRK_PAGES == 1
=============================================================================
