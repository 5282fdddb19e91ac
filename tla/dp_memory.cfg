\* demand_paging.c with the swap file exec.c would create and lazy sbrk:
\* accounting, frames, descriptor/page-table agreement and FIFO order.
CONSTANTS
    TEXT_PAGES <- MC_TEXT_PAGES
    DATA_PAGES <- MC_DATA_PAGES
    USERSTACK <- MC_USERSTACK
    MAX_PROC_PAGES <- MC_TABLE_ROOMY
    SWAP_SLOTS <- MC_SWAP_SLOTS
    NFRAMES <- MC_FRAMES
    Values <- MC_VALUES
    SEQ_BOUND <- MC_SEQ_BOUND_SBRK
    SWAPFILE_AT_EXEC = TRUE
    PARTIAL_DATA = FALSE
    EXEC_CALLS = FALSE
    SBRK_PAGES <- MC_SBRK_PAGES
    NoFrame = NoFrame
SPECIFICATION Spec
INVARIANT TypeOK
INVARIANT SwapAccounting
INVARIANT FramesConserved
INVARIANT TrackedResidency
INVARIANT MemStatAccurate
PROPERTY FifoEviction
