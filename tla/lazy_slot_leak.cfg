CONSTANTS
    TEXT_PAGES <- MC_TEXT_PAGES
    DATA_PAGES <- MC_DATA_PAGES
    USERSTACK <- MC_USERSTACK
    MAX_PROC_PAGES <- MC_TABLE_NO_COLLISION
    MAX_SWAP_SLOTS <- MC_SWAP_SLOTS_TIGHT
    NFRAMES <- MC_FRAMES
    Values <- MC_VALUES
    SEQ_BOUND <- MC_SEQ_BOUND
    SYSCALL_FAULTS = FALSE
    NoFrame = NoFrame

SPECIFICATION Spec


INVARIANT SwapAccounting
