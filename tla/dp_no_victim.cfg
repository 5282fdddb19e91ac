\* demand_paging.c as built: page 0 as the FIFO victim reads as no victim.
CONSTANTS
    TEXT_PAGES <- MC_TEXT_PAGES
    DATA_PAGES <- MC_DATA_PAGES
    USERSTACK <- MC_USERSTACK
    MAX_PROC_PAGES <- MC_TABLE_ROOMY
    SWAP_SLOTS <- MC_SWAP_SLOTS
    NFRAMES <- MC_FRAMES
    Values <- MC_VALUES
    SEQ_BOUND <- MC_SEQ_BOUND
    SWAPFILE_AT_EXEC = FALSE
    PARTIAL_DATA = FALSE
    EXEC_CALLS = FALSE
    SBRK_PAGES = 0
    NoFrame = NoFrame
SPECIFICATION Spec
PROPERTY NoVictimOnlyWhenNoneResident
