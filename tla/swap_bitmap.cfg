CONSTANTS
    NSLOTS <- MC_NSLOTS
    LAZY_WIDTHS = {64}
    DP_WIDTHS = {32, 64}
    FREEABLE <- MC_FREEABLE
SPECIFICATION Spec
INVARIANT TypeOK
PROPERTY LazyImplementsSpec DpImplementsSpec
