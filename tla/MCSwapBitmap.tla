---------------------------- MODULE MCSwapBitmap ----------------------------
EXTENDS SwapBitmap

\* 66 slots reach the last bit of a 32-bit word (31), the first slot past
\* it (32), and the 63/64 boundary of lazy.c's 64-bit words.
MC_NSLOTS == 66
\* Frees at every word boundary, plus the two out-of-range arguments.
MC_FREEABLE == {-1, 0, 31, 32, 33, 63, 64, 66}
=============================================================================
