-------------------------- MODULE MC_ILGenerator --------------------------
\* A few branches over code of sizes around the reach of a byte, with numbers of 4
\* and 8 bytes scaled down to 17 and 19 bits, for TLC.
EXTENDS ILGenerator, TLC

CONSTANTS a, b, c, d, int, pointer

Interchangeable == Permutations({a, b}) \cup Permutations({c, d}) \cup Permutations({int, pointer})

Numbers ==
    [load : {"ld_i4"}, value : {-65536, -128, -127, -1, 9, 127, 128, 65535}]
    \cup [load : {"ld_u4"}, value : {131071}]
    \cup [load : {"ld_i8"}, value : {-262144}]
    \cup [load : {"ld_i"}, value : {65535, 131071, 131072, 524287}]
    \cup [load : {"ld_loc", "ld_loca"}, value : {256}]
=============================================================================
