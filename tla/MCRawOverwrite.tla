--------------------------- MODULE MCRawOverwrite ---------------------------
(* Sizes up to 9 bytes, sectors of 1 or 2 and of 1 to 4 bytes, chunks of up *)
(* to 6, and each of them zero once.                                        *)
EXTENDS RawOverwrite

MCGeometries ==
    [expected : 0 .. 9, size : 0 .. 9, logical : 0 .. 2, physical : 0 .. 4,
     chunk : 0 .. 6]
=============================================================================
