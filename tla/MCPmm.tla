------------------------------- MODULE MCPmm -------------------------------
(* 16 pages with every bit in the bitmap, 13 pages of which 5 are outside    *)
(* it, and a machine too small for one bitmap byte.                          *)
EXTENDS Pmm

MCMemoryMaps == {<<7, 58>>, <<7, 47>>, <<6, 8>>}
=============================================================================
