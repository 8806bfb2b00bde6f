---------------------------- MODULE MCHeapAllocator ----------------------------
(* An instance of HeapAllocator for TLC, in which a page is eight alignment   *)
(* units and a header two, where the kernel has 256 and two.                  *)
EXTENDS HeapAllocator

\* Nothing, the smallest area, one that leaves no room for another block, a
\* whole page less its header, and one that needs two pages.
SomeSizes == {0, 1, 6, 12, 14}

=============================================================================
