---------------------------- MODULE MCAllocator -----------------------------
(* The allocator on small heaps: a header is 24 bytes of a block of 64, here *)
(* 3 of 8.  The sizes are numbers, given in the .cfg files.                  *)
EXTENDS MemoryAllocator
=============================================================================
