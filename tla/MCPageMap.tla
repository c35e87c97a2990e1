----------------------------- MODULE MCPageMap ------------------------------
(* Tables of two descriptors and eight pages, so that there are two PDPTs  *)
(* and four page directories; the kernel in the pages 1 and 2; three pages *)
(* to map, in different directories, to an address that is not aligned,    *)
(* one with the highest bit of an int, and one beyond an int.              *)
EXTENDS PageMap

MCVirt == {PageSize, 3 * PageSize + 1, 7 * PageSize}
MCPhys == {3 * PageSize - 1, 2 ^ (IntBits - 1), 2 ^ IntBits + PageSize}
MCFlags == {{}, {"write", "noexec", "global"}}
=============================================================================
