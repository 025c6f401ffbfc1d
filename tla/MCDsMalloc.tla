----------------------------- MODULE MCDsMalloc -----------------------------
(***************************************************************************)
(* A 16-byte address space of four 4-byte pages with alignment 2, and      *)
(* every size the address space has: requests cross pages, wrap the        *)
(* cursor and wrap the product of calloc.                                  *)
(***************************************************************************)
EXTENDS DsMalloc

MCSizes == SizeT

\* Heaps that start in the middle of a page or just below its end.
MCInnerBases == {1, 2, 5, 6}

\* Heaps that start exactly at the end of the image as well.
MCAnyBases == {2, 3, 4, 5}
=============================================================================
