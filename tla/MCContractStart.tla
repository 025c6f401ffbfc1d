--------------------------- MODULE MCContractStart ---------------------------
(***************************************************************************)
(* Two objects, the allocator, another member of the default archives and  *)
(* one of a library of -l, with every dependency between them; a stack of  *)
(* two bytes and two sizes of static data in pages of four bytes.          *)
(***************************************************************************)
EXTENDS ContractStart

CONSTANTS user1, user2, malloc, new, lib

MCObjects == <<user1, user2>>
MCMembers == {malloc, new, lib}
MCLate == <<lib>>
MCDataSizes == {1, 3}
MCHeapBases == {3, 5}
MCSizes == {3, 11}        \* the second is more than the engine gives
=============================================================================
