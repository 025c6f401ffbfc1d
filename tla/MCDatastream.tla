----------------------------- MODULE MCDatastream -----------------------------
(***************************************************************************)
(* Addresses of three bits: lengths of half the address space and more,    *)
(* and cursors that wrap, all within a few calls.                          *)
(***************************************************************************)
EXTENDS Datastream
=============================================================================
