--------------------------- MODULE MCNativeLoader ---------------------------
(* One leftover and room for two copies: a class loader makes at most one. *)
EXTENDS NativeLoader

CONSTANTS d0, d1, d2

MCDirs   == {d0, d1, d2}
MCDebris == {d0}
============================================================================
