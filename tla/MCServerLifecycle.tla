--------------------------- MODULE MCServerLifecycle ---------------------------
(* A process with few descriptors, for TLC. *)
EXTENDS ServerLifecycle

FewDescriptors == 0 .. 2
==============================================================================
