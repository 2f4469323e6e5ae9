--------------------------- MODULE MCSandboxPool ---------------------------
(* Small instances of SandboxPool.                                         *)
EXTENDS SandboxPool
=============================================================================
