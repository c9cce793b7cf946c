--------------------------- MODULE MCToolThreads ---------------------------
(* Instances of ToolThreads for TLC.                                        *)
EXTENDS ToolThreads

CONSTANTS first, second
=============================================================================
