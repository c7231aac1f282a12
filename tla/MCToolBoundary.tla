--------------------------- MODULE MCToolBoundary ---------------------------
(* One plugin instance for TLC. *)
EXTENDS ToolBoundary

=============================================================================
