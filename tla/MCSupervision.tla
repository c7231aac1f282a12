----------------------------- MODULE MCSupervision -----------------------------
(* Instances of Supervision for TLC: every write of the record may fail, or    *)
(* none, or those that tell a later reader of the trigger and the conclusion.  *)
EXTENDS Supervision

NoWrite == {}

LateWrites == {"trigger", "executionCompleted"}

=============================================================================
