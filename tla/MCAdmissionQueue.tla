--------------------------- MODULE MCAdmissionQueue ---------------------------
(***************************************************************************)
(* Instances of AdmissionQueue for TLC.                                    *)
(***************************************************************************)
EXTENDS AdmissionQueue

CONSTANTS h1, h2

\* The clock of process h1 started one tick before that of h2: within a wait,
\* so that a deadline may pass on one clock and not yet on the other.
SkewedOrigin == [h \in Host |-> IF h = h1 THEN 1 ELSE 0]

=============================================================================
