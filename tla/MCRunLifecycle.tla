---------------------------- MODULE MCRunLifecycle ----------------------------
(* Instances of RunLifecycle for TLC. *)
EXTENDS RunLifecycle, TLC

CONSTANTS h1, h2, h3, t1, t2, t3, r1, r2

OneCallEach == t1 :> h1 @@ t2 :> h2 @@ t3 :> h3

\* Two calls share a process.
TwoInOne == t1 :> h1 @@ t2 :> h2 @@ t3 :> h2

TwoProcesses == t1 :> h1 @@ t2 :> h2

=============================================================================
