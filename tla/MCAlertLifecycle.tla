-------------------------- MODULE MCAlertLifecycle --------------------------
(* Instances of AlertLifecycle for TLC: two interchangeable targets.       *)
EXTENDS AlertLifecycle, TLC

Interchangeable == Permutations(Target)

\* acked and ackedOf are read by no action, and by no property of the run.
WithoutConfirmations == <<environment, disk, running, mem, armed, writeFailed,
                advisoryLost, task, pinged, told, heard>>

=============================================================================
