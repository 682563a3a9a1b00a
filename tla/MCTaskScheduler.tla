-------------------------- MODULE MCTaskScheduler --------------------------
(* TaskScheduler for TLC.                                                    *)
EXTENDS TaskScheduler

=============================================================================
