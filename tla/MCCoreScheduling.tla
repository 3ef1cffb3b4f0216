-------------------------- MODULE MCCoreScheduling --------------------------
(* Instances of CoreScheduling for TLC: two or three cores are enough for    *)
(* one that owns the application and one that only waits.                    *)
EXTENDS CoreScheduling
=============================================================================
