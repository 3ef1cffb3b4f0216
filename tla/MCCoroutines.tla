---------------------------- MODULE MCCoroutines ----------------------------
(* Instance of Coroutines for TLC: four coroutines, so that two may keep the  *)
(* control between them while others wait, and a slot may be used again.      *)
EXTENDS Coroutines
=============================================================================
