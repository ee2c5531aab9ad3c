---------------------------- MODULE MCTrainServer ----------------------------
(***************************************************************************)
(* Few slots, and more clients than slots.                                  *)
(***************************************************************************)
EXTENDS TrainServer
=============================================================================
