------------------------------ MODULE MCSession ------------------------------
(* The instance of Session and its sound that the MCSession*.cfg files     *)
(* describe: a queue of two samples, frames of one or two, and three       *)
(* volumes.                                                                *)
EXTENDS SessionSound
==============================================================================
