------------------------------ MODULE MCOamDma ------------------------------
(* The instance of OamDma that MCOamDma.cfg describes: an OAM of three     *)
(* bytes and three pages, the last of which is echoed.                     *)
EXTENDS OamDma
==============================================================================
