----------------------------- MODULE OamContract -----------------------------
(***************************************************************************)
(* What OAM DMA promises a game: a page asked for is copied by a transfer  *)
(* that hides the OAM, and the OAM comes back only as the whole copy.      *)
(***************************************************************************)
EXTENDS Integers

CONSTANTS
  OamSize, Pages, EchoPage, EchoOffset   (* As in OamDma.                *)

VARIABLES
  visible,   (* The OAM as the game sees it: the origin of every byte.   *)
  copying,   (* The page the last transfer to start copies.              *)
  asked      (* The page a new transfer is asked for, or NoPage.         *)

vars == <<visible, copying, asked>>

Bytes   == 0 .. OamSize - 1
Program == -1
Hidden  == -2   (* What the game reads of a hidden byte.                 *)
NoPage  == -1   (* No transfer is asked for.                             *)

HiddenOam == [byte \in Bytes |-> Hidden]

CopyOf(page) ==
  [byte \in Bytes |-> IF page >= EchoPage THEN page - EchoOffset ELSE page]

Init ==
  /\ visible = [byte \in Bytes |-> Program]
  /\ copying = 0
  /\ asked = NoPage

Write ==
  /\ visible # HiddenOam
  /\ \E byte \in Bytes : visible' = [visible EXCEPT ![byte] = Program]
  /\ UNCHANGED <<copying, asked>>

Ask ==
  /\ asked = NoPage
  /\ asked' \in Pages
  /\ UNCHANGED <<visible, copying>>

(* Also while another transfer runs, which is given up. *)
Begin ==
  /\ asked # NoPage
  /\ copying' = asked
  /\ asked' = NoPage
  /\ visible' = HiddenOam

Finish ==
  /\ visible = HiddenOam
  /\ asked = NoPage
  /\ visible' = CopyOf(copying)
  /\ UNCHANGED <<copying, asked>>

Next == Write \/ Ask \/ Begin \/ Finish

Spec == Init /\ [][Next]_vars
==============================================================================
