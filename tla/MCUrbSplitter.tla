---------------------------- MODULE MCUrbSplitter ----------------------------
(***************************************************************************)
(* Instances of UrbSplitter for TLC. Transfers of 1 to 4 words against     *)
(* containers of 3 and 5 words and packets of 2 words: shorter than,       *)
(* equal to and longer than a packet and than a container.                 *)
(***************************************************************************)
EXTENDS UrbSplitter

MCLens == 1 .. 4

MCDataLens == {3, 5}

MCGarbageLens == {1, 7}

==============================================================================
