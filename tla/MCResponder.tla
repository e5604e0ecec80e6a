----------------------------- MODULE MCResponder -----------------------------
(***************************************************************************)
(* Instances of Responder for TLC: one writable and one invisible          *)
(* property, two values, and transaction ids up to MaxTid.                 *)
(***************************************************************************)
EXTENDS Responder

CONSTANTS rw, hidden

MCProps == {rw, hidden}

MCInvisible == {hidden}

==============================================================================
