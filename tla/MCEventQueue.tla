---------------------------- MODULE MCEventQueue ----------------------------
(***************************************************************************)
(* Instances of EventQueue for TLC. A second of three "milliseconds" makes *)
(* every case of the carry (below, at and above MsPerSec) happen within a  *)
(* few ticks.                                                              *)
(***************************************************************************)
EXTENDS EventQueue

MCDelays == {2, 3}

MCEosSizes == {4, 6}

=============================================================================
