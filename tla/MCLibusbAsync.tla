---------------------------- MODULE MCLibusbAsync ----------------------------
(* The instance of LibusbAsync that TLC checks: two events fall due together. *)
EXTENDS LibusbAsync

EventTimes == <<1, 1>>

=============================================================================
