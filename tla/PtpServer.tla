------------------------------ MODULE PtpServer ------------------------------
(***************************************************************************)
(* What a PTP responder promises its initiator, without buffers, phases or *)
(* transaction counters: a call is answered by exactly one answer, the     *)
(* answer carries the call's transaction id while a session is open, and   *)
(* the call takes effect at once, when it is answered.                     *)
(***************************************************************************)
EXTENDS Naturals

CONSTANTS
    Calls,       \* what an initiator may ask: records with op, tid and arg
    Props,       \* the device properties
    Settable,    \* those a client can change
    Values,      \* property values
    Tids,        \* transaction ids
    NoCall,
    NoAnswer,
    NoValue

Answers == [ok : BOOLEAN, tid : Tids, value : Values \cup {NoValue}]

VARIABLES session, props, call, answer

vars == <<session, props, call, answer>>

Init ==
    /\ session = FALSE
    /\ props \in [Props -> Values]
    /\ call = NoCall
    /\ answer = NoAnswer

Call(c) ==
    /\ call = NoCall
    /\ call' = c
    /\ UNCHANGED <<session, props, answer>>

\* Everything but GetDeviceInfo and OpenSession needs a session.
Allowed(c) == session \/ c.op \in {"GetDeviceInfo", "OpenSession"}

\* The answer of an accepted call and its effect.
Effect(c, a) ==
    CASE c.op = "OpenSession" ->
            ~session /\ session' /\ UNCHANGED props
      [] c.op = "CloseSession" ->
            ~session' /\ UNCHANGED props
      [] c.op = "SetDevicePropValue" ->
            /\ c.arg \in Props
            /\ props' = IF c.arg \in Settable
                          THEN [props EXCEPT ![c.arg] = c.data] ELSE props
            /\ UNCHANGED session
      [] c.op = "GetDevicePropValue" ->
            /\ c.arg \in Props
            /\ a.value = props[c.arg]
            /\ UNCHANGED <<session, props>>
      [] OTHER -> UNCHANGED <<session, props>>

Serve(a) ==
    /\ call # NoCall
    /\ answer = NoAnswer
    /\ session => a.tid = call.tid
    /\ IF a.ok THEN Allowed(call) /\ Effect(call, a)
               ELSE call.op # "GetDeviceInfo" /\ UNCHANGED <<session, props>>
    /\ answer' = a
    /\ UNCHANGED call

Return ==
    /\ answer # NoAnswer
    /\ call' = NoCall
    /\ answer' = NoAnswer
    /\ UNCHANGED <<session, props>>

Next ==
    \/ \E c \in Calls : Call(c)
    \/ \E a \in Answers : Serve(a)
    \/ Return

Spec == Init /\ [][Next]_vars /\ WF_vars(\E a \in Answers : Serve(a))

==============================================================================
