------------------------------ MODULE Responder ------------------------------
(***************************************************************************)
(* The transaction engine of a virtual camera (vcamera.c, ops.c): the      *)
(* initiator writes PTP containers to the bulk-out buffer in chunks of its *)
(* own choosing, vcam_process_output cuts containers off the buffer and    *)
(* calls the opcode's handlers, and the handlers append data and response  *)
(* containers to the bulk-in buffer, which the initiator reads back.       *)
(*                                                                         *)
(* Buffers are counted in 4-byte words. A cell of the bulk-out buffer is   *)
(* the k-th word of a container.                                           *)
(*                                                                         *)
(* The initiator is synchronous, as PTP requires: it sends the command     *)
(* container, then the data container if the operation has one (without    *)
(* looking at the bulk-in buffer first, as libgphoto2 does), then waits    *)
(* for the response.                                                       *)
(***************************************************************************)
EXTENDS Integers, Sequences

CONSTANTS
    Props,          \* registered device properties
    InvisibleProps, \* those with GetSet = PTP_AC_Invisible
    UnknownProp,    \* a property code that is not registered
    Values,         \* property values, all of the property's own size
    Empty,          \* an empty data phase
    NoData,         \* no data phase
    NoReq,          \* no transaction under way
    MaxTid,         \* bound: largest transaction id of either side
    Careless        \* the initiator also sends data-out operations that must
                    \* fail: without a session, with two parameters, or with
                    \* an opcode that takes no data

ASSUME ConstantsAssumption ==
    /\ InvisibleProps \subseteq Props
    /\ UnknownProp \notin Props
    /\ Values # {}
    /\ Empty \notin Values
    /\ NoData \notin Values \cup {Empty}
    /\ MaxTid \in Nat
    /\ Careless \in BOOLEAN

VARIABLES
    outbulk,    \* cam->outbulk[0 .. nroutbulk): cells
    inbulk,     \* cam->inbulk: data and response containers
    seqnr,      \* cam->seqnr
    session,    \* cam->session, 0 when closed
    ptpcmd,     \* cam->ptpcmd: the last command container dispatched
    props,      \* current property values
    req,        \* the initiator's current request, NoReq when idle
    wire,       \* cells the initiator still has to write
    unsent,     \* TRUE while the request's data container is not on the wire
    nexttid,    \* the initiator's transaction counter
    got,        \* data container read in this transaction, or NoData
    ran         \* history: containers dispatched or refused in this transaction

cam == <<outbulk, inbulk, seqnr, session, ptpcmd, props, ran>>
initiator == <<req, wire, unsent, nexttid, got>>
vars == <<cam, initiator>>

-----------------------------------------------------------------------------
(* Containers *)

DataOps == {"SetDevicePropValue", "BEEF"}

\* Opcodes with a handler; "Unregistered" stands for any other 0x1xxx/0x9xxx
\* opcode, "Malformed" for a container with a bad type, opcode range, size or
\* parameter count, "Short" for one whose size field is below 12.
Ops == DataOps \cup {"GetDeviceInfo", "OpenSession", "CloseSession",
                     "GetDevicePropValue", "Unregistered", "Malformed", "Short"}

Words(pkt) ==
    IF pkt.op = "Short" THEN 2
    ELSE IF pkt.type = "CMD" THEN 3 + Len(pkt.params)
    ELSE IF pkt.data = Empty THEN 3 ELSE 4

Cells(pkt) == [k \in 1 .. Words(pkt) |-> [pkt |-> pkt, k |-> k]]

Cmd(r) == [type |-> "CMD", op |-> r.op, tid |-> r.tid,
           params |-> r.params, data |-> NoData]

Data(r) == [type |-> "DATA", op |-> r.op, tid |-> r.tid,
            params |-> <<>>, data |-> r.data]

\* The containers of a request, in the order the initiator sends them.
Phases(r) == IF r.data = NoData THEN <<Cmd(r)>> ELSE <<Cmd(r), Data(r)>>

-----------------------------------------------------------------------------
(* Answering: ptp_senddata and ptp_response stamp cam->seqnr, and only the  *)
(* response advances it.                                                    *)

Resp(code, tid) == [type |-> "RESP", code |-> code, tid |-> tid]

DataIn(value, tid) == [type |-> "DATA", value |-> value, tid |-> tid]

ptp_response(code) ==
    /\ inbulk' = Append(inbulk, Resp(code, seqnr))
    /\ seqnr' = seqnr + 1

Refuse(code) == ptp_response(code) /\ UNCHANGED <<session, props>>

ptp_senddata_response(value) ==
    /\ inbulk' = inbulk \o <<DataIn(value, seqnr), Resp("OK", seqnr)>>
    /\ seqnr' = seqnr + 1
    /\ UNCHANGED <<session, props>>

\* A handler that leaves the answer to the data phase.
AwaitData == UNCHANGED <<inbulk, seqnr, session, props>>

-----------------------------------------------------------------------------
(* Command-phase handlers *)

ptp_deviceinfo_write(c) ==
    IF c.params # <<>> THEN Refuse("GeneralError")
                       ELSE ptp_senddata_response(NoData)

ptp_opensession_write(c) ==
    IF Len(c.params) # 1 THEN Refuse("GeneralError")
    ELSE IF c.params = <<0>> THEN Refuse("InvalidParameter")
    ELSE /\ seqnr' = c.tid + 1
         /\ inbulk' = Append(inbulk,
               Resp(IF session # 0 THEN "SessionAlreadyOpened" ELSE "OK", c.tid))
         /\ session' = IF session # 0 THEN session ELSE c.params[1]
         /\ UNCHANGED props

\* Mutant: the session survives.
closesession_keeps_session(c) ==
    IF c.params # <<>> THEN Refuse("GeneralError")
    ELSE IF session = 0 THEN Refuse("SessionAlreadyOpened")
    ELSE Refuse("OK")

ptp_closesession_write(c) ==
    IF c.params # <<>> THEN Refuse("GeneralError")
    ELSE IF session = 0 THEN Refuse("SessionAlreadyOpened")
    ELSE /\ session' = 0
         /\ inbulk' = Append(inbulk, Resp("OK", seqnr))
         /\ seqnr' = 1
         /\ UNCHANGED props

ptp_getdevicepropvalue_write(c) ==
    IF session = 0 THEN Refuse("SessionNotOpen")
    ELSE IF Len(c.params) # 1 THEN Refuse("GeneralError")
    ELSE IF c.params[1] \notin Props \ InvisibleProps
      THEN Refuse("DevicePropNotSupported")
    ELSE ptp_senddata_response(props[c.params[1]])

ptp_setdevicepropvalue_write(c) ==
    IF session = 0 THEN Refuse("SessionNotOpen")
    ELSE IF Len(c.params) # 1 THEN Refuse("GeneralError")
    ELSE IF c.params[1] \notin Props THEN Refuse("DevicePropNotSupported")
    ELSE AwaitData

ptp_vusb_write(c) == IF session = 0 THEN Refuse("SessionNotOpen") ELSE AwaitData

-----------------------------------------------------------------------------
(* Data-phase handlers: they work on cam->ptpcmd, not on the container that *)
(* brought the data.                                                        *)

\* Mutant: an unknown property is answered again in the data phase.
setprop_data_answers_unknown(data) ==
    IF session = 0 THEN Refuse("SessionNotOpen")
    ELSE IF Len(ptpcmd.params) # 1 THEN Refuse("GeneralError")
    ELSE IF ptpcmd.params[1] \notin Props THEN Refuse("DevicePropNotSupported")
    ELSE IF ptpcmd.params[1] \in InvisibleProps THEN Refuse("OK")
    ELSE IF data = Empty THEN Refuse("GeneralError")
    ELSE /\ props' = [props EXCEPT ![ptpcmd.params[1]] = data]
         /\ ptp_response("OK")
         /\ UNCHANGED session

\* Mutant: a write to an invisible property is dropped without an answer.
setprop_data_drops_invisible(data) ==
    IF session = 0 THEN Refuse("SessionNotOpen")
    ELSE IF Len(ptpcmd.params) # 1 THEN Refuse("GeneralError")
    ELSE IF ptpcmd.params[1] \notin Props \ InvisibleProps THEN AwaitData
    ELSE IF data = Empty THEN Refuse("GeneralError")
    ELSE /\ props' = [props EXCEPT ![ptpcmd.params[1]] = data]
         /\ ptp_response("OK")
         /\ UNCHANGED session

ptp_setdevicepropvalue_write_data(data) ==
    IF session = 0 THEN Refuse("SessionNotOpen")
    ELSE IF Len(ptpcmd.params) # 1 THEN Refuse("GeneralError")
    ELSE IF ptpcmd.params[1] \notin Props THEN AwaitData
    ELSE IF ptpcmd.params[1] \in InvisibleProps THEN Refuse("OK")
    ELSE IF data = Empty THEN Refuse("GeneralError")
    ELSE /\ props' = [props EXCEPT ![ptpcmd.params[1]] = data]
         /\ ptp_response("OK")
         /\ UNCHANGED session

\* The checksum parameter either matches the data or does not.
ptp_vusb_write_data(data) ==
    IF ptpcmd.params = <<data>> THEN Refuse("OK") ELSE Refuse("GeneralError")

-----------------------------------------------------------------------------
(* vcam_process_output *)

CommandHandler(c) ==
    CASE c.op = "GetDeviceInfo"      -> ptp_deviceinfo_write(c)
      [] c.op = "OpenSession"        -> ptp_opensession_write(c)
      [] c.op = "CloseSession"       -> ptp_closesession_write(c)
      [] c.op = "GetDevicePropValue" -> ptp_getdevicepropvalue_write(c)
      [] c.op = "SetDevicePropValue" -> ptp_setdevicepropvalue_write(c)
      [] c.op = "BEEF"               -> ptp_vusb_write(c)
      [] OTHER                       -> Refuse("OperationNotSupported")

DataHandler(d) ==
    CASE d.op = "SetDevicePropValue" -> ptp_setdevicepropvalue_write_data(d.data)
      [] d.op = "BEEF"               -> ptp_vusb_write_data(d.data)
      [] d.op = "Unregistered"       -> Refuse("OperationNotSupported")
      [] OTHER                       -> Refuse("GeneralError")

\* A container that fails the checks is answered with GeneralError and cut off
\* the front of the buffer.
RefuseContainer(buf, pkt) ==
    /\ pkt.op \in {"Short", "Malformed"}
    /\ outbulk' = SubSeq(buf, Words(pkt) + 1, Len(buf))
    /\ Refuse("GeneralError")
    /\ UNCHANGED ptpcmd

\* A container that passes them is not moved out of the buffer: only nroutbulk
\* shrinks, so whatever followed it is what gets lost. The command is kept for
\* its data phase when it has a handler.
Dispatch(buf, pkt) ==
    /\ pkt.op \notin {"Short", "Malformed"}
    /\ outbulk' = SubSeq(buf, 1, Len(buf) - Words(pkt))
    /\ \/ /\ pkt.type = "CMD"
          /\ CommandHandler(pkt)
          /\ ptpcmd' = IF pkt.op = "Unregistered" THEN ptpcmd ELSE pkt
       \/ /\ pkt.type = "DATA"
          /\ DataHandler(pkt)
          /\ UNCHANGED ptpcmd

vcam_process_output(buf) ==
    LET pkt == buf[1].pkt
    IN  \/ /\ Words(pkt) > Len(buf)
           /\ outbulk' = buf
           /\ UNCHANGED <<inbulk, seqnr, session, ptpcmd, props, ran>>
        \/ /\ Words(pkt) <= Len(buf)
           /\ RefuseContainer(buf, pkt) \/ Dispatch(buf, pkt)
           /\ ran' = Append(ran, pkt)

\* One bulk-out transfer of n words.
vcam_write(n) ==
    /\ n <= Len(wire)
    /\ wire' = SubSeq(wire, n + 1, Len(wire))
    /\ vcam_process_output(outbulk \o SubSeq(wire, 1, n))
    /\ UNCHANGED <<req, unsent, nexttid, got>>

-----------------------------------------------------------------------------
(* The initiator *)

DataPhases == Values \cup {Empty}

PropCodes == Props \cup {UnknownProp}

\* Requests by operation, parameters and data phase.
CarefulRequests ==
    [op : {"GetDeviceInfo", "CloseSession", "Unregistered", "Malformed", "Short"},
     params : {<<>>}, data : {NoData}]
    \cup [op : {"OpenSession"}, params : {<<0>>, <<1>>}, data : {NoData}]
    \cup [op : {"GetDevicePropValue"}, params : {<<p>> : p \in PropCodes},
          data : {NoData}]

DataRequests ==
    [op : {"SetDevicePropValue"}, params : {<<p>> : p \in PropCodes},
     data : DataPhases]
    \cup [op : {"BEEF"}, params : {<<v>> : v \in Values}, data : Values]

CarelessRequests ==
    DataRequests
    \cup [op : {"SetDevicePropValue"}, params : {<<p, p>> : p \in Props},
          data : Values]
    \cup [op : {"GetDeviceInfo", "Unregistered"}, params : {<<>>}, data : Values]

Requests ==
    CarefulRequests
    \cup (IF session # 0 THEN DataRequests ELSE {})
    \cup (IF Careless THEN CarelessRequests ELSE {})

\* Outside a session transaction ids are 0; a valid OpenSession restarts them.
Opens(r) == r.op = "OpenSession" /\ r.params = <<1>>

TidFor(r) == IF session = 0 \/ Opens(r) THEN 0 ELSE nexttid

Request(r) ==
    /\ req = NoReq
    /\ TidFor(r) <= MaxTid
    /\ Opens(r) \/ seqnr <= MaxTid
    /\ LET q == [op |-> r.op, params |-> r.params, data |-> r.data,
                 tid |-> TidFor(r)]
       IN  /\ req' = q
           /\ wire' = Cells(Cmd(q))
    /\ unsent' = (r.data # NoData)
    /\ nexttid' = TidFor(r) + 1
    /\ ran' = <<>>
    /\ UNCHANGED <<outbulk, inbulk, seqnr, session, ptpcmd, props, got>>

SendData ==
    /\ unsent
    /\ wire = <<>>
    /\ wire' = Cells(Data(req))
    /\ unsent' = FALSE
    /\ UNCHANGED <<cam, req, nexttid, got>>

AllSent == req # NoReq /\ wire = <<>> /\ ~unsent

\* Reading the next container; a response ends the transaction.
vcam_read ==
    /\ AllSent
    /\ inbulk # <<>>
    /\ inbulk' = Tail(inbulk)
    /\ \/ /\ inbulk[1].type = "DATA"
          /\ got' = inbulk[1]
          /\ UNCHANGED req
       \/ /\ inbulk[1].type = "RESP"
          /\ got' = NoData
          /\ req' = NoReq
    /\ UNCHANGED <<outbulk, seqnr, session, ptpcmd, props, ran, wire, unsent, nexttid>>

-----------------------------------------------------------------------------

Init ==
    /\ outbulk = <<>>
    /\ inbulk = <<>>
    /\ seqnr = 0
    /\ session = 0
    /\ ptpcmd = [type |-> "CMD", op |-> "none", tid |-> 0, params |-> <<>>,
                 data |-> NoData]
    /\ props \in [Props -> Values]
    /\ req = NoReq
    /\ wire = <<>>
    /\ unsent = FALSE
    /\ nexttid = 0
    /\ got = NoData
    /\ ran = <<>>

Write == \E n \in 1 .. Len(wire) : vcam_write(n)

Next ==
    \/ \E r \in Requests : Request(r)
    \/ Write
    \/ SendData
    \/ vcam_read

\* An initiator that has begun a transaction goes through with it.
Fairness == WF_vars(Write) /\ WF_vars(SendData) /\ WF_vars(vcam_read)

Spec == Init /\ [][Next]_vars /\ Fairness

-----------------------------------------------------------------------------
(* Properties *)

Params == PropCodes \cup Values \cup {0, 1}

Packet == [type : {"CMD", "DATA"}, op : Ops \cup {"none"}, tid : Nat,
           params : Seq(Params), data : DataPhases \cup {NoData}]

Cell == [pkt : Packet, k : 1 .. 5]

InValue == Values \cup {NoData}

Codes == {"OK", "GeneralError", "InvalidParameter", "SessionNotOpen",
          "SessionAlreadyOpened", "DevicePropNotSupported",
          "OperationNotSupported"}

Container == [type : {"DATA"}, value : InValue, tid : Nat]
             \cup [type : {"RESP"}, code : Codes, tid : Nat]

Req == [op : Ops, params : Seq(Params), data : DataPhases \cup {NoData}, tid : Nat]

\* A request as PtpServer sees it.
AnyCall == [op : Ops, tid : 0 .. MaxTid, data : DataPhases \cup {NoData},
            arg : Params \cup {NoData}]

\* The markers for "none" are none of the values they stand beside.
ASSUME MarkersAssumption ==
    /\ NoReq \notin Req
    /\ NoReq \notin AnyCall
    /\ NoData \notin Container
    /\ NoData \notin [ok : BOOLEAN, tid : Nat, value : InValue]

\* Every variable keeps its type; in particular a property always holds a value
\* of its own size, never the empty data phase of a client.
TypeOK ==
    /\ outbulk \in Seq(Cell)
    /\ inbulk \in Seq(Container)
    /\ seqnr \in Nat
    /\ session \in {0, 1}
    /\ ptpcmd \in Packet
    /\ props \in [Props -> Values]
    /\ req \in Req \cup {NoReq}
    /\ wire \in Seq(Cell)
    /\ unsent \in BOOLEAN
    /\ nexttid \in Nat
    /\ got \in Container \cup {NoData}
    /\ ran \in Seq(Packet)

\* One response per transaction: when the initiator has read a response, no
\* second one and no rest of a container is left in the buffers. The engine
\* answers from two handlers (command and data phase), and exactly one of them
\* must answer whatever the property, the data and the session.
InSync == req = NoReq => inbulk = <<>> /\ outbulk = <<>>

\* However the initiator cuts its containers into bulk transfers, once all is
\* written each container of the request was handled, once and in order.
SentIsHandled == AllSent => ran = Phases(req)

\* While a session is open, every container the camera sends carries the
\* transaction id of the request, although the camera stamps its own counter
\* and never reads the id of any request but OpenSession.
TidMatches ==
    session # 0 /\ req # NoReq =>
        \A i \in DOMAIN inbulk : inbulk[i].tid = req.tid

\* Every transaction ends: no handler pair leaves both the initiator and the
\* camera waiting. "The transaction must still complete with a response or the
\* whole pipeline desynchronizes" (ops.c, SetDevicePropValue).
TransactionCompletes == (req # NoReq) ~> (req = NoReq)

\* Refinement mapping: a call is answered as soon as its response is in the
\* bulk-in buffer; the data container may already have been read.
Responses == {i \in DOMAIN inbulk : inbulk[i].type = "RESP"}

DataSeen == {inbulk[i].value : i \in DOMAIN inbulk \ Responses}
            \cup (IF got = NoData THEN {} ELSE {got.value})

AbstractCall ==
    IF req = NoReq THEN NoReq
    ELSE [op |-> req.op, tid |-> req.tid, data |-> req.data,
          arg |-> IF req.params = <<>> THEN NoData ELSE req.params[1]]

AbstractAnswer ==
    IF req = NoReq \/ Responses = {} THEN NoData
    ELSE LET r == inbulk[CHOOSE i \in Responses : TRUE]
         IN  [ok |-> r.code = "OK", tid |-> r.tid,
              value |-> IF DataSeen = {} THEN NoData
                        ELSE CHOOSE v \in DataSeen : TRUE]

Server == INSTANCE PtpServer WITH
    Calls <- AnyCall,
    Settable <- Props \ InvisibleProps,
    Tids <- 0 .. MaxTid,
    NoCall <- NoReq, NoAnswer <- NoData, NoValue <- NoData,
    session <- session # 0, call <- AbstractCall, answer <- AbstractAnswer

\* The engine with its buffers, two-phase handlers and transaction counter
\* implements the atomic server of PtpServer.
ImplementsServer == Server!Spec

\* The bulk pipeline at every moment: one response per transaction and nothing
\* left over, each container of a request handled once and in order however it
\* was cut, every answer stamped with the request's transaction id, and every
\* property holding a whole value.
PipelineSound == TypeOK /\ InSync /\ SentIsHandled /\ TidMatches

=============================================================================
