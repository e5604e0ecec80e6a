--------------------------- MODULE ResponderProofs ---------------------------
(***************************************************************************)
(* Proofs about the transaction engine, for any properties, values and     *)
(* transaction ids, and for every way of cutting containers into bulk      *)
(* transfers; and about the two TCP servers that carry its containers, for *)
(* any number of connections and requests, however TCP cuts the packets.   *)
(***************************************************************************)
EXTENDS Responder, TcpBridge, SeqLemmas

-----------------------------------------------------------------------------
(* The inductive invariant *)

\* Types of what the phases below do not determine.
Base ==
    /\ inbulk \in Seq(Container)
    /\ seqnr \in Nat
    /\ session \in {0, 1}
    /\ ptpcmd \in Packet
    /\ props \in [Props -> Values]
    /\ unsent \in BOOLEAN
    /\ nexttid \in Nat
    /\ got \in Container \cup {NoData} /\ (got # NoData => got.value \in InValue)
    /\ ran \in Seq(Packet)

\* Requests as a careful initiator makes them.
Valid(q) ==
    /\ q \in Req
    /\ q.tid <= MaxTid
    /\ q.data # NoData <=> q.op \in DataOps
    /\ q.op = "BEEF" => q.data \in Values
    /\ Len(q.params) = IF q.op \in DataOps \cup {"OpenSession", "GetDevicePropValue"}
                         THEN 1 ELSE 0
    /\ q.op = "OpenSession" => q.params \in {<<0>>, <<1>>}
    /\ Opens(q) => q.tid = 0

\* Data is only sent within a session.
ReqInv == req # NoReq => Valid(req) /\ (req.op \in DataOps => session # 0)

\* A container on its way: a part in the bulk-out buffer, the rest unwritten.
InFlight(pkt) ==
    \E m \in 0 .. Words(pkt) - 1 :
        /\ outbulk = SubSeq(Cells(pkt), 1, m)
        /\ wire = SubSeq(Cells(pkt), m + 1, Words(pkt))

\* Exactly one response is waiting, behind the data if there is some.
ResponseReady ==
    \/ Len(inbulk) = 1 /\ inbulk[1].type = "RESP"
    \/ Len(inbulk) = 2 /\ inbulk[1].type = "DATA" /\ inbulk[2].type = "RESP"

\* The command phase has already answered: only for a property nobody has.
RefusedEarly(q) == q.op = "SetDevicePropValue" /\ q.params[1] \notin Props

Idle ==
    /\ req = NoReq
    /\ outbulk = <<>> /\ wire = <<>> /\ inbulk = <<>> /\ ~unsent /\ got = NoData

Commanding ==
    /\ req # NoReq
    /\ InFlight(Cmd(req))
    /\ ran = <<>> /\ inbulk = <<>> /\ got = NoData
    /\ unsent <=> req.data # NoData

\* The command of a data-out operation is handled, its data is not.
HalfDone ==
    /\ req # NoReq
    /\ req.data # NoData
    /\ ptpcmd = Cmd(req)
    /\ ran = <<Cmd(req)>> /\ got = NoData
    /\ IF RefusedEarly(req) THEN Len(inbulk) = 1 /\ inbulk[1].type = "RESP"
                            ELSE inbulk = <<>>

Between == HalfDone /\ unsent /\ outbulk = <<>> /\ wire = <<>>

Sending == HalfDone /\ ~unsent /\ InFlight(Data(req))

Done ==
    /\ req # NoReq
    /\ outbulk = <<>> /\ wire = <<>> /\ ~unsent
    /\ ran = Phases(req)
    /\ ResponseReady
    /\ Len(inbulk) = 2 => got = NoData

\* The camera's counter against the initiator's.
TidInv ==
    /\ req # NoReq => nexttid = req.tid + 1
    /\ req # NoReq /\ inbulk = <<>> => Opens(req) \/ seqnr <= MaxTid
    /\ session # 0 /\ req = NoReq => seqnr = nexttid
    /\ session # 0 /\ req # NoReq /\ inbulk = <<>> => Opens(req) \/ seqnr = req.tid
    /\ session # 0 /\ req # NoReq /\ inbulk # <<>> =>
          /\ seqnr = nexttid
          /\ \A i \in 1 .. Len(inbulk) : inbulk[i].tid = req.tid

Phase == Idle \/ Commanding \/ Between \/ Sending \/ Done

PipeInv == Base /\ ReqInv /\ TidInv /\ Phase

-----------------------------------------------------------------------------
(* Containers and their cells *)

\* Sequences of two.
LEMMA PairOfTwo ==
    ASSUME NEW S
    PROVE  /\ \A a, b \in S : Append(<<a>>, b) = <<a, b>> /\ <<a, b>> \in Seq(S)
           /\ \A s \in Seq(S) : Len(s) = 2 => Tail(s) = <<s[2]>>
<1>1. ASSUME NEW a \in S, NEW b \in S
      PROVE  Append(<<a>>, b) = <<a, b>> /\ <<a, b>> \in Seq(S)
  <2> DEFINE t == Append(<<a>>, b)
             u == <<a, b>>
  <2>1. t \in Seq(S) /\ Len(t) = 2 /\ t[1] = a /\ t[2] = b
    BY AppendProperties
  <2>2. u \in Seq(S) /\ Len(u) = 2 /\ u[1] = a /\ u[2] = b
    OBVIOUS
  <2> HIDE DEF t, u
  <2>3. \A i \in 1 .. 2 : t[i] = u[i]
    BY <2>1, <2>2
  <2>4. t = u
    BY <2>1, <2>2, <2>3, SeqEqual
  <2> QED BY <2>2, <2>4 DEF t, u
<1>2. ASSUME NEW s \in Seq(S), Len(s) = 2
      PROVE  Tail(s) = <<s[2]>>
  <2> DEFINE t == Tail(s)
             u == <<s[2]>>
  <2>1. t \in Seq(S) /\ Len(t) = 1 /\ t[1] = s[2]
    BY <1>2, HeadTailProperties
  <2>2. u \in Seq(S) /\ Len(u) = 1 /\ u[1] = s[2]
    BY <1>2
  <2> HIDE DEF t, u
  <2>3. t = u
    BY <2>1, <2>2, SeqEqual
  <2> QED BY <2>3 DEF t, u
<1> QED BY <1>1, <1>2

\* The containers of a valid request.
LEMMA RequestPackets ==
    ASSUME NEW q, Valid(q)
    PROVE  /\ Cmd(q) \in Packet
           /\ Cmd(q).type = "CMD" /\ Cmd(q).op = q.op /\ Cmd(q).tid = q.tid
           /\ Cmd(q).params = q.params
           /\ Words(Cmd(q)) \in 2 .. 4
           /\ Data(q) \in Packet
           /\ Data(q).type = "DATA" /\ Data(q).op = q.op /\ Data(q).data = q.data
           /\ q.data # NoData => Words(Data(q)) \in 3 .. 4
<1>1. /\ q.op \in Ops /\ q.params \in Seq(Params) /\ q.tid \in Nat
      /\ q.data \in DataPhases \cup {NoData} /\ Len(q.params) \in {0, 1}
      /\ q.data # NoData => q.op \in DataOps
  BY DEF Valid, Req
<1>2. /\ Cmd(q).type = "CMD" /\ Cmd(q).op = q.op /\ Cmd(q).tid = q.tid
      /\ Cmd(q).params = q.params /\ Cmd(q).data = NoData
      /\ Cmd(q) \in Packet
  BY <1>1 DEF Cmd, Packet
<1>3. Data(q) = [type |-> "DATA", op |-> q.op, tid |-> q.tid, params |-> <<>>,
                 data |-> q.data]
  BY DEF Data
<1>4. <<>> \in Seq(Params)
  OBVIOUS
<1>5. /\ Data(q) \in Packet /\ Data(q).type = "DATA" /\ Data(q).op = q.op
      /\ Data(q).data = q.data
  BY <1>1, <1>3, <1>4 DEF Packet
<1>6. Words(Cmd(q)) \in 2 .. 4
  <2>1. Words(Cmd(q)) = IF q.op = "Short" THEN 2 ELSE 3 + Len(q.params)
    BY <1>2 DEF Words
  <2>2. Len(q.params) \in {0, 1}
    BY <1>1
  <2>3. Words(Cmd(q)) \in {2, 3 + Len(q.params)}
    BY <2>1
  <2>4. \A w, k : k \in {0, 1} /\ w \in {2, 3 + k} => w \in 2 .. 4
    OBVIOUS
  <2> QED BY <2>2, <2>3, <2>4
<1>7. q.data # NoData => Words(Data(q)) \in 3 .. 4
  BY <1>1, <1>5 DEF Words, DataOps
<1> QED BY <1>2, <1>5, <1>6, <1>7

\* The cells of a container.
LEMMA CellsProperties ==
    ASSUME NEW pkt \in Packet, Words(pkt) \in 2 .. 4
    PROVE  /\ Cells(pkt) \in Seq(Cell)
           /\ Len(Cells(pkt)) = Words(pkt)
           /\ \A k \in 1 .. Words(pkt) : Cells(pkt)[k].pkt = pkt
<1>1. Cells(pkt) = [k \in 1 .. Words(pkt) |-> [pkt |-> pkt, k |-> k]]
  BY DEF Cells
<1>2. \A k \in 1 .. Words(pkt) : [pkt |-> pkt, k |-> k] \in Cell
  BY DEF Cell
<1>3. Cells(pkt) \in [1 .. Words(pkt) -> Cell]
  BY <1>1, <1>2
<1> QED BY <1>1, <1>3

\* Writing n words moves the border between buffer and wire; when the wire runs
\* empty the buffer holds the whole container and nothing else.
LEMMA Writing ==
    ASSUME NEW pkt \in Packet, Words(pkt) \in 2 .. 4, InFlight(pkt),
           NEW n \in 1 .. Len(wire)
    PROVE  LET buf == outbulk \o SubSeq(wire, 1, n)
               rest == SubSeq(wire, n + 1, Len(wire))
           IN  /\ buf[1].pkt = pkt
               /\ Len(buf) \in Nat
               /\ Words(pkt) <= Len(buf) => rest = <<>> /\ Len(buf) = Words(pkt)
               /\ Words(pkt) > Len(buf) =>
                     \E m \in 0 .. Words(pkt) - 1 :
                         /\ buf = SubSeq(Cells(pkt), 1, m)
                         /\ rest = SubSeq(Cells(pkt), m + 1, Words(pkt))
<1> DEFINE cs == Cells(pkt)
           W == Words(pkt)
<1>1. PICK m \in 0 .. W - 1 :
        outbulk = SubSeq(cs, 1, m) /\ wire = SubSeq(cs, m + 1, W)
  BY DEF InFlight
<1>2. cs \in Seq(Cell) /\ Len(cs) = W /\ W \in 2 .. 4
  BY CellsProperties
<1>3. \A k \in 1 .. W : cs[k].pkt = pkt
  BY CellsProperties
<1> HIDE DEF cs, W
<1>4. /\ outbulk \in Seq(Cell) /\ Len(outbulk) = m
      /\ \A k \in 1 .. m : outbulk[k] = cs[k]
  <2>1. 1 .. m \subseteq 1 .. Len(cs)
    BY <1>2
  <2> QED BY <1>1, <1>2, <2>1, SubSeqProperties
<1>5. /\ wire \in Seq(Cell) /\ Len(wire) = W - m
      /\ \A k \in 1 .. W - m : wire[k] = cs[m + k]
  <2>1. m + 1 .. W \subseteq 1 .. Len(cs)
    BY <1>2
  <2> QED BY <1>1, <1>2, <2>1, SubSeqProperties
<1> DEFINE head == SubSeq(wire, 1, n)
           rest == SubSeq(wire, n + 1, Len(wire))
           buf == outbulk \o head
<1>6. n \in 1 .. W - m
  BY <1>5
<1>7. /\ head \in Seq(Cell) /\ Len(head) = n
      /\ \A k \in 1 .. n : head[k] = cs[m + k]
  <2>1. 1 .. n \subseteq 1 .. Len(wire)
    BY <1>2, <1>5
  <2> QED BY <1>2, <1>5, <1>6, <2>1, SubSeqProperties
<1>8. /\ rest \in Seq(Cell) /\ Len(rest) = W - m - n
      /\ \A k \in 1 .. W - m - n : rest[k] = cs[m + n + k]
  <2>1. n + 1 .. Len(wire) \subseteq 1 .. Len(wire)
    BY <1>2, <1>5
  <2> QED BY <1>2, <1>5, <1>6, <2>1, SubSeqProperties
<1> HIDE DEF head, rest
<1>9. /\ buf \in Seq(Cell) /\ Len(buf) = m + n
      /\ \A k \in 1 .. m + n : buf[k] = cs[k]
  <2>1. /\ buf \in Seq(Cell) /\ Len(buf) = m + n
        /\ \A k \in 1 .. m + n : buf[k] = IF k <= m THEN outbulk[k] ELSE head[k - m]
    <3>1. /\ outbulk \in Seq(Cell) /\ Len(outbulk) = m
          /\ head \in Seq(Cell) /\ Len(head) = n
      BY <1>4, <1>7
    <3> QED BY <3>1, ConcatProperties
  <2> HIDE DEF buf
  <2> QED BY <1>2, <1>4, <1>6, <1>7, <2>1
<1> HIDE DEF buf
<1>10. buf[1].pkt = pkt
  BY <1>2, <1>3, <1>6, <1>9
<1>11. W <= Len(buf) => rest = <<>> /\ Len(buf) = W
  <2>1. W <= Len(buf) => Len(rest) = 0 /\ Len(buf) = W
    BY <1>2, <1>6, <1>8, <1>9
  <2>2. Len(rest) = 0 => rest = <<>>
    BY <1>8
  <2> QED BY <2>1, <2>2
<1>12. ASSUME W > Len(buf)
       PROVE  \E l \in 0 .. W - 1 : buf = SubSeq(cs, 1, l) /\ rest = SubSeq(cs, l + 1, W)
  <2> DEFINE l == m + n
             a == SubSeq(cs, 1, l)
             b == SubSeq(cs, l + 1, W)
  <2>1. l \in 0 .. W - 1 /\ l \in 1 .. W
    BY <1>2, <1>6, <1>9, <1>12
  <2>2. a \in Seq(Cell) /\ Len(a) = l /\ \A k \in 1 .. l : a[k] = cs[k]
    <3>1. 1 .. l \subseteq 1 .. Len(cs)
      BY <1>2, <2>1
    <3> HIDE DEF l
    <3> QED BY <1>2, <2>1, <3>1, SubSeqProperties
  <2>3. b \in Seq(Cell) /\ Len(b) = W - l /\ \A k \in 1 .. W - l : b[k] = cs[l + k]
    <3>1. l + 1 .. W \subseteq 1 .. Len(cs)
      BY <1>2, <2>1
    <3> HIDE DEF l
    <3> QED BY <1>2, <2>1, <3>1, SubSeqProperties
  <2> HIDE DEF a, b
  <2>4. buf = a
    BY <1>9, <2>1, <2>2, SeqEqual
  <2>5. rest = b
    BY <1>2, <1>8, <2>1, <2>3, SeqEqual
  <2> QED BY <2>1, <2>4, <2>5 DEF a, b
<1>13. Len(buf) \in Nat
  BY <1>9
<1> QED BY <1>10, <1>11, <1>12, <1>13, Zenon DEF buf, rest, head, cs, W

-----------------------------------------------------------------------------
(* Handlers *)

\* The answer to request q: one response, after the data of a query, stamped
\* with the camera's counter, and the effect the response code tells.
Reply(q, code, tid) ==
    /\ code \in Codes
    /\ tid = IF Opens(q) THEN q.tid ELSE seqnr
    /\ seqnr' = tid + 1 \/ (session' = 0 /\ seqnr' = 1)
    /\ session' \in {0, 1}
    /\ props' \in [Props -> Values]
    /\ \/ /\ inbulk' = <<Resp(code, tid)>>
          /\ code = "OK" => q.op # "GetDevicePropValue"
       \/ /\ code = "OK"
          /\ q.op \in {"GetDeviceInfo", "GetDevicePropValue"}
          /\ \E v \in InValue :
                /\ inbulk' = <<DataIn(v, tid), Resp(code, tid)>>
                /\ q.op = "GetDevicePropValue" =>
                      q.params[1] \in Props /\ v = props[q.params[1]]
    /\ code # "OK" => q.op # "GetDeviceInfo" /\ UNCHANGED <<session, props>>
    /\ code = "OK" =>
          /\ session # 0 \/ q.op \in {"GetDeviceInfo", "OpenSession"}
          /\ q.op = "OpenSession" =>
                Opens(q) /\ session = 0 /\ session' # 0 /\ props' = props
          /\ q.op = "CloseSession" => session' = 0 /\ props' = props
          /\ q.op = "SetDevicePropValue" =>
                /\ q.params[1] \in Props
                /\ props' = IF q.params[1] \in Props \ InvisibleProps
                              THEN [props EXCEPT ![q.params[1]] = q.data] ELSE props
                /\ session' = session
          /\ q.op \notin {"OpenSession", "CloseSession", "SetDevicePropValue"} =>
                UNCHANGED <<session, props>>

\* A refusal is a reply.
LEMMA RefuseReplies ==
    ASSUME Base, NEW q, ~Opens(q), inbulk = <<>>, NEW code \in Codes \ {"OK"},
           q.op # "GetDeviceInfo", Refuse(code)
    PROVE  Reply(q, code, seqnr)
<1>1. inbulk' = <<Resp(code, seqnr)>>
  BY DEF Refuse, ptp_response
<1>2. seqnr' = seqnr + 1 /\ UNCHANGED <<session, props>>
  BY DEF Refuse, ptp_response
<1> QED BY <1>1, <1>2 DEF Reply, Base

\* The two-container answer is a reply to a query.
LEMMA DataAnswered ==
    ASSUME Base, NEW q, ~Opens(q), inbulk = <<>>, NEW v \in InValue,
           q.op \in {"GetDeviceInfo", "GetDevicePropValue"},
           q.op = "GetDevicePropValue" =>
               session # 0 /\ q.params[1] \in Props /\ v = props[q.params[1]],
           ptp_senddata_response(v)
    PROVE  Reply(q, "OK", seqnr)
<1>1. inbulk' = <<DataIn(v, seqnr), Resp("OK", seqnr)>>
  BY DEF ptp_senddata_response
<1>2. seqnr' = seqnr + 1 /\ UNCHANGED <<session, props>>
  BY DEF ptp_senddata_response
<1>3. "OK" \in Codes
  BY DEF Codes
<1> QED BY <1>1, <1>2, <1>3 DEF Reply, Base

\* The command phase answers, or leaves it to the data phase of a data-out
\* operation that the camera can take.
LEMMA CommandAnswered ==
    ASSUME Base, NEW q, Valid(q), q.op \in DataOps => session # 0, inbulk = <<>>,
           q.op \notin {"Short", "Malformed"}, CommandHandler(Cmd(q))
    PROVE  IF q.op \in DataOps /\ ~RefusedEarly(q) THEN AwaitData
           ELSE \E code \in Codes :
                    Reply(q, code, IF Opens(q) THEN q.tid ELSE seqnr)
<1> DEFINE c == Cmd(q)
           t == IF Opens(q) THEN q.tid ELSE seqnr
<1>1. c.op = q.op /\ c.params = q.params /\ c.tid = q.tid
  BY RequestPackets
<1>2. q.op \in Ops \ {"Short", "Malformed"} /\ q.params \in Seq(Params)
      /\ q.tid \in Nat
  BY DEF Valid, Req
<1>3. "GeneralError" \in Codes \ {"OK"} /\ "InvalidParameter" \in Codes \ {"OK"}
      /\ "SessionNotOpen" \in Codes \ {"OK"} /\ "OK" \in Codes
      /\ "SessionAlreadyOpened" \in Codes \ {"OK"}
      /\ "DevicePropNotSupported" \in Codes \ {"OK"}
      /\ "OperationNotSupported" \in Codes \ {"OK"}
  BY DEF Codes
<1>4. q.op # "OpenSession" => ~Opens(q)
  BY DEF Opens
<1> HIDE DEF c
<1>5. CASE q.op = "GetDeviceInfo"
  <2>1. q.params = <<>>
    BY <1>2, <1>5 DEF Valid, DataOps
  <2>2. ptp_senddata_response(NoData)
    BY <1>1, <1>5, <2>1 DEF CommandHandler, ptp_deviceinfo_write, c
  <2>3. NoData \in InValue
    BY DEF InValue
  <2>4. Reply(q, "OK", seqnr)
    BY <1>4, <1>5, <2>2, <2>3, DataAnswered
  <2> QED BY <1>3, <1>4, <1>5, <2>4 DEF DataOps
<1>6. CASE q.op = "OpenSession"
  <2>1. ptp_opensession_write(c)
    BY <1>1, <1>6 DEF CommandHandler, c
  <2>2. Len(q.params) = 1 /\ q.params \in {<<0>>, <<1>>}
    BY <1>6 DEF Valid
  <2>3. CASE q.params = <<0>>
    <3>1. Refuse("InvalidParameter") /\ ~Opens(q)
      BY <1>1, <2>1, <2>2, <2>3 DEF ptp_opensession_write, Opens
    <3>2. Reply(q, "InvalidParameter", seqnr)
      BY <1>3, <1>6, <3>1, RefuseReplies
    <3> QED BY <1>3, <1>6, <3>1, <3>2 DEF DataOps
  <2>4. CASE q.params = <<1>>
    <3>1. Opens(q) /\ q.params # <<0>> /\ q.params[1] = 1
      BY <1>6, <2>4 DEF Opens
    <3> DEFINE code == IF session # 0 THEN "SessionAlreadyOpened" ELSE "OK"
    <3>2. /\ seqnr' = q.tid + 1
          /\ inbulk' = <<Resp(code, q.tid)>>
          /\ session' = IF session # 0 THEN session ELSE 1
          /\ props' = props
      BY <1>1, <2>1, <2>2, <3>1 DEF ptp_opensession_write
    <3>3. session \in {0, 1} /\ props \in [Props -> Values]
      BY DEF Base
    <3>4. CASE session # 0
      BY <1>3, <1>6, <3>1, <3>2, <3>3, <3>4 DEF Reply, DataOps
    <3>5. CASE session = 0
      BY <1>3, <1>6, <3>1, <3>2, <3>3, <3>5 DEF Reply, DataOps
    <3> QED BY <3>4, <3>5
  <2> QED BY <2>2, <2>3, <2>4
<1>7. CASE q.op = "CloseSession"
  <2>1. ptp_closesession_write(c) /\ q.params = <<>>
    <3>1. q.params = <<>>
      BY <1>2, <1>7 DEF Valid, DataOps
    <3> QED BY <1>1, <1>7, <3>1 DEF CommandHandler, c
  <2>2. CASE session = 0
    <3>1. Refuse("SessionAlreadyOpened")
      BY <1>1, <2>1, <2>2 DEF ptp_closesession_write
    <3>2. Reply(q, "SessionAlreadyOpened", seqnr)
      BY <1>3, <1>4, <1>7, <3>1, RefuseReplies
    <3> QED BY <1>3, <1>4, <1>7, <3>2 DEF DataOps
  <2>3. CASE session # 0
    <3>1. /\ session' = 0 /\ inbulk' = <<Resp("OK", seqnr)>>
          /\ seqnr' = 1 /\ props' = props
      BY <1>1, <2>1, <2>3 DEF ptp_closesession_write
    <3>2. Reply(q, "OK", seqnr)
      BY <1>3, <1>4, <1>7, <2>3, <3>1 DEF Reply, Base
    <3> QED BY <1>3, <1>4, <1>7, <3>2 DEF DataOps
  <2> QED BY <2>2, <2>3
<1>8. CASE q.op = "GetDevicePropValue"
  <2>1. ptp_getdevicepropvalue_write(c) /\ Len(q.params) = 1
    BY <1>1, <1>8 DEF CommandHandler, c, Valid
  <2>2. CASE session = 0
    <3>1. Refuse("SessionNotOpen")
      BY <2>1, <2>2 DEF ptp_getdevicepropvalue_write
    <3>2. Reply(q, "SessionNotOpen", seqnr)
      BY <1>3, <1>4, <1>8, <3>1, RefuseReplies
    <3> QED BY <1>3, <1>4, <1>8, <3>2 DEF DataOps
  <2>3. CASE session # 0 /\ q.params[1] \notin Props \ InvisibleProps
    <3>1. Refuse("DevicePropNotSupported")
      BY <1>1, <2>1, <2>3 DEF ptp_getdevicepropvalue_write
    <3>2. Reply(q, "DevicePropNotSupported", seqnr)
      BY <1>3, <1>4, <1>8, <3>1, RefuseReplies
    <3> QED BY <1>3, <1>4, <1>8, <3>2 DEF DataOps
  <2>4. CASE session # 0 /\ q.params[1] \in Props \ InvisibleProps
    <3>1. ptp_senddata_response(props[q.params[1]])
      BY <1>1, <2>1, <2>4 DEF ptp_getdevicepropvalue_write
    <3>2. props[q.params[1]] \in InValue /\ q.params[1] \in Props
      BY <2>4 DEF Base, InValue
    <3>3. Reply(q, "OK", seqnr)
      BY <1>4, <1>8, <2>4, <3>1, <3>2, DataAnswered
    <3> QED BY <1>3, <1>4, <1>8, <3>3 DEF DataOps
  <2> QED BY <2>2, <2>3, <2>4
<1>9. CASE q.op = "SetDevicePropValue"
  <2>1. /\ ptp_setdevicepropvalue_write(c) /\ Len(q.params) = 1
        /\ session # 0
    BY <1>1, <1>9 DEF CommandHandler, c, Valid, DataOps
  <2>2. CASE q.params[1] \notin Props
    <3>1. Refuse("DevicePropNotSupported")
      BY <1>1, <2>1, <2>2 DEF ptp_setdevicepropvalue_write
    <3>2. Reply(q, "DevicePropNotSupported", seqnr)
      BY <1>3, <1>4, <1>9, <3>1, RefuseReplies
    <3> QED BY <1>3, <1>4, <1>9, <2>2, <3>2 DEF RefusedEarly
  <2>3. CASE q.params[1] \in Props
    <3>1. AwaitData
      BY <1>1, <2>1, <2>3 DEF ptp_setdevicepropvalue_write
    <3> QED BY <1>9, <2>3, <3>1 DEF RefusedEarly, DataOps
  <2> QED BY <2>2, <2>3
<1>10. CASE q.op = "BEEF"
  <2>1. AwaitData
    BY <1>1, <1>10 DEF CommandHandler, c, ptp_vusb_write, DataOps
  <2> QED BY <1>10, <2>1 DEF RefusedEarly, DataOps
<1>11. CASE q.op = "Unregistered"
  <2>1. Refuse("OperationNotSupported")
    BY <1>1, <1>11 DEF CommandHandler, c
  <2>2. Reply(q, "OperationNotSupported", seqnr)
    BY <1>3, <1>4, <1>11, <2>1, RefuseReplies
  <2> QED BY <1>3, <1>4, <1>11, <2>2 DEF DataOps
<1> QED BY <1>2, <1>5, <1>6, <1>7, <1>8, <1>9, <1>10, <1>11 DEF Ops, DataOps

\* The data phase answers what the command phase has left to it, and nothing
\* else.
LEMMA DataPhaseReplies ==
    ASSUME Base, NEW q, Valid(q), q.op \in DataOps, session # 0,
           ptpcmd = Cmd(q), ~RefusedEarly(q) => inbulk = <<>>,
           DataHandler(Data(q))
    PROVE  IF RefusedEarly(q) THEN AwaitData
           ELSE \E code \in Codes : Reply(q, code, seqnr)
<1>1. /\ ptpcmd.params = q.params /\ Data(q).op = q.op /\ Data(q).data = q.data
      /\ Len(q.params) = 1 /\ ~Opens(q)
  BY RequestPackets DEF Valid, Opens, DataOps
<1>2. q.data \in Values \cup {Empty} /\ (q.op = "BEEF" => q.data \in Values)
  BY DEF Valid, Req, DataPhases
<1>3. "GeneralError" \in Codes \ {"OK"} /\ "OK" \in Codes
  BY DEF Codes
<1>4. CASE q.op = "SetDevicePropValue"
  <2>1. ptp_setdevicepropvalue_write_data(q.data)
    BY <1>1, <1>4 DEF DataHandler
  <2>2. CASE q.params[1] \notin Props
    BY <1>1, <1>4, <2>1, <2>2 DEF ptp_setdevicepropvalue_write_data, RefusedEarly
  <2>3. CASE q.params[1] \in Props
    <3>1. ~RefusedEarly(q) /\ inbulk = <<>>
      BY <2>3 DEF RefusedEarly
    <3>2. CASE q.params[1] \in InvisibleProps
      <4>1. Refuse("OK")
        BY <1>1, <2>1, <2>3, <3>2 DEF ptp_setdevicepropvalue_write_data
      <4>2. /\ inbulk' = <<Resp("OK", seqnr)>> /\ seqnr' = seqnr + 1
            /\ session' = session /\ props' = props
        BY <3>1, <4>1 DEF Refuse, ptp_response
      <4>3. Reply(q, "OK", seqnr)
        BY <1>1, <1>3, <1>4, <2>3, <3>2, <4>2 DEF Reply, Base
      <4> QED BY <1>3, <3>1, <4>3
    <3>3. CASE q.params[1] \notin InvisibleProps /\ q.data = Empty
      <4>1. Refuse("GeneralError")
        BY <1>1, <2>1, <2>3, <3>3 DEF ptp_setdevicepropvalue_write_data
      <4>2. Reply(q, "GeneralError", seqnr)
        BY <1>1, <1>3, <1>4, <3>1, <4>1, RefuseReplies
      <4> QED BY <1>3, <3>1, <4>2
    <3>4. CASE q.params[1] \notin InvisibleProps /\ q.data # Empty
      <4>1. /\ props' = [props EXCEPT ![q.params[1]] = q.data]
            /\ ptp_response("OK") /\ session' = session
        BY <1>1, <2>1, <2>3, <3>4 DEF ptp_setdevicepropvalue_write_data
      <4>2. inbulk' = <<Resp("OK", seqnr)>> /\ seqnr' = seqnr + 1
        BY <3>1, <4>1 DEF ptp_response
      <4>3. props' \in [Props -> Values]
        BY <1>2, <3>4, <4>1 DEF Base
      <4>4. Reply(q, "OK", seqnr)
        BY <1>1, <1>3, <1>4, <2>3, <3>4, <4>1, <4>2, <4>3 DEF Reply, Base
      <4> QED BY <1>3, <3>1, <4>4
    <3> QED BY <3>2, <3>3, <3>4
  <2> QED BY <2>2, <2>3
<1>5. CASE q.op = "BEEF"
  <2>1. ~RefusedEarly(q) /\ inbulk = <<>>
    BY <1>5 DEF RefusedEarly
  <2>2. Refuse("OK") \/ Refuse("GeneralError")
    BY <1>1, <1>5 DEF DataHandler, ptp_vusb_write_data
  <2>3. CASE Refuse("OK")
    <3>1. /\ inbulk' = <<Resp("OK", seqnr)>> /\ seqnr' = seqnr + 1
          /\ session' = session /\ props' = props
      BY <2>1, <2>3 DEF Refuse, ptp_response
    <3>2. Reply(q, "OK", seqnr)
      BY <1>1, <1>3, <1>5, <3>1 DEF Reply, Base
    <3> QED BY <1>3, <2>1, <3>2
  <2>4. CASE Refuse("GeneralError")
    <3>1. Reply(q, "GeneralError", seqnr)
      BY <1>1, <1>3, <1>5, <2>1, <2>4, RefuseReplies
    <3> QED BY <1>3, <2>1, <3>1
  <2> QED BY <2>2, <2>3, <2>4
<1> QED BY <1>4, <1>5 DEF DataOps

-----------------------------------------------------------------------------
(* Steps *)

\* A request of a careful initiator is valid, and has data only in a session.
LEMMA ValidRequests ==
    ASSUME ~Careless, Base, NEW r \in Requests, TidFor(r) <= MaxTid,
           NEW q, q = [op |-> r.op, params |-> r.params, data |-> r.data,
                       tid |-> TidFor(r)]
    PROVE  Valid(q) /\ (q.op \in DataOps => session # 0)
<1>1. r \in CarefulRequests \/ (r \in DataRequests /\ session # 0)
  BY DEF Requests
<1>2. TidFor(r) \in Nat /\ (Opens(r) => TidFor(r) = 0)
  BY DEF TidFor, Base
<1>3. /\ NoData \notin Values /\ NoData # Empty
      /\ Values \subseteq DataPhases \cup {NoData} /\ Empty \in DataPhases
  BY ConstantsAssumption DEF DataPhases
<1>4. PropCodes \subseteq Params /\ Values \subseteq Params /\ {0, 1} \subseteq Params
  BY DEF Params
<1>5. q.op = r.op /\ q.params = r.params /\ q.data = r.data /\ q.tid = TidFor(r)
  OBVIOUS
<1>6. Opens(q) => Opens(r)
  BY <1>5 DEF Opens
<1>7. CASE r \in CarefulRequests
  <2>1. r.data = NoData
    BY <1>7 DEF CarefulRequests
  <2>2. CASE /\ r.op \in {"GetDeviceInfo", "CloseSession", "Unregistered",
                          "Malformed", "Short"}
             /\ r.params = <<>>
    <3>1. r.op \in Ops \ DataOps /\ r.params \in Seq(Params) /\ Len(r.params) = 0
      BY <2>2 DEF Ops, DataOps
    <3>2. q \in Req
      BY <1>2, <2>1, <3>1 DEF Req
    <3> QED BY <1>2, <1>5, <1>6, <2>1, <2>2, <3>1, <3>2 DEF Valid, DataOps
  <2>3. CASE r.op = "OpenSession" /\ r.params \in {<<0>>, <<1>>}
    <3>0. 0 \in Params /\ 1 \in Params
      BY <1>4
    <3>1. /\ r.op \in Ops \ DataOps /\ r.params \in Seq(Params)
          /\ Len(r.params) = 1
      <4>1. CASE r.params = <<0>>
        BY <2>3, <3>0, <4>1 DEF Ops, DataOps
      <4>2. CASE r.params = <<1>>
        BY <2>3, <3>0, <4>2 DEF Ops, DataOps
      <4> QED BY <2>3, <4>1, <4>2
    <3>2. q \in Req
      BY <1>2, <2>1, <3>1 DEF Req
    <3> QED BY <1>2, <1>5, <1>6, <2>1, <2>3, <3>1, <3>2 DEF Valid, DataOps
  <2>4. CASE /\ r.op = "GetDevicePropValue"
             /\ \E p \in PropCodes : r.params = <<p>>
    <3>1. /\ r.op \in Ops \ DataOps /\ r.params \in Seq(Params)
          /\ Len(r.params) = 1
      BY <1>4, <2>4 DEF Ops, DataOps
    <3>2. q \in Req
      BY <1>2, <2>1, <3>1 DEF Req
    <3> QED BY <1>2, <1>5, <1>6, <2>1, <2>4, <3>1, <3>2 DEF Valid, DataOps
  <2> QED BY <1>7, <2>2, <2>3, <2>4 DEF CarefulRequests
<1>8. CASE r \in DataRequests /\ session # 0
  <2>1. CASE /\ r.op = "SetDevicePropValue" /\ r.data \in DataPhases
             /\ \E p \in PropCodes : r.params = <<p>>
    <3>1. /\ r.op \in Ops /\ r.op \in DataOps /\ r.params \in Seq(Params)
          /\ Len(r.params) = 1 /\ r.data # NoData
      BY <1>3, <1>4, <2>1 DEF Ops, DataOps, DataPhases
    <3>2. q \in Req
      BY <1>2, <2>1, <3>1 DEF Req
    <3> QED BY <1>2, <1>5, <1>6, <1>8, <2>1, <3>1, <3>2 DEF Valid, DataOps
  <2>2. CASE /\ r.op = "BEEF" /\ r.data \in Values
             /\ \E v \in Values : r.params = <<v>>
    <3>1. /\ r.op \in Ops /\ r.op \in DataOps /\ r.params \in Seq(Params)
          /\ Len(r.params) = 1 /\ r.data # NoData
          /\ r.data \in DataPhases \cup {NoData}
      BY <1>3, <1>4, <2>2 DEF Ops, DataOps
    <3>2. q \in Req
      BY <1>2, <3>1 DEF Req
    <3> QED BY <1>2, <1>5, <1>6, <1>8, <2>2, <3>1, <3>2 DEF Valid, DataOps
  <2> QED BY <1>8, <2>1, <2>2 DEF DataRequests
<1> QED BY <1>1, <1>7, <1>8

\* A container whose writing has not begun is in flight.
LEMMA FlightBegins ==
    ASSUME NEW pkt \in Packet, Words(pkt) \in 2 .. 4,
           outbulk' = <<>>, wire' = Cells(pkt)
    PROVE  InFlight(pkt)'
<1> DEFINE W == Words(pkt)
<1>1. Cells(pkt) \in Seq(Cell) /\ Len(Cells(pkt)) = W
  BY CellsProperties
<1>2. SubSeq(Cells(pkt), 1, W) = Cells(pkt)
  BY <1>1, SubSeqFull
<1>3. SubSeq(Cells(pkt), 1, 0) = <<>>
  BY SubSeqEmpty
<1>4. 0 \in 0 .. W - 1 /\ 0 + 1 = 1
  OBVIOUS
<1> QED BY <1>2, <1>3, <1>4 DEF InFlight

\* While a container is in flight, some of it is unwritten.
LEMMA FlightGoesOn ==
    ASSUME NEW pkt \in Packet, Words(pkt) \in 2 .. 4, InFlight(pkt)
    PROVE  wire # <<>> /\ wire \in Seq(Cell) /\ outbulk \in Seq(Cell)
<1> DEFINE cs == Cells(pkt)
           W == Words(pkt)
<1>1. PICK m \in 0 .. W - 1 :
        outbulk = SubSeq(cs, 1, m) /\ wire = SubSeq(cs, m + 1, W)
  BY DEF InFlight
<1>2. cs \in Seq(Cell) /\ Len(cs) = W
  BY CellsProperties
<1> HIDE DEF cs, W
<1>3. W \in Nat /\ m \in Nat
  BY <1>2
<1>4. /\ wire \in Seq(Cell) /\ Len(wire) = W - m
  <2>1. \A i \in m + 1 .. W : cs[i] \in Cell
    BY <1>2, <1>3
  <2> QED BY <1>1, <1>3, <2>1, SubSeqProperties
<1>5. outbulk \in Seq(Cell)
  <2>1. \A i \in 1 .. m : cs[i] \in Cell
    BY <1>2, <1>3
  <2> QED BY <1>1, <1>3, <2>1, SubSeqProperties
<1>6. Len(wire) # 0
  BY <1>3, <1>4
<1> QED BY <1>4, <1>5, <1>6

\* What the phases say of the buffers.
LEMMA PhaseFacts ==
    ASSUME PipeInv
    PROVE  /\ req = NoReq => Idle
           /\ wire # <<>> => Commanding \/ Sending
           /\ unsent /\ wire = <<>> => Between
           /\ AllSent => Done
           /\ outbulk \in Seq(Cell) /\ wire \in Seq(Cell)
           /\ req # NoReq => Valid(req)
<1>1. req # NoReq => Valid(req)
  BY DEF PipeInv, ReqInv
<1>2. Commanding => wire # <<>> /\ wire \in Seq(Cell) /\ outbulk \in Seq(Cell)
  BY <1>1, RequestPackets, FlightGoesOn DEF Commanding
<1>3. Sending => wire # <<>> /\ wire \in Seq(Cell) /\ outbulk \in Seq(Cell)
  <2> SUFFICES ASSUME Sending
               PROVE  wire # <<>> /\ wire \in Seq(Cell) /\ outbulk \in Seq(Cell)
    OBVIOUS
  <2>1. Valid(req) /\ req.data # NoData /\ InFlight(Data(req))
    BY <1>1 DEF Sending, HalfDone
  <2>2. Data(req) \in Packet /\ Words(Data(req)) \in 2 .. 4
    BY <2>1, RequestPackets
  <2> QED BY <2>1, <2>2, FlightGoesOn
<1>4. Commanding \/ Sending \/ (outbulk = <<>> /\ wire = <<>>)
  BY DEF PipeInv, Phase, Idle, Between, Done
<1>5. outbulk \in Seq(Cell) /\ wire \in Seq(Cell)
  <2>1. <<>> \in Seq(Cell)
    OBVIOUS
  <2> QED BY <1>2, <1>3, <1>4, <2>1, Zenon
<1>6. req = NoReq => Idle
  BY DEF PipeInv, Phase, Commanding, Between, Sending, HalfDone, Done
<1>7. unsent /\ wire = <<>> => Between
  BY <1>2, <1>3 DEF PipeInv, Phase, Idle, Done
<1>8. AllSent => Done
  BY <1>2, <1>3 DEF PipeInv, Phase, Idle, Between, AllSent
<1>9. wire # <<>> => Commanding \/ Sending
  BY <1>4
<1> QED BY <1>1, <1>5, <1>6, <1>7, <1>8, <1>9

\* A reply keeps the counters together and is the one answer of its request.
LEMMA ReplyKeeps ==
    ASSUME PipeInv, req # NoReq, inbulk = <<>>, NEW code, NEW tid,
           Reply(req, code, tid), UNCHANGED <<req, nexttid>>
    PROVE  /\ inbulk' \in Seq(Container) /\ seqnr' \in Nat
           /\ session' \in {0, 1} /\ props' \in [Props -> Values]
           /\ tid \in 0 .. MaxTid /\ (session # 0 => tid = req.tid)
           /\ ReqInv' /\ TidInv' /\ ResponseReady' /\ inbulk' # <<>>
           /\ req.op = "SetDevicePropValue" =>
                 Len(inbulk') = 1 /\ inbulk'[1].type = "RESP"
<1>1. Valid(req) /\ (req.op \in DataOps => session # 0) /\ req.tid \in Nat
  BY DEF PipeInv, ReqInv, Valid, Req
<1>2. /\ seqnr \in Nat /\ nexttid = req.tid + 1 /\ MaxTid \in Nat
      /\ Opens(req) \/ seqnr <= MaxTid
      /\ session # 0 => Opens(req) \/ seqnr = req.tid
      /\ req.tid <= MaxTid
  BY <1>1, ConstantsAssumption DEF PipeInv, Base, TidInv, Valid
<1>3. tid \in 0 .. MaxTid /\ (session # 0 => tid = req.tid) /\ code \in Codes
  BY <1>1, <1>2 DEF Reply
<1>4. seqnr' \in Nat /\ session' \in {0, 1} /\ props' \in [Props -> Values]
  BY <1>3 DEF Reply
<1>5. \A v \in InValue : DataIn(v, tid) \in Container /\ DataIn(v, tid).type = "DATA"
                          /\ DataIn(v, tid).tid = tid
  BY <1>3 DEF DataIn, Container
<1>6. Resp(code, tid) \in Container /\ Resp(code, tid).type = "RESP"
      /\ Resp(code, tid).tid = tid
  BY <1>3 DEF Resp, Container
<1>7. /\ inbulk' \in Seq(Container) /\ ResponseReady' /\ inbulk' # <<>>
      /\ \A i \in 1 .. Len(inbulk') : inbulk'[i].tid = tid
      /\ req.op = "SetDevicePropValue" =>
            Len(inbulk') = 1 /\ inbulk'[1].type = "RESP"
  <2>1. CASE inbulk' = <<Resp(code, tid)>>
    BY <1>6, <2>1 DEF ResponseReady
  <2>2. CASE /\ code = "OK" /\ req.op # "SetDevicePropValue"
             /\ \E v \in InValue : inbulk' = <<DataIn(v, tid), Resp(code, tid)>>
    <3>1. PICK v \in InValue : inbulk' = <<DataIn(v, tid), Resp(code, tid)>>
      BY <2>2
    <3> DEFINE d == DataIn(v, tid)
               e == Resp(code, tid)
    <3>2. d \in Container /\ d.type = "DATA" /\ d.tid = tid
      BY <1>5
    <3>3. e \in Container /\ e.type = "RESP" /\ e.tid = tid
      BY <1>6
    <3>4. inbulk' = <<d, e>>
      BY <3>1
    <3> HIDE DEF d, e
    <3>5. inbulk' \in Seq(Container) /\ Len(inbulk') = 2 /\ inbulk'[1] = d
          /\ inbulk'[2] = e
      BY <3>2, <3>3, <3>4
    <3> QED BY <2>2, <3>2, <3>3, <3>5 DEF ResponseReady
  <2> QED BY <2>1, <2>2 DEF Reply
<1>8. ReqInv'
  <2>1. req.op \in DataOps => session' # 0
    BY <1>1 DEF Reply, DataOps
  <2> QED BY <1>1, <2>1 DEF ReqInv, Valid, Opens
<1>9. session' # 0 => seqnr' = req.tid + 1 /\ tid = req.tid
  <2>1. session' # 0 => seqnr' = tid + 1
    BY DEF Reply
  <2>2. session = 0 /\ session' # 0 => Opens(req)
    BY DEF Reply
  <2>3. Opens(req) => tid = req.tid
    BY DEF Reply
  <2> QED BY <1>3, <2>1, <2>2, <2>3
<1>10. TidInv'
  BY <1>2, <1>7, <1>9 DEF TidInv
<1> QED BY <1>3, <1>4, <1>7, <1>8, <1>10

\* A whole container: both ways of cutting it off empty the buffer.
LEMMA WholeContainer ==
    ASSUME NEW buf, NEW pkt \in Packet, Words(pkt) \in 2 .. 4,
           Len(buf) = Words(pkt), RefuseContainer(buf, pkt) \/ Dispatch(buf, pkt)
    PROVE  outbulk' = <<>>
<1> DEFINE W == Words(pkt)
<1>1. W \in Nat /\ W + 1 > W /\ W - W = 0
  OBVIOUS
<1>2. SubSeq(buf, W + 1, W) = <<>> /\ SubSeq(buf, 1, 0) = <<>>
  BY <1>1, SubSeqEmpty
<1> QED BY <1>1, <1>2 DEF RefuseContainer, Dispatch

\* A transfer either leaves the container incomplete, or completes it. Then the
\* camera answers, if it has not answered before, or waits for the data.
LEMMA WriteOutcome ==
    ASSUME PipeInv, NEW n \in 1 .. Len(wire), vcam_write(n)
    PROVE  /\ UNCHANGED <<req, unsent, nexttid, got>>
           /\ ran' \in Seq(Packet) /\ ptpcmd' \in Packet
           /\ Phase'
           /\ \/ UNCHANGED <<inbulk, seqnr, session, props>>
              \/ inbulk = <<>> /\ \E code \in Codes : \E tid : Reply(req, code, tid)
<1> DEFINE buf == outbulk \o SubSeq(wire, 1, n)
           rest == SubSeq(wire, n + 1, Len(wire))
<1>1. UNCHANGED <<req, unsent, nexttid, got>> /\ wire' = rest
  BY DEF vcam_write
<1>2. vcam_process_output(buf)
  BY DEF vcam_write
<1>3. wire # <<>>
  OBVIOUS
<1>4. /\ Base /\ req # NoReq /\ Valid(req) /\ (req.op \in DataOps => session # 0)
      /\ Commanding \/ Sending
  BY <1>3, PhaseFacts DEF PipeInv, ReqInv, Commanding, Sending, HalfDone
<1>5. /\ Cmd(req) \in Packet /\ Words(Cmd(req)) \in 2 .. 4
      /\ Cmd(req).type = "CMD" /\ Cmd(req).op = req.op
  BY <1>4, RequestPackets
<1>6. /\ Data(req) \in Packet /\ (req.data # NoData => Words(Data(req)) \in 2 .. 4)
      /\ Data(req).type = "DATA" /\ Data(req).op = req.op
  BY <1>4, RequestPackets
<1>7. req.data # NoData <=> req.op \in DataOps
  BY <1>4 DEF Valid
<1>8. ran \in Seq(Packet) /\ ptpcmd \in Packet
  BY <1>4 DEF Base
<1> HIDE DEF rest, buf
<1>9. CASE Commanding
  <2> DEFINE pkt == Cmd(req)
  <2>1. InFlight(pkt) /\ ran = <<>> /\ inbulk = <<>> /\ got = NoData
        /\ (unsent <=> req.data # NoData)
    BY <1>9 DEF Commanding
  <2>2. /\ buf[1].pkt = pkt
        /\ Len(buf) \in Nat
        /\ Words(pkt) <= Len(buf) => rest = <<>> /\ Len(buf) = Words(pkt)
        /\ Words(pkt) > Len(buf) =>
              \E m \in 0 .. Words(pkt) - 1 :
                  /\ buf = SubSeq(Cells(pkt), 1, m)
                  /\ rest = SubSeq(Cells(pkt), m + 1, Words(pkt))
    BY <1>5, <2>1, Writing DEF buf, rest
  <2>3. CASE Words(pkt) > Len(buf)
    <3>1. outbulk' = buf /\ UNCHANGED <<inbulk, seqnr, session, ptpcmd, props, ran>>
      BY <1>2, <1>5, <2>2, <2>3 DEF vcam_process_output
    <3>2. InFlight(pkt)'
      BY <1>1, <2>2, <2>3, <3>1 DEF InFlight, Cmd, Words, Cells
    <3>3. Commanding'
      BY <1>1, <1>4, <2>1, <3>1, <3>2 DEF Commanding, Cmd
    <3> QED BY <1>1, <1>8, <3>1, <3>3 DEF Phase
  <2>4. CASE Words(pkt) <= Len(buf)
    <3>1. /\ RefuseContainer(buf, pkt) \/ Dispatch(buf, pkt)
          /\ ran' = Append(ran, pkt)
      BY <1>2, <1>5, <2>2, <2>4 DEF vcam_process_output
    <3>2. ran' = <<pkt>> /\ ran' \in Seq(Packet)
      BY <1>5, <2>1, <3>1
    <3>3. outbulk' = <<>> /\ wire' = <<>>
      BY <1>1, <1>5, <2>2, <2>4, <3>1, WholeContainer
    <3>4. CASE RefuseContainer(buf, pkt)
      <4>1. req.op \in {"Short", "Malformed"} /\ Refuse("GeneralError")
            /\ ptpcmd' = ptpcmd
        BY <1>5, <3>4 DEF RefuseContainer
      <4>2. "GeneralError" \in Codes \ {"OK"} /\ ~Opens(req)
        BY <4>1 DEF Codes, Opens
      <4>3. Reply(req, "GeneralError", seqnr)
        BY <1>4, <2>1, <4>1, <4>2, RefuseReplies
      <4>4. ResponseReady' /\ Len(inbulk') = 1
        BY <1>1, <1>4, <2>1, <4>1, <4>2, <4>3, ReplyKeeps DEF Refuse, ptp_response
      <4>5. ~unsent' /\ Phases(req) = <<pkt>>
        BY <1>1, <1>7, <2>1, <4>1 DEF DataOps, Phases
      <4>6. Done'
        BY <1>1, <1>4, <3>2, <3>3, <4>4, <4>5 DEF Done, Phases, Cmd, Data
      <4> QED BY <1>1, <1>8, <2>1, <3>2, <4>1, <4>2, <4>3, <4>6 DEF Phase
    <3>5. CASE Dispatch(buf, pkt)
      <4>1. /\ req.op \notin {"Short", "Malformed"} /\ CommandHandler(pkt)
            /\ ptpcmd' \in Packet
            /\ req.op \in DataOps => ptpcmd' = pkt
        BY <1>5, <1>8, <3>5 DEF Dispatch, DataOps
      <4>2. IF req.op \in DataOps /\ ~RefusedEarly(req) THEN AwaitData
            ELSE \E code \in Codes :
                     Reply(req, code, IF Opens(req) THEN req.tid ELSE seqnr)
        BY <1>4, <2>1, <4>1, CommandAnswered
      <4>3. CASE req.op \in DataOps /\ ~RefusedEarly(req)
        <5>1. UNCHANGED <<inbulk, seqnr, session, props>>
          BY <4>2, <4>3 DEF AwaitData
        <5>2. Between'
          BY <1>1, <1>4, <1>7, <2>1, <3>2, <3>3, <4>1, <4>3, <5>1
             DEF Between, HalfDone, RefusedEarly, Cmd
        <5> QED BY <1>1, <1>5, <3>2, <4>1, <5>1, <5>2 DEF Phase
      <4>4. CASE ~(req.op \in DataOps /\ ~RefusedEarly(req))
        <5>1. PICK code \in Codes, tid \in {IF Opens(req) THEN req.tid ELSE seqnr} :
                Reply(req, code, tid)
          BY <4>2, <4>4
        <5>2. /\ ResponseReady' /\ inbulk' # <<>>
              /\ req.op = "SetDevicePropValue" =>
                    Len(inbulk') = 1 /\ inbulk'[1].type = "RESP"
          BY <1>1, <1>4, <2>1, <5>1, ReplyKeeps
        <5>3. CASE req.op \in DataOps
          <6>1. RefusedEarly(req) /\ req.op = "SetDevicePropValue"
            BY <4>4, <5>3 DEF RefusedEarly
          <6>2. Between'
            BY <1>1, <1>4, <1>7, <2>1, <3>2, <3>3, <4>1, <5>2, <5>3, <6>1
               DEF Between, HalfDone, RefusedEarly, Cmd
          <6> QED BY <1>1, <1>5, <2>1, <3>2, <4>1, <5>1, <6>2 DEF Phase
        <5>4. CASE req.op \notin DataOps
          <6>1. ~unsent' /\ Phases(req) = <<pkt>>
            BY <1>1, <1>7, <2>1, <5>4 DEF Phases
          <6>2. Done'
            BY <1>1, <1>4, <2>1, <3>2, <3>3, <5>2, <6>1 DEF Done, Phases, Cmd, Data
          <6> QED BY <1>1, <1>5, <2>1, <3>2, <4>1, <5>1, <6>2 DEF Phase
        <5> QED BY <5>3, <5>4
      <4> QED BY <4>3, <4>4
    <3> QED BY <3>1, <3>4, <3>5
  <2>5. Words(pkt) > Len(buf) \/ Words(pkt) <= Len(buf)
    BY <1>5, <2>2
  <2> QED BY <2>3, <2>4, <2>5
<1>10. CASE Sending
  <2> DEFINE pkt == Data(req)
  <2>1. /\ InFlight(pkt) /\ HalfDone /\ ~unsent /\ req.data # NoData
        /\ ptpcmd = Cmd(req) /\ ran = <<Cmd(req)>> /\ got = NoData
        /\ IF RefusedEarly(req) THEN Len(inbulk) = 1 /\ inbulk[1].type = "RESP"
                                ELSE inbulk = <<>>
    BY <1>10 DEF Sending, HalfDone
  <2>2. /\ buf[1].pkt = pkt
        /\ Len(buf) \in Nat
        /\ Words(pkt) <= Len(buf) => rest = <<>> /\ Len(buf) = Words(pkt)
        /\ Words(pkt) > Len(buf) =>
              \E m \in 0 .. Words(pkt) - 1 :
                  /\ buf = SubSeq(Cells(pkt), 1, m)
                  /\ rest = SubSeq(Cells(pkt), m + 1, Words(pkt))
    BY <1>6, <2>1, Writing DEF buf, rest
  <2>3. CASE Words(pkt) > Len(buf)
    <3>1. outbulk' = buf /\ UNCHANGED <<inbulk, seqnr, session, ptpcmd, props, ran>>
      BY <1>2, <1>6, <2>1, <2>2, <2>3 DEF vcam_process_output
    <3>2. InFlight(pkt)'
      BY <1>1, <2>2, <2>3, <3>1 DEF InFlight, Data, Words, Cells
    <3>3. Sending'
      BY <1>1, <1>4, <2>1, <3>1, <3>2 DEF Sending, HalfDone, RefusedEarly, Cmd, Data
    <3> QED BY <1>1, <1>8, <3>1, <3>3 DEF Phase
  <2>4. CASE Words(pkt) <= Len(buf)
    <3>1. /\ RefuseContainer(buf, pkt) \/ Dispatch(buf, pkt)
          /\ ran' = Append(ran, pkt)
      BY <1>2, <1>6, <2>1, <2>2, <2>4 DEF vcam_process_output
    <3>2. ran' = <<Cmd(req), pkt>> /\ ran' \in Seq(Packet)
      <4> DEFINE a == Cmd(req)
      <4>1. a \in Packet /\ pkt \in Packet /\ ran' = Append(<<a>>, pkt)
        BY <1>5, <1>6, <2>1, <3>1
      <4> QED BY <4>1, PairOfTwo
    <3>3. outbulk' = <<>> /\ wire' = <<>>
      BY <1>1, <1>6, <2>1, <2>2, <2>4, <3>1, WholeContainer
    <3>4. /\ req.op \in DataOps /\ DataHandler(pkt) /\ ptpcmd' = ptpcmd
      BY <1>6, <1>7, <2>1, <3>1 DEF Dispatch, RefuseContainer, DataOps
    <3>5. IF RefusedEarly(req) THEN AwaitData
          ELSE \E code \in Codes : Reply(req, code, seqnr)
      BY <1>4, <2>1, <3>4, DataPhaseReplies
    <3>6. Phases(req) = <<Cmd(req), pkt>>
      BY <2>1 DEF Phases
    <3>7. CASE RefusedEarly(req)
      <4>1. UNCHANGED <<inbulk, seqnr, session, props>>
        BY <3>5, <3>7 DEF AwaitData
      <4>2. Done'
        BY <1>1, <1>4, <2>1, <3>2, <3>3, <3>6, <3>7, <4>1
           DEF Done, ResponseReady, Phases, Cmd, Data
      <4> QED BY <1>1, <1>8, <3>2, <3>4, <4>1, <4>2 DEF Phase
    <3>8. CASE ~RefusedEarly(req)
      <4>1. PICK code \in Codes : Reply(req, code, seqnr)
        BY <3>5, <3>8
      <4>2. inbulk = <<>>
        BY <2>1, <3>8
      <4>3. ResponseReady' /\ inbulk' # <<>>
        BY <1>1, <1>4, <4>1, <4>2, ReplyKeeps
      <4>4. Done'
        BY <1>1, <1>4, <2>1, <3>2, <3>3, <3>6, <4>3 DEF Done, Phases, Cmd, Data
      <4> QED BY <1>1, <1>8, <3>2, <3>4, <4>1, <4>2, <4>4 DEF Phase
    <3> QED BY <3>7, <3>8
  <2>5. Words(pkt) > Len(buf) \/ Words(pkt) <= Len(buf)
    BY <1>6, <2>1, <2>2
  <2> QED BY <2>3, <2>4, <2>5
<1> QED BY <1>4, <1>9, <1>10

\* A new request begins with its command container unwritten.
LEMMA RequestStep ==
    ASSUME ~Careless, PipeInv, NEW r \in Requests, Request(r)
    PROVE  PipeInv'
<1>0. PICK q :
        q = [op |-> r.op, params |-> r.params, data |-> r.data, tid |-> TidFor(r)]
  OBVIOUS
<1>1. /\ req = NoReq /\ TidFor(r) <= MaxTid /\ (Opens(r) \/ seqnr <= MaxTid)
      /\ req' = q /\ wire' = Cells(Cmd(q))
      /\ unsent' = (r.data # NoData) /\ nexttid' = TidFor(r) + 1 /\ ran' = <<>>
      /\ UNCHANGED <<outbulk, inbulk, seqnr, session, ptpcmd, props, got>>
  BY <1>0 DEF Request
<1>2. q.op = r.op /\ q.params = r.params /\ q.data = r.data /\ q.tid = TidFor(r)
  BY <1>0
<1>3. Base /\ TidInv /\ Idle
  BY <1>1, PhaseFacts DEF PipeInv
<1>4. Valid(q) /\ (q.op \in DataOps => session # 0)
  BY <1>0, <1>1, <1>3, ValidRequests
<1>5. q \in Req /\ q # NoReq
  BY <1>4, MarkersAssumption DEF Valid
<1>6. TidFor(r) \in Nat
  BY <1>3 DEF TidFor, Base
<1>7. Base'
  <2>1. <<>> \in Seq(Packet) /\ TidFor(r) + 1 \in Nat
    BY <1>6
  <2>2. unsent' \in BOOLEAN
    BY <1>1, Zenon
  <2> QED BY <1>1, <1>3, <2>1, <2>2 DEF Base
<1>8. ReqInv'
  BY <1>1, <1>4 DEF ReqInv, Valid, Opens
<1>9. Opens(q) <=> Opens(r)
  BY <1>2 DEF Opens
<1>10. TidInv'
  <2>1. inbulk' = <<>> /\ req' # NoReq /\ req' = q /\ seqnr' = seqnr
        /\ session' = session
    BY <1>1, <1>3, <1>5 DEF Idle
  <2>2. session # 0 /\ ~Opens(q) => seqnr = q.tid
    BY <1>1, <1>2, <1>3, <1>9 DEF TidInv, TidFor
  <2>3. Opens(req)' <=> Opens(q)
    BY <2>1 DEF Opens
  <2> QED BY <1>1, <1>2, <1>9, <2>1, <2>2, <2>3 DEF TidInv
<1>11. Commanding'
  <2>1. Cmd(q) \in Packet /\ Words(Cmd(q)) \in 2 .. 4
    BY <1>4, RequestPackets
  <2>2. outbulk' = <<>>
    BY <1>1, <1>3 DEF Idle
  <2>3. PICK d : d = Cmd(q)
    OBVIOUS
  <2>4. InFlight(Cmd(req))'
    <3>1. InFlight(d)'
      BY <1>1, <2>1, <2>2, <2>3, FlightBegins
    <3>2. Cmd(req)' = d
      BY <1>1, <2>3 DEF Cmd
    <3> QED BY <3>1, <3>2 DEF InFlight
  <2>5. (unsent <=> req.data # NoData)'
    BY <1>1, <1>2
  <2> QED BY <1>1, <1>3, <1>5, <2>4, <2>5 DEF Commanding, Idle
<1> QED BY <1>7, <1>8, <1>10, <1>11 DEF PipeInv, Phase

\* A transfer keeps the pipeline sound.
LEMMA WriteStep ==
    ASSUME PipeInv, NEW n \in 1 .. Len(wire), vcam_write(n)
    PROVE  PipeInv'
<1>1. /\ UNCHANGED <<req, unsent, nexttid, got>>
      /\ ran' \in Seq(Packet) /\ ptpcmd' \in Packet /\ Phase'
      /\ \/ UNCHANGED <<inbulk, seqnr, session, props>>
         \/ inbulk = <<>> /\ \E code \in Codes : \E tid : Reply(req, code, tid)
  BY WriteOutcome
<1>2. CASE UNCHANGED <<inbulk, seqnr, session, props>>
  <2>1. Base' /\ ReqInv'
    BY <1>1, <1>2 DEF PipeInv, Base, ReqInv, Valid, Opens
  <2>2. TidInv'
    BY <1>1, <1>2 DEF PipeInv, TidInv, Opens
  <2> QED BY <1>1, <2>1, <2>2 DEF PipeInv
<1>3. CASE inbulk = <<>> /\ \E code \in Codes : \E tid : Reply(req, code, tid)
  <2>1. PICK code \in Codes : \E tid : Reply(req, code, tid)
    BY <1>3
  <2>2. PICK tid : Reply(req, code, tid)
    BY <2>1
  <2>3. wire # <<>>
    OBVIOUS
  <2>4. req # NoReq
    BY <2>3, PhaseFacts DEF Idle
  <2>5. /\ inbulk' \in Seq(Container) /\ seqnr' \in Nat
        /\ session' \in {0, 1} /\ props' \in [Props -> Values]
        /\ ReqInv' /\ TidInv'
    BY <1>1, <1>3, <2>2, <2>4, ReplyKeeps
  <2>6. Base'
    BY <1>1, <2>5 DEF PipeInv, Base
  <2> QED BY <1>1, <2>5, <2>6 DEF PipeInv
<1> QED BY <1>1, <1>2, <1>3

\* The data container follows the command.
LEMMA SendDataStep ==
    ASSUME PipeInv, SendData
    PROVE  PipeInv'
<1>1. Between /\ Valid(req) /\ req # NoReq
  BY PhaseFacts DEF SendData, Between, HalfDone
<1>2. /\ wire' = Cells(Data(req)) /\ unsent' = FALSE
      /\ UNCHANGED <<cam, req, nexttid, got>>
  BY DEF SendData
<1>3. UNCHANGED <<outbulk, inbulk, seqnr, session, ptpcmd, props, ran>>
  BY <1>2 DEF cam
<1>4. Base' /\ ReqInv' /\ TidInv'
  <2>1. unsent' \in BOOLEAN
    BY <1>2, Zenon
  <2>2. Base' /\ ReqInv'
    BY <1>2, <1>3, <2>1 DEF PipeInv, Base, ReqInv, Valid, Opens
  <2>3. TidInv'
    BY <1>2, <1>3 DEF PipeInv, TidInv, Opens
  <2> QED BY <2>2, <2>3
<1>5. Sending'
  <2>1. Data(req) \in Packet /\ Words(Data(req)) \in 2 .. 4 /\ outbulk' = <<>>
    BY <1>1, <1>3, RequestPackets DEF Between, HalfDone
  <2>2. InFlight(Data(req))'
    <3>1. \A d : d = Data(req) => InFlight(d)'
      BY <1>2, <2>1, FlightBegins
    <3> QED BY <1>2, <3>1 DEF InFlight, Data, Words, Cells
  <2> QED BY <1>1, <1>2, <1>3, <2>2 DEF Sending, Between, HalfDone, RefusedEarly, Cmd
<1> QED BY <1>4, <1>5 DEF PipeInv, Phase

\* What a read takes: the data and then the response, or the response.
LEMMA ReadOutcome ==
    ASSUME PipeInv, vcam_read
    PROVE  /\ Done
           /\ \/ /\ Len(inbulk) = 2 /\ inbulk[1].type = "DATA" /\ got = NoData
                 /\ got' = inbulk[1] /\ req' = req /\ inbulk' = <<inbulk[2]>>
              \/ /\ Len(inbulk) = 1 /\ inbulk[1].type = "RESP"
                 /\ got' = NoData /\ req' = NoReq /\ inbulk' = <<>>
<1>1. Done /\ inbulk \in Seq(Container)
  BY PhaseFacts DEF vcam_read, PipeInv, Base
<1>2. inbulk' = Tail(inbulk)
  BY DEF vcam_read
<1>3. CASE Len(inbulk) = 1 /\ inbulk[1].type = "RESP"
  <2>1. inbulk' = <<>>
    BY <1>1, <1>2, <1>3
  <2> QED BY <1>1, <1>3, <2>1 DEF vcam_read
<1>4. CASE Len(inbulk) = 2 /\ inbulk[1].type = "DATA" /\ inbulk[2].type = "RESP"
  <2>1. inbulk' = <<inbulk[2]>>
    BY <1>1, <1>2, <1>4, PairOfTwo
  <2> QED BY <1>1, <1>4, <2>1 DEF vcam_read, Done
<1> QED BY <1>1, <1>3, <1>4 DEF Done, ResponseReady

\* Reading keeps the pipeline sound, and after the response it is empty.
LEMMA ReadStep ==
    ASSUME PipeInv, vcam_read
    PROVE  PipeInv'
<1>1. Done /\ req # NoReq
  BY ReadOutcome DEF Done
<1>2. UNCHANGED <<outbulk, seqnr, session, ptpcmd, props, ran, wire, unsent, nexttid>>
  BY DEF vcam_read
<1>3. Base /\ ReqInv /\ TidInv
  BY DEF PipeInv
<1>4. CASE /\ Len(inbulk) = 2 /\ inbulk[1].type = "DATA" /\ got = NoData
           /\ got' = inbulk[1] /\ req' = req /\ inbulk' = <<inbulk[2]>>
  <2>1. /\ inbulk \in Seq(Container) /\ inbulk[1] \in Container
        /\ inbulk[2] \in Container /\ inbulk[2].type = "RESP" /\ inbulk # <<>>
    BY <1>1, <1>3, <1>4 DEF Base, Done, ResponseReady
  <2>2. inbulk' \in Seq(Container) /\ Len(inbulk') = 1 /\ inbulk'[1] = inbulk[2]
        /\ inbulk' # <<>>
    BY <1>4, <2>1
  <2>3. Base'
    <3>1. inbulk[1].value \in InValue
      BY <1>4, <2>1 DEF Container
    <3> QED BY <1>2, <1>3, <1>4, <2>1, <2>2, <3>1 DEF Base
  <2>4. ReqInv'
    BY <1>2, <1>3, <1>4 DEF ReqInv, Valid, Opens
  <2>5. TidInv'
    BY <1>2, <1>3, <1>4, <2>1, <2>2 DEF TidInv
  <2>6. Done'
    BY <1>1, <1>2, <1>4, <2>1, <2>2 DEF Done, ResponseReady, Phases, Cmd, Data
  <2> QED BY <2>3, <2>4, <2>5, <2>6 DEF PipeInv, Phase
<1>5. CASE /\ Len(inbulk) = 1 /\ inbulk[1].type = "RESP"
           /\ got' = NoData /\ req' = NoReq /\ inbulk' = <<>>
  <2>1. inbulk' \in Seq(Container) /\ inbulk # <<>>
    BY <1>5
  <2>2. Base' /\ ReqInv'
    BY <1>2, <1>3, <1>5, <2>1 DEF Base, ReqInv
  <2>3. TidInv'
    BY <1>1, <1>2, <1>3, <1>5, <2>1 DEF TidInv
  <2>4. Idle'
    BY <1>1, <1>2, <1>5 DEF Idle, Done
  <2> QED BY <2>2, <2>3, <2>4 DEF PipeInv, Phase
<1> QED BY <1>4, <1>5, ReadOutcome

\* The invariant holds at start-up.
LEMMA PipeInit == Init => PipeInv
<1> SUFFICES ASSUME Init PROVE PipeInv
  OBVIOUS
<1>1. <<>> \in Seq(Container) /\ <<>> \in Seq(Packet) /\ <<>> \in Seq(Params)
  OBVIOUS
<1>2. ptpcmd \in Packet
  BY <1>1 DEF Init, Packet
<1>3. unsent \in BOOLEAN
  BY Zenon DEF Init
<1>4. Base
  BY <1>1, <1>2, <1>3 DEF Init, Base
<1>5. ReqInv /\ TidInv /\ Idle
  BY DEF Init, ReqInv, TidInv, Idle
<1> QED BY <1>4, <1>5 DEF PipeInv, Phase

\* Every step keeps the invariant.
LEMMA PipeStep ==
    ASSUME ~Careless, PipeInv, [Next]_vars
    PROVE  PipeInv'
<1>1. ASSUME NEW r \in Requests, Request(r) PROVE PipeInv'
  BY <1>1, RequestStep
<1>2. CASE Write
  BY <1>2, WriteStep DEF Write
<1>3. CASE SendData
  BY <1>3, SendDataStep
<1>4. CASE vcam_read
  BY <1>4, ReadStep
<1>5. CASE UNCHANGED vars
  <2>1. /\ UNCHANGED <<outbulk, inbulk, seqnr, session, ptpcmd, props, ran>>
        /\ UNCHANGED <<req, wire, unsent, nexttid, got>>
    BY <1>5 DEF vars, cam, initiator
  <2>2. Base' /\ ReqInv' /\ TidInv'
    BY <2>1 DEF PipeInv, Base, ReqInv, TidInv, Valid, Opens
  <2>3. ResponseReady' = ResponseReady /\ HalfDone' = HalfDone
    BY <2>1 DEF ResponseReady, HalfDone, RefusedEarly, Phases
  <2>4. Idle' = Idle /\ Commanding' = Commanding /\ Done' = Done
    BY <2>1, <2>3 DEF Idle, Commanding, Done, InFlight, Phases, Cmd, Words, Cells
  <2>5. Between' = Between /\ Sending' = Sending
    BY <2>1, <2>3 DEF Between, Sending, InFlight, Data, Words, Cells
  <2>6. Phase'
    BY <2>4, <2>5 DEF PipeInv, Phase
  <2> QED BY <2>2, <2>6 DEF PipeInv
<1> QED BY <1>1, <1>2, <1>3, <1>4, <1>5 DEF Next

\* What the invariant says to the initiator.
LEMMA PipeImplies ==
    ASSUME PipeInv
    PROVE  PipelineSound
<1>1. TypeOK
  BY PhaseFacts DEF PipeInv, Base, TypeOK, Valid
<1>2. InSync
  BY PhaseFacts DEF InSync, Idle
<1>3. SentIsHandled
  BY PhaseFacts DEF SentIsHandled, Done
<1>4. TidMatches
  <2> SUFFICES ASSUME session # 0, req # NoReq, NEW i \in DOMAIN inbulk
               PROVE  inbulk[i].tid = req.tid
    BY DEF TidMatches
  <2>1. inbulk \in Seq(Container) /\ i \in 1 .. Len(inbulk) /\ inbulk # <<>>
    BY DEF PipeInv, Base
  <2> QED BY <2>1 DEF PipeInv, TidInv
<1> QED BY <1>1, <1>2, <1>3, <1>4 DEF PipelineSound

\* For any property table, values and transaction ids, and however the initiator
\* cuts its containers into transfers: each container is handled once and in
\* order, exactly one response answers each request, stamped with its
\* transaction id while a session is open, and nothing is left in the buffers.
THEOREM PipelineStaysSound ==
    ASSUME ~Careless
    PROVE  Spec => []PipelineSound
<1>1. Init => PipeInv
  BY PipeInit
<1>2. PipeInv /\ [Next]_vars => PipeInv'
  BY PipeStep
<1>3. PipeInv => PipelineSound
  BY PipeImplies
<1> QED BY <1>1, <1>2, <1>3, PTL DEF Spec

-----------------------------------------------------------------------------
(* The engine implements the atomic server. *)

\* The call the server sees.
CallShape ==
    PipeInv =>
           /\ req = NoReq => AbstractCall = NoReq /\ AbstractAnswer = NoData
           /\ req # NoReq =>
                 /\ AbstractCall \in AnyCall /\ AbstractCall # NoReq
                 /\ AbstractCall.op = req.op /\ AbstractCall.tid = req.tid
                 /\ AbstractCall.data = req.data
                 /\ Len(req.params) = 1 => AbstractCall.arg = req.params[1]

\* The call has that shape in every state.
LEMMA CallSeen == CallShape
<1> SUFFICES ASSUME PipeInv PROVE CallShape
  BY DEF CallShape
<1>1. req = NoReq => AbstractCall = NoReq /\ AbstractAnswer = NoData
  BY DEF AbstractCall, AbstractAnswer
<1>2. ASSUME req # NoReq
      PROVE  /\ AbstractCall \in AnyCall /\ AbstractCall # NoReq
             /\ AbstractCall.op = req.op /\ AbstractCall.tid = req.tid
             /\ AbstractCall.data = req.data
             /\ Len(req.params) = 1 => AbstractCall.arg = req.params[1]
  <2>1. /\ req.op \in Ops /\ req.params \in Seq(Params) /\ req.tid \in 0 .. MaxTid
        /\ req.data \in DataPhases \cup {NoData} /\ Len(req.params) \in {0, 1}
    BY <1>2, ConstantsAssumption DEF PipeInv, ReqInv, Valid, Req
  <2> DEFINE arg == IF req.params = <<>> THEN NoData ELSE req.params[1]
  <2>2. arg \in Params \cup {NoData} /\ (Len(req.params) = 1 => arg = req.params[1])
    BY <2>1
  <2>3. AbstractCall = [op |-> req.op, tid |-> req.tid, data |-> req.data, arg |-> arg]
    BY <1>2 DEF AbstractCall
  <2> HIDE DEF arg
  <2>4. AbstractCall \in AnyCall
    BY <2>1, <2>2, <2>3 DEF AnyCall
  <2> QED BY <2>2, <2>3, <2>4, MarkersAssumption
<1> QED BY <1>1, <1>2 DEF CallShape

\* The same of the next state.
LEMMA CallSeenNext == CallShape'
  BY CallSeen, PTL

\* The answer the server sees while the bulk-in buffer holds nothing, the
\* response, or the data and the response.
AnswerShape ==
    /\ inbulk = <<>> => AbstractAnswer = NoData
    /\ req # NoReq /\ Len(inbulk) = 1 /\ inbulk \in Seq(Container)
       /\ inbulk[1].type = "RESP" =>
          AbstractAnswer = [ok |-> inbulk[1].code = "OK", tid |-> inbulk[1].tid,
                            value |-> IF got = NoData THEN NoData ELSE got.value]
    /\ req # NoReq /\ Len(inbulk) = 2 /\ inbulk \in Seq(Container)
       /\ inbulk[1].type = "DATA" /\ inbulk[2].type = "RESP" /\ got = NoData =>
          AbstractAnswer = [ok |-> inbulk[2].code = "OK", tid |-> inbulk[2].tid,
                            value |-> inbulk[1].value]

\* The answer has that shape in every state.
LEMMA AnswerSeen == AnswerShape
<1>1. inbulk = <<>> => AbstractAnswer = NoData
  <2>1. inbulk = <<>> => Responses = {}
    BY DEF Responses
  <2> QED BY <2>1 DEF AbstractAnswer
<1>2. ASSUME req # NoReq, Len(inbulk) = 1, inbulk \in Seq(Container),
             inbulk[1].type = "RESP"
      PROVE  AbstractAnswer = [ok |-> inbulk[1].code = "OK", tid |-> inbulk[1].tid,
                               value |-> IF got = NoData THEN NoData ELSE got.value]
  <2>1. DOMAIN inbulk = {1}
    BY <1>2
  <2>2. Responses = {1}
    BY <1>2, <2>1 DEF Responses
  <2>3. (CHOOSE i \in Responses : TRUE) = 1 /\ Responses # {}
    BY <2>2
  <2>4. DataSeen = IF got = NoData THEN {} ELSE {got.value}
    BY <2>1, <2>2 DEF DataSeen
  <2>5. (IF DataSeen = {} THEN NoData ELSE CHOOSE v \in DataSeen : TRUE)
           = IF got = NoData THEN NoData ELSE got.value
    BY <2>4
  <2> QED BY <1>2, <2>3, <2>5, Zenon DEF AbstractAnswer
<1>3. ASSUME req # NoReq, Len(inbulk) = 2, inbulk \in Seq(Container),
             inbulk[1].type = "DATA", inbulk[2].type = "RESP", got = NoData
      PROVE  AbstractAnswer = [ok |-> inbulk[2].code = "OK", tid |-> inbulk[2].tid,
                               value |-> inbulk[1].value]
  <2>1. DOMAIN inbulk = {1, 2}
    BY <1>3
  <2>2. Responses = {2}
    BY <1>3, <2>1 DEF Responses
  <2>3. (CHOOSE i \in Responses : TRUE) = 2 /\ Responses # {}
    BY <2>2
  <2>4. DataSeen = {inbulk[1].value}
    BY <1>3, <2>1, <2>2 DEF DataSeen
  <2>5. (IF DataSeen = {} THEN NoData ELSE CHOOSE v \in DataSeen : TRUE)
           = inbulk[1].value
    BY <2>4
  <2> QED BY <1>3, <2>3, <2>5, Zenon DEF AbstractAnswer
<1> QED BY <1>1, <1>2, <1>3 DEF AnswerShape

\* The same of the next state.
LEMMA AnswerSeenNext == AnswerShape'
  BY AnswerSeen, PTL

\* An answered request has an answer, and it is not the marker for none.
LEMMA AnswerPresent ==
    ASSUME PipeInv, Len(inbulk) = 1, inbulk[1].type = "RESP", req # NoReq
    PROVE  AbstractAnswer # NoData
<1>1. inbulk \in Seq(Container) /\ inbulk[1] \in Container
  <2>1. inbulk \in Seq(Container) /\ 1 \in 1 .. Len(inbulk)
    BY DEF PipeInv, Base
  <2> QED BY <2>1
<1>2. inbulk[1].tid \in Nat
  BY <1>1 DEF Container
<1> DEFINE v == IF got = NoData THEN NoData ELSE got.value
           b == inbulk[1].code = "OK"
<1>3. v \in InValue
  <2>1. CASE got = NoData
    BY <2>1 DEF InValue
  <2>2. CASE got # NoData
    BY <2>2 DEF PipeInv, Base
  <2> QED BY <2>1, <2>2
<1>4. b \in BOOLEAN
  BY Zenon
<1>5. AbstractAnswer = [ok |-> b, tid |-> inbulk[1].tid, value |-> v]
  BY <1>1, AnswerSeen DEF AnswerShape
<1> HIDE DEF v, b
<1>6. AbstractAnswer \in [ok : BOOLEAN, tid : Nat, value : InValue]
  BY <1>2, <1>3, <1>4, <1>5
<1> QED BY <1>6, MarkersAssumption

\* The answer depends on the request, the bulk-in buffer and the data read.
LEMMA AnswerKept ==
    ASSUME UNCHANGED <<req, inbulk, got>>
    PROVE  UNCHANGED <<AbstractCall, AbstractAnswer>>
<1>1. AbstractCall' = AbstractCall
  BY DEF AbstractCall
<1>2. Responses' = Responses
  BY DEF Responses
<1>3. DataSeen' = DataSeen
  BY <1>2 DEF DataSeen
<1>4. AbstractAnswer' = AbstractAnswer
  <2>1. req' = req /\ inbulk' = inbulk
    OBVIOUS
  <2>2. (CHOOSE i \in Responses : TRUE)' = CHOOSE i \in Responses : TRUE
    BY <1>2
  <2>3. (IF DataSeen = {} THEN NoData ELSE CHOOSE v \in DataSeen : TRUE)'
          = IF DataSeen = {} THEN NoData ELSE CHOOSE v \in DataSeen : TRUE
    BY <1>3
  <2>4. CASE req = NoReq \/ Responses = {}
    BY <1>2, <2>1, <2>4 DEF AbstractAnswer
  <2>5. CASE ~(req = NoReq \/ Responses = {})
    <3>1. AbstractAnswer =
            [ok |-> inbulk[CHOOSE i \in Responses : TRUE].code = "OK",
             tid |-> inbulk[CHOOSE i \in Responses : TRUE].tid,
             value |-> IF DataSeen = {} THEN NoData ELSE CHOOSE v \in DataSeen : TRUE]
      BY <2>5, Zenon DEF AbstractAnswer
    <3>2. AbstractAnswer' =
            [ok |-> inbulk'[(CHOOSE i \in Responses : TRUE)'].code = "OK",
             tid |-> inbulk'[(CHOOSE i \in Responses : TRUE)'].tid,
             value |-> (IF DataSeen = {} THEN NoData
                        ELSE CHOOSE v \in DataSeen : TRUE)']
      BY <1>2, <2>1, <2>5, Zenon DEF AbstractAnswer
    <3> QED BY <2>1, <2>2, <2>3, <3>1, <3>2, Zenon
  <2> QED BY <2>4, <2>5
<1> QED BY <1>1, <1>4

\* A new request is a call.
LEMMA RequestRefines ==
    ASSUME ~Careless, PipeInv, PipeInv', NEW r \in Requests, Request(r)
    PROVE  Server!Next
<1>1. req = NoReq /\ inbulk' = <<>> /\ UNCHANGED <<session, props>>
  BY PhaseFacts DEF Request, Idle
<1>2. AbstractCall = NoReq /\ AbstractAnswer = NoData
  BY <1>1, CallSeen DEF CallShape
<1>3. AbstractAnswer' = NoData
  BY <1>1, AnswerSeenNext DEF AnswerShape
<1>4. req' # NoReq
  <2>1. Valid([op |-> r.op, params |-> r.params, data |-> r.data, tid |-> TidFor(r)])
    BY ValidRequests DEF PipeInv, Request
  <2> QED BY <2>1, MarkersAssumption DEF Request, Valid
<1>5. AbstractCall' \in AnyCall
  BY <1>4, CallSeenNext DEF CallShape
<1>6. PICK c \in AnyCall : c = AbstractCall'
  BY <1>5
<1>7. (session # 0)' = (session # 0)
  BY <1>1
<1>8. Server!Call(c)
  BY <1>1, <1>2, <1>3, <1>6, <1>7 DEF Server!Call
<1> QED BY <1>8 DEF Server!Next

\* A reply is the server's answer: it carries the call's transaction id and has
\* the effect the call asks for.
LEMMA ReplyRefines ==
    ASSUME PipeInv, PipeInv', req # NoReq, inbulk = <<>>, got = NoData,
           NEW code \in Codes, NEW tid, Reply(req, code, tid),
           UNCHANGED <<req, nexttid, got>>
    PROVE  Server!Next
<1>1. /\ tid \in 0 .. MaxTid /\ (session # 0 => tid = req.tid)
      /\ inbulk' \in Seq(Container)
  BY ReplyKeeps
<1>2. AbstractAnswer = NoData
  BY AnswerSeen DEF AnswerShape
<1>3. /\ AbstractCall # NoReq /\ AbstractCall.op = req.op
      /\ AbstractCall.tid = req.tid /\ AbstractCall.data = req.data
      /\ Len(req.params) = 1 => AbstractCall.arg = req.params[1]
  BY CallSeen DEF CallShape
<1>4. AbstractCall' = AbstractCall
  BY DEF AbstractCall
<1>5. PICK b \in BOOLEAN : b <=> code = "OK"
  <2>1. (code = "OK") \in BOOLEAN
    BY Zenon
  <2> QED BY <2>1, Zenon
<1>6. PICK v \in InValue :
        /\ AbstractAnswer' = [ok |-> code = "OK", tid |-> tid, value |-> v]
        /\ code = "OK" /\ req.op = "GetDevicePropValue" =>
              req.params[1] \in Props /\ v = props[req.params[1]]
  <2>1. CASE /\ inbulk' = <<Resp(code, tid)>>
             /\ code = "OK" => req.op # "GetDevicePropValue"
    <3> DEFINE e == Resp(code, tid)
    <3>1. e.type = "RESP" /\ e.code = code /\ e.tid = tid
      BY DEF Resp
    <3>2. inbulk' = <<e>>
      BY <2>1
    <3> HIDE DEF e
    <3>3. Len(inbulk') = 1 /\ inbulk'[1] = e
      BY <3>2
    <3>4. AbstractAnswer' = [ok |-> inbulk'[1].code = "OK", tid |-> inbulk'[1].tid,
                             value |-> NoData]
      BY <1>1, <3>1, <3>3, AnswerSeenNext DEF AnswerShape
    <3>5. AbstractAnswer' = [ok |-> code = "OK", tid |-> tid, value |-> NoData]
      BY <3>1, <3>3, <3>4, Zenon
    <3>6. NoData \in InValue
      BY DEF InValue
    <3> QED BY <2>1, <3>5, <3>6, Zenon
  <2>2. CASE \E v \in InValue :
                /\ inbulk' = <<DataIn(v, tid), Resp(code, tid)>>
                /\ req.op = "GetDevicePropValue" =>
                      req.params[1] \in Props /\ v = props[req.params[1]]
    <3>1. PICK v \in InValue :
                /\ inbulk' = <<DataIn(v, tid), Resp(code, tid)>>
                /\ req.op = "GetDevicePropValue" =>
                      req.params[1] \in Props /\ v = props[req.params[1]]
      BY <2>2
    <3> DEFINE d == DataIn(v, tid)
               e == Resp(code, tid)
    <3>2. d.type = "DATA" /\ d.value = v
      BY DEF DataIn
    <3>3. e.type = "RESP" /\ e.code = code /\ e.tid = tid
      BY DEF Resp
    <3>4. inbulk' = <<d, e>>
      BY <3>1
    <3> HIDE DEF d, e
    <3>5. Len(inbulk') = 2 /\ inbulk'[1] = d /\ inbulk'[2] = e
      BY <3>4
    <3>6. AbstractAnswer' = [ok |-> inbulk'[2].code = "OK", tid |-> inbulk'[2].tid,
                             value |-> inbulk'[1].value]
      BY <1>1, <3>2, <3>3, <3>5, AnswerSeenNext DEF AnswerShape
    <3>7. AbstractAnswer' = [ok |-> code = "OK", tid |-> tid, value |-> v]
      BY <3>2, <3>3, <3>5, <3>6, Zenon
    <3> QED BY <3>1, <3>7, Zenon
  <2> QED BY <2>1, <2>2 DEF Reply
<1>7. PICK a : a = [ok |-> b, tid |-> tid, value |-> v]
  OBVIOUS
<1>8. AbstractAnswer' = a
  <2>1. b = (code = "OK")
    BY <1>5, Zenon
  <2> QED BY <1>6, <1>7, <2>1, Zenon
<1>9. a \in Server!Answers
  BY <1>1, <1>7 DEF Server!Answers, InValue
<1>10. a.tid = tid /\ a.value = v
  BY <1>7
<1>11. a.ok <=> code = "OK"
  <2>1. a.ok = b
    BY <1>7
  <2> QED BY <1>5, <2>1, Zenon
<1>12. /\ Valid(req) /\ Len(req.params) \in {0, 1}
       /\ req.op \in {"SetDevicePropValue", "GetDevicePropValue"} =>
             Len(req.params) = 1
  BY DEF PipeInv, ReqInv, Valid, DataOps
<1>13. CASE code # "OK"
  <2>1. req.op # "GetDeviceInfo" /\ UNCHANGED <<session, props>>
    BY <1>13 DEF Reply
  <2>2. Server!Serve(a)
    BY <1>1, <1>2, <1>3, <1>4, <1>8, <1>10, <1>11, <1>13, <2>1 DEF Server!Serve
  <2> QED BY <1>9, <2>2 DEF Server!Next
<1>14. CASE code = "OK"
  <2>1. Server!Allowed(AbstractCall)
    BY <1>3, <1>14 DEF Server!Allowed, Reply
  <2>2. Server!Effect(AbstractCall, a)
    <3>1. CASE req.op = "OpenSession"
      BY <1>3, <1>14, <3>1 DEF Server!Effect, Reply
    <3>2. CASE req.op = "CloseSession"
      BY <1>3, <1>14, <3>2 DEF Server!Effect, Reply
    <3>3. CASE req.op = "SetDevicePropValue"
      BY <1>3, <1>12, <1>14, <3>3 DEF Server!Effect, Reply
    <3>4. CASE req.op = "GetDevicePropValue"
      BY <1>3, <1>6, <1>10, <1>12, <1>14, <3>4 DEF Server!Effect, Reply
    <3>5. CASE req.op \notin {"OpenSession", "CloseSession", "SetDevicePropValue",
                              "GetDevicePropValue"}
      BY <1>3, <1>14, <3>5 DEF Server!Effect, Reply
    <3> QED BY <3>1, <3>2, <3>3, <3>4, <3>5
  <2>3. Server!Serve(a)
    BY <1>1, <1>2, <1>3, <1>4, <1>8, <1>10, <1>11, <1>14, <2>1, <2>2
       DEF Server!Serve
  <2> QED BY <1>9, <2>3 DEF Server!Next
<1> QED BY <1>13, <1>14

\* Reading the data is no step of the server; reading the response returns.
LEMMA ReadRefines ==
    ASSUME PipeInv, PipeInv', vcam_read
    PROVE  Server!Next \/ UNCHANGED Server!vars
<1>1. Done /\ req # NoReq /\ UNCHANGED <<session, props>>
  BY ReadOutcome DEF Done, vcam_read
<1>2. inbulk \in Seq(Container)
  BY DEF PipeInv, Base
<1>3. CASE /\ Len(inbulk) = 2 /\ inbulk[1].type = "DATA" /\ got = NoData
           /\ got' = inbulk[1] /\ req' = req /\ inbulk' = <<inbulk[2]>>
  <2>1. /\ inbulk[1] \in Container /\ inbulk[2] \in Container
        /\ inbulk[2].type = "RESP"
    BY <1>1, <1>2, <1>3 DEF Done, ResponseReady
  <2>2. got' # NoData
    BY <1>3, <2>1, MarkersAssumption
  <2>3. inbulk' \in Seq(Container) /\ Len(inbulk') = 1 /\ inbulk'[1] = inbulk[2]
    BY <1>3, <2>1
  <2>4. AbstractAnswer = [ok |-> inbulk[2].code = "OK", tid |-> inbulk[2].tid,
                          value |-> inbulk[1].value]
    BY <1>1, <1>2, <1>3, <2>1, AnswerSeen DEF AnswerShape
  <2>5. AbstractAnswer' = [ok |-> inbulk'[1].code = "OK", tid |-> inbulk'[1].tid,
                           value |-> got'.value]
    BY <1>1, <1>3, <2>1, <2>2, <2>3, AnswerSeenNext DEF AnswerShape
  <2>6. AbstractAnswer' = AbstractAnswer
    BY <1>3, <2>3, <2>4, <2>5, Zenon
  <2>7. AbstractCall' = AbstractCall
    BY <1>3 DEF AbstractCall
  <2> QED BY <1>1, <2>6, <2>7 DEF Server!vars
<1>4. CASE /\ Len(inbulk) = 1 /\ inbulk[1].type = "RESP"
           /\ got' = NoData /\ req' = NoReq /\ inbulk' = <<>>
  <2>1. AbstractAnswer # NoData
    BY <1>1, <1>4, AnswerPresent
  <2>2. AbstractCall' = NoReq /\ AbstractAnswer' = NoData
    BY <1>4, CallSeenNext DEF CallShape
  <2>3. Server!Return
    BY <1>1, <2>1, <2>2 DEF Server!Return
  <2> QED BY <2>3 DEF Server!Next
<1> QED BY <1>3, <1>4, ReadOutcome

\* The engine with its buffers, its handlers in two phases and its own
\* transaction counter implements the atomic server, as far as safety goes.
THEOREM EngineRefinesServer ==
    ASSUME ~Careless
    PROVE  Spec => Server!Init /\ [][Server!Next]_(Server!vars)
<1>1. Init => Server!Init
  <2> SUFFICES ASSUME Init PROVE Server!Init
    OBVIOUS
  <2>1. PipeInv
    BY PipeInit
  <2>2. AbstractCall = NoReq /\ AbstractAnswer = NoData
    BY <2>1, CallSeen DEF CallShape, Init
  <2> QED BY <2>2 DEF Init, Server!Init
<1>2. PipeInv /\ PipeInv' /\ [Next]_vars => [Server!Next]_(Server!vars)
  <2> SUFFICES ASSUME PipeInv, PipeInv', [Next]_vars
               PROVE  Server!Next \/ UNCHANGED Server!vars
    BY DEF Server!vars
  <2>1. ASSUME NEW r \in Requests, Request(r) PROVE Server!Next
    BY <2>1, RequestRefines
  <2>2. ASSUME NEW n \in 1 .. Len(wire), vcam_write(n)
        PROVE  Server!Next \/ UNCHANGED Server!vars
    <3>1. /\ UNCHANGED <<req, unsent, nexttid, got>>
          /\ \/ UNCHANGED <<inbulk, seqnr, session, props>>
             \/ inbulk = <<>> /\ \E code \in Codes : \E tid : Reply(req, code, tid)
      BY <2>2, WriteOutcome
    <3>2. CASE UNCHANGED <<inbulk, seqnr, session, props>>
      BY <3>1, <3>2, AnswerKept DEF Server!vars
    <3>3. CASE inbulk = <<>> /\ \E code \in Codes : \E tid : Reply(req, code, tid)
      <4>1. wire # <<>>
        BY <2>2
      <4>2. req # NoReq /\ got = NoData
        BY <4>1, PhaseFacts DEF Commanding, Sending, HalfDone
      <4> QED BY <3>1, <3>3, <4>2, ReplyRefines
    <3> QED BY <3>1, <3>2, <3>3
  <2>3. CASE SendData
    <3>1. UNCHANGED <<req, inbulk, got, session, props>>
      BY <2>3 DEF SendData, cam
    <3> QED BY <3>1, AnswerKept DEF Server!vars
  <2>4. CASE vcam_read
    BY <2>4, ReadRefines
  <2>5. CASE UNCHANGED vars
    <3>1. UNCHANGED <<req, inbulk, got, session, props>>
      BY <2>5 DEF vars, cam, initiator
    <3> QED BY <3>1, AnswerKept DEF Server!vars
  <2> QED BY <2>1, <2>2, <2>3, <2>4, <2>5 DEF Next, Write
<1>3. Init => PipeInv
  BY PipeInit
<1>4. PipeInv /\ [Next]_vars => PipeInv'
  BY PipeStep
<1> QED BY <1>1, <1>2, <1>3, <1>4, PTL DEF Spec

-----------------------------------------------------------------------------
(* The TCP servers in front of the camera: the replies of a connection *)

\* What a client sends, and what the camera and the server make of it.
ClientPacket ==
    [type : {"init", "cmd", "data", "start", "middle", "end", "sentinel"},
     op : Operations \cup {"none"}, tid : Nat]

ServerReply ==
    [type : {"hello", "data", "start", "end", "response"}, tid : Nat, conn : Nat]

\* A packet whose request goes on in the packet behind it, and that one's type.
Continues(p) == p.type \in {"start", "middle"} \/ (p.type = "cmd" /\ p.op \in Writes)

Follower(p) ==
    IF server = "fuji" THEN "data"
    ELSE IF p.type = "cmd" THEN "start"
    ELSE IF p.type = "start" /\ p.op = "chunked" THEN "middle" ELSE "end"

\* The packet belongs to the protocol of the server.
Speaks(p) ==
    /\ p.type \in {"init", "sentinel"} => p.op = "none" /\ p.tid = 0
    /\ p.type = "cmd" => p.op \in Operations
    /\ p.type \in {"data", "start", "middle", "end"} => p.op \in Writes
    /\ server = "fuji" => /\ p.type \in {"init", "cmd", "data", "sentinel"}
                          /\ p.op # "unsent"
    /\ server = "ptpip" => p.type \notin {"data", "sentinel"}

\* A request is followed by its data and by nothing else, and nothing comes
\* behind a sentinel.
Ordered(w, i) ==
    /\ (w[i].type = "init") = (i = 1)
    /\ Continues(w[i]) => /\ i < Len(w)
                          /\ w[i + 1] = [w[i] EXCEPT !.type = Follower(w[i])]
    /\ w[i].type = "sentinel" => i = Len(w)
    /\ ~Continues(w[i]) /\ i < Len(w) => w[i + 1].type \in {"cmd", "sentinel"}

WireInv ==
    /\ packets \in Seq(ClientPacket)
    /\ \A i \in 1 .. Len(packets) : Speaks(packets[i]) /\ Ordered(packets, i)

\* The packets the server has read completely.
Taken == consumed \div 3

\* The server has all of the request that ends with this packet.
Complete(p) ==
    \/ p.type \in {"init", "data"}
    \/ p.type = "end" /\ p.op # "chunked"
    \/ p.type = "cmd" /\ (p.op \notin Writes \/ (server = "fuji" /\ p.op = "refused"))

Outside == {"accept", "ended", "killed"}
InBody == {"body", "data_body", "end_body"}
Receiving == InBody \cup {"length", "data_length", "end_length"}

\* Where the server is in its loop tells what it has read last.
LoopInv ==
    /\ pc \in {"accept", "ended"} => peer = "none"
    /\ pc = "ended" => server = "ptpip"
    /\ pc = "killed" => peer = "reset"
    /\ pc = "accept" /\ server = "ptpip" => ~forced
    /\ pc \notin Outside =>
          /\ peer # "none"
          /\ consumed = IF pc \in InBody THEN 3 * Taken + 1 ELSE 3 * Taken
          /\ first_write <=> Taken = 0
          /\ hello <=> (Taken = IF pc = "send" THEN 1 ELSE 0)
    /\ pc \in {"length", "body"} => Taken = 0 \/ Complete(packets[Taken])
    /\ pc \in {"data_length", "data_body"} =>
          /\ Taken > 0 /\ packets[Taken].type = "cmd"
          /\ packets[Taken].op \in Writes /\ ~Complete(packets[Taken])
    /\ pc \in {"end_length", "end_body"} =>
          Taken > 0 /\ packets[Taken].type = "start" /\ server = "ptpip"
    /\ pc \in {"send", "send_response"} => Taken > 0 /\ Complete(packets[Taken])

\* Data is queued together with its response.
Paired(s) ==
    \A i \in 1 .. Len(s) : s[i].type = "data" =>
        i < Len(s) /\ s[i + 1].type = "response"

\* When the server sends, there is something to send.
QueueInv ==
    /\ queued \in Seq(ServerReply)
    /\ Paired(queued)
    /\ hello => queued = <<>>
    /\ pc = "send_response" => queued # <<>>
    /\ pc = "send" /\ ~hello =>
          queued # <<>> \/ (server = "ptpip" /\ packets[Taken].op = "unsent")

\* What the client is owed for the first k of the packets w.
Owed(w, k) == FlattenSeq([i \in 1 .. k |-> Expected(w[i])])

\* What the camera queues for the packet that completes a request.
QueuedFor(p) ==
    IF p.type = "cmd" THEN CommandReplies(p.op, p.tid)
    ELSE IF p.type \in {"data", "end"} THEN DataReplies(p.tid) ELSE <<>>

\* A client that is there has what it is owed for the packets the server has
\* read, but for what the server is just about to send.
StepInv ==
    InStep =>
        /\ pc \in Receiving =>
              queued = <<>> /\ (peer = "open" => replies = Owed(packets, Taken))
        /\ pc = "send" =>
              /\ queued = QueuedFor(packets[Taken])
              /\ peer = "open" => replies = Owed(packets, Taken - 1)
        /\ pc = "send_response" =>
              /\ queued = DataReplies(packets[Taken].tid)
              /\ peer = "open" => replies \o queued = Owed(packets, Taken)

BridgeInv ==
    /\ BridgeTypeOK
    /\ server \in {"ptpip", "fuji"}
    /\ replies \in Seq(ServerReply)
    /\ WireInv
    /\ LoopInv
    /\ QueueInv
    /\ StepInv
    /\ ForcedOnlyByTcp
    /\ RepliesInOrder

\* The server has read no more packets than there are.
LEMMA TakenRange ==
    ASSUME BridgeTypeOK, WireInv
    PROVE  /\ consumed \in Nat /\ Taken \in Nat /\ Taken \in 0 .. Len(packets)
           /\ Len(packets) \in Nat /\ arrived \in 0 .. 3 * Len(packets)
           /\ consumed <= arrived
<1>1. Len(packets) \in Nat /\ arrived \in 0 .. 3 * Len(packets) /\ consumed \in 0 .. arrived
  BY DEF BridgeTypeOK, WireInv
<1> DEFINE n == Len(packets)
<1>2. n \in Nat /\ consumed \in Nat /\ consumed <= 3 * n
  BY <1>1
<1> HIDE DEF n
<1>3. consumed \div 3 \in 0 .. n
  BY <1>2
<1> QED BY <1>1, <1>2, <1>3 DEF Taken, n

\* The rest of a packet is there: the one that is read, and the new position.
LEMMA BodyTaken ==
    ASSUME BridgeTypeOK, WireInv, LoopInv, pc \in InBody, Whole,
           consumed' = consumed + 2
    PROVE  /\ Taken' = Taken + 1 /\ consumed' = 3 * Taken'
           /\ Taken + 1 \in 1 .. Len(packets)
           /\ Reading = packets[Taken + 1]
           /\ consumed' \in 0 .. arrived
<1>1. /\ consumed \in Nat /\ Taken \in Nat /\ Len(packets) \in Nat
      /\ arrived \in 0 .. 3 * Len(packets) /\ consumed <= arrived
  BY TakenRange
<1>2. consumed = 3 * Taken + 1
  BY DEF LoopInv, InBody, Outside
<1>3. consumed + 2 <= arrived
  BY <1>1 DEF Whole, Unread
<1> DEFINE k == Taken
<1>4. k \in Nat /\ consumed' = 3 * k + 3
  BY <1>1, <1>2
<1> HIDE DEF k
<1>5. consumed' \div 3 = k + 1
  BY <1>4
<1>6. Taken' = Taken + 1
  BY <1>5 DEF Taken, k
<1>7. Taken + 1 <= Len(packets)
  BY <1>1, <1>2, <1>3
<1> QED BY <1>1, <1>2, <1>3, <1>6, <1>7 DEF Reading, Taken

\* What a packet earns its client.
LEMMA ExpectedType ==
    ASSUME conn \in Nat, NEW p \in ClientPacket
    PROVE  Expected(p) \in Seq(ServerReply)
<1>1. p.tid \in Nat
  BY DEF ClientPacket
<1>2. \A type \in {"hello", "data", "start", "end", "response"} :
         ContainerOf(type, p.tid) \in ServerReply
  BY <1>1 DEF ContainerOf, ServerReply
<1>3. ToClient(ContainerOf("data", p.tid)) \in Seq(ServerReply)
  <2> DEFINE d == ContainerOf("data", p.tid)
  <2>1. [d EXCEPT !.type = "start"] \in ServerReply /\ [d EXCEPT !.type = "end"] \in ServerReply
        /\ d \in ServerReply
    BY <1>1 DEF ContainerOf, ServerReply
  <2> HIDE DEF d
  <2> QED BY <2>1 DEF ToClient, d
<1>4. /\ <<ContainerOf("hello", p.tid)>> \in Seq(ServerReply)
      /\ <<ContainerOf("response", p.tid)>> \in Seq(ServerReply)
  BY <1>2
<1>5. ToClient(ContainerOf("data", p.tid))
        \o <<ContainerOf("response", p.tid)>> \in Seq(ServerReply)
  BY <1>3, <1>4, ConcatProperties
<1> QED BY <1>4, <1>5 DEF Expected

\* The answers to the first packets, as a sequence of sequences.
LEMMA OwedParts ==
    ASSUME NEW w \in Seq(ClientPacket), conn \in Nat, NEW k \in 0 .. Len(w)
    PROVE  /\ [i \in 1 .. k |-> Expected(w[i])] \in Seq(Seq(ServerReply))
           /\ Len([i \in 1 .. k |-> Expected(w[i])]) = k
           /\ Owed(w, k) \in Seq(ServerReply)
<1>1. k \in Nat /\ \A i \in 1 .. k : w[i] \in ClientPacket
  OBVIOUS
<1>2. \A i \in 1 .. k : Expected(w[i]) \in Seq(ServerReply)
  BY <1>1, ExpectedType
<1> DEFINE s == [i \in 1 .. k |-> Expected(w[i])]
<1>3. s \in Seq(Seq(ServerReply)) /\ Len(s) = k
  BY <1>1, <1>2
<1> HIDE DEF s
<1>4. FlattenSeq(s) \in Seq(ServerReply)
  BY <1>3, FlattenType
<1> QED BY <1>3, <1>4 DEF Owed, s

\* The next packet adds what it earns.
LEMMA OwedNext ==
    ASSUME NEW w \in Seq(ClientPacket), conn \in Nat, NEW k \in Nat, k + 1 <= Len(w)
    PROVE  Owed(w, k + 1) = Owed(w, k) \o Expected(w[k + 1])
<1> DEFINE s == [i \in 1 .. k |-> Expected(w[i])]
           t == [i \in 1 .. k + 1 |-> Expected(w[i])]
           x == Expected(w[k + 1])
<1>0. Len(w) \in Nat /\ k \in 0 .. Len(w) /\ k + 1 \in 0 .. Len(w)
  OBVIOUS
<1>1. /\ s \in Seq(Seq(ServerReply)) /\ Len(s) = k
      /\ t \in Seq(Seq(ServerReply)) /\ Len(t) = k + 1
  BY <1>0, OwedParts
<1>2. /\ \A i \in 1 .. k : t[i] = s[i]
      /\ t[k + 1] = x /\ x \in Seq(ServerReply)
  <2>1. \A i \in 1 .. k : i \in 1 .. k + 1
    OBVIOUS
  <2>2. w[k + 1] \in ClientPacket
    BY <1>0
  <2>3. x \in Seq(ServerReply)
    BY <2>2, ExpectedType
  <2> QED BY <2>1, <2>3
<1>3. Owed(w, k) = FlattenSeq(s) /\ Owed(w, k + 1) = FlattenSeq(t)
  BY DEF Owed
<1> HIDE DEF s, t, x
<1>4. /\ Append(s, x) \in Seq(Seq(ServerReply)) /\ Len(Append(s, x)) = k + 1
      /\ \A i \in 1 .. k : Append(s, x)[i] = s[i]
      /\ Append(s, x)[k + 1] = x
  BY <1>1, <1>2, AppendProperties
<1>5. ASSUME NEW i \in 1 .. k + 1 PROVE t[i] = Append(s, x)[i]
  <2>1. i \in 1 .. k \/ i = k + 1
    OBVIOUS
  <2> QED BY <1>2, <1>4, <2>1
<1>6. t = Append(s, x)
  BY <1>1, <1>4, <1>5, SeqEqual
<1>7. FlattenSeq(Append(s, x)) = FlattenSeq(s) \o x
  BY <1>1, <1>2, FlattenAppend
<1> QED BY <1>3, <1>6, <1>7 DEF x

\* What is owed for a front of the packets is a front of what is owed for all.
LEMMA OwedPrefix ==
    ASSUME NEW w \in Seq(ClientPacket), conn \in Nat, NEW k \in 0 .. Len(w)
    PROVE  IsPrefix(Owed(w, k), Owed(w, Len(w)))
<1> DEFINE n == Len(w)
           s == [i \in 1 .. k |-> Expected(w[i])]
           t == [i \in 1 .. n |-> Expected(w[i])]
<1>1. n \in Nat /\ n \in 0 .. n /\ k \in Nat /\ k <= n
  OBVIOUS
<1>2. /\ s \in Seq(Seq(ServerReply)) /\ Len(s) = k
      /\ t \in Seq(Seq(ServerReply)) /\ Len(t) = n
  BY <1>1, OwedParts
<1>3. \A i \in 1 .. k : t[i] = s[i]
  <2>1. \A i \in 1 .. k : i \in 1 .. n
    BY <1>1
  <2> HIDE DEF n
  <2> QED BY <2>1
<1>4. Owed(w, k) = FlattenSeq(s) /\ Owed(w, n) = FlattenSeq(t)
  BY DEF Owed
<1> HIDE DEF s, t, n
<1>5. IsPrefix(FlattenSeq(s), FlattenSeq(t))
  BY <1>1, <1>2, <1>3, FlattenPrefix
<1> QED BY <1>4, <1>5 DEF n

\* Nothing that is owed depends on more than the packets and the connection.
LEMMA OwedAfter ==
    ASSUME server' = server, conn' = conn
    PROVE  /\ Owed(packets, Taken)' = Owed(packets', Taken')
           /\ Owed(packets, Taken - 1)' = Owed(packets', Taken' - 1)
           /\ Owed(packets, Len(packets))' = Owed(packets', Len(packets'))
           /\ \A p : QueuedFor(p)' = QueuedFor(p)
           /\ \A p : Complete(p)' = Complete(p)
<1>1. \A p : Expected(p)' = Expected(p)
  BY DEF Expected, ToClient, ContainerOf
<1>2. \A p : QueuedFor(p)' = QueuedFor(p)
  BY DEF QueuedFor, CommandReplies, DataReplies, ContainerOf
<1>3. \A p : Complete(p)' = Complete(p)
  BY DEF Complete
<1> QED BY <1>1, <1>2, <1>3 DEF Owed

\* The order of the replies in terms of what is owed.
LEMMA InOrder ==
    ASSUME WireInv
    PROVE  RepliesInOrder <=>
              (InStep => IsPrefix(replies, Owed(packets, Len(packets))))
<1>1. DOMAIN packets = 1 .. Len(packets)
  BY DEF WireInv
<1> QED BY <1>1 DEF RepliesInOrder, Owed

\* The same for the state behind a step.
LEMMA InOrderAfter ==
    ASSUME server' = server, conn' = conn, WireInv',
           InStep' => IsPrefix(replies', Owed(packets', Len(packets')))
    PROVE  RepliesInOrder'
<1>1. DOMAIN packets' = 1 .. Len(packets')
  BY DEF WireInv
<1>2. Owed(packets, Len(packets))' = Owed(packets', Len(packets'))
  BY OwedAfter
<1>3. InStep' => IsPrefix(replies', Owed(packets, Len(packets))')
  BY <1>2
<1> QED BY <1>1, <1>3 DEF RepliesInOrder, Owed

\* The packets stay what they are when none is sent.
LEMMA WireSame ==
    ASSUME WireInv, packets' = packets, server' = server
    PROVE  WireInv' /\ (InStep' <=> InStep)
  BY DEF WireInv, Speaks, Ordered, Continues, Follower, InStep

\* Steps of the client and of the event thread that leave the server alone.
LEMMA BridgeQuietInv ==
    ASSUME BridgeInv, BridgeTypeOK', ForcedOnlyByTcp',
           server' = server, conn' = conn, packets' = packets, replies' = replies,
           queued' = queued, hello' = hello, first_write' = first_write,
           pc' = pc, consumed' = consumed, forced' = forced,
           peer' = peer \/ (peer = "open" /\ peer' = "fin")
    PROVE  BridgeInv'
<1>1. Taken' = Taken
  BY DEF Taken
<1>2. WireInv' /\ (InStep' <=> InStep)
  BY WireSame DEF BridgeInv
<1>3. /\ Owed(packets, Taken)' = Owed(packets, Taken)
      /\ Owed(packets, Taken - 1)' = Owed(packets, Taken - 1)
      /\ \A p : QueuedFor(p)' = QueuedFor(p)
      /\ \A p : Complete(p)' = Complete(p)
  BY <1>1, OwedAfter
<1>4. LoopInv'
  BY <1>1, <1>3 DEF BridgeInv, LoopInv, Complete
<1>5. QueueInv'
  BY <1>1 DEF BridgeInv, QueueInv
<1>6. StepInv'
  <2>1. QueuedFor(packets[Taken])' = QueuedFor(packets[Taken])
    BY <1>1 DEF QueuedFor, CommandReplies, DataReplies, ContainerOf
  <2>2. DataReplies(packets[Taken].tid)' = DataReplies(packets[Taken].tid)
    BY <1>1 DEF DataReplies, ContainerOf
  <2> QED BY <1>2, <1>3, <2>1, <2>2 DEF BridgeInv, StepInv
<1>7. RepliesInOrder'
  <2>1. InStep => IsPrefix(replies, Owed(packets, Len(packets)))
    BY InOrder DEF BridgeInv
  <2> QED BY <1>2, <2>1, InOrderAfter
<1> QED BY <1>2, <1>4, <1>5, <1>6, <1>7 DEF BridgeInv

\* The server gives the connection up. It says so only if TCP or the client's
\* packets are to blame.
LEMMA BridgeDownInv ==
    ASSUME BridgeInv, Down,
           BridgeTypeOK',
           server' = server, conn' = conn, packets' = packets, replies' = replies,
           queued' = queued, hello' = hello, first_write' = first_write,
           torn => torn',
           peer = "open" /\ (packets = <<>> \/ Last(packets).type # "sentinel")
             => /\ server = "ptpip"
                /\ torn' \/ \E p \in ToSet(packets) : p.type = "middle" \/ p.op = "unsent"
    PROVE  BridgeInv'
<1>1. /\ pc' = IF server = "fuji" THEN "accept" ELSE "ended"
      /\ forced' = (forced \/ (peer = "open" /\ (packets = <<>> \/ Last(packets).type # "sentinel")))
      /\ peer' = "none"
  BY DEF Down
<1>2. WireInv' /\ (InStep' <=> InStep)
  BY WireSame DEF BridgeInv
<1>3. LoopInv'
  BY <1>1 DEF BridgeInv, LoopInv, Outside
<1>4. QueueInv' /\ StepInv'
  BY <1>1 DEF BridgeInv, QueueInv, StepInv, Receiving, InBody
<1>5. ForcedOnlyByTcp'
  BY <1>1 DEF BridgeInv, ForcedOnlyByTcp
<1>6. RepliesInOrder'
  <2>1. InStep => IsPrefix(replies, Owed(packets, Len(packets)))
    BY InOrder DEF BridgeInv
  <2> QED BY <1>2, <2>1, InOrderAfter
<1> QED BY <1>2, <1>3, <1>4, <1>5, <1>6 DEF BridgeInv

\* Nothing is owed for no packets.
LEMMA NothingOwed ==
    ASSUME packets' = <<>>, replies' = <<>>, consumed' = 0
    PROVE  /\ Taken' = 0
           /\ Owed(packets, Taken)' = <<>>
           /\ RepliesInOrder'
<1>1. Taken' = 0
  BY DEF Taken
<1>2. \A w : Owed(w, 0)' = <<>>
  <2> SUFFICES ASSUME NEW w PROVE Owed(w, 0)' = <<>>
    OBVIOUS
  <2>1. [i \in 1 .. 0 |-> Expected(w[i])'] = <<>>
    OBVIOUS
  <2> QED BY <2>1, FlattenEmpty DEF Owed
<1>3. Owed(packets, Taken)' = <<>>
  <2>1. [i \in 1 .. Taken' |-> Expected(packets[i])'] = <<>>
    BY <1>1
  <2> QED BY <2>1, FlattenEmpty DEF Owed
<1>4. RepliesInOrder'
  <2> DEFINE all == [i \in DOMAIN packets' |-> Expected(packets[i])']
  <2>1. DOMAIN packets' = {} /\ DOMAIN packets' = 1 .. 0
    OBVIOUS
  <2>2. all = <<>>
    BY <2>1
  <2>3. IsPrefix(replies', FlattenSeq(all))
    <3>1. <<>> \in Seq({})
      OBVIOUS
    <3> QED BY <2>2, <3>1, FlattenEmpty, PrefixSelf
  <2> QED BY <2>3 DEF RepliesInOrder
<1> QED BY <1>1, <1>3, <1>4

\* A server that has not accepted a client yet.
LEMMA BridgeInitInv ==
    ASSUME BridgeInit PROVE BridgeInv
<1>1. /\ server \in {"ptpip", "fuji"} /\ pc = "accept" /\ conn = 0 /\ peer = "none"
      /\ packets = <<>> /\ arrived = 0 /\ consumed = 0 /\ queued = <<>>
      /\ replies = <<>> /\ events = "none" /\ thread = FALSE
      /\ first_write = TRUE /\ hello = TRUE
      /\ torn = FALSE /\ forced = FALSE /\ abrupt = FALSE
  BY BridgeAssumption DEF BridgeInit
<1>2. BridgeTypeOK
  <2>1. conn \in 0 .. MaxConns /\ consumed \in 0 .. arrived
        /\ arrived \in 0 .. (3 * Len(packets)) /\ DOMAIN queued = {}
    BY <1>1, BridgeAssumption
  <2>2. {first_write, hello, thread, torn, forced, abrupt} \subseteq BOOLEAN
    BY Zenon, <1>1
  <2> QED BY <1>1, <2>1, <2>2 DEF BridgeTypeOK
<1>3. WireInv /\ LoopInv /\ QueueInv /\ StepInv
  BY <1>1 DEF WireInv, LoopInv, QueueInv, StepInv, Paired, Outside, Receiving, InBody
<1>4. ForcedOnlyByTcp
  BY <1>1 DEF ForcedOnlyByTcp
<1>5. RepliesInOrder
  <2> DEFINE all == [i \in DOMAIN packets |-> Expected(packets[i])]
  <2>1. DOMAIN packets = 1 .. 0
    BY <1>1
  <2>2. all = <<>>
    BY <2>1
  <2>3. IsPrefix(replies, FlattenSeq(all))
    <3>1. <<>> \in Seq({})
      OBVIOUS
    <3> QED BY <1>1, <2>2, <3>1, FlattenEmpty, PrefixSelf
  <2> QED BY <2>3 DEF RepliesInOrder
<1> QED BY <1>1, <1>2, <1>3, <1>4, <1>5 DEF BridgeInv

\* The next client finds nothing of the one before it.
LEMMA BridgeAcceptInv ==
    ASSUME BridgeInv, Accept PROVE BridgeInv'
<1>1. /\ pc = "accept" /\ conn < MaxConns /\ conn' = conn + 1 /\ peer' = "open"
      /\ pc' = "length" /\ packets' = <<>> /\ arrived' = 0 /\ consumed' = 0
      /\ replies' = <<>> /\ first_write' = TRUE /\ hello' = TRUE /\ queued' = <<>>
      /\ server' = server /\ events' = events /\ thread' = thread
      /\ torn' = torn /\ forced' = forced /\ abrupt' = abrupt
  BY DEF Accept, reset_client_bridge, history
<1>2. /\ Taken' = 0 /\ Owed(packets, Taken)' = <<>> /\ RepliesInOrder'
  BY <1>1, NothingOwed
<1>3. BridgeTypeOK'
  BY <1>1, BridgeAssumption DEF BridgeInv, BridgeTypeOK
<1>4. WireInv' /\ LoopInv' /\ QueueInv'
  <2>1. WireInv' /\ QueueInv'
    BY <1>1 DEF WireInv, QueueInv, Paired
  <2>2. LoopInv'
    BY <1>1, <1>2 DEF LoopInv, Outside, InBody
  <2> QED BY <2>1, <2>2
<1>5. StepInv'
  BY <1>1, <1>2 DEF StepInv
<1>6. ForcedOnlyByTcp'
  <2>1. ~forced
    BY <1>1 DEF BridgeInv, LoopInv, ForcedOnlyByTcp
  <2> QED BY <1>1, <2>1 DEF ForcedOnlyByTcp
<1> QED BY <1>1, <1>2, <1>3, <1>4, <1>5, <1>6 DEF BridgeInv

\* A container is data or a response.
Containers(s) == \A i \in DOMAIN s : s[i].type \in {"data", "response"}

\* What a step of the server has to keep of the types.
LEMMA BridgeTypes ==
    ASSUME BridgeTypeOK, conn' = conn, packets' = packets, arrived' = arrived,
           pc' \in Outside \cup Receiving \cup {"send", "send_response"},
           peer' \in {"none", "open", "fin", "reset"},
           consumed' \in 0 .. arrived, events' = events,
           first_write' \in BOOLEAN, hello' \in BOOLEAN, thread' \in BOOLEAN,
           torn' \in BOOLEAN, forced' \in BOOLEAN, abrupt' = abrupt,
           Containers(queued')
    PROVE  BridgeTypeOK'
<1>1. {first_write', hello', thread', torn', forced', abrupt'} \subseteq BOOLEAN
  BY Zenon DEF BridgeTypeOK
<1>2. pc' \in {"accept", "length", "body", "data_length", "data_body", "end_length",
               "end_body", "send", "send_response", "ended", "killed"}
  BY DEF Outside, Receiving, InBody
<1> QED BY <1>1, <1>2 DEF BridgeTypeOK, Containers

\* The types the server's steps start from.
LEMMA BridgeTyped ==
    ASSUME BridgeTypeOK
    PROVE  /\ first_write \in BOOLEAN /\ hello \in BOOLEAN /\ thread \in BOOLEAN
           /\ torn \in BOOLEAN /\ forced \in BOOLEAN /\ Containers(queued)
           /\ peer \in {"none", "open", "fin", "reset"}
  BY Zenon DEF BridgeTypeOK, Containers

\* A length field is read: the packet is now under way.
LEMMA RecvLengthInv ==
    ASSUME BridgeInv, RecvLength PROVE BridgeInv'
<1>1. /\ pc \in {"length", "data_length", "end_length"} /\ Unread > 0
      /\ consumed' = consumed + 1
      /\ pc' = CASE pc = "length" -> "body"
                 [] pc = "data_length" -> "data_body"
                 [] OTHER -> "end_body"
      /\ server' = server /\ conn' = conn /\ peer' = peer /\ packets' = packets
      /\ arrived' = arrived /\ first_write' = first_write /\ hello' = hello
      /\ queued' = queued /\ replies' = replies /\ events' = events
      /\ thread' = thread /\ torn' = torn /\ forced' = forced /\ abrupt' = abrupt
  BY DEF RecvLength, camera, history
<1>2. /\ consumed \in Nat /\ Taken \in Nat /\ consumed = 3 * Taken
      /\ consumed + 1 <= arrived /\ arrived \in Nat
  <2>1. consumed = 3 * Taken
    BY <1>1 DEF BridgeInv, LoopInv, Outside, InBody
  <2>2. consumed \in Nat /\ Taken \in Nat /\ arrived \in Nat
    BY TakenRange DEF BridgeInv
  <2> QED BY <1>1, <2>1, <2>2 DEF Unread
<1>3. Taken' = Taken
  <2> DEFINE k == Taken
  <2>1. k \in Nat /\ consumed' = 3 * k + 1
    BY <1>1, <1>2
  <2> HIDE DEF k
  <2>2. consumed' \div 3 = k
    BY <2>1
  <2> QED BY <2>2 DEF Taken, k
<1>4. /\ pc' \in InBody
      /\ pc = "length" <=> pc' = "body"
      /\ pc = "data_length" <=> pc' = "data_body"
      /\ pc = "end_length" <=> pc' = "end_body"
  BY <1>1 DEF InBody
<1>5. BridgeTypeOK'
  <2>1. consumed' \in 0 .. arrived
    BY <1>1, <1>2
  <2> QED BY <1>1, <1>4, <2>1, BridgeTypes, BridgeTyped DEF BridgeInv, Receiving
<1>6. WireInv' /\ (InStep' <=> InStep)
  BY <1>1, WireSame DEF BridgeInv
<1>7. /\ Owed(packets, Taken)' = Owed(packets, Taken)
      /\ \A p : Complete(p)' = Complete(p)
  BY <1>1, <1>3, OwedAfter
<1>8. LoopInv'
  BY <1>1, <1>2, <1>3, <1>4, <1>7 DEF BridgeInv, LoopInv, Outside, InBody, Complete
<1>9. QueueInv'
  BY <1>1, <1>4 DEF BridgeInv, QueueInv, InBody
<1>10. StepInv'
  <2>1. pc \in Receiving /\ pc' \in Receiving /\ pc' \notin {"send", "send_response"}
    BY <1>1, <1>4 DEF Receiving, InBody
  <2> QED BY <1>1, <1>6, <1>7, <2>1 DEF BridgeInv, StepInv
<1>11. ForcedOnlyByTcp' /\ RepliesInOrder'
  <2>1. InStep => IsPrefix(replies, Owed(packets, Len(packets)))
    BY InOrder DEF BridgeInv
  <2>2. RepliesInOrder'
    BY <1>1, <1>6, <2>1, InOrderAfter
  <2> QED BY <1>1, <2>2 DEF BridgeInv, ForcedOnlyByTcp
<1> QED BY <1>1, <1>5, <1>6, <1>8, <1>9, <1>10, <1>11 DEF BridgeInv

\* The ways a connection ends.
LEMMA BridgeEndsInv ==
    ASSUME BridgeInv,
           RecvFails \/ RecvTorn \/ RecvSentinel \/ SendNothing
    PROVE  BridgeInv'
<1>1. /\ Down
      /\ server' = server /\ conn' = conn /\ packets' = packets /\ arrived' = arrived
      /\ first_write' = first_write /\ hello' = hello /\ queued' = queued
      /\ replies' = replies /\ events' = events /\ thread' = thread /\ abrupt' = abrupt
  BY DEF RecvFails, RecvTorn, RecvSentinel, SendNothing,
         stream, camera
<1>2. torn' \in {torn, TRUE} /\ torn' \in BOOLEAN /\ (torn => torn')
  <2>1. torn' \in {torn, TRUE}
    BY DEF RecvFails, RecvTorn, RecvSentinel, SendNothing
  <2>2. torn \in BOOLEAN
    BY BridgeTyped DEF BridgeInv
  <2>3. CASE torn' = torn
    BY <2>2, <2>3
  <2>4. CASE torn' = TRUE
    BY <2>1, <2>4
  <2> QED BY <2>1, <2>3, <2>4
<1>3. consumed' \in 0 .. arrived
  <2>1. consumed \in Nat /\ arrived \in Nat /\ consumed <= arrived
    BY TakenRange DEF BridgeInv
  <2>2. CASE consumed' = consumed
    BY <2>1, <2>2
  <2>3. CASE RecvTorn
    BY <2>1, <2>3 DEF RecvTorn, Torn, Unread
  <2>4. CASE RecvSentinel
    BY <2>1, <2>4 DEF RecvSentinel, Whole, Unread
  <2> QED BY <2>2, <2>3, <2>4 DEF RecvFails, SendNothing, stream
<1>4. /\ pc' \in Outside /\ peer' = "none" /\ forced' \in BOOLEAN
  BY <1>1, BridgeTyped DEF Down, Outside, BridgeInv
<1>5. BridgeTypeOK'
  BY <1>1, <1>2, <1>3, <1>4, BridgeTypes, BridgeTyped DEF BridgeInv
<1>6. ASSUME peer = "open", packets = <<>> \/ Last(packets).type # "sentinel"
      PROVE  /\ server = "ptpip"
             /\ torn' \/ \E p \in ToSet(packets) : p.type = "middle" \/ p.op = "unsent"
  <2>1. CASE RecvFails
    BY <1>6, <2>1 DEF RecvFails
  <2>2. CASE RecvTorn
    BY <2>2 DEF RecvTorn, Torn
  <2>3. CASE RecvSentinel
    <3>1. pc \in InBody /\ Whole /\ consumed' = consumed + 2
          /\ Reading.type = "sentinel"
      BY <2>3 DEF RecvSentinel, InBody
    <3>2. Taken + 1 \in 1 .. Len(packets) /\ packets[Taken + 1].type = "sentinel"
      BY <3>1, BodyTaken DEF BridgeInv
    <3>3. Taken + 1 = Len(packets)
      BY <3>2 DEF BridgeInv, WireInv, Ordered
    <3>4. packets # <<>> /\ Last(packets) = packets[Len(packets)]
      BY <3>2 DEF Last, BridgeInv, WireInv
    <3> QED BY <1>6, <3>2, <3>3, <3>4
  <2>4. CASE SendNothing
    <3>1. pc = "send" /\ ~hello /\ queued = <<>>
      BY <2>4 DEF SendNothing, BridgeInv, QueueInv
    <3>2. server = "ptpip" /\ packets[Taken].op = "unsent"
      BY <3>1 DEF BridgeInv, QueueInv
    <3>3. Taken \in 1 .. Len(packets)
      BY <3>1, TakenRange DEF BridgeInv, LoopInv
    <3>4. packets[Taken] \in ToSet(packets)
      BY <3>3 DEF ToSet, BridgeInv, WireInv
    <3> QED BY <3>2, <3>4
  <2> QED BY <2>1, <2>2, <2>3, <2>4
<1> QED BY <1>1, <1>2, <1>5, <1>6, BridgeDownInv

\* What the camera queues for a packet: nothing, a response, or data with its
\* response.
LEMMA QueuedForType ==
    ASSUME conn \in Nat, NEW p \in ClientPacket
    PROVE  /\ QueuedFor(p) \in Seq(ServerReply) /\ Paired(QueuedFor(p))
           /\ Containers(QueuedFor(p))
<1> DEFINE d == ContainerOf("data", p.tid)
           r == ContainerOf("response", p.tid)
<1>1. /\ d \in ServerReply /\ r \in ServerReply
      /\ d.type = "data" /\ r.type = "response"
  BY DEF ClientPacket, ContainerOf, ServerReply
<1>2. QueuedFor(p) \in {<<>>, <<r>>, <<d, r>>}
  BY DEF QueuedFor, CommandReplies, DataReplies
<1> HIDE DEF d, r
<1>3. CASE QueuedFor(p) = <<>>
  BY <1>3 DEF Paired, Containers
<1>4. CASE QueuedFor(p) = <<r>>
  BY <1>1, <1>4 DEF Paired, Containers
<1>5. CASE QueuedFor(p) = <<d, r>>
  <2> DEFINE s == <<d, r>>
  <2>1. s \in Seq(ServerReply) /\ Len(s) = 2 /\ s[1] = d /\ s[2] = r /\ DOMAIN s = 1 .. 2
    BY <1>1
  <2> HIDE DEF s
  <2>2. \A i \in 1 .. 2 : i = 1 \/ i = 2
    OBVIOUS
  <2>3. Paired(s) /\ Containers(s)
    BY <1>1, <2>1, <2>2 DEF Paired, Containers
  <2> QED BY <1>5, <2>1, <2>3 DEF s
<1> QED BY <1>2, <1>3, <1>4, <1>5

\* Putting more behind the queue.
LEMMA QueueGrows ==
    ASSUME NEW s \in Seq(ServerReply), Paired(s), Containers(s),
           NEW x \in Seq(ServerReply), Paired(x), Containers(x)
    PROVE  /\ s \o x \in Seq(ServerReply) /\ Paired(s \o x) /\ Containers(s \o x)
           /\ s \o x = <<>> <=> s = <<>> /\ x = <<>>
<1> DEFINE m == Len(s)
           l == Len(x)
           y == s \o x
<1>1. m \in Nat /\ l \in Nat /\ DOMAIN s = 1 .. m /\ DOMAIN x = 1 .. l
  OBVIOUS
<1>2. /\ y \in Seq(ServerReply) /\ Len(y) = m + l /\ DOMAIN y = 1 .. m + l
      /\ \A i \in 1 .. m + l : y[i] = IF i <= m THEN s[i] ELSE x[i - m]
  BY ConcatProperties
<1> HIDE DEF y
<1>3. \A i \in 1 .. m + l : i \in 1 .. m \/ (i > m /\ i - m \in 1 .. l /\ (i - m) + m = i)
  BY <1>1
<1>4. Containers(y)
  <2> SUFFICES ASSUME NEW i \in 1 .. m + l PROVE y[i].type \in {"data", "response"}
    BY <1>2 DEF Containers
  <2>1. CASE i \in 1 .. m
    <3>1. y[i] = s[i] /\ i \in DOMAIN s
      BY <1>1, <1>2, <2>1
    <3> QED BY <3>1 DEF Containers
  <2>2. CASE i > m /\ i - m \in 1 .. l
    <3>1. y[i] = x[i - m] /\ i - m \in DOMAIN x
      BY <1>1, <1>2, <2>2
    <3> QED BY <3>1 DEF Containers
  <2> QED BY <1>3, <2>1, <2>2
<1>5. Paired(y)
  <2> SUFFICES ASSUME NEW i \in 1 .. m + l, y[i].type = "data"
               PROVE  i < m + l /\ y[i + 1].type = "response"
    BY <1>2 DEF Paired
  <2>1. CASE i \in 1 .. m
    <3>1. s[i].type = "data"
      BY <1>2, <2>1
    <3>2. i < m /\ s[i + 1].type = "response"
      BY <2>1, <3>1 DEF Paired
    <3>3. i + 1 \in 1 .. m + l /\ i + 1 <= m
      BY <1>1, <3>2
    <3> QED BY <1>2, <3>2, <3>3
  <2>2. CASE i > m /\ i - m \in 1 .. l
    <3>1. x[i - m].type = "data"
      BY <1>1, <1>2, <2>2
    <3>2. i - m < l /\ x[(i - m) + 1].type = "response"
      BY <2>2, <3>1 DEF Paired
    <3>3. i + 1 \in 1 .. m + l /\ ~(i + 1 <= m) /\ (i + 1) - m = (i - m) + 1
      BY <1>1, <2>2, <3>2
    <3>4. y[i + 1] = x[(i + 1) - m]
      BY <1>2, <3>3
    <3> QED BY <3>2, <3>3, <3>4
  <2> QED BY <1>3, <2>1, <2>2
<1>6. y = <<>> <=> m + l = 0
  BY <1>2
<1>7. /\ s = <<>> <=> m = 0
      /\ x = <<>> <=> l = 0
  OBVIOUS
<1> QED BY <1>1, <1>2, <1>4, <1>5, <1>6, <1>7 DEF y

\* The server reads the rest of a packet and stays with its client.
ReadsPacket ==
    /\ pc \in InBody /\ Whole /\ consumed' = consumed + 2
    /\ hello' = hello /\ first_write' = FALSE
    /\ server' = server /\ conn' = conn /\ peer' = peer /\ packets' = packets
    /\ arrived' = arrived /\ replies' = replies /\ events' = events
    /\ thread' = thread /\ torn' = torn /\ forced' = forced /\ abrupt' = abrupt

\* What that leaves to show.
LEMMA ReadsPacketInv ==
    ASSUME BridgeInv, ReadsPacket,
           pc' \in {"send", "data_length", "end_length"},
           queued' = queued \o QueuedFor(packets[Taken + 1]),
           LoopInv', QueueInv', StepInv'
    PROVE  BridgeInv'
<1>1. /\ consumed' \in 0 .. arrived /\ Taken + 1 \in 1 .. Len(packets)
  BY BodyTaken DEF ReadsPacket, BridgeInv
<1>2. conn \in Nat /\ packets[Taken + 1] \in ClientPacket
  BY <1>1 DEF BridgeInv, WireInv, BridgeTypeOK
<1>3. Containers(queued')
  <2>1. /\ QueuedFor(packets[Taken + 1]) \in Seq(ServerReply)
        /\ Paired(QueuedFor(packets[Taken + 1])) /\ Containers(QueuedFor(packets[Taken + 1]))
    BY <1>2, QueuedForType
  <2>2. queued \in Seq(ServerReply) /\ Paired(queued) /\ Containers(queued)
    BY BridgeTyped DEF BridgeInv, QueueInv
  <2> QED BY <2>1, <2>2, QueueGrows
<1>4. BridgeTypeOK'
  BY <1>1, <1>3, BridgeTypes, BridgeTyped DEF ReadsPacket, BridgeInv, Receiving
<1>5. WireInv' /\ (InStep' <=> InStep)
  BY WireSame DEF BridgeInv, ReadsPacket
<1>6. RepliesInOrder'
  <2>1. InStep => IsPrefix(replies, Owed(packets, Len(packets)))
    BY InOrder DEF BridgeInv
  <2> QED BY <1>5, <2>1, InOrderAfter DEF ReadsPacket
<1>7. ForcedOnlyByTcp'
  BY DEF ReadsPacket, BridgeInv, ForcedOnlyByTcp
<1> QED BY <1>4, <1>5, <1>6, <1>7 DEF BridgeInv, ReadsPacket

\* Only the first packet of a connection is the client's init packet.
LEMMA FirstIsInit ==
    ASSUME WireInv, NEW i \in 1 .. Len(packets)
    PROVE  packets[i].type = "init" <=> i = 1
  BY DEF WireInv, Ordered

\* A request is complete: what the camera queued for it is sent next.
LEMMA ReadToSendInv ==
    ASSUME BridgeInv, ReadsPacket, pc' = "send", NEW p, p = packets[Taken + 1],
           Complete(p), queued' = queued \o QueuedFor(p),
           \/ Taken = 0
           \/ QueuedFor(p) # <<>>
           \/ server = "ptpip" /\ p.op = "unsent"
    PROVE  BridgeInv'
<1>1. /\ Taken' = Taken + 1 /\ consumed' = 3 * Taken' /\ Taken \in Nat
      /\ Taken + 1 \in 1 .. Len(packets)
  BY BodyTaken, TakenRange DEF ReadsPacket, BridgeInv
<1>2. conn \in Nat /\ p \in ClientPacket
  BY <1>1 DEF BridgeInv, WireInv, BridgeTypeOK
<1>3. /\ pc \notin Outside /\ pc \in Receiving /\ pc \notin {"send", "send_response"}
      /\ peer # "none" /\ (hello <=> Taken = 0)
  <2>1. pc \notin Outside /\ pc \in Receiving /\ pc \notin {"send", "send_response"}
    BY DEF ReadsPacket, Outside, Receiving, InBody
  <2> QED BY <2>1 DEF BridgeInv, LoopInv
<1>4. packets'[Taken'] = p /\ Complete(packets[Taken])'
  <2>1. packets'[Taken'] = p
    BY <1>1 DEF ReadsPacket
  <2> QED BY <2>1 DEF Complete, ReadsPacket
<1>5. LoopInv'
  <2>1. hello' <=> Taken' = 1
    BY <1>1, <1>3 DEF ReadsPacket
  <2>2. first_write' <=> Taken' = 0
    BY <1>1 DEF ReadsPacket
  <2>3. Taken' > 0 /\ peer' # "none"
    BY <1>1, <1>3 DEF ReadsPacket
  <2> QED BY <1>1, <1>4, <2>1, <2>2, <2>3 DEF LoopInv, Outside, InBody
<1>6. QueueInv'
  <2>1. QueuedFor(p) \in Seq(ServerReply) /\ Paired(QueuedFor(p)) /\ Containers(QueuedFor(p))
    BY <1>2, QueuedForType
  <2>2. queued \in Seq(ServerReply) /\ Paired(queued) /\ Containers(queued)
    BY BridgeTyped DEF BridgeInv, QueueInv
  <2>3. /\ queued' \in Seq(ServerReply) /\ Paired(queued')
        /\ queued' = <<>> <=> queued = <<>> /\ QueuedFor(p) = <<>>
    BY <2>1, <2>2, QueueGrows
  <2>4. hello' => queued' = <<>>
    <3> SUFFICES ASSUME hello PROVE queued' = <<>>
      BY DEF ReadsPacket
    <3>1. queued = <<>> /\ p.type = "init"
      BY <1>1, <1>3, FirstIsInit DEF BridgeInv, QueueInv
    <3> QED BY <2>3, <3>1 DEF QueuedFor
  <2>5. ~hello' => queued' # <<>> \/ (server' = "ptpip" /\ packets'[Taken'].op = "unsent")
    BY <1>3, <1>4, <2>3 DEF ReadsPacket
  <2> QED BY <2>3, <2>4, <2>5 DEF QueueInv, Paired
<1>7. StepInv'
  <2> SUFFICES ASSUME InStep' PROVE StepInv'
    BY DEF StepInv
  <2>1. InStep
    BY WireSame DEF BridgeInv, ReadsPacket
  <2>2. queued = <<>> /\ (peer = "open" => replies = Owed(packets, Taken))
    BY <1>3, <2>1 DEF BridgeInv, StepInv
  <2>3. queued' = QueuedFor(p)
    <3>1. QueuedFor(p) \in Seq(ServerReply)
      BY <1>2, QueuedForType
    <3> HIDE DEF QueuedFor
    <3> QED BY <2>2, <3>1, ConcatEmptySeq
  <2>4. QueuedFor(packets[Taken])' = QueuedFor(p)
    BY <1>4 DEF QueuedFor, CommandReplies, DataReplies, ContainerOf, ReadsPacket
  <2>5. Owed(packets, Taken - 1)' = Owed(packets, Taken)
    <3>1. Taken' - 1 = Taken
      BY <1>1
    <3> QED BY <3>1, OwedAfter DEF ReadsPacket
  <2>6. pc' \notin Receiving
    BY DEF Receiving, InBody
  <2> QED BY <2>2, <2>3, <2>4, <2>5, <2>6 DEF StepInv, ReadsPacket
<1> QED BY <1>5, <1>6, <1>7, ReadsPacketInv

\* More of the request is to come, and the client is owed nothing for this part.
LEMMA ReadOnInv ==
    ASSUME BridgeInv, ReadsPacket, NEW p, p = packets[Taken + 1], Taken > 0,
           \/ /\ pc' = "data_length" /\ p.type = "cmd" /\ p.op \in Writes
              /\ ~Complete(p)
           \/ pc' = "end_length" /\ p.type = "start" /\ server = "ptpip",
           queued' = queued \o QueuedFor(p),
           InStep => QueuedFor(p) = <<>> /\ Expected(p) = <<>>
    PROVE  BridgeInv'
<1>1. /\ Taken' = Taken + 1 /\ consumed' = 3 * Taken' /\ Taken \in Nat
      /\ Taken + 1 \in 1 .. Len(packets) /\ Len(packets) \in Nat
  BY BodyTaken, TakenRange DEF ReadsPacket, BridgeInv
<1>2. conn \in Nat /\ p \in ClientPacket
  BY <1>1 DEF BridgeInv, WireInv, BridgeTypeOK
<1>3. /\ pc \notin Outside /\ pc \in Receiving /\ pc \notin {"send", "send_response"}
      /\ peer # "none" /\ ~hello
  <2>1. pc \notin Outside /\ pc \in Receiving /\ pc \notin {"send", "send_response"}
    BY DEF ReadsPacket, Outside, Receiving, InBody
  <2> QED BY <2>1 DEF BridgeInv, LoopInv
<1>4. packets'[Taken'] = p /\ (Complete(packets[Taken])' <=> Complete(p))
  <2>1. packets'[Taken'] = p
    BY <1>1 DEF ReadsPacket
  <2> QED BY <2>1 DEF Complete, ReadsPacket
<1>5. LoopInv'
  <2>1. ~hello' /\ ~first_write' /\ Taken' > 0 /\ peer' # "none"
    BY <1>1, <1>3 DEF ReadsPacket
  <2>2. server' = server
    BY DEF ReadsPacket
  <2>3. CASE pc' = "data_length"
    BY <1>1, <1>4, <2>1, <2>3 DEF LoopInv, Outside, InBody
  <2>4. CASE pc' = "end_length"
    BY <1>1, <1>4, <2>1, <2>2, <2>4 DEF LoopInv, Outside, InBody
  <2> QED BY <2>3, <2>4
<1>6. QueueInv'
  <2>1. QueuedFor(p) \in Seq(ServerReply) /\ Paired(QueuedFor(p)) /\ Containers(QueuedFor(p))
    BY <1>2, QueuedForType
  <2>2. queued \in Seq(ServerReply) /\ Paired(queued) /\ Containers(queued)
    BY BridgeTyped DEF BridgeInv, QueueInv
  <2>3. queued' \in Seq(ServerReply) /\ Paired(queued')
    BY <2>1, <2>2, QueueGrows
  <2> QED BY <1>3, <2>3 DEF QueueInv, Paired, ReadsPacket
<1>7. StepInv'
  <2> SUFFICES ASSUME InStep' PROVE StepInv'
    BY DEF StepInv
  <2>1. InStep
    BY WireSame DEF BridgeInv, ReadsPacket
  <2>2. queued = <<>> /\ (peer = "open" => replies = Owed(packets, Taken))
    BY <1>3, <2>1 DEF BridgeInv, StepInv
  <2>3. queued' = <<>>
    BY <2>1, <2>2
  <2>4. Owed(packets, Taken)' = Owed(packets, Taken)
    <3>1. packets \in Seq(ClientPacket) /\ Taken + 1 <= Len(packets)
      BY <1>1 DEF BridgeInv, WireInv
    <3>2. Owed(packets, Taken + 1) = Owed(packets, Taken) \o <<>>
      BY <1>1, <1>2, <2>1, <3>1, OwedNext
    <3>3. Owed(packets, Taken) \in Seq(ServerReply)
      BY <1>1, <1>2, <3>1, OwedParts
    <3>4. Owed(packets, Taken + 1) = Owed(packets, Taken)
      BY <3>2, <3>3, ConcatEmptySeq
    <3> QED BY <1>1, <3>4, OwedAfter DEF ReadsPacket
  <2>5. pc' \notin {"send", "send_response"}
    OBVIOUS
  <2> QED BY <2>2, <2>3, <2>4, <2>5 DEF StepInv, ReadsPacket
<1> QED BY <1>5, <1>6, <1>7, ReadsPacketInv

\* How the packet that is read follows from the one before it.
LEMMA NextPacket ==
    ASSUME WireInv, NEW k \in 1 .. Len(packets), k + 1 \in 1 .. Len(packets)
    PROVE  /\ Continues(packets[k]) =>
                 packets[k + 1] = [packets[k] EXCEPT !.type = Follower(packets[k])]
           /\ ~Continues(packets[k]) => packets[k + 1].type \in {"cmd", "sentinel"}
           /\ Speaks(packets[k + 1]) /\ packets[k + 1] \in ClientPacket
           /\ Speaks(packets[k]) /\ packets[k] \in ClientPacket
<1>1. /\ Speaks(packets[k + 1]) /\ packets[k + 1] \in ClientPacket
      /\ Speaks(packets[k]) /\ packets[k] \in ClientPacket /\ Ordered(packets, k)
  BY DEF WireInv
<1>2. k < Len(packets)
  BY DEF WireInv
<1> QED BY <1>1, <1>2 DEF Ordered

\* The body of a request's first packet.
LEMMA RecvBodyInv ==
    ASSUME BridgeInv, RecvBody PROVE BridgeInv'
<1> DEFINE p == packets[Taken + 1]
<1>1. /\ pc = "body" /\ Whole /\ consumed' = consumed + 2
      /\ Reading.type # "sentinel"
      /\ CmdWrite(CASE Reading.type = "cmd" ->
                                CommandReplies(Reading.op, Reading.tid)
                           [] Reading.type = "data" -> DataReplies(Reading.tid)
                           [] OTHER -> <<>>)
      /\ pc' = IF NeedsData(Reading) THEN "data_length" ELSE "send"
      /\ server' = server /\ conn' = conn /\ peer' = peer /\ packets' = packets
      /\ arrived' = arrived /\ replies' = replies /\ events' = events
      /\ thread' = thread /\ torn' = torn /\ forced' = forced /\ abrupt' = abrupt
  BY DEF RecvBody, history
<1>2. ReadsPacket
  BY <1>1 DEF ReadsPacket, InBody, CmdWrite
<1>3. /\ Taken \in Nat /\ Taken + 1 \in 1 .. Len(packets) /\ Reading = p
      /\ Len(packets) \in Nat
  BY <1>2, BodyTaken, TakenRange DEF ReadsPacket, BridgeInv
<1>4. /\ p \in ClientPacket /\ Speaks(p) /\ conn \in Nat
      /\ p.type = "init" <=> Taken + 1 = 1
  BY <1>3, FirstIsInit DEF BridgeInv, WireInv, BridgeTypeOK
<1>5. /\ first_write <=> Taken = 0
      /\ hello <=> Taken = 0
      /\ Taken = 0 \/ Complete(packets[Taken])
  BY <1>1 DEF BridgeInv, LoopInv, Outside
<1>6. CASE Taken = 0
  <2>1. queued = <<>> /\ queued' = <<>> /\ p.type = "init"
    BY <1>1, <1>3, <1>4, <1>5, <1>6 DEF CmdWrite, BridgeInv, QueueInv
  <2>2. QueuedFor(p) = <<>> /\ Complete(p)
    BY <2>1 DEF QueuedFor, Complete
  <2>3. ~NeedsData(p)
    BY <1>4, <2>1 DEF NeedsData, Speaks, Writes, BridgeInv
  <2>4. pc' = "send" /\ queued' = queued \o QueuedFor(p)
    BY <1>1, <1>3, <2>1, <2>2, <2>3
  <2> HIDE DEF p
  <2> QED BY <1>2, <1>6, <2>2, <2>4, ReadToSendInv DEF p
<1>7. CASE Taken # 0
  <2>1. Taken \in 1 .. Len(packets) /\ Taken > 0 /\ p.type \notin {"init", "sentinel"}
    BY <1>1, <1>3, <1>4, <1>7
  <2>2. \/ p.type = "cmd"
        \/ p.type = "data" /\ server = "fuji"
    <3>1. CASE Continues(packets[Taken])
      <4>1. p.type = Follower(packets[Taken])
        BY <1>3, <2>1, <3>1, NextPacket DEF BridgeInv, ClientPacket
      <4>2. server = "fuji"
        BY <1>5, <1>7, <3>1 DEF Continues, Complete
      <4> QED BY <4>1, <4>2 DEF Follower
    <3>2. CASE ~Continues(packets[Taken])
      BY <1>3, <2>1, <3>2, NextPacket DEF BridgeInv
    <3> QED BY <3>1, <3>2
  <2>3. queued' = queued \o QueuedFor(p)
    <3>1. ~first_write
      BY <1>5, <1>7
    <3> QED BY <1>1, <1>3, <2>2, <3>1 DEF CmdWrite, QueuedFor
  <2>4. server = "fuji" => queued = <<>> /\ queued' = QueuedFor(p)
    <3> SUFFICES ASSUME server = "fuji" PROVE queued = <<>> /\ queued' = QueuedFor(p)
      OBVIOUS
    <3>1. InStep /\ pc \in Receiving
      BY <1>1 DEF InStep, Receiving, InBody
    <3>2. queued = <<>>
      BY <3>1 DEF BridgeInv, StepInv
    <3>3. QueuedFor(p) \in Seq(ServerReply)
      BY <1>4, QueuedForType
    <3> QED BY <2>3, <3>2, <3>3, ConcatEmptySeq
  <2>5. CASE p.type = "data"
    <3>1. QueuedFor(p) # <<>> /\ Complete(p) /\ server = "fuji"
      BY <2>2, <2>5 DEF QueuedFor, DataReplies, Complete
    <3>2. ~NeedsData(p)
      BY <2>4, <3>1 DEF NeedsData
    <3>3. pc' = "send"
      BY <1>1, <1>3, <3>2
    <3> HIDE DEF p
    <3> QED BY <1>2, <2>3, <3>1, <3>3, ReadToSendInv DEF p
  <2>6. CASE p.type = "cmd"
    <3>1. /\ p.op \in {"plain", "read", "write", "refused", "chunked", "unsent"}
          /\ server = "fuji" => p.op # "unsent"
      BY <1>4, <2>6, BridgeAssumption DEF Speaks
    <3>2. /\ QueuedFor(p) = <<>> <=> p.op \in {"write", "chunked", "unsent"}
      BY <2>6, <3>1 DEF QueuedFor, CommandReplies
    <3>3. NeedsData(p) <=>
            p.op \in {"write", "chunked"} \/ (server = "ptpip" /\ p.op = "refused")
      BY <2>1, <2>4, <3>1, <3>2 DEF NeedsData, Writes, BridgeInv
    <3>4. NeedsData(p) <=> ~Complete(p)
      BY <2>6, <3>1, <3>3 DEF Complete, Writes, BridgeInv
    <3>5. CASE NeedsData(p)
      <4>1. pc' = "data_length" /\ p.op \in Writes /\ ~Complete(p)
        BY <1>1, <1>3, <3>3, <3>4, <3>5 DEF Writes
      <4>2. ASSUME InStep PROVE QueuedFor(p) = <<>> /\ Expected(p) = <<>>
        <5>1. p.op \in {"write", "chunked"}
          BY <1>3, <3>3, <3>5, <4>2 DEF InStep, BridgeInv, WireInv
        <5> QED BY <2>6, <3>2, <5>1 DEF Expected
      <4> HIDE DEF p
      <4> QED BY <1>2, <2>1, <2>3, <2>6, <4>1, <4>2, ReadOnInv DEF p
    <3>6. CASE ~NeedsData(p)
      <4>1. pc' = "send" /\ Complete(p)
        BY <1>1, <1>3, <3>4, <3>6
      <4>2. QueuedFor(p) # <<>> \/ (server = "ptpip" /\ p.op = "unsent")
        BY <3>1, <3>2, <3>3, <3>6 DEF BridgeInv
      <4> HIDE DEF p
      <4> QED BY <1>2, <2>3, <4>1, <4>2, ReadToSendInv DEF p
    <3> QED BY <3>5, <3>6
  <2> QED BY <2>2, <2>5, <2>6
<1> QED BY <1>6, <1>7

\* The first packet of a request's data.
LEMMA RecvDataInv ==
    ASSUME BridgeInv, RecvData PROVE BridgeInv'
<1> DEFINE c == packets[Taken]
           p == packets[Taken + 1]
<1>1. /\ pc = "data_body" /\ Whole /\ consumed' = consumed + 2
      /\ IF server = "fuji"
           THEN CmdWrite(DataReplies(Reading.tid)) /\ pc' = "send"
           ELSE /\ first_write' = first_write /\ hello' = hello /\ queued' = queued
                /\ pc' = "end_length"
      /\ server' = server /\ conn' = conn /\ peer' = peer /\ packets' = packets
      /\ arrived' = arrived /\ replies' = replies /\ events' = events
      /\ thread' = thread /\ torn' = torn /\ forced' = forced /\ abrupt' = abrupt
  BY DEF RecvData, history, camera
<1>2. /\ Taken > 0 /\ c.type = "cmd" /\ c.op \in Writes
      /\ ~first_write /\ Taken \in Nat
  <2>1. Taken \in Nat
    BY TakenRange DEF BridgeInv
  <2> QED BY <1>1, <2>1 DEF BridgeInv, LoopInv, Outside
<1>3. ReadsPacket
  <2>1. first_write \in BOOLEAN
    BY BridgeTyped DEF BridgeInv
  <2>2. first_write' = FALSE /\ hello' = hello
    BY <1>1, <1>2, <2>1 DEF CmdWrite
  <2> QED BY <1>1, <2>2 DEF ReadsPacket, InBody
<1>4. /\ Taken + 1 \in 1 .. Len(packets) /\ Reading = p /\ Taken \in 1 .. Len(packets)
  BY <1>2, <1>3, BodyTaken DEF ReadsPacket, BridgeInv
<1>5. p.type = Follower(c) /\ p.tid = c.tid /\ p.op = c.op
  BY <1>2, <1>4, NextPacket DEF BridgeInv, Continues, ClientPacket
<1>6. CASE server = "fuji"
  <2>1. p.type = "data" /\ pc' = "send"
    BY <1>1, <1>5, <1>6 DEF Follower
  <2>2. QueuedFor(p) # <<>> /\ Complete(p) /\ queued' = queued \o QueuedFor(p)
    BY <1>1, <1>2, <1>4, <1>6, <2>1
       DEF QueuedFor, DataReplies, Complete, CmdWrite
  <2> HIDE DEF p
  <2> QED BY <1>3, <2>1, <2>2, ReadToSendInv DEF p
<1>7. CASE server # "fuji"
  <2>1. /\ server = "ptpip" /\ p.type = "start" /\ pc' = "end_length" /\ queued' = queued
    BY <1>1, <1>2, <1>5, <1>7 DEF Follower, BridgeInv
  <2>2. QueuedFor(p) = <<>> /\ Expected(p) = <<>>
    BY <2>1 DEF QueuedFor, Expected
  <2>3. queued' = queued \o QueuedFor(p)
    <3>1. queued \in Seq(ServerReply)
      BY DEF BridgeInv, QueueInv
    <3> QED BY <2>1, <2>2, <3>1, ConcatEmptySeq
  <2> HIDE DEF p
  <2> QED BY <1>2, <1>3, <2>1, <2>2, <2>3, ReadOnInv DEF p
<1> QED BY <1>6, <1>7

\* The last packet of a request's data, or one the PTP/IP server did not expect.
LEMMA RecvEndInv ==
    ASSUME BridgeInv, RecvEnd PROVE BridgeInv'
<1> DEFINE c == packets[Taken]
           p == packets[Taken + 1]
<1>1. /\ pc = "end_body" /\ Whole /\ consumed' = consumed + 2
      /\ IF Reading.type = "end"
           THEN /\ CmdWrite(DataReplies(Reading.tid)) /\ pc' = "send"
                /\ peer' = peer /\ forced' = forced
           ELSE /\ first_write' = first_write /\ hello' = hello /\ queued' = queued
                /\ Down
      /\ server' = server /\ conn' = conn /\ packets' = packets
      /\ arrived' = arrived /\ replies' = replies /\ events' = events
      /\ thread' = thread /\ torn' = torn /\ abrupt' = abrupt
  BY DEF RecvEnd, camera
<1>2. /\ Taken > 0 /\ c.type = "start" /\ server = "ptpip" /\ ~first_write /\ Taken \in Nat
  <2>1. Taken \in Nat
    BY TakenRange DEF BridgeInv
  <2> QED BY <1>1, <2>1 DEF BridgeInv, LoopInv, Outside
<1>3. /\ Taken + 1 \in 1 .. Len(packets) /\ Reading = p /\ Taken \in 1 .. Len(packets)
      /\ consumed' \in 0 .. arrived
  <2>1. pc \in InBody
    BY <1>1 DEF InBody
  <2> QED BY <1>1, <1>2, <2>1, BodyTaken DEF BridgeInv
<1>4. p.type = Follower(c) /\ p.op = c.op
  BY <1>2, <1>3, NextPacket DEF BridgeInv, Continues, ClientPacket
<1>5. CASE p.type = "end"
  <2>1. ReadsPacket /\ pc' = "send"
    BY <1>1, <1>3, <1>5 DEF ReadsPacket, InBody, CmdWrite
  <2>2. Complete(p)
    BY <1>2, <1>4, <1>5 DEF Complete, Follower
  <2>3. QueuedFor(p) # <<>> /\ queued' = queued \o QueuedFor(p)
    BY <1>1, <1>2, <1>3, <1>5 DEF QueuedFor, DataReplies, CmdWrite
  <2> HIDE DEF p
  <2> QED BY <2>1, <2>2, <2>3, ReadToSendInv DEF p
<1>6. CASE p.type # "end"
  <2>1. p.type = "middle"
    BY <1>2, <1>4, <1>6 DEF Follower
  <2>2. p \in ToSet(packets)
    BY <1>3 DEF ToSet, BridgeInv, WireInv
  <2>3. /\ Down /\ first_write' = first_write /\ hello' = hello /\ queued' = queued
    BY <1>1, <1>3, <1>6
  <2>4. /\ pc' \in Outside /\ peer' = "none" /\ forced' \in BOOLEAN
    BY <2>3, BridgeTyped DEF Down, Outside, BridgeInv
  <2>5. BridgeTypeOK'
    BY <1>1, <1>3, <2>3, <2>4, BridgeTypes, BridgeTyped DEF BridgeInv
  <2> HIDE DEF p
  <2> QED BY <1>1, <1>2, <2>1, <2>2, <2>3, <2>5, BridgeDownInv
<1> QED BY <1>5, <1>6

\* How the server leaves a send: to a client that is there, to one that has
\* closed, or by SIGPIPE.
LEMMA SentCases ==
    ASSUME NEW reply, NEW next, Sent(reply, next)
    PROVE  \/ peer = "open" /\ peer' = "open" /\ replies' = replies \o reply /\ pc' = next
           \/ /\ peer = "fin" /\ peer' \in {"fin", "reset"} /\ replies' = replies
              /\ pc' = next
           \/ peer = "reset" /\ peer' = "reset" /\ replies' = replies /\ pc' = "killed"
  BY DEF Sent

\* A step of the server that sends, but for its order and its position.
LEMMA SendingInv ==
    ASSUME BridgeInv, NEW reply \in Seq(ServerReply), NEW next \in {"length", "send_response"},
           Sent(reply, next),
           server' = server, conn' = conn, packets' = packets, consumed' = consumed,
           arrived' = arrived, first_write' = first_write, events' = events,
           torn' = torn, forced' = forced, abrupt' = abrupt,
           hello' \in BOOLEAN, thread' \in BOOLEAN,
           LoopInv', QueueInv', Containers(queued'), StepInv'
    PROVE  BridgeInv'
<1>1. /\ Taken' = Taken /\ Taken \in 0 .. Len(packets) /\ Taken \in Nat
      /\ consumed' \in 0 .. arrived /\ conn \in Nat
      /\ packets \in Seq(ClientPacket) /\ Len(packets) \in Nat
  <2>1. Taken' = Taken
    BY DEF Taken
  <2>2. /\ Taken \in Nat /\ Taken \in 0 .. Len(packets) /\ consumed \in Nat
        /\ arrived \in Nat /\ consumed <= arrived
    BY TakenRange DEF BridgeInv
  <2>3. conn \in Nat /\ packets \in Seq(ClientPacket)
    BY DEF BridgeInv, BridgeTypeOK, WireInv
  <2> QED BY <2>1, <2>2, <2>3
<1>2. /\ peer' \in {"none", "open", "fin", "reset"}
      /\ pc' \in {next, "killed"} /\ replies' \in Seq(ServerReply)
      /\ peer' = "open" \/ replies' = replies
      /\ peer' = "open" => pc' = next
  <2>1. replies \in Seq(ServerReply) /\ replies \o reply \in Seq(ServerReply)
    BY ConcatProperties DEF BridgeInv
  <2> QED BY <2>1, SentCases
<1>3. BridgeTypeOK'
  <2>1. pc' \in Outside \cup Receiving \cup {"send", "send_response"}
    BY <1>2 DEF Outside, Receiving
  <2> QED BY <1>1, <1>2, <2>1, BridgeTypes, BridgeTyped DEF BridgeInv
<1>4. WireInv' /\ (InStep' <=> InStep)
  BY WireSame DEF BridgeInv
<1>5. RepliesInOrder'
  <2> SUFFICES ASSUME InStep PROVE IsPrefix(replies', Owed(packets', Len(packets')))
    BY <1>4, InOrderAfter
  <2>1. CASE replies' = replies
    BY <2>1, InOrder DEF BridgeInv
  <2>2. CASE peer' = "open"
    <3>1. /\ Owed(packets, Taken) \in Seq(ServerReply)
          /\ Owed(packets, Len(packets)) \in Seq(ServerReply)
          /\ IsPrefix(Owed(packets, Taken), Owed(packets, Len(packets)))
      <4>1. Len(packets) \in 0 .. Len(packets)
        BY <1>1
      <4> QED BY <1>1, <4>1, OwedParts, OwedPrefix
    <3>2. IsPrefix(replies', Owed(packets, Taken))
      <4>1. Owed(packets, Taken)' = Owed(packets, Taken)
        BY <1>1, OwedAfter
      <4>2. CASE pc' = "length"
        <5>1. replies' = Owed(packets, Taken)
          BY <1>4, <2>2, <4>1, <4>2 DEF StepInv, Receiving
        <5> QED BY <3>1, <5>1, PrefixSelf
      <4>3. CASE pc' = "send_response"
        <5>1. replies' \o queued' = Owed(packets, Taken) /\ queued' \in Seq(ServerReply)
          BY <1>4, <2>2, <4>1, <4>3 DEF StepInv, QueueInv
        <5>2. IsPrefix(replies', replies' \o queued')
          BY <1>2, <5>1, PrefixConcat
        <5> QED BY <5>1, <5>2
      <4> QED BY <1>2, <2>2, <4>2, <4>3
    <3> QED BY <1>2, <3>1, <3>2, PrefixTransitive
  <2> QED BY <1>2, <2>1, <2>2
<1>6. ForcedOnlyByTcp'
  BY DEF BridgeInv, ForcedOnlyByTcp
<1> QED BY <1>2, <1>3, <1>4, <1>5, <1>6 DEF BridgeInv

\* The server's hello answers the client's init packet.
LEMMA SendHelloInv ==
    ASSUME BridgeInv, SendHello PROVE BridgeInv'
<1> DEFINE h == <<ContainerOf("hello", 0)>>
<1>1. /\ pc = "send" /\ hello /\ Sent(h, "length") /\ hello' = FALSE
      /\ thread' = (thread \/ server = "ptpip")
      /\ server' = server /\ conn' = conn /\ packets' = packets /\ consumed' = consumed
      /\ arrived' = arrived /\ first_write' = first_write /\ queued' = queued
      /\ events' = events /\ torn' = torn /\ forced' = forced /\ abrupt' = abrupt
  BY DEF SendHello, StartThread, stream, history
<1>2. /\ Taken = 1 /\ consumed = 3 * Taken /\ ~first_write /\ Complete(packets[1])
      /\ queued = <<>> /\ Taken' = 1 /\ conn \in Nat /\ peer # "none"
  <2>1. Taken' = Taken
    BY <1>1 DEF Taken
  <2> QED BY <1>1, <2>1 DEF BridgeInv, LoopInv, QueueInv, Outside, InBody, BridgeTypeOK
<1>3. h \in Seq(ServerReply)
  BY <1>2 DEF ContainerOf, ServerReply
<1>4. /\ packets \in Seq(ClientPacket) /\ 1 \in 1 .. Len(packets)
      /\ packets[1].type = "init" /\ packets[1].tid = 0
  <2>1. packets \in Seq(ClientPacket) /\ 1 \in 1 .. Len(packets)
    BY <1>2, TakenRange DEF BridgeInv, WireInv
  <2>2. packets[1].type = "init" /\ Speaks(packets[1])
    BY <2>1, FirstIsInit DEF BridgeInv, WireInv
  <2> QED BY <2>1, <2>2 DEF Speaks
<1>5. Owed(packets, 1) = Owed(packets, 0) \o h
  <2>1. Expected(packets[1]) = h
    BY <1>4 DEF Expected
  <2>2. 0 + 1 = 1 /\ 0 + 1 <= Len(packets) /\ 0 \in Nat
    BY <1>4
  <2> QED BY <1>2, <1>4, <2>1, <2>2, OwedNext
<1> HIDE DEF h
<1>6. \/ peer = "open" /\ peer' = "open" /\ replies' = replies \o h /\ pc' = "length"
      \/ /\ peer = "fin" /\ peer' \in {"fin", "reset"} /\ replies' = replies
         /\ pc' = "length"
      \/ peer = "reset" /\ peer' = "reset" /\ replies' = replies /\ pc' = "killed"
  BY <1>1, SentCases
<1>7. LoopInv'
  <2>1. Complete(packets[Taken])'
    BY <1>1, <1>2 DEF Complete
  <2> QED BY <1>1, <1>2, <1>6, <2>1 DEF LoopInv, Outside, InBody
<1>8. QueueInv' /\ Containers(queued')
  BY <1>1, <1>2, <1>6 DEF QueueInv, Paired, Containers
<1>9. StepInv'
  <2> SUFFICES ASSUME InStep', peer' = "open" PROVE replies' = Owed(packets, Taken)'
    BY <1>1, <1>2, <1>6 DEF StepInv
  <2>1. replies = Owed(packets, 0)
    <3>1. InStep
      BY <1>1, WireSame DEF BridgeInv
    <3>2. Taken - 1 = 0
      BY <1>2
    <3> QED BY <1>1, <1>6, <3>1, <3>2 DEF BridgeInv, StepInv
  <2>2. Owed(packets, Taken)' = Owed(packets, 1)
    BY <1>1, <1>2, OwedAfter
  <2> QED BY <1>5, <1>6, <2>1, <2>2
<1>10. hello' \in BOOLEAN /\ thread' \in BOOLEAN
  BY <1>1, BridgeTyped DEF BridgeInv
<1> QED BY <1>1, <1>3, <1>7, <1>8, <1>9, <1>10, SendingInv

\* Taking the front off the queue.
LEMMA QueueShrinks ==
    ASSUME NEW s \in Seq(ServerReply), Paired(s), Containers(s), s # <<>>
    PROVE  /\ Tail(s) \in Seq(ServerReply) /\ Paired(Tail(s)) /\ Containers(Tail(s))
           /\ Head(s) = s[1] /\ Head(s) \in ServerReply
           /\ Head(s).type = "data" => Tail(s) # <<>>
<1> DEFINE y == Tail(s)
           m == Len(s)
<1>1. /\ m \in Nat \ {0} /\ Head(s) = s[1] /\ Head(s) \in ServerReply
      /\ y \in Seq(ServerReply) /\ Len(y) = m - 1 /\ DOMAIN y = 1 .. m - 1
      /\ \A i \in 1 .. m - 1 : y[i] = s[i + 1]
  BY HeadTailProperties
<1>2. DOMAIN s = 1 .. m
  OBVIOUS
<1> HIDE DEF y, m
<1>3. \A i \in 1 .. m - 1 : i + 1 \in 1 .. m
  BY <1>1
<1>4. Containers(y)
  BY <1>1, <1>2, <1>3 DEF Containers
<1>5. Paired(y)
  <2> SUFFICES ASSUME NEW i \in 1 .. m - 1, y[i].type = "data"
               PROVE  i < m - 1 /\ y[i + 1].type = "response"
    BY <1>1 DEF Paired
  <2>1. i + 1 \in 1 .. m /\ s[i + 1].type = "data"
    BY <1>1, <1>3
  <2>2. i + 1 < m /\ s[(i + 1) + 1].type = "response"
    BY <2>1 DEF Paired, m
  <2>3. i + 1 \in 1 .. m - 1 /\ i < m - 1
    BY <1>1, <2>1, <2>2
  <2> QED BY <1>1, <2>2, <2>3
<1>6. s[1].type = "data" => y # <<>>
  <2> SUFFICES ASSUME s[1].type = "data" PROVE Len(y) # 0
    BY <1>1
  <2>1. 1 \in 1 .. m
    BY <1>1
  <2>2. 1 < m
    BY <2>1 DEF Paired, m
  <2> QED BY <1>1, <2>2
<1> QED BY <1>1, <1>4, <1>5, <1>6 DEF y

\* What the camera has queued for a complete request is what its client is owed.
LEMMA QueuedIsOwed ==
    ASSUME WireInv, InStep, server \in {"ptpip", "fuji"},
           NEW k \in 1 .. Len(packets), k # 1, Complete(packets[k]),
           NEW p, p = packets[k],
           NEW d, d = ContainerOf("data", p.tid),
           NEW r, r = ContainerOf("response", p.tid)
    PROVE  \/ QueuedFor(p) = <<>>
           \/ QueuedFor(p) = <<r>> /\ Expected(p) = <<r>>
           \/ QueuedFor(p) = <<d, r>> /\ Expected(p) = ToClient(d) \o <<r>>
<1>1. Speaks(p) /\ p.type # "init" /\ (server = "ptpip" => p.op # "refused")
  BY FirstIsInit DEF WireInv, InStep
<1>2. CASE p.type = "data"
  BY <1>2 DEF QueuedFor, Expected, DataReplies
<1>3. CASE p.type = "end"
  <2>1. p.op = "write"
    BY <1>1, <1>3 DEF Complete, Speaks, Writes
  <2> QED BY <1>3, <2>1 DEF QueuedFor, Expected, DataReplies
<1>4. CASE p.type = "cmd"
  <2>1. p.op \in {"plain", "read", "refused", "unsent"}
    BY <1>1, <1>4, BridgeAssumption DEF Complete, Speaks, Writes
  <2> QED BY <1>4, <2>1 DEF QueuedFor, Expected, CommandReplies
<1> QED BY <1>1, <1>2, <1>3, <1>4 DEF Complete

\* The container the server sends and the ones it keeps are in order.
LEMMA SendContainerStep ==
    ASSUME BridgeInv, SendContainer
    PROVE  StepInv'
<1> DEFINE c == Head(queued)
           p == packets[Taken]
           d == ContainerOf("data", p.tid)
           r == ContainerOf("response", p.tid)
           next == IF pc = "send" THEN AfterContainer(c) ELSE "length"
<1>1. /\ pc \in {"send", "send_response"} /\ ~hello /\ queued # <<>>
      /\ Sent(ToClient(c), next) /\ queued' = Tail(queued)
      /\ server' = server /\ conn' = conn /\ packets' = packets /\ consumed' = consumed
  BY DEF SendContainer, stream
<1>2. /\ Taken' = Taken /\ Taken \in 1 .. Len(packets) /\ Taken \in Nat /\ Complete(p)
      /\ conn \in Nat /\ packets \in Seq(ClientPacket) /\ Len(packets) \in Nat
  <2>1. Taken' = Taken
    BY <1>1 DEF Taken
  <2>2. Taken > 0 /\ Complete(p)
    BY <1>1 DEF BridgeInv, LoopInv
  <2>3. Taken \in 0 .. Len(packets) /\ Taken \in Nat /\ Len(packets) \in Nat
    BY TakenRange DEF BridgeInv
  <2>4. conn \in Nat /\ packets \in Seq(ClientPacket)
    BY DEF BridgeInv, BridgeTypeOK, WireInv
  <2> QED BY <2>1, <2>2, <2>3, <2>4
<1> SUFFICES ASSUME InStep
             PROVE  /\ pc' = "length" => queued' = <<>> /\ (peer' = "open" => replies' = Owed(packets, Taken))
                    /\ pc' = "send_response" =>
                          /\ queued' = <<r>>
                          /\ peer' = "open" => replies' \o queued' = Owed(packets, Taken)
  <2>1. InStep' <=> InStep
    BY <1>1, WireSame DEF BridgeInv
  <2>2. Owed(packets, Taken)' = Owed(packets, Taken)
    BY <1>1, <1>2, OwedAfter
  <2>3. DataReplies(packets[Taken].tid)' = <<r>>
    BY <1>1, <1>2 DEF DataReplies, ContainerOf
  <2>4. pc' \in {"length", "send_response", "killed"}
    BY <1>1, SentCases DEF AfterContainer
  <2> HIDE DEF r
  <2> QED BY <2>1, <2>2, <2>3, <2>4 DEF StepInv, Receiving, InBody
<1>3. ToClient(r) = <<r>> /\ r.type = "response" /\ d.type = "data"
  BY DEF ToClient, ContainerOf
<1>4. d \in ServerReply /\ r \in ServerReply /\ ToClient(d) \in Seq(ServerReply)
  <2>1. p \in ClientPacket
    BY <1>2
  <2>2. p.tid \in Nat
    BY <2>1 DEF ClientPacket
  <2>3. d \in ServerReply /\ r \in ServerReply
        /\ [d EXCEPT !.type = "start"] \in ServerReply /\ [d EXCEPT !.type = "end"] \in ServerReply
    BY <1>2, <2>2 DEF ContainerOf, ServerReply
  <2> HIDE DEF d, r
  <2> QED BY <2>3 DEF ToClient
<1> HIDE DEF next
<1>5. \/ peer = "open" /\ peer' = "open" /\ replies' = replies \o ToClient(c) /\ pc' = next
      \/ /\ peer = "fin" /\ peer' \in {"fin", "reset"} /\ replies' = replies
         /\ pc' = next
      \/ peer = "reset" /\ peer' = "reset" /\ replies' = replies /\ pc' = "killed"
  BY <1>1, SentCases
<1>6. CASE pc = "send"
  <2>1. queued = QueuedFor(p) /\ (peer = "open" => replies = Owed(packets, Taken - 1))
    BY <1>6 DEF BridgeInv, StepInv
  <2>2. Taken # 1
    BY <1>1, <1>6 DEF BridgeInv, LoopInv, Outside
  <2>3. \/ QueuedFor(p) = <<>>
        \/ QueuedFor(p) = <<r>> /\ Expected(p) = <<r>>
        \/ QueuedFor(p) = <<d, r>> /\ Expected(p) = ToClient(d) \o <<r>>
    BY <1>2, <2>2, QueuedIsOwed DEF BridgeInv
  <2>4. Owed(packets, Taken) = Owed(packets, Taken - 1) \o Expected(p)
        /\ Owed(packets, Taken - 1) \in Seq(ServerReply)
    <3>1. Taken - 1 \in Nat /\ (Taken - 1) + 1 = Taken /\ (Taken - 1) + 1 <= Len(packets)
          /\ Taken - 1 \in 0 .. Len(packets)
      BY <1>2
    <3> QED BY <1>2, <3>1, OwedNext, OwedParts
  <2> HIDE DEF p, d, r
  <2>5. CASE QueuedFor(p) = <<r>> /\ Expected(p) = <<r>>
    <3>1. c = r /\ Tail(queued) = <<>>
      BY <2>1, <2>5
    <3>2. next = "length" /\ ToClient(c) = <<r>>
      BY <1>3, <1>6, <3>1 DEF next, AfterContainer
    <3> QED BY <1>1, <1>5, <2>1, <2>4, <2>5, <3>1, <3>2
  <2>6. CASE QueuedFor(p) = <<d, r>> /\ Expected(p) = ToClient(d) \o <<r>>
    <3>1. c = d /\ Tail(queued) = <<r>>
      BY <2>1, <2>6
    <3>2. next = "send_response"
      BY <1>3, <1>6, <3>1 DEF next, AfterContainer
    <3> DEFINE o == Owed(packets, Taken - 1)
               t == ToClient(d)
    <3>3. o \in Seq(ServerReply) /\ t \in Seq(ServerReply) /\ <<r>> \in Seq(ServerReply)
      BY <1>4, <2>4
    <3>4. Owed(packets, Taken) = o \o (t \o <<r>>)
      BY <2>4, <2>6
    <3>5. peer' = "open" => replies' = o \o t
      BY <1>5, <2>1, <3>1
    <3> HIDE DEF o, t
    <3>6. (o \o t) \o <<r>> = o \o (t \o <<r>>)
      BY <3>3, ConcatAssociative
    <3> QED BY <1>1, <1>5, <3>1, <3>2, <3>4, <3>5, <3>6
  <2> QED BY <1>1, <2>1, <2>3, <2>5, <2>6
<1>7. CASE pc = "send_response"
  <2>1. queued = <<r>> /\ (peer = "open" => replies \o queued = Owed(packets, Taken))
    BY <1>7 DEF BridgeInv, StepInv, DataReplies
  <2> HIDE DEF r
  <2>2. c = r /\ Tail(queued) = <<>> /\ next = "length"
    BY <1>7, <2>1 DEF next
  <2> QED BY <1>1, <1>3, <1>5, <2>1, <2>2
<1> QED BY <1>1, <1>6, <1>7

\* A container of the camera goes to the client.
LEMMA SendContainerInv ==
    ASSUME BridgeInv, SendContainer PROVE BridgeInv'
<1> DEFINE c == Head(queued)
           next == IF pc = "send" THEN AfterContainer(c) ELSE "length"
<1>1. /\ pc \in {"send", "send_response"} /\ ~hello /\ queued # <<>>
      /\ Sent(ToClient(c), next) /\ queued' = Tail(queued)
      /\ thread' = (thread \/ server = "ptpip")
      /\ server' = server /\ conn' = conn /\ packets' = packets /\ consumed' = consumed
      /\ arrived' = arrived /\ first_write' = first_write /\ hello' = hello
      /\ events' = events /\ torn' = torn /\ forced' = forced /\ abrupt' = abrupt
  BY DEF SendContainer, StartThread, stream, history
<1>2. /\ queued' \in Seq(ServerReply) /\ Paired(queued') /\ Containers(queued')
      /\ c \in ServerReply /\ (c.type = "data" => queued' # <<>>)
  BY <1>1, QueueShrinks, BridgeTyped DEF BridgeInv, QueueInv
<1>3. ToClient(c) \in Seq(ServerReply)
  <2>1. [c EXCEPT !.type = "start"] \in ServerReply /\ [c EXCEPT !.type = "end"] \in ServerReply
    BY <1>2 DEF ServerReply
  <2> HIDE DEF c
  <2> QED BY <1>2, <2>1 DEF ToClient
<1>4. next \in {"length", "send_response"} /\ (next = "send_response" => queued' # <<>>)
  BY <1>1, <1>2 DEF AfterContainer
<1> HIDE DEF c, next
<1>5. /\ pc' \in {next, "killed"} /\ peer' # "none" /\ (pc' = "killed" => peer' = "reset")
  BY <1>1, <1>4, SentCases
<1>6. QueueInv'
  <2>1. ~hello' /\ pc' # "send"
    BY <1>1, <1>4, <1>5
  <2> QED BY <1>2, <1>4, <1>5, <2>1 DEF QueueInv, Paired
<1>7. LoopInv'
  <2>1. Taken' = Taken /\ consumed = 3 * Taken /\ ~first_write /\ Taken > 0
        /\ Complete(packets[Taken])
    <3>1. Taken' = Taken
      BY <1>1 DEF Taken
    <3>2. Taken \in Nat
      BY TakenRange DEF BridgeInv
    <3> QED BY <1>1, <3>1, <3>2 DEF BridgeInv, LoopInv, Outside, InBody
  <2>2. Complete(packets[Taken])'
    BY <1>1, <2>1 DEF Complete
  <2>3. Taken \in Nat
    BY TakenRange DEF BridgeInv
  <2> QED BY <1>1, <1>4, <1>5, <2>1, <2>2, <2>3 DEF LoopInv, Outside, InBody
<1>8. StepInv'
  BY SendContainerStep
<1>9. hello' \in BOOLEAN /\ thread' \in BOOLEAN
  BY <1>1, BridgeTyped DEF BridgeInv
<1> QED BY <1>1, <1>2, <1>3, <1>4, <1>6, <1>7, <1>8, <1>9, SendingInv

\* What a client sends at once: one request with its data, an init packet or a
\* sentinel.
Block(b) ==
    \A i \in 1 .. Len(b) :
        /\ Speaks(b[i])
        /\ (b[i].type = "init") = (packets = <<>> /\ i = 1)
        /\ Continues(b[i]) => /\ i < Len(b)
                              /\ b[i + 1] = [b[i] EXCEPT !.type = Follower(b[i])]
        /\ b[i].type = "sentinel" => i = Len(b)
        /\ ~Continues(b[i]) => i = Len(b)

\* Behind whole requests, what the client sends is again a whole request.
LEMMA WireGrows ==
    ASSUME WireInv, server' = server, NEW b \in Seq(ClientPacket), b # <<>>, Block(b),
           packets' = packets \o b,
           packets # <<>> => /\ b[1].type \in {"cmd", "sentinel"}
                             /\ packets[Len(packets)].type # "sentinel"
    PROVE  WireInv'
<1> DEFINE w == packets
           v == packets \o b
           n == Len(packets)
           m == Len(b)
<1>1. /\ n \in Nat /\ m \in Nat \ {0} /\ v \in Seq(ClientPacket) /\ Len(v) = n + m
      /\ \A i \in 1 .. n : v[i] = w[i]
      /\ \A i \in 1 .. m : v[n + i] = b[i]
      /\ w # <<>> <=> n # 0
  BY ConcatProperties DEF WireInv
<1>2. /\ \A i \in 1 .. n : Speaks(w[i]) /\ Ordered(w, i)
  BY DEF WireInv
<1>3. /\ n # 0 => b[1].type \in {"cmd", "sentinel"} /\ w[n].type # "sentinel"
      /\ \A i \in 1 .. m :
           /\ Speaks(b[i])
           /\ (b[i].type = "init") = (n = 0 /\ i = 1)
           /\ Continues(b[i]) => /\ i < m
                                 /\ b[i + 1] = [b[i] EXCEPT !.type = Follower(b[i])]
           /\ b[i].type = "sentinel" => i = m
           /\ ~Continues(b[i]) => i = m
  BY <1>1 DEF Block
<1>4. packets' = v
  OBVIOUS
<1> HIDE DEF w, v, n, m
<1>5. ASSUME NEW i \in 1 .. Len(v) PROVE Speaks(v[i]) /\ Ordered(v, i)
  <2>1. CASE i \in 1 .. n
    <3>1. v[i] = w[i] /\ Speaks(w[i]) /\ Ordered(w, i) /\ Len(w) = n
      BY <1>1, <1>2, <2>1 DEF w, n
    <3>2. i < n => v[i + 1] = w[i + 1]
      BY <1>1, <2>1
    <3>3. i = n => v[i + 1] = b[1] /\ w[i].type # "sentinel"
                   /\ b[1].type \in {"cmd", "sentinel"}
      <4>1. v[n + 1] = b[1]
        <5>1. 1 \in 1 .. m
          BY <1>1
        <5> QED BY <1>1, <5>1
      <4>2. n # 0
        BY <1>1, <2>1
      <4>3. b[1].type \in {"cmd", "sentinel"} /\ w[n].type # "sentinel"
        BY <1>3, <4>2
      <4> QED BY <4>1, <4>3
    <3>4. (w[i].type = "init") = (i = 1)
      BY <3>1 DEF Ordered
    <3>5. Continues(w[i]) => i < Len(v) /\ v[i + 1] = [w[i] EXCEPT !.type = Follower(w[i])]
      BY <1>1, <2>1, <3>1, <3>2 DEF Ordered
    <3>6. w[i].type # "sentinel"
      BY <1>1, <2>1, <3>1, <3>3 DEF Ordered
    <3>7. ~Continues(w[i]) => v[i + 1].type \in {"cmd", "sentinel"}
      BY <1>1, <2>1, <3>1, <3>2, <3>3 DEF Ordered
    <3> QED BY <3>1, <3>4, <3>5, <3>6, <3>7 DEF Ordered
  <2>2. CASE i \notin 1 .. n
    <3> DEFINE j == i - n
    <3>1. j \in 1 .. m /\ i = n + j /\ (i < Len(v) <=> j < m) /\ (i = Len(v) <=> j = m)
          /\ (i = 1 <=> (n = 0 /\ j = 1))
      BY <1>1, <2>2
    <3> HIDE DEF j
    <3>2. v[i] = b[j]
      BY <1>1, <3>1
    <3>3. j < m => v[i + 1] = b[j + 1]
      BY <1>1, <3>1
    <3>4. /\ Speaks(b[j]) /\ (b[j].type = "init") = (i = 1)
          /\ b[j].type = "sentinel" => j = m
          /\ ~Continues(b[j]) => j = m
          /\ Continues(b[j]) => j < m /\ b[j + 1] = [b[j] EXCEPT !.type = Follower(b[j])]
      BY <1>3, <3>1
    <3> QED BY <3>1, <3>2, <3>3, <3>4 DEF Ordered
  <2> QED BY <2>1, <2>2
<1>6. ASSUME NEW i \in 1 .. Len(v) PROVE Speaks(packets[i])' /\ Ordered(packets, i)'
  <2>1. Speaks(packets[i])'
    BY <1>4, <1>5 DEF Speaks
  <2>2. Ordered(packets, i)'
    BY <1>4, <1>5 DEF Ordered, Continues, Follower
  <2> QED BY <2>1, <2>2
<1> QED BY <1>1, <1>4, <1>6 DEF WireInv

\* What is owed for the packets that were there does not change by new ones.
LEMMA OwedFront ==
    ASSUME NEW w, NEW v, NEW k \in Nat, \A i \in 1 .. k : v[i] = w[i]
    PROVE  Owed(v, k) = Owed(w, k)
<1>1. [i \in 1 .. k |-> Expected(v[i])] = [i \in 1 .. k |-> Expected(w[i])]
  BY Zenon
<1> QED BY <1>1 DEF Owed

\* The client sends: the server is where it was and has read what it had.
LEMMA BlockInv ==
    ASSUME BridgeInv, NEW b \in Seq(ClientPacket), Send(b), WireInv'
    PROVE  BridgeInv'
<1> DEFINE n == Len(packets)
<1>1. /\ peer = "open" /\ packets' = packets \o b
      /\ server' = server /\ pc' = pc /\ conn' = conn /\ peer' = peer
      /\ arrived' = arrived /\ consumed' = consumed /\ first_write' = first_write
      /\ hello' = hello /\ queued' = queued /\ replies' = replies /\ events' = events
      /\ thread' = thread /\ torn' = torn /\ forced' = forced /\ abrupt' = abrupt
  BY DEF Send, camera, history
<1>2. /\ n \in Nat /\ Len(packets') \in Nat /\ n <= Len(packets')
      /\ packets \in Seq(ClientPacket) /\ packets' \in Seq(ClientPacket)
      /\ \A i \in 1 .. n : packets'[i] = packets[i]
  <2>1. packets \in Seq(ClientPacket)
    BY DEF BridgeInv, WireInv
  <2> QED BY <1>1, <2>1, ConcatProperties
<1>3. /\ Taken' = Taken /\ Taken \in Nat /\ Taken \in 0 .. n /\ conn \in Nat
      /\ consumed \in 0 .. arrived /\ arrived \in 0 .. 3 * n
  <2>1. Taken' = Taken
    BY <1>1 DEF Taken
  <2>2. conn \in Nat /\ consumed \in 0 .. arrived
    BY DEF BridgeInv, BridgeTypeOK
  <2> QED BY <2>1, <2>2, TakenRange DEF BridgeInv
<1>4. Taken > 0 => packets'[Taken] = packets[Taken]
  BY <1>2, <1>3
<1>5. InStep' => InStep
  <2>1. DOMAIN packets = 1 .. n /\ DOMAIN packets' = 1 .. Len(packets')
    BY <1>2
  <2>2. \A i \in 1 .. n : i \in 1 .. Len(packets')
    BY <1>2
  <2> HIDE DEF n
  <2> QED BY <1>1, <1>2, <2>1, <2>2 DEF InStep
<1>6. /\ Owed(packets, Taken)' = Owed(packets, Taken)
      /\ Taken > 0 => Owed(packets, Taken - 1)' = Owed(packets, Taken - 1)
      /\ Owed(packets', n) = Owed(packets, n)
  <2>1. ASSUME NEW k \in 0 .. n PROVE Owed(packets', k) = Owed(packets, k)
    <3>1. k \in Nat /\ \A i \in 1 .. k : packets'[i] = packets[i]
      BY <1>2
    <3> QED BY <3>1, OwedFront
  <2>2. /\ Owed(packets, Taken)' = Owed(packets', Taken)
        /\ Owed(packets, Taken - 1)' = Owed(packets', Taken - 1)
    BY <1>1, <1>3, OwedAfter
  <2>3. n \in 0 .. n /\ Taken \in 0 .. n /\ (Taken > 0 => Taken - 1 \in 0 .. n)
    BY <1>2, <1>3
  <2> QED BY <2>1, <2>2, <2>3
<1>7. BridgeTypeOK'
  <2>1. arrived \in 0 .. 3 * Len(packets')
    BY <1>2, <1>3
  <2>2. {first_write, hello, thread, torn, forced, abrupt} \subseteq BOOLEAN
    BY DEF BridgeInv, BridgeTypeOK
  <2>3. {first_write', hello', thread', torn', forced', abrupt'} \subseteq BOOLEAN
    BY Zenon, <1>1, <2>2
  <2> QED BY <1>1, <2>1, <2>3 DEF BridgeInv, BridgeTypeOK
<1>8. LoopInv'
  <2>1. Taken > 0 => (Complete(packets[Taken])' <=> Complete(packets[Taken]))
    BY <1>1, <1>3, <1>4 DEF Complete
  <2> QED BY <1>1, <1>3, <1>4, <2>1 DEF BridgeInv, LoopInv
<1>9. pc \in {"send", "send_response"} => Taken > 0
  BY DEF BridgeInv, LoopInv
<1>10. QueueInv'
  BY <1>1, <1>3, <1>4, <1>9 DEF BridgeInv, QueueInv
<1>11. StepInv'
  <2>1. /\ Taken > 0 => QueuedFor(packets[Taken])' = QueuedFor(packets[Taken])
        /\ Taken > 0 =>
             DataReplies(packets[Taken].tid)' = DataReplies(packets[Taken].tid)
    BY <1>1, <1>3, <1>4 DEF QueuedFor, CommandReplies, DataReplies, ContainerOf
  <2> QED BY <1>1, <1>5, <1>6, <1>9, <2>1 DEF BridgeInv, StepInv
<1>12. ForcedOnlyByTcp'
  <2>1. \A p \in ToSet(packets) : p \in ToSet(packets)'
    <3>1. DOMAIN packets = 1 .. n /\ DOMAIN packets' = 1 .. Len(packets')
      BY <1>2
    <3>2. \A i \in 1 .. n : i \in 1 .. Len(packets')
      BY <1>2
    <3> HIDE DEF n
    <3> QED BY <1>2, <3>1, <3>2 DEF ToSet
  <2> QED BY <1>1, <2>1 DEF BridgeInv, ForcedOnlyByTcp
<1>13. RepliesInOrder'
  <2> SUFFICES ASSUME InStep' PROVE IsPrefix(replies', Owed(packets', Len(packets')))
    BY <1>1, InOrderAfter
  <2>1. IsPrefix(replies, Owed(packets, n))
    BY <1>5, InOrder DEF BridgeInv
  <2>2. /\ IsPrefix(Owed(packets', n), Owed(packets', Len(packets')))
        /\ Owed(packets', n) \in Seq(ServerReply)
        /\ Owed(packets', Len(packets')) \in Seq(ServerReply)
    <3>1. n \in 0 .. Len(packets') /\ Len(packets') \in 0 .. Len(packets')
      BY <1>2
    <3> HIDE DEF n
    <3> QED BY <1>2, <1>3, <3>1, OwedPrefix, OwedParts
  <2>3. replies \in Seq(ServerReply)
    BY DEF BridgeInv
  <2> QED BY <1>1, <1>6, <2>1, <2>2, <2>3, PrefixTransitive
<1> QED BY <1>1, <1>7, <1>8, <1>10, <1>11, <1>12, <1>13 DEF BridgeInv

\* The client introduces itself, and takes its leave of the Fuji server.
LEMMA SendSingleInv ==
    ASSUME BridgeInv, SendInit \/ SendSentinel PROVE BridgeInv'
<1>1. PICK p \in ClientPacket :
         /\ Send(<<p>>)
         /\ Speaks(p) /\ ~Continues(p)
         /\ (p.type = "init") = (packets = <<>>)
         /\ packets # <<>> => p.type = "sentinel" /\ Last(packets).type # "sentinel"
  <2>1. CASE SendInit
    <3> DEFINE p == PacketOf("init", "none", 0)
    <3>1. packets = <<>> /\ Send(<<p>>)
      BY <2>1 DEF SendInit
    <3>2. p \in ClientPacket /\ Speaks(p) /\ ~Continues(p) /\ p.type = "init"
      BY DEF PacketOf, ClientPacket, Speaks, Continues
    <3> QED BY <3>1, <3>2
  <2>2. CASE SendSentinel
    <3> DEFINE p == PacketOf("sentinel", "none", 0)
    <3>1. /\ server = "fuji" /\ packets # <<>> /\ Last(packets).type # "sentinel"
          /\ Send(<<p>>)
      BY <2>2 DEF SendSentinel
    <3>2. p \in ClientPacket /\ Speaks(p) /\ ~Continues(p) /\ p.type = "sentinel"
      BY <3>1 DEF PacketOf, ClientPacket, Speaks, Continues
    <3> QED BY <3>1, <3>2
  <2> QED BY <2>1, <2>2
<1> DEFINE b == <<p>>
<1>2. b \in Seq(ClientPacket) /\ b # <<>> /\ b[1] = p /\ Len(b) = 1
  OBVIOUS
<1>3. Block(b)
  BY <1>1, <1>2 DEF Block
<1>4. packets # <<>> => b[1].type \in {"cmd", "sentinel"} /\ packets[Len(packets)].type # "sentinel"
  BY <1>1, <1>2 DEF Last
<1>5. Send(b) /\ packets' = packets \o b /\ server' = server
  BY <1>1 DEF Send
<1> HIDE DEF b
<1>6. WireInv'
  BY <1>2, <1>3, <1>4, <1>5, WireGrows DEF BridgeInv
<1> QED BY <1>2, <1>5, <1>6, BlockInv

\* A packet that is a request by itself, or the last of one.
LEMMA BlockOne ==
    ASSUME packets # <<>>, NEW p \in ClientPacket, Speaks(p), ~Continues(p), p.type # "init"
    PROVE  <<p>> \in Seq(ClientPacket) /\ Block(<<p>>) /\ <<p>> # <<>> /\ <<p>>[1] = p
  BY DEF Block

\* A packet in front of the ones that continue its request.
LEMMA BlockMore ==
    ASSUME packets # <<>>, NEW p \in ClientPacket, Speaks(p), Continues(p),
           NEW b \in Seq(ClientPacket), b # <<>>, Block(b),
           b[1] = [p EXCEPT !.type = Follower(p)], NEW c, c = <<p>> \o b
    PROVE  c \in Seq(ClientPacket) /\ Block(c) /\ c # <<>> /\ c[1] = p
<1> DEFINE m == Len(b)
<1>1. /\ c \in Seq(ClientPacket) /\ Len(c) = 1 + m /\ m \in Nat \ {0} /\ c[1] = p
      /\ \A i \in 1 .. m : c[1 + i] = b[i]
  <2>1. <<p>> \in Seq(ClientPacket) /\ Len(<<p>>) = 1 /\ <<p>>[1] = p
    OBVIOUS
  <2> QED BY <2>1, ConcatProperties
<1>2. p.type \notin {"init", "sentinel"}
  BY DEF Continues
<1>3. \A i \in 1 .. m :
         /\ Speaks(b[i]) /\ b[i].type # "init"
         /\ Continues(b[i]) => i < m /\ b[i + 1] = [b[i] EXCEPT !.type = Follower(b[i])]
         /\ b[i].type = "sentinel" => i = m
         /\ ~Continues(b[i]) => i = m
  BY DEF Block
<1> HIDE DEF m
<1>4. ASSUME NEW i \in 1 .. Len(c)
      PROVE  /\ Speaks(c[i]) /\ c[i].type # "init"
             /\ Continues(c[i]) => i < Len(c) /\ c[i + 1] = [c[i] EXCEPT !.type = Follower(c[i])]
             /\ c[i].type = "sentinel" => i = Len(c)
             /\ ~Continues(c[i]) => i = Len(c)
  <2>1. CASE i = 1
    <3>1. c[i] = p /\ i < Len(c) /\ c[i + 1] = b[1]
      <4>1. 1 \in 1 .. m
        BY <1>1
      <4> QED BY <1>1, <2>1, <4>1
    <3> QED BY <1>2, <3>1
  <2>2. CASE i # 1
    <3> DEFINE j == i - 1
    <3>1. j \in 1 .. m /\ i = 1 + j /\ (i < Len(c) <=> j < m) /\ (i = Len(c) <=> j = m)
      BY <1>1, <2>2
    <3> HIDE DEF j
    <3>2. c[i] = b[j] /\ (j < m => c[i + 1] = b[j + 1])
      BY <1>1, <3>1
    <3> QED BY <1>3, <3>1, <3>2
  <2> QED BY <2>1, <2>2
<1>5. Block(c)
  BY <1>4 DEF Block
<1>6. c # <<>>
  BY <1>1
<1> QED BY <1>1, <1>5, <1>6

\* A tuple put together from the front.
LEMMA TupleConcat ==
    ASSUME NEW S, NEW x \in S, NEW y \in S, NEW z \in S
    PROVE  <<x>> \o <<y>> = <<x, y>> /\ <<x>> \o <<y, z>> = <<x, y, z>>
<1> DEFINE a == <<x>>
           b == <<y>>
           c == <<y, z>>
<1>1. /\ a \in Seq(S) /\ Len(a) = 1 /\ a[1] = x
      /\ b \in Seq(S) /\ Len(b) = 1 /\ b[1] = y
      /\ c \in Seq(S) /\ Len(c) = 2 /\ c[1] = y /\ c[2] = z
  OBVIOUS
<1>2. /\ <<x, y>> \in Seq(S) /\ Len(<<x, y>>) = 2
      /\ <<x, y, z>> \in Seq(S) /\ Len(<<x, y, z>>) = 3
  OBVIOUS
<1> HIDE DEF a, b, c
<1>3. /\ a \o b \in Seq(S) /\ Len(a \o b) = 2 /\ (a \o b)[1] = x /\ (a \o b)[2] = y
      /\ a \o c \in Seq(S) /\ Len(a \o c) = 3
      /\ (a \o c)[1] = x /\ (a \o c)[2] = y /\ (a \o c)[3] = z
  BY <1>1, ConcatProperties
<1>4. a \o b = <<x, y>>
  <2>1. \A i \in 1 .. 2 : (a \o b)[i] = <<x, y>>[i]
    BY <1>3
  <2> QED BY <1>2, <1>3, <2>1, SeqEqual
<1>5. a \o c = <<x, y, z>>
  <2>1. \A i \in 1 .. 3 : (a \o c)[i] = <<x, y, z>>[i]
    BY <1>3
  <2> QED BY <1>2, <1>3, <2>1, SeqEqual
<1> QED BY <1>4, <1>5 DEF a, b, c

\* The packets of a request.
RequestSent(op, tid) ==
    <<PacketOf("cmd", op, tid)>> \o DataPackets(op, tid)

\* They are one command and the data it announces.
LEMMA RequestBlock ==
    ASSUME server \in {"ptpip", "fuji"}, packets # <<>>,
           NEW op \in Operations, NEW tid \in Nat, op = "unsent" => server = "ptpip"
    PROVE  /\ RequestSent(op, tid) \in Seq(ClientPacket)
           /\ Block(RequestSent(op, tid)) /\ RequestSent(op, tid) # <<>>
           /\ RequestSent(op, tid)[1].type = "cmd"
<1> DEFINE b == RequestSent(op, tid)
<1> DEFINE P(type) == PacketOf(type, op, tid)
           Types == {"cmd", "data", "start", "middle", "end"}
<1>1. \A t \in Types : /\ P(t) \in ClientPacket /\ P(t).type = t /\ P(t).op = op
                       /\ \A u \in Types : [P(t) EXCEPT !.type = u] = P(u)
  BY DEF PacketOf, ClientPacket
<1>2. op # "none" /\ (op \in Writes => op # "unsent")
  BY BridgeAssumption DEF Writes
<1>3. \A t \in Types :
         /\ Continues(P(t)) <=> t \in {"start", "middle"} \/ (t = "cmd" /\ op \in Writes)
         /\ Follower(P(t)) = IF server = "fuji" THEN "data"
                             ELSE IF t = "cmd" THEN "start"
                             ELSE IF t = "start" /\ op = "chunked" THEN "middle" ELSE "end"
  BY <1>1 DEF Continues, Follower
<1>4. /\ Speaks(P("cmd"))
      /\ op \in Writes /\ server = "fuji" => Speaks(P("data"))
      /\ op \in Writes /\ server = "ptpip" =>
            Speaks(P("start")) /\ Speaks(P("middle")) /\ Speaks(P("end"))
  BY <1>1, <1>2 DEF Speaks
<1> DEFINE c == P("cmd")
           d == P("data")
           s == P("start")
           m == P("middle")
           e == P("end")
<1>5. /\ c \in ClientPacket /\ d \in ClientPacket /\ s \in ClientPacket
      /\ m \in ClientPacket /\ e \in ClientPacket
      /\ Speaks(c) /\ (op \in Writes /\ server = "fuji" => Speaks(d))
      /\ op \in Writes /\ server = "ptpip" => Speaks(s) /\ Speaks(m) /\ Speaks(e)
      /\ c.type = "cmd" /\ d.type = "data" /\ e.type = "end"
      /\ Continues(c) <=> op \in Writes
      /\ Continues(s) /\ Continues(m) /\ ~Continues(d) /\ ~Continues(e)
      /\ server = "fuji" => [c EXCEPT !.type = Follower(c)] = d
      /\ server = "ptpip" => /\ [c EXCEPT !.type = Follower(c)] = s
                             /\ [s EXCEPT !.type = Follower(s)] = IF op = "chunked" THEN m ELSE e
                             /\ [m EXCEPT !.type = Follower(m)] = e
  BY <1>1, <1>3, <1>4
<1>6. b = <<c>> \o DataPackets(op, tid)
  BY DEF RequestSent
<1>7. DataPackets(op, tid) =
        IF op \notin Writes THEN <<>>
        ELSE IF server = "fuji" THEN <<d>>
        ELSE IF op = "chunked" THEN <<s, m, e>> ELSE <<s, e>>
  BY DEF DataPackets
<1> SUFFICES b \in Seq(ClientPacket) /\ b # <<>> /\ Block(b) /\ b[1].type = "cmd"
  OBVIOUS
<1> HIDE DEF b, P, c, d, s, m, e
<1>8. CASE op \notin Writes
  <2>1. b = <<c>>
    BY <1>6, <1>7, <1>8
  <2> QED BY <1>5, <1>8, <2>1, BlockOne
<1>9. CASE op \in Writes /\ server = "fuji"
  <2> DEFINE x == <<d>>
  <2>1. b = <<c>> \o x
    BY <1>6, <1>7, <1>9
  <2>2. x \in Seq(ClientPacket) /\ Block(x) /\ x # <<>> /\ x[1] = d
    BY <1>5, <1>9, BlockOne
  <2> HIDE DEF x
  <2>3. /\ x[1] = [c EXCEPT !.type = Follower(c)] /\ Continues(c) /\ Speaks(c)
        /\ c \in ClientPacket /\ c.type = "cmd"
    BY <1>5, <1>9, <2>2
  <2> QED BY <2>1, <2>2, <2>3, BlockMore
<1>10. CASE op \in Writes /\ server = "ptpip"
  <2> DEFINE x == <<e>>
             y == IF op = "chunked" THEN <<m>> \o x ELSE x
             z == <<s>> \o y
  <2>1. z = DataPackets(op, tid)
    <3>1. s \in ClientPacket /\ m \in ClientPacket /\ e \in ClientPacket
      BY <1>5
    <3>2. <<m>> \o <<e>> = <<m, e>> /\ <<s>> \o <<m, e>> = <<s, m, e>>
      BY <3>1, TupleConcat, Zenon
    <3>3. <<s>> \o <<e>> = <<s, e>>
      BY <3>1, TupleConcat, Zenon
    <3> QED BY <1>7, <1>10, <3>2, <3>3
  <2>2. x \in Seq(ClientPacket) /\ Block(x) /\ x # <<>> /\ x[1] = e
    BY <1>5, <1>10, BlockOne
  <2> HIDE DEF x
  <2>3. y \in Seq(ClientPacket) /\ Block(y) /\ y # <<>> /\ y[1] = IF op = "chunked" THEN m ELSE e
    <3>1. /\ x[1] = [m EXCEPT !.type = Follower(m)] /\ Continues(m) /\ Speaks(m)
          /\ m \in ClientPacket
      BY <1>5, <1>10, <2>2
    <3>2. CASE op = "chunked"
      <4>1. y = <<m>> \o x
        BY <3>2
      <4> HIDE DEF y
      <4>2. y \in Seq(ClientPacket) /\ Block(y) /\ y # <<>> /\ y[1] = m
        BY <2>2, <3>1, <4>1, BlockMore
      <4> QED BY <3>2, <4>2
    <3>3. CASE op # "chunked"
      BY <2>2, <3>3
    <3> QED BY <3>2, <3>3
  <2> HIDE DEF y
  <2>4. z \in Seq(ClientPacket) /\ Block(z) /\ z # <<>> /\ z[1] = s
    <3>1. /\ y[1] = [s EXCEPT !.type = Follower(s)] /\ Continues(s) /\ Speaks(s)
          /\ s \in ClientPacket
      BY <1>5, <1>10, <2>3
    <3> QED BY <2>3, <3>1, BlockMore
  <2>5. b = <<c>> \o z
    BY <1>6, <2>1
  <2> HIDE DEF z
  <2>6. /\ z[1] = [c EXCEPT !.type = Follower(c)] /\ Continues(c) /\ Speaks(c)
        /\ c \in ClientPacket /\ c.type = "cmd"
    BY <1>5, <1>10, <2>4
  <2> QED BY <2>4, <2>5, <2>6, BlockMore
<1> QED BY <1>8, <1>9, <1>10

\* The client sends its next request.
LEMMA SendRequestInv ==
    ASSUME BridgeInv, NEW op \in Operations, SendRequest(op)
    PROVE  BridgeInv'
<1> DEFINE tid == Len(Commands) + 1
           b == RequestSent(op, tid)
<1>1. /\ packets # <<>> /\ Last(packets).type # "sentinel"
      /\ op = "unsent" => server = "ptpip"
      /\ Send(b)
  BY DEF SendRequest, RequestSent
<1>2. tid \in Nat
  <2>1. Len(Commands) \in Nat
    BY DEF Commands, BridgeInv, WireInv
  <2> QED BY <2>1
<1> HIDE DEF tid
<1>3. b \in Seq(ClientPacket) /\ b # <<>> /\ Block(b) /\ b[1].type = "cmd"
  BY <1>1, <1>2, RequestBlock DEF BridgeInv
<1>4. packets' = packets \o b /\ server' = server
  BY <1>1 DEF Send
<1> HIDE DEF b
<1>5. WireInv'
  BY <1>1, <1>3, <1>4, WireGrows DEF BridgeInv, Last
<1> QED BY <1>1, <1>3, <1>5, BlockInv

\* The steps between which the server does nothing.
LEMMA BridgeIdleInv ==
    ASSUME BridgeInv,
           \/ ClientCloses \/ EventConnect \/ Arrive
           \/ EventThread \/ UNCHANGED bridge_vars
    PROVE  BridgeInv'
<1>1. /\ server' = server /\ conn' = conn /\ packets' = packets /\ replies' = replies
      /\ queued' = queued /\ hello' = hello /\ first_write' = first_write
      /\ pc' = pc /\ consumed' = consumed /\ forced' = forced /\ torn' = torn
      /\ thread' = thread
      /\ peer' = peer \/ (peer = "open" /\ peer' = "fin")
  BY DEF ClientCloses, EventConnect, Arrive, EventThread,
         bridge_vars, stream, camera, history
<1>2. arrived' \in {arrived, arrived + 1} /\ (arrived' = arrived \/ arrived < 3 * Len(packets))
  BY DEF ClientCloses, EventConnect, Arrive, EventThread,
         bridge_vars, stream, camera, history
<1>3. abrupt' \in BOOLEAN
  <2>1. abrupt' \in {abrupt, abrupt \/ Outstanding}
    BY DEF ClientCloses, EventConnect, Arrive, EventThread,
           bridge_vars, stream, camera, history
  <2>2. abrupt \in BOOLEAN
    BY DEF BridgeInv, BridgeTypeOK
  <2> QED BY Zenon, <2>1, <2>2
<1>4. events' \in {"none", "connected", "acked"}
  BY DEF ClientCloses, EventConnect, Arrive, EventThread,
         bridge_vars, BridgeInv, BridgeTypeOK
<1>5. BridgeTypeOK'
  <2>1. consumed' \in 0 .. arrived' /\ arrived' \in 0 .. 3 * Len(packets')
    <3>1. consumed \in Nat /\ arrived \in 0 .. 3 * Len(packets) /\ consumed <= arrived
          /\ Len(packets) \in Nat
      BY TakenRange DEF BridgeInv
    <3> QED BY <1>1, <1>2, <3>1
  <2>2. {first_write, hello, thread, torn, forced} \subseteq BOOLEAN
    BY DEF BridgeInv, BridgeTypeOK
  <2>3. {first_write', hello', thread', torn', forced', abrupt'} \subseteq BOOLEAN
    BY Zenon, <1>1, <1>3, <2>2
  <2> QED BY <1>1, <1>4, <2>1, <2>3 DEF BridgeInv, BridgeTypeOK
<1>6. ForcedOnlyByTcp'
  BY <1>1 DEF BridgeInv, ForcedOnlyByTcp
<1> QED BY <1>1, <1>5, <1>6, BridgeQuietInv

\* The invariant of the two TCP servers: whatever the client sends, however TCP
\* cuts it, and whenever the client leaves.
LEMMA BridgeAlways == BridgeSpec => []BridgeInv
<1>1. BridgeInit => BridgeInv
  BY BridgeInitInv
<1>2. BridgeInv /\ [BridgeNext]_bridge_vars => BridgeInv'
  <2> SUFFICES ASSUME BridgeInv, [BridgeNext]_bridge_vars PROVE BridgeInv'
    OBVIOUS
  <2>1. CASE Client
    <3>1. CASE SendInit \/ SendSentinel
      BY <3>1, SendSingleInv
    <3>2. CASE \E op \in Operations : SendRequest(op)
      BY <3>2, SendRequestInv
    <3>3. CASE ClientCloses \/ EventConnect
      BY <3>3, BridgeIdleInv
    <3> QED BY <2>1, <3>1, <3>2, <3>3 DEF Client
  <2>2. CASE Arrive \/ EventThread \/ UNCHANGED bridge_vars
    BY <2>2, BridgeIdleInv
  <2>3. CASE Accept
    BY <2>3, BridgeAcceptInv
  <2>4. CASE ServerStep
    <3>1. CASE RecvLength
      BY <3>1, RecvLengthInv
    <3>2. CASE RecvFails \/ RecvTorn \/ RecvSentinel \/ SendNothing
      BY <3>2, BridgeEndsInv
    <3>3. CASE RecvBody
      BY <3>3, RecvBodyInv
    <3>4. CASE RecvData
      BY <3>4, RecvDataInv
    <3>5. CASE RecvEnd
      BY <3>5, RecvEndInv
    <3>6. CASE SendHello
      BY <3>6, SendHelloInv
    <3>7. CASE SendContainer
      BY <3>7, SendContainerInv
    <3> QED BY <2>4, <3>1, <3>2, <3>3, <3>4, <3>5, <3>6, <3>7 DEF ServerStep
  <2> QED BY <2>1, <2>2, <2>3, <2>4 DEF BridgeNext
<1> QED BY <1>1, <1>2, PTL DEF BridgeSpec

\* Between two requests the camera's buffer is empty, unless the PTP/IP server
\* met a write the camera had refused, and a server gives up on a client that is
\* there only when TCP cut a packet or the data came otherwise than announced.
THEOREM BridgeStaysSound == BridgeSpec => []BridgeSound
<1>1. BridgeInv => BridgeSound
  BY DEF BridgeInv, StepInv, Receiving, BridgeSound, NothingLeftOver
<1> QED BY <1>1, BridgeAlways, PTL

\* On each connection a client receives a front of the answers to its packets,
\* in their order, and nothing of an earlier connection.
THEOREM RepliesStayInOrder == BridgeSpec => []RepliesInOrder
<1>1. BridgeInv => RepliesInOrder
  BY DEF BridgeInv
<1> QED BY <1>1, BridgeAlways, PTL

=============================================================================
