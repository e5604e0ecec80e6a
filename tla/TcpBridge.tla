------------------------------ MODULE TcpBridge ------------------------------
(***************************************************************************)
(* The two TCP servers, ptpip.c (PTP/IP, with packet.c) and fuji/server.c: *)
(* each reads the packets of one client at a time, writes them into the    *)
(* camera as USB containers, and sends back what the camera queued. The    *)
(* PTP/IP server ends with its client; the Fuji server forgets the         *)
(* connection and accepts the next one.                                    *)
(*                                                                         *)
(* TCP delivers a packet in up to three parts: its length field and two    *)
(* halves of the rest (arrived and consumed count parts). The client sends *)
(* one request at a time, with its data right behind the command, and may  *)
(* close the connection at any moment. Once it has, the first send of the  *)
(* server still succeeds; later ones raise SIGPIPE, which the program      *)
(* leaves at its default (external: the kernel).                           *)
(*                                                                         *)
(* The camera (module Responder) answers "plain" with a response, "read"   *)
(* with data and a response, "write" with a response once the data is      *)
(* there; a "refused" write is answered at the command and again when its  *)
(* data arrives. "chunked" is a write whose data comes in several packets, *)
(* "unsent" a PTP/IP write whose data_phase field announces no data.       *)
(***************************************************************************)
EXTENDS Integers, Sequences, SequencesExt

CONSTANTS
    Servers,      \* the servers of the run: "ptpip", "fuji"
    Operations,   \* kinds of requests
    MaxRequests,  \* bound: requests on a connection
    MaxConns      \* bound: connections

\* The two servers and the kinds of requests they are sent.
ASSUME BridgeAssumption ==
    /\ Servers \subseteq {"ptpip", "fuji"}
    /\ Operations \subseteq {"plain", "read", "write", "refused", "chunked", "unsent"}
    /\ MaxRequests \in Nat
    /\ MaxConns \in Nat

VARIABLES
    server,       \* which of the two
    pc,           \* where its main loop is
    conn,         \* number of the connection
    peer,         \* the client's end: "none", "open", "fin" or "reset"
    packets,      \* packets the client sent on this connection
    arrived,      \* parts of them that have arrived
    consumed,     \* parts the server has read
    first_write,  \* first_write, first_client_write
    hello,        \* left_of_init_packet # 0
    queued,       \* cam->inbulk: containers queued for the client
    replies,      \* packets the client received on this connection
    events,       \* PTP/IP: the event connection: "none", "connected", "acked"
    thread,       \* PTP/IP: the event thread runs
    torn,         \* history: a read returned less than the packet
    forced,       \* history: the server closed on a client that was there
    abrupt        \* history: a client left with a reply outstanding

camera == <<first_write, hello, queued>>
stream == <<packets, arrived, consumed>>
history == <<torn, forced, abrupt>>
bridge_vars == <<server, pc, conn, peer, stream, camera, replies, events,
                 thread, history>>

PacketOf(type, op, tid) == [type |-> type, op |-> op, tid |-> tid]

-----------------------------------------------------------------------------
(* The client *)

Writes == {"write", "refused", "chunked"}

DataPackets(op, tid) ==
    IF op \notin Writes THEN <<>>
    ELSE IF server = "fuji" THEN <<PacketOf("data", op, tid)>>
    ELSE IF op = "chunked"
      THEN <<PacketOf("start", op, tid), PacketOf("middle", op, tid), PacketOf("end", op, tid)>>
    ELSE <<PacketOf("start", op, tid), PacketOf("end", op, tid)>>

Commands == SelectSeq(packets, LAMBDA p : p.type = "cmd")

Answered(tid) == \E i \in DOMAIN replies : replies[i].type = "response" /\ replies[i].tid = tid

Outstanding ==
    \/ packets # <<>> /\ replies = <<>>
    \/ \E i \in DOMAIN Commands : ~Answered(Commands[i].tid)

Send(new) ==
    /\ peer = "open"
    /\ packets' = packets \o new
    /\ UNCHANGED <<server, pc, conn, peer, arrived, consumed, camera,
                   replies, events, thread, history>>

SendInit == packets = <<>> /\ Send(<<PacketOf("init", "none", 0)>>)

SendRequest(op) ==
    /\ packets # <<>> /\ ~Outstanding
    /\ Last(packets).type # "sentinel"
    /\ Len(Commands) < MaxRequests
    /\ op = "unsent" => server = "ptpip"
    /\ LET tid == Len(Commands) + 1
       IN  Send(<<PacketOf("cmd", op, tid)>> \o DataPackets(op, tid))

\* The Fuji client announces that it will close.
SendSentinel ==
    /\ server = "fuji"
    /\ packets # <<>> /\ ~Outstanding
    /\ Last(packets).type # "sentinel"
    /\ Send(<<PacketOf("sentinel", "none", 0)>>)

ClientCloses ==
    /\ peer = "open"
    /\ peer' = "fin"
    /\ abrupt' = (abrupt \/ Outstanding)
    /\ UNCHANGED <<server, pc, conn, stream, camera, replies, events,
                   thread, torn, forced>>

\* The client opens its event connection once it has the server's hello.
EventConnect ==
    /\ server = "ptpip"
    /\ peer = "open"
    /\ replies # <<>>
    /\ events = "none"
    /\ events' = "connected"
    /\ UNCHANGED <<server, pc, conn, peer, stream, camera, replies,
                   thread, history>>

Arrive ==
    /\ arrived < 3 * Len(packets)
    /\ arrived' = arrived + 1
    /\ UNCHANGED <<server, pc, conn, peer, packets, consumed, camera, replies,
                   events, thread, history>>

-----------------------------------------------------------------------------
(* The camera *)

ContainerOf(type, tid) == [type |-> type, tid |-> tid, conn |-> conn]

\* What a command and a data container make the camera queue.
CommandReplies(op, tid) ==
    CASE op = "read" -> <<ContainerOf("data", tid), ContainerOf("response", tid)>>
      [] op \in {"write", "chunked", "unsent"} -> <<>>
      [] OTHER -> <<ContainerOf("response", tid)>>

DataReplies(tid) == <<ContainerOf("response", tid)>>

-----------------------------------------------------------------------------
(* The server: ends of a connection *)

\* The Fuji server goes back to accept(), the PTP/IP server's main returns.
Down ==
    /\ pc' = IF server = "fuji" THEN "accept" ELSE "ended"
    /\ forced' = (forced \/ (peer = "open" /\ (packets = <<>> \/ Last(packets).type # "sentinel")))
    /\ peer' = "none"

reset_client_bridge ==
    /\ first_write' = TRUE
    /\ hello' = TRUE
    /\ queued' = <<>>

\* accept(); the PTP/IP server starts from the same state, set up once.
Accept ==
    /\ pc = "accept"
    /\ conn < MaxConns
    /\ conn' = conn + 1
    /\ peer' = "open"
    /\ pc' = "length"
    /\ packets' = <<>> /\ arrived' = 0 /\ consumed' = 0
    /\ replies' = <<>>
    /\ reset_client_bridge
    /\ UNCHANGED <<server, events, thread, history>>

-----------------------------------------------------------------------------
(* The server: tcp_receive_all *)

Unread == arrived - consumed

Reading == packets[(consumed \div 3) + 1]

\* recv() of a length field. It returns 0 once everything was read and the
\* client closed; the PTP/IP server repeats that ten times before it gives up.
RecvLength ==
    /\ pc \in {"length", "data_length", "end_length"}
    /\ peer # "reset"
    /\ Unread > 0
    /\ consumed' = consumed + 1
    /\ pc' = CASE pc = "length" -> "body"
               [] pc = "data_length" -> "data_body"
               [] OTHER -> "end_body"
    /\ UNCHANGED <<server, conn, peer, packets, arrived, camera, replies,
                   events, thread, history>>

\* Mutant: a recv() of 0 bytes is tried again.
RecvFails_retried ==
    /\ pc \in {"length", "body", "data_length", "data_body", "end_length", "end_body"}
    /\ peer = "reset"
    /\ Down
    /\ UNCHANGED <<server, conn, stream, camera, replies, events, thread, torn,
                   abrupt>>

RecvFails ==
    /\ pc \in {"length", "body", "data_length", "data_body", "end_length", "end_body"}
    /\ peer = "reset" \/ (peer = "fin" /\ consumed = 3 * Len(packets))
    /\ Down
    /\ UNCHANGED <<server, conn, stream, camera, replies, events, thread,
                   torn, abrupt>>

\* recv_exact() waits for the rest of the packet; the PTP/IP server calls
\* recv() once and takes what is there.
Whole == Unread >= 2

Torn == server = "ptpip" /\ Unread = 1

RecvTorn ==
    /\ pc \in {"body", "data_body", "end_body"}
    /\ peer # "reset"
    /\ Torn
    /\ torn' = TRUE
    /\ Down
    /\ consumed' = consumed + 1
    /\ UNCHANGED <<server, conn, packets, arrived, camera, replies, events,
                   thread, abrupt>>

\* Mutant: the client's init packet reaches the camera, which calls it an error.
CmdWrite_all(answer) ==
    /\ first_write' = FALSE
    /\ queued' = queued \o IF first_write THEN <<ContainerOf("response", 0)>> ELSE answer
    /\ UNCHANGED hello

\* ptpip_cmd_write, ptpip_cmd_client_write: the first packet stays here.
\* conv_ip_cmd_packet_to_usb and conv_ip_data_packets_to_usb keep operation and
\* transaction.
CmdWrite(answer) ==
    /\ first_write' = FALSE
    /\ queued' = IF first_write THEN queued ELSE queued \o answer
    /\ UNCHANGED hello

\* Mutant: the data phase is read whenever the command is a write.
NeedsData_by_op(p) == p.type = "cmd" /\ p.op \in Writes

\* PTP/IP: the client's data_phase field. Fuji: the camera queued nothing, and
\* the code field, zero in an init packet, tells it is a command.
NeedsData(p) ==
    IF server = "ptpip" THEN p.op \in Writes
    ELSE queued' = <<>> /\ p.type # "init"

RecvBody ==
    /\ pc = "body"
    /\ peer # "reset"
    /\ Whole
    /\ Reading.type # "sentinel"
    /\ consumed' = consumed + 2
    /\ CmdWrite(CASE Reading.type = "cmd" -> CommandReplies(Reading.op, Reading.tid)
                  [] Reading.type = "data" -> DataReplies(Reading.tid)
                  [] OTHER -> <<>>)
    /\ pc' = IF NeedsData(Reading) THEN "data_length" ELSE "send"
    /\ UNCHANGED <<server, conn, peer, packets, arrived, replies, events, thread,
                   history>>

\* Length 8 and 0xffffffff: the client is about to close.
RecvSentinel ==
    /\ pc = "body"
    /\ peer # "reset"
    /\ Whole
    /\ Reading.type = "sentinel"
    /\ consumed' = consumed + 2
    /\ Down
    /\ UNCHANGED <<server, conn, packets, arrived, camera, replies, events,
                   thread, torn, abrupt>>

\* Fuji: the data container. PTP/IP: the start packet, then one end packet.
RecvData ==
    /\ pc = "data_body"
    /\ peer # "reset"
    /\ Whole
    /\ consumed' = consumed + 2
    /\ IF server = "fuji" THEN CmdWrite(DataReplies(Reading.tid)) /\ pc' = "send"
                          ELSE UNCHANGED camera /\ pc' = "end_length"
    /\ UNCHANGED <<server, conn, peer, packets, arrived, replies, events,
                   thread, history>>

RecvEnd ==
    /\ pc = "end_body"
    /\ peer # "reset"
    /\ Whole
    /\ consumed' = consumed + 2
    /\ IF Reading.type = "end"
         THEN /\ CmdWrite(DataReplies(Reading.tid))
              /\ pc' = "send"
              /\ UNCHANGED <<peer, forced>>
         ELSE UNCHANGED camera /\ Down
    /\ UNCHANGED <<server, conn, packets, arrived, replies, events, thread,
                   torn, abrupt>>

-----------------------------------------------------------------------------
(* The server: tcp_send_all *)

\* conv_usb_packet_to_ip: data travels in a start and an end packet.
ToClient(c) ==
    IF server = "ptpip" /\ c.type = "data"
      THEN <<[c EXCEPT !.type = "start"], [c EXCEPT !.type = "end"]>>
      ELSE <<c>>

\* send(): to a client that is there, to one that has closed (its answer is a
\* reset, which may take a while), to one whose reset has arrived.
Sent(reply, next) ==
    \/ peer = "open" /\ replies' = replies \o reply /\ pc' = next /\ UNCHANGED peer
    \/ peer = "fin" /\ peer' \in {"fin", "reset"} /\ pc' = next /\ UNCHANGED replies
    \/ peer = "reset" /\ pc' = "killed" /\ UNCHANGED <<replies, peer>>

\* The event thread is started after the first round of the PTP/IP server.
StartThread == thread' = (thread \/ server = "ptpip")

SendHello ==
    /\ pc = "send"
    /\ hello
    /\ Sent(<<ContainerOf("hello", 0)>>, "length")
    /\ hello' = FALSE
    /\ StartThread
    /\ UNCHANGED <<server, conn, stream, first_write, queued, events, history>>

\* Behind data comes its response.
AfterContainer(c) == IF c.type = "data" THEN "send_response" ELSE "length"

SendContainer ==
    /\ pc \in {"send", "send_response"}
    /\ ~hello
    /\ queued # <<>>
    /\ Sent(ToClient(Head(queued)),
            IF pc = "send" THEN AfterContainer(Head(queued)) ELSE "length")
    /\ queued' = Tail(queued)
    /\ StartThread
    /\ UNCHANGED <<server, conn, stream, first_write, hello, events, history>>

\* "vcam failed to provide 4 bytes": the camera still waits for data.
SendNothing ==
    /\ pc \in {"send", "send_response"}
    /\ ~hello
    /\ queued = <<>>
    /\ Down
    /\ UNCHANGED <<server, conn, stream, camera, replies, events, thread,
                   torn, abrupt>>

\* bind_event_socket_thread: accept the event connection and acknowledge it.
EventThread ==
    /\ thread
    /\ pc \notin {"ended", "killed"}
    /\ events = "connected"
    /\ events' = "acked"
    /\ UNCHANGED <<server, pc, conn, peer, stream, camera, replies, thread,
                   history>>

-----------------------------------------------------------------------------

BridgeInit ==
    /\ server \in Servers
    /\ pc = "accept"
    /\ conn = 0
    /\ peer = "none"
    /\ packets = <<>> /\ arrived = 0 /\ consumed = 0
    /\ first_write = TRUE
    /\ hello = TRUE
    /\ queued = <<>>
    /\ replies = <<>>
    /\ events = "none"
    /\ thread = FALSE
    /\ torn = FALSE /\ forced = FALSE /\ abrupt = FALSE

Client ==
    \/ SendInit
    \/ \E op \in Operations : SendRequest(op)
    \/ SendSentinel
    \/ ClientCloses
    \/ EventConnect

ServerStep ==
    \/ RecvLength \/ RecvFails \/ RecvTorn \/ RecvBody \/ RecvSentinel
    \/ RecvData \/ RecvEnd
    \/ SendHello \/ SendContainer \/ SendNothing

BridgeNext == Client \/ Arrive \/ Accept \/ ServerStep \/ EventThread

\* The server's thread and its event thread run whenever they can; TCP delivers.
BridgeSpec ==
    /\ BridgeInit /\ [][BridgeNext]_bridge_vars
    /\ WF_bridge_vars(ServerStep) /\ WF_bridge_vars(Arrive) /\ WF_bridge_vars(EventThread)

-----------------------------------------------------------------------------

\* Types of the streams and of the server's position.
BridgeTypeOK ==
    /\ pc \in {"accept", "length", "body", "data_length", "data_body", "end_length",
               "end_body", "send", "send_response", "ended", "killed"}
    /\ conn \in 0..MaxConns
    /\ peer \in {"none", "open", "fin", "reset"}
    /\ consumed \in 0..arrived
    /\ arrived \in 0..(3 * Len(packets))
    /\ {first_write, hello, thread, torn, forced, abrupt} \subseteq BOOLEAN
    /\ \A i \in DOMAIN queued : queued[i].type \in {"data", "response"}
    /\ events \in {"none", "connected", "acked"}

\* What the client is owed for one of its packets.
Expected(p) ==
    LET owed(type) == <<ContainerOf(type, p.tid)>>
    IN  CASE p.type = "init" -> owed("hello")
          [] p.type = "cmd" /\ p.op = "read" ->
                ToClient(ContainerOf("data", p.tid)) \o owed("response")
          [] p.type = "cmd" /\ p.op \in {"plain", "refused"} -> owed("response")
          [] p.type = "data" \/ (p.type = "end" /\ p.op = "write") -> owed("response")
          [] OTHER -> <<>>

\* The PTP/IP server sends one answer per round: after a write that the camera
\* refused at the command, its second answer is left over and later replies
\* are late by one.
InStep == server = "ptpip" => \A i \in DOMAIN packets : packets[i].op # "refused"

\* The client receives the answers to its requests, whole, in their order and
\* nothing else, above all nothing that belongs to an earlier connection.
RepliesInOrder ==
    InStep =>
        IsPrefix(replies, FlattenSeq([i \in DOMAIN packets |-> Expected(packets[i])]))

\* Between two requests no container is left over in the camera's buffer.
NothingLeftOver ==
    pc \in {"length", "data_length"} /\ InStep => queued = <<>>

\* The Fuji server never gives up on a client that is there, however TCP cuts
\* its packets; the PTP/IP server only if a packet arrived in parts or a
\* client sent its data in more than one packet or not at all.
ForcedOnlyByTcp ==
    forced =>
        /\ server = "ptpip"
        /\ torn \/ \E p \in ToSet(packets) : p.type = "middle" \/ p.op = "unsent"

\* A client that waits for an answer gets it, unless the connection breaks.
AnswerComes ==
    (peer = "open" /\ Outstanding) ~> (peer # "open" \/ ~Outstanding \/ ~InStep)

\* When its client has gone, the Fuji server accepts the next one. A client that
\* left without waiting for its answer may have it killed by SIGPIPE instead.
AcceptsAgain ==
    (server = "fuji" /\ peer \in {"fin", "reset"} /\ ~abrupt) ~> pc = "accept"

\* A client's event connection is acknowledged while the server runs.
EventsAcked == (events = "connected") ~> (events = "acked" \/ pc \in {"ended", "killed"})

\* Between requests the bridge is empty, and the server ends a connection whose
\* client is still there only for a packet that TCP has torn or for data whose
\* length was announced wrongly.
BridgeSound == BridgeTypeOK /\ NothingLeftOver /\ ForcedOnlyByTcp

\* The server responds: requests are answered, the next client is accepted, and
\* the event connection is acknowledged.
ServerResponds == AnswerComes /\ AcceptsAgain /\ EventsAcked

=============================================================================
