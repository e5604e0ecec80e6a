-------------------------------- MODULE Vhci --------------------------------
(***************************************************************************)
(* The camera behind the kernel's virtual host controller (usb/vhci.c,     *)
(* with the control requests of usb/device.c and usbthing.c). The kernel   *)
(* sends USB/IP commands over a stream socket; the server takes one        *)
(* command at a time and answers it before it reads the next.              *)
(*                                                                         *)
(* The host (external: the kernel and its drivers) enumerates the device   *)
(* and then uses the endpoints it was told of. It may unlink an URB while  *)
(* its answer is under way, and it may detach; what the server still does  *)
(* after that reaches nobody. Data of an OUT transfer follows its command  *)
(* in pieces. Lengths count units; the contents of bulk transfers are in   *)
(* modules Responder and UrbSplitter.                                      *)
(***************************************************************************)
EXTENDS Integers, Sequences

CONSTANTS
    MaxUrbs,      \* bound: URBs the host submits
    OutLengths,   \* lengths of OUT transfers
    Requests,     \* control requests of drivers: <<kind, length>>
    Tries         \* recv calls for the data of an OUT transfer, 10 in the code

\* What GET_DESCRIPTOR can ask for: "config" is the first configuration, and
\* "other" a type beyond the table of names.
Descriptors ==
    {"device", "qualifier", "string", "config", "second_config", "interface",
     "endpoint", "debug", "bos", "other"}

\* The requests of chapter 9 of the USB specification, and those of the still
\* image class; those without data for the host.
StandardRequests ==
    Descriptors \cup {"set_configuration", "get_configuration", "get_status",
                      "get_interface", "set_interface", "clear_feature"}

ClassRequests == {"cancel", "event_data", "device_status", "reset"}

OutRequests ==
    {"set_configuration", "set_interface", "clear_feature", "cancel", "reset"}

ControlKinds == StandardRequests \cup ClassRequests

\* An OUT transfer has data, and the server tries to read it at least once.
ASSUME UsbipAssumption ==
    /\ MaxUrbs \in Nat
    /\ OutLengths \subseteq Nat \ {0}
    /\ Tries \in Nat \ {0}

\* A driver that asks for a status has room for it.
ASSUME RequestsAssumption ==
    /\ Requests \subseteq ControlKinds \X Nat
    /\ \A r \in Requests :
           /\ r[1] = "get_status" => r[2] >= 2
           /\ r[1] = "device_status" => r[2] >= 4

VARIABLES
    stage,     \* host: what it has learnt of the device
    endpoints, \* host: endpoints of the configuration it read
    urbs,      \* host: URBs it waits for, by seqnum
    seqnum,    \* host: last sequence number
    expects,   \* host: URB whose data comes next on the socket, 0: a header
    attached,  \* the host's end of the socket is open
    commands,  \* to the server: commands, data of OUT transfers apart
    arrived,   \* data units that have arrived of the first command
    returns,   \* to the host: headers, data, and bytes no header announces
    server,    \* "recv", "payload", "exit", "abort"
    urb,       \* server: the command being served
    read,      \* server: read
    tries,     \* server: i, recv calls made
    events,    \* events due on the interrupt endpoint
    replies    \* bulk IN data the camera has for the host

host == <<stage, endpoints, urbs, seqnum, expects>>
socket == <<attached, commands, arrived, returns>>
loop == <<server, urb, read, tries>>
camera == <<events, replies>>
usbip_vars == <<host, socket, loop, camera>>

NoUrb == [seq |-> 0, kind |-> "none", ep |-> 0, len |-> 0]

\* GP_ERROR_TIMEOUT, and the value that stands for no answer.
GP_ERROR_TIMEOUT == -20

NoResponse == -1

\* Stands for a call of abort() or a failed assertion.
ABORT == -2

-----------------------------------------------------------------------------
(* The device: usbthing.c, usb/device.c *)

\* struct Config: its descriptors, in the order they are sent.
config ==
    <<[type |-> "config", len |-> 9, ep |-> 0],
      [type |-> "interface", len |-> 9, ep |-> 0],
      [type |-> "endpoint", len |-> 7, ep |-> 129],
      [type |-> "endpoint", len |-> 7, ep |-> 2],
      [type |-> "endpoint", len |-> 7, ep |-> 131]>>

\* Where a descriptor begins; the struct is packed.
OffsetOf[i \in 1 .. Len(config) + 1] ==
    IF i = 1 THEN 0 ELSE OffsetOf[i - 1] + config[i - 1].len

wTotalLength == OffsetOf[Len(config) + 1]

\* The endpoints a host finds in the first length bytes: it walks from one
\* descriptor to the next by bLength.
EndpointsIn(length) ==
    {config[i].ep : i \in {j \in DOMAIN config :
        config[j].type = "endpoint" /\ OffsetOf[j + 1] <= length}}

\* Answer to GET_DESCRIPTOR: as long as asked for, whatever the descriptor's
\* own length; -1 for a type that is not implemented.
get_desc(type, length) ==
    CASE type = "string" -> IF length > 255 THEN ABORT ELSE length
      [] type \in {"device", "qualifier", "config"} -> length
      [] type \in {"interface", "debug"} -> 0
      [] type \in {"second_config", "endpoint", "other"} -> ABORT
      [] OTHER -> -1

\* The data length of an answer to a control request, -1 for an error.
handle_control(kind, length) ==
    CASE kind \in Descriptors -> get_desc(kind, length)
      [] kind \in {"set_configuration", "cancel", "event_data", "reset"} -> 0
      [] kind = "get_status" -> 2
      [] kind = "device_status" -> 4
      [] kind \in {"get_interface", "set_interface"} -> -1
      [] OTHER -> ABORT

\* The data length of an IN transfer; the interrupt endpoint has one event at
\* a time, or a timeout.
handle_bulk(ep, len) ==
    CASE ep = 129 -> IF replies < len THEN replies ELSE len
      [] ep = 131 -> IF events > 0 THEN 1 ELSE GP_ERROR_TIMEOUT
      [] OTHER -> 0

-----------------------------------------------------------------------------
(* The host *)

Submit(kind, ep, len) ==
    /\ attached /\ seqnum < MaxUrbs
    /\ seqnum' = seqnum + 1
    /\ LET u == [seq |-> seqnum + 1, kind |-> kind, ep |-> ep, len |-> len]
       IN  /\ commands' = Append(commands, u)
           /\ urbs' = urbs \cup {u}
    /\ UNCHANGED <<stage, endpoints, expects, attached, arrived, returns,
                   loop, camera>>

\* Enumeration: the device, nine bytes of the configuration, all of it, and
\* the choice of it. One request at a time.
Enumerate ==
    /\ urbs = {}
    /\ \/ stage = "new" /\ Submit("device", 0, 18)
       \/ stage = "device" /\ Submit("config", 0, 9)
       \/ stage = "length" /\ Submit("config", 0, wTotalLength)
       \/ stage = "config" /\ Submit("set_configuration", 0, 0)

Control ==
    /\ stage = "ready"
    /\ \E r \in Requests : Submit(r[1], 0, r[2])

Queued(kind) == \E i \in DOMAIN commands : commands[i].kind = kind

\* The host uses the endpoints it knows: OUT below 128; the first IN endpoint
\* when an answer is due (module UrbSplitter has its reads in general); the
\* last one for events, whether or not there is one.
Transfer ==
    /\ stage = "ready"
    /\ \E ep \in endpoints :
        \/ /\ ep < 128
           /\ \E len \in OutLengths : Submit("out", ep, len)
        \/ /\ ep = 129 /\ replies > 0
           /\ ~Queued("in")
           /\ Submit("in", ep, 3)
        \/ /\ ep > 129
           /\ Submit("event", ep, 1)

\* The host gives up an URB whose answer may be on its way.
Unlink ==
    /\ attached
    /\ \E u \in urbs :
        /\ \A i \in DOMAIN commands :
               commands[i].kind = "unlink" => commands[i].ep # u.seq
        /\ u.kind \in {"in", "event"}
        /\ commands' = Append(commands, [seq |-> u.seq, kind |-> "unlink",
                                         ep |-> u.seq, len |-> 0])
        /\ urbs' = urbs \ {u}
    /\ UNCHANGED <<stage, endpoints, seqnum, expects, attached, arrived,
                   returns, loop, camera>>

Learn(u, length) ==
    CASE u.kind = "device" -> stage' = "device" /\ UNCHANGED endpoints
      [] u.kind = "config" ->
             /\ stage' = IF length > 9 THEN "config" ELSE "length"
             /\ endpoints' = EndpointsIn(length)
      [] u.kind = "set_configuration" ->
             stage' = "ready" /\ UNCHANGED endpoints
      [] OTHER -> UNCHANGED <<stage, endpoints>>

\* The host reads a header; the data of an IN transfer comes behind it if its
\* length is positive. An answer to an URB it has unlinked is read all the
\* same. Bytes that are no header make the kernel drop the connection.
HostReadsHeader ==
    /\ attached /\ returns # <<>> /\ expects = 0
    /\ LET a == Head(returns)
           mine == {u \in urbs : u.seq = a.seq /\ a.type = "submit"}
       IN  /\ returns' = Tail(returns)
           /\ expects' = IF a.type = "submit" /\ a.in /\ a.len > 0
                           THEN a.seq ELSE 0
           /\ urbs' = urbs \ mine
           /\ attached' = (a.type # "garbage")
           /\ IF mine = {} THEN UNCHANGED <<stage, endpoints>>
              ELSE \A u \in mine : Learn(u, a.len)
    /\ UNCHANGED <<seqnum, commands, arrived, loop, camera>>

HostReadsData ==
    /\ attached /\ returns # <<>> /\ expects # 0
    /\ returns' = Tail(returns)
    /\ expects' = 0
    /\ UNCHANGED <<stage, endpoints, urbs, seqnum, attached, commands,
                   arrived, loop, camera>>

\* A piece of the data of an OUT transfer arrives.
Arrive ==
    /\ attached /\ server = "payload" /\ arrived < urb.len
    /\ arrived' \in arrived + 1 .. urb.len
    /\ UNCHANGED <<host, attached, commands, returns, loop, camera>>

Detach ==
    /\ attached
    /\ attached' = FALSE
    /\ UNCHANGED <<host, commands, arrived, returns, loop, camera>>

\* An event becomes due.
EventDue ==
    /\ events = 0 /\ stage = "ready" /\ seqnum < MaxUrbs
    /\ events' = 1
    /\ UNCHANGED <<host, socket, loop, replies>>

-----------------------------------------------------------------------------
(* The server: usbt_vhci_init and handle_submit *)

RetSubmit(u, in, len) ==
    [type |-> "submit", seq |-> u.seq, in |-> in, len |-> len,
     asked |-> u.len]

Body(type, u, len) == [type |-> type, seq |-> u.seq, in |-> TRUE, len |-> len]

\* Mutant: the answer to a request without data carries data.
Send_always(u, in, len) ==
    returns' = returns \o <<RetSubmit(u, in, len), Body("data", u, len)>>

\* The header, and the data if there is any. A negative length goes into the
\* header as it is; as the size of the second send it is huge: the call sends
\* what lies behind the buffer, or fails.
Send(u, in, len) ==
    LET header == RetSubmit(u, in, len)
    IN  \/ /\ in /\ len > 0
           /\ returns' = returns \o <<header, Body("data", u, len)>>
        \/ /\ ~(in /\ len > 0)
           /\ returns' = Append(returns, header)
        \/ /\ in /\ len < 0
           /\ returns' = returns \o <<header, Body("garbage", u, len)>>

Taken == commands' = Tail(commands) /\ UNCHANGED <<host, attached, arrived>>

First(kinds) == server = "recv" /\ commands # <<>> /\ Head(commands).kind \in kinds

\* The host sends data and the device has data for it: "Illegal double data
\* phase".
DoublePhase(u, rc) == u.kind \in OutRequests /\ u.len # 0 /\ rc # 0

\* A control request. The data of one that has some follows in one piece; an
\* error ends the server, and abort() the process.
SubmitControl ==
    LET u == Head(commands)
        rc == handle_control(u.kind, u.len)
    IN  /\ First(ControlKinds)
        /\ Taken
        /\ CASE rc = ABORT \/ (rc >= 0 /\ DoublePhase(u, rc)) ->
                    server' = "abort" /\ urb' = u /\ UNCHANGED returns
             [] rc < 0 /\ rc # ABORT ->
                    server' = "exit" /\ UNCHANGED <<urb, returns>>
             [] OTHER ->
                    /\ Send(u, u.kind \notin OutRequests, rc)
                    /\ UNCHANGED <<server, urb>>
        /\ UNCHANGED <<read, tries, camera>>

\* Mutant: a short answer is none.
Unanswered_short(u, rc) == rc < u.len

\* Whether the device leaves an IN transfer without answer.
Unanswered(u, rc) == rc = NoResponse

SubmitIn ==
    LET u == Head(commands)
        rc == handle_bulk(u.ep, u.len)
    IN  /\ First({"in", "event"})
        /\ Taken
        /\ IF Unanswered(u, rc) THEN UNCHANGED returns ELSE Send(u, TRUE, rc)
        /\ server' = IF u.ep \in {129, 131} THEN server ELSE "abort"
        /\ events' = IF u.ep = 131 /\ rc > 0 THEN 0 ELSE events
        /\ replies' = IF u.ep = 129 THEN replies - rc ELSE replies
        /\ UNCHANGED <<urb, read, tries>>

SubmitOut ==
    /\ First({"out"})
    /\ commands' = Tail(commands)
    /\ server' = "payload"
    /\ urb' = Head(commands)
    /\ read' = 0 /\ tries' = 0 /\ arrived' = 0
    /\ UNCHANGED <<host, attached, returns, camera>>

Complete(n) == n = urb.len

\* recv of what has arrived; 0 when the host has detached. After Tries calls
\* the data must be there. The camera answers a transfer with two units.
RecvPayload ==
    LET n == arrived
        over == Complete(n) \/ tries + 1 = Tries
    IN  /\ server = "payload"
        /\ arrived > read \/ ~attached
        /\ CASE Complete(n) ->
                    /\ server' = IF urb.ep = 2 THEN "recv" ELSE "abort"
                    /\ Send(urb, FALSE, urb.len)
                    /\ replies' = IF replies = 0 THEN 2 ELSE replies
                    /\ urb' = NoUrb /\ arrived' = 0
             [] over /\ ~Complete(n) ->
                    /\ server' = "abort"
                    /\ UNCHANGED <<returns, replies, urb, arrived>>
             [] OTHER -> UNCHANGED <<server, returns, replies, urb, arrived>>
        /\ read' = IF Complete(n) THEN 0 ELSE n
        /\ tries' = tries + 1
        /\ UNCHANGED <<host, attached, commands, events>>

RetUnlink(u) ==
    returns' = Append(returns, [type |-> "unlink", seq |-> u.ep,
                                in |-> FALSE, len |-> 0])

UnlinkAnswer ==
    /\ First({"unlink"})
    /\ Taken
    /\ RetUnlink(Head(commands))
    /\ UNCHANGED <<loop, camera>>

-----------------------------------------------------------------------------
(* Specification *)

UsbipInit ==
    /\ stage = "new" /\ endpoints = {} /\ urbs = {} /\ seqnum = 0
    /\ expects = 0
    /\ attached = TRUE /\ commands = <<>> /\ arrived = 0 /\ returns = <<>>
    /\ server = "recv" /\ urb = NoUrb /\ read = 0 /\ tries = 0
    /\ events = 0 /\ replies = 0

HostStep ==
    \/ Enumerate \/ Control \/ Transfer \/ Unlink \/ HostReadsHeader
    \/ HostReadsData \/ Arrive \/ Detach \/ EventDue

ServerStep ==
    SubmitControl \/ SubmitIn \/ SubmitOut \/ RecvPayload \/ UnlinkAnswer

UsbipNext == HostStep \/ ServerStep

\* The server's loop runs; data that was announced arrives; the kernel reads
\* what the server sent.
UsbipFairness ==
    /\ WF_usbip_vars(ServerStep)
    /\ WF_usbip_vars(Arrive)
    /\ WF_usbip_vars(HostReadsHeader \/ HostReadsData)

UsbipSpec == UsbipInit /\ [][UsbipNext]_usbip_vars /\ UsbipFairness

-----------------------------------------------------------------------------
(* Properties *)

UsbipTypeOK ==
    /\ stage \in {"new", "device", "length", "config", "ready"}
    /\ \A u \in urbs : u.seq \in 1 .. seqnum
    /\ expects \in 0 .. seqnum
    /\ server \in {"recv", "payload", "exit", "abort"}
    /\ arrived \in Nat /\ read \in 0 .. arrived
    /\ tries \in 0 .. Tries
    /\ events \in 0 .. 1 /\ replies \in 0 .. 2

\* The host and the server agree where one answer ends and the next begins:
\* data follows exactly the headers that announce it, it is never more than
\* the URB has room for, and the only other bytes on the socket are those
\* behind the answer to a poll that found no event.
InStep ==
    /\ returns # <<>> => (expects # 0) = (Head(returns).type = "data")
    /\ \A i \in DOMAIN returns :
           /\ returns[i].type = "submit" => returns[i].len <= returns[i].asked
           /\ returns[i].type = "garbage" \/ returns[i].len < 0
                  => returns[i].len = GP_ERROR_TIMEOUT

\* An URB is answered at most once, and no answer is under way for an URB
\* that was never submitted or still is in the commands.
AnsweredOnce ==
    \A i, j \in DOMAIN returns :
        /\ i # j /\ returns[i].type = "submit" /\ returns[j].type = "submit"
               => returns[i].seq # returns[j].seq
        /\ returns[i].type = "submit"
               => /\ returns[i].seq \in 1 .. seqnum
                  /\ \A k \in DOMAIN commands :
                         commands[k].seq = returns[i].seq
                             => commands[k].kind = "unlink"

\* The process aborts on control requests the device does not handle, and when
\* Tries calls have not read the data of an OUT transfer: never on an endpoint,
\* since the host only knows those of the configuration it was sent, and never
\* because a request has data both ways.
AbortExplained ==
    server = "abort" =>
        \/ urb.kind \in ControlKinds /\ handle_control(urb.kind, urb.len) = ABORT
        \/ urb.kind = "out" /\ tries = Tries /\ read # urb.len

\* Every URB is answered or given up, unless the host detaches or the server
\* ends.
EveryUrbAnswered ==
    \A n \in 1 .. MaxUrbs :
        (\E u \in urbs : u.seq = n)
            ~> (\/ \A u \in urbs : u.seq # n
                \/ ~attached
                \/ server \in {"exit", "abort"})

\* Stated by usbthing.h of handle_bulk_transfer ("bytes read/written, -1 for
\* no response"): the length of an answer is a length.
LengthsSane == \A i \in DOMAIN returns : returns[i].len >= 0

\* Stated by usbthing.h of usbt_handle_control_request ("will handle all
\* standard control requests"): none of them ends the process, GET_DESCRIPTOR
\* for something the device does not have apart.
StandardRequestsHandled ==
    server = "abort" => urb.kind \notin StandardRequests \ Descriptors

\* The USB/IP connection is sound: both ends agree where an answer begins until
\* a poll finds no event, no URB is answered twice, and nothing ends the process
\* but a request the device does not handle or data that comes in too many
\* pieces.
UsbipSound == UsbipTypeOK /\ InStep /\ AnsweredOnce /\ AbortExplained

=============================================================================
