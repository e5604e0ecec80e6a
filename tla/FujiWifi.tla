------------------------------ MODULE FujiWifi ------------------------------
(***************************************************************************)
(* A Fujifilm camera on Wi-Fi (fuji/fuji.c, and the remote ports of        *)
(* fuji/server.c): the gate of the GFX100 II image import, the answers     *)
(* that enumerate the card, the event list, and the two extra ports that   *)
(* InitiateOpenCapture opens in a thread of their own.                     *)
(*                                                                         *)
(* A request, its data and its answer are one step; module TcpBridge has   *)
(* how they travel, module FujiTransfer the multiple-transfer mode. An     *)
(* application announces by ClientState what it came for; here the clients *)
(* of a behaviour come for the import or for the remote control ("mode"),  *)
(* and send its requests in any order. Property values that are only read  *)
(* back are left out.                                                      *)
(***************************************************************************)
EXTENDS Integers, Sequences, FiniteSets, SequencesExt

CONSTANTS
    Kinds,        \* cameras: "plain", "remote", "gfx"
    FrameFile,    \* whether FUJI_DUMMY_LV_JPEG is there: TRUE, FALSE
    Cards,        \* for what clients may come for ("import", "remote"), cards:
                  \* the dates of their files, in order of handles
    MaxDates,     \* room of dates[], 32 in the code
    EventBytes,   \* room of the event list, 4096 in the code
    MaxConns,     \* bound: connections
    MaxNotices,   \* bound: requests that queue events between two fetches
    MaxOpens,     \* bound: InitiateOpenCapture requests
    MaxChanges    \* bound: pictures taken or deleted

ASSUME ConstantsAssumption ==
    /\ Kinds \subseteq {"plain", "remote", "gfx"}
    /\ DOMAIN Cards \subseteq {"import", "remote"}
    /\ FrameFile \subseteq BOOLEAN
    /\ \A m \in DOMAIN Cards : Cards[m] \subseteq Seq(Nat)
    /\ {MaxDates, EventBytes, MaxConns, MaxNotices, MaxOpens,
        MaxChanges} \subseteq Nat

VARIABLES
    kind,          \* the camera, from its name on the command line
    dirents,       \* cam->first_dirent: the list, newest entry first
    ptp_objectid,  \* last handle given out
    session,       \* cam->session
    steps,         \* f->image_import_steps
    current,       \* f->image_import_current_handle
    events,        \* events waiting in the list
    alive,         \* FALSE once the process has aborted
    threads,       \* threads of the remote ports, in order of creation
    backlog,       \* connections waiting to be accepted, by port
    joined,        \* client: remote ports it has connected to
    refused,       \* ports that could not be bound for another reason than
                   \* a thread that has them
    jpeg,          \* FUJI_DUMMY_LV_JPEG is there
    frames,        \* live view frames sent
    conn,          \* number of the connection
    mode,          \* client: what it came for
    asked,         \* client: steps it was granted on this connection
    described,     \* client: the object last described on this connection
    waited,        \* client: requests that queued events since it fetched
                   \* the list
    opened,        \* client: remote ports it asked for on this connection
    changes,       \* pictures taken or deleted
    reply          \* the last answer

import == <<steps, current>>
ports == <<threads, backlog, joined, refused, jpeg, frames>>
remote == <<alive, ports>>
card == <<dirents, ptp_objectid, changes>>
client == <<conn, mode, asked, described, waited, opened>>
vars == <<kind, card, session, import, events, remote, client, reply>>

BootstrapReady ==
    {"CLIENT_STATE", "DF28_GET", "DF28_SET", "D226_SET", "D227_SET",
     "D244_GET"}

EnumReady ==
    BootstrapReady \cup {"CURRENT_INFO", "CURRENT_THUMB", "FOLDERS", "DATES"}

Gfx == kind = "gfx"

-----------------------------------------------------------------------------
(* The card *)

Entry(id, dir, date) == [id |-> id, dir |-> dir, date |-> date]

Ids(s) == {s[i].id : i \in DOMAIN s}

\* The entry list of a card whose files have these dates: DCIM, the files,
\* the root with handle 0.
CardOf(dates) ==
    LET n == Len(dates)
    IN  [i \in 1 .. n |-> Entry(n + 2 - i, FALSE, dates[n + 1 - i])]
        \o <<Entry(1, TRUE, 0), Entry(0, TRUE, 0)>>

fuji_is_downloadable_object(e) == e.id # 0 /\ ~e.dir

\* The files, in the order in which the loops over the list meet them.
Downloadable ==
    LET met[i \in 0 .. Len(dirents)] ==
            IF i = 0 THEN <<>>
            ELSE IF fuji_is_downloadable_object(dirents[i])
              THEN Append(met[i - 1], dirents[i]) ELSE met[i - 1]
    IN  met[Len(dirents)]

Jpegs == {e \in ToSet(dirents) : ~e.dir}

fuji_downloadable_object_count == Len(Downloadable)

\* The two sorts of the file: each position against all later ones. "key" maps
\* the elements to what they are compared by.
Exchange(u, key, a, b) ==
    IF key[u[b]] > key[u[a]] THEN [u EXCEPT ![a] = u[b], ![b] = u[a]] ELSE u

Pass(t, key, a) ==
    LET upto[b \in 0 .. Len(t)] ==
            IF b <= a THEN t ELSE Exchange(upto[b - 1], key, a, b)
    IN  upto[Len(t)]

ExchangeSort(s, key) ==
    LET passes[a \in 0 .. Len(s)] ==
            IF a = 0 THEN s ELSE Pass(passes[a - 1], key, a)
    IN  passes[Len(s)]

fuji_collect_downloadable_handles ==
    LET handles == [i \in DOMAIN Downloadable |-> Downloadable[i].id]
    IN  ExchangeSort(handles, [h \in ToSet(handles) |-> h])

DownloadableIds ==
    {dirents[i].id : i \in {j \in DOMAIN dirents : fuji_is_downloadable_object(dirents[j])}}

\* fuji_find_downloadable_object returns an object.
fuji_finds_object(h) == h \in DownloadableIds

\* 0 if there is none.
fuji_find_newest_downloadable_object == Max({0} \cup DownloadableIds)

\* One file of the list is counted; a date for which there is no room is
\* left out.
AddDate(dates, e) ==
    LET found == {i \in DOMAIN dates : dates[i].date = e.date}
    IN  CASE found # {} ->
                 LET i == CHOOSE i \in found : TRUE
                 IN  [dates EXCEPT ![i].count = @ + 1]
          [] found = {} /\ Len(dates) >= MaxDates -> dates
          [] OTHER -> Append(dates, [date |-> e.date, count |-> 1])

FujiImportDates ==
    LET seen[i \in 0 .. Len(Downloadable)] ==
            IF i = 0 THEN <<>> ELSE AddDate(seen[i - 1], Downloadable[i])
    IN  seen[Len(Downloadable)]

fuji_collect_import_dates ==
    ExchangeSort(FujiImportDates, [d \in ToSet(FujiImportDates) |-> d.date])

\* On the default card of a GFX100 II a large JPEG is added, unless the card
\* has one; the list of the other cameras is the scanned one.
fuji_setup_gfx100ii_fixtures(list, large) ==
    IF large THEN list
    ELSE <<Entry(Len(list), FALSE, 1)>> \o list

-----------------------------------------------------------------------------
(* Answers *)

Answer(op, rc, value) == reply' = [op |-> op, rc |-> rc, value |-> value]

OK(op, value) == Answer(op, "OK", value)

fuji_image_import_reject(op) == Answer(op, "AccessDenied", 0)

\* Steps are only remembered by the camera that has the gate.
fuji_mark_image_import_step(step) ==
    /\ steps' = IF Gfx THEN steps \cup {step} ELSE steps
    /\ asked' = IF Gfx THEN asked \cup {step} ELSE asked

fuji_image_import_has_steps(some) == some \subseteq steps

\* What a request leaves alone.
Request ==
    /\ alive /\ conn > 0
    /\ UNCHANGED <<kind, conn, mode, remote, opened>>

\* ptp_notify_event n times, counted as one request.
Notified(n) ==
    /\ waited < MaxNotices
    /\ waited' = waited + 1
    /\ events' = events + n

ImportRequest ==
    /\ Request
    /\ mode = "import"
    /\ UNCHANGED <<card, events, waited>>

-----------------------------------------------------------------------------
(* Properties: SetDevicePropValue and GetDevicePropValue ask for no session *)

\* The properties an application of this mode writes, and the steps of the
\* prelude that some of them are.
Written ==
    IF mode = "import"
      THEN {"ClientState", "CompressSmall", "EnableCorrectFileSize",
            "RemotePhotoViewExVersion"}
      ELSE {"CameraState", "RemoteVersion", "RemoteGetObjectVersion"}

StepOf ==
    [ClientState |-> "CLIENT_STATE", CompressSmall |-> "D226_SET",
     EnableCorrectFileSize |-> "D227_SET",
     RemotePhotoViewExVersion |-> "DF28_SET"]

\* The handler asserts that the data is as long as the property, and that
\* EnableCorrectFileSize is 0 or 1; the others take what comes.
Asserted(prop, value) ==
    value = "malformed" /\ prop \notin {"CompressSmall", "RemotePhotoViewExVersion"}

\* "expected" is the value the prelude looks for, "other" one that is stored.
\* CameraState queues six events.
ptp_fuji_setdevicepropvalue_write_data ==
    /\ alive /\ conn > 0
    /\ mode = "remote" => kind # "plain"
    /\ \E prop \in Written, value \in {"expected", "other", "malformed"} :
           \/ /\ Asserted(prop, value)
              /\ alive' = FALSE
              /\ Answer("set", "abort", 0)
              /\ UNCHANGED <<steps, asked, events, waited>>
           \/ /\ ~Asserted(prop, value)
              /\ IF prop \in DOMAIN StepOf /\ value = "expected"
                   THEN fuji_mark_image_import_step(StepOf[prop])
                   ELSE UNCHANGED <<steps, asked>>
              /\ IF prop = "CameraState" THEN Notified(6)
                                         ELSE UNCHANGED <<events, waited>>
              /\ OK("set", 0)
              /\ UNCHANGED alive
    /\ UNCHANGED <<kind, conn, mode, card, session, current, ports, described,
                   opened>>

ptp_fuji_getdevicepropvalue_write ==
    /\ ImportRequest
    /\ \E step \in {"DF28_GET", "D244_GET"} :
           fuji_mark_image_import_step(step)
    /\ OK("get", 0)
    /\ UNCHANGED <<session, current, described>>

\* D620 and D621 on a camera that has the gate.
Enumerate(op, value) ==
    /\ ImportRequest
    /\ IF Gfx /\ ~fuji_image_import_has_steps(EnumReady)
         THEN fuji_image_import_reject(op)
         ELSE OK(op, value)
    /\ UNCHANGED <<session, import, asked, described>>

ImageImportObjectCount ==
    Enumerate("count", fuji_downloadable_object_count)

ImageImportObjectHandles ==
    Enumerate("handles", fuji_collect_downloadable_handles)

-----------------------------------------------------------------------------
(* The vendor operations of the GFX100 II *)

\* Checks every one of them makes first.
VendorRequest ==
    /\ ImportRequest
    /\ Gfx
    /\ UNCHANGED session

Refused(op, rc) ==
    /\ Answer(op, rc, 0)
    /\ UNCHANGED <<import, asked, described>>

ptp_fuji_get_extension_object_info ==
    LET newest == fuji_find_newest_downloadable_object
    IN  /\ VendorRequest
        /\ CASE ~session -> Refused("info", "SessionNotOpen")
             [] session /\ ~fuji_image_import_has_steps(BootstrapReady) ->
                    Refused("info", "AccessDenied")
             [] session /\ fuji_image_import_has_steps(BootstrapReady)
                        /\ newest = 0 ->
                    Refused("info", "InvalidObjectHandle")
             [] OTHER -> /\ current' = newest
                         /\ described' = newest
                         /\ fuji_mark_image_import_step("CURRENT_INFO")
                         /\ OK("info", newest)

\* Mutant: the thumbnail is that of the newest object.
get_extension_thumb_newest ==
    LET newest == fuji_find_newest_downloadable_object
    IN  /\ VendorRequest
        /\ CASE ~session -> Refused("thumb", "SessionNotOpen")
             [] session /\ ~fuji_image_import_has_steps({"CURRENT_INFO"}) ->
                    Refused("thumb", "AccessDenied")
             [] OTHER -> /\ fuji_mark_image_import_step("CURRENT_THUMB")
                         /\ OK("thumb", newest)
                         /\ UNCHANGED <<current, described>>

ptp_fuji_get_extension_thumb ==
    LET ready == /\ fuji_image_import_has_steps({"CURRENT_INFO"})
                 /\ current # 0
    IN  /\ VendorRequest
        /\ CASE ~session -> Refused("thumb", "SessionNotOpen")
             [] session /\ ~ready -> Refused("thumb", "AccessDenied")
             [] session /\ ready /\ ~fuji_finds_object(current) ->
                    Refused("thumb", "InvalidObjectHandle")
             [] OTHER -> /\ fuji_mark_image_import_step("CURRENT_THUMB")
                         /\ OK("thumb", current)
                         /\ UNCHANGED <<current, described>>

\* Folders and dates: one step of the prelude each, after another.
PreludeQuery(op, before, step, value) ==
    /\ VendorRequest
    /\ CASE ~session -> Refused(op, "SessionNotOpen")
         [] session /\ ~fuji_image_import_has_steps({before}) ->
                Refused(op, "AccessDenied")
         [] OTHER -> /\ fuji_mark_image_import_step(step)
                     /\ OK(op, value)
                     /\ UNCHANGED <<current, described>>

ptp_fuji_get_image_import_folders ==
    PreludeQuery("folders", "CURRENT_THUMB", "FOLDERS",
                 fuji_downloadable_object_count)

ptp_fuji_get_image_import_dates ==
    PreludeQuery("dates", "FOLDERS", "DATES", fuji_collect_import_dates)

ptp_fuji_get_extension_partial_object ==
    \E h \in Ids(dirents) :
        /\ VendorRequest
        /\ CASE ~session -> Refused("part", "SessionNotOpen")
             [] session /\ ~fuji_image_import_has_steps(EnumReady) ->
                    Refused("part", "AccessDenied")
             [] session /\ fuji_image_import_has_steps(EnumReady)
                        /\ ~fuji_finds_object(h) ->
                    Refused("part", "InvalidObjectHandle")
             [] OTHER -> /\ OK("part", h)
                         /\ UNCHANGED <<import, asked, described>>

-----------------------------------------------------------------------------
(* Standard operations that touch this state *)

ptp_opensession_write ==
    /\ ImportRequest
    /\ session' = TRUE
    /\ Answer("open", IF session THEN "SessionAlreadyOpened" ELSE "OK", 0)
    /\ UNCHANGED <<import, asked, described>>

ptp_closesession_write ==
    /\ ImportRequest
    /\ session' = FALSE
    /\ Answer("close", IF session THEN "OK" ELSE "SessionNotOpen", 0)
    /\ UNCHANGED <<import, asked, described>>

\* The places of files in the list.
Files == {i \in DOMAIN dirents : ~dirents[i].dir}

\* The entry of a picture, after the one of its directory.
Captured(e) == Entry(ptp_objectid + 2, FALSE, e.date)

\* DeleteObject and InitiateCapture (module ObjectStore); the directory that
\* is made for new pictures is left out.
ChangeCard ==
    /\ Request
    /\ mode = "import" /\ session /\ changes < MaxChanges
    /\ changes' = changes + 1
    /\ \/ \E i \in Files :
              /\ dirents' = RemoveAt(dirents, i)
              /\ UNCHANGED ptp_objectid
              /\ OK("delete", dirents[i].id)
       \/ /\ Files # {}
          /\ dirents' = <<Captured(dirents[Min(Files)])>> \o dirents
          /\ ptp_objectid' = ptp_objectid + 2
          /\ OK("capture", 0)
    /\ UNCHANGED <<session, import, events, asked, described, waited>>

-----------------------------------------------------------------------------
(* Events *)

\* Events that vcam_fuji_setup queues.
StartEvents == IF kind = "plain" THEN 2 ELSE 6

RemoteRequest ==
    /\ alive /\ conn > 0 /\ mode = "remote" /\ kind # "plain"
    /\ UNCHANGED <<kind, conn, mode, card, session, import, asked, described>>

TerminateOpenCapture ==
    /\ RemoteRequest
    /\ Notified(21)
    /\ OK("terminate", 0)
    /\ UNCHANGED <<remote, opened>>

\* The list fits the buffer it is packed into.
EventsFit == 2 + 6 * events <= EventBytes

\* A list that does not fit is written past the end of the buffer; the process
\* may not survive it.
Overflow ==
    /\ ~EventsFit
    /\ alive' = FALSE
    /\ Answer("events", "abort", 0)
    /\ UNCHANGED <<events, waited>>

\* Mutant: one event is popped for each fetch.
send_events_one ==
    /\ RemoteRequest
    /\ \/ /\ OK("events", 1)
          /\ events' = IF events > 0 THEN events - 1 ELSE 0
          /\ waited' = 0
          /\ UNCHANGED alive
       \/ Overflow
    /\ UNCHANGED <<ports, opened>>

\* Pops every event into a buffer of EventBytes, without a check.
fuji_send_events ==
    /\ RemoteRequest
    /\ \/ /\ OK("events", events)
          /\ events' = 0
          /\ waited' = 0
          /\ UNCHANGED alive
       \/ Overflow
    /\ UNCHANGED <<ports, opened>>

-----------------------------------------------------------------------------
(* The remote ports *)

Ports == {"event", "video"}

\* InitiateOpenCapture starts the thread, whether or not there is one.
fuji_accept_remote_ports ==
    /\ RemoteRequest
    /\ Len(threads) < MaxOpens
    /\ threads' = Append(threads, [at |-> "event", has |-> {}])
    /\ opened' = opened + 1
    /\ OK("capture", 0)
    /\ UNCHANGED <<events, waited, alive, backlog, joined, refused, jpeg,
                   frames>>

Bound(port) == \E t \in DOMAIN threads : port \in threads[t].has

Thread(t) ==
    /\ alive
    /\ UNCHANGED <<kind, card, session, import, events, client, reply>>

\* new_ptp_tcp_socket: the bind fails while another socket has the port. It,
\* or one of the calls around it, may fail for other reasons; the thread
\* carries on with -1.
BindPort(t, port, next) ==
    /\ Thread(t)
    /\ threads[t].at = port
    /\ \E fails \in BOOLEAN :
           /\ threads' = [threads EXCEPT ![t] =
                  [at |-> next,
                   has |-> IF Bound(port) \/ fails THEN @.has ELSE @.has \cup {port}]]
           /\ refused' = IF fails THEN refused \cup {port} ELSE refused
    /\ UNCHANGED <<alive, backlog, joined, jpeg, frames>>

\* Mutant: the live view connection is awaited on the event port.
AcceptPort_event_again(t, at, port, next) ==
    /\ Thread(t)
    /\ threads[t].at = at
    /\ IF port \in threads[t].has
         THEN /\ backlog["event"] > 0
              /\ backlog' = [backlog EXCEPT !["event"] = @ - 1]
              /\ threads' = [threads EXCEPT ![t] = [at |-> next, has |-> @.has]]
              /\ frames' = IF next = "sleep" /\ jpeg THEN frames + 1 ELSE frames
              /\ UNCHANGED alive
         ELSE /\ alive' = FALSE
              /\ UNCHANGED <<threads, backlog, frames>>
    /\ UNCHANGED <<joined, refused, jpeg>>

\* accept blocks on a port the thread has, and fails on -1: abort().
\* The connection of the video port gets a frame if the file is there, and the
\* thread sleeps for ever with both ports.
AcceptPort(t, at, port, next) ==
    /\ Thread(t)
    /\ threads[t].at = at
    /\ IF port \in threads[t].has
         THEN /\ backlog[port] > 0
              /\ backlog' = [backlog EXCEPT ![port] = @ - 1]
              /\ threads' = [threads EXCEPT ![t] = [at |-> next, has |-> @.has]]
              /\ frames' = IF next = "sleep" /\ jpeg THEN frames + 1 ELSE frames
              /\ UNCHANGED alive
         ELSE /\ alive' = FALSE
              /\ UNCHANGED <<threads, backlog, frames>>
    /\ UNCHANGED <<joined, refused, jpeg>>

fuji_accept_remote_ports_thread(t) ==
    \/ BindPort(t, "event", "video")
    \/ BindPort(t, "video", "accept_event")
    \/ AcceptPort(t, "accept_event", "event", "accept_video")
    \/ AcceptPort(t, "accept_video", "video", "sleep")

ThreadStep == \E t \in DOMAIN threads : fuji_accept_remote_ports_thread(t)

\* The application connects to each port once; one connection waits to be
\* accepted.
ConnectPort ==
    /\ alive /\ opened > 0
    /\ \E port \in Ports :
           /\ Bound(port) /\ port \notin joined /\ backlog[port] = 0
           /\ joined' = joined \cup {port}
           /\ backlog' = [backlog EXCEPT ![port] = 1]
    /\ UNCHANGED <<kind, card, session, import, events, alive, threads,
                   refused, jpeg, frames, client, reply>>

-----------------------------------------------------------------------------
(* Connections and the specification *)

\* Mutant: the steps of the last client are kept.
reset_image_import_state_handle_only == steps' = steps /\ current' = 0

fuji_reset_image_import_state == steps' = {} /\ current' = 0

\* fuji_wifi_main accepts the next client; what it forgets of the last one is
\* in reset_client_bridge. The event list and the threads stay.
Connect ==
    /\ alive /\ conn < MaxConns
    /\ conn' = conn + 1
    /\ session' = FALSE
    /\ fuji_reset_image_import_state
    /\ asked' = {} /\ described' = 0 /\ opened' = 0 /\ joined' = {}
    /\ Answer("hello", "OK", 0)
    /\ UNCHANGED <<kind, mode, card, events, alive, threads, backlog, refused, jpeg,
                   frames, waited>>

\* fuji_init_cam and vcam_fuji_setup, with the scan of the card.
fuji_init_cam ==
    /\ kind \in Kinds
    /\ \E dates \in Cards[mode] : \E large \in {dates # <<>>, FALSE} :
           dirents = IF kind = "gfx"
                       THEN fuji_setup_gfx100ii_fixtures(CardOf(dates), large)
                       ELSE CardOf(dates)
    /\ ptp_objectid = Len(dirents)
    /\ session = FALSE
    /\ steps = {} /\ current = 0
    /\ events = StartEvents

Init ==
    /\ mode \in DOMAIN Cards
    /\ fuji_init_cam
    /\ alive = TRUE
    /\ threads = <<>>
    /\ backlog = [port \in Ports |-> 0]
    /\ joined = {} /\ refused = {}
    /\ jpeg \in FrameFile
    /\ frames = 0
    /\ conn = 0
    /\ asked = {} /\ described = 0 /\ waited = 0 /\ opened = 0
    /\ changes = 0
    /\ reply = [op |-> "none", rc |-> "OK", value |-> 0]

Next ==
    \/ Connect
    \/ ptp_fuji_setdevicepropvalue_write_data
    \/ ptp_fuji_getdevicepropvalue_write
    \/ ImageImportObjectCount
    \/ ImageImportObjectHandles
    \/ ptp_fuji_get_extension_object_info
    \/ ptp_fuji_get_extension_thumb
    \/ ptp_fuji_get_image_import_folders
    \/ ptp_fuji_get_image_import_dates
    \/ ptp_fuji_get_extension_partial_object
    \/ ptp_opensession_write
    \/ ptp_closesession_write
    \/ ChangeCard
    \/ TerminateOpenCapture
    \/ fuji_send_events
    \/ fuji_accept_remote_ports
    \/ ThreadStep
    \/ ConnectPort

\* The thread runs, and an application connects to the ports it opened.
Fairness == WF_vars(ThreadStep) /\ WF_vars(ConnectPort)

Spec == Init /\ [][Next]_vars /\ Fairness

-----------------------------------------------------------------------------
(* Properties *)

TypeOK ==
    /\ kind \in Kinds
    /\ \A i \in DOMAIN dirents : dirents[i].id \in 0 .. ptp_objectid
    /\ steps \subseteq EnumReady /\ asked \subseteq EnumReady
    /\ current \in 0 .. ptp_objectid
    /\ {session, alive, jpeg} \subseteq BOOLEAN
    /\ events \in Nat /\ frames \in Nat
    /\ \A t \in DOMAIN threads :
           /\ threads[t].at \in {"event", "video", "accept_event",
                                 "accept_video", "sleep"}
           /\ threads[t].has \subseteq Ports
    /\ backlog \in [Ports -> 0 .. 1] /\ refused \subseteq Ports

\* The gate is earned on the connection that passes it: what the camera
\* remembers was granted to this client, and whoever has the handles of a
\* GFX100 II, or a part of an object through its vendor operation, has been
\* through the whole prelude, whatever an earlier client did.
PreludeEarned ==
    /\ Gfx => steps = asked
    /\ Gfx /\ reply.op \in {"count", "handles", "part"} /\ reply.rc = "OK"
           => EnumReady \subseteq asked

\* The vendor calls of the prelude can only be granted in their order.
PreludeOrdered ==
    /\ "CURRENT_INFO" \in steps => BootstrapReady \subseteq steps
    /\ "CURRENT_THUMB" \in steps => "CURRENT_INFO" \in steps
    /\ "FOLDERS" \in steps => "CURRENT_THUMB" \in steps
    /\ "DATES" \in steps => "FOLDERS" \in steps

\* The thumbnail is that of the object whose information the client was sent
\* last, and the object is still there, although pictures may be taken or
\* deleted between the two.
ThumbIsDescribed ==
    reply.op = "thumb" /\ reply.rc = "OK"
        => reply.value = described /\ described \in Ids(dirents)

\* D620 and D621 agree with the card and with each other: every file once,
\* the newest handle first, no directory.
EnumerationExact ==
    /\ reply.op \in {"count", "folders"} /\ reply.rc = "OK"
           => reply.value = Cardinality(Jpegs)
    /\ reply.op = "handles" /\ reply.rc = "OK"
           => /\ ToSet(reply.value) = {e.id : e \in Jpegs}
              /\ \A i, j \in DOMAIN reply.value :
                     i < j => reply.value[i] > reply.value[j]

\* Dates are listed from the newest, each once and with the number of its
\* files, and all of them as long as the array has room for them.
DatesExact ==
    reply.op = "dates" /\ reply.rc = "OK" =>
        LET listed == {reply.value[i].date : i \in DOMAIN reply.value}
            all == {e.date : e \in Jpegs}
        IN  /\ \A i, j \in DOMAIN reply.value :
                   i < j => reply.value[i].date > reply.value[j].date
            /\ \A i \in DOMAIN reply.value :
                   reply.value[i].count =
                       Cardinality({e \in Jpegs :
                                        e.date = reply.value[i].date})
            /\ listed \subseteq all
            /\ Cardinality(listed) =
                   IF Cardinality(all) < MaxDates
                     THEN Cardinality(all) ELSE MaxDates

\* Every InitiateOpenCapture starts a thread, and none of them ever ends; yet
\* a port is held by one of them only, at most one serves live view, with both
\* ports, and at most one frame is sent.
LiveViewExclusive ==
    /\ \A t, u \in DOMAIN threads :
           t # u => threads[t].has \cap threads[u].has = {}
    /\ \A t \in DOMAIN threads : threads[t].at = "sleep" => threads[t].has = Ports
    /\ frames <= 1

\* A thread waits for a connection to a port that it could not bind, because
\* another thread has it or for a reason outside of the process.
WithoutPort(t, port) ==
    /\ threads[t].at = IF port = "event" THEN "accept_event" ELSE "accept_video"
    /\ port \notin threads[t].has
    /\ \/ port \in refused
       \/ \E u \in DOMAIN threads : u # t /\ port \in threads[u].has

\* The process only ends for one of these reasons: a property was written with
\* the wrong length or value, the client has let more events pile up than the
\* buffer has room for, counting 21 for each of its requests and those of
\* start-up, or the remote ports were opened again while they are held or could
\* not be bound at all.
AbortsExplained ==
    ~alive =>
        \/ reply.op = "set" /\ reply.rc = "abort"
        \/ /\ reply.op = "events" /\ reply.rc = "abort"
           /\ 2 + 6 * (6 + 21 * waited) > EventBytes
        \/ \E t \in DOMAIN threads, port \in Ports : WithoutPort(t, port)

\* A client that comes first to the remote ports gets its live view frame,
\* unless it leaves, asks for the ports again or ends the process, a port cannot
\* be bound, or there is no frame to send.
StreamStarts ==
    Len(threads) = 1 /\ opened = 1
        ~> (\/ frames = 1 \/ ~jpeg
            \/ opened = 0 \/ Len(threads) > 1
            \/ reply.rc = "abort" \/ refused # {})

\* Stated by the server's message for a client that has gone ("waiting for a
\* new client"): of two clients that open the remote ports once each, the second
\* does not end the process.
NextClientIsServed ==
    /\ conn <= 2 /\ Len(threads) = conn /\ opened = 1
    /\ refused = {} /\ reply.rc # "abort"
    => alive

\* The gate of the image import: a connection is served only what the steps it
\* has itself gone through allow, in the order the code requires.
ImportGated == TypeOK /\ PreludeEarned /\ PreludeOrdered

\* What the image import tells is exact: the thumbnail is that of the object
\* described, the enumeration and the dates are those of the card.
ImportExact == ThumbIsDescribed /\ EnumerationExact /\ DatesExact

\* Remote mode is safe: one thread at most serves live view however often the
\* ports are opened, and the process ends only for a reason its client, or the
\* system it runs on, has given.
RemoteSafe == LiveViewExclusive /\ AbortsExplained

=============================================================================
