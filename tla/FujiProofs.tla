----------------------------- MODULE FujiProofs -----------------------------
(***************************************************************************)
(* Proofs about a Fujifilm camera on Wi-Fi, for any cards, any number of   *)
(* connections, requests, pictures taken and deleted, and remote ports     *)
(* opened; and about the multiple transfer, for any images and any sizes   *)
(* of the parts they are downloaded in.                                    *)
(***************************************************************************)
EXTENDS FujiWifi, FujiTransfer, SeqLemmas, FiniteSetTheorems

-----------------------------------------------------------------------------
(* The inductive invariant *)

DirEntry == [id : Nat, dir : BOOLEAN, date : Nat]

\* Handles of the card were given out by the counter.
CardInv ==
    /\ kind \in Kinds
    /\ ptp_objectid \in Nat
    /\ dirents \in Seq(DirEntry)
    /\ \A i \in 1 .. Len(dirents) : dirents[i].id \in 0 .. ptp_objectid

\* The gate remembers this client's steps, and the object it has described.
GateInv ==
    /\ session \in BOOLEAN
    /\ steps \subseteq EnumReady /\ asked \subseteq EnumReady
    /\ current = described /\ current \in 0 .. ptp_objectid
    /\ PreludeEarned
    /\ PreludeOrdered
    /\ ThumbIsDescribed

\* Events waiting were queued since the list was fetched, or at start-up.
EventsInv ==
    /\ events \in Nat
    /\ waited \in Nat
    /\ events <= 6 + 21 * waited

ThreadRecord ==
    [at : {"event", "video", "accept_event", "accept_video", "sleep"},
     has : SUBSET Ports]

\* The ports a thread has tried to bind when it is somewhere.
Tried(at) == CASE at = "event" -> {} [] at = "video" -> {"event"} [] OTHER -> Ports

\* Another thread has the port.
Elsewhere(t, port) ==
    \E u \in 1 .. Len(threads) : u # t /\ port \in threads[u].has

\* No port is held twice; a thread that lacks one it has tried lacks it because
\* of another thread, or for a reason outside of the process; and the port it
\* has accepted a connection on it has.
PortsInv ==
    /\ threads \in Seq(ThreadRecord) /\ refused \subseteq Ports
    /\ \A t, u \in 1 .. Len(threads) :
          t # u => threads[t].has \cap threads[u].has = {}
    /\ \A t \in 1 .. Len(threads) :
          /\ threads[t].at = "accept_video" => "event" \in threads[t].has
          /\ threads[t].at = "sleep" => threads[t].has = Ports
          /\ \A port \in Tried(threads[t].at) :
                port \in threads[t].has \/ port \in refused \/ Elsewhere(t, port)

\* A frame was sent by a thread that sleeps now.
FramesInv ==
    /\ jpeg \in BOOLEAN /\ backlog \in [Ports -> 0 .. 1] /\ frames \in 0 .. 1
    /\ frames # 0 => \E t \in 1 .. Len(threads) : threads[t].at = "sleep"

RemoteInv == alive \in BOOLEAN /\ PortsInv /\ FramesInv /\ AbortsExplained

WifiInv == CardInv /\ GateInv /\ EventsInv /\ RemoteInv

-----------------------------------------------------------------------------
(* The image import *)

\* A step that is granted where its predecessor was keeps the prelude in order.
LEMMA MarkKeeps ==
    ASSUME GateInv, NEW step \in EnumReady, fuji_mark_image_import_step(step),
           kind' = kind,
           step = "CURRENT_INFO" => BootstrapReady \subseteq steps,
           step = "CURRENT_THUMB" => "CURRENT_INFO" \in steps,
           step = "FOLDERS" => "CURRENT_THUMB" \in steps,
           step = "DATES" => "FOLDERS" \in steps
    PROVE  /\ steps' \subseteq EnumReady /\ asked' \subseteq EnumReady
           /\ Gfx => steps' = asked'
           /\ PreludeOrdered'
<1>1. /\ steps' = IF Gfx THEN steps \cup {step} ELSE steps
      /\ asked' = IF Gfx THEN asked \cup {step} ELSE asked
  BY DEF fuji_mark_image_import_step
<1>2. /\ steps' \subseteq EnumReady /\ asked' \subseteq EnumReady
      /\ Gfx => steps' = asked'
  BY <1>1 DEF GateInv, PreludeEarned
<1>3. PreludeOrdered'
  <2>1. CASE ~Gfx
    BY <1>1, <2>1 DEF GateInv, PreludeOrdered
  <2>2. CASE Gfx
    <3>1. steps' = steps \cup {step}
      BY <1>1, <2>2
    <3>2. BootstrapReady \subseteq steps => BootstrapReady \subseteq steps'
      BY <3>1
    <3> QED BY <3>1, <3>2 DEF GateInv, PreludeOrdered
  <2> QED BY <2>1, <2>2
<1> QED BY <1>2, <1>3

\* An answer other than one of a gated enumeration or a thumbnail says nothing
\* that the gate has to answer for.
LEMMA PlainAnswer ==
    ASSUME NEW op, NEW rc, NEW value, Answer(op, rc, value),
           op \notin {"count", "handles", "part", "thumb"} \/ rc # "OK",
           Gfx' => steps' = asked'
    PROVE  PreludeEarned' /\ ThumbIsDescribed'
<1>1. reply'.op = op /\ reply'.rc = rc
  BY DEF Answer
<1> QED BY <1>1 DEF PreludeEarned, ThumbIsDescribed

\* The handle counter bounds what the camera calls its newest object.
LEMMA NewestListed ==
    ASSUME CardInv
    PROVE  fuji_find_newest_downloadable_object \in 0 .. ptp_objectid
<1> DEFINE T == {0} \cup DownloadableIds
<1>1. DOMAIN dirents = 1 .. Len(dirents)
  BY DEF CardInv
<1>2. T \subseteq 0 .. ptp_objectid /\ T # {} /\ ptp_objectid \in Nat
  BY <1>1 DEF CardInv, DownloadableIds
<1>3. Max(T) \in T
  BY <1>2, MaxIsGreatest
<1> QED BY <1>2, <1>3 DEF fuji_find_newest_downloadable_object

\* A step that leaves the ports alone and the process alive.
LEMMA RemoteSame ==
    ASSUME RemoteInv, alive', alive' \in BOOLEAN,
           UNCHANGED <<threads, backlog, refused, jpeg, frames>>
    PROVE  RemoteInv'
<1>1. PortsInv'
  BY DEF RemoteInv, PortsInv, Elsewhere
<1>2. FramesInv'
  BY DEF RemoteInv, FramesInv
<1>3. AbortsExplained'
  BY DEF AbortsExplained
<1> QED BY <1>1, <1>2, <1>3 DEF RemoteInv

\* A request of the import leaves the card, the events and the ports alone.
LEMMA ImportKeeps ==
    ASSUME WifiInv, ImportRequest
    PROVE  /\ CardInv' /\ EventsInv' /\ RemoteInv'
           /\ kind' = kind /\ ptp_objectid' = ptp_objectid /\ dirents' = dirents
           /\ Gfx' = Gfx
<1>1. /\ UNCHANGED <<kind, dirents, ptp_objectid, events, waited, threads,
                     backlog, refused, jpeg, frames>>
      /\ alive /\ alive' = alive
  BY DEF ImportRequest, Request, card, remote, ports
<1>3. CardInv' /\ EventsInv'
  BY <1>1 DEF WifiInv, CardInv, EventsInv
<1>4. RemoteInv'
  BY <1>1, RemoteSame DEF WifiInv, RemoteInv
<1>5. Gfx' = Gfx
  BY <1>1 DEF Gfx
<1> QED BY <1>1, <1>3, <1>4, <1>5

\* A refusal changes nothing.
LEMMA RefusalKeeps ==
    ASSUME GateInv, NEW op, NEW rc, rc # "OK", Refused(op, rc),
           UNCHANGED <<kind, ptp_objectid, session>>
    PROVE  GateInv'
<1>1. Answer(op, rc, 0) /\ UNCHANGED <<steps, current, asked, described>>
  BY DEF Refused, import
<1>2. Gfx' => steps' = asked'
  BY <1>1 DEF GateInv, PreludeEarned, Gfx
<1>3. PreludeEarned' /\ ThumbIsDescribed'
  BY <1>1, <1>2, PlainAnswer
<1> QED BY <1>1, <1>3 DEF GateInv, PreludeOrdered

\* A step that is granted, with an answer the gate does not answer for.
LEMMA GrantKeeps ==
    ASSUME GateInv, NEW step \in EnumReady, fuji_mark_image_import_step(step),
           NEW op, NEW value, OK(op, value),
           op \notin {"count", "handles", "part", "thumb"},
           UNCHANGED <<kind, ptp_objectid, session, current, described>>,
           step = "CURRENT_INFO" => BootstrapReady \subseteq steps,
           step = "CURRENT_THUMB" => "CURRENT_INFO" \in steps,
           step = "FOLDERS" => "CURRENT_THUMB" \in steps,
           step = "DATES" => "FOLDERS" \in steps
    PROVE  GateInv'
<1>1. /\ steps' \subseteq EnumReady /\ asked' \subseteq EnumReady
      /\ Gfx => steps' = asked'
      /\ PreludeOrdered'
  BY MarkKeeps
<1>2. Gfx' => steps' = asked'
  BY <1>1 DEF Gfx
<1>3. PreludeEarned' /\ ThumbIsDescribed'
  BY <1>2, PlainAnswer DEF OK
<1> QED BY <1>1, <1>3 DEF GateInv

\* A property is read.
LEMMA PropertyRead ==
    ASSUME WifiInv, ptp_fuji_getdevicepropvalue_write
    PROVE  WifiInv'
<1>1. /\ ImportRequest /\ UNCHANGED <<session, current, described>>
      /\ OK("get", 0)
  BY DEF ptp_fuji_getdevicepropvalue_write
<1>3. PICK step \in BootstrapReady : fuji_mark_image_import_step(step)
  BY DEF ptp_fuji_getdevicepropvalue_write, BootstrapReady
<1>4. step \in EnumReady
      /\ step \notin {"CURRENT_INFO", "CURRENT_THUMB", "FOLDERS", "DATES"}
  BY <1>3 DEF EnumReady, BootstrapReady
<1>5. /\ CardInv' /\ EventsInv' /\ RemoteInv'
      /\ kind' = kind /\ ptp_objectid' = ptp_objectid
  BY <1>1, ImportKeeps
<1>6. GateInv'
  BY <1>1, <1>3, <1>4, <1>5, GrantKeeps DEF WifiInv
<1> QED BY <1>5, <1>6 DEF WifiInv

\* An answer the gate does not answer for, and no step granted.
LEMMA AnswerKeeps ==
    ASSUME GateInv, NEW op, NEW rc, NEW value, Answer(op, rc, value),
           op \notin {"count", "handles", "part", "thumb"},
           UNCHANGED <<kind, ptp_objectid, session, steps, current, asked, described>>
    PROVE  GateInv'
<1>1. Gfx' => steps' = asked'
  BY DEF GateInv, PreludeEarned, Gfx
<1>2. PreludeEarned' /\ ThumbIsDescribed'
  BY <1>1, PlainAnswer
<1> QED BY <1>2 DEF GateInv, PreludeOrdered

\* Events are queued: at most 21, and one request is counted.
LEMMA NotifiedKeeps ==
    ASSUME EventsInv, NEW n \in 0 .. 21, Notified(n)
    PROVE  EventsInv'
  BY DEF EventsInv, Notified

\* A property is written: it is stored, is a step of the prelude or queues
\* events, or the process ends in an assertion.
LEMMA PropertyWritten ==
    ASSUME WifiInv, ptp_fuji_setdevicepropvalue_write_data
    PROVE  WifiInv'
<1>1. /\ alive
      /\ UNCHANGED <<kind, dirents, ptp_objectid, session, current, described,
                     threads, backlog, refused, jpeg, frames>>
  BY DEF ptp_fuji_setdevicepropvalue_write_data, card, ports
<1>2. CardInv'
  BY <1>1 DEF WifiInv, CardInv
<1>3. CASE /\ alive' = FALSE /\ Answer("set", "abort", 0)
           /\ UNCHANGED <<steps, asked, events, waited>>
  <2>1. GateInv'
    BY <1>1, <1>3, AnswerKeeps DEF WifiInv
  <2>2. EventsInv'
    BY <1>3 DEF WifiInv, EventsInv
  <2>3. PortsInv' /\ FramesInv'
    BY <1>1 DEF WifiInv, RemoteInv, PortsInv, Elsewhere, FramesInv
  <2>4. AbortsExplained'
    <3>1. reply'.op = "set" /\ reply'.rc = "abort"
      BY <1>3 DEF Answer
    <3> QED BY <3>1 DEF AbortsExplained
  <2>5. alive' \in BOOLEAN
    BY <1>3, Zenon
  <2> QED BY <1>2, <2>1, <2>2, <2>3, <2>4, <2>5 DEF WifiInv, RemoteInv
<1>4. ASSUME NEW prop \in Written, NEW value,
             /\ IF prop \in DOMAIN StepOf /\ value = "expected"
                  THEN fuji_mark_image_import_step(StepOf[prop])
                  ELSE UNCHANGED <<steps, asked>>
             /\ IF prop = "CameraState" THEN Notified(6)
                                        ELSE UNCHANGED <<events, waited>>
             /\ OK("set", 0)
             /\ UNCHANGED alive
      PROVE  WifiInv'
  <2>1. EventsInv'
    <3>1. CASE Notified(6)
      BY <3>1, NotifiedKeeps DEF WifiInv
    <3>2. CASE UNCHANGED <<events, waited>>
      BY <3>2 DEF WifiInv, EventsInv
    <3> QED BY <1>4, <3>1, <3>2
  <2>2. RemoteInv'
    BY <1>1, <1>4, RemoteSame DEF WifiInv, RemoteInv
  <2>3. GateInv'
    <3>1. CASE UNCHANGED <<steps, asked>>
      BY <1>1, <1>4, <3>1, AnswerKeeps DEF WifiInv, OK
    <3>2. CASE prop \in DOMAIN StepOf /\ fuji_mark_image_import_step(StepOf[prop])
      <4>1. StepOf[prop] \in BootstrapReady
        BY <3>2 DEF StepOf, BootstrapReady
      <4>2. PICK step \in BootstrapReady : step = StepOf[prop]
        BY <4>1
      <4>3. step \in EnumReady
            /\ step \notin {"CURRENT_INFO", "CURRENT_THUMB", "FOLDERS", "DATES"}
        BY <4>2 DEF EnumReady, BootstrapReady
      <4> QED BY <1>1, <1>4, <3>2, <4>2, <4>3, GrantKeeps DEF WifiInv
    <3> QED BY <1>4, <3>1, <3>2
  <2> QED BY <1>2, <2>1, <2>2, <2>3 DEF WifiInv
<1> QED BY <1>3, <1>4 DEF ptp_fuji_setdevicepropvalue_write_data

\* An enumeration that answers does so because the whole prelude was earned.
LEMMA EnumerationStep ==
    ASSUME WifiInv, NEW op \in {"count", "handles"}, NEW value, Enumerate(op, value)
    PROVE  WifiInv'
<1>1. /\ ImportRequest /\ UNCHANGED <<session, steps, current, asked, described>>
  BY DEF Enumerate, import
<1>2. /\ CardInv' /\ EventsInv' /\ RemoteInv'
      /\ kind' = kind /\ ptp_objectid' = ptp_objectid /\ Gfx' = Gfx
  BY <1>1, ImportKeeps
<1>3. reply'.op = op /\ (Gfx => reply'.rc # "OK" \/ EnumReady \subseteq steps)
  BY DEF Enumerate, fuji_image_import_reject, fuji_image_import_has_steps, OK, Answer
<1>4. PreludeEarned' /\ ThumbIsDescribed'
  BY <1>1, <1>2, <1>3 DEF WifiInv, GateInv, PreludeEarned, ThumbIsDescribed
<1>5. GateInv'
  BY <1>1, <1>2, <1>4 DEF WifiInv, GateInv, PreludeOrdered
<1> QED BY <1>2, <1>5 DEF WifiInv

\* The object described.
LEMMA InfoStep ==
    ASSUME WifiInv, ptp_fuji_get_extension_object_info
    PROVE  WifiInv'
<1> DEFINE newest == fuji_find_newest_downloadable_object
<1>1. ImportRequest /\ Gfx /\ session' = session
  BY DEF ptp_fuji_get_extension_object_info, VendorRequest
<1>2. /\ CardInv' /\ EventsInv' /\ RemoteInv'
      /\ kind' = kind /\ ptp_objectid' = ptp_objectid
  BY <1>1, ImportKeeps
<1>3. newest \in 0 .. ptp_objectid
  BY NewestListed DEF WifiInv
<1>4. \/ \E rc \in {"SessionNotOpen", "AccessDenied", "InvalidObjectHandle"} :
             Refused("info", rc)
      \/ /\ fuji_image_import_has_steps(BootstrapReady)
         /\ current' = newest /\ described' = newest
         /\ fuji_mark_image_import_step("CURRENT_INFO") /\ OK("info", newest)
  BY DEF ptp_fuji_get_extension_object_info
<1>5. CASE \E rc \in {"SessionNotOpen", "AccessDenied", "InvalidObjectHandle"} :
             Refused("info", rc)
  <2>1. GateInv'
    BY <1>1, <1>2, <1>5, RefusalKeeps DEF WifiInv
  <2> QED BY <1>2, <2>1 DEF WifiInv
<1>6. CASE /\ fuji_image_import_has_steps(BootstrapReady)
           /\ current' = newest /\ described' = newest
           /\ fuji_mark_image_import_step("CURRENT_INFO") /\ OK("info", newest)
  <2>1. "CURRENT_INFO" \in EnumReady /\ BootstrapReady \subseteq steps
    BY <1>6 DEF EnumReady, fuji_image_import_has_steps
  <2>2. /\ steps' \subseteq EnumReady /\ asked' \subseteq EnumReady
        /\ Gfx => steps' = asked'
        /\ PreludeOrdered'
    BY <1>2, <1>6, <2>1, MarkKeeps DEF WifiInv
  <2>3. PreludeEarned' /\ ThumbIsDescribed'
    <3>1. Gfx' => steps' = asked'
      BY <1>2, <2>2 DEF Gfx
    <3> QED BY <1>6, <3>1, PlainAnswer DEF OK
  <2>4. GateInv'
    BY <1>1, <1>2, <1>3, <1>6, <2>2, <2>3 DEF WifiInv, GateInv
  <2> QED BY <1>2, <2>4 DEF WifiInv
<1> QED BY <1>4, <1>5, <1>6

\* Its thumbnail.
LEMMA ThumbStep ==
    ASSUME WifiInv, ptp_fuji_get_extension_thumb
    PROVE  WifiInv'
<1>1. ImportRequest /\ Gfx /\ session' = session
  BY DEF ptp_fuji_get_extension_thumb, VendorRequest
<1>2. /\ CardInv' /\ EventsInv' /\ RemoteInv'
      /\ kind' = kind /\ ptp_objectid' = ptp_objectid /\ dirents' = dirents
      /\ Gfx' = Gfx
  BY <1>1, ImportKeeps
<1>3. \/ \E rc \in {"SessionNotOpen", "AccessDenied", "InvalidObjectHandle"} :
             Refused("thumb", rc)
      \/ /\ fuji_image_import_has_steps({"CURRENT_INFO"})
         /\ fuji_finds_object(current)
         /\ fuji_mark_image_import_step("CURRENT_THUMB") /\ OK("thumb", current)
         /\ UNCHANGED <<current, described>>
  BY DEF ptp_fuji_get_extension_thumb
<1>4. CASE \E rc \in {"SessionNotOpen", "AccessDenied", "InvalidObjectHandle"} :
             Refused("thumb", rc)
  <2>1. GateInv'
    BY <1>1, <1>2, <1>4, RefusalKeeps DEF WifiInv
  <2> QED BY <1>2, <2>1 DEF WifiInv
<1>5. CASE /\ fuji_image_import_has_steps({"CURRENT_INFO"})
           /\ fuji_finds_object(current)
           /\ fuji_mark_image_import_step("CURRENT_THUMB") /\ OK("thumb", current)
           /\ UNCHANGED <<current, described>>
  <2>1. "CURRENT_THUMB" \in EnumReady /\ "CURRENT_INFO" \in steps
    BY <1>5 DEF EnumReady, fuji_image_import_has_steps
  <2>2. /\ steps' \subseteq EnumReady /\ asked' \subseteq EnumReady
        /\ Gfx => steps' = asked'
        /\ PreludeOrdered'
    BY <1>2, <1>5, <2>1, MarkKeeps DEF WifiInv
  <2>3. reply'.op = "thumb" /\ reply'.value = current /\ current = described
    BY <1>5 DEF OK, Answer, WifiInv, GateInv
  <2>4. PreludeEarned'
    BY <1>2, <2>2, <2>3 DEF PreludeEarned
  <2>5. current \in Ids(dirents)
    BY <1>5 DEF fuji_finds_object, DownloadableIds, Ids
  <2>6. ThumbIsDescribed'
    <3>1. Ids(dirents)' = Ids(dirents)
      BY <1>2 DEF Ids
    <3> QED BY <1>5, <2>3, <2>5, <3>1 DEF ThumbIsDescribed
  <2>7. GateInv'
    BY <1>1, <1>2, <1>5, <2>2, <2>4, <2>6 DEF WifiInv, GateInv
  <2> QED BY <1>2, <2>7 DEF WifiInv
<1> QED BY <1>3, <1>4, <1>5

\* Folders and dates.
LEMMA PreludeStep ==
    ASSUME WifiInv,
           ptp_fuji_get_image_import_folders \/ ptp_fuji_get_image_import_dates
    PROVE  WifiInv'
<1>1. PICK op, before, step, value :
        /\ op \in {"folders", "dates"} /\ before \in EnumReady /\ step \in EnumReady
        /\ PreludeQuery(op, before, step, value)
        /\ step \notin {"CURRENT_INFO", "CURRENT_THUMB"}
        /\ step = "FOLDERS" => before = "CURRENT_THUMB"
        /\ step = "DATES" => before = "FOLDERS"
  <2>1. /\ {"FOLDERS", "DATES", "CURRENT_THUMB"} \subseteq EnumReady
    BY DEF EnumReady
  <2>2. CASE ptp_fuji_get_image_import_folders
    BY <2>1, <2>2 DEF ptp_fuji_get_image_import_folders
  <2>3. CASE ptp_fuji_get_image_import_dates
    BY <2>1, <2>3 DEF ptp_fuji_get_image_import_dates
  <2> QED BY <2>2, <2>3
<1>2. ImportRequest /\ Gfx /\ session' = session
  BY <1>1 DEF PreludeQuery, VendorRequest
<1>3. /\ CardInv' /\ EventsInv' /\ RemoteInv'
      /\ kind' = kind /\ ptp_objectid' = ptp_objectid
  BY <1>2, ImportKeeps
<1>4. \/ \E rc \in {"SessionNotOpen", "AccessDenied"} : Refused(op, rc)
      \/ /\ fuji_image_import_has_steps({before})
         /\ fuji_mark_image_import_step(step) /\ OK(op, value)
         /\ UNCHANGED <<current, described>>
  BY <1>1 DEF PreludeQuery
<1>5. CASE \E rc \in {"SessionNotOpen", "AccessDenied"} : Refused(op, rc)
  <2>1. GateInv'
    BY <1>2, <1>3, <1>5, RefusalKeeps DEF WifiInv
  <2> QED BY <1>3, <2>1 DEF WifiInv
<1>6. CASE /\ fuji_image_import_has_steps({before})
           /\ fuji_mark_image_import_step(step) /\ OK(op, value)
           /\ UNCHANGED <<current, described>>
  <2>1. before \in steps
    BY <1>6 DEF fuji_image_import_has_steps
  <2>2. GateInv'
    BY <1>1, <1>2, <1>3, <1>6, <2>1, GrantKeeps DEF WifiInv
  <2> QED BY <1>3, <2>2 DEF WifiInv
<1> QED BY <1>4, <1>5, <1>6

\* A part of an object.
LEMMA PartStep ==
    ASSUME WifiInv, ptp_fuji_get_extension_partial_object
    PROVE  WifiInv'
<1>1. PICK h : /\ VendorRequest
               /\ \/ \E rc \in {"SessionNotOpen", "AccessDenied", "InvalidObjectHandle"} :
                        Refused("part", rc)
                  \/ /\ fuji_image_import_has_steps(EnumReady) /\ OK("part", h)
                     /\ UNCHANGED <<import, asked, described>>
  BY DEF ptp_fuji_get_extension_partial_object
<1>2. ImportRequest /\ Gfx /\ session' = session
  BY <1>1 DEF VendorRequest
<1>3. /\ CardInv' /\ EventsInv' /\ RemoteInv'
      /\ kind' = kind /\ ptp_objectid' = ptp_objectid /\ Gfx' = Gfx
  BY <1>2, ImportKeeps
<1>4. CASE \E rc \in {"SessionNotOpen", "AccessDenied", "InvalidObjectHandle"} :
             Refused("part", rc)
  <2>1. GateInv'
    BY <1>2, <1>3, <1>4, RefusalKeeps DEF WifiInv
  <2> QED BY <1>3, <2>1 DEF WifiInv
<1>5. CASE /\ fuji_image_import_has_steps(EnumReady) /\ OK("part", h)
           /\ UNCHANGED <<import, asked, described>>
  <2>1. EnumReady \subseteq steps /\ UNCHANGED <<steps, current, asked, described>>
    BY <1>5 DEF fuji_image_import_has_steps, import
  <2>2. reply'.op = "part"
    BY <1>5 DEF OK, Answer
  <2>3. PreludeEarned' /\ ThumbIsDescribed'
    BY <1>3, <2>1, <2>2 DEF WifiInv, GateInv, PreludeEarned, ThumbIsDescribed
  <2>4. GateInv'
    BY <1>2, <1>3, <2>1, <2>3 DEF WifiInv, GateInv, PreludeOrdered
  <2> QED BY <1>3, <2>4 DEF WifiInv
<1> QED BY <1>1, <1>4, <1>5

\* Sessions open and close.
LEMMA SessionStep ==
    ASSUME WifiInv, ptp_opensession_write \/ ptp_closesession_write
    PROVE  WifiInv'
<1>1. /\ ImportRequest /\ UNCHANGED <<steps, current, asked, described>>
      /\ session' = TRUE \/ session' = FALSE
  BY DEF ptp_opensession_write, ptp_closesession_write, import
<1>2. PICK op, rc : op \in {"open", "close"} /\ Answer(op, rc, 0)
  BY DEF ptp_opensession_write, ptp_closesession_write
<1>3. /\ CardInv' /\ EventsInv' /\ RemoteInv'
      /\ kind' = kind /\ ptp_objectid' = ptp_objectid /\ Gfx' = Gfx
  BY <1>1, ImportKeeps
<1>4. Gfx' => steps' = asked'
  BY <1>1, <1>3 DEF WifiInv, GateInv, PreludeEarned
<1>5. PreludeEarned' /\ ThumbIsDescribed'
  BY <1>2, <1>4, PlainAnswer
<1>6. session' \in BOOLEAN
  BY <1>1, Zenon
<1>7. GateInv'
  BY <1>1, <1>3, <1>5, <1>6 DEF WifiInv, GateInv, PreludeOrdered
<1> QED BY <1>3, <1>7 DEF WifiInv

\* A picture is taken or deleted.
LEMMA CardStep ==
    ASSUME WifiInv, ChangeCard
    PROVE  WifiInv'
<1>1. /\ UNCHANGED <<kind, session, steps, current, events, asked, described, waited,
                     threads, backlog, refused, jpeg, frames>>
      /\ alive /\ alive' = alive
  BY DEF ChangeCard, Request, import, remote, ports
<1>2. /\ dirents \in Seq(DirEntry) /\ Len(dirents) \in Nat /\ ptp_objectid \in Nat
      /\ \A i \in 1 .. Len(dirents) : dirents[i].id \in 0 .. ptp_objectid
      /\ \A i \in 1 .. Len(dirents) : dirents[i] \in DirEntry
      /\ DOMAIN dirents = 1 .. Len(dirents)
  BY DEF WifiInv, CardInv
<1>3. PICK op, value : op \in {"delete", "capture"} /\ OK(op, value)
  BY DEF ChangeCard
<1>4. \/ \E i \in Files : dirents' = RemoveAt(dirents, i) /\ ptp_objectid' = ptp_objectid
      \/ /\ Files # {} /\ dirents' = <<Captured(dirents[Min(Files)])>> \o dirents
         /\ ptp_objectid' = ptp_objectid + 2
  BY DEF ChangeCard
<1>5. Files \subseteq 1 .. Len(dirents)
  BY <1>2 DEF Files
<1>6. CardInv' /\ ptp_objectid' \in Nat /\ ptp_objectid <= ptp_objectid'
  <2>1. CASE \E i \in Files :
                dirents' = RemoveAt(dirents, i) /\ ptp_objectid' = ptp_objectid
    <3>1. PICK i \in 1 .. Len(dirents) :
            dirents' = RemoveAt(dirents, i) /\ ptp_objectid' = ptp_objectid
      BY <1>5, <2>1
    <3>2. /\ dirents' \in Seq(DirEntry) /\ Len(dirents') = Len(dirents) - 1
          /\ \A j \in 1 .. Len(dirents) - 1 :
                \E k \in 1 .. Len(dirents) : k # i /\ dirents'[j] = dirents[k]
      BY <1>2, <3>1, RemoveAtProperties, RemoveAtEntries
    <3>3. \A j \in 1 .. Len(dirents') : dirents'[j].id \in 0 .. ptp_objectid
      <4> SUFFICES ASSUME NEW j \in 1 .. Len(dirents')
                   PROVE  dirents'[j].id \in 0 .. ptp_objectid
        OBVIOUS
      <4>1. PICK k \in 1 .. Len(dirents) : dirents'[j] = dirents[k]
        BY <3>2
      <4> QED BY <1>2, <4>1
    <3> QED BY <1>1, <1>2, <3>1, <3>2, <3>3 DEF WifiInv, CardInv
  <2>2. CASE /\ Files # {} /\ dirents' = <<Captured(dirents[Min(Files)])>> \o dirents
             /\ ptp_objectid' = ptp_objectid + 2
    <3>1. Min(Files) \in 1 .. Len(dirents)
      <4>1. Files \subseteq Nat
        BY <1>5
      <4> QED BY <1>5, <2>2, <4>1, MinIsLeast
    <3>2. dirents[Min(Files)].date \in Nat
      BY <1>2, <3>1 DEF DirEntry
    <3>3. PICK e : e = Captured(dirents[Min(Files)])
      OBVIOUS
    <3>4. e \in DirEntry /\ e.id = ptp_objectid + 2
      <4>1. PICK d \in Nat : d = dirents[Min(Files)].date
        BY <3>2
      <4>2. PICK b \in BOOLEAN : b = FALSE
        BY Zenon
      <4>3. e = [id |-> ptp_objectid + 2, dir |-> b, date |-> d]
        BY <3>3, <4>1, <4>2, Zenon DEF Captured, Entry
      <4>4. ptp_objectid + 2 \in Nat
        BY <1>2
      <4> QED BY <4>3, <4>4 DEF DirEntry
    <3>5. dirents' = <<e>> \o dirents
      BY <2>2, <3>3
    <3>6. /\ dirents' \in Seq(DirEntry) /\ Len(dirents') = Len(dirents) + 1
          /\ \A j \in 1 .. Len(dirents) + 1 :
                dirents'[j] = IF j <= 1 THEN <<e>>[j] ELSE dirents[j - 1]
      <4>1. <<e>> \in Seq(DirEntry) /\ Len(<<e>>) = 1
        BY <3>4
      <4> QED BY <1>2, <3>5, <4>1, ConcatProperties
    <3>7. \A j \in 1 .. Len(dirents') : dirents'[j].id \in 0 .. ptp_objectid + 2
      <4> SUFFICES ASSUME NEW j \in 1 .. Len(dirents')
                   PROVE  dirents'[j].id \in 0 .. ptp_objectid + 2
        OBVIOUS
      <4>1. CASE j = 1
        BY <1>2, <3>4, <3>6, <4>1
      <4>2. CASE j # 1
        <5>1. j - 1 \in 1 .. Len(dirents) /\ dirents'[j] = dirents[j - 1]
          BY <1>2, <3>6, <4>2
        <5> QED BY <1>2, <5>1
      <4> QED BY <4>1, <4>2
    <3> QED BY <1>1, <1>2, <2>2, <3>6, <3>7 DEF WifiInv, CardInv
  <2> QED BY <1>4, <2>1, <2>2
<1>7. GateInv'
  <2>1. Gfx' => steps' = asked'
    BY <1>1 DEF Gfx, WifiInv, GateInv, PreludeEarned
  <2>2. PreludeEarned' /\ ThumbIsDescribed'
    BY <1>3, <2>1, PlainAnswer DEF OK
  <2>3. current' \in 0 .. ptp_objectid'
    BY <1>1, <1>2, <1>6 DEF WifiInv, GateInv
  <2> QED BY <1>1, <2>2, <2>3 DEF WifiInv, GateInv, PreludeOrdered
<1>8. EventsInv'
  BY <1>1 DEF WifiInv, EventsInv
<1>9. RemoteInv'
  BY <1>1, RemoteSame DEF WifiInv, RemoteInv
<1> QED BY <1>6, <1>7, <1>8, <1>9 DEF WifiInv

-----------------------------------------------------------------------------
(* Remote control *)

\* The card and the gate are left alone by requests of the remote control, which
\* are answered otherwise.
LEMMA RemoteKeeps ==
    ASSUME WifiInv, RemoteRequest, NEW op, NEW rc, NEW value, Answer(op, rc, value),
           op \notin {"count", "handles", "part", "thumb"}
    PROVE  alive /\ CardInv' /\ GateInv'
<1>1. UNCHANGED <<kind, dirents, ptp_objectid, session, steps, current, asked, described>>
  BY DEF RemoteRequest, card, import
<1>2. GateInv'
  BY <1>1, AnswerKeeps DEF WifiInv
<1>3. CardInv'
  BY <1>1 DEF WifiInv, CardInv
<1> QED BY <1>2, <1>3 DEF RemoteRequest

\* TerminateOpenCapture queues 21 events.
LEMMA TerminateStep ==
    ASSUME WifiInv, TerminateOpenCapture
    PROVE  WifiInv'
<1>1. /\ RemoteRequest /\ OK("terminate", 0) /\ Notified(21)
      /\ UNCHANGED <<alive, threads, backlog, refused, jpeg, frames>>
  BY DEF TerminateOpenCapture, remote, ports
<1>2. alive /\ CardInv' /\ GateInv'
  BY <1>1, RemoteKeeps DEF OK
<1>3. EventsInv'
  BY <1>1, NotifiedKeeps DEF WifiInv
<1>4. RemoteInv'
  BY <1>1, <1>2, RemoteSame DEF WifiInv, RemoteInv
<1> QED BY <1>2, <1>3, <1>4 DEF WifiInv

\* Fetching empties the event list; a list that is too long for the buffer was
\* filled by more requests than there is room for.
LEMMA FetchStep ==
    ASSUME WifiInv, fuji_send_events
    PROVE  WifiInv'
<1>1. RemoteRequest /\ UNCHANGED <<threads, backlog, refused, jpeg, frames>>
  BY DEF fuji_send_events, ports
<1>2. CASE OK("events", events) /\ events' = 0 /\ waited' = 0 /\ alive' = alive
  <2>1. alive /\ CardInv' /\ GateInv'
    BY <1>1, <1>2, RemoteKeeps DEF OK
  <2>2. EventsInv'
    BY <1>2 DEF EventsInv
  <2>3. RemoteInv'
    BY <1>1, <1>2, <2>1, RemoteSame DEF WifiInv, RemoteInv
  <2> QED BY <2>1, <2>2, <2>3 DEF WifiInv
<1>3. CASE Overflow
  <2>1. /\ ~EventsFit /\ alive' = FALSE /\ Answer("events", "abort", 0)
        /\ UNCHANGED <<events, waited>>
    BY <1>3 DEF Overflow
  <2>2. CardInv' /\ GateInv'
    BY <1>1, <2>1, RemoteKeeps
  <2>3. EventsInv'
    BY <2>1 DEF WifiInv, EventsInv
  <2>4. AbortsExplained'
    <3>1. 2 + 6 * (6 + 21 * waited') > EventBytes
      <4>1. /\ events \in Nat /\ waited \in Nat /\ events <= 6 + 21 * waited
            /\ EventBytes \in Nat
        BY ConstantsAssumption DEF WifiInv, EventsInv
      <4>2. ~(2 + 6 * events <= EventBytes) /\ waited' = waited
        BY <2>1 DEF EventsFit
      <4> QED BY <4>1, <4>2
    <3>2. reply'.op = "events" /\ reply'.rc = "abort"
      BY <2>1 DEF Answer
    <3> QED BY <3>1, <3>2 DEF AbortsExplained
  <2>5. PortsInv' /\ FramesInv'
    BY <1>1 DEF WifiInv, RemoteInv, PortsInv, Elsewhere, FramesInv
  <2>6. alive' \in BOOLEAN
    BY <2>1, Zenon
  <2> QED BY <2>2, <2>3, <2>4, <2>5, <2>6 DEF WifiInv, RemoteInv
<1> QED BY <1>2, <1>3 DEF fuji_send_events

\* InitiateOpenCapture starts a thread that has nothing yet.
LEMMA OpenStep ==
    ASSUME WifiInv, fuji_accept_remote_ports
    PROVE  WifiInv'
<1> DEFINE n == Len(threads)
<1>1. /\ RemoteRequest /\ OK("capture", 0)
      /\ threads' = Append(threads, [at |-> "event", has |-> {}])
      /\ UNCHANGED <<events, waited, alive, backlog, refused, jpeg, frames>>
  BY DEF fuji_accept_remote_ports
<1>2. alive /\ CardInv' /\ GateInv'
  BY <1>1, RemoteKeeps DEF OK
<1>3. EventsInv'
  BY <1>1 DEF WifiInv, EventsInv
<1>4. PICK r : r = [at |-> "event", has |-> {}]
  OBVIOUS
<1>5. r \in ThreadRecord /\ r.at = "event" /\ r.has = {}
  BY <1>4 DEF ThreadRecord
<1>6. threads \in Seq(ThreadRecord) /\ n \in Nat
  BY DEF WifiInv, RemoteInv, PortsInv
<1>7. /\ threads' \in Seq(ThreadRecord) /\ Len(threads') = n + 1
      /\ \A t \in 1 .. n : threads'[t] = threads[t]
      /\ threads'[n + 1] = r
  BY <1>1, <1>4, <1>5, <1>6, AppendProperties
<1>8. \A t \in 1 .. n + 1 : t = n + 1 \/ t \in 1 .. n
  BY <1>6
<1>9. \A t \in 1 .. n : t \in 1 .. n + 1
  BY <1>6
<1> HIDE DEF n
<1>10. PortsInv'
  <2>1. \A t, u \in 1 .. n + 1 : t # u => threads'[t].has \cap threads'[u].has = {}
    BY <1>5, <1>7, <1>8 DEF WifiInv, RemoteInv, PortsInv, n
  <2>2. ASSUME NEW t \in 1 .. n + 1
        PROVE  /\ threads'[t].at = "accept_video" => "event" \in threads'[t].has
               /\ threads'[t].at = "sleep" => threads'[t].has = Ports
               /\ \A port \in Tried(threads'[t].at) :
                     port \in threads'[t].has \/ port \in refused \/ Elsewhere(t, port)'
    <3>1. CASE t = n + 1
      <4>1. threads'[t].at = "event" /\ Tried("event") = {}
        BY <1>5, <1>7, <3>1 DEF Tried
      <4> QED BY <4>1
    <3>2. CASE t \in 1 .. n
      <4>1. threads'[t] = threads[t]
        BY <1>7, <3>2
      <4>2. /\ threads[t].at = "accept_video" => "event" \in threads[t].has
            /\ threads[t].at = "sleep" => threads[t].has = Ports
            /\ \A port \in Tried(threads[t].at) :
                  port \in threads[t].has \/ port \in refused \/ Elsewhere(t, port)
        BY <3>2 DEF WifiInv, RemoteInv, PortsInv, n
      <4>3. \A port : Elsewhere(t, port) => Elsewhere(t, port)'
        BY <1>7, <1>9 DEF Elsewhere, n
      <4> QED BY <4>1, <4>2, <4>3
    <3> QED BY <1>8, <3>1, <3>2
  <2>3. refused' = refused /\ refused \subseteq Ports
    BY <1>1 DEF WifiInv, RemoteInv, PortsInv
  <2> QED BY <1>7, <2>1, <2>2, <2>3 DEF PortsInv
<1>11. FramesInv'
  <2>1. frames # 0 => \E t \in 1 .. n + 1 : threads'[t].at = "sleep"
    BY <1>7, <1>9 DEF WifiInv, RemoteInv, FramesInv, n
  <2> QED BY <1>1, <1>7, <2>1 DEF WifiInv, RemoteInv, FramesInv
<1>12. AbortsExplained' /\ alive' \in BOOLEAN
  BY <1>1, <1>2 DEF AbortsExplained, WifiInv, RemoteInv
<1> QED BY <1>2, <1>3, <1>10, <1>11, <1>12 DEF WifiInv, RemoteInv

\* Threads and connections to their ports leave everything else alone.
LEMMA ThreadKeeps ==
    ASSUME WifiInv,
           UNCHANGED <<kind, card, session, import, events, client, reply>>
    PROVE  CardInv' /\ GateInv' /\ EventsInv'
<1>1. UNCHANGED <<kind, dirents, ptp_objectid, session, steps, current, events,
                  asked, described, waited, reply>>
  BY DEF card, import, client
<1> QED BY <1>1 DEF WifiInv, CardInv, GateInv, EventsInv, PreludeEarned,
                    PreludeOrdered, ThumbIsDescribed, Gfx, Ids

\* A thread moves on: it keeps the ports it has, and what it adds no other
\* thread has.
LEMMA MoveKeeps ==
    ASSUME WifiInv, NEW t \in 1 .. Len(threads), NEW r \in ThreadRecord,
           threads' = [threads EXCEPT ![t] = r],
           threads[t].at # "sleep", threads[t].has \subseteq r.has,
           \A u \in 1 .. Len(threads) : u # t => r.has \cap threads[u].has = {},
           r.at = "accept_video" => "event" \in r.has,
           r.at = "sleep" => r.has = Ports,
           refused \subseteq refused', refused' \subseteq Ports,
           \A port \in Tried(r.at) :
              port \in r.has \/ port \in refused' \/ Elsewhere(t, port),
           frames' \in 0 .. 1, frames' # 0 => frames # 0 \/ r.at = "sleep",
           alive, alive' = alive, jpeg' = jpeg, backlog' \in [Ports -> 0 .. 1]
    PROVE  RemoteInv'
<1> DEFINE n == Len(threads)
<1>0. threads \in Seq(ThreadRecord) /\ n \in Nat
  BY DEF WifiInv, RemoteInv, PortsInv
<1>1. /\ threads' \in Seq(ThreadRecord) /\ Len(threads') = n
      /\ threads'[t] = r
      /\ \A u \in 1 .. n : u # t => threads'[u] = threads[u]
  <2>1. /\ threads' \in Seq(ThreadRecord) /\ Len(threads') = n
        /\ \A u \in 1 .. n : threads'[u] = IF u = t THEN r ELSE threads[u]
    BY <1>0, ExceptSeq
  <2> QED BY <2>1
<1>2. /\ \A u, v \in 1 .. n : u # v => threads[u].has \cap threads[v].has = {}
      /\ \A u \in 1 .. n :
            /\ threads[u].at = "accept_video" => "event" \in threads[u].has
            /\ threads[u].at = "sleep" => threads[u].has = Ports
            /\ \A port \in Tried(threads[u].at) :
                  port \in threads[u].has \/ port \in refused \/ Elsewhere(u, port)
  BY DEF WifiInv, RemoteInv, PortsInv
<1>3. \A u \in 1 .. n : threads[u].has \subseteq threads'[u].has
  BY <1>1
<1>4. \A u \in 1 .. n : \A port : Elsewhere(u, port) => Elsewhere(u, port)'
  BY <1>1, <1>3 DEF Elsewhere
<1> HIDE DEF n
<1>5. \A u, v \in 1 .. n : u # v => threads'[u].has \cap threads'[v].has = {}
  <2> SUFFICES ASSUME NEW u \in 1 .. n, NEW v \in 1 .. n, u # v
               PROVE  threads'[u].has \cap threads'[v].has = {}
    OBVIOUS
  <2>1. CASE u = t
    BY <1>1, <2>1 DEF n
  <2>2. CASE v = t
    BY <1>1, <2>2 DEF n
  <2>3. CASE u # t /\ v # t
    BY <1>1, <1>2, <2>3
  <2> QED BY <2>1, <2>2, <2>3
<1>6. ASSUME NEW u \in 1 .. n
      PROVE  /\ threads'[u].at = "accept_video" => "event" \in threads'[u].has
             /\ threads'[u].at = "sleep" => threads'[u].has = Ports
             /\ \A port \in Tried(threads'[u].at) :
                   port \in threads'[u].has \/ port \in refused' \/ Elsewhere(u, port)'
  <2>1. CASE u = t
    BY <1>1, <1>4, <2>1
  <2>2. CASE u # t
    BY <1>1, <1>2, <1>4, <2>2
  <2> QED BY <2>1, <2>2
<1>7. PortsInv'
  BY <1>1, <1>5, <1>6 DEF PortsInv
<1>8. FramesInv'
  <2>1. frames' # 0 => \E u \in 1 .. n : threads'[u].at = "sleep"
    <3>1. CASE r.at = "sleep"
      BY <1>1, <3>1 DEF n
    <3>2. CASE frames # 0
      <4>1. PICK u \in 1 .. n : threads[u].at = "sleep"
        BY <3>2 DEF WifiInv, RemoteInv, FramesInv, n
      <4>2. u # t
        BY <4>1
      <4> QED BY <1>1, <4>1, <4>2
    <3> QED BY <3>1, <3>2
  <2> QED BY <1>1, <2>1 DEF WifiInv, RemoteInv, FramesInv
<1>9. AbortsExplained' /\ alive' \in BOOLEAN
  BY DEF AbortsExplained, WifiInv, RemoteInv
<1> QED BY <1>7, <1>8, <1>9 DEF RemoteInv

\* A thread that binds a port gets it, unless another thread has it or the call
\* fails.
LEMMA BindStep ==
    ASSUME WifiInv, NEW t \in 1 .. Len(threads),
           NEW port \in Ports, NEW next \in {"video", "accept_event"},
           BindPort(t, port, next),
           Tried(next) = Tried(port) \cup {port}
    PROVE  WifiInv'
<1>1. alive /\ CardInv' /\ GateInv' /\ EventsInv'
  BY ThreadKeeps DEF BindPort, Thread
<1>2. PICK fails \in BOOLEAN :
        /\ threads[t].at = port /\ UNCHANGED <<alive, backlog, jpeg, frames>>
        /\ threads' = [threads EXCEPT ![t] =
               [at |-> next,
                has |-> IF Bound(port) \/ fails THEN threads[t].has
                                                ELSE threads[t].has \cup {port}]]
        /\ refused' = IF fails THEN refused \cup {port} ELSE refused
  BY DEF BindPort
<1>3. /\ threads[t].has \in SUBSET Ports /\ refused \subseteq Ports
      /\ DOMAIN threads = 1 .. Len(threads)
      /\ \A u \in 1 .. Len(threads) : u # t => threads[t].has \cap threads[u].has = {}
      /\ \A p \in Tried(port) :
            p \in threads[t].has \/ p \in refused \/ Elsewhere(t, p)
  <2>1. threads \in Seq(ThreadRecord)
    BY DEF WifiInv, RemoteInv, PortsInv
  <2>2. threads[t] \in ThreadRecord
    BY <2>1
  <2> QED BY <1>2, <2>1, <2>2 DEF ThreadRecord, WifiInv, RemoteInv, PortsInv
<1>4. PICK has \in SUBSET Ports :
        has = IF Bound(port) \/ fails THEN threads[t].has
                                      ELSE threads[t].has \cup {port}
  BY <1>3
<1>5. PICK r : r = [at |-> next, has |-> has]
  OBVIOUS
<1>6. r \in ThreadRecord /\ r.at = next /\ r.has = has
  BY <1>5 DEF ThreadRecord
<1>7. threads' = [threads EXCEPT ![t] = r]
  BY <1>2, <1>4, <1>5
<1>8. \A u \in 1 .. Len(threads) : u # t => has \cap threads[u].has = {}
  <2>1. CASE Bound(port) \/ fails
    BY <1>3, <1>4, <2>1
  <2>2. CASE ~Bound(port) /\ ~fails
    BY <1>3, <1>4, <2>2 DEF Bound
  <2> QED BY <2>1, <2>2
<1>9. \A p \in Tried(next) : p \in has \/ p \in refused' \/ Elsewhere(t, p)
  <2>1. threads[t].has \subseteq has /\ refused \subseteq refused'
    BY <1>2, <1>4
  <2>2. port \in has \/ port \in refused' \/ Elsewhere(t, port)
    <3>1. CASE fails
      BY <1>2, <3>1
    <3>2. CASE ~fails /\ ~Bound(port)
      BY <1>4, <3>2
    <3>3. CASE Bound(port)
      BY <1>3, <2>1, <3>3 DEF Bound, Elsewhere
    <3> QED BY <3>1, <3>2, <3>3
  <2> QED BY <1>3, <2>1, <2>2
<1>10. threads[t].at # "sleep" /\ r.at # "sleep" /\ r.at # "accept_video"
  BY <1>2, <1>6 DEF Ports
<1>11. /\ backlog' \in [Ports -> 0 .. 1] /\ frames' \in 0 .. 1 /\ frames' = frames
       /\ threads[t].has \subseteq has
       /\ refused \subseteq refused' /\ refused' \subseteq Ports
  BY <1>2, <1>3, <1>4 DEF WifiInv, RemoteInv, FramesInv
<1>12. RemoteInv'
  BY <1>1, <1>2, <1>6, <1>7, <1>8, <1>9, <1>10, <1>11, MoveKeeps
<1> QED BY <1>1, <1>12 DEF WifiInv

\* A thread that lacks the port it accepts on ends the process; one that has both
\* is the first to sleep.
LEMMA AcceptStep ==
    ASSUME WifiInv, NEW t \in 1 .. Len(threads),
           NEW at, NEW port, NEW next,
           \/ at = "accept_event" /\ port = "event" /\ next = "accept_video"
           \/ at = "accept_video" /\ port = "video" /\ next = "sleep",
           AcceptPort(t, at, port, next)
    PROVE  WifiInv'
<1>1. alive /\ CardInv' /\ GateInv' /\ EventsInv'
  BY ThreadKeeps DEF AcceptPort, Thread
<1>2. /\ threads[t].at = at /\ at # "sleep" /\ port \in Ports
      /\ Tried(at) = Ports /\ Tried(next) = Ports
      /\ jpeg' = jpeg /\ refused' = refused
  BY DEF AcceptPort, Tried, Ports
<1>3. /\ threads \in Seq(ThreadRecord) /\ DOMAIN threads = 1 .. Len(threads)
      /\ threads[t].has \in SUBSET Ports /\ refused \subseteq Ports
      /\ at = "accept_video" => "event" \in threads[t].has
      /\ \A u \in 1 .. Len(threads) : u # t => threads[t].has \cap threads[u].has = {}
      /\ \A u \in 1 .. Len(threads) : threads[u].at = "sleep" => threads[u].has = Ports
      /\ \A p \in Ports : p \in threads[t].has \/ p \in refused \/ Elsewhere(t, p)
  <2>1. threads \in Seq(ThreadRecord)
    BY DEF WifiInv, RemoteInv, PortsInv
  <2>2. threads[t] \in ThreadRecord
    BY <2>1
  <2> QED BY <1>2, <2>1, <2>2 DEF ThreadRecord, WifiInv, RemoteInv, PortsInv
<1>5. CASE port \in threads[t].has
  <2>1. /\ backlog[port] > 0 /\ backlog' = [backlog EXCEPT ![port] = backlog[port] - 1]
        /\ threads' = [threads EXCEPT ![t] = [at |-> next, has |-> threads[t].has]]
        /\ alive' = alive
        /\ frames' = IF next = "sleep" /\ jpeg THEN frames + 1 ELSE frames
    BY <1>5 DEF AcceptPort
  <2>2. PICK has \in SUBSET Ports : has = threads[t].has
    BY <1>3
  <2>3. PICK r : r = [at |-> next, has |-> has]
    OBVIOUS
  <2>4. r \in ThreadRecord /\ r.at = next /\ r.has = has
    BY <2>3 DEF ThreadRecord
  <2>5. threads' = [threads EXCEPT ![t] = r]
    BY <2>1, <2>2, <2>3
  <2>6. backlog' \in [Ports -> 0 .. 1]
    <3>1. backlog \in [Ports -> 0 .. 1]
      BY DEF WifiInv, RemoteInv, FramesInv
    <3>2. backlog[port] - 1 \in 0 .. 1
      BY <1>2, <2>1, <3>1
    <3> QED BY <2>1, <3>1, <3>2
  <2>7. /\ next = "accept_video" => "event" \in has
        /\ next = "sleep" => has = Ports
    BY <1>3, <1>5, <2>2 DEF Ports
  <2>8. frames' \in 0 .. 1 /\ (frames' # 0 => frames # 0 \/ next = "sleep")
    <3>1. frames \in 0 .. 1
      BY DEF WifiInv, RemoteInv, FramesInv
    <3>2. CASE next # "sleep"
      BY <2>1, <3>1, <3>2
    <3>3. CASE next = "sleep"
      <4>1. \A u \in 1 .. Len(threads) : threads[u].at # "sleep"
        <5> SUFFICES ASSUME NEW u \in 1 .. Len(threads), threads[u].at = "sleep"
                     PROVE  FALSE
          OBVIOUS
        <5>1. u # t /\ threads[u].has = Ports
          BY <1>2, <1>3
        <5> QED BY <1>2, <1>3, <1>5, <5>1
      <4>2. frames = 0
        BY <4>1 DEF WifiInv, RemoteInv, FramesInv
      <4> QED BY <2>1, <3>3, <4>2
    <3> QED BY <3>2, <3>3
  <2>9. RemoteInv'
    <3>1. /\ threads[t].at # "sleep" /\ threads[t].has \subseteq r.has
          /\ \A u \in 1 .. Len(threads) : u # t => r.has \cap threads[u].has = {}
          /\ \A p \in Tried(r.at) : p \in r.has \/ p \in refused' \/ Elsewhere(t, p)
      BY <1>2, <1>3, <2>2, <2>4
    <3>2. /\ r.at = "accept_video" => "event" \in r.has
          /\ r.at = "sleep" => r.has = Ports
          /\ frames' # 0 => frames # 0 \/ r.at = "sleep"
      BY <2>4, <2>7, <2>8
    <3>3. refused \subseteq refused' /\ refused' \subseteq Ports
      BY <1>2, <1>3
    <3> QED BY <1>1, <1>2, <2>1, <2>4, <2>5, <2>6, <2>8, <3>1, <3>2, <3>3, MoveKeeps
  <2> QED BY <1>1, <2>9 DEF WifiInv
<1>6. CASE port \notin threads[t].has
  <2>1. alive' = FALSE /\ UNCHANGED <<threads, backlog, frames>>
    BY <1>6 DEF AcceptPort
  <2>2. PortsInv' /\ FramesInv'
    BY <1>2, <2>1 DEF WifiInv, RemoteInv, PortsInv, Elsewhere, FramesInv
  <2>3. WithoutPort(t, port)
    <3>1. at = IF port = "event" THEN "accept_event" ELSE "accept_video"
      OBVIOUS
    <3>2. port \in refused \/ \E u \in DOMAIN threads : u # t /\ port \in threads[u].has
      BY <1>2, <1>3, <1>6 DEF Elsewhere
    <3> QED BY <1>2, <1>6, <3>1, <3>2 DEF WithoutPort
  <2>4. WithoutPort(t, port)'
    BY <1>2, <2>1, <2>3 DEF WithoutPort
  <2>5. AbortsExplained'
    BY <1>2, <1>3, <2>1, <2>4 DEF AbortsExplained
  <2>6. alive' \in BOOLEAN
    BY <2>1, Zenon
  <2> QED BY <1>1, <2>2, <2>5, <2>6 DEF WifiInv, RemoteInv
<1> QED BY <1>5, <1>6

\* A step of a thread.
LEMMA ThreadStepKeeps ==
    ASSUME WifiInv, ThreadStep
    PROVE  WifiInv'
<1>1. DOMAIN threads = 1 .. Len(threads)
  BY DEF WifiInv, RemoteInv, PortsInv
<1>2. PICK t \in 1 .. Len(threads) : fuji_accept_remote_ports_thread(t)
  BY <1>1 DEF ThreadStep
<1>3. /\ Tried("video") = Tried("event") \cup {"event"}
      /\ Tried("accept_event") = Tried("video") \cup {"video"}
      /\ "event" \in Ports /\ "video" \in Ports
  BY DEF Tried, Ports
<1>6. CASE BindPort(t, "event", "video")
  BY <1>3, <1>6, BindStep
<1>7. CASE BindPort(t, "video", "accept_event")
  BY <1>3, <1>7, BindStep
<1>8. CASE AcceptPort(t, "accept_event", "event", "accept_video")
  BY <1>8, AcceptStep
<1>9. CASE AcceptPort(t, "accept_video", "video", "sleep")
  BY <1>9, AcceptStep
<1> QED BY <1>2, <1>6, <1>7, <1>8, <1>9 DEF fuji_accept_remote_ports_thread

\* The application connects to a port.
LEMMA ConnectPortStep ==
    ASSUME WifiInv, ConnectPort
    PROVE  WifiInv'
<1>1. PICK port \in Ports : backlog' = [backlog EXCEPT ![port] = 1]
  BY DEF ConnectPort
<1>2. alive /\ UNCHANGED <<alive, threads, refused, jpeg, frames>>
  BY DEF ConnectPort
<1>3. CardInv' /\ GateInv' /\ EventsInv'
  BY ThreadKeeps DEF ConnectPort
<1>4. FramesInv'
  BY <1>1, <1>2 DEF WifiInv, RemoteInv, FramesInv
<1>5. PortsInv'
  BY <1>2 DEF WifiInv, RemoteInv, PortsInv, Elsewhere
<1>6. AbortsExplained' /\ alive' \in BOOLEAN
  BY <1>2 DEF AbortsExplained, WifiInv, RemoteInv
<1> QED BY <1>3, <1>4, <1>5, <1>6 DEF WifiInv, RemoteInv

-----------------------------------------------------------------------------
(* Connections and the theorems *)

\* The next client starts with nothing granted and nothing described.
LEMMA ConnectStep ==
    ASSUME WifiInv, Connect
    PROVE  WifiInv'
<1>1. /\ session' = FALSE /\ steps' = {} /\ current' = 0
      /\ asked' = {} /\ described' = 0 /\ Answer("hello", "OK", 0)
      /\ alive /\ UNCHANGED <<kind, dirents, ptp_objectid, events, waited, alive,
                               threads, backlog, refused, jpeg, frames>>
  BY DEF Connect, fuji_reset_image_import_state, card
<1>2. CardInv' /\ EventsInv'
  BY <1>1 DEF WifiInv, CardInv, EventsInv
<1>4. RemoteInv'
  BY <1>1, RemoteSame DEF WifiInv, RemoteInv
<1>5. PreludeEarned' /\ ThumbIsDescribed'
  BY <1>1, PlainAnswer
<1>6. session' \in BOOLEAN
  BY <1>1, Zenon
<1>7. PreludeOrdered'
  BY <1>1 DEF PreludeOrdered
<1>8. current' \in 0 .. ptp_objectid'
  BY <1>1 DEF WifiInv, CardInv
<1>9. GateInv'
  BY <1>1, <1>5, <1>6, <1>7, <1>8 DEF GateInv
<1> QED BY <1>2, <1>4, <1>9 DEF WifiInv

\* The list of a scanned card: handles are given out from the end of the list,
\* which has the two directories.
LEMMA CardListed ==
    ASSUME NEW dates \in Seq(Nat)
    PROVE  /\ CardOf(dates) \in Seq(DirEntry) /\ Len(CardOf(dates)) = Len(dates) + 2
           /\ \A i \in 1 .. Len(dates) + 2 :
                 /\ CardOf(dates)[i].id = Len(dates) + 2 - i
                 /\ i > Len(dates) => CardOf(dates)[i].dir
<1> DEFINE n == Len(dates)
           E(i) == Entry(n + 2 - i, FALSE, dates[n + 1 - i])
           dcim == Entry(1, TRUE, 0)
           root == Entry(0, TRUE, 0)
           F == [i \in 1 .. n |-> E(i)]
           G == <<dcim, root>>
<1>1. n \in Nat
  OBVIOUS
<1>2. ASSUME NEW id \in Nat, NEW dir \in BOOLEAN, NEW date \in Nat
      PROVE  Entry(id, dir, date) \in DirEntry /\ Entry(id, dir, date).id = id
  BY DEF Entry, DirEntry
<1>3. TRUE \in BOOLEAN /\ FALSE \in BOOLEAN
  BY Zenon
<1>4. /\ dcim \in DirEntry /\ dcim.id = 1 /\ root \in DirEntry /\ root.id = 0
      /\ dcim.dir /\ root.dir
  <2>1. dcim.dir /\ root.dir
    BY DEF Entry
  <2> QED BY <1>2, <1>3, <2>1
<1>5. ASSUME NEW i \in 1 .. n
      PROVE  E(i) \in DirEntry /\ E(i).id = n + 2 - i
  <2>1. n + 2 - i \in Nat /\ n + 1 - i \in 1 .. n
    BY <1>1
  <2>2. dates[n + 1 - i] \in Nat
    BY <2>1
  <2> QED BY <1>2, <1>3, <2>1, <2>2
<1> HIDE DEF dcim, root, E, n
<1>6. F \in Seq(DirEntry) /\ Len(F) = n
  BY <1>1, <1>5
<1>7. \A i \in 1 .. n : F[i].id = n + 2 - i
  BY <1>5
<1>8. G \in Seq(DirEntry) /\ Len(G) = 2 /\ G[1] = dcim /\ G[2] = root
  BY <1>4
<1>9. CardOf(dates) = F \o G
  BY DEF CardOf, n, E, dcim, root
<1> HIDE DEF F, G
<1>10. /\ F \o G \in Seq(DirEntry) /\ Len(F \o G) = n + 2
       /\ \A i \in 1 .. n + 2 : (F \o G)[i] = IF i <= n THEN F[i] ELSE G[i - n]
  <2>1. /\ F \o G \in Seq(DirEntry) /\ Len(F \o G) = Len(F) + Len(G)
        /\ \A i \in 1 .. Len(F) + Len(G) :
              (F \o G)[i] = IF i <= Len(F) THEN F[i] ELSE G[i - Len(F)]
    BY <1>6, <1>8, ConcatProperties
  <2> QED BY <1>6, <1>8, <2>1
<1>11. ASSUME NEW i \in 1 .. n + 2
       PROVE  (F \o G)[i].id = n + 2 - i /\ (i > n => (F \o G)[i].dir)
  <2>1. CASE i <= n
    <3>1. i \in 1 .. n
      BY <1>1, <2>1
    <3>2. (F \o G)[i] = F[i]
      BY <1>10, <2>1
    <3> QED BY <1>1, <1>7, <2>1, <3>1, <3>2
  <2>2. CASE i = n + 1
    <3>1. (F \o G)[i] = G[1] /\ n + 2 - i = 1
      BY <1>1, <1>10, <2>2
    <3> QED BY <1>4, <1>8, <3>1
  <2>3. CASE i = n + 2
    <3>1. (F \o G)[i] = G[2] /\ n + 2 - i = 0
      BY <1>1, <1>10, <2>3
    <3> QED BY <1>4, <1>8, <3>1
  <2>4. i <= n \/ i = n + 1 \/ i = n + 2
    BY <1>1
  <2> QED BY <2>1, <2>2, <2>3, <2>4
<1> QED BY <1>9, <1>10, <1>11 DEF n

\* The invariant holds at start-up.
LEMMA WifiInit ==
    ASSUME Init
    PROVE  WifiInv
<1>1. PICK dates \in Cards[mode], large \in BOOLEAN :
        dirents = IF kind = "gfx"
                    THEN fuji_setup_gfx100ii_fixtures(CardOf(dates), large)
                    ELSE CardOf(dates)
  <2>1. ASSUME NEW dates PROVE (dates # <<>>) \in BOOLEAN /\ FALSE \in BOOLEAN
    BY Zenon
  <2> QED BY <2>1 DEF Init, fuji_init_cam
<1>2. dates \in Seq(Nat) /\ Len(dates) \in Nat
  BY ConstantsAssumption DEF Init
<1>3. /\ CardOf(dates) \in Seq(DirEntry) /\ Len(CardOf(dates)) = Len(dates) + 2
      /\ \A i \in 1 .. Len(dates) + 2 : CardOf(dates)[i].id \in 0 .. Len(dates) + 1
  <2>1. /\ CardOf(dates) \in Seq(DirEntry) /\ Len(CardOf(dates)) = Len(dates) + 2
        /\ \A i \in 1 .. Len(dates) + 2 : CardOf(dates)[i].id = Len(dates) + 2 - i
    BY <1>2, CardListed
  <2>2. \A i \in 1 .. Len(dates) + 2 : Len(dates) + 2 - i \in 0 .. Len(dates) + 1
    BY <1>2
  <2> QED BY <2>1, <2>2
<1>4. kind \in Kinds /\ ptp_objectid = Len(dirents)
  BY DEF Init, fuji_init_cam
<1>5. CardInv
  <2> DEFINE list == CardOf(dates)
             e == Entry(Len(list), FALSE, 1)
  <2>1. dirents = list \/ dirents = <<e>> \o list
    BY <1>1 DEF fuji_setup_gfx100ii_fixtures
  <2>2. e \in DirEntry /\ e.id = Len(list)
    <3>1. FALSE \in BOOLEAN
      BY Zenon
    <3>2. Len(list) \in Nat
      BY <1>2, <1>3
    <3> QED BY <3>1, <3>2 DEF Entry, DirEntry
  <2>3. /\ list \in Seq(DirEntry) /\ Len(list) \in Nat
        /\ \A i \in 1 .. Len(list) : list[i].id \in 0 .. Len(list)
    BY <1>2, <1>3
  <2> HIDE DEF e, list
  <2>4. CASE dirents = list
    BY <1>4, <2>3, <2>4 DEF CardInv
  <2>5. CASE dirents = <<e>> \o list
    <3>1. <<e>> \in Seq(DirEntry) /\ Len(<<e>>) = 1 /\ <<e>>[1] = e
      BY <2>2
    <3>2. /\ dirents \in Seq(DirEntry) /\ Len(dirents) = 1 + Len(list)
          /\ \A i \in 1 .. 1 + Len(list) :
                dirents[i] = IF i <= 1 THEN <<e>>[i] ELSE list[i - 1]
      BY <2>3, <2>5, <3>1, ConcatProperties
    <3>3. ASSUME NEW i \in 1 .. Len(dirents)
          PROVE  dirents[i].id \in 0 .. Len(dirents)
      <4>1. CASE i = 1
        BY <2>2, <2>3, <3>1, <3>2, <4>1
      <4>2. CASE i # 1
        <5>1. i - 1 \in 1 .. Len(list) /\ dirents[i] = list[i - 1]
          BY <2>3, <3>2, <4>2
        <5> QED BY <2>3, <3>2, <5>1
      <4> QED BY <4>1, <4>2
    <3> QED BY <1>4, <2>3, <3>2, <3>3 DEF CardInv
  <2> QED BY <2>1, <2>4, <2>5
<1>6. GateInv
  <2>1. /\ steps = {} /\ asked = {} /\ current = 0 /\ described = 0
        /\ reply = [op |-> "none", rc |-> "OK", value |-> 0]
    BY DEF Init, fuji_init_cam
  <2>2. reply.op = "none"
    BY <2>1
  <2>3. session \in BOOLEAN
    BY Zenon DEF Init, fuji_init_cam
  <2>4. PreludeEarned /\ PreludeOrdered /\ ThumbIsDescribed
    BY <2>1, <2>2 DEF PreludeEarned, PreludeOrdered, ThumbIsDescribed
  <2> QED BY <1>5, <2>1, <2>3, <2>4 DEF GateInv, CardInv
<1>7. EventsInv
  BY DEF Init, fuji_init_cam, StartEvents, EventsInv
<1>8. RemoteInv
  <2>1. /\ threads = <<>> /\ frames = 0 /\ backlog = [port \in Ports |-> 0]
        /\ refused = {} /\ jpeg \in BOOLEAN
    BY ConstantsAssumption DEF Init
  <2>2. alive \in BOOLEAN /\ alive
    BY Zenon DEF Init
  <2>3. threads \in Seq(ThreadRecord) /\ Len(threads) = 0
    BY <2>1
  <2>4. PortsInv
    BY <2>1, <2>3 DEF PortsInv
  <2>5. FramesInv
    BY <2>1 DEF FramesInv
  <2> QED BY <2>2, <2>4, <2>5 DEF RemoteInv, AbortsExplained
<1> QED BY <1>5, <1>6, <1>7, <1>8 DEF WifiInv

\* No step breaks the invariant.
LEMMA WifiStep ==
    ASSUME WifiInv, [Next]_vars
    PROVE  WifiInv'
<1>1. CASE Connect
  BY <1>1, ConnectStep
<1>2. CASE \/ ptp_fuji_setdevicepropvalue_write_data
           \/ ptp_fuji_getdevicepropvalue_write
  BY <1>2, PropertyWritten, PropertyRead
<1>3. CASE ImageImportObjectCount
  BY <1>3, EnumerationStep DEF ImageImportObjectCount
<1>4. CASE ImageImportObjectHandles
  BY <1>4, EnumerationStep DEF ImageImportObjectHandles
<1>5. CASE ptp_fuji_get_extension_object_info
  BY <1>5, InfoStep
<1>6. CASE ptp_fuji_get_extension_thumb
  BY <1>6, ThumbStep
<1>7. CASE ptp_fuji_get_image_import_folders \/ ptp_fuji_get_image_import_dates
  BY <1>7, PreludeStep
<1>8. CASE ptp_fuji_get_extension_partial_object
  BY <1>8, PartStep
<1>9. CASE ptp_opensession_write \/ ptp_closesession_write
  BY <1>9, SessionStep
<1>10. CASE ChangeCard
  BY <1>10, CardStep
<1>11. CASE TerminateOpenCapture
  BY <1>11, TerminateStep
<1>12. CASE fuji_send_events
  BY <1>12, FetchStep
<1>13. CASE fuji_accept_remote_ports
  BY <1>13, OpenStep
<1>14. CASE ThreadStep
  BY <1>14, ThreadStepKeeps
<1>15. CASE ConnectPort
  BY <1>15, ConnectPortStep
<1>16. CASE UNCHANGED vars
  <2>1. /\ UNCHANGED <<kind, card, session, import, events, client, reply>>
        /\ UNCHANGED <<alive, threads, backlog, refused, jpeg, frames, waited>>
    BY <1>16 DEF vars, remote, ports, client
  <2>2. CardInv' /\ GateInv' /\ EventsInv'
    BY <2>1, ThreadKeeps
  <2>3. PortsInv' /\ FramesInv'
    BY <2>1 DEF WifiInv, RemoteInv, PortsInv, Elsewhere, FramesInv
  <2>4. AbortsExplained' /\ alive' \in BOOLEAN
    BY <2>1 DEF WifiInv, RemoteInv, AbortsExplained, WithoutPort
  <2> QED BY <2>2, <2>3, <2>4 DEF WifiInv, RemoteInv
<1> QED BY <1>1, <1>2, <1>3, <1>4, <1>5, <1>6, <1>7, <1>8, <1>9, <1>10, <1>11, <1>12,
           <1>13, <1>14, <1>15, <1>16 DEF Next

\* The invariant holds in every reachable state.
LEMMA WifiAlways == Spec => []WifiInv
<1>1. Init => WifiInv
  BY WifiInit
<1>2. WifiInv /\ [Next]_vars => WifiInv'
  BY WifiStep
<1> QED BY <1>1, <1>2, PTL DEF Spec

\* The places of a list of length n are n.
LEMMA PlacesCounted ==
    ASSUME NEW n \in Nat
    PROVE  IsFiniteSet(1 .. n) /\ Cardinality(1 .. n) = n
<1>1. /\ IsFiniteSet(1 .. n)
      /\ Cardinality(1 .. n) = IF 1 > n THEN 0 ELSE n - 1 + 1
  BY FS_Interval
<1> QED BY <1>1

\* The type invariant, from the parts of the inductive one.
LEMMA WifiTypes ==
    ASSUME WifiInv
    PROVE  TypeOK
<1>1. DOMAIN dirents = 1 .. Len(dirents) /\ DOMAIN threads = 1 .. Len(threads)
  BY DEF WifiInv, CardInv, RemoteInv, PortsInv
<1>2. ASSUME NEW t \in DOMAIN threads
      PROVE  /\ threads[t].at \in {"event", "video", "accept_event", "accept_video",
                                   "sleep"}
             /\ threads[t].has \subseteq Ports
  <2>1. threads[t] \in ThreadRecord
    BY <1>1 DEF WifiInv, RemoteInv, PortsInv
  <2> QED BY <2>1 DEF ThreadRecord
<1>3. session \in BOOLEAN /\ alive \in BOOLEAN /\ jpeg \in BOOLEAN
  BY DEF WifiInv, GateInv, RemoteInv, FramesInv
<1>4. {session, alive, jpeg} \subseteq BOOLEAN
  BY <1>3, Zenon
<1>5. frames \in Nat /\ backlog \in [Ports -> 0 .. 1] /\ refused \subseteq Ports
  BY DEF WifiInv, RemoteInv, PortsInv, FramesInv
<1> QED BY <1>1, <1>2, <1>4, <1>5 DEF TypeOK, WifiInv, CardInv, GateInv, EventsInv

\* The gate of the image import holds for any card, any number of clients and
\* any order of their requests: whoever is sent the handles or a part of an
\* object has been through the whole prelude, in order, on its own connection.
THEOREM ImportStaysGated == Spec => []ImportGated
<1>1. WifiInv => ImportGated
  BY WifiTypes DEF WifiInv, GateInv, ImportGated
<1> QED BY <1>1, WifiAlways, PTL

\* Remote mode is safe for any number of clients, openings of the ports and
\* requests between two fetches, any size of the event buffer, and any failure to
\* bind: no port is held by two threads, one at most serves live view, and the
\* process ends only on a malformed write, on a list of events that the client
\* has let grow beyond the buffer, or because a thread waits on a port that
\* another one has or that could not be bound.
THEOREM RemoteStaysSafe == Spec => []RemoteSafe
<1>1. WifiInv => RemoteSafe
  <2> SUFFICES ASSUME WifiInv PROVE RemoteSafe
    OBVIOUS
  <2>1. DOMAIN threads = 1 .. Len(threads) /\ frames <= 1
    BY DEF WifiInv, RemoteInv, PortsInv, FramesInv
  <2>2. LiveViewExclusive
    BY <2>1 DEF WifiInv, RemoteInv, PortsInv, LiveViewExclusive
  <2> QED BY <2>2 DEF WifiInv, RemoteInv, RemoteSafe
<1> QED BY <1>1, WifiAlways, PTL

-----------------------------------------------------------------------------
(* The exchange sort *)

\* p is a permutation of 1 .. n with the inverse q.
Permutes(p, q, n) ==
    /\ p \in [1 .. n -> 1 .. n] /\ q \in [1 .. n -> 1 .. n]
    /\ \A i \in 1 .. n : p[q[i]] = i /\ q[p[i]] = i

\* u has the elements of t in another order; the places in front of a are left alone.
Shuffled(u, t, a) ==
    /\ Len(u) = Len(t)
    /\ \E p, q : /\ Permutes(p, q, Len(t))
                 /\ \A i \in 1 .. Len(t) : (i < a => p[i] = i) /\ u[i] = t[p[i]]

\* Nothing was moved yet.
LEMMA ShuffledSelf ==
    ASSUME NEW E, NEW t \in Seq(E), NEW a PROVE Shuffled(t, t, a)
<1> DEFINE p == [i \in 1 .. Len(t) |-> i]
<1>1. Len(t) \in Nat
  OBVIOUS
<1>2. Permutes(p, p, Len(t)) /\ \A i \in 1 .. Len(t) : p[i] = i
  BY <1>1 DEF Permutes
<1> HIDE DEF p
<1> QED BY <1>2 DEF Shuffled

\* What is left alone up to one place is left alone up to an earlier one.
LEMMA ShuffledLess ==
    ASSUME NEW t, NEW u, NEW a \in Int, NEW b \in Int, b <= a, Len(t) \in Nat, Shuffled(u, t, a)
    PROVE  Shuffled(u, t, b)
<1>1. PICK p, q : /\ Permutes(p, q, Len(t))
                  /\ \A i \in 1 .. Len(t) : (i < a => p[i] = i) /\ u[i] = t[p[i]]
  BY DEF Shuffled
<1>2. \A i \in 1 .. Len(t) : (i < b => p[i] = i) /\ u[i] = t[p[i]]
  BY <1>1
<1> QED BY <1>1, <1>2 DEF Shuffled

\* One shuffle after another.
LEMMA ShuffledTwice ==
    ASSUME NEW t, NEW u, NEW v, NEW a \in Int, Len(t) \in Nat, Shuffled(u, t, a), Shuffled(v, u, a)
    PROVE  Shuffled(v, t, a)
<1> DEFINE n == Len(t)
<1>1. PICK p, q : /\ Permutes(p, q, n)
                  /\ \A i \in 1 .. n : (i < a => p[i] = i) /\ u[i] = t[p[i]]
  BY DEF Shuffled
<1>2. PICK r, s : /\ Permutes(r, s, n)
                  /\ \A i \in 1 .. n : (i < a => r[i] = i) /\ v[i] = u[r[i]]
  BY DEF Shuffled
<1>3. Len(v) = n
  BY DEF Shuffled
<1> DEFINE f == [i \in 1 .. n |-> p[r[i]]]
           g == [i \in 1 .. n |-> s[q[i]]]
<1> HIDE DEF n
<1>4. \A i \in 1 .. n : /\ p[i] \in 1 .. n /\ q[i] \in 1 .. n /\ r[i] \in 1 .. n /\ s[i] \in 1 .. n
                        /\ p[q[i]] = i /\ q[p[i]] = i /\ r[s[i]] = i /\ s[r[i]] = i
  BY <1>1, <1>2 DEF Permutes
<1>5. \A i \in 1 .. n : f[i] = p[r[i]] /\ g[i] = s[q[i]] /\ f[i] \in 1 .. n /\ g[i] \in 1 .. n
  BY <1>4
<1>6. f \in [1 .. n -> 1 .. n] /\ g \in [1 .. n -> 1 .. n]
  BY <1>4
<1> HIDE DEF f, g
<1>7. ASSUME NEW i \in 1 .. n PROVE f[g[i]] = i /\ g[f[i]] = i
  <2>1. q[i] \in 1 .. n /\ r[i] \in 1 .. n
    BY <1>4
  <2>2. f[g[i]] = p[r[s[q[i]]]] /\ g[f[i]] = s[q[p[r[i]]]]
    BY <1>5
  <2>3. r[s[q[i]]] = q[i] /\ q[p[r[i]]] = r[i]
    BY <1>4, <2>1
  <2> QED BY <1>4, <2>2, <2>3
<1>8. ASSUME NEW i \in 1 .. n PROVE (i < a => f[i] = i) /\ v[i] = t[f[i]]
  <2>1. r[i] \in 1 .. n /\ f[i] = p[r[i]]
    BY <1>4, <1>5
  <2>2. v[i] = u[r[i]] /\ u[r[i]] = t[p[r[i]]]
    BY <1>1, <1>2, <2>1
  <2>3. i < a => r[i] = i /\ p[i] = i
    BY <1>1, <1>2
  <2> QED BY <2>1, <2>2, <2>3
<1>9. Permutes(f, g, n)
  BY <1>6, <1>7 DEF Permutes
<1> QED BY <1>3, <1>8, <1>9 DEF Shuffled, n

\* Every element behind the places left alone was there before.
LEMMA ShuffledBehind ==
    ASSUME NEW t, NEW u, NEW a \in Int, Len(t) \in Nat, Shuffled(u, t, a)
    PROVE  /\ \A i \in 1 .. Len(t) : i < a => u[i] = t[i]
           /\ \A i \in 1 .. Len(t) : i >= a => \E j \in 1 .. Len(t) : j >= a /\ u[i] = t[j]
<1>1. PICK p, q : /\ Permutes(p, q, Len(t))
                  /\ \A i \in 1 .. Len(t) : (i < a => p[i] = i) /\ u[i] = t[p[i]]
  BY DEF Shuffled
<1>2. ASSUME NEW i \in 1 .. Len(t), i >= a PROVE p[i] \in 1 .. Len(t) /\ p[i] >= a
  <2>1. p[i] \in 1 .. Len(t) /\ q[p[i]] = i
    BY <1>1 DEF Permutes
  <2>2. p[i] < a => p[p[i]] = p[i]
    BY <1>1, <2>1
  <2>3. p[i] < a => q[p[p[i]]] = p[i]
    BY <1>1, <2>1 DEF Permutes
  <2> QED BY <1>2, <2>1, <2>2, <2>3
<1> QED BY <1>1, <1>2

\* v is u after a comparison of the places a and b: they were exchanged or
\* left, and the larger of the two is in front.
Compared(v, u, E, key, a, b) ==
    /\ v \in Seq(E) /\ Len(v) = Len(u)
    /\ key[v[a]] >= key[u[a]] /\ key[v[a]] >= key[v[b]]
    /\ \/ v = u
       \/ /\ v[a] = u[b] /\ v[b] = u[a]
          /\ \A i \in 1 .. Len(u) : i # a /\ i # b => v[i] = u[i]

\* What a comparison does.
LEMMA ExchangeTwo ==
    ASSUME NEW E, NEW key \in [E -> Nat], NEW u \in Seq(E),
           NEW a \in 1 .. Len(u), NEW b \in 1 .. Len(u), a < b
    PROVE  Compared(Exchange(u, key, a, b), u, E, key, a, b)
<1> DEFINE v == Exchange(u, key, a, b)
<1>1. /\ Len(u) \in Nat /\ u[a] \in E /\ u[b] \in E
      /\ key[u[a]] \in Nat /\ key[u[b]] \in Nat
  OBVIOUS
<1>2. CASE key[u[b]] > key[u[a]]
  <2> DEFINE w == [u EXCEPT ![a] = u[b], ![b] = u[a]]
  <2>1. v = w
    BY <1>2 DEF Exchange
  <2> HIDE DEF v
  <2>2. /\ w \in Seq(E) /\ Len(w) = Len(u) /\ w[a] = u[b] /\ w[b] = u[a]
        /\ \A i \in 1 .. Len(u) : i # a /\ i # b => w[i] = u[i]
    BY <1>1
  <2> HIDE DEF w
  <2>3. Compared(v, u, E, key, a, b)
    BY <1>1, <1>2, <2>1, <2>2 DEF Compared
  <2> QED BY <2>3 DEF v
<1>3. CASE ~(key[u[b]] > key[u[a]])
  <2>1. v = u
    BY <1>3 DEF Exchange
  <2> HIDE DEF v
  <2>2. key[u[a]] >= key[u[b]] /\ key[u[a]] >= key[u[a]]
    BY <1>1, <1>3
  <2>3. Compared(v, u, E, key, a, b)
    BY <2>1, <2>2 DEF Compared
  <2> QED BY <2>3 DEF v
<1> QED BY <1>2, <1>3

\* A comparison is one more shuffle.
LEMMA ExchangeShuffles ==
    ASSUME NEW E, NEW key \in [E -> Nat], NEW u \in Seq(E),
           NEW a \in 1 .. Len(u), NEW b \in 1 .. Len(u), a < b
    PROVE  Shuffled(Exchange(u, key, a, b), u, a)
<1> DEFINE v == Exchange(u, key, a, b)
           n == Len(u)
<1>0. Compared(v, u, E, key, a, b)
  BY ExchangeTwo
<1> HIDE DEF v
<1>1. /\ v \in Seq(E) /\ Len(v) = Len(u)
      /\ \/ v = u
         \/ /\ v[a] = u[b] /\ v[b] = u[a]
            /\ \A i \in 1 .. Len(u) : i # a /\ i # b => v[i] = u[i]
  BY <1>0 DEF Compared
<1>2. CASE v = u
  BY <1>2, ShuffledSelf DEF v
<1>3. CASE /\ v[a] = u[b] /\ v[b] = u[a]
           /\ \A i \in 1 .. Len(u) : i # a /\ i # b => v[i] = u[i]
  <2> DEFINE p == [i \in 1 .. n |-> IF i = a THEN b ELSE IF i = b THEN a ELSE i]
  <2>1. n \in Nat /\ a \in 1 .. n /\ b \in 1 .. n
    OBVIOUS
  <2> HIDE DEF n
  <2>2. /\ p[a] = b /\ p[b] = a /\ p \in [1 .. n -> 1 .. n]
        /\ \A i \in 1 .. n : i # a /\ i # b => p[i] = i
    BY <2>1
  <2> HIDE DEF p
  <2>3. Permutes(p, p, n)
    BY <2>1, <2>2 DEF Permutes
  <2>4. \A i \in 1 .. n : (i < a => p[i] = i) /\ v[i] = u[p[i]]
    BY <1>3, <2>1, <2>2 DEF n
  <2> QED BY <1>1, <2>3, <2>4 DEF Shuffled, n, v
<1> QED BY <1>1, <1>2, <1>3

\* f[b] is the sequence after the comparisons up to place b.
IsPass(f, t, key, a) ==
    f = [b \in 0 .. Len(t) |-> IF b <= a THEN t ELSE Exchange(f[b - 1], key, a, b)]

\* A pass takes the last value of such a function.
LEMMA PassChoice ==
    ASSUME NEW t, NEW key, NEW a, \E f : IsPass(f, t, key, a)
    PROVE  \E f : IsPass(f, t, key, a) /\ Pass(t, key, a) = f[Len(t)]
<1> DEFINE h == CHOOSE f : IsPass(f, t, key, a)
<1>1. IsPass(h, t, key, a)
  OBVIOUS
<1>2. Pass(t, key, a) = h[Len(t)]
  BY DEF Pass, IsPass
<1> QED BY <1>1, <1>2

\* There is one.
LEMMA PassExists ==
    ASSUME NEW E, NEW key \in [E -> Nat], NEW t \in Seq(E), NEW a \in 1 .. Len(t)
    PROVE  \E f : IsPass(f, t, key, a)
<1> DEFINE n == Len(t)
           S == {u \in Seq(E) : Len(u) = n}
           Step(b, u) == IF b <= a THEN t ELSE Exchange(u, key, a, b)
           G == [b \in 1 .. n |-> [u \in S |-> Step(b, u)]]
<1>1. n \in Nat /\ t \in S /\ a \in 1 .. n
  OBVIOUS
<1>2. ASSUME NEW b \in 1 .. n, NEW u \in S PROVE Step(b, u) \in S
  <2>1. CASE b <= a
    BY <1>1, <2>1
  <2>2. CASE ~(b <= a)
    <3>1. u \in Seq(E) /\ Len(u) = n /\ a < b /\ a \in 1 .. Len(u) /\ b \in 1 .. Len(u)
      BY <1>1, <2>2
    <3>2. /\ Exchange(u, key, a, b) \in Seq(E)
          /\ Len(Exchange(u, key, a, b)) = Len(u)
      BY <3>1, ExchangeTwo DEF Compared
    <3> QED BY <2>2, <3>1, <3>2
  <2> QED BY <2>1, <2>2
<1> HIDE DEF Step, S, n
<1>3. G \in [1 .. n -> [S -> S]]
  BY <1>2
<1> HIDE DEF G
<1>4. PICK f : Runs(f, S, t, n, G)
  BY <1>1, <1>3, LoopValues
<1>5. ASSUME NEW b \in 0 .. n
      PROVE  f[b] = IF b <= a THEN t ELSE Exchange(f[b - 1], key, a, b)
  <2>1. CASE b = 0
    BY <1>1, <1>4, <2>1 DEF Runs
  <2>2. CASE b # 0
    <3>1. b \in 1 .. n /\ b - 1 \in 0 .. n
      BY <1>1, <2>2
    <3>2. f[b] = G[b][f[b - 1]] /\ f[b - 1] \in S
      BY <1>4, <3>1 DEF Runs
    <3>3. f[b] = Step(b, f[b - 1])
      BY <3>1, <3>2 DEF G
    <3> QED BY <3>3 DEF Step
  <2> QED BY <2>1, <2>2
<1>6. f = [b \in 0 .. n |-> IF b <= a THEN t ELSE Exchange(f[b - 1], key, a, b)]
  BY <1>4, <1>5 DEF Runs
<1> QED BY <1>6 DEF IsPass, n

\* u is t after the comparisons of place a with the places up to b.
Passed(u, t, E, key, a, b) ==
    /\ u \in Seq(E) /\ Shuffled(u, t, a)
    /\ \A j \in a .. b : key[u[a]] >= key[u[j]]

\* A pass brings the largest of the rest to its place.
LEMMA PassResult ==
    ASSUME NEW E, NEW key \in [E -> Nat], NEW t \in Seq(E), NEW a \in 1 .. Len(t)
    PROVE  Passed(Pass(t, key, a), t, E, key, a, Len(t))
<1> DEFINE n == Len(t)
<1>1. n \in Nat /\ a \in 1 .. n /\ a \in Nat
  OBVIOUS
<1>2. PICK f : IsPass(f, t, key, a) /\ Pass(t, key, a) = f[n]
  BY PassChoice, PassExists
<1> HIDE DEF n
<1>3. \A b \in 0 .. n : f[b] = IF b <= a THEN t ELSE Exchange(f[b - 1], key, a, b)
  BY <1>2 DEF IsPass, n
<1> DEFINE T == {b \in Nat : b <= n => Passed(f[b], t, E, key, a, b)}
<1>4. ASSUME NEW b \in Nat, b <= n, b <= a PROVE Passed(f[b], t, E, key, a, b)
  <2>1. f[b] = t
    BY <1>1, <1>3, <1>4
  <2>2. Shuffled(t, t, a)
    BY ShuffledSelf
  <2>3. t[a] \in E /\ key[t[a]] \in Nat /\ \A j \in a .. b : j = a
    BY <1>1, <1>4 DEF n
  <2>4. \A j \in a .. b : key[t[a]] >= key[t[j]]
    BY <2>3
  <2> QED BY <2>1, <2>2, <2>4 DEF Passed
<1>5. 0 \in T
  BY <1>1, <1>4
<1>6. ASSUME NEW b \in Nat, b \in T PROVE b + 1 \in T
  <2> SUFFICES ASSUME b + 1 <= n PROVE Passed(f[b + 1], t, E, key, a, b + 1)
    OBVIOUS
  <2>1. CASE b + 1 <= a
    BY <1>4, <2>1
  <2>2. CASE ~(b + 1 <= a)
    <3> DEFINE u == f[b]
               v == Exchange(u, key, a, b + 1)
    <3>1. Passed(u, t, E, key, a, b)
      BY <1>1, <1>6
    <3>2. f[b + 1] = v
      <4>1. b + 1 \in 0 .. n /\ (b + 1) - 1 = b
        BY <1>1
      <4> QED BY <1>3, <2>2, <4>1
    <3>3. u \in Seq(E) /\ Len(u) = n /\ Shuffled(u, t, a)
      BY <3>1 DEF Passed, Shuffled, n
    <3>4. a \in 1 .. Len(u) /\ b + 1 \in 1 .. Len(u) /\ a < b + 1
      BY <1>1, <2>2, <3>3
    <3> HIDE DEF u
    <3>5. Compared(v, u, E, key, a, b + 1) /\ Shuffled(v, u, a)
      BY <3>3, <3>4, ExchangeTwo, ExchangeShuffles
    <3> HIDE DEF v
    <3>6. v \in Seq(E) /\ Len(v) = n /\ Shuffled(v, t, a)
      BY <1>1, <3>3, <3>5, ShuffledTwice DEF Compared, n
    <3>7. ASSUME NEW j \in a .. b + 1 PROVE key[v[a]] >= key[v[j]]
      <4>1. \A i \in 1 .. n : key[v[i]] \in Nat /\ key[u[i]] \in Nat
        BY <3>3, <3>6
      <4>2. j \in 1 .. n /\ a \in 1 .. n
        BY <1>1
      <4>3. CASE j = a
        BY <4>1, <4>2, <4>3
      <4>4. CASE j = b + 1
        BY <3>5, <4>4 DEF Compared
      <4>5. CASE j # a /\ j # b + 1
        <5>1. v[j] = u[j] /\ key[v[a]] >= key[u[a]]
          BY <3>3, <3>5, <4>2, <4>5 DEF Compared
        <5>2. j \in a .. b
          BY <1>1, <4>5
        <5>3. key[u[a]] >= key[u[j]]
          BY <3>1, <5>2 DEF Passed
        <5> QED BY <4>1, <4>2, <5>1, <5>3
      <4> QED BY <4>3, <4>4, <4>5
    <3> QED BY <3>2, <3>6, <3>7 DEF Passed
  <2> QED BY <2>1, <2>2
<1> HIDE DEF T
<1>7. Nat \subseteq T
  BY <1>5, <1>6, SetInduction
<1>8. Passed(f[n], t, E, key, a, n)
  BY <1>1, <1>7 DEF T
<1> QED BY <1>2, <1>8 DEF n

\* f[a] is the sequence after the passes up to place a.
IsSort(f, s, key) ==
    f = [a \in 0 .. Len(s) |-> IF a = 0 THEN s ELSE Pass(f[a - 1], key, a)]

\* The sort takes the last value of such a function.
LEMMA SortChoice ==
    ASSUME NEW s, NEW key, \E f : IsSort(f, s, key)
    PROVE  \E f : IsSort(f, s, key) /\ ExchangeSort(s, key) = f[Len(s)]
<1> DEFINE h == CHOOSE f : IsSort(f, s, key)
<1>1. IsSort(h, s, key)
  OBVIOUS
<1>2. ExchangeSort(s, key) = h[Len(s)]
  BY DEF ExchangeSort, IsSort
<1> QED BY <1>1, <1>2

\* There is one.
LEMMA SortExists ==
    ASSUME NEW E, NEW key \in [E -> Nat], NEW s \in Seq(E)
    PROVE  \E f : IsSort(f, s, key)
<1> DEFINE n == Len(s)
           S == {u \in Seq(E) : Len(u) = n}
           G == [a \in 1 .. n |-> [u \in S |-> Pass(u, key, a)]]
<1>1. n \in Nat /\ s \in S
  OBVIOUS
<1>2. ASSUME NEW a \in 1 .. n, NEW u \in S PROVE Pass(u, key, a) \in S
  <2>1. u \in Seq(E) /\ Len(u) = n /\ a \in 1 .. Len(u)
    OBVIOUS
  <2>2. Passed(Pass(u, key, a), u, E, key, a, Len(u))
    BY <2>1, PassResult
  <2> QED BY <2>1, <2>2 DEF Passed, Shuffled
<1> HIDE DEF S, n
<1>3. G \in [1 .. n -> [S -> S]]
  BY <1>2
<1> HIDE DEF G
<1>4. PICK f : Runs(f, S, s, n, G)
  BY <1>1, <1>3, LoopValues
<1>5. ASSUME NEW a \in 0 .. n
      PROVE  f[a] = IF a = 0 THEN s ELSE Pass(f[a - 1], key, a)
  <2>1. CASE a = 0
    BY <1>4, <2>1 DEF Runs
  <2>2. CASE a # 0
    <3>1. a \in 1 .. n /\ a - 1 \in 0 .. n
      BY <1>1, <2>2
    <3>2. f[a] = G[a][f[a - 1]] /\ f[a - 1] \in S
      BY <1>4, <3>1 DEF Runs
    <3> QED BY <2>2, <3>1, <3>2 DEF G
  <2> QED BY <2>1, <2>2
<1>6. f = [a \in 0 .. n |-> IF a = 0 THEN s ELSE Pass(f[a - 1], key, a)]
  BY <1>4, <1>5 DEF Runs
<1> QED BY <1>6 DEF IsSort, n

\* u has the elements of s, the ones up to place a in their final order.
SortedUpto(u, s, E, key, a) ==
    /\ u \in Seq(E) /\ Shuffled(u, s, 1)
    /\ \A i \in 1 .. a : \A j \in i .. Len(s) : key[u[i]] >= key[u[j]]

\* The exchange sort sorts.
LEMMA SortResult ==
    ASSUME NEW E, NEW key \in [E -> Nat], NEW s \in Seq(E)
    PROVE  SortedUpto(ExchangeSort(s, key), s, E, key, Len(s))
<1> DEFINE n == Len(s)
<1>1. n \in Nat
  OBVIOUS
<1>2. PICK f : IsSort(f, s, key) /\ ExchangeSort(s, key) = f[n]
  BY SortChoice, SortExists
<1> HIDE DEF n
<1>3. \A a \in 0 .. n : f[a] = IF a = 0 THEN s ELSE Pass(f[a - 1], key, a)
  BY <1>2 DEF IsSort, n
<1> DEFINE T == {a \in Nat : a <= n => SortedUpto(f[a], s, E, key, a)}
<1>4. 0 \in T
  <2>1. f[0] = s
    BY <1>1, <1>3
  <2>2. Shuffled(s, s, 1)
    BY ShuffledSelf
  <2> QED BY <2>1, <2>2 DEF SortedUpto
<1>5. ASSUME NEW a \in Nat, a \in T PROVE a + 1 \in T
  <2> SUFFICES ASSUME a + 1 <= n PROVE SortedUpto(f[a + 1], s, E, key, a + 1)
    OBVIOUS
  <2> DEFINE u == f[a]
             v == Pass(u, key, a + 1)
  <2>1. SortedUpto(u, s, E, key, a)
    BY <1>1, <1>5
  <2>2. f[a + 1] = v
    <3>1. a + 1 \in 0 .. n /\ a + 1 # 0 /\ (a + 1) - 1 = a
      BY <1>1
    <3> QED BY <1>3, <3>1
  <2>3. u \in Seq(E) /\ Len(u) = n /\ Shuffled(u, s, 1)
    BY <2>1 DEF SortedUpto, Shuffled, n
  <2>4. a + 1 \in 1 .. Len(u)
    BY <1>1, <2>3
  <2> HIDE DEF u
  <2>5. Passed(v, u, E, key, a + 1, n)
    BY <2>3, <2>4, PassResult
  <2> HIDE DEF v
  <2>6. v \in Seq(E) /\ Len(v) = n /\ Shuffled(v, u, a + 1)
    BY <2>3, <2>5 DEF Passed, Shuffled
  <2>7. Shuffled(v, u, 1)
    BY <1>1, <2>3, <2>6, ShuffledLess
  <2>8. Shuffled(v, s, 1)
    BY <1>1, <2>3, <2>7, ShuffledTwice DEF n
  <2>9. /\ \A i \in 1 .. n : i < a + 1 => v[i] = u[i]
        /\ \A i \in 1 .. n : i >= a + 1 => \E j \in 1 .. n : j >= a + 1 /\ v[i] = u[j]
    <3>1. /\ \A i \in 1 .. Len(u) : i < a + 1 => v[i] = u[i]
          /\ \A i \in 1 .. Len(u) : i >= a + 1 =>
                \E j \in 1 .. Len(u) : j >= a + 1 /\ v[i] = u[j]
      <4>1. a + 1 \in Int /\ Len(u) \in Nat
        BY <1>1, <2>3
      <4> QED BY <2>6, <4>1, ShuffledBehind
    <3> QED BY <2>3, <3>1
  <2>10. ASSUME NEW i \in 1 .. a + 1, NEW j \in i .. n PROVE key[v[i]] >= key[v[j]]
    <3>1. CASE i = a + 1
      BY <2>5, <3>1 DEF Passed
    <3>2. CASE i # a + 1
      <4>1. i \in 1 .. a /\ i \in 1 .. n /\ i < a + 1 /\ j \in 1 .. n
        BY <1>1, <3>2
      <4>2. PICK k \in i .. n : v[j] = u[k]
        <5>1. CASE j < a + 1
          BY <2>9, <4>1, <5>1
        <5>2. CASE j >= a + 1
          BY <2>9, <4>1, <5>2
        <5> QED BY <1>1, <5>1, <5>2
      <4>3. key[u[i]] >= key[u[k]]
        BY <2>1, <4>1, <4>2 DEF SortedUpto, n
      <4> QED BY <2>9, <4>1, <4>2, <4>3
    <3> QED BY <3>1, <3>2
  <2> QED BY <2>2, <2>6, <2>8, <2>10 DEF SortedUpto, n
<1> HIDE DEF T
<1>6. Nat \subseteq T
  BY <1>4, <1>5, SetInduction
<1>7. SortedUpto(f[n], s, E, key, n)
  BY <1>1, <1>6 DEF T
<1> QED BY <1>2, <1>7 DEF n

\* u has the elements of s, each once, the largest key first.
Descending(u, s, E, key) ==
    /\ u \in Seq(E) /\ Len(u) = Len(s)
    /\ {u[i] : i \in 1 .. Len(u)} = {s[i] : i \in 1 .. Len(s)}
    /\ \A i, j \in 1 .. Len(u) : i < j => key[u[i]] > key[u[j]]

\* No two elements compare equal.
KeysDiffer(s, key) ==
    \A i, j \in 1 .. Len(s) : i # j => key[s[i]] # key[s[j]]

\* The sort of a sequence whose elements have different keys.
LEMMA SortExact ==
    ASSUME NEW E, NEW key \in [E -> Nat], NEW s \in Seq(E), KeysDiffer(s, key)
    PROVE  Descending(ExchangeSort(s, key), s, E, key)
<1> DEFINE n == Len(s)
           u == ExchangeSort(s, key)
<1>1. SortedUpto(u, s, E, key, n) /\ n \in Nat
  BY SortResult
<1> HIDE DEF u
<1>2. u \in Seq(E) /\ Len(u) = n /\ Shuffled(u, s, 1)
  BY <1>1 DEF SortedUpto, Shuffled
<1>3. PICK p, q : Permutes(p, q, n) /\ \A i \in 1 .. n : u[i] = s[p[i]]
  BY <1>2 DEF Shuffled
<1>4. \A i \in 1 .. n : /\ p[i] \in 1 .. n /\ q[i] \in 1 .. n /\ p[q[i]] = i
                        /\ q[p[i]] = i
  BY <1>3 DEF Permutes
<1>5. {u[i] : i \in 1 .. n} = {s[i] : i \in 1 .. n}
  <2>1. ASSUME NEW i \in 1 .. n PROVE u[i] \in {s[j] : j \in 1 .. n}
    <3>1. u[i] = s[p[i]] /\ p[i] \in 1 .. n
      BY <1>3, <1>4
    <3> QED BY <3>1
  <2>2. ASSUME NEW i \in 1 .. n PROVE s[i] \in {u[j] : j \in 1 .. n}
    <3>1. s[i] = u[q[i]] /\ q[i] \in 1 .. n
      BY <1>3, <1>4
    <3> QED BY <3>1
  <2> QED BY <2>1, <2>2
<1>6. ASSUME NEW i \in 1 .. n, NEW j \in 1 .. n, i < j PROVE key[u[i]] > key[u[j]]
  <2>1. key[u[i]] >= key[u[j]]
    <3>1. j \in i .. n
      BY <1>1, <1>6
    <3> QED BY <1>1, <3>1 DEF SortedUpto
  <2>2. p[i] \in 1 .. n /\ p[j] \in 1 .. n /\ p[i] # p[j]
    <3>1. q[p[i]] = i /\ q[p[j]] = j
      BY <1>4
    <3> QED BY <1>4, <1>6, <3>1
  <2>3. key[u[i]] # key[u[j]]
    <3>1. u[i] = s[p[i]] /\ u[j] = s[p[j]]
      BY <1>3
    <3>2. key[s[p[i]]] # key[s[p[j]]]
      BY <2>2 DEF KeysDiffer
    <3> QED BY <3>1, <3>2
  <2>4. key[u[i]] \in Nat /\ key[u[j]] \in Nat
    BY <1>2
  <2> QED BY <2>1, <2>3, <2>4
<1> QED BY <1>2, <1>5, <1>6 DEF Descending, u

-----------------------------------------------------------------------------
(* The files of the card *)

\* Entries have handles of their own, and a file's is not that of the root.
CardDistinct ==
    /\ \A i, j \in 1 .. Len(dirents) : i # j => dirents[i].id # dirents[j].id
    /\ \A i \in 1 .. Len(dirents) : ~dirents[i].dir => dirents[i].id # 0

\* f[i] holds the files among the first i entries of s.
IsMet(f, s) ==
    f = [i \in 0 .. Len(s) |->
            IF i = 0 THEN <<>>
            ELSE IF fuji_is_downloadable_object(s[i])
              THEN Append(f[i - 1], s[i]) ELSE f[i - 1]]

\* The loop over the list takes the last value of such a function.
LEMMA MetChoice ==
    ASSUME \E f : IsMet(f, dirents)
    PROVE  \E f : IsMet(f, dirents) /\ Downloadable = f[Len(dirents)]
<1> DEFINE h == CHOOSE f : IsMet(f, dirents)
<1>1. IsMet(h, dirents)
  OBVIOUS
<1>2. Downloadable = h[Len(dirents)]
  BY DEF Downloadable, IsMet
<1> QED BY <1>1, <1>2

\* There is one.
LEMMA MetExists ==
    ASSUME NEW E, NEW s \in Seq(E)
    PROVE  \E f : IsMet(f, s)
<1> DEFINE n == Len(s)
           Step(i, u) == IF fuji_is_downloadable_object(s[i]) THEN Append(u, s[i]) ELSE u
           G == [i \in 1 .. n |-> [u \in Seq(E) |-> Step(i, u)]]
<1>1. n \in Nat /\ <<>> \in Seq(E)
  OBVIOUS
<1>2. ASSUME NEW i \in 1 .. n, NEW u \in Seq(E) PROVE Step(i, u) \in Seq(E)
  <2>1. s[i] \in E
    OBVIOUS
  <2> QED BY <2>1
<1> HIDE DEF n, Step
<1>3. G \in [1 .. n -> [Seq(E) -> Seq(E)]]
  BY <1>2
<1> HIDE DEF G
<1>4. PICK f : Runs(f, Seq(E), <<>>, n, G)
  BY <1>1, <1>3, LoopValues
<1>5. ASSUME NEW i \in 0 .. n
      PROVE  f[i] = IF i = 0 THEN <<>> ELSE Step(i, f[i - 1])
  <2>1. CASE i = 0
    BY <1>4, <2>1 DEF Runs
  <2>2. CASE i # 0
    <3>1. i \in 1 .. n /\ i - 1 \in 0 .. n
      BY <1>1, <2>2
    <3>2. f[i] = G[i][f[i - 1]] /\ f[i - 1] \in Seq(E)
      BY <1>4, <3>1 DEF Runs
    <3> QED BY <2>2, <3>1, <3>2 DEF G
  <2> QED BY <2>1, <2>2
<1>6. f = [i \in 0 .. n |-> IF i = 0 THEN <<>> ELSE Step(i, f[i - 1])]
  BY <1>4, <1>5 DEF Runs
<1> QED BY <1>6 DEF IsMet, n, Step

\* u has the files of the first i entries, each once.
FilesOf(u, i) ==
    /\ u \in Seq(DirEntry)
    /\ \A k \in 1 .. Len(u) : \E j \in 1 .. i :
          u[k] = dirents[j] /\ fuji_is_downloadable_object(dirents[j])
    /\ \A j \in 1 .. i : fuji_is_downloadable_object(dirents[j]) =>
          \E k \in 1 .. Len(u) : u[k] = dirents[j]
    /\ \A k, l \in 1 .. Len(u) : k # l => u[k].id # u[l].id

\* One more entry of the list.
LEMMA FilesNext ==
    ASSUME dirents \in Seq(DirEntry), CardDistinct, NEW i \in Nat, i + 1 <= Len(dirents),
           NEW u, FilesOf(u, i),
           NEW v, v = IF fuji_is_downloadable_object(dirents[i + 1])
                        THEN Append(u, dirents[i + 1]) ELSE u
    PROVE  FilesOf(v, i + 1)
<1> DEFINE e == dirents[i + 1]
           File(j) == fuji_is_downloadable_object(dirents[j])
<1>1. /\ Len(dirents) \in Nat /\ i + 1 \in 1 .. Len(dirents) /\ e \in DirEntry
      /\ u \in Seq(DirEntry) /\ Len(u) \in Nat
      /\ \A j \in 1 .. i + 1 : j \in 1 .. i \/ j = i + 1
      /\ \A j \in 1 .. i : j \in 1 .. i + 1 /\ j \in 1 .. Len(dirents) /\ j # i + 1
      /\ i + 1 \in 1 .. i + 1
  BY DEF FilesOf
<1> HIDE DEF e, File
<1>2. CASE File(i + 1)
  <2>1. v = Append(u, e)
    BY <1>2 DEF File, e
  <2>2. /\ v \in Seq(DirEntry) /\ Len(v) = Len(u) + 1 /\ v[Len(u) + 1] = e
        /\ \A k \in 1 .. Len(u) : v[k] = u[k]
        /\ \A k \in 1 .. Len(v) : k \in 1 .. Len(u) \/ k = Len(u) + 1
        /\ \A k \in 1 .. Len(u) : k \in 1 .. Len(v)
        /\ Len(u) + 1 \in 1 .. Len(v)
    BY <1>1, <2>1
  <2>3. ASSUME NEW k \in 1 .. Len(v)
        PROVE  \E j \in 1 .. i + 1 : v[k] = dirents[j] /\ File(j)
    <3>1. CASE k \in 1 .. Len(u)
      <4>1. PICK j \in 1 .. i : u[k] = dirents[j] /\ File(j)
        BY <3>1 DEF FilesOf, File
      <4> QED BY <1>1, <2>2, <3>1, <4>1
    <3>2. CASE k = Len(u) + 1
      BY <1>1, <1>2, <2>2, <3>2 DEF e
    <3> QED BY <2>2, <3>1, <3>2
  <2>4. ASSUME NEW j \in 1 .. i + 1, File(j)
        PROVE  \E k \in 1 .. Len(v) : v[k] = dirents[j]
    <3>1. CASE j \in 1 .. i
      <4>1. PICK k \in 1 .. Len(u) : u[k] = dirents[j]
        BY <2>4, <3>1 DEF FilesOf, File
      <4> QED BY <2>2, <4>1
    <3>2. CASE j = i + 1
      BY <2>2, <3>2 DEF e
    <3> QED BY <1>1, <3>1, <3>2
  <2>5. \A k \in 1 .. Len(u) : v[k].id # e.id
    <3> TAKE k \in 1 .. Len(u)
    <3>1. PICK j \in 1 .. i : u[k] = dirents[j]
      BY DEF FilesOf
    <3>2. dirents[j].id # dirents[i + 1].id
      BY <1>1 DEF CardDistinct
    <3> QED BY <2>2, <3>1, <3>2 DEF e
  <2>6. ASSUME NEW k \in 1 .. Len(v), NEW l \in 1 .. Len(v), k # l
        PROVE  v[k].id # v[l].id
    <3>1. CASE k \in 1 .. Len(u) /\ l \in 1 .. Len(u)
      BY <2>2, <2>6, <3>1 DEF FilesOf
    <3>2. CASE k = Len(u) + 1 \/ l = Len(u) + 1
      BY <2>2, <2>5, <2>6, <3>2
    <3> QED BY <2>2, <3>1, <3>2
  <2> QED BY <2>2, <2>3, <2>4, <2>6 DEF FilesOf, File
<1>3. CASE ~File(i + 1)
  <2>1. v = u
    BY <1>3 DEF File
  <2>2. ASSUME NEW k \in 1 .. Len(u)
        PROVE  \E j \in 1 .. i + 1 : u[k] = dirents[j] /\ File(j)
    BY <1>1 DEF FilesOf, File
  <2>3. ASSUME NEW j \in 1 .. i + 1, File(j)
        PROVE  \E k \in 1 .. Len(u) : u[k] = dirents[j]
    BY <1>1, <1>3, <2>3 DEF FilesOf, File
  <2> QED BY <2>1, <2>2, <2>3 DEF FilesOf, File
<1> QED BY <1>2, <1>3

\* The loops over the list meet every file, each once.
LEMMA DownloadableFiles ==
    ASSUME dirents \in Seq(DirEntry), CardDistinct
    PROVE  FilesOf(Downloadable, Len(dirents))
<1> DEFINE n == Len(dirents)
<1>1. n \in Nat
  OBVIOUS
<1>2. PICK f : IsMet(f, dirents) /\ Downloadable = f[n]
  BY MetChoice, MetExists
<1> HIDE DEF n
<1>3. \A i \in 0 .. n :
         f[i] = IF i = 0 THEN <<>>
                ELSE IF fuji_is_downloadable_object(dirents[i])
                  THEN Append(f[i - 1], dirents[i]) ELSE f[i - 1]
  BY <1>2 DEF IsMet, n
<1> DEFINE T == {i \in Nat : i <= n => FilesOf(f[i], i)}
<1>4. 0 \in T
  <2>1. f[0] = <<>>
    BY <1>1, <1>3
  <2>2. FilesOf(<<>>, 0)
    BY DEF FilesOf
  <2> QED BY <2>1, <2>2
<1>5. ASSUME NEW i \in Nat, i \in T PROVE i + 1 \in T
  <2> SUFFICES ASSUME i + 1 <= n PROVE FilesOf(f[i + 1], i + 1)
    OBVIOUS
  <2>1. FilesOf(f[i], i)
    BY <1>1, <1>5
  <2>2. i + 1 \in 0 .. n /\ i + 1 # 0 /\ (i + 1) - 1 = i
    BY <1>1
  <2>3. f[i + 1] = IF fuji_is_downloadable_object(dirents[i + 1])
                     THEN Append(f[i], dirents[i + 1]) ELSE f[i]
    BY <1>3, <2>2
  <2> QED BY <2>1, <2>3, FilesNext DEF n
<1> HIDE DEF T
<1>6. Nat \subseteq T
  BY <1>4, <1>5, SetInduction
<1>7. FilesOf(f[n], n)
  BY <1>1, <1>6 DEF T
<1> QED BY <1>2, <1>7 DEF n

\* As many different values as places that hold them.
LEMMA ValuesCounted ==
    ASSUME NEW I, IsFiniteSet(I), NEW s, \A i, j \in I : s[i] = s[j] => i = j
    PROVE  /\ IsFiniteSet({s[i] : i \in I})
           /\ Cardinality({s[i] : i \in I}) = Cardinality(I)
<1> DEFINE V == {s[i] : i \in I}
           f == [i \in I |-> s[i]]
<1>1. f \in [I -> V] /\ \A i \in I : f[i] = s[i]
  OBVIOUS
<1>2. \A v \in V : \E i \in I : f[i] = v
  OBVIOUS
<1> HIDE DEF f, V
<1>3. f \in Injection(I, V)
  BY <1>1 DEF Injection, IsInjective
<1>4. f \in Surjection(I, V)
  BY <1>1, <1>2 DEF Surjection
<1>5. IsFiniteSet(V) /\ Cardinality(V) = Cardinality(I)
  BY <1>3, <1>4, FS_Surjection
<1> QED BY <1>5 DEF V

\* The files the loops meet are the files of the card.
LEMMA FilesAreJpegs ==
    ASSUME CardInv, CardDistinct, NEW D, D = Downloadable
    PROVE  /\ D \in Seq(DirEntry)
           /\ {D[k] : k \in 1 .. Len(D)} = Jpegs
           /\ \A k, l \in 1 .. Len(D) : k # l => D[k].id # D[l].id
<1>1. dirents \in Seq(DirEntry) /\ DOMAIN dirents = 1 .. Len(dirents)
  BY DEF CardInv
<1>2. FilesOf(D, Len(dirents))
  BY <1>1, DownloadableFiles
<1>3. \A i \in 1 .. Len(dirents) :
         fuji_is_downloadable_object(dirents[i]) <=> ~dirents[i].dir
  BY DEF CardDistinct, fuji_is_downloadable_object
<1>4. \A e : e \in Jpegs <=> \E i \in 1 .. Len(dirents) :
                                e = dirents[i] /\ fuji_is_downloadable_object(dirents[i])
  BY <1>1, <1>3 DEF Jpegs, ToSet
<1>5. ASSUME NEW k \in 1 .. Len(D) PROVE D[k] \in Jpegs
  BY <1>2, <1>4 DEF FilesOf
<1>6. ASSUME NEW e \in Jpegs PROVE \E k \in 1 .. Len(D) : D[k] = e
  <2>1. PICK i \in 1 .. Len(dirents) :
           e = dirents[i] /\ fuji_is_downloadable_object(dirents[i])
    BY <1>4
  <2> QED BY <1>2, <2>1 DEF FilesOf
<1>7. {D[k] : k \in 1 .. Len(D)} = Jpegs
  BY <1>5, <1>6
<1> QED BY <1>2, <1>7 DEF FilesOf

\* The count is the number of files.
LEMMA CountExact ==
    ASSUME CardInv, CardDistinct
    PROVE  fuji_downloadable_object_count = Cardinality(Jpegs)
<1> DEFINE D == Downloadable
<1>1. /\ D \in Seq(DirEntry) /\ {D[k] : k \in 1 .. Len(D)} = Jpegs
      /\ \A k, l \in 1 .. Len(D) : k # l => D[k].id # D[l].id
  BY FilesAreJpegs
<1> HIDE DEF D
<1>2. Len(D) \in Nat
  BY <1>1
<1>3. IsFiniteSet(1 .. Len(D)) /\ Cardinality(1 .. Len(D)) = Len(D)
  BY <1>2, PlacesCounted
<1>4. \A k, l \in 1 .. Len(D) : D[k] = D[l] => k = l
  BY <1>1
<1>5. Cardinality({D[k] : k \in 1 .. Len(D)}) = Len(D)
  BY <1>3, <1>4, ValuesCounted
<1> QED BY <1>1, <1>5 DEF fuji_downloadable_object_count, D

\* The handles are those of the files, the newest first.
LEMMA HandlesExact ==
    ASSUME CardInv, CardDistinct, NEW u, u = fuji_collect_downloadable_handles
    PROVE  /\ ToSet(u) = {e.id : e \in Jpegs}
           /\ \A i, j \in DOMAIN u : i < j => u[i] > u[j]
<1> DEFINE D == Downloadable
           h == [i \in DOMAIN D |-> D[i].id]
           E == ToSet(h)
           key == [x \in E |-> x]
<1>1. /\ D \in Seq(DirEntry) /\ {D[k] : k \in 1 .. Len(D)} = Jpegs
      /\ \A k, l \in 1 .. Len(D) : k # l => D[k].id # D[l].id
  BY FilesAreJpegs
<1>2. u = ExchangeSort(h, key)
  BY DEF fuji_collect_downloadable_handles
<1> HIDE DEF D
<1>3. DOMAIN D = 1 .. Len(D) /\ Len(D) \in Nat /\ \A k \in 1 .. Len(D) : D[k].id \in Nat
  <2>1. DOMAIN D = 1 .. Len(D) /\ Len(D) \in Nat /\ \A k \in 1 .. Len(D) : D[k] \in DirEntry
    BY <1>1
  <2>2. \A e \in DirEntry : e.id \in Nat
    BY DEF DirEntry
  <2> QED BY <2>1, <2>2
<1>4. h \in Seq(Nat) /\ Len(h) = Len(D) /\ \A k \in 1 .. Len(D) : h[k] = D[k].id
  BY <1>3
<1> HIDE DEF h
<1>5. /\ E = {h[i] : i \in 1 .. Len(h)} /\ E \subseteq Nat /\ h \in Seq(E)
  BY <1>4, SeqOfElements
<1> HIDE DEF E
<1>6. key \in [E -> Nat] /\ \A x \in E : key[x] = x
  BY <1>5
<1> HIDE DEF key
<1>7. KeysDiffer(h, key)
  <2>1. \A i \in 1 .. Len(h) : h[i] \in E
    BY <1>5
  <2> QED BY <1>1, <1>4, <1>6, <2>1 DEF KeysDiffer
<1>8. /\ u \in Seq(E) /\ Len(u) = Len(h)
      /\ {u[i] : i \in 1 .. Len(u)} = {h[i] : i \in 1 .. Len(h)}
      /\ \A i, j \in 1 .. Len(u) : i < j => key[u[i]] > key[u[j]]
  <2>1. Descending(u, h, E, key)
    BY <1>2, <1>5, <1>6, <1>7, SortExact
  <2> QED BY <2>1 DEF Descending
<1>9. DOMAIN u = 1 .. Len(u) /\ \A i \in 1 .. Len(u) : u[i] \in E
  BY <1>8
<1>10. \A i, j \in DOMAIN u : i < j => u[i] > u[j]
  BY <1>6, <1>8, <1>9
<1>11. ToSet(u) = {h[i] : i \in 1 .. Len(h)}
  BY <1>8, <1>9 DEF ToSet
<1>12. {h[i] : i \in 1 .. Len(h)} = {e.id : e \in Jpegs}
  <2>1. ASSUME NEW i \in 1 .. Len(h) PROVE h[i] \in {e.id : e \in Jpegs}
    <3>1. h[i] = D[i].id /\ D[i] \in Jpegs
      BY <1>1, <1>4
    <3> QED BY <3>1
  <2>2. ASSUME NEW e \in Jpegs PROVE e.id \in {h[i] : i \in 1 .. Len(h)}
    <3>1. PICK k \in 1 .. Len(D) : D[k] = e
      BY <1>1
    <3> QED BY <1>4, <3>1
  <2> QED BY <2>1, <2>2
<1> QED BY <1>10, <1>11, <1>12

-----------------------------------------------------------------------------
(* The dates of the card *)

DateEntry == [date : Nat, count : Nat]

\* What AddDate makes of the list: counted, left out, or added.
Counted(v, R, e) ==
    \E k \in 1 .. Len(R) : R[k].date = e.date /\ v = [R EXCEPT ![k].count = @ + 1]

NotListed(R, e) == \A k \in 1 .. Len(R) : R[k].date # e.date

LEMMA AddDateCases ==
    ASSUME NEW R \in Seq(DateEntry), NEW e, MaxDates \in Nat
    PROVE  \/ Counted(AddDate(R, e), R, e)
           \/ NotListed(R, e) /\ Len(R) >= MaxDates /\ AddDate(R, e) = R
           \/ /\ NotListed(R, e) /\ Len(R) < MaxDates
              /\ AddDate(R, e) = Append(R, [date |-> e.date, count |-> 1])
<1> DEFINE found == {i \in DOMAIN R : R[i].date = e.date}
<1>1. DOMAIN R = 1 .. Len(R) /\ Len(R) \in Nat
  OBVIOUS
<1>2. CASE found # {}
  <2> DEFINE k == CHOOSE i \in found : TRUE
  <2>1. k \in found
    BY <1>2
  <2>2. AddDate(R, e) = [R EXCEPT ![k].count = @ + 1]
    BY <1>2 DEF AddDate
  <2>3. k \in 1 .. Len(R) /\ R[k].date = e.date
    BY <1>1, <2>1
  <2> HIDE DEF k, found
  <2> QED BY <2>2, <2>3 DEF Counted
<1>3. CASE found = {} /\ Len(R) >= MaxDates
  <2>1. NotListed(R, e)
    BY <1>1, <1>3 DEF NotListed
  <2>2. AddDate(R, e) = R
    BY <1>3 DEF AddDate
  <2> QED BY <1>3, <2>1, <2>2
<1>4. CASE found = {} /\ ~(Len(R) >= MaxDates)
  <2>1. NotListed(R, e)
    BY <1>1, <1>4 DEF NotListed
  <2>2. AddDate(R, e) = Append(R, [date |-> e.date, count |-> 1])
    BY <1>4 DEF AddDate
  <2>3. Len(R) < MaxDates
    BY <1>1, <1>4
  <2> QED BY <2>1, <2>2, <2>3
<1> QED BY <1>2, <1>3, <1>4

\* The files with a date among the first i.
Dated(D, i, d) == {j \in 1 .. i : D[j].date = d}

\* They can be counted.
LEMMA DatedFinite ==
    ASSUME NEW D, NEW i \in Nat, NEW d
    PROVE  IsFiniteSet(Dated(D, i, d)) /\ Cardinality(Dated(D, i, d)) \in Nat
<1>1. IsFiniteSet(1 .. i)
  BY PlacesCounted
<1>2. Dated(D, i, d) \in SUBSET (1 .. i)
  BY DEF Dated
<1> QED BY <1>1, <1>2, FS_Subset, FS_CardinalityType

\* One more file with the date.
LEMMA DatedMore ==
    ASSUME NEW D, NEW i \in Nat, NEW d, D[i + 1].date = d
    PROVE  Cardinality(Dated(D, i + 1, d)) = Cardinality(Dated(D, i, d)) + 1
<1> DEFINE S == Dated(D, i, d)
<1>1. IsFiniteSet(S)
  BY DatedFinite
<1>2. i + 1 \notin S
  BY DEF Dated
<1>3. Dated(D, i + 1, d) = S \cup {i + 1}
  BY DEF Dated
<1> HIDE DEF S
<1>4. Cardinality(S \cup {i + 1}) = Cardinality(S) + 1
  BY <1>1, <1>2, FS_AddElement
<1> QED BY <1>3, <1>4 DEF S

\* One more file with another date.
LEMMA DatedSame ==
    ASSUME NEW D, NEW i \in Nat, NEW d, D[i + 1].date # d
    PROVE  Cardinality(Dated(D, i + 1, d)) = Cardinality(Dated(D, i, d))
<1>1. Dated(D, i + 1, d) = Dated(D, i, d)
  BY DEF Dated
<1> QED BY <1>1

\* R lists the dates of the first i files of D.
DatesOf(R, D, i) ==
    /\ R \in Seq(DateEntry) /\ Len(R) <= MaxDates
    /\ \A k, l \in 1 .. Len(R) : k # l => R[k].date # R[l].date
    /\ \A k \in 1 .. Len(R) : R[k].count = Cardinality(Dated(D, i, R[k].date))
    /\ \A k \in 1 .. Len(R) : \E j \in 1 .. i : D[j].date = R[k].date
    /\ Len(R) < MaxDates => \A j \in 1 .. i : \E k \in 1 .. Len(R) : R[k].date = D[j].date

\* The date is listed: its count goes up by one.
LEMMA DateCounted ==
    ASSUME MaxDates \in Nat, NEW D, NEW i \in Nat, NEW R, DatesOf(R, D, i),
           NEW v, Counted(v, R, D[i + 1])
    PROVE  DatesOf(v, D, i + 1)
<1> DEFINE d == D[i + 1].date
<1>1. PICK x \in 1 .. Len(R) : R[x].date = d /\ v = [R EXCEPT ![x].count = @ + 1]
  BY DEF Counted
<1>2. /\ R \in Seq(DateEntry) /\ Len(R) \in Nat
      /\ \A k \in 1 .. Len(R) : R[k] \in DateEntry
      /\ \A k \in 1 .. Len(R) : R[k].date \in Nat /\ R[k].count \in Nat
  <2>1. \A y \in DateEntry : y.date \in Nat /\ y.count \in Nat
    BY DEF DateEntry
  <2>2. R \in Seq(DateEntry)
    BY DEF DatesOf
  <2>3. Len(R) \in Nat /\ \A k \in 1 .. Len(R) : R[k] \in DateEntry
    BY <2>2
  <2> QED BY <2>1, <2>2, <2>3
<1> DEFINE y == [R[x] EXCEPT !.count = R[x].count + 1]
<1>3. y \in DateEntry /\ y.date = R[x].date /\ y.count = R[x].count + 1
  <2>1. ASSUME NEW z \in DateEntry, NEW c \in Nat
        PROVE  /\ [z EXCEPT !.count = c] \in DateEntry
               /\ [z EXCEPT !.count = c].date = z.date /\ [z EXCEPT !.count = c].count = c
    BY DEF DateEntry
  <2>2. R[x] \in DateEntry /\ R[x].count + 1 \in Nat
    BY <1>2
  <2> QED BY <2>1, <2>2
<1>4. v = [R EXCEPT ![x] = y]
  BY <1>1
<1> HIDE DEF y
<1>5. /\ v \in Seq(DateEntry) /\ Len(v) = Len(R) /\ v[x] = y
      /\ \A k \in 1 .. Len(R) : k # x => v[k] = R[k]
  BY <1>2, <1>3, <1>4
<1>6. \A k \in 1 .. Len(R) : v[k].date = R[k].date
  BY <1>3, <1>5
<1>7. ASSUME NEW k \in 1 .. Len(R)
      PROVE  v[k].count = Cardinality(Dated(D, i + 1, v[k].date))
  <2>1. R[k].count = Cardinality(Dated(D, i, R[k].date))
    BY DEF DatesOf
  <2>2. CASE k = x
    <3>1. Cardinality(Dated(D, i + 1, d)) = Cardinality(Dated(D, i, d)) + 1
      BY DatedMore
    <3> QED BY <1>1, <1>3, <1>5, <1>6, <2>1, <2>2, <3>1
  <2>3. CASE k # x
    <3>1. R[k].date # d
      BY <1>1, <2>3 DEF DatesOf
    <3>2. Cardinality(Dated(D, i + 1, R[k].date)) = Cardinality(Dated(D, i, R[k].date))
      BY <3>1, DatedSame
    <3> QED BY <1>5, <2>1, <2>3, <3>2
  <2> QED BY <2>2, <2>3
<1>8. ASSUME NEW k \in 1 .. Len(R)
      PROVE  \E j \in 1 .. i + 1 : D[j].date = v[k].date
  <2>1. PICK j \in 1 .. i : D[j].date = R[k].date
    BY DEF DatesOf
  <2> QED BY <1>6, <2>1
<1>9. ASSUME Len(R) < MaxDates, NEW j \in 1 .. i + 1
      PROVE  \E k \in 1 .. Len(R) : v[k].date = D[j].date
  <2>1. CASE j \in 1 .. i
    <3>1. PICK k \in 1 .. Len(R) : R[k].date = D[j].date
      BY <1>9, <2>1 DEF DatesOf
    <3> QED BY <1>6, <3>1
  <2>2. CASE j = i + 1
    BY <1>1, <1>6, <2>2
  <2> QED BY <2>1, <2>2
<1>10. /\ \A k, l \in 1 .. Len(R) : k # l => v[k].date # v[l].date
       /\ Len(R) <= MaxDates
  BY <1>6 DEF DatesOf
<1> QED BY <1>5, <1>7, <1>8, <1>9, <1>10 DEF DatesOf

\* There is no room for the date: the list stays as it is.
LEMMA DateLeftOut ==
    ASSUME MaxDates \in Nat, NEW D, NEW i \in Nat, NEW R, DatesOf(R, D, i),
           NotListed(R, D[i + 1]), Len(R) >= MaxDates
    PROVE  DatesOf(R, D, i + 1)
<1>1. R \in Seq(DateEntry) /\ Len(R) <= MaxDates /\ Len(R) \in Nat
  BY DEF DatesOf
<1>2. ASSUME NEW k \in 1 .. Len(R)
      PROVE  R[k].count = Cardinality(Dated(D, i + 1, R[k].date))
  <2>1. R[k].date # D[i + 1].date
    BY DEF NotListed
  <2>2. Cardinality(Dated(D, i + 1, R[k].date)) = Cardinality(Dated(D, i, R[k].date))
    BY <2>1, DatedSame
  <2> QED BY <2>2 DEF DatesOf
<1>3. ASSUME NEW k \in 1 .. Len(R)
      PROVE  \E j \in 1 .. i + 1 : D[j].date = R[k].date
  <2>1. PICK j \in 1 .. i : D[j].date = R[k].date
    BY DEF DatesOf
  <2> QED BY <2>1
<1>4. ~(Len(R) < MaxDates)
  BY <1>1
<1> QED BY <1>1, <1>2, <1>3, <1>4 DEF DatesOf

\* There is room: the date has one file so far.
LEMMA DateAdded ==
    ASSUME MaxDates \in Nat, NEW D, NEW i \in Nat, D[i + 1].date \in Nat,
           NEW R, DatesOf(R, D, i), NotListed(R, D[i + 1]), Len(R) < MaxDates,
           NEW v, v = Append(R, [date |-> D[i + 1].date, count |-> 1])
    PROVE  DatesOf(v, D, i + 1)
<1> DEFINE d == D[i + 1].date
           y == [date |-> d, count |-> 1]
           n == Len(R)
<1>1. R \in Seq(DateEntry) /\ n \in Nat
  BY DEF DatesOf
<1>2. y \in DateEntry /\ y.date = d /\ y.count = 1
  BY DEF DateEntry
<1>3. v = Append(R, y)
  OBVIOUS
<1> HIDE DEF y
<1>4. /\ v \in Seq(DateEntry) /\ Len(v) = n + 1 /\ v[n + 1] = y
      /\ \A k \in 1 .. n : v[k] = R[k]
  BY <1>1, <1>2, <1>3
<1>5. /\ \A k \in 1 .. n + 1 : k \in 1 .. n \/ k = n + 1
      /\ \A k \in 1 .. n : k \in 1 .. n + 1
      /\ n + 1 \in 1 .. n + 1 /\ n + 1 <= MaxDates
      /\ \A j \in 1 .. i + 1 : j \in 1 .. i \/ j = i + 1
      /\ \A j \in 1 .. i : j \in 1 .. i + 1
      /\ i + 1 \in 1 .. i + 1
  BY <1>1
<1>6. \A k \in 1 .. n : R[k].date # d
  BY DEF NotListed
<1>7. \A j \in 1 .. i : D[j].date # d
  <2> TAKE j \in 1 .. i
  <2>1. PICK k \in 1 .. n : R[k].date = D[j].date
    BY DEF DatesOf
  <2> QED BY <1>6, <2>1
<1> HIDE DEF n
<1>8. Cardinality(Dated(D, i + 1, d)) = 1
  <2>1. Dated(D, i, d) = {}
    BY <1>7 DEF Dated
  <2>2. Cardinality(Dated(D, i, d)) = 0
    BY <2>1, FS_EmptySet
  <2>3. Cardinality(Dated(D, i + 1, d)) = Cardinality(Dated(D, i, d)) + 1
    BY DatedMore
  <2> QED BY <2>2, <2>3
<1>9. ASSUME NEW k \in 1 .. n + 1
      PROVE  /\ v[k].count = Cardinality(Dated(D, i + 1, v[k].date))
             /\ \E j \in 1 .. i + 1 : D[j].date = v[k].date
  <2>1. CASE k \in 1 .. n
    <3>1. /\ R[k].count = Cardinality(Dated(D, i, R[k].date))
          /\ \E j \in 1 .. i : D[j].date = R[k].date
      BY <2>1 DEF DatesOf, n
    <3>2. Cardinality(Dated(D, i + 1, R[k].date)) = Cardinality(Dated(D, i, R[k].date))
      BY <1>6, <2>1, DatedSame
    <3> QED BY <1>4, <1>5, <2>1, <3>1, <3>2
  <2>2. CASE k = n + 1
    BY <1>2, <1>4, <1>5, <1>8, <2>2
  <2> QED BY <1>5, <2>1, <2>2
<1>10. ASSUME NEW k \in 1 .. n + 1, NEW l \in 1 .. n + 1, k # l
       PROVE  v[k].date # v[l].date
  <2>1. CASE k \in 1 .. n /\ l \in 1 .. n
    BY <1>4, <1>10, <2>1 DEF DatesOf, n
  <2>2. CASE k = n + 1 \/ l = n + 1
    BY <1>2, <1>4, <1>5, <1>6, <1>10, <2>2
  <2> QED BY <1>5, <2>1, <2>2
<1>11. ASSUME NEW j \in 1 .. i + 1
       PROVE  \E k \in 1 .. n + 1 : v[k].date = D[j].date
  <2>1. CASE j \in 1 .. i
    <3>1. PICK k \in 1 .. n : R[k].date = D[j].date
      BY <2>1 DEF DatesOf, n
    <3> QED BY <1>4, <1>5, <3>1
  <2>2. CASE j = i + 1
    BY <1>2, <1>4, <1>5, <2>2
  <2> QED BY <1>5, <2>1, <2>2
<1>12. /\ \A k \in 1 .. Len(v) : v[k].count = Cardinality(Dated(D, i + 1, v[k].date))
       /\ \A k \in 1 .. Len(v) : \E j \in 1 .. i + 1 : D[j].date = v[k].date
  BY <1>4, <1>9
<1>13. /\ \A k, l \in 1 .. Len(v) : k # l => v[k].date # v[l].date
       /\ \A j \in 1 .. i + 1 : \E k \in 1 .. Len(v) : v[k].date = D[j].date
  BY <1>4, <1>10, <1>11
<1>14. v \in Seq(DateEntry) /\ Len(v) <= MaxDates
  BY <1>4, <1>5
<1> QED BY <1>12, <1>13, <1>14 DEF DatesOf

\* f[i] is the list after i files of D.
IsSeen(f, D) == f = [i \in 0 .. Len(D) |-> IF i = 0 THEN <<>> ELSE AddDate(f[i - 1], D[i])]

\* The loop over the files takes the last value of such a function.
LEMMA SeenChoice ==
    ASSUME \E f : IsSeen(f, Downloadable)
    PROVE  \E f : IsSeen(f, Downloadable) /\ FujiImportDates = f[Len(Downloadable)]
<1> DEFINE h == CHOOSE f : IsSeen(f, Downloadable)
<1>1. IsSeen(h, Downloadable)
  OBVIOUS
<1>2. FujiImportDates = h[Len(Downloadable)]
  BY DEF FujiImportDates, IsSeen
<1> QED BY <1>1, <1>2

\* A list of dates stays one.
LEMMA AddDateType ==
    ASSUME MaxDates \in Nat, NEW R \in Seq(DateEntry), NEW e, e.date \in Nat
    PROVE  AddDate(R, e) \in Seq(DateEntry)
<1>1. CASE Counted(AddDate(R, e), R, e)
  <2>1. PICK k \in 1 .. Len(R) : AddDate(R, e) = [R EXCEPT ![k].count = @ + 1]
    BY <1>1 DEF Counted
  <2>2. ASSUME NEW z \in DateEntry, NEW c \in Nat
        PROVE  [z EXCEPT !.count = c] \in DateEntry
    BY DEF DateEntry
  <2>3. R[k] \in DateEntry
    OBVIOUS
  <2>4. R[k].count + 1 \in Nat
    BY <2>3 DEF DateEntry
  <2> DEFINE y == [R[k] EXCEPT !.count = R[k].count + 1]
  <2>5. y \in DateEntry /\ AddDate(R, e) = [R EXCEPT ![k] = y]
    BY <2>1, <2>2, <2>3, <2>4
  <2> HIDE DEF y
  <2> QED BY <2>5
<1>2. CASE AddDate(R, e) = R
  BY <1>2
<1>3. CASE AddDate(R, e) = Append(R, [date |-> e.date, count |-> 1])
  <2>1. [date |-> e.date, count |-> 1] \in DateEntry
    BY DEF DateEntry
  <2> QED BY <1>3, <2>1
<1> QED BY <1>1, <1>2, <1>3, AddDateCases

\* There is a list after each file.
LEMMA SeenExists ==
    ASSUME MaxDates \in Nat, NEW D \in Seq(DirEntry)
    PROVE  \E f : IsSeen(f, D)
<1> DEFINE n == Len(D)
           S == Seq(DateEntry)
           G == [i \in 1 .. n |-> [R \in S |-> AddDate(R, D[i])]]
<1>1. n \in Nat /\ <<>> \in S
  OBVIOUS
<1>2. ASSUME NEW i \in 1 .. n, NEW R \in S PROVE AddDate(R, D[i]) \in S
  <2>1. D[i] \in DirEntry
    OBVIOUS
  <2>2. D[i].date \in Nat
    BY <2>1 DEF DirEntry
  <2> QED BY <2>2, AddDateType
<1> HIDE DEF n, S
<1>3. G \in [1 .. n -> [S -> S]]
  BY <1>2
<1> HIDE DEF G
<1>4. PICK f : Runs(f, S, <<>>, n, G)
  BY <1>1, <1>3, LoopValues
<1>5. ASSUME NEW i \in 0 .. n
      PROVE  f[i] = IF i = 0 THEN <<>> ELSE AddDate(f[i - 1], D[i])
  <2>1. CASE i = 0
    BY <1>4, <2>1 DEF Runs
  <2>2. CASE i # 0
    <3>1. i \in 1 .. n /\ i - 1 \in 0 .. n
      BY <1>1, <2>2
    <3>2. f[i] = G[i][f[i - 1]] /\ f[i - 1] \in S
      BY <1>4, <3>1 DEF Runs
    <3> QED BY <2>2, <3>1, <3>2 DEF G
  <2> QED BY <2>1, <2>2
<1>6. f = [i \in 0 .. n |-> IF i = 0 THEN <<>> ELSE AddDate(f[i - 1], D[i])]
  BY <1>4, <1>5 DEF Runs
<1> QED BY <1>6 DEF IsSeen, n

\* The loop lists the dates of all files, as far as there is room.
LEMMA DatesCollected ==
    ASSUME MaxDates \in Nat, Downloadable \in Seq(DirEntry)
    PROVE  DatesOf(FujiImportDates, Downloadable, Len(Downloadable))
<1> DEFINE D == Downloadable
           n == Len(D)
<1>1. D \in Seq(DirEntry) /\ n \in Nat
  OBVIOUS
<1>2. PICK f : IsSeen(f, D) /\ FujiImportDates = f[n]
  BY SeenChoice, SeenExists
<1> HIDE DEF D
<1>3. \A i \in 0 .. n : f[i] = IF i = 0 THEN <<>> ELSE AddDate(f[i - 1], D[i])
  BY <1>2 DEF IsSeen
<1>4. \A i \in 1 .. n : D[i].date \in Nat
  <2>1. \A e \in DirEntry : e.date \in Nat
    BY DEF DirEntry
  <2>2. \A i \in 1 .. n : D[i] \in DirEntry
    BY <1>1
  <2> QED BY <2>1, <2>2
<1> HIDE DEF n
<1> DEFINE T == {i \in Nat : i <= n => DatesOf(f[i], D, i)}
<1>5. 0 \in T
  <2>1. f[0] = <<>>
    BY <1>1, <1>3
  <2>2. DatesOf(<<>>, D, 0)
    BY DEF DatesOf
  <2> QED BY <2>1, <2>2
<1>6. ASSUME NEW i \in Nat, i \in T PROVE i + 1 \in T
  <2> SUFFICES ASSUME i + 1 <= n PROVE DatesOf(f[i + 1], D, i + 1)
    OBVIOUS
  <2> DEFINE R == f[i]
  <2>1. DatesOf(R, D, i)
    BY <1>1, <1>6
  <2>2. i + 1 \in 0 .. n /\ i + 1 \in 1 .. n /\ i + 1 # 0 /\ (i + 1) - 1 = i
    BY <1>1
  <2>3. f[i + 1] = AddDate(R, D[i + 1])
    BY <1>3, <2>2
  <2>4. R \in Seq(DateEntry)
    BY <2>1 DEF DatesOf
  <2>5. D[i + 1].date \in Nat
    BY <1>4, <2>2
  <2> HIDE DEF R
  <2>6. CASE Counted(AddDate(R, D[i + 1]), R, D[i + 1])
    BY <2>1, <2>3, <2>6, DateCounted
  <2>7. CASE /\ NotListed(R, D[i + 1]) /\ Len(R) >= MaxDates
             /\ AddDate(R, D[i + 1]) = R
    BY <2>1, <2>3, <2>7, DateLeftOut
  <2>8. CASE /\ NotListed(R, D[i + 1]) /\ Len(R) < MaxDates
             /\ AddDate(R, D[i + 1]) = Append(R, [date |-> D[i + 1].date, count |-> 1])
    BY <2>1, <2>3, <2>5, <2>8, DateAdded
  <2> QED BY <2>4, <2>6, <2>7, <2>8, AddDateCases
<1> HIDE DEF T
<1>7. Nat \subseteq T
  BY <1>5, <1>6, SetInduction
<1>8. DatesOf(f[n], D, n)
  BY <1>1, <1>7 DEF T
<1> QED BY <1>2, <1>8 DEF n, D

\* The files with a date, counted by their places in the loop.
LEMMA JpegsDated ==
    ASSUME CardInv, CardDistinct, NEW d
    PROVE  Cardinality({e \in Jpegs : e.date = d}) =
              Cardinality(Dated(Downloadable, Len(Downloadable), d))
<1> DEFINE D == Downloadable
           n == Len(D)
           I == Dated(D, n, d)
<1>1. /\ D \in Seq(DirEntry) /\ {D[k] : k \in 1 .. n} = Jpegs
      /\ \A k, l \in 1 .. n : k # l => D[k].id # D[l].id
  BY FilesAreJpegs
<1> HIDE DEF D
<1>2. n \in Nat
  BY <1>1
<1> HIDE DEF n
<1>3. IsFiniteSet(I)
  BY <1>2, DatedFinite
<1>4. \A i, j \in I : D[i] = D[j] => i = j
  BY <1>1 DEF Dated
<1>5. {e \in Jpegs : e.date = d} = {D[j] : j \in I}
  <2>1. ASSUME NEW e \in Jpegs, e.date = d PROVE e \in {D[j] : j \in I}
    <3>1. PICK k \in 1 .. n : D[k] = e
      BY <1>1
    <3>2. k \in I
      BY <2>1, <3>1 DEF Dated
    <3> QED BY <3>1, <3>2
  <2>2. ASSUME NEW j \in I PROVE D[j] \in Jpegs /\ D[j].date = d
    BY <1>1 DEF Dated
  <2> QED BY <2>1, <2>2
<1> HIDE DEF I
<1>6. Cardinality({D[j] : j \in I}) = Cardinality(I)
  BY <1>3, <1>4, ValuesCounted
<1> QED BY <1>5, <1>6 DEF I, n, D

\* A list of dates that is exact for the card.
DatesTold(u) ==
    LET listed == {u[i].date : i \in DOMAIN u}
        all == {e.date : e \in Jpegs}
    IN  /\ \A i, j \in DOMAIN u : i < j => u[i].date > u[j].date
        /\ \A i \in DOMAIN u :
              u[i].count = Cardinality({e \in Jpegs : e.date = u[i].date})
        /\ listed \subseteq all
        /\ Cardinality(listed) =
              IF Cardinality(all) < MaxDates THEN Cardinality(all) ELSE MaxDates

\* The answer to GetImageImportDates is.
LEMMA DatesListed ==
    ASSUME CardInv, CardDistinct
    PROVE  DatesTold(fuji_collect_import_dates)
<1> DEFINE D == Downloadable
           n == Len(D)
           R == FujiImportDates
           E == ToSet(R)
           key == [x \in E |-> x.date]
           u == fuji_collect_import_dates
           listed == {u[i].date : i \in DOMAIN u}
           all == {e.date : e \in Jpegs}
<1>1. /\ D \in Seq(DirEntry) /\ {D[k] : k \in 1 .. n} = Jpegs
  BY FilesAreJpegs
<1>2. MaxDates \in Nat
  BY ConstantsAssumption
<1>3. DatesOf(R, D, n)
  BY <1>1, <1>2, DatesCollected
<1>4. \A d : Cardinality({e \in Jpegs : e.date = d}) = Cardinality(Dated(D, n, d))
  BY JpegsDated
<1>5. u = ExchangeSort(R, key)
  BY DEF fuji_collect_import_dates
<1>6. n \in Nat
  BY <1>1
<1> HIDE DEF D, R, u, n
<1>7. R \in Seq(DateEntry) /\ Len(R) \in Nat /\ Len(R) <= MaxDates
  BY <1>3 DEF DatesOf
<1>8. E = {R[i] : i \in 1 .. Len(R)} /\ E \subseteq DateEntry /\ R \in Seq(E)
  BY <1>7, SeqOfElements
<1> HIDE DEF E
<1>9. key \in [E -> Nat] /\ \A x \in E : key[x] = x.date
  BY <1>8 DEF DateEntry
<1> HIDE DEF key
<1>10. KeysDiffer(R, key)
  <2>1. \A k \in 1 .. Len(R) : R[k] \in E
    BY <1>8
  <2>2. \A k \in 1 .. Len(R) : key[R[k]] = R[k].date
    BY <1>9, <2>1
  <2> QED BY <1>3, <2>2 DEF KeysDiffer, DatesOf
<1>11. Descending(u, R, E, key)
  BY <1>5, <1>8, <1>9, <1>10, SortExact
<1>12. /\ u \in Seq(E) /\ Len(u) = Len(R) /\ DOMAIN u = 1 .. Len(u)
       /\ {u[i] : i \in 1 .. Len(u)} = {R[i] : i \in 1 .. Len(R)}
       /\ \A i, j \in 1 .. Len(u) : i < j => key[u[i]] > key[u[j]]
  <2>1. /\ u \in Seq(E) /\ Len(u) = Len(R)
        /\ {u[i] : i \in 1 .. Len(u)} = {R[i] : i \in 1 .. Len(R)}
        /\ \A i, j \in 1 .. Len(u) : i < j => key[u[i]] > key[u[j]]
    BY <1>11, Zenon DEF Descending
  <2>2. DOMAIN u = 1 .. Len(u)
    BY <2>1
  <2> QED BY <2>1, <2>2
<1>13. \A i \in 1 .. Len(u) : u[i] \in E /\ key[u[i]] = u[i].date /\ u[i].date \in Nat
  <2>1. \A i \in 1 .. Len(u) : u[i] \in E
    BY <1>12
  <2>2. \A x \in E : key[x] = x.date /\ key[x] \in Nat
    BY <1>9
  <2> QED BY <2>1, <2>2
<1>14. ASSUME NEW i \in DOMAIN u, NEW j \in DOMAIN u, i < j PROVE u[i].date > u[j].date
  BY <1>12, <1>13, <1>14
<1>15. ASSUME NEW i \in DOMAIN u PROVE \E k \in 1 .. Len(R) : u[i] = R[k]
  BY <1>12
<1>16. ASSUME NEW i \in DOMAIN u
       PROVE  u[i].count = Cardinality({e \in Jpegs : e.date = u[i].date})
  <2>1. PICK k \in 1 .. Len(R) : u[i] = R[k]
    BY <1>15
  <2>2. R[k].count = Cardinality(Dated(D, n, R[k].date))
    BY <1>3 DEF DatesOf
  <2> QED BY <1>4, <2>1, <2>2
<1>17. ASSUME NEW i \in DOMAIN u PROVE u[i].date \in all
  <2>1. PICK k \in 1 .. Len(R) : u[i] = R[k]
    BY <1>15
  <2>2. PICK j \in 1 .. n : D[j].date = R[k].date
    BY <1>3 DEF DatesOf
  <2>3. D[j] \in Jpegs
    BY <1>1
  <2> QED BY <2>1, <2>2, <2>3
<1>18. listed \subseteq all
  BY <1>17
<1>19. IsFiniteSet(listed) /\ Cardinality(listed) = Len(R)
  <2> DEFINE f == [i \in 1 .. Len(u) |-> u[i].date]
  <2>1. \A i \in 1 .. Len(u) : f[i] = u[i].date
    OBVIOUS
  <2> HIDE DEF f
  <2>2. listed = {f[i] : i \in 1 .. Len(u)}
    BY <1>12, <2>1
  <2>3. \A i, j \in 1 .. Len(u) : f[i] = f[j] => i = j
    <3> SUFFICES ASSUME NEW i \in 1 .. Len(u), NEW j \in 1 .. Len(u), i # j
                 PROVE  f[i] # f[j]
      OBVIOUS
    <3>1. CASE i < j
      BY <1>12, <1>13, <1>14, <2>1, <3>1
    <3>2. CASE j < i
      BY <1>12, <1>13, <1>14, <2>1, <3>2
    <3> QED BY <1>7, <3>1, <3>2
  <2>4. IsFiniteSet(1 .. Len(u)) /\ Cardinality(1 .. Len(u)) = Len(u)
    <3>1. Len(u) \in Nat
      BY <1>7, <1>12
    <3> QED BY <3>1, PlacesCounted
  <2>5. /\ IsFiniteSet({f[i] : i \in 1 .. Len(u)})
        /\ Cardinality({f[i] : i \in 1 .. Len(u)}) = Cardinality(1 .. Len(u))
    BY <2>3, <2>4, ValuesCounted
  <2> QED BY <1>12, <2>2, <2>4, <2>5
<1>20. Cardinality(listed) =
          IF Cardinality(all) < MaxDates THEN Cardinality(all) ELSE MaxDates
  <2>1. CASE Len(R) < MaxDates
    <3>1. ASSUME NEW e \in Jpegs PROVE e.date \in listed
      <4>1. PICK j \in 1 .. n : D[j] = e
        BY <1>1
      <4>2. PICK k \in 1 .. Len(R) : R[k].date = D[j].date
        BY <1>3, <2>1 DEF DatesOf
      <4>3. PICK i \in DOMAIN u : u[i] = R[k]
        BY <1>12
      <4> QED BY <4>1, <4>2, <4>3
    <3>2. listed = all
      BY <1>18, <3>1
    <3> QED BY <1>19, <2>1, <3>2
  <2>2. CASE ~(Len(R) < MaxDates)
    <3>1. IsFiniteSet(all)
      <4> DEFINE g == [k \in 1 .. n |-> D[k].date]
      <4>1. all = {g[k] : k \in 1 .. n}
        <5>1. ASSUME NEW e \in Jpegs PROVE e.date \in {g[k] : k \in 1 .. n}
          <6>1. PICK j \in 1 .. n : D[j] = e
            BY <1>1
          <6> QED BY <6>1
        <5>2. ASSUME NEW k \in 1 .. n PROVE g[k] \in all
          <6>1. D[k] \in Jpegs /\ g[k] = D[k].date
            BY <1>1
          <6> QED BY <6>1
        <5> QED BY <5>1, <5>2
      <4>2. g \in Surjection(1 .. n, all)
        <5>1. \A k \in 1 .. n : g[k] \in {g[j] : j \in 1 .. n}
          OBVIOUS
        <5>2. \A x \in {g[j] : j \in 1 .. n} : \E k \in 1 .. n : g[k] = x
          OBVIOUS
        <5>3. g \in [1 .. n -> {g[j] : j \in 1 .. n}]
          OBVIOUS
        <5> QED BY <4>1, <5>2, <5>3 DEF Surjection
      <4>3. IsFiniteSet(1 .. n)
        BY <1>6, PlacesCounted
      <4> HIDE DEF g, all
      <4> QED BY <4>2, <4>3, FS_Surjection
    <3>2. listed \in SUBSET all
      BY <1>18
    <3> HIDE DEF listed, all
    <3>3. Cardinality(listed) <= Cardinality(all) /\ Cardinality(all) \in Nat
      BY <3>1, <3>2, FS_Subset, FS_CardinalityType
    <3> QED BY <1>2, <1>7, <1>19, <2>2, <3>3
  <2> QED BY <2>1, <2>2
<1> QED BY <1>14, <1>16, <1>18, <1>20 DEF DatesTold, u

-----------------------------------------------------------------------------
(* What the image import tells *)

\* What was told last is exact, and stays so until something else is told: the
\* card changes by requests only, which have answers of their own.
ToldInv == CardDistinct /\ EnumerationExact /\ DatesExact

\* An answer that tells nothing of the card.
LEMMA ToldPlain ==
    ASSUME NEW op, NEW rc, NEW value, Answer(op, rc, value),
           op \notin {"count", "folders", "handles", "dates"} \/ rc # "OK"
    PROVE  EnumerationExact' /\ DatesExact'
<1>1. reply'.op = op /\ reply'.rc = rc
  BY DEF Answer
<1>2. EnumerationExact'
  BY <1>1 DEF EnumerationExact
<1>3. DatesExact'
  BY <1>1 DEF DatesExact
<1> QED BY <1>2, <1>3

\* The handles stay distinct while the card stays as it is.
LEMMA DistinctSame ==
    ASSUME CardDistinct, dirents' = dirents
    PROVE  CardDistinct' /\ Jpegs' = Jpegs
  BY DEF CardDistinct, Jpegs, ToSet

\* A step that neither tells anything nor changes the card.
LEMMA ToldSame ==
    ASSUME ToldInv, UNCHANGED <<dirents, reply>>
    PROVE  ToldInv'
<1>1. CardDistinct' /\ Jpegs' = Jpegs
  BY DistinctSame DEF ToldInv
<1>2. EnumerationExact'
  BY <1>1 DEF ToldInv, EnumerationExact, ToSet
<1>3. DatesExact'
  BY <1>1 DEF ToldInv, DatesExact
<1> QED BY <1>1, <1>2, <1>3 DEF ToldInv

\* D620 and the folders tell the number of files.
LEMMA ToldCount ==
    ASSUME CardInv, ToldInv, dirents' = dirents, NEW op \in {"count", "folders"},
           OK(op, fuji_downloadable_object_count)
    PROVE  ToldInv'
<1>1. CardDistinct' /\ Jpegs' = Jpegs
  BY DistinctSame DEF ToldInv
<1>2. reply'.op = op /\ reply'.value = Cardinality(Jpegs)
  BY CountExact DEF OK, Answer, ToldInv
<1>3. EnumerationExact' /\ DatesExact'
  BY <1>1, <1>2 DEF EnumerationExact, DatesExact
<1> QED BY <1>1, <1>3 DEF ToldInv

\* D621 tells their handles.
LEMMA ToldHandles ==
    ASSUME CardInv, ToldInv, dirents' = dirents,
           OK("handles", fuji_collect_downloadable_handles)
    PROVE  ToldInv'
<1> DEFINE u == fuji_collect_downloadable_handles
<1>1. CardDistinct' /\ Jpegs' = Jpegs
  BY DistinctSame DEF ToldInv
<1>2. reply'.op = "handles" /\ reply'.value = u
  BY DEF OK, Answer
<1>3. /\ ToSet(u) = {e.id : e \in Jpegs}
      /\ \A i, j \in DOMAIN u : i < j => u[i] > u[j]
  BY HandlesExact DEF ToldInv
<1> HIDE DEF u
<1>4. EnumerationExact'
  BY <1>1, <1>2, <1>3 DEF EnumerationExact, ToSet
<1>5. DatesExact'
  BY <1>2 DEF DatesExact
<1> QED BY <1>1, <1>4, <1>5 DEF ToldInv

\* GetImageImportDates tells their dates.
LEMMA ToldDates ==
    ASSUME CardInv, ToldInv, dirents' = dirents, OK("dates", fuji_collect_import_dates)
    PROVE  ToldInv'
<1> DEFINE u == fuji_collect_import_dates
<1>1. CardDistinct' /\ Jpegs' = Jpegs
  BY DistinctSame DEF ToldInv
<1>2. reply'.op = "dates" /\ reply'.value = u
  BY DEF OK, Answer
<1>3. DatesTold(u)
  BY DatesListed DEF ToldInv
<1> HIDE DEF u
<1>4. DatesExact'
  BY <1>1, <1>2, <1>3 DEF DatesExact, DatesTold
<1>5. EnumerationExact'
  BY <1>2 DEF EnumerationExact
<1> QED BY <1>1, <1>4, <1>5 DEF ToldInv

\* A deleted file leaves the handles of the others; a new one gets a handle
\* above all of them.
LEMMA ToldCard ==
    ASSUME CardInv, ToldInv, ChangeCard
    PROVE  ToldInv'
<1> DEFINE n == Len(dirents)
<1>1. /\ dirents \in Seq(DirEntry) /\ n \in Nat /\ ptp_objectid \in Nat
      /\ \A i \in 1 .. n : dirents[i].id \in 0 .. ptp_objectid
      /\ DOMAIN dirents = 1 .. n
  BY DEF CardInv
<1>2. /\ \A i, j \in 1 .. n : i # j => dirents[i].id # dirents[j].id
      /\ \A i \in 1 .. n : ~dirents[i].dir => dirents[i].id # 0
  BY DEF ToldInv, CardDistinct
<1>3. EnumerationExact' /\ DatesExact'
  <2>1. PICK op, value : op \in {"delete", "capture"} /\ OK(op, value)
    BY DEF ChangeCard
  <2> QED BY <2>1, ToldPlain DEF OK
<1>4. \/ \E i \in Files : dirents' = RemoveAt(dirents, i)
      \/ dirents' = <<Captured(dirents[Min(Files)])>> \o dirents
  BY DEF ChangeCard
<1>5. CASE \E i \in Files : dirents' = RemoveAt(dirents, i)
  <2>1. PICK i \in 1 .. n : dirents' = RemoveAt(dirents, i)
    BY <1>1, <1>5 DEF Files
  <2>2. /\ Len(dirents') = n - 1
        /\ \A j \in 1 .. n - 1 :
              dirents'[j] = IF j < i THEN dirents[j] ELSE dirents[j + 1]
    BY <1>1, <2>1, RemoveAtProperties
  <2> DEFINE from(j) == IF j < i THEN j ELSE j + 1
  <2>3. /\ \A j \in 1 .. n - 1 : from(j) \in 1 .. n /\ dirents'[j] = dirents[from(j)]
        /\ \A j, k \in 1 .. n - 1 : j # k => from(j) # from(k)
    BY <1>1, <2>2
  <2> HIDE DEF from, n
  <2>4. CardDistinct'
    <3>1. ASSUME NEW j \in 1 .. n - 1, NEW k \in 1 .. n - 1, j # k
          PROVE  dirents'[j].id # dirents'[k].id
      <4>1. from(j) \in 1 .. n /\ from(k) \in 1 .. n /\ from(j) # from(k)
        BY <2>3, <3>1
      <4>2. dirents[from(j)].id # dirents[from(k)].id
        BY <1>2, <4>1
      <4> QED BY <2>3, <4>2
    <3>2. ASSUME NEW j \in 1 .. n - 1, ~dirents'[j].dir PROVE dirents'[j].id # 0
      <4>1. from(j) \in 1 .. n /\ dirents'[j] = dirents[from(j)]
        BY <2>3
      <4> QED BY <1>2, <3>2, <4>1
    <3> QED BY <2>2, <3>1, <3>2 DEF CardDistinct
  <2> QED BY <1>3, <2>4 DEF ToldInv
<1>6. CASE dirents' = <<Captured(dirents[Min(Files)])>> \o dirents
  <2> DEFINE e == Captured(dirents[Min(Files)])
  <2>1. e.id = ptp_objectid + 2
    BY DEF Captured, Entry
  <2> HIDE DEF e
  <2>2. /\ Len(dirents') = n + 1
        /\ \A j \in 1 .. n + 1 :
              dirents'[j] = IF j <= 1 THEN <<e>>[j] ELSE dirents[j - 1]
    <3>1. <<e>> \in Seq({e}) /\ Len(<<e>>) = 1
      OBVIOUS
    <3>2. <<e>> \in Seq({e} \cup DirEntry) /\ dirents \in Seq({e} \cup DirEntry)
      BY <1>1
    <3> QED BY <1>1, <1>6, <3>1, <3>2, ConcatProperties DEF e
  <2> HIDE DEF n
  <2>3. dirents'[1].id = ptp_objectid + 2
    BY <1>1, <2>1, <2>2
  <2>4. ASSUME NEW j \in 1 .. n + 1, j # 1
        PROVE  /\ j - 1 \in 1 .. n /\ dirents'[j] = dirents[j - 1]
               /\ dirents'[j].id \in 0 .. ptp_objectid
    BY <1>1, <2>2, <2>4
  <2>5. ASSUME NEW j \in 1 .. n + 1, NEW k \in 1 .. n + 1, j # k
        PROVE  dirents'[j].id # dirents'[k].id
    <3>1. CASE j = 1 \/ k = 1
      BY <1>1, <2>3, <2>4, <2>5, <3>1
    <3>2. CASE j # 1 /\ k # 1
      <4>1. j - 1 # k - 1
        BY <1>1, <2>5
      <4> QED BY <1>2, <2>4, <3>2, <4>1
    <3> QED BY <3>1, <3>2
  <2>6. ASSUME NEW j \in 1 .. n + 1, ~dirents'[j].dir PROVE dirents'[j].id # 0
    <3>1. CASE j = 1
      BY <1>1, <2>3, <3>1
    <3>2. CASE j # 1
      BY <1>2, <2>4, <2>6, <3>2
    <3> QED BY <3>1, <3>2
  <2>7. CardDistinct'
    BY <2>2, <2>5, <2>6 DEF CardDistinct
  <2> QED BY <1>3, <2>7 DEF ToldInv
<1> QED BY <1>4, <1>5, <1>6

\* An answer of another kind, the card left alone.
LEMMA ToldOther ==
    ASSUME ToldInv, dirents' = dirents, NEW op, NEW rc, NEW value, Answer(op, rc, value),
           op \notin {"count", "folders", "handles", "dates"} \/ rc # "OK"
    PROVE  ToldInv'
<1>1. CardDistinct'
  BY DistinctSame DEF ToldInv
<1>2. EnumerationExact' /\ DatesExact'
  BY ToldPlain
<1> QED BY <1>1, <1>2 DEF ToldInv

\* The requests of the import.
LEMMA ToldImport ==
    ASSUME CardInv, ToldInv,
           \/ ptp_fuji_setdevicepropvalue_write_data
           \/ ptp_fuji_getdevicepropvalue_write
           \/ ImageImportObjectCount
           \/ ImageImportObjectHandles
           \/ ptp_fuji_get_extension_object_info
           \/ ptp_fuji_get_extension_thumb
           \/ ptp_fuji_get_image_import_folders
           \/ ptp_fuji_get_image_import_dates
           \/ ptp_fuji_get_extension_partial_object
           \/ ptp_opensession_write
           \/ ptp_closesession_write
    PROVE  ToldInv'
<1> DEFINE Errors == {"SessionNotOpen", "AccessDenied", "InvalidObjectHandle"}
<1>1. ASSUME ImportRequest PROVE dirents' = dirents
  BY <1>1 DEF ImportRequest, card
<1>2. ASSUME VendorRequest PROVE dirents' = dirents
  BY <1>1, <1>2 DEF VendorRequest
<1>3. ASSUME dirents' = dirents, NEW op, NEW rc \in Errors, Refused(op, rc)
      PROVE  ToldInv'
  BY <1>3, ToldOther DEF Refused
<1>4. CASE ptp_fuji_setdevicepropvalue_write_data
  <2>1. PICK rc : Answer("set", rc, 0) /\ dirents' = dirents
    BY <1>4 DEF ptp_fuji_setdevicepropvalue_write_data, OK, card
  <2> QED BY <2>1, ToldOther
<1>5. CASE ptp_fuji_getdevicepropvalue_write
  BY <1>1, <1>5, ToldOther DEF ptp_fuji_getdevicepropvalue_write, OK
<1>6. ASSUME NEW op, NEW value, Enumerate(op, value)
      PROVE  dirents' = dirents /\ (OK(op, value) \/ Answer(op, "AccessDenied", 0))
  BY <1>1, <1>6 DEF Enumerate, fuji_image_import_reject
<1>7. CASE ImageImportObjectCount
  <2>1. /\ dirents' = dirents
        /\ \/ OK("count", fuji_downloadable_object_count)
           \/ Answer("count", "AccessDenied", 0)
    BY <1>6, <1>7 DEF ImageImportObjectCount
  <2> QED BY <2>1, ToldCount, ToldOther
<1>8. CASE ImageImportObjectHandles
  <2>1. /\ dirents' = dirents
        /\ \/ OK("handles", fuji_collect_downloadable_handles)
           \/ Answer("handles", "AccessDenied", 0)
    BY <1>6, <1>8 DEF ImageImportObjectHandles
  <2> QED BY <2>1, ToldHandles, ToldOther
<1>9. CASE ptp_fuji_get_extension_object_info
  <2>1. /\ VendorRequest
        /\ \/ \E rc \in Errors : Refused("info", rc)
           \/ OK("info", fuji_find_newest_downloadable_object)
    BY <1>9 DEF ptp_fuji_get_extension_object_info
  <2> QED BY <1>2, <1>3, <2>1, ToldOther DEF OK
<1>10. CASE ptp_fuji_get_extension_thumb
  <2>1. /\ VendorRequest
        /\ (\E rc \in Errors : Refused("thumb", rc)) \/ OK("thumb", current)
    BY <1>10 DEF ptp_fuji_get_extension_thumb
  <2> QED BY <1>2, <1>3, <2>1, ToldOther DEF OK
<1>11. ASSUME NEW op, NEW before, NEW step, NEW value, PreludeQuery(op, before, step, value)
       PROVE  dirents' = dirents /\ ((\E rc \in Errors : Refused(op, rc)) \/ OK(op, value))
  BY <1>2, <1>11 DEF PreludeQuery
<1>12. CASE ptp_fuji_get_image_import_folders
  <2>1. /\ dirents' = dirents
        /\ \/ \E rc \in Errors : Refused("folders", rc)
           \/ OK("folders", fuji_downloadable_object_count)
    BY <1>11, <1>12 DEF ptp_fuji_get_image_import_folders
  <2> QED BY <1>3, <2>1, ToldCount
<1>13. CASE ptp_fuji_get_image_import_dates
  <2>1. /\ dirents' = dirents
        /\ \/ \E rc \in Errors : Refused("dates", rc)
           \/ OK("dates", fuji_collect_import_dates)
    BY <1>11, <1>13 DEF ptp_fuji_get_image_import_dates
  <2> QED BY <1>3, <2>1, ToldDates
<1>14. CASE ptp_fuji_get_extension_partial_object
  <2>1. PICK h : VendorRequest /\ ((\E rc \in Errors : Refused("part", rc)) \/ OK("part", h))
    BY <1>14 DEF ptp_fuji_get_extension_partial_object
  <2> QED BY <1>2, <1>3, <2>1, ToldOther DEF OK
<1>15. CASE ptp_opensession_write
  BY <1>1, <1>15, ToldOther DEF ptp_opensession_write
<1>16. CASE ptp_closesession_write
  BY <1>1, <1>16, ToldOther DEF ptp_closesession_write
<1> QED BY <1>4, <1>5, <1>7, <1>8, <1>9, <1>10, <1>12, <1>13, <1>14, <1>15, <1>16

\* No step breaks the invariant.
LEMMA ToldStep ==
    ASSUME CardInv, ToldInv, [Next]_vars
    PROVE  ToldInv'
<1>1. CASE Connect
  <2>1. dirents' = dirents /\ Answer("hello", "OK", 0)
    BY <1>1 DEF Connect, card
  <2> QED BY <2>1, ToldOther
<1>2. CASE ChangeCard
  BY <1>2, ToldCard
<1>3. CASE TerminateOpenCapture \/ fuji_send_events \/ fuji_accept_remote_ports
  <2>1. PICK op, rc, value :
           /\ RemoteRequest /\ Answer(op, rc, value)
           /\ op \in {"terminate", "events", "capture"}
    BY <1>3 DEF TerminateOpenCapture, fuji_send_events, Overflow,
                fuji_accept_remote_ports, OK
  <2>2. dirents' = dirents
    BY <2>1 DEF RemoteRequest, card
  <2> QED BY <2>1, <2>2, ToldOther
<1>4. CASE ThreadStep
  <2>1. UNCHANGED <<kind, card, session, import, events, client, reply>>
    BY <1>4 DEF ThreadStep, fuji_accept_remote_ports_thread, BindPort, AcceptPort, Thread
  <2>2. UNCHANGED <<dirents, reply>>
    BY <2>1 DEF card
  <2> QED BY <2>2, ToldSame
<1>5. CASE ConnectPort
  <2>1. UNCHANGED <<dirents, reply>>
    BY <1>5 DEF ConnectPort, card
  <2> QED BY <2>1, ToldSame
<1>6. CASE UNCHANGED vars
  <2>1. UNCHANGED <<dirents, reply>>
    BY <1>6 DEF vars, card
  <2> QED BY <2>1, ToldSame
<1> QED BY <1>1, <1>2, <1>3, <1>4, <1>5, <1>6, ToldImport DEF Next

\* At start-up handles are those of the scan, and the fixture's is above them.
LEMMA ToldInit ==
    ASSUME Init
    PROVE  ToldInv
<1>1. PICK dates \in Cards[mode], large \in BOOLEAN :
        dirents = IF kind = "gfx"
                    THEN fuji_setup_gfx100ii_fixtures(CardOf(dates), large)
                    ELSE CardOf(dates)
  <2>1. ASSUME NEW dates PROVE (dates # <<>>) \in BOOLEAN /\ FALSE \in BOOLEAN
    BY Zenon
  <2> QED BY <2>1 DEF Init, fuji_init_cam
<1>2. EnumerationExact /\ DatesExact
  <2>1. reply.op = "none"
    BY DEF Init
  <2> QED BY <2>1 DEF EnumerationExact, DatesExact
<1> DEFINE list == CardOf(dates)
           n == Len(dates)
           e == Entry(Len(list), FALSE, 1)
<1>3. dates \in Seq(Nat) /\ n \in Nat
  BY ConstantsAssumption DEF Init
<1>4. /\ list \in Seq(DirEntry) /\ Len(list) = n + 2
      /\ \A i \in 1 .. n + 2 : list[i].id = n + 2 - i /\ (i > n => list[i].dir)
  BY <1>3, CardListed
<1>5. dirents = list \/ dirents = <<e>> \o list
  BY <1>1 DEF fuji_setup_gfx100ii_fixtures
<1>6. e.id = n + 2
  BY <1>4 DEF Entry
<1> HIDE DEF list, n, e
<1>7. /\ \A i, j \in 1 .. n + 2 : i # j => list[i].id # list[j].id
      /\ \A i \in 1 .. n + 2 : list[i].id < n + 2
      /\ \A i \in 1 .. n + 2 : ~list[i].dir => list[i].id # 0
  <2>1. ASSUME NEW i \in 1 .. n + 2, NEW j \in 1 .. n + 2, i # j
        PROVE  list[i].id # list[j].id
    <3>1. list[i].id = n + 2 - i /\ list[j].id = n + 2 - j
      BY <1>4
    <3> QED BY <1>3, <2>1, <3>1
  <2>2. ASSUME NEW i \in 1 .. n + 2
        PROVE  list[i].id < n + 2 /\ (~list[i].dir => list[i].id # 0)
    <3>1. list[i].id = n + 2 - i /\ (i > n => list[i].dir)
      BY <1>4
    <3> QED BY <1>3, <3>1
  <2> QED BY <2>1, <2>2
<1>8. CASE dirents = list
  <2>1. CardDistinct
    BY <1>4, <1>7, <1>8 DEF CardDistinct
  <2> QED BY <1>2, <2>1 DEF ToldInv
<1>9. CASE dirents = <<e>> \o list
  <2>1. /\ Len(dirents) = n + 3
        /\ \A j \in 1 .. n + 3 : dirents[j] = IF j <= 1 THEN <<e>>[j] ELSE list[j - 1]
    <3>1. <<e>> \in Seq({e}) /\ Len(<<e>>) = 1
      OBVIOUS
    <3>2. <<e>> \in Seq({e} \cup DirEntry) /\ list \in Seq({e} \cup DirEntry)
      BY <1>4
    <3> QED BY <1>3, <1>4, <1>9, <3>1, <3>2, ConcatProperties
  <2>2. dirents[1].id = n + 2
    BY <1>3, <1>6, <2>1
  <2>3. ASSUME NEW j \in 1 .. n + 3, j # 1
        PROVE  j - 1 \in 1 .. n + 2 /\ dirents[j] = list[j - 1]
    BY <1>3, <2>1, <2>3
  <2>4. ASSUME NEW j \in 1 .. n + 3, NEW k \in 1 .. n + 3, j # k
        PROVE  dirents[j].id # dirents[k].id
    <3>1. CASE j = 1 \/ k = 1
      BY <1>3, <1>4, <1>7, <2>2, <2>3, <2>4, <3>1
    <3>2. CASE j # 1 /\ k # 1
      <4>1. j - 1 # k - 1
        BY <1>3, <2>4
      <4> QED BY <1>7, <2>3, <3>2, <4>1
    <3> QED BY <3>1, <3>2
  <2>5. ASSUME NEW j \in 1 .. n + 3, ~dirents[j].dir PROVE dirents[j].id # 0
    <3>1. CASE j = 1
      BY <1>3, <2>2, <3>1
    <3>2. CASE j # 1
      BY <1>7, <2>3, <2>5, <3>2
    <3> QED BY <3>1, <3>2
  <2>6. CardDistinct
    BY <2>1, <2>4, <2>5 DEF CardDistinct
  <2> QED BY <1>2, <2>6 DEF ToldInv
<1> QED BY <1>5, <1>8, <1>9

\* What the image import tells is exact for any card, any number of clients and
\* whatever is taken or deleted between their requests: D620, D621 and the
\* folders enumerate every file of the card once, the handles sorted from the
\* newest; the dates are listed from the newest with the number of their files,
\* all of them as long as dates[] has room; and the thumbnail is that of the
\* object described. The two sorts and the loops that collect their input are
\* proved for lists of any length.
THEOREM ImportStaysExact == Spec => []ImportExact
<1>1. Init => ToldInv
  BY ToldInit
<1>2. WifiInv /\ ToldInv /\ [Next]_vars => ToldInv'
  BY ToldStep DEF WifiInv
<1>3. WifiInv /\ ToldInv => ImportExact
  BY DEF WifiInv, GateInv, ToldInv, ImportExact
<1>4. Spec => []ToldInv
  BY <1>1, <1>2, WifiAlways, PTL DEF Spec
<1> QED BY <1>3, <1>4, WifiAlways, PTL

-----------------------------------------------------------------------------
(* The multiple transfer: images arrive whole and in order *)

\* The entry handle 1 stands for: the second at first, then the head.
Offered == IF first = 1 THEN 2 ELSE first

\* The camera: handle 1 is at the head of the list, or behind the entry that
\* was added for DCIM; every download moves the head by one.
HandleInv ==
    /\ Len(size) >= 1
    /\ first = sent_images + 1
    /\ first = 1 => ids[1] # 1
    /\ ids[Offered] = 1

\* A download that is not complete: the parts are the front of the object
\* handle 1 stands for, and the camera has not moved on.
Downloading ==
    /\ sent_images = Len(album)
    /\ IsFile(Offered)
    /\ want = SizeOf(Offered)
    /\ \A i \in 1 .. Len(parts) : parts[i].obj = Offered
    /\ Received < want

\* A download the camera took for complete: the client has all of the object.
Downloaded ==
    /\ sent_images = Len(album) + 1
    /\ parts # <<>>
    /\ OneObject(parts)
    /\ Received = want
    /\ want = SizeOf(parts[Len(parts)].obj)

\* The client is between two images, or in one of the two states above.
ClientInv ==
    /\ phase # "download" => parts = <<>> /\ want = 0 /\ sent_images = Len(album)
    /\ phase = "download" => Downloading \/ Downloaded

FujiTransferInv ==
    /\ TransferTypeOK
    /\ HandleInv
    /\ ClientInv
    /\ ImagesIntact

\* The unfolded facts about the list that every step uses.
LEMMA HandleFacts ==
    ASSUME TransferTypeOK, HandleInv
    PROVE  /\ Len(size) \in Nat \ {0}
           /\ first \in 1 .. Len(size) + 2
           /\ Offered \in 2 .. Len(size) + 2
           /\ first <= Offered
           /\ ids \in [1 .. Len(size) + 2 -> Nat]
           /\ ids[Offered] = 1
           /\ \A e \in 2 .. Len(size) + 1 : SizeOf(e) \in Nat \ {0}
<1>1. /\ Len(size) \in Nat \ {0} /\ first \in 1 .. Len(size) + 2
      /\ ids \in [1 .. Len(size) + 2 -> Nat] /\ ids[Offered] = 1
  BY DEF HandleInv, TransferTypeOK, Entries, Images
<1>2. Offered \in 2 .. Len(size) + 2 /\ first <= Offered
  BY <1>1 DEF Offered
<1>3. ASSUME NEW e \in 2 .. Len(size) + 1 PROVE SizeOf(e) \in Nat \ {0}
  <2>1. e - 1 \in 1 .. Len(size)
    BY <1>1
  <2>2. size \in Seq(Sizes) /\ Sizes \subseteq Nat \ {0}
    BY TransferAssumption DEF TransferTypeOK
  <2>3. size[e - 1] \in Sizes
    BY <2>1, <2>2
  <2> QED BY <2>2, <2>3 DEF SizeOf
<1> QED BY <1>1, <1>2, <1>3

\* Both look-ups of handle 1 find the object that is offered; there is no
\* downloadable one when the root of the card is reached.
LEMMA HandleOne ==
    ASSUME TransferTypeOK, HandleInv
    PROVE  /\ find_object(1) = Offered
           /\ fuji_find_downloadable_object(1) =
                 IF IsFile(Offered) THEN Offered ELSE 0
<1> DEFINE M == Matches(1)
           F == {e \in M : 1 # 0 /\ IsFile(e)}
           n == Len(size)
<1>1. /\ n \in Nat \ {0} /\ first \in 1 .. n + 2 /\ Offered \in 2 .. n + 2
      /\ first <= Offered /\ ids[Offered] = 1
  BY HandleFacts
<1>2. M = {e \in 1 .. n + 2 : e >= first /\ ids[e] = 1}
  BY DEF Matches, Entries, Images
<1>3. Offered \in M /\ \A e \in M : e \in Nat /\ Offered <= e
  <2>1. Offered \in M
    BY <1>1, <1>2
  <2>2. ASSUME NEW e \in M PROVE e \in Nat /\ Offered <= e
    <3>1. e \in 1 .. n + 2 /\ e >= first /\ ids[e] = 1
      BY <1>2
    <3>2. CASE first = 1
      <4>1. ids[1] # 1 /\ Offered = 2
        BY <3>2 DEF HandleInv, Offered
      <4> QED BY <1>1, <3>1, <4>1
    <3>3. CASE first # 1
      BY <1>1, <3>1, <3>3 DEF Offered
    <3> QED BY <3>2, <3>3
  <2> QED BY <2>1, <2>2
<1> HIDE DEF M, n
<1>4. ASSUME NEW T, T \subseteq M, Offered \in T PROVE Min(T) = Offered
  <2>1. T \subseteq Nat /\ T # {}
    BY <1>3, <1>4
  <2>2. Min(T) \in T /\ \A e \in T : Min(T) <= e
    BY <2>1, MinIsLeast
  <2>3. Min(T) \in Nat /\ Offered \in Nat /\ Min(T) <= Offered /\ Offered <= Min(T)
    BY <1>3, <1>4, <2>2
  <2> QED BY <2>3
<1>5. find_object(1) = Offered
  BY <1>3, <1>4 DEF find_object, M
<1>6. CASE IsFile(Offered)
  <2>1. Offered \in F
    BY <1>3, <1>6
  <2>2. F \subseteq M
    OBVIOUS
  <2>3. fuji_find_downloadable_object(1) = IF F = {} THEN 0 ELSE Min(F)
    BY DEF fuji_find_downloadable_object, M
  <2> HIDE DEF F
  <2>4. Min(F) = Offered
    BY <1>4, <2>1, <2>2
  <2> QED BY <1>5, <1>6, <2>1, <2>3, <2>4
<1>7. CASE ~IsFile(Offered)
  <2>1. Offered = n + 2
    BY <1>1, <1>7 DEF IsFile, Images, n
  <2>2. \A e \in M : ~IsFile(e)
    BY <1>1, <1>3, <2>1 DEF IsFile, Images, n
  <2>3. fuji_find_downloadable_object(1) = IF F = {} THEN 0 ELSE Min(F)
    BY DEF fuji_find_downloadable_object, M
  <2> QED BY <1>5, <1>7, <2>2, <2>3
<1> QED BY <1>6, <1>7

\* With parts no longer than the cap, the two computations of a part's length
\* agree: the download is complete exactly when the part reaches the end.
LEMMA PartExact ==
    ASSUME \A r \in PartSizes : r <= MaxChunk,
           NEW objectSize \in Nat \ {0}, NEW start \in Nat, start < objectSize,
           NEW requested \in PartSizes
    PROVE  /\ partial_size(objectSize, start, requested) \in Nat
           /\ start + partial_size(objectSize, start, requested) <= objectSize
           /\ completed(objectSize, start, requested) <=>
                 start + partial_size(objectSize, start, requested) = objectSize
<1>1. requested \in Nat \ {0} /\ MaxChunk \in Nat \ {0} /\ requested <= MaxChunk
  BY TransferAssumption
<1>2. MinOf(requested, MaxChunk) = requested
  BY <1>1 DEF MinOf
<1> QED BY <1>1, <1>2 DEF partial_size, completed, MinOf

\* The camera has just scanned its card and offers the first file.
LEMMA TransferInitInv ==
    ASSUME TransferInit PROVE FujiTransferInv
<1>1. PICK n \in ImageCounts : size \in [1 .. n -> Sizes]
  BY DEF TransferInit
<1>2. n \in Nat \ {0} /\ size \in Seq(Sizes) /\ Len(size) = n
  BY <1>1, TransferAssumption
<1>3. /\ ids = [e \in 1 .. n + 2 |-> CASE e = 1 -> n + 1
                                       [] e = 2 -> 1
                                       [] OTHER -> n + 2 - e]
      /\ first = 1
  BY <1>2 DEF TransferInit, Entries, Images
<1>4. ids \in [1 .. n + 2 -> Nat] /\ ids[1] = n + 1 /\ ids[2] = 1
  <2>1. \A e \in 1 .. n + 2 : (CASE e = 1 -> n + 1
                                 [] e = 2 -> 1
                                 [] OTHER -> n + 2 - e) \in Nat
    BY <1>2
  <2>2. 1 \in 1 .. n + 2 /\ 2 \in 1 .. n + 2
    BY <1>2
  <2> QED BY <1>2, <1>3, <2>1, <2>2
<1>5. TransferTypeOK
  <2>1. Entries = 1 .. n + 2 /\ first \in Entries
    BY <1>2, <1>3 DEF Entries, Images
  <2>2. parts \in Seq(PartType) /\ album \in Seq(Seq(PartType))
    BY DEF TransferInit
  <2> QED BY <1>2, <1>4, <2>1, <2>2 DEF TransferInit, TransferTypeOK
<1>6. HandleInv
  BY <1>2, <1>3, <1>4 DEF HandleInv, Offered, TransferInit
<1>7. ClientInv /\ ImagesIntact
  BY DEF ClientInv, TransferInit, ImagesIntact
<1> QED BY <1>5, <1>6, <1>7 DEF FujiTransferInv

\* The list and the sizes are what they were: so are the operators over them.
LEMMA TransferSame ==
    ASSUME size' = size
    PROVE  /\ Entries' = Entries
           /\ PartType' = PartType
           /\ \A e : SizeOf(e)' = SizeOf(e)
           /\ \A e : IsFile(e)' = IsFile(e)
           /\ (album' = album /\ ImagesIntact) => ImagesIntact'
           /\ parts' = parts => Received' = Received
<1>1. Images' = Images
  BY DEF Images
<1>2. Entries' = Entries
  BY <1>1 DEF Entries
<1>3. \A e : SizeOf(e)' = SizeOf(e)
  BY DEF SizeOf
<1>4. \A e : IsFile(e)' = IsFile(e)
  BY <1>1 DEF IsFile
<1>5. PartType' = PartType
  BY <1>2 DEF PartType
<1>6. (album' = album /\ ImagesIntact) => ImagesIntact'
  BY <1>3 DEF ImagesIntact, OneObject
<1>7. parts' = parts => Received' = Received
  BY DEF Received
<1> QED BY <1>2, <1>3, <1>4, <1>5, <1>6, <1>7

\* A part of the object that is offered. The camera moves on exactly when the
\* client has its last byte.
LEMMA GetPartInv ==
    ASSUME \A r \in PartSizes : r <= MaxChunk,
           FujiTransferInv, NEW requested \in PartSizes, GetPart(requested)
    PROVE  FujiTransferInv'
<1>1. /\ TransferTypeOK /\ HandleInv /\ ClientInv /\ ImagesIntact
      /\ phase = "download" /\ Received < want
      /\ ptp_fuji_getpartialobject_write(Received, requested)
      /\ phase' = phase
  BY DEF FujiTransferInv, GetPart
<1>2. /\ size' = size /\ connected' = connected /\ want' = want /\ album' = album
  BY <1>1 DEF ptp_fuji_getpartialobject_write
<1>3. /\ parts \in Seq(PartType) /\ want \in Nat
      /\ album \in Seq(Seq(PartType)) /\ Len(parts) \in Nat
      /\ Len(album) \in Nat /\ sent_images \in Nat /\ offers \in Nat
      /\ Received \in Nat
  <2>1. /\ parts \in Seq(PartType) /\ want \in Nat
        /\ album \in Seq(Seq(PartType)) /\ Len(parts) \in Nat
        /\ Len(album) \in Nat /\ sent_images \in Nat /\ offers \in Nat
    BY <1>1 DEF TransferTypeOK
  <2>2. CASE parts = <<>>
    BY <2>1, <2>2 DEF Received
  <2>3. CASE parts # <<>>
    <3>1. parts[Len(parts)] \in PartType
      BY <2>1, <2>3
    <3> QED BY <2>1, <2>3, <3>1 DEF Received, PartType
  <2> QED BY <2>1, <2>2, <2>3
<1>4. Downloading
  BY <1>1, <1>3 DEF ClientInv, Downloaded
<1> DEFINE start == Received
           total == SizeOf(Offered)
           len == partial_size(total, start, requested)
           part == [obj |-> Offered, start |-> start, len |-> len]
<1>5. /\ Len(size) \in Nat \ {0} /\ first \in 1 .. Len(size) + 2
      /\ Offered \in 2 .. Len(size) + 2 /\ first <= Offered
      /\ ids \in [1 .. Len(size) + 2 -> Nat] /\ ids[Offered] = 1
      /\ \A e \in 2 .. Len(size) + 1 : SizeOf(e) \in Nat \ {0}
  BY <1>1, HandleFacts
<1>6. Offered \in 2 .. Len(size) + 1 /\ want = total /\ total \in Nat \ {0}
  BY <1>4, <1>5 DEF Downloading, IsFile, Images
<1>7. /\ find_object(1) = Offered
      /\ fuji_find_downloadable_object(1) = Offered
      /\ Offered # 0
  BY <1>1, <1>4, <1>6, HandleOne DEF Downloading
<1>8. /\ parts' = Append(parts, part)
      /\ IF completed(total, start, requested)
           THEN fuji_downloaded_object
           ELSE /\ ids' = ids /\ first' = first /\ sent_images' = sent_images
                /\ kill' = kill /\ offers' = offers
  BY <1>1, <1>4, <1>7
     DEF ptp_fuji_getpartialobject_write, Downloading
<1>9. /\ len \in Nat /\ start + len <= total
      /\ completed(total, start, requested) <=> start + len = total
  BY <1>1, <1>3, <1>6, PartExact
<1> HIDE DEF start, total, len
<1>10. part \in PartType
  BY <1>3, <1>5, <1>9 DEF PartType, Entries, Images, start
<1>11. /\ parts' \in Seq(PartType) /\ Len(parts') = Len(parts) + 1
       /\ parts'[Len(parts) + 1] = part /\ parts' # <<>>
       /\ \A i \in 1 .. Len(parts) : parts'[i] = parts[i]
  BY <1>3, <1>8, <1>10, AppendProperties
<1>12. Received' = start + len
  BY <1>3, <1>11 DEF Received
<1>13. \A i \in 1 .. Len(parts') : parts'[i].obj = Offered
  <2> SUFFICES ASSUME NEW i \in 1 .. Len(parts') PROVE parts'[i].obj = Offered
    OBVIOUS
  <2>1. CASE i = Len(parts) + 1
    BY <1>11, <2>1
  <2>2. CASE i # Len(parts) + 1
    <3>1. i \in 1 .. Len(parts)
      BY <1>3, <1>11, <2>2
    <3> QED BY <1>4, <1>11, <3>1 DEF Downloading
  <2> QED BY <2>1, <2>2
<1>14. CASE ~completed(total, start, requested)
  <2>1. ids' = ids /\ first' = first /\ sent_images' = sent_images
        /\ kill' = kill /\ offers' = offers
    BY <1>8, <1>14
  <2>2. Offered' = Offered
    BY <2>1 DEF Offered
  <2>3. TransferTypeOK'
    BY <1>1, <1>2, <1>11, <2>1, TransferSame DEF TransferTypeOK
  <2>4. HandleInv'
    BY <1>1, <1>2, <2>1, <2>2 DEF HandleInv
  <2>5. start + len < total
    BY <1>3, <1>6, <1>9, <1>14 DEF start
  <2>6. Downloading'
    BY <1>2, <1>4, <1>6, <1>12, <1>13, <2>1, <2>2, <2>5, TransferSame
       DEF Downloading, total
  <2>7. ClientInv'
    BY <1>1, <2>6 DEF ClientInv
  <2> QED BY <1>1, <1>2, <2>3, <2>4, <2>7, TransferSame DEF FujiTransferInv
<1>15. CASE completed(total, start, requested)
  <2>1. /\ first' = first + 1 /\ ids' = [ids EXCEPT ![first + 1] = 1]
        /\ kill' = (kill \/ sent_images = LastImage)
        /\ sent_images' = sent_images + 1 /\ offers' = offers + 1
    BY <1>8, <1>15 DEF fuji_downloaded_object
  <2>2. first + 1 \in 2 .. Len(size) + 2
    BY <1>5, <1>6
  <2>3. Offered' = first + 1 /\ ids'[first + 1] = 1
        /\ ids' \in [1 .. Len(size) + 2 -> Nat]
    <3>1. first + 1 \in 1 .. Len(size) + 2 /\ first + 1 # 1
      BY <1>5, <2>2
    <3> QED BY <1>5, <2>1, <3>1 DEF Offered
  <2>4. TransferTypeOK'
    <3>1. first' \in Entries /\ ids' \in [Entries -> Nat]
      BY <1>5, <2>1, <2>2, <2>3 DEF Entries, Images
    <3>2. sent_images' \in Nat /\ offers' \in Nat /\ kill' \in BOOLEAN
      BY <1>1, <1>3, <2>1 DEF TransferTypeOK
    <3> QED BY <1>1, <1>2, <1>11, <3>1, <3>2, TransferSame DEF TransferTypeOK
  <2>5. HandleInv'
    <3>1. first' # 1 /\ first' = sent_images' + 1
      BY <1>1, <1>3, <1>5, <2>1 DEF HandleInv
    <3> QED BY <1>1, <1>2, <2>3, <3>1 DEF HandleInv
  <2>6. Downloaded'
    <3>1. OneObject(parts)'
      <4>1. DOMAIN parts' = 1 .. Len(parts')
        BY <1>11
      <4> QED BY <1>13, <4>1 DEF OneObject
    <3>2. start + len = total
      BY <1>9, <1>15
    <3>3. parts'[Len(parts')].obj = Offered
      BY <1>11
    <3>4. sent_images' = Len(album') + 1
      BY <1>2, <1>3, <1>4, <2>1 DEF Downloading
    <3> QED BY <1>2, <1>6, <1>11, <1>12, <3>1, <3>2, <3>3, <3>4, TransferSame
            DEF Downloaded, total
  <2>7. ClientInv'
    BY <1>1, <2>6 DEF ClientInv
  <2> QED BY <1>1, <1>2, <2>4, <2>5, <2>7, TransferSame DEF FujiTransferInv
<1> QED BY <1>14, <1>15

\* A finished image is one object from its first byte to its last.
LEMMA FinishInv ==
    ASSUME FujiTransferInv, Finish
    PROVE  FujiTransferInv'
<1>1. /\ TransferTypeOK /\ HandleInv /\ ClientInv /\ ImagesIntact
      /\ phase = "download" /\ Received >= want
      /\ album' = Append(album, parts) /\ parts' = <<>> /\ want' = 0
      /\ phase' = "idle" /\ size' = size /\ ids' = ids /\ first' = first
      /\ sent_images' = sent_images /\ kill' = kill /\ connected' = connected
      /\ offers' = offers
  BY DEF FujiTransferInv, Finish, camera
<1>2. /\ parts \in Seq(PartType) /\ want \in Nat
      /\ album \in Seq(Seq(PartType))
      /\ Len(album) \in Nat /\ sent_images \in Nat
  BY <1>1 DEF TransferTypeOK
<1>3. Downloaded
  <2>1. ~Downloading
    <3>1. CASE Received \in Int
      BY <1>1, <1>2, <3>1 DEF Downloading
    <3>2. Received \in Int
      <4>1. CASE parts = <<>>
        BY <4>1 DEF Received
      <4>2. CASE parts # <<>>
        <5>1. parts[Len(parts)] \in PartType
          BY <1>2, <4>2
        <5> QED BY <4>2, <5>1 DEF Received, PartType
      <4> QED BY <4>1, <4>2
    <3> QED BY <3>1, <3>2
  <2> QED BY <1>1, <2>1 DEF ClientInv
<1>4. /\ album' \in Seq(Seq(PartType)) /\ Len(album') = Len(album) + 1
      /\ album'[Len(album) + 1] = parts
      /\ \A i \in 1 .. Len(album) : album'[i] = album[i]
  BY <1>1, <1>2, AppendProperties
<1>5. TransferTypeOK'
  <2>1. parts' \in Seq(PartType) /\ want' \in Nat
    BY <1>1
  <2> QED BY <1>1, <1>4, <2>1, TransferSame DEF TransferTypeOK
<1>6. HandleInv'
  BY <1>1 DEF HandleInv, Offered
<1>7. ClientInv'
  BY <1>1, <1>2, <1>3, <1>4 DEF ClientInv, Downloaded
<1>8. ImagesIntact'
  <2> SUFFICES ASSUME NEW i \in DOMAIN album'
               PROVE  /\ OneObject(album'[i])
                      /\ LET last == album'[i][Len(album'[i])]
                         IN  last.start + last.len = SizeOf(last.obj)
    BY <1>1 DEF ImagesIntact, OneObject, SizeOf
  <2>1. CASE i = Len(album) + 1
    <3>1. parts # <<>> /\ OneObject(parts)
          /\ Received = SizeOf(parts[Len(parts)].obj)
      BY <1>3 DEF Downloaded
    <3>2. Received = parts[Len(parts)].start + parts[Len(parts)].len
      BY <3>1 DEF Received
    <3> QED BY <1>4, <2>1, <3>1, <3>2
  <2>2. CASE i # Len(album) + 1
    <3>1. i \in 1 .. Len(album)
      BY <1>2, <1>4, <2>2
    <3> QED BY <1>1, <1>2, <1>4, <3>1 DEF ImagesIntact
  <2> QED BY <2>1, <2>2
<1> QED BY <1>5, <1>6, <1>7, <1>8 DEF FujiTransferInv

\* The steps that move no data.
LEMMA TransferQuietInv ==
    ASSUME FujiTransferInv,
           TakeOffer \/ GetObjectInfo \/ KillConnection
           \/ UNCHANGED transfer_vars
    PROVE  FujiTransferInv'
<1>1. TransferTypeOK /\ HandleInv /\ ClientInv /\ ImagesIntact
  BY DEF FujiTransferInv
<1>2. /\ size' = size /\ ids' = ids /\ first' = first /\ sent_images' = sent_images
      /\ kill' = kill /\ parts' = parts /\ album' = album
  BY DEF TakeOffer, GetObjectInfo, KillConnection,
         transfer_vars, camera, transfer_client
<1>3. Offered' = Offered /\ HandleInv'
  BY <1>1, <1>2 DEF Offered, HandleInv
<1>4. ImagesIntact'
  BY <1>1, <1>2, TransferSame
<1>5. CASE GetObjectInfo
  <2>1. /\ phase = "info" /\ connected' = connected /\ offers' = offers
        /\ want' = IF IsFile(Offered) THEN SizeOf(Offered) ELSE 0
        /\ phase' = IF IsFile(Offered) THEN "download" ELSE "idle"
    BY <1>1, <1>5, HandleOne DEF GetObjectInfo, camera
  <2>2. parts = <<>> /\ want = 0 /\ sent_images = Len(album)
    BY <1>1, <2>1 DEF ClientInv
  <2>3. /\ Offered \in 2 .. Len(size) + 2 /\ Len(size) \in Nat
        /\ \A e \in 2 .. Len(size) + 1 : SizeOf(e) \in Nat \ {0}
    BY <1>1, HandleFacts
  <2>4. IsFile(Offered) => SizeOf(Offered) \in Nat \ {0}
    BY <2>3 DEF IsFile, Images
  <2>5. TransferTypeOK'
    <3>1. want' \in Nat /\ phase' \in {"idle", "info", "download"}
      BY <2>1, <2>4
    <3> QED BY <1>1, <1>2, <2>1, <3>1, TransferSame DEF TransferTypeOK
  <2>6. CASE IsFile(Offered)
    <3>1. Received' = 0
      BY <1>2, <2>2 DEF Received
    <3>2. Downloading'
      BY <1>2, <1>3, <2>1, <2>2, <2>4, <2>6, <3>1, TransferSame DEF Downloading
    <3> QED BY <1>3, <1>4, <2>1, <2>5, <2>6, <3>2 DEF FujiTransferInv, ClientInv
  <2>7. CASE ~IsFile(Offered)
    BY <1>2, <1>3, <1>4, <2>1, <2>2, <2>5, <2>7 DEF FujiTransferInv, ClientInv
  <2> QED BY <2>6, <2>7
<1>6. CASE TakeOffer
  <2>1. /\ phase = "idle" /\ phase' = "info" /\ want' = want
        /\ offers > 0 /\ offers' = offers - 1 /\ connected' = connected
    BY <1>6 DEF TakeOffer, camera
  <2>2. TransferTypeOK'
    <3>1. offers' \in Nat
      BY <1>1, <2>1 DEF TransferTypeOK
    <3> QED BY <1>1, <1>2, <2>1, <3>1, TransferSame DEF TransferTypeOK
  <2>3. ClientInv'
    BY <1>1, <1>2, <2>1 DEF ClientInv
  <2> QED BY <1>3, <1>4, <2>2, <2>3 DEF FujiTransferInv
<1>7. CASE KillConnection \/ UNCHANGED transfer_vars
  <2>1. phase' = phase /\ want' = want /\ offers' = offers
        /\ connected' \in {FALSE, connected}
    BY <1>7 DEF KillConnection, transfer_client, transfer_vars, camera
  <2>2. TransferTypeOK'
    <3>1. connected' \in BOOLEAN
      BY <1>1, <2>1 DEF TransferTypeOK
    <3> QED BY <1>1, <1>2, <2>1, <3>1, TransferSame DEF TransferTypeOK
  <2>3. ClientInv'
    <3>1. Downloading => Downloading'
      BY <1>2, <1>3, <2>1, TransferSame DEF Downloading
    <3>2. Downloaded => Downloaded'
      BY <1>2, <2>1, TransferSame DEF Downloaded, OneObject
    <3> QED BY <1>1, <1>2, <2>1, <3>1, <3>2 DEF ClientInv
  <2> QED BY <1>3, <1>4, <2>2, <2>3 DEF FujiTransferInv
<1> QED BY <1>5, <1>6, <1>7

\* Whatever the images and the parts a client asks for, up to the cap: every
\* image the client puts together is one whole object, and the camera's count
\* is the client's or one ahead.
THEOREM MultipleTransferExact ==
    ASSUME \A r \in PartSizes : r <= MaxChunk
    PROVE  TransferSpec => []TransferExact
<1>1. TransferInit => FujiTransferInv
  BY TransferInitInv
<1>2. FujiTransferInv /\ [TransferNext]_transfer_vars => FujiTransferInv'
  BY GetPartInv, FinishInv, TransferQuietInv DEF TransferNext, Part
<1>3. FujiTransferInv => TransferExact
  <2>1. FujiTransferInv => CountsAgree
    <3> SUFFICES ASSUME FujiTransferInv PROVE CountsAgree
      OBVIOUS
    <3>1. Len(album) \in Nat /\ phase \in {"idle", "info", "download"}
      BY DEF FujiTransferInv, TransferTypeOK
    <3>2. sent_images = Len(album) \/ sent_images = Len(album) + 1
      BY <3>1 DEF FujiTransferInv, ClientInv, Downloading, Downloaded
    <3> QED BY <3>1, <3>2 DEF CountsAgree
  <2> QED BY <2>1 DEF FujiTransferInv, TransferExact
<1> QED BY <1>1, <1>2, <1>3, PTL DEF TransferSpec

=============================================================================
