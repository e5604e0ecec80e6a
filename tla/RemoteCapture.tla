---------------------------- MODULE RemoteCapture ----------------------------
(***************************************************************************)
(* Remote capture (canon/canon.c, canon/objects.c, nikon/ops.c,            *)
(* sony/ops.c): the camera takes a picture, keeps it in memory (SDRAM) or  *)
(* puts it on the card, announces it, and serves it whole or in parts      *)
(* until the client confirms it. There is room for one picture in memory;  *)
(* a Canon body gives each its own handle, Nikon and Sony bodies always    *)
(* the same one.                                                           *)
(*                                                                         *)
(* Pictures are numbered in the order they are taken. Announcements of a   *)
(* family all have the same delay, so that the event list delivers them in *)
(* the order of the captures (OldestFirst of EventQueue): offers is a      *)
(* queue. The client fetches what an announcement names; between downloads *)
(* it may leave announcements unread, take more pictures and clean up. A   *)
(* Canon client may also release the shutter during a download. Clients do *)
(* not write the properties the camera drives itself.                      *)
(***************************************************************************)
EXTENDS Integers, Sequences

CONSTANTS
    Vendors,      \* camera families of the run
    Base,         \* ptp_objectid after the scan of the card
    FixedHandle,  \* NIKON_SDRAM_HANDLE, SONY_OBJECT_HANDLE: above all others
    Sizes,        \* sizes of pictures
    EosChunk,     \* largest part of the EOS partial transfer, 512 KiB
    PtpChunk,     \* largest part of GetPartialObject, 16 MiB
    NikonChunk,   \* largest part of Nikon's GetPartialObjectEx, 10 MiB
    PartSizes,    \* part sizes clients ask for
    MaxPictures   \* bound: pictures taken

ASSUME ConstantsAssumption ==
    /\ Vendors \subseteq {"canon", "nikon", "sony"}
    /\ Base \in Nat \ {0}
    /\ FixedHandle \in Nat
    /\ FixedHandle > Base + 2 * MaxPictures
    /\ Sizes \subseteq Nat \ {0}
    /\ {EosChunk, PtpChunk, NikonChunk} \subseteq Nat \ {0}
    /\ PartSizes \subseteq Nat \ {0}
    /\ MaxPictures \in Nat

VARIABLES
    vendor,        \* the camera's family
    stocked,       \* the card has a .jpg file, the source of the picture, and
                   \* a DCIM folder
    destination,   \* Canon: p->capture_destination, "card" or "sdram"
    folder,        \* the folder of card captures exists
    ptp_objectid,  \* cam->ptp_objectid
    sdram,         \* p->sdram; pic = 0 when not in use
    card,          \* pictures card captures have put in the object list
    full_pressed,  \* Sony: p->full_pressed
    focus,         \* Sony: property 0xD213, FocusFound
    in_memory,     \* Sony: property 0xD215, ObjectInMemory, is 0x8001
    offers,        \* announcements the client has not read yet
    job,           \* the client's download
    sizes,         \* history: sizes of all pictures, by number
    album,         \* history: finished downloads
    discarded      \* history: pictures the client cleaned up unfetched

settings == <<vendor, stocked>>
shutter == <<full_pressed, focus, in_memory>>
store == <<folder, ptp_objectid, card>>
vars == <<settings, destination, store, sdram, shutter, offers, job, sizes,
          album, discarded>>

Taken == Len(sizes)

NoPicture == [pic |-> 0, handle |-> 0, size |-> 0]

NoJob == [phase |-> "none", offer |-> NoPicture, size |-> 0, got |-> 0, from |-> {}]

-----------------------------------------------------------------------------
(* Taking pictures *)

Picture(handle, size) == [pic |-> Taken + 1, handle |-> handle, size |-> size]

Announce(picture) ==
    /\ offers' = Append(offers, picture)
    /\ sizes' = Append(sizes, picture.size)

\* The picture replaces the one in memory and gets the next handle.
eos_capture_sdram(size) ==
    LET handle == ptp_objectid + 1
    IN  /\ ptp_objectid' = handle
        /\ sdram' = Picture(handle, size)
        /\ Announce(Picture(handle, size))
        /\ UNCHANGED <<folder, card>>

\* The picture becomes an object below the folder of card captures, made when
\* the card has none.
capture_card(size) ==
    LET handle == IF folder THEN ptp_objectid + 1 ELSE ptp_objectid + 2
    IN  /\ ptp_objectid' = handle
        /\ folder' = TRUE
        /\ card' = card \cup {Picture(handle, size)}
        /\ Announce(Picture(handle, size))
        /\ UNCHANGED sdram

\* Canon's RemoteRelease and the full press of RemoteReleaseOn: without a
\* source picture nothing happens and the answer is still OK.
eos_capture_trigger(size) ==
    /\ vendor = "canon"
    /\ stocked
    /\ \/ destination = "sdram" /\ eos_capture_sdram(size)
       \/ destination = "card" /\ capture_card(size)
    /\ UNCHANGED <<settings, destination, shutter, job, album, discarded>>

\* SetDevicePropValueEx of CaptureDestination.
ptp_eos_set_property_data(d) ==
    /\ vendor = "canon"
    /\ destination' = d
    /\ UNCHANGED <<settings, store, sdram, shutter, offers, job, sizes, album,
                   discarded>>

\* Nikon's Capture, AfCaptureSDRAM and InitiateCaptureRecInMedia: a pending
\* picture is dropped. (The program ends if its picture file cannot be loaded.)
nikon_capture_sdram(size) ==
    /\ sdram' = Picture(FixedHandle, size)
    /\ Announce(Picture(FixedHandle, size))
    /\ UNCHANGED store

nikon_do_capture(size) ==
    /\ vendor = "nikon"
    /\ nikon_capture_sdram(size) \/ (stocked /\ capture_card(size))
    /\ UNCHANGED <<settings, destination, shutter, job, album, discarded>>

\* Sony's 0xD2C2 control, value 2.
SonyPress ==
    /\ vendor = "sony"
    /\ full_pressed' = TRUE
    /\ focus' = 2
    /\ UNCHANGED <<settings, destination, store, sdram, in_memory, offers, job,
                   sizes, album, discarded>>

\* Any other value: the picture is taken if the shutter was pressed (a second
\* release changes nothing); it replaces the one in memory.
SonyRelease(size) ==
    /\ vendor = "sony"
    /\ full_pressed
    /\ full_pressed' = FALSE
    /\ sdram' = Picture(FixedHandle, size)
    /\ in_memory' = TRUE
    /\ focus' = 1
    /\ Announce(Picture(FixedHandle, size))
    /\ UNCHANGED <<settings, destination, store, job, album, discarded>>

-----------------------------------------------------------------------------
(* Serving pictures *)

lookup_virtual_object(h) == IF sdram.pic # 0 /\ sdram.handle = h THEN {sdram} ELSE {}

find_dirent(h) == {p \in card : p.handle = h}

\* The object an operation serves for a handle, at most one: GetPartialObject
\* looks at the card first, the vendors' operations at the memory first.
Served(op, h) ==
    LET mem == lookup_virtual_object(h)
        file == find_dirent(h)
    IN  IF op = "GetPartialObject" THEN (IF file # {} THEN file ELSE mem)
                                   ELSE (IF mem # {} THEN mem ELSE file)

PartOps ==
    CASE vendor = "canon" -> {"GetPartialObject", "EosGetPartialObject"}
      [] vendor = "nikon" -> {"GetPartialObject", "NikonGetPartialObjectEx"}
      [] vendor = "sony"  -> {"GetPartialObject"}

ChunkOf(op) ==
    CASE op = "GetPartialObject"        -> PtpChunk
      [] op = "EosGetPartialObject"     -> EosChunk
      [] op = "NikonGetPartialObjectEx" -> NikonChunk

MinOf(a, b) == IF a < b THEN a ELSE b

\* Mutant: the length is not limited by the end of the object.
tocopy_past_end(op, size, offset, reqsize) == MinOf(reqsize, ChunkOf(op))

\* Mutant: the last unit of the object is held back.
tocopy_short(op, size, offset, reqsize) ==
    MinOf(MinOf(reqsize, ChunkOf(op)), MinOf(size - offset, size - offset - 1))

\* Length of the part that is sent.
tocopy(op, size, offset, reqsize) ==
    LET start == MinOf(offset, size)
    IN  MinOf(MinOf(reqsize, ChunkOf(op)), size - start)

\* TransferComplete, DeleteObject, DelImageSDRAM and Sony's GetObject free the
\* picture and clear the whole record.
free_sdram == NoPicture

-----------------------------------------------------------------------------
(* The client *)

Idle == job = NoJob

ReadEvent ==
    /\ Idle
    /\ offers # <<>>
    /\ offers' = Tail(offers)
    /\ job' = [NoJob EXCEPT !.offer = Head(offers),
                            !.phase = IF vendor = "canon" THEN "fetch" ELSE "info",
                            !.size = IF vendor = "canon" THEN Head(offers).size ELSE 0]
    /\ UNCHANGED <<settings, destination, store, sdram, shutter, sizes, album, discarded>>

\* GetObjectInfo or Nikon's GetObjectSize (EOS events carry the size).
getobjectinfo ==
    LET found == Served("GetObjectInfo", job.offer.handle)
    IN  /\ job.phase = "info"
        /\ \/ /\ found = {}
              /\ job' = NoJob
           \/ \E p \in found :
                 job' = [job EXCEPT !.phase = "fetch", !.size = p.size]
        /\ UNCHANGED <<settings, destination, store, sdram, shutter, offers,
                       sizes, album, discarded>>

\* A partial transfer from where the client is; an invalid handle ends the
\* download.
serve_partial(op, reqsize) ==
    LET found == Served(op, job.offer.handle)
    IN  /\ job.phase = "fetch"
        /\ job.got < job.size
        /\ \/ /\ found = {}
              /\ job' = NoJob
           \/ \E p \in found :
                 job' = [job EXCEPT !.got = @ + tocopy(op, p.size, job.got, reqsize),
                                    !.from = @ \cup {p.pic}]
        /\ UNCHANGED <<settings, destination, store, sdram, shutter, offers,
                       sizes, album, discarded>>

\* Mutant: Sony's GetObject leaves ObjectInMemory set.
serve_object_keeps_flag ==
    LET found == Served("GetObject", job.offer.handle)
    IN  /\ job.phase = "fetch"
        /\ job.got = 0
        /\ \/ /\ found = {}
              /\ job' = NoJob
              /\ UNCHANGED sdram
           \/ \E p \in found :
                 /\ job' = [job EXCEPT !.got = p.size, !.from = {p.pic}]
                 /\ sdram' = IF vendor = "sony" THEN free_sdram ELSE sdram
        /\ UNCHANGED <<settings, destination, store, full_pressed, focus,
                       in_memory, offers, sizes, album, discarded>>

\* GetObject of the whole object: Sony's frees the picture and clears
\* ObjectInMemory.
serve_object ==
    LET found == Served("GetObject", job.offer.handle)
    IN  /\ job.phase = "fetch"
        /\ job.got = 0
        /\ \/ /\ found = {}
              /\ job' = NoJob
              /\ UNCHANGED <<sdram, in_memory>>
           \/ \E p \in found :
                 /\ job' = [job EXCEPT !.got = p.size, !.from = {p.pic}]
                 /\ sdram' = IF vendor = "sony" THEN free_sdram ELSE sdram
                 /\ in_memory' = (in_memory /\ vendor # "sony")
        /\ UNCHANGED <<settings, destination, store, full_pressed, focus, offers,
                       sizes, album, discarded>>

Finish ==
    /\ job.phase = "fetch"
    /\ job.got >= job.size
    /\ album' = album \cup {[offer |-> job.offer, got |-> job.got, from |-> job.from]}
    /\ job' = [job EXCEPT !.phase = "confirm"]
    /\ UNCHANGED <<settings, destination, store, sdram, shutter, offers, sizes, discarded>>

\* Mutant: TransferComplete does not look at the handle.
transfercomplete_any(h) == sdram' = free_sdram

\* Canon's TransferComplete and Nikon's DeleteObject of an SDRAM handle.
transfercomplete(h) ==
    sdram' = IF lookup_virtual_object(h) # {} THEN free_sdram ELSE sdram

\* The client confirms what it has fetched; Sony has no operation for it, and a
\* picture on the card stays there.
Confirm ==
    /\ job.phase = "confirm"
    /\ IF vendor = "sony" THEN UNCHANGED sdram
       ELSE transfercomplete(job.offer.handle)
    /\ job' = NoJob
    /\ UNCHANGED <<settings, destination, store, shutter, offers, sizes, album, discarded>>

\* Nikon's DelImageSDRAM, and the GetObject with which a client of a Sony body
\* clears a stale picture.
CleanUp ==
    /\ vendor \in {"nikon", "sony"}
    /\ Idle
    /\ sdram.pic # 0
    /\ sdram' = free_sdram
    /\ in_memory' = FALSE
    /\ discarded' = discarded \cup {sdram.pic}
    /\ UNCHANGED <<settings, destination, store, full_pressed, focus, offers,
                   job, sizes, album>>

-----------------------------------------------------------------------------

Init ==
    /\ vendor \in Vendors
    /\ stocked \in BOOLEAN
    /\ destination = "card"
    /\ folder \in BOOLEAN
    /\ ptp_objectid = Base
    /\ sdram = NoPicture
    /\ card = {}
    /\ full_pressed = FALSE
    /\ focus = 1
    /\ in_memory = FALSE
    /\ offers = <<>>
    /\ job = NoJob
    /\ sizes = <<>>
    /\ album = {}
    /\ discarded = {}

Capture ==
    /\ Taken < MaxPictures
    /\ Idle \/ vendor = "canon"
    /\ \E size \in Sizes :
          eos_capture_trigger(size) \/ nikon_do_capture(size) \/ SonyRelease(size)

SetDestination == \E d \in {"card", "sdram"} : ptp_eos_set_property_data(d)

Fetch == serve_object \/ \E op \in PartOps, n \in PartSizes : serve_partial(op, n)

ClientStep == getobjectinfo \/ Fetch \/ Finish \/ Confirm

Next ==
    \/ Capture
    \/ SonyPress
    \/ SetDestination
    \/ ReadEvent
    \/ ClientStep
    \/ CleanUp

\* A client goes through with the download it has begun.
Fairness == WF_vars(ClientStep)

Spec == Init /\ [][Next]_vars /\ Fairness

-----------------------------------------------------------------------------
(* Properties *)

Pictures == [pic : 1 .. Taken, handle : Nat \ {0}, size : Sizes]

\* Every variable keeps its type; a picture record that is not in use is clear.
TypeOK ==
    /\ vendor \in Vendors
    /\ stocked \in BOOLEAN
    /\ destination \in {"card", "sdram"}
    /\ folder \in BOOLEAN
    /\ ptp_objectid \in Nat
    /\ sdram \in Pictures \cup {NoPicture}
    /\ card \subseteq Pictures
    /\ full_pressed \in BOOLEAN
    /\ focus \in {1, 2}
    /\ in_memory \in BOOLEAN
    /\ offers \in Seq(Pictures)
    /\ job.offer \in Pictures \cup {NoPicture}
    /\ job.phase \in {"none", "info", "fetch", "confirm"}
    /\ job.size \in Nat
    /\ job.got \in Nat
    /\ job.from \subseteq 1 .. Taken
    /\ sizes \in Seq(Sizes)
    /\ discarded \subseteq 1 .. Taken

\* Every finished download is one whole picture, although the parts are served
\* by operations with different limits while pictures come and go.
PicturesWhole ==
    \A d \in album : \E p \in 1 .. Taken : d.from = {p} /\ d.got = sizes[p]

\* A download brings the picture its announcement was about or, where all
\* pictures have the same handle, a newer one ("Real bodies keep the newest
\* SDRAM image"); never an older one, and on a Canon body never another one.
OfferedIsServed ==
    \A d \in album : \A p \in d.from :
        /\ p >= d.offer.pic
        /\ d.offer.handle # FixedHandle => p = d.offer.pic

\* The picture in memory never hides, or is hidden by, an object of the card:
\* the two kinds of capture draw handles from one counter, and operations
\* differ in where they look first.
HandlesDisjoint ==
    /\ \A p \in card : find_dirent(p.handle) = {p}
    /\ sdram.pic # 0 => find_dirent(sdram.handle) = {}

\* ObjectInMemory tells the client of a Sony body whether there is a picture,
\* and FocusFound whether the shutter is down, through presses, releases,
\* captures on top of a pending picture and both ways to fetch.
SonyFlags ==
    vendor = "sony" =>
        /\ in_memory = (sdram.pic # 0)
        /\ (focus = 2) = full_pressed

Delivered == job.from \cup UNION {d.from : d \in album}

\* "the object lives only in memory until it is downloaded and confirmed with
\* TransferComplete" (canon.c): memory is emptied only of a picture the client
\* has, or has thrown away itself - confirming one never discards another.
EmptiedIsDelivered ==
    [][sdram.pic # 0 /\ sdram'.pic = 0 =>
          sdram.pic \in Delivered' \cup discarded']_vars

\* A download ends, by the last part or by a refusal.
DownloadEnds == (job.phase # "none") ~> (job.phase = "none")

\* Every finished download is one whole picture, and the one its announcement
\* was about (or a newer one where all share a handle).
DownloadsRight == PicturesWhole /\ OfferedIsServed

\* The memory slot is sound: it never hides or is hidden by an object of the
\* card, and Sony's properties say truly whether it is in use.
MemorySound == TypeOK /\ HandlesDisjoint /\ SonyFlags

==============================================================================
