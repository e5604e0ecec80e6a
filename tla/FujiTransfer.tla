---------------------------- MODULE FujiTransfer ----------------------------
(***************************************************************************)
(* Fuji's multiple-transfer mode (fuji.c): the user has selected images on *)
(* the camera, and the camera offers them one after the other as the       *)
(* object with handle 1. The client downloads it with GetPartialObject;    *)
(* when the part it asked for reaches the end of the object, the camera    *)
(* moves handle 1 on and announces the next image.                         *)
(*                                                                         *)
(* The list is the one read_tree makes of a card without a DCIM directory: *)
(* the added DCIM entry, the images from the newest to the oldest, the     *)
(* root; the head pointer cam->first_dirent is an index into it. Sizes are *)
(* in units of a fraction of PTP_MAX_PARTIAL_OBJECT_CHUNK.                 *)
(***************************************************************************)
EXTENDS Integers, Sequences, FiniteSetsExt

CONSTANTS
    Sizes,       \* sizes an image may have
    MaxChunk,    \* PTP_MAX_PARTIAL_OBJECT_CHUNK
    PartSizes,   \* part sizes clients ask for
    ImageCounts, \* numbers of images on the card
    LastImage    \* value of sent_images that ends the transfer, 3 in the code

\* An image and a part have at least one byte, and the card an image.
ASSUME TransferAssumption ==
    /\ Sizes \subseteq Nat \ {0}
    /\ MaxChunk \in Nat \ {0}
    /\ PartSizes \subseteq Nat \ {0}
    /\ ImageCounts \subseteq Nat \ {0}
    /\ LastImage \in Nat

VARIABLES
    size,          \* st_size of the images, newest first
    ids,           \* ids[e]: handles
    first,         \* cam->first_dirent
    sent_images,   \* f->sent_images
    kill,          \* cam->next_cmd_kills_connection
    connected,     \* FALSE once the process has exited
    offers,        \* SelectedImgsMode events the client has not consumed yet
    phase,         \* client: "idle", "info", "download"
    want,          \* client: size of the image, from GetObjectInfo
    parts,         \* client: parts received of this image
    album          \* client: finished images, each the sequence of its parts

camera == <<size, ids, first, sent_images, kill, connected>>
transfer_client == <<phase, want, parts, album>>
transfer_vars == <<camera, offers, transfer_client>>

Images == Len(size)

Entries == 1 .. Images + 2

IsFile(e) == e \in 2 .. Images + 1

SizeOf(e) == size[e - 1]

-----------------------------------------------------------------------------
(* Looking handles up: from the head of the list, first match *)

Matches(h) == {e \in Entries : e >= first /\ ids[e] = h}

\* fuji_find_downloadable_object; 0 if there is none.
fuji_find_downloadable_object(h) ==
    LET files == {e \in Matches(h) : h # 0 /\ IsFile(e)}
    IN  IF files = {} THEN 0 ELSE Min(files)

\* The entry the standard operations find: any kind.
find_object(h) == Min(Matches(h))

-----------------------------------------------------------------------------
(* GetPartialObject *)

MinOf(a, b) == IF a < b THEN a ELSE b

\* What the standard handler sends.
partial_size(objectSize, start, requested) ==
    IF start < objectSize
      THEN MinOf(MinOf(requested, MaxChunk), objectSize - start) ELSE 0

\* Mutant: the last byte of the object is not counted.
completed_off_by_one(objectSize, start, requested) ==
    start + MinOf(requested, objectSize - start) > objectSize

\* Whether Fuji's wrapper takes the download for complete; it computes the
\* length of the part itself, without the cap on requested.
completed(objectSize, start, requested) ==
    \/ start >= objectSize
    \/ start + MinOf(requested, objectSize - start) >= objectSize

\* Mutant: the next image is not announced.
downloaded_silently ==
    /\ first' = first + 1
    /\ ids' = [ids EXCEPT ![first + 1] = 1]
    /\ kill' = (kill \/ sent_images = LastImage)
    /\ sent_images' = sent_images + 1
    /\ offers' = offers

\* The head of the list is dropped and its successor gets handle 1.
fuji_downloaded_object ==
    /\ first' = first + 1
    /\ ids' = [ids EXCEPT ![first + 1] = 1]
    /\ kill' = (kill \/ sent_images = LastImage)
    /\ sent_images' = sent_images + 1
    /\ offers' = offers + 1

ptp_fuji_getpartialobject_write(start, requested) ==
    LET obj == find_object(1)
        cur == fuji_find_downloadable_object(1)
        len == IF IsFile(obj) THEN partial_size(SizeOf(obj), start, requested) ELSE 0
    IN  /\ parts' = Append(parts, [obj |-> obj, start |-> start, len |-> len])
        /\ IF cur # 0 /\ completed(SizeOf(cur), start, requested)
             THEN fuji_downloaded_object
             ELSE UNCHANGED <<ids, first, sent_images, kill, offers>>
        /\ UNCHANGED <<size, connected, want, album>>

\* vcam_process_output on the command after the last image: exit(0).
KillConnection ==
    /\ connected
    /\ kill
    /\ connected' = FALSE
    /\ UNCHANGED <<size, ids, first, sent_images, kill, offers, transfer_client>>

-----------------------------------------------------------------------------
(* The client: waits for an offer, asks for the size, fetches parts up to it *)

Received == IF parts = <<>> THEN 0
            ELSE parts[Len(parts)].start + parts[Len(parts)].len

TakeOffer ==
    /\ connected
    /\ phase = "idle"
    /\ offers > 0
    /\ offers' = offers - 1
    /\ phase' = "info"
    /\ UNCHANGED <<camera, want, parts, album>>

\* GetObjectInfo of handle 1; a directory ends the transfer.
GetObjectInfo ==
    /\ connected
    /\ ~kill
    /\ phase = "info"
    /\ want' = IF IsFile(find_object(1)) THEN SizeOf(find_object(1)) ELSE 0
    /\ phase' = IF IsFile(find_object(1)) THEN "download" ELSE "idle"
    /\ UNCHANGED <<camera, offers, parts, album>>

GetPart(requested) ==
    /\ connected
    /\ ~kill
    /\ phase = "download"
    /\ Received < want
    /\ ptp_fuji_getpartialobject_write(Received, requested)
    /\ UNCHANGED phase

Finish ==
    /\ phase = "download"
    /\ Received >= want
    /\ album' = Append(album, parts)
    /\ parts' = <<>>
    /\ want' = 0
    /\ phase' = "idle"
    /\ UNCHANGED <<camera, offers>>

-----------------------------------------------------------------------------

\* vcam_fuji_setup: the second entry of the list gets handle 1, the mode is
\* announced. The scan numbered the images from the oldest, 1, to the newest.
TransferInit ==
    /\ \E n \in ImageCounts : size \in [1 .. n -> Sizes]
    /\ ids = [e \in Entries |-> CASE e = 1 -> Images + 1
                                  [] e = 2 -> 1
                                  [] OTHER -> Images + 2 - e]
    /\ first = 1
    /\ sent_images = 0
    /\ kill = FALSE
    /\ connected = TRUE
    /\ offers = 1
    /\ phase = "idle"
    /\ want = 0
    /\ parts = <<>>
    /\ album = <<>>

Part == \E requested \in PartSizes : GetPart(requested)

TransferNext == TakeOffer \/ GetObjectInfo \/ Part \/ Finish \/ KillConnection

\* A client goes through with the download it has begun, and its next command
\* after the last image meets the kill switch.
TransferFairness == WF_transfer_vars(TransferNext)

TransferSpec == TransferInit /\ [][TransferNext]_transfer_vars /\ TransferFairness

-----------------------------------------------------------------------------
(* Properties *)

PartType == [obj : Entries, start : Nat, len : Nat]

\* Every variable keeps its type; the head pointer stays inside the list.
TransferTypeOK ==
    /\ size \in Seq(Sizes)
    /\ ids \in [Entries -> Nat]
    /\ first \in Entries
    /\ sent_images \in Nat
    /\ kill \in BOOLEAN
    /\ connected \in BOOLEAN
    /\ offers \in Nat
    /\ phase \in {"idle", "info", "download"}
    /\ want \in Nat
    /\ parts \in Seq(PartType)
    /\ album \in Seq(Seq(PartType))

\* The parts of an image are parts of one object.
OneObject(ps) == \A i, j \in DOMAIN ps : ps[i].obj = ps[j].obj

\* "once a partialtransfer or object is completely downloaded"
\* (fuji_downloaded_object): handle 1 moves on only when the client has the
\* whole object, so every image the client puts together is one object, end to
\* end, and not the front of one and the rest of the next.
ImagesIntact ==
    \A i \in DOMAIN album :
        /\ OneObject(album[i])
        /\ LET last == album[i][Len(album[i])]
           IN  last.start + last.len = SizeOf(last.obj)

\* The client never has more finished images than the camera counts as sent,
\* and at most the one it is closing fewer: the two ends agree on where the
\* sequence is, whatever the part sizes.
CountsAgree ==
    /\ Len(album) <= sent_images
    /\ sent_images <= Len(album) + 1

\* The transfer ends: the camera hangs up after the image numbered LastImage,
\* or has no image left to offer.
TransferEnds == <>(~connected \/ fuji_find_downloadable_object(1) = 0)

\* "the camera 'deletes' the first object and replaces it with the second
\* object" (fuji_downloaded_object): no image is offered twice.
NoImageTwice ==
    \A i, j \in DOMAIN album :
        album[i][1].obj = album[j][1].obj => i = j

\* The multiple transfer is exact: each image the client puts together is one
\* whole object, and both ends agree on where the sequence is.
TransferExact == TransferTypeOK /\ ImagesIntact /\ CountsAgree

==============================================================================
