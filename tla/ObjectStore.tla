----------------------------- MODULE ObjectStore -----------------------------
(***************************************************************************)
(* The object list of a camera (cam->first_dirent): read_tree builds it    *)
(* from the card directory, captures put virtual folders and pictures in   *)
(* front of it, DeleteObject unlinks entries, and the other object         *)
(* operations look handles up in it. A session is open; requests and       *)
(* responses travel as in module Responder, one operation at a time.       *)
(*                                                                         *)
(* A dirent is a record; a pointer to a dirent is its handle, which        *)
(* HandlesUnique justifies. Names are abstracted to the classes the code   *)
(* tells apart. Sony bodies refuse captures and deletes of this kind.      *)
(***************************************************************************)
EXTENDS Integers, Sequences, SequencesExt, FiniteSetsExt

CONSTANTS
    Cards,         \* card directories: sequences of [name, kind, parent], in
                   \* readdir order, parent being a position or 0 for the root
    Vendors,       \* camera families of the run
    AllHandles,    \* 0xffffffff, above every handle
    DeleteAllAfterCapture, \* clients may send DeleteObject(0xffffffff) when
                   \* virtual folders exist
    MaxCaptures    \* bound: successful captures

NoObject == -1

Kinds == {"dir", "jpg", "other"}

\* The names the code looks for are names of folders.
FolderNames == {"DCIM", "GPHOT", "NIKON"}

CardNames == UNION {{card[i].name : i \in DOMAIN card} : card \in Cards}

\* Cards are directory trees read top down; the folders the camera itself looks
\* for are not files, and "PIC" stands for the names captures generate.
ASSUME ConstantsAssumption ==
    /\ \A card \in Cards :
          /\ card \in Seq([name : CardNames, kind : Kinds, parent : Nat])
          /\ \A i \in 1 .. Len(card) :
                /\ card[i].parent < i
                /\ card[i].parent # 0 => card[card[i].parent].kind = "dir"
                /\ card[i].name \in FolderNames => card[i].kind = "dir"
                /\ card[i].name # "PIC"
    /\ Vendors \subseteq {"canon", "fuji", "nikon"}
    /\ AllHandles \in Nat
    /\ DeleteAllAfterCapture \in BOOLEAN
    /\ MaxCaptures \in Nat

VARIABLES
    vendor,        \* the camera's family
    list,          \* cam->first_dirent, first entry first
    ptp_objectid,  \* cam->ptp_objectid
    resp,          \* the last answer: operation and response code
    alive,         \* FALSE once the process has died
    announced,     \* history: handles in ObjectAdded events, in order
    taken,         \* history: successful captures
    known          \* handles the client got from the camera and did not delete

vars == <<vendor, list, ptp_objectid, resp, alive, announced, taken, known>>

-----------------------------------------------------------------------------
(* Building the list *)

Dirent(id, name, kind, parent) ==
    [id |-> id, name |-> name, kind |-> kind, parent |-> parent,
     virtual |-> FALSE]

\* A folder that only exists in the list.
VirtualFolder(id, name, parent) ==
    [id |-> id, name |-> name, kind |-> "dir", parent |-> parent,
     virtual |-> TRUE]

Root == Dirent(0, "", "dir", NoObject)

IsDcim(d) == d.name = "DCIM" /\ d.parent = 0

\* read_directories gives handles in readdir order, each new entry in front.
read_directories(card) ==
    Reverse([i \in DOMAIN card |->
                Dirent(i, card[i].name, card[i].kind, card[i].parent)])

\* Mutant: a card without DCIM is left as it is.
read_tree_no_dcim(card) ==
    [list |-> Append(read_directories(card), Root), next |-> Len(card) + 1]

read_tree(card) ==
    LET scanned == Append(read_directories(card), Root)
        n == Len(card) + 1
    IN  IF \E i \in DOMAIN scanned : IsDcim(scanned[i])
          THEN [list |-> scanned, next |-> n]
          ELSE [list |-> <<Dirent(n, "DCIM", "dir", 0)>> \o scanned, next |-> n + 1]

-----------------------------------------------------------------------------
(* Looking up *)

\* Position of the first entry with a handle, 0 if there is none.
find_dirent(h) == SelectInSeq(list, LAMBDA d : d.id = h)

\* The last DCIM directory of the list, NoObject if there is none.
find_dcim == LET i == SelectLastInSeq(list, IsDcim)
             IN  IF i = 0 THEN NoObject ELSE list[i].id

\* The folder captures go to, NoObject if it does not exist yet.
find_folder(name, dcim) ==
    LET i == SelectInSeq(list, LAMBDA d : d.name = name /\ d.parent = dcim)
    IN  IF i = 0 THEN NoObject ELSE list[i].id

HasJpg == \E i \in DOMAIN list : list[i].kind = "jpg"

-----------------------------------------------------------------------------
(* Capturing *)

Answer(op, code) == resp' = [op |-> op, code |-> code]

Refuse(op, code) ==
    /\ Answer(op, code)
    /\ UNCHANGED <<vendor, list, ptp_objectid, alive, announced, taken, known>>

\* Puts picture id below folder dirid in front of the list, and the folder too
\* if it is new. The standard operation announces a new folder and the picture,
\* Canon's and Nikon's only the picture.
PutPicture(folder, announceFolder, isNew, dirid, id) ==
    LET dir == VirtualFolder(dirid, folder, find_dcim)
    IN  /\ list' = <<Dirent(id, "PIC", "jpg", dirid)>>
                   \o (IF isNew THEN <<dir>> ELSE <<>>) \o list
        /\ announced' = announced
                   \o (IF isNew /\ announceFolder THEN <<dirid>> ELSE <<>>) \o <<id>>
        /\ taken' = taken + 1

\* Mutant: handles are taken from the highest one in the list.
AddPicture_reuse(folder, announceFolder) ==
    LET top == Max({list[i].id : i \in DOMAIN list})
        old == find_folder(folder, find_dcim)
        isNew == old = NoObject
        dirid == IF isNew THEN top + 1 ELSE old
        id == IF isNew THEN top + 2 ELSE top + 1
    IN  /\ PutPicture(folder, announceFolder, isNew, dirid, id)
        /\ ptp_objectid' = id

AddPicture(folder, announceFolder) ==
    LET old == find_folder(folder, find_dcim)
        isNew == old = NoObject
        dirid == IF isNew THEN ptp_objectid + 1 ELSE old
        id == IF isNew THEN ptp_objectid + 2 ELSE ptp_objectid + 1
    IN  /\ PutPicture(folder, announceFolder, isNew, dirid, id)
        /\ ptp_objectid' = id

Die ==
    /\ alive' = FALSE
    /\ UNCHANGED <<vendor, list, ptp_objectid, resp, announced, taken, known>>

\* InitiateCapture. capcnt is a local variable: it is 98 on every
\* call, so neither of the store-full branches (capcnt > 150 before, and
\* capcnt = 150 after the folder is made) is ever taken. The DCIM pointer
\* is dereferenced without a check.
ptp_initiatecapture_write ==
    \/ /\ ~HasJpg
       /\ Refuse("InitiateCapture", "StoreNotAvailable")
    \/ /\ HasJpg
       /\ IF find_dcim = NoObject THEN Die
          ELSE /\ AddPicture("GPHOT", TRUE)
               /\ Answer("InitiateCapture", "OK")
               /\ UNCHANGED <<vendor, alive, known>>

\* Canon's release button and Nikon's capture to card do check DCIM. Canon's
\* handler answers OK either way and only the missing event tells.
VendorCapture(folder, refusal) ==
    \/ /\ ~HasJpg \/ find_dcim = NoObject
       /\ Refuse("Capture", refusal)
    \/ /\ HasJpg
       /\ find_dcim # NoObject
       /\ AddPicture(folder, FALSE)
       /\ Answer("Capture", "OK")
       /\ UNCHANGED <<vendor, alive, known>>

eos_capture_trigger == vendor = "canon" /\ VendorCapture("GPHOT", "OK")

nikon_capture_card == vendor = "nikon" /\ VendorCapture("NIKON", "StoreNotAvailable")

-----------------------------------------------------------------------------
(* Deleting *)

\* Mutant: directories are deleted like files.
deleteobject_any_kind(h) ==
    LET i == find_dirent(h)
    IN  \/ /\ i = 0
           /\ Refuse("DeleteObject", "InvalidObjectHandle")
        \/ /\ i # 0
           /\ list' = RemoveAt(list, i)
           /\ known' = known \ {h}
           /\ Answer("DeleteObject", "OK")
           /\ UNCHANGED <<vendor, ptp_objectid, alive, announced, taken>>

\* Mutant: unlinking loses the entries in front of the deleted one.
deleteobject_loses_front(h) ==
    LET i == find_dirent(h)
    IN  \/ /\ i = 0
           /\ Refuse("DeleteObject", "InvalidObjectHandle")
        \/ /\ i # 0
           /\ list[i].kind = "dir"
           /\ Refuse("DeleteObject", "ObjectWriteProtected")
        \/ /\ i # 0
           /\ list[i].kind # "dir"
           /\ list' = SubSeq(list, i + 1, Len(list))
           /\ known' = known \ {h}
           /\ Answer("DeleteObject", "OK")
           /\ UNCHANGED <<vendor, ptp_objectid, alive, announced, taken>>

DeleteOne(h) ==
    LET i == find_dirent(h)
    IN  \/ /\ i = 0
           /\ Refuse("DeleteObject", "InvalidObjectHandle")
        \/ /\ i # 0
           /\ list[i].kind = "dir"
           /\ Refuse("DeleteObject", "ObjectWriteProtected")
        \/ /\ i # 0
           /\ list[i].kind # "dir"
           /\ list' = RemoveAt(list, i)
           /\ known' = known \ {h}
           /\ Answer("DeleteObject", "OK")
           /\ UNCHANGED <<vendor, ptp_objectid, alive, announced, taken>>

\* Every entry is freed, fsname included; that of a virtual folder is a string
\* literal, and free() of it aborts the process.
DeleteAll ==
    LET virtual == \E i \in DOMAIN list : list[i].virtual
    IN  /\ virtual => DeleteAllAfterCapture
        /\ IF virtual THEN Die
           ELSE /\ list' = <<>>
                /\ known' = {}
                /\ Answer("DeleteObject", "OK")
                /\ UNCHANGED <<vendor, ptp_objectid, alive, announced, taken>>

ptp_deleteobject_write(h) == IF h = AllHandles THEN DeleteAll ELSE DeleteOne(h)

\* Nikon's own handler comes first and takes every handle with the upper 16 bits
\* set for an SDRAM object, of which there is none here: delete-all is refused.
nikon_deleteobject(h) ==
    IF vendor = "nikon" /\ h = AllHandles
      THEN Refuse("DeleteObject", "InvalidObjectHandle")
      ELSE ptp_deleteobject_write(h)

-----------------------------------------------------------------------------
(* Listing and reading *)

\* The handles GetObjectHandles returns and GetNumObjects counts: 0 stands for
\* all objects, 0xffffffff for the root directory.
HandlesBelow(mode) ==
    LET at(i) == CASE mode = 0          -> TRUE
                   [] mode = AllHandles -> list[i].parent = 0
                   [] OTHER             -> list[i].parent = mode
    IN  {list[i].id : i \in {j \in DOMAIN list : list[j].id # 0 /\ at(j)}}

ptp_getobjecthandles_write(mode) ==
    LET i == find_dirent(mode)
        whole == mode \in {0, AllHandles}
    IN  \/ /\ ~whole
           /\ i = 0
           /\ Refuse("GetObjectHandles", "InvalidObjectHandle")
        \/ /\ ~whole
           /\ i # 0
           /\ list[i].kind # "dir"
           /\ Refuse("GetObjectHandles", "InvalidParentObject")
        \/ /\ whole \/ (i # 0 /\ list[i].kind = "dir")
           /\ known' = known \cup HandlesBelow(mode)
           /\ Answer("GetObjectHandles", "OK")
           /\ UNCHANGED <<vendor, list, ptp_objectid, alive, announced, taken>>

\* GetObjectInfo, GetObject, GetPartialObject and GetThumb on a listed handle.
\* A directory has info but no bytes; a file may lack a thumbnail or be empty,
\* and then nothing is read from it.
Readers == {"GetObjectInfo", "GetObject", "GetPartialObject", "GetThumb"}

ReadCodes(op, d) ==
    CASE op = "GetObjectInfo"                   -> {"OK"}
      [] op = "GetThumb" /\ d.kind # "dir"      -> {"OK", "NoThumbnailPresent"}
      [] op = "GetThumb" /\ d.kind = "dir"      -> {"NoThumbnailPresent"}
      [] op = "GetObject" /\ d.kind = "dir"     -> {"GeneralError"}
      [] op = "GetObject" /\ d.kind # "dir"     -> {"OK", "GeneralError"}
      [] op = "GetPartialObject" /\ d.virtual   -> {"GeneralError"}
      [] OTHER                                  -> {"OK"}

ReadObject(op, h) ==
    LET i == find_dirent(h)
    IN  \/ /\ i = 0
           /\ Refuse(op, "InvalidObjectHandle")
        \/ /\ i # 0
           /\ \E code \in ReadCodes(op, list[i]) : Refuse(op, code)

\* A wrong parameter count, storage id, format or filter is refused before the
\* list is looked at.
ArgumentErrors ==
    [op : {"InitiateCapture"},
     code : {"GeneralError", "StoreNotAvailable", "InvalidObjectFormatCode"}]
    \cup [op : {"GetObjectHandles"},
          code : {"InvalidParameter", "InvalidStorageId", "SpecByFormatUnsupported"}]
    \cup [op : {"DeleteObject"}, code : {"InvalidParameter"}]
    \cup [op : Readers, code : {"GeneralError"}]

RefuseArguments ==
    /\ alive
    /\ \E e \in ArgumentErrors : Refuse(e.op, e.code)

\* The event of a capture tells the client a handle, which it may already have
\* found in a listing and deleted.
ReceiveEvent ==
    /\ alive
    /\ announced # <<>>
    /\ known' = known \cup ({Last(announced)} \cap {list[i].id : i \in DOMAIN list})
    /\ UNCHANGED <<vendor, list, ptp_objectid, resp, alive, announced, taken>>

-----------------------------------------------------------------------------

Init ==
    /\ vendor \in Vendors
    /\ \E card \in Cards :
          /\ list = read_tree(card).list
          /\ ptp_objectid = read_tree(card).next
    /\ resp = [op |-> "none", code |-> "OK"]
    /\ alive = TRUE
    /\ announced = <<>>
    /\ taken = 0
    /\ known = {}

\* Handles a client may send: any that has been in use, and one that has not.
Handles == 1 .. ptp_objectid + 1

Capture ==
    /\ alive
    /\ taken < MaxCaptures
    /\ ptp_initiatecapture_write \/ eos_capture_trigger \/ nikon_capture_card

Delete ==
    /\ alive
    /\ \E h \in Handles \cup {AllHandles} : nikon_deleteobject(h)

Enumerate ==
    /\ alive
    /\ \E mode \in Handles \cup {0, AllHandles} : ptp_getobjecthandles_write(mode)

Read ==
    /\ alive
    /\ \E op \in Readers, h \in Handles : ReadObject(op, h)

Next == Capture \/ Delete \/ Enumerate \/ Read \/ RefuseArguments \/ ReceiveEvent

Spec == Init /\ [][Next]_vars

-----------------------------------------------------------------------------
(* Properties *)

Codes == {"OK", "StoreNotAvailable", "InvalidObjectHandle",
          "ObjectWriteProtected", "InvalidParentObject", "GeneralError",
          "NoThumbnailPresent", "InvalidObjectFormatCode", "InvalidParameter",
          "InvalidStorageId", "SpecByFormatUnsupported"}

\* Every variable keeps its type; only the root has no parent.
TypeOK ==
    /\ vendor \in Vendors
    /\ \A i \in DOMAIN list :
          /\ list[i].id \in Nat
          /\ list[i].kind \in Kinds
          /\ list[i].parent = NoObject <=> list[i].id = 0
    /\ ptp_objectid \in Nat
    /\ resp.code \in Codes
    /\ alive \in BOOLEAN
    /\ announced \in Seq(Nat)
    /\ taken \in Nat
    /\ known \subseteq Nat

Listed == {list[i].id : i \in DOMAIN list}

\* A handle designates one object, although the scan hands out ptp_objectid++
\* and the captures ++ptp_objectid.
HandlesUnique ==
    \A i, j \in DOMAIN list : list[i].id = list[j].id => i = j

\* Parent pointers never dangle: cur->parent->id is dereferenced for every
\* listed object (GetNumObjects, GetObjectHandles, GetObjectInfo), and leads to
\* the root because a parent is always older than its children.
ParentsListed ==
    \A i \in DOMAIN list : list[i].id # 0 =>
        \E j \in DOMAIN list :
            /\ list[j].id = list[i].parent
            /\ list[j].kind = "dir"
            /\ list[j].id < list[i].id

\* The process survives: in particular InitiateCapture, which dereferences the
\* DCIM entry unchecked, never meets a list with a picture and without DCIM.
NeverCrashes == alive

\* A handle the client was given and did not delete stays valid, whatever is
\* captured or deleted meanwhile.
KnownStaysValid ==
    known \subseteq Listed

\* No operation that answers OK to a delete brings the handle back later: a
\* handle that is not listed and not above the counter never denotes a new
\* object, so a late request for a deleted object cannot hit another one.
HandlesNotReused ==
    [][\A h \in Listed' \ Listed : h > ptp_objectid]_vars

\* Every picture a capture has put in the list is announced, once: a client
\* that follows ObjectAdded events misses none and fetches none twice.
CapturesAnnounced ==
    /\ \A i, j \in DOMAIN announced : announced[i] = announced[j] => i = j
    /\ \A i \in DOMAIN list : list[i].name = "PIC" => list[i].id \in Range(announced)

\* ops.c, DeleteObject of 0xffffffff: "delete all mode".
DeleteAllSurvives == alive

\* The object list is a tree: handles are unique, and every parent pointer leads
\* to an older listed folder.
ListSound == TypeOK /\ HandlesUnique /\ ParentsListed

\* What a client knows stays usable: handles it was given stay valid, and every
\* picture taken is announced to it exactly once.
ClientInformed == KnownStaysValid /\ CapturesAnnounced

==============================================================================
