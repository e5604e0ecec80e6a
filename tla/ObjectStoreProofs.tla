-------------------------- MODULE ObjectStoreProofs --------------------------
(***************************************************************************)
(* Proofs about the object list, for every card, every family of cameras   *)
(* and any number of captures, deletes and listings.                       *)
(***************************************************************************)
EXTENDS ObjectStore, SeqLemmas

-----------------------------------------------------------------------------
(* The inductive invariant *)

\* Names of entries: those of the card, of the root and of captures.
Names == CardNames \cup FolderNames \cup {"", "PIC"}

\* Entries of the list: only the root has no parent, and what the searches of
\* the capture code may find by name is a folder.
Dirents ==
    {d \in [id : Nat, name : Names, kind : Kinds,
            parent : Nat \cup {NoObject}, virtual : BOOLEAN] :
        /\ d.parent = NoObject <=> d.id = 0
        /\ d.name \in FolderNames => d.kind = "dir"}

StoreType ==
    /\ vendor \in Vendors
    /\ list \in Seq(Dirents)
    /\ ptp_objectid \in Nat
    /\ resp.code \in Codes
    /\ alive \in BOOLEAN
    /\ announced \in Seq(Nat)
    /\ taken \in Nat
    /\ known \subseteq Nat

\* No handle in the list or in an event is above the counter.
CounterAhead ==
    /\ \A i \in 1 .. Len(list) : list[i].id <= ptp_objectid
    /\ \A i \in 1 .. Len(announced) : announced[i] <= ptp_objectid

\* A list with a picture has its DCIM folder.
DcimKept == HasJpg => \E i \in 1 .. Len(list) : IsDcim(list[i])

TreeInv == StoreType /\ CounterAhead /\ HandlesUnique /\ ParentsListed /\ DcimKept

IInv == TreeInv /\ KnownStaysValid /\ CapturesAnnounced

\* What makes a record an entry.
LEMMA DirentsIntro ==
    ASSUME NEW id \in Nat, NEW name \in Names, NEW kind \in Kinds,
           NEW parent \in Nat \cup {NoObject}, NEW virtual \in BOOLEAN,
           parent = NoObject <=> id = 0,
           name \in FolderNames => kind = "dir"
    PROVE  [id |-> id, name |-> name, kind |-> kind, parent |-> parent,
            virtual |-> virtual] \in Dirents
BY DEF Dirents

-----------------------------------------------------------------------------
(* Lookups *)

\* A lookup finds an entry with the handle whenever there is one.
LEMMA FindDirent ==
    ASSUME StoreType, NEW h
    PROVE  /\ find_dirent(h) \in 0 .. Len(list)
           /\ find_dirent(h) # 0 => list[find_dirent(h)].id = h
<1> DEFINE I == {i \in 1 .. Len(list) : list[i].id = h}
<1>1. find_dirent(h) = IF I # {} THEN Min(I) ELSE 0
  BY DEF find_dirent, SelectInSeq
<1>2. Len(list) \in Nat /\ I \subseteq 1 .. Len(list)
  BY DEF StoreType
<1>3. /\ find_dirent(h) \in 0 .. Len(list)
      /\ find_dirent(h) # 0 => find_dirent(h) \in I
  <2> HIDE DEF I
  <2> QED BY <1>1, <1>2, FirstMatch
<1> QED BY <1>3

\* find_dcim is the handle of a listed DCIM folder, or there is none.
LEMMA FindDcim ==
    ASSUME StoreType
    PROVE  /\ find_dcim # NoObject =>
                 \E i \in 1 .. Len(list) : IsDcim(list[i]) /\ list[i].id = find_dcim
           /\ find_dcim = NoObject => \A i \in 1 .. Len(list) : ~IsDcim(list[i])
<1> DEFINE I == {i \in 1 .. Len(list) : IsDcim(list[i])}
           f == SelectLastInSeq(list, IsDcim)
<1>1. f = IF I # {} THEN Max(I) ELSE 0
  BY DEF SelectLastInSeq
<1>2. Len(list) \in Nat /\ I \subseteq 1 .. Len(list)
  BY DEF StoreType
<1>3. find_dcim = IF f = 0 THEN NoObject ELSE list[f].id
  BY DEF find_dcim
<1> HIDE DEF f
<1>4. f \in 0 .. Len(list) /\ (f # 0 => f \in I) /\ (f = 0 => I = {})
  <2> HIDE DEF I
  <2> QED BY <1>1, <1>2, LastMatch
<1>5. CASE f = 0
  BY <1>3, <1>4, <1>5
<1>6. CASE f # 0
  <2>1. f \in 1 .. Len(list) /\ IsDcim(list[f])
    BY <1>2, <1>4, <1>6
  <2>2. list[f] \in Dirents
    BY <2>1 DEF StoreType
  <2>3. list[f].id # NoObject
    BY <2>2 DEF Dirents, NoObject
  <2> QED BY <1>3, <1>6, <2>1, <2>3
<1> QED BY <1>5, <1>6

\* find_folder is the handle of a listed folder, or there is none.
LEMMA FindFolder ==
    ASSUME StoreType, NEW name \in FolderNames, NEW dcim
    PROVE  find_folder(name, dcim) # NoObject =>
               \E i \in 1 .. Len(list) :
                   /\ list[i].id = find_folder(name, dcim)
                   /\ list[i].kind = "dir"
<1> DEFINE I == {i \in 1 .. Len(list) : list[i].name = name /\ list[i].parent = dcim}
           f == SelectInSeq(list, LAMBDA d : d.name = name /\ d.parent = dcim)
<1>1. f = IF I # {} THEN Min(I) ELSE 0
  BY DEF SelectInSeq
<1>2. Len(list) \in Nat /\ I \subseteq 1 .. Len(list)
  BY DEF StoreType
<1>3. find_folder(name, dcim) = IF f = 0 THEN NoObject ELSE list[f].id
  BY DEF find_folder
<1> HIDE DEF f
<1>4. f \in 0 .. Len(list) /\ (f # 0 => f \in I)
  <2> HIDE DEF I
  <2> QED BY <1>1, <1>2, FirstMatch
<1>5. CASE f = 0
  BY <1>3, <1>5
<1>6. CASE f # 0
  <2>1. f \in 1 .. Len(list) /\ list[f].name = name
    BY <1>2, <1>4, <1>6
  <2>2. list[f] \in Dirents
    BY <2>1 DEF StoreType
  <2>3. list[f].kind = "dir"
    BY <2>1, <2>2 DEF Dirents
  <2> QED BY <1>3, <1>6, <2>1, <2>3
<1> QED BY <1>5, <1>6

-----------------------------------------------------------------------------
(* Captures *)

\* What a capture puts in front of the list: a picture with the new highest
\* handle, below a folder that is listed or is put there with it.
PictureAdded ==
    \E n \in {1, 2} :
        /\ list' \in Seq(Dirents)
        /\ Len(list') = Len(list) + n
        /\ \A j \in 1 .. Len(list) : list'[j + n] = list[j]
        /\ ptp_objectid' = ptp_objectid + n
        /\ list'[1].id = ptp_objectid + n
        /\ list'[1].kind = "jpg"
        /\ n = 1 => \E i \in 1 .. Len(list) :
                       list[i].id = list'[1].parent /\ list[i].kind = "dir"
        /\ n = 2 => /\ list'[2].id = ptp_objectid + 1
                    /\ list'[2].kind = "dir"
                    /\ list'[2].name # "PIC"
                    /\ list'[2].parent = find_dcim
                    /\ list'[1].parent = list'[2].id

\* Every capture adds its picture that way.
LEMMA CaptureAdds ==
    ASSUME StoreType, NEW folder \in FolderNames, NEW ann \in BOOLEAN,
           find_dcim # NoObject, AddPicture(folder, ann)
    PROVE  PictureAdded
<1> DEFINE old == find_folder(folder, find_dcim)
           isNew == old = NoObject
           dirid == IF isNew THEN ptp_objectid + 1 ELSE old
           id == IF isNew THEN ptp_objectid + 2 ELSE ptp_objectid + 1
           dir == VirtualFolder(dirid, folder, find_dcim)
           pic == Dirent(id, "PIC", "jpg", dirid)
           front == <<pic>> \o (IF isNew THEN <<dir>> ELSE <<>>)
<1>1. list' = front \o list /\ ptp_objectid' = id
  BY DEF AddPicture, PutPicture
<1>2. PICK i \in 1 .. Len(list) : IsDcim(list[i]) /\ list[i].id = find_dcim
  BY FindDcim
<1>3. find_dcim \in Nat
  <2>1. list[i] \in Dirents
    BY DEF StoreType
  <2> QED BY <2>1, <1>2 DEF Dirents
<1>4. ~isNew => \E k \in 1 .. Len(list) : list[k].id = old /\ list[k].kind = "dir"
  BY FindFolder
<1>5. ~isNew => old \in Nat
  <2> SUFFICES ASSUME ~isNew PROVE old \in Nat
    OBVIOUS
  <2>1. PICK k \in 1 .. Len(list) : list[k].id = old
    BY <1>4
  <2>2. list[k] \in Dirents
    BY DEF StoreType
  <2> QED BY <2>1, <2>2 DEF Dirents
<1>6. ptp_objectid \in Nat
  BY DEF StoreType
<1>7. dirid \in Nat /\ id \in Nat /\ id # 0 /\ (isNew => dirid # 0)
  <2> HIDE DEF old
  <2> QED BY <1>5, <1>6
<1> HIDE DEF old
<1>8. pic \in Dirents
  <2>1. dirid # NoObject /\ "jpg" \in Kinds /\ "PIC" \notin FolderNames
    BY <1>7 DEF NoObject, Kinds, FolderNames
  <2>2. pic = [id |-> id, name |-> "PIC", kind |-> "jpg", parent |-> dirid,
               virtual |-> FALSE]
    BY DEF Dirent
  <2>3. dirid \in Nat \cup {NoObject} /\ id \in Nat /\ id # 0 /\ FALSE \in BOOLEAN
        /\ "PIC" \in Names
    BY <1>7 DEF Names
  <2> HIDE DEF dirid, id, pic
  <2> QED BY <2>1, <2>2, <2>3, DirentsIntro, Zenon
<1>9. isNew => dir \in Dirents
  <2>1. "dir" \in Kinds /\ folder \in Names
    BY DEF Kinds, Names
  <2>2. dir = [id |-> dirid, name |-> folder, kind |-> "dir",
               parent |-> find_dcim, virtual |-> TRUE]
    BY DEF VirtualFolder
  <2>3. /\ find_dcim \in Nat \cup {NoObject}
        /\ dirid \in Nat /\ (isNew => dirid # 0) /\ TRUE \in BOOLEAN
    BY <1>3, <1>7
  <2> HIDE DEF dirid, id, dir, isNew
  <2> QED BY <2>1, <2>2, <2>3, DirentsIntro, Zenon
<1>10. /\ pic.id = id /\ pic.kind = "jpg" /\ pic.parent = dirid /\ pic.name = "PIC"
       /\ dir.id = dirid /\ dir.kind = "dir" /\ dir.name = folder
       /\ dir.parent = find_dcim
  BY DEF Dirent, VirtualFolder
<1>11. folder # "PIC"
  BY DEF FolderNames
<1>12. list \in Seq(Dirents) /\ Len(list) \in Nat
  BY DEF StoreType
<1> HIDE DEF pic, dir
<1>13. CASE isNew
  <2>1. /\ front \in Seq(Dirents)
        /\ Len(front) = 2 /\ front[1] = pic /\ front[2] = dir
    BY <1>8, <1>9, <1>13
  <2> HIDE DEF front
  <2>2. /\ list' \in Seq(Dirents)
        /\ Len(list') = Len(list) + 2
        /\ list'[1] = pic /\ list'[2] = dir
        /\ \A j \in 1 .. Len(list) : list'[j + 2] = list[j]
    <3>1. /\ front \o list \in Seq(Dirents)
          /\ Len(front \o list) = Len(front) + Len(list)
          /\ \A j \in 1 .. Len(front) + Len(list) : (front \o list)[j] =
                 IF j <= Len(front) THEN front[j] ELSE list[j - Len(front)]
      BY <1>12, <2>1, ConcatProperties
    <3> DEFINE l == front \o list
    <3> HIDE DEF l
    <3> QED BY <1>1, <1>12, <2>1, <3>1 DEF l
  <2>3. id = ptp_objectid + 2 /\ dirid = ptp_objectid + 1
    BY <1>13
  <2> HIDE DEF id, dirid, isNew
  <2>4. /\ list'[2].id = ptp_objectid + 1
        /\ list'[2].kind = "dir"
        /\ list'[2].name # "PIC"
        /\ list'[2].parent = find_dcim
        /\ list'[1].parent = list'[2].id
        /\ list'[1].id = ptp_objectid + 2
        /\ list'[1].kind = "jpg"
        /\ ptp_objectid' = ptp_objectid + 2
    BY <1>1, <1>10, <1>11, <2>2, <2>3
  <2> QED BY <2>2, <2>4, <1>6 DEF PictureAdded
<1>14. CASE ~isNew
  <2>1. /\ front \in Seq(Dirents)
        /\ Len(front) = 1 /\ front[1] = pic
    BY <1>8, <1>14
  <2> HIDE DEF front
  <2>2. /\ list' \in Seq(Dirents)
        /\ Len(list') = Len(list) + 1
        /\ list'[1] = pic
        /\ \A j \in 1 .. Len(list) : list'[j + 1] = list[j]
    <3>1. /\ front \o list \in Seq(Dirents)
          /\ Len(front \o list) = Len(front) + Len(list)
          /\ \A j \in 1 .. Len(front) + Len(list) : (front \o list)[j] =
                 IF j <= Len(front) THEN front[j] ELSE list[j - Len(front)]
      BY <1>12, <2>1, ConcatProperties
    <3> DEFINE l == front \o list
    <3> HIDE DEF l
    <3> QED BY <1>1, <1>12, <2>1, <3>1 DEF l
  <2>3. id = ptp_objectid + 1 /\ dirid = old
    BY <1>14
  <2>4. \E k \in 1 .. Len(list) : list[k].id = dirid /\ list[k].kind = "dir"
    BY <1>4, <1>14, <2>3
  <2> HIDE DEF id, dirid, isNew
  <2>5. /\ list'[1].parent = dirid
        /\ list'[1].id = ptp_objectid + 1
        /\ list'[1].kind = "jpg"
        /\ ptp_objectid' = ptp_objectid + 1
    BY <1>1, <1>10, <2>2, <2>3
  <2> QED BY <2>2, <2>4, <2>5, <1>6 DEF PictureAdded
<1> QED BY <1>13, <1>14

\* What a capture announces: the picture last, before it at most the new folder.
LEMMA CaptureAnnounces ==
    ASSUME StoreType, NEW folder \in FolderNames, NEW ann \in BOOLEAN,
           find_dcim # NoObject, AddPicture(folder, ann)
    PROVE  \E m \in {1, 2} :
               /\ announced' \in Seq(Nat)
               /\ Len(announced') = Len(announced) + m
               /\ \A j \in 1 .. Len(announced) : announced'[j] = announced[j]
               /\ announced'[Len(announced) + m] = ptp_objectid'
               /\ m = 2 => /\ announced'[Len(announced) + 1] = ptp_objectid + 1
                           /\ ptp_objectid' = ptp_objectid + 2
<1> DEFINE old == find_folder(folder, find_dcim)
           isNew == old = NoObject
           dirid == IF isNew THEN ptp_objectid + 1 ELSE old
           id == IF isNew THEN ptp_objectid + 2 ELSE ptp_objectid + 1
           mid == IF isNew /\ ann THEN <<dirid>> ELSE <<>>
<1>1. announced' = (announced \o mid) \o <<id>> /\ ptp_objectid' = id
  BY DEF AddPicture, PutPicture
<1>2. ptp_objectid \in Nat /\ announced \in Seq(Nat) /\ Len(announced) \in Nat
  BY DEF StoreType
<1> HIDE DEF old
<1>3. id \in Nat
  BY <1>2
<1>4. CASE isNew /\ ann
  <2>1. mid = <<ptp_objectid + 1>> /\ id = ptp_objectid + 2
    BY <1>4
  <2>2. /\ announced \o mid \in Seq(Nat)
        /\ Len(announced \o mid) = Len(announced) + 1
        /\ \A j \in 1 .. Len(announced) : (announced \o mid)[j] = announced[j]
        /\ (announced \o mid)[Len(announced) + 1] = ptp_objectid + 1
    <3> HIDE DEF mid
    <3> QED BY <2>1, <1>2, ConcatProperties
  <2> DEFINE a == announced \o mid
  <2> HIDE DEF a
  <2>3. /\ a \o <<id>> \in Seq(Nat)
        /\ Len(a \o <<id>>) = Len(a) + 1
        /\ \A j \in 1 .. Len(a) : (a \o <<id>>)[j] = a[j]
        /\ (a \o <<id>>)[Len(a) + 1] = id
    <3>1. a \in Seq(Nat)
      BY <2>2 DEF a
    <3> HIDE DEF id
    <3> QED BY <3>1, <1>3, ConcatProperties
  <2>4. /\ announced' \in Seq(Nat)
        /\ Len(announced') = Len(announced) + 2
        /\ \A j \in 1 .. Len(announced) : announced'[j] = announced[j]
        /\ announced'[Len(announced) + 2] = ptp_objectid'
        /\ announced'[Len(announced) + 1] = ptp_objectid + 1
    <3> HIDE DEF mid, id
    <3> QED BY <1>1, <1>2, <2>2, <2>3 DEF a
  <2> QED BY <1>1, <2>1, <2>4
<1>5. CASE ~(isNew /\ ann)
  <2>1. announced \o mid = announced
    BY <1>2, <1>5
  <2>2. /\ announced \o <<id>> \in Seq(Nat)
        /\ Len(announced \o <<id>>) = Len(announced) + 1
        /\ \A j \in 1 .. Len(announced) : (announced \o <<id>>)[j] = announced[j]
        /\ (announced \o <<id>>)[Len(announced) + 1] = id
    <3> HIDE DEF id
    <3> QED BY <1>2, <1>3, ConcatProperties
  <2>3. announced' = announced \o <<id>>
    <3> HIDE DEF mid, id
    <3> QED BY <1>1, <2>1
  <2>4. announced'[Len(announced) + 1] = ptp_objectid'
    BY <1>1, <2>2, <2>3
  <2> HIDE DEF mid, id
  <2> QED BY <2>2, <2>3, <2>4
<1> QED BY <1>4, <1>5

\* A capture keeps the invariant.
LEMMA CaptureKeeps ==
    ASSUME IInv, NEW folder \in FolderNames, NEW ann \in BOOLEAN,
           find_dcim # NoObject, AddPicture(folder, ann),
           UNCHANGED <<vendor, alive, known>>, resp'.code \in Codes
    PROVE  IInv' /\ \A h \in Listed' \ Listed : h > ptp_objectid
<1> USE DEF IInv, TreeInv
<1>1. PICK n \in {1, 2} :
        /\ list' \in Seq(Dirents)
        /\ Len(list') = Len(list) + n
        /\ \A j \in 1 .. Len(list) : list'[j + n] = list[j]
        /\ ptp_objectid' = ptp_objectid + n
        /\ list'[1].id = ptp_objectid + n
        /\ list'[1].kind = "jpg"
        /\ n = 1 => \E i \in 1 .. Len(list) :
                       list[i].id = list'[1].parent /\ list[i].kind = "dir"
        /\ n = 2 => /\ list'[2].id = ptp_objectid + 1
                    /\ list'[2].kind = "dir"
                    /\ list'[2].name # "PIC"
                    /\ list'[2].parent = find_dcim
                    /\ list'[1].parent = list'[2].id
  BY CaptureAdds DEF PictureAdded
<1>2. PICK m \in {1, 2} :
        /\ announced' \in Seq(Nat)
        /\ Len(announced') = Len(announced) + m
        /\ \A j \in 1 .. Len(announced) : announced'[j] = announced[j]
        /\ announced'[Len(announced) + m] = ptp_objectid'
        /\ m = 2 => /\ announced'[Len(announced) + 1] = ptp_objectid + 1
                    /\ ptp_objectid' = ptp_objectid + 2
  BY CaptureAnnounces
<1>3. /\ ptp_objectid \in Nat /\ Len(list) \in Nat /\ Len(announced) \in Nat
      /\ DOMAIN list = 1 .. Len(list) /\ DOMAIN list' = 1 .. Len(list')
      /\ DOMAIN announced = 1 .. Len(announced)
      /\ DOMAIN announced' = 1 .. Len(announced')
      /\ \A i \in 1 .. Len(list) : list[i].id \in Nat /\ list[i].id <= ptp_objectid
      /\ \A i \in 1 .. Len(announced) :
            announced[i] \in Nat /\ announced[i] <= ptp_objectid
  <2>1. \A i \in 1 .. Len(list) : list[i] \in Dirents
    BY DEF StoreType
  <2>2. \A i \in 1 .. Len(list) : list[i].id \in Nat
    BY <2>1 DEF Dirents
  <2>3. \A i \in 1 .. Len(announced) : announced[i] \in Nat
    BY DEF StoreType
  <2>4. /\ list \in Seq(Dirents) /\ announced \in Seq(Nat) /\ ptp_objectid \in Nat
        /\ list' \in Seq(Dirents) /\ announced' \in Seq(Nat)
    BY <1>1, <1>2 DEF StoreType
  <2>5. /\ Len(list) \in Nat /\ Len(announced) \in Nat
        /\ DOMAIN list = 1 .. Len(list) /\ DOMAIN list' = 1 .. Len(list')
        /\ DOMAIN announced = 1 .. Len(announced)
        /\ DOMAIN announced' = 1 .. Len(announced')
    BY <2>4
  <2> QED BY <2>2, <2>3, <2>4, <2>5 DEF CounterAhead
<1>sizes. /\ n \in {1, 2} /\ Len(list) \in Nat /\ Len(list') = Len(list) + n
          /\ ptp_objectid \in Nat /\ ptp_objectid' = ptp_objectid + n
  BY <1>1, <1>3
<1>shifted. \A j \in 1 .. Len(list) : list'[j + n] = list[j]
  BY <1>1
<1>front. /\ list'[1].id = ptp_objectid + n
          /\ n = 2 => list'[2].id = ptp_objectid + 1 /\ list'[2].name # "PIC"
  BY <1>1
<1>old. \A i \in 1 .. Len(list) : list[i].id \in Nat /\ list[i].id <= ptp_objectid
  BY <1>3
\* An event is an old one or one of the one or two new ones.
<1>posted. \A a \in 1 .. Len(announced') :
         \/ a \in 1 .. Len(announced) /\ announced'[a] = announced[a]
                                      /\ announced'[a] <= ptp_objectid
         \/ a = Len(announced) + m /\ announced'[a] = ptp_objectid'
         \/ /\ m = 2 /\ ptp_objectid' = ptp_objectid + 2
            /\ a = Len(announced) + 1 /\ announced'[a] = ptp_objectid + 1
  <2> SUFFICES ASSUME NEW a \in 1 .. Len(announced'), a \notin 1 .. Len(announced)
               PROVE  \/ a = Len(announced) + m
                      \/ m = 2 /\ a = Len(announced) + 1
    BY <1>2, <1>3
  <2>1. Len(announced') = Len(announced) + m /\ Len(announced) \in Nat
    BY <1>2, <1>3
  <2> QED BY <2>1
\* An entry of the new list is new or an old one, n positions further.
<1>4. \A i \in 1 .. Len(list') :
        \/ i = 1 \/ (i = 2 /\ n = 2)
        \/ i - n \in 1 .. Len(list) /\ list'[i] = list[i - n]
  <2> SUFFICES ASSUME NEW i \in 1 .. Len(list'), i # 1, ~(i = 2 /\ n = 2)
               PROVE  i - n \in 1 .. Len(list) /\ list'[i] = list[i - n]
    OBVIOUS
  <2>1. i - n \in 1 .. Len(list) /\ (i - n) + n = i
    BY <1>sizes
  <2>2. list'[(i - n) + n] = list[i - n]
    BY <1>shifted, <2>1
  <2> QED BY <2>1, <2>2
<1>5. \A i \in 1 .. Len(list) :
        i + n \in 1 .. Len(list') /\ list'[i + n] = list[i]
  BY <1>sizes, <1>shifted
<1>6. 1 \in 1 .. Len(list') /\ (n = 2 => 2 \in 1 .. Len(list'))
  BY <1>1, <1>3
<1>7. StoreType'
  BY <1>1, <1>2 DEF StoreType, AddPicture, PutPicture
<1>8. CounterAhead'
  <2>1. ASSUME NEW i \in 1 .. Len(list')
        PROVE  list'[i].id <= ptp_objectid'
    <3>1. CASE i = 1 \/ (i = 2 /\ n = 2)
      BY <1>sizes, <1>front, <3>1
    <3>2. CASE i - n \in 1 .. Len(list) /\ list'[i] = list[i - n]
      <4>1. list'[i].id \in Nat /\ list'[i].id <= ptp_objectid
        BY <1>old, <3>2
      <4> QED BY <1>sizes, <4>1
    <3> QED BY <1>4, <3>1, <3>2
  <2>2. ASSUME NEW i \in 1 .. Len(announced')
        PROVE  announced'[i] <= ptp_objectid'
    <3>1. announced'[i] \in Nat
      BY <1>2
    <3> QED BY <1>sizes, <1>posted, <3>1
  <2> QED BY <2>1, <2>2 DEF CounterAhead
<1>9. HandlesUnique'
  <2> SUFFICES ASSUME NEW i \in 1 .. Len(list'), NEW j \in 1 .. Len(list'),
                      list'[i].id = list'[j].id
               PROVE  i = j
    BY <1>3 DEF HandlesUnique
  <2>1. \A k \in 1 .. Len(list') :
          \/ k = 1 /\ list'[k].id = ptp_objectid + n
          \/ k = 2 /\ n = 2 /\ list'[k].id = ptp_objectid + 1
          \/ /\ k - n \in 1 .. Len(list) /\ list'[k] = list[k - n]
             /\ list'[k].id <= ptp_objectid /\ list'[k].id \in Nat
    BY <1>4, <1>front, <1>old
  <2>2. \A a, b \in 1 .. Len(list) : list[a].id = list[b].id => a = b
    BY <1>3 DEF HandlesUnique
  <2>3. CASE list'[i].id <= ptp_objectid
    <3>1. /\ i - n \in 1 .. Len(list) /\ list'[i] = list[i - n]
          /\ j - n \in 1 .. Len(list) /\ list'[j] = list[j - n]
      <4>1. list'[j].id <= ptp_objectid
        BY <2>3
      <4> QED BY <1>sizes, <2>1, <2>3, <4>1
    <3>2. i - n = j - n
      BY <2>2, <3>1
    <3> QED BY <3>2, <1>sizes
  <2>4. CASE ~(list'[i].id <= ptp_objectid)
    <3>1. \/ i = 1 /\ list'[i].id = ptp_objectid + n
          \/ i = 2 /\ n = 2 /\ list'[i].id = ptp_objectid + 1
      BY <2>1, <2>4
    <3>2. \/ j = 1 /\ list'[i].id = ptp_objectid + n
          \/ j = 2 /\ n = 2 /\ list'[i].id = ptp_objectid + 1
      BY <2>1, <2>4
    <3> QED BY <1>sizes, <3>1, <3>2
  <2> QED BY <2>3, <2>4
<1>10. ParentsListed'
  <2> DEFINE Ok(i) == \E j \in 1 .. Len(list') :
                         /\ list'[j].id = list'[i].parent
                         /\ list'[j].kind = "dir"
                         /\ list'[j].id < list'[i].id
  <2>1. ASSUME NEW i \in 1 .. Len(list'), list'[i].id # 0 PROVE Ok(i)
    <3>1. CASE i = 1 /\ n = 1
      <4>1. PICK k \in 1 .. Len(list) :
              list[k].id = list'[1].parent /\ list[k].kind = "dir"
        BY <1>1, <3>1
      <4>2. /\ k + 1 \in 1 .. Len(list') /\ list'[k + 1] = list[k]
            /\ list[k].id < list'[1].id
        BY <1>1, <1>3, <1>5, <3>1
      <4> QED BY <3>1, <4>1, <4>2
    <3>2. CASE i = 1 /\ n = 2
      BY <1>1, <1>3, <1>6, <3>2
    <3>3. CASE i = 2 /\ n = 2
      <4>1. PICK k \in 1 .. Len(list) : IsDcim(list[k]) /\ list[k].id = find_dcim
        BY FindDcim
      <4>2. list[k].kind = "dir"
        <5>1. list[k] \in Dirents
          BY DEF StoreType
        <5> QED BY <5>1, <4>1 DEF Dirents, IsDcim, FolderNames
      <4>3. /\ k + 2 \in 1 .. Len(list') /\ list'[k + 2] = list[k]
            /\ list[k].id < list'[2].id
            /\ list'[2].parent = find_dcim
        BY <1>1, <1>3, <1>5, <3>3
      <4> QED BY <3>3, <4>1, <4>2, <4>3
    <3>4. CASE i - n \in 1 .. Len(list) /\ list'[i] = list[i - n]
      <4>1. PICK k \in 1 .. Len(list) :
              /\ list[k].id = list[i - n].parent
              /\ list[k].kind = "dir"
              /\ list[k].id < list[i - n].id
        BY <1>3, <2>1, <3>4 DEF ParentsListed
      <4>2. k + n \in 1 .. Len(list') /\ list'[k + n] = list[k]
        BY <1>5
      <4> QED BY <3>4, <4>1, <4>2
    <3> QED BY <1>4, <3>1, <3>2, <3>3, <3>4
  <2> QED BY <2>1, <1>3 DEF ParentsListed
<1>11. DcimKept'
  <2>1. PICK k \in 1 .. Len(list) : IsDcim(list[k])
    BY FindDcim
  <2> QED BY <1>5, <2>1 DEF DcimKept, IsDcim
<1>12. Listed \subseteq Listed'
  BY <1>3, <1>5 DEF Listed
<1>13. KnownStaysValid'
  BY <1>12 DEF KnownStaysValid
<1>14. CapturesAnnounced'
  <2>1. ASSUME NEW i \in 1 .. Len(announced'), NEW j \in 1 .. Len(announced'),
               announced'[i] = announced'[j]
        PROVE  i = j
    <3>1. \A a, b \in 1 .. Len(announced) : announced[a] = announced[b] => a = b
      BY <1>3 DEF CapturesAnnounced
    <3>2. CASE announced'[i] <= ptp_objectid
      <4>1. /\ i \in 1 .. Len(announced) /\ announced'[i] = announced[i]
            /\ j \in 1 .. Len(announced) /\ announced'[j] = announced[j]
        <5>1. announced'[j] <= ptp_objectid
          BY <2>1, <3>2
        <5> QED BY <1>sizes, <1>posted, <3>2, <5>1
      <4> QED BY <2>1, <3>1, <4>1
    <3>3. CASE ~(announced'[i] <= ptp_objectid)
      <4>1. \/ i = Len(announced) + m /\ announced'[i] = ptp_objectid'
            \/ /\ m = 2 /\ ptp_objectid' = ptp_objectid + 2
               /\ i = Len(announced) + 1 /\ announced'[i] = ptp_objectid + 1
        BY <1>posted, <3>3
      <4>2. \/ j = Len(announced) + m /\ announced'[i] = ptp_objectid'
            \/ /\ m = 2 /\ ptp_objectid' = ptp_objectid + 2
               /\ j = Len(announced) + 1 /\ announced'[i] = ptp_objectid + 1
        BY <1>posted, <2>1, <3>3
      <4> QED BY <1>sizes, <4>1, <4>2
    <3> QED BY <3>2, <3>3
  <2>2. ASSUME NEW i \in 1 .. Len(list'), list'[i].name = "PIC"
        PROVE  \E a \in 1 .. Len(announced') : announced'[a] = list'[i].id
    <3>1. CASE i = 1
      <4>1. /\ Len(announced) + m \in 1 .. Len(announced')
            /\ announced'[Len(announced) + m] = list'[i].id
        BY <1>2, <1>3, <1>sizes, <1>front, <3>1
      <4> QED BY <4>1
    <3>2. CASE i - n \in 1 .. Len(list) /\ list'[i] = list[i - n]
      <4>1. list[i - n].id \in Range(announced)
        BY <1>3, <2>2, <3>2 DEF CapturesAnnounced
      <4>2. PICK a \in 1 .. Len(announced) : announced[a] = list[i - n].id
        BY <4>1, <1>3 DEF Range
      <4>3. a \in 1 .. Len(announced') /\ announced'[a] = announced[a]
        BY <1>2, <1>3
      <4> QED BY <3>2, <4>2, <4>3
    <3> QED BY <1>4, <1>front, <2>2, <3>1, <3>2
  <2>3. Range(announced') = {announced'[a] : a \in 1 .. Len(announced')}
    BY <1>3 DEF Range
  <2>4. \A i \in DOMAIN list' :
          list'[i].name = "PIC" => list'[i].id \in Range(announced')
    BY <1>3, <2>2, <2>3
  <2>5. \A i, j \in DOMAIN announced' : announced'[i] = announced'[j] => i = j
    BY <1>3, <2>1
  <2> QED BY <2>4, <2>5 DEF CapturesAnnounced
<1>15. \A h \in Listed' \ Listed : h > ptp_objectid
  <2> SUFFICES ASSUME NEW i \in 1 .. Len(list'), list'[i].id \notin Listed
               PROVE  list'[i].id > ptp_objectid
    BY <1>3 DEF Listed
  <2>1. ~(i - n \in 1 .. Len(list) /\ list'[i] = list[i - n])
    BY <1>3 DEF Listed
  <2> QED BY <1>4, <1>sizes, <1>front, <2>1
<1> QED BY <1>7, <1>8, <1>9, <1>10, <1>11, <1>13, <1>14, <1>15

-----------------------------------------------------------------------------
(* Deletes *)

\* Unlinking a file keeps the invariant: what hangs below it is nothing.
LEMMA UnlinkKeeps ==
    ASSUME IInv, NEW i \in 1 .. Len(list), list[i].kind # "dir",
           list' = RemoveAt(list, i), known' = known \ {list[i].id},
           UNCHANGED <<vendor, ptp_objectid, alive, announced, taken>>,
           resp'.code \in Codes
    PROVE  IInv' /\ Listed' \subseteq Listed
<1> USE DEF IInv, TreeInv
<1>1. list \in Seq(Dirents) /\ Len(list) \in Nat
  BY DEF StoreType
<1>2. /\ list' \in Seq(Dirents)
      /\ Len(list') = Len(list) - 1
      /\ \A j \in 1 .. Len(list) - 1 :
            list'[j] = IF j < i THEN list[j] ELSE list[j + 1]
  BY <1>1, RemoveAtProperties
<1>3. /\ \A j \in 1 .. Len(list) - 1 :
            \E k \in 1 .. Len(list) : k # i /\ list'[j] = list[k]
      /\ \A k \in 1 .. Len(list) : k # i =>
            \E j \in 1 .. Len(list) - 1 : list'[j] = list[k]
  BY <1>1, RemoveAtEntries
<1>4. DOMAIN list = 1 .. Len(list) /\ DOMAIN list' = 1 .. Len(list) - 1
  BY <1>1, <1>2
<1>5. StoreType'
  BY <1>2 DEF StoreType
<1>6. CounterAhead'
  BY <1>2, <1>3 DEF CounterAhead
<1>7. HandlesUnique'
  <2> SUFFICES ASSUME NEW a \in 1 .. Len(list) - 1, NEW b \in 1 .. Len(list) - 1,
                      list'[a].id = list'[b].id
               PROVE  a = b
    BY <1>4 DEF HandlesUnique
  <2>1. \A k, l \in 1 .. Len(list) : list[k].id = list[l].id => k = l
    BY <1>4 DEF HandlesUnique
  <2> DEFINE f(k) == IF k < i THEN k ELSE k + 1
  <2>2. f(a) \in 1 .. Len(list) /\ f(b) \in 1 .. Len(list)
    BY <1>1
  <2>3. list'[a] = list[f(a)] /\ list'[b] = list[f(b)]
    BY <1>2
  <2>4. f(a) = f(b) => a = b
    BY <1>1
  <2> HIDE DEF f
  <2> QED BY <2>1, <2>2, <2>3, <2>4
<1>8. ParentsListed'
  <2> SUFFICES ASSUME NEW a \in 1 .. Len(list) - 1, list'[a].id # 0
               PROVE  \E j \in 1 .. Len(list) - 1 :
                         /\ list'[j].id = list'[a].parent
                         /\ list'[j].kind = "dir"
                         /\ list'[j].id < list'[a].id
    BY <1>4 DEF ParentsListed
  <2>1. PICK k \in 1 .. Len(list) : k # i /\ list'[a] = list[k]
    BY <1>3
  <2>2. PICK p \in 1 .. Len(list) :
          /\ list[p].id = list[k].parent
          /\ list[p].kind = "dir"
          /\ list[p].id < list[k].id
    BY <1>4, <2>1 DEF ParentsListed
  <2>3. p # i
    BY <2>2
  <2>4. PICK j \in 1 .. Len(list) - 1 : list'[j] = list[p]
    BY <1>3, <2>3
  <2> QED BY <2>1, <2>2, <2>4
<1>9. DcimKept'
  <2> SUFFICES ASSUME NEW a \in 1 .. Len(list) - 1, list'[a].kind = "jpg"
               PROVE  \E j \in 1 .. Len(list) - 1 : IsDcim(list'[j])
    BY <1>2, <1>4 DEF DcimKept, HasJpg, IsDcim
  <2>1. HasJpg
    <3>1. PICK k \in 1 .. Len(list) : list'[a] = list[k]
      BY <1>3
    <3> QED BY <3>1, <1>4 DEF HasJpg
  <2>2. PICK d \in 1 .. Len(list) : IsDcim(list[d])
    BY <2>1 DEF DcimKept
  <2>3. list[d].kind = "dir"
    <3>1. list[d] \in Dirents
      BY <1>1
    <3> QED BY <3>1, <2>2 DEF Dirents, IsDcim, FolderNames
  <2>4. PICK j \in 1 .. Len(list) - 1 : list'[j] = list[d]
    BY <1>3, <2>3
  <2> QED BY <2>2, <2>4
<1>10. KnownStaysValid'
  <2> SUFFICES ASSUME NEW h \in known, h # list[i].id
               PROVE  \E j \in 1 .. Len(list) - 1 : list'[j].id = h
    BY <1>4 DEF KnownStaysValid, Listed
  <2>1. PICK k \in 1 .. Len(list) : list[k].id = h
    BY <1>4 DEF KnownStaysValid, Listed
  <2>2. k # i
    BY <2>1
  <2> QED BY <1>3, <2>1, <2>2
<1>11. CapturesAnnounced'
  <2>1. ASSUME NEW j \in 1 .. Len(list) - 1, list'[j].name = "PIC"
        PROVE  list'[j].id \in Range(announced)
    <3>1. PICK k \in 1 .. Len(list) : list'[j] = list[k]
      BY <1>3
    <3> QED BY <1>4, <2>1, <3>1 DEF CapturesAnnounced
  <2> QED BY <1>4, <2>1 DEF CapturesAnnounced
<1>12. Listed' \subseteq Listed
  <2> SUFFICES ASSUME NEW j \in 1 .. Len(list) - 1 PROVE list'[j].id \in Listed
    BY <1>4 DEF Listed
  <2>1. PICK k \in 1 .. Len(list) : list'[j] = list[k]
    BY <1>3
  <2> QED BY <1>4, <2>1 DEF Listed
<1> QED BY <1>5, <1>6, <1>7, <1>8, <1>9, <1>10, <1>11, <1>12

\* Emptying the list keeps the invariant.
LEMMA EmptyKeeps ==
    ASSUME IInv, list' = <<>>, known' = {},
           UNCHANGED <<vendor, ptp_objectid, alive, announced, taken>>,
           resp'.code \in Codes
    PROVE  IInv' /\ Listed' \subseteq Listed
<1> USE DEF IInv, TreeInv
<1>1. DOMAIN list' = {} /\ Len(list') = 0 /\ list' \in Seq(Dirents)
  OBVIOUS
<1>2. StoreType'
  BY <1>1 DEF StoreType
<1>3. CounterAhead' /\ HandlesUnique' /\ ParentsListed' /\ DcimKept'
  BY <1>1 DEF CounterAhead, HandlesUnique, ParentsListed, DcimKept, HasJpg
<1>4. KnownStaysValid' /\ CapturesAnnounced'
  BY <1>1 DEF KnownStaysValid, CapturesAnnounced
<1>5. Listed' \subseteq Listed
  BY <1>1 DEF Listed
<1> QED BY <1>2, <1>3, <1>4, <1>5

\* A step that leaves the list alone keeps the invariant, if what it tells the
\* client is listed.
LEMMA ReadKeeps ==
    ASSUME IInv, UNCHANGED <<vendor, list, ptp_objectid, announced, taken>>,
           alive' \in BOOLEAN, known' \subseteq Listed, resp'.code \in Codes
    PROVE  IInv' /\ Listed' \subseteq Listed
<1> USE DEF IInv, TreeInv
<1>1. Listed \subseteq Nat
  <2>1. \A i \in DOMAIN list : list[i] \in Dirents
    BY DEF StoreType
  <2> QED BY <2>1 DEF Listed, Dirents
<1>2. Listed' = Listed
  BY DEF Listed
<1>3. StoreType'
  BY <1>1 DEF StoreType
<1>4. CounterAhead' /\ HandlesUnique' /\ ParentsListed'
  BY DEF CounterAhead, HandlesUnique, ParentsListed
<1>5. DcimKept' /\ CapturesAnnounced'
  BY DEF DcimKept, HasJpg, IsDcim, CapturesAnnounced
<1>6. KnownStaysValid'
  BY <1>2 DEF KnownStaysValid
<1> QED BY <1>2, <1>3, <1>4, <1>5, <1>6

-----------------------------------------------------------------------------
(* The scan of the card *)

\* The entries of the scan: the card in reverse, then the root.
LEMMA ScanEntries ==
    ASSUME NEW card \in Cards
    PROVE  LET scanned == Append(read_directories(card), Root)
               n == Len(card)
           IN  /\ scanned \in Seq(Dirents)
               /\ n \in Nat
               /\ Len(scanned) = n + 1
               /\ scanned[n + 1] = Root
               /\ \A i \in 1 .. n :
                     /\ scanned[n + 1 - i] = Dirent(i, card[i].name, card[i].kind,
                                                    card[i].parent)
                     /\ scanned[n + 1 - i] \in Dirents
<1> DEFINE n == Len(card)
           Item == [name : CardNames, kind : Kinds, parent : Nat]
           D(i) == Dirent(i, card[i].name, card[i].kind, card[i].parent)
           r == read_directories(card)
<1>1. card \in Seq(Item) /\ n \in Nat /\ DOMAIN card = 1 .. n
  <2>1. card \in Seq(Item)
    BY ConstantsAssumption, Zenon
  <2> HIDE DEF Item
  <2> QED BY <2>1
<1>2. ASSUME NEW i \in 1 .. n PROVE D(i) \in Dirents
  <2>1. card[i] \in Item
    <3> HIDE DEF Item
    <3> QED BY <1>1
  <2>2. /\ card[i].name \in Names /\ card[i].kind \in Kinds
        /\ card[i].parent \in Nat
    BY <2>1 DEF Names
  <2>3. card[i].name \in FolderNames => card[i].kind = "dir"
    BY ConstantsAssumption
  <2>4. i \in Nat /\ i # 0 /\ card[i].parent # NoObject
    BY <1>1, <2>2 DEF NoObject
  <2>5. D(i) = [id |-> i, name |-> card[i].name, kind |-> card[i].kind,
                parent |-> card[i].parent, virtual |-> FALSE]
    BY DEF Dirent
  <2>6. FALSE \in BOOLEAN /\ card[i].parent \in Nat \cup {NoObject}
    BY <2>2
  <2> HIDE DEF D
  <2> QED BY <2>2, <2>3, <2>4, <2>5, <2>6, DirentsIntro, Zenon
<1>3. Root \in Dirents
  <2>1. Root = [id |-> 0, name |-> "", kind |-> "dir", parent |-> NoObject,
                virtual |-> FALSE]
    BY DEF Root, Dirent
  <2>2. /\ 0 \in Nat /\ "" \in Names /\ "dir" \in Kinds /\ FALSE \in BOOLEAN
        /\ NoObject \in Nat \cup {NoObject}
    BY DEF Names, Kinds
  <2> QED BY <2>1, <2>2, DirentsIntro, Zenon
<1>4. r = [i \in 1 .. n |-> D(n - i + 1)]
  <2> DEFINE c == [i \in DOMAIN card |-> D(i)]
  <2>1. c = [i \in 1 .. n |-> D(i)]
    BY <1>1
  <2> HIDE DEF D
  <2>2. Len(c) = n
    BY <1>1, <2>1
  <2>3. r = [i \in 1 .. Len(c) |-> c[(Len(c) - i) + 1]]
    BY DEF read_directories, Reverse, D
  <2> HIDE DEF c
  <2> QED BY <1>1, <2>1, <2>2, <2>3
<1> HIDE DEF D
<1>5. /\ r \in Seq(Dirents) /\ Len(r) = n
      /\ \A i \in 1 .. n : r[i] = D(n - i + 1)
  <2>1. \A i \in 1 .. n : n - i + 1 \in 1 .. n
    BY <1>1
  <2>2. r \in [1 .. n -> Dirents]
    BY <1>1, <1>2, <1>4, <2>1
  <2>3. r \in Seq(Dirents) /\ Len(r) = n
    BY <1>1, <2>2
  <2> QED BY <1>4, <2>3
<1> HIDE DEF r
<1>6. /\ Append(r, Root) \in Seq(Dirents)
      /\ Len(Append(r, Root)) = n + 1
      /\ \A i \in 1 .. n : Append(r, Root)[i] = r[i]
      /\ Append(r, Root)[n + 1] = Root
  BY <1>1, <1>3, <1>5, AppendProperties
<1>7. ASSUME NEW i \in 1 .. n
      PROVE  Append(r, Root)[n + 1 - i] = D(i)
  <2>1. n + 1 - i \in 1 .. n /\ n - (n + 1 - i) + 1 = i
    BY <1>1
  <2> QED BY <1>5, <1>6, <2>1
<1> QED BY <1>1, <1>2, <1>6, <1>7 DEF D, r

\* The list read_tree builds is a tree with a DCIM folder.
LEMMA InitKeeps ==
    ASSUME Init
    PROVE  IInv
<1>1. PICK card \in Cards : /\ list = read_tree(card).list
                            /\ ptp_objectid = read_tree(card).next
  BY DEF Init
<1> DEFINE scanned == Append(read_directories(card), Root)
           n == Len(card)
           D(c) == Dirent(c, card[c].name, card[c].kind, card[c].parent)
           dcim == Dirent(n + 1, "DCIM", "dir", 0)
<1>2. /\ scanned \in Seq(Dirents)
      /\ n \in Nat
      /\ Len(scanned) = n + 1
      /\ scanned[n + 1] = Root
      /\ \A c \in 1 .. n : scanned[n + 1 - c] = D(c) /\ D(c) \in Dirents
  BY ScanEntries
<1>3. /\ dcim.id = n + 1 /\ dcim.name = "DCIM" /\ dcim.kind = "dir"
      /\ dcim.parent = 0 /\ dcim \in Dirents /\ IsDcim(dcim)
  <2>1. dcim = [id |-> n + 1, name |-> "DCIM", kind |-> "dir", parent |-> 0,
                virtual |-> FALSE]
    BY DEF Dirent
  <2>2. /\ n + 1 \in Nat /\ n + 1 # 0 /\ "DCIM" \in Names /\ "dir" \in Kinds
        /\ FALSE \in BOOLEAN /\ 0 # NoObject /\ 0 \in Nat \cup {NoObject}
    BY <1>2 DEF Names, FolderNames, Kinds, NoObject
  <2> DEFINE m == n + 1
  <2> HIDE DEF m
  <2>3. dcim \in Dirents
    <3>1. [id |-> m, name |-> "DCIM", kind |-> "dir", parent |-> 0,
           virtual |-> FALSE] \in Dirents
      BY <2>2, DirentsIntro, Zenon DEF m
    <3> QED BY <2>1, <3>1 DEF m
  <2> QED BY <2>1, <2>3 DEF IsDcim
<1> HIDE DEF scanned, dcim
\* The scan, and one DCIM folder more if it has found none.
<1>4. \E k \in {0, 1} :
        /\ list \in Seq(Dirents)
        /\ Len(list) = n + 1 + k
        /\ ptp_objectid = n + 1 + k
        /\ \A j \in 1 .. n + 1 : list[j + k] = scanned[j]
        /\ k = 1 => list[1] = dcim
        /\ k = 0 => \E j \in 1 .. n + 1 : IsDcim(list[j])
  <2>1. DOMAIN scanned = 1 .. n + 1
    BY <1>2
  <2>2. CASE \E j \in 1 .. n + 1 : IsDcim(scanned[j])
    <3>1. list = scanned /\ ptp_objectid = n + 1
      BY <1>1, <2>1, <2>2 DEF read_tree, scanned
    <3> QED BY <1>2, <2>2, <3>1
  <2>3. CASE ~\E j \in 1 .. n + 1 : IsDcim(scanned[j])
    <3>1. list = <<dcim>> \o scanned /\ ptp_objectid = (n + 1) + 1
      BY <1>1, <2>1, <2>3 DEF read_tree, scanned, dcim
    <3>2. <<dcim>> \in Seq(Dirents) /\ Len(<<dcim>>) = 1 /\ <<dcim>>[1] = dcim
      BY <1>3
    <3> DEFINE d == <<dcim>>
    <3> HIDE DEF d
    <3>3. /\ d \o scanned \in Seq(Dirents)
          /\ Len(d \o scanned) = 1 + (n + 1)
          /\ \A j \in 1 .. 1 + (n + 1) : (d \o scanned)[j] =
                 IF j <= 1 THEN d[j] ELSE scanned[j - 1]
      BY <1>2, <3>2, ConcatProperties DEF d
    <3>4. /\ list \in Seq(Dirents)
          /\ Len(list) = n + 2
          /\ \A j \in 1 .. n + 2 : list[j] = IF j <= 1 THEN dcim ELSE scanned[j - 1]
      <4>1. \A j \in 1 .. n + 2 : j <= 1 => d[j] = dcim
        BY <1>2, <3>2 DEF d
      <4> QED BY <1>2, <3>1, <3>3, <4>1 DEF d
    <3>5. \A j \in 1 .. n + 1 : list[j + 1] = scanned[j]
      BY <1>2, <3>4
    <3> QED BY <1>2, <3>1, <3>4, <3>5
  <2> QED BY <2>2, <2>3
<1>5. PICK k \in {0, 1} :
        /\ list \in Seq(Dirents)
        /\ Len(list) = n + 1 + k
        /\ ptp_objectid = n + 1 + k
        /\ \A j \in 1 .. n + 1 : list[j + k] = scanned[j]
        /\ k = 1 => list[1] = dcim
        /\ k = 0 => \E j \in 1 .. n + 1 : IsDcim(list[j])
  BY <1>4
<1> DEFINE top == n + 1 + k
<1>6. DOMAIN list = 1 .. top
  BY <1>5
<1>7. /\ list[top] = Root /\ top \in 1 .. top /\ top \in Nat
      /\ \A c \in 1 .. n : top - c \in 1 .. top /\ list[top - c] = D(c)
  <2>1. n + 1 \in 1 .. n + 1
    BY <1>2
  <2>2. \A c \in 1 .. n : n + 1 - c \in 1 .. n + 1
    BY <1>2
  <2>3. \A c \in 1 .. n : (n + 1 - c) + k = top - c
    BY <1>2
  <2>4. \A c \in 1 .. n : list[(n + 1 - c) + k] = D(c)
    <3> HIDE DEF D
    <3> QED BY <1>2, <1>5, <2>2
  <2>5. \A c \in 1 .. n : top - c \in 1 .. top
    BY <1>2
  <2>6. list[(n + 1) + k] = Root
    BY <1>2, <1>5, <2>1
  <2> HIDE DEF D
  <2> QED BY <1>2, <2>3, <2>4, <2>5, <2>6
<1>8. Root.id = 0 /\ Root.kind = "dir" /\ Root.name = "" /\ Root.parent = NoObject
  BY DEF Root, Dirent
<1>9. \A c \in 1 .. n :
        /\ D(c).id = c /\ D(c).name = card[c].name /\ D(c).kind = card[c].kind
        /\ D(c).parent = card[c].parent
  BY DEF Dirent
<1> HIDE DEF D
\* Handles count down along the list.
<1>10. \A i \in 1 .. top : list[i].id = top - i
  <2> SUFFICES ASSUME NEW i \in 1 .. top PROVE list[i].id = top - i
    OBVIOUS
  <2>1. CASE i = top
    <3>1. top - i = 0 /\ list[i] = Root
      BY <1>2, <1>7, <2>1
    <3> HIDE DEF top
    <3> QED BY <1>8, <3>1
  <2>2. CASE top - i \in 1 .. n
    <3>1. list[top - (top - i)] = D(top - i) /\ top - (top - i) = i
      BY <1>2, <1>7, <2>2
    <3> QED BY <1>9, <2>2, <3>1
  <2>3. CASE k = 1 /\ i = 1
    BY <1>2, <1>3, <1>5, <2>3
  <2> QED BY <1>2, <2>1, <2>2, <2>3
<1>11. \A i \in 1 .. top : \/ i = top
                           \/ top - i \in 1 .. n /\ list[i] = D(top - i)
                           \/ k = 1 /\ i = 1 /\ list[i] = dcim
  <2> SUFFICES ASSUME NEW i \in 1 .. top
               PROVE  \/ i = top
                      \/ top - i \in 1 .. n /\ list[i] = D(top - i)
                      \/ k = 1 /\ i = 1 /\ list[i] = dcim
    OBVIOUS
  <2>1. CASE top - i \in 1 .. n
    <3>1. list[top - (top - i)] = D(top - i) /\ top - (top - i) = i
      BY <1>2, <1>7, <2>1
    <3> QED BY <2>1, <3>1
  <2>2. CASE ~(top - i \in 1 .. n)
    BY <1>2, <1>5, <2>2
  <2> QED BY <2>1, <2>2
<1> USE DEF IInv, TreeInv
<1>12. StoreType
  <2>1. ptp_objectid \in Nat
    BY <1>2, <1>5
  <2>2. resp.code \in Codes
    BY DEF Init, Codes
  <2> QED BY <1>5, <2>1, <2>2 DEF Init, StoreType
<1>13. CounterAhead
  <2>1. \A i \in 1 .. Len(list) : list[i].id <= ptp_objectid
    BY <1>2, <1>5, <1>10
  <2>2. announced = <<>>
    BY DEF Init
  <2> QED BY <2>1, <2>2 DEF CounterAhead
<1>14. HandlesUnique
  BY <1>2, <1>6, <1>10 DEF HandlesUnique
<1>15. ParentsListed
  <2> SUFFICES ASSUME NEW i \in 1 .. top, list[i].id # 0
               PROVE  \E j \in 1 .. top :
                         /\ list[j].id = list[i].parent
                         /\ list[j].kind = "dir"
                         /\ list[j].id < list[i].id
    BY <1>6 DEF ParentsListed
  <2>1. i # top /\ list[i].id = top - i /\ top - i > 0
    BY <1>2, <1>10
  <2>2. /\ top \in 1 .. top
        /\ list[top].id = 0 /\ list[top].kind = "dir" /\ list[top].id < list[i].id
    <3>1. list[top].id = 0 /\ list[top].kind = "dir" /\ top \in 1 .. top
      BY <1>7, <1>8
    <3>2. 0 < list[i].id
      BY <1>2, <2>1
    <3> HIDE DEF top
    <3> QED BY <3>1, <3>2
  <2>3. CASE list[i].parent = 0
    BY <2>2, <2>3
  <2>4. CASE list[i].parent # 0
    <3>1. top - i \in 1 .. n /\ list[i] = D(top - i)
      BY <1>3, <1>11, <2>1, <2>4
    <3> DEFINE c == top - i
               p == card[c].parent
    <3>2. list[i].parent = p /\ p # 0
      BY <1>9, <2>4, <3>1
    <3> HIDE DEF c
    <3>3. c \in 1 .. n /\ c = top - i
      BY <3>1 DEF c
    <3>4. p < c /\ card[p].kind = "dir"
      BY ConstantsAssumption, <3>2, <3>3
    <3>5. p \in Nat
      <4> DEFINE Item == [name : CardNames, kind : Kinds, parent : Nat]
      <4>1. card \in Seq(Item)
        BY ConstantsAssumption, Zenon
      <4>2. card[c] \in Item
        <5> HIDE DEF Item
        <5> QED BY <3>3, <4>1
      <4> QED BY <4>2
    <3> HIDE DEF p
    <3>6. p \in 1 .. n
      BY <1>2, <3>2, <3>3, <3>4, <3>5
    <3>7. /\ top - p \in 1 .. top
          /\ list[top - p].id = p
          /\ list[top - p].kind = "dir"
      BY <1>7, <1>9, <3>4, <3>6
    <3>8. p < list[i].id
      BY <2>1, <3>3, <3>4
    <3> QED BY <3>2, <3>7, <3>8
  <2> QED BY <2>3, <2>4
<1>16. DcimKept
  <2>1. CASE k = 0
    BY <1>5, <2>1 DEF DcimKept
  <2>2. CASE k = 1
    <3>1. 1 \in 1 .. Len(list) /\ IsDcim(list[1])
      BY <1>2, <1>3, <1>5, <2>2
    <3> QED BY <3>1 DEF DcimKept
  <2> QED BY <2>1, <2>2
<1>17. KnownStaysValid
  BY DEF Init, KnownStaysValid
<1>18. CapturesAnnounced
  <2>1. ASSUME NEW i \in 1 .. top PROVE list[i].name # "PIC"
    <3>1. CASE i = top
      BY <1>7, <1>8, <3>1
    <3>2. CASE top - i \in 1 .. n /\ list[i] = D(top - i)
      <4>1. card[top - i].name # "PIC"
        BY ConstantsAssumption, <3>2
      <4> QED BY <1>9, <3>2, <4>1
    <3>3. CASE k = 1 /\ i = 1 /\ list[i] = dcim
      BY <1>3, <3>3
    <3> QED BY <1>11, <3>1, <3>2, <3>3
  <2>2. announced = <<>>
    BY DEF Init
  <2> QED BY <1>6, <2>1, <2>2 DEF CapturesAnnounced
<1> QED BY <1>12, <1>13, <1>14, <1>15, <1>16, <1>17, <1>18

-----------------------------------------------------------------------------
(* Steps *)

\* Refusals and reads change nothing but the answer.
LEMMA RefuseKeeps ==
    ASSUME IInv, NEW op, NEW code \in Codes, Refuse(op, code)
    PROVE  IInv' /\ Listed' \subseteq Listed
<1>1. resp'.code \in Codes
  BY DEF Refuse, Answer
<1>2. known' \subseteq Listed /\ alive' \in BOOLEAN
  BY DEF IInv, TreeInv, StoreType, KnownStaysValid, Refuse
<1> QED BY <1>1, <1>2, ReadKeeps DEF Refuse

\* Also when the process dies, the list is as it was.
LEMMA DieKeeps ==
    ASSUME IInv, Die
    PROVE  IInv' /\ Listed' \subseteq Listed
<1>1. resp'.code \in Codes
  BY DEF Die, IInv, TreeInv, StoreType
<1>2. known' \subseteq Listed /\ alive' \in BOOLEAN
  BY DEF IInv, KnownStaysValid, Die
<1> QED BY <1>1, <1>2, ReadKeeps DEF Die

\* InitiateCapture finds DCIM whenever it finds a picture: it never dies.
LEMMA StandardCapture ==
    ASSUME IInv, ptp_initiatecapture_write
    PROVE  /\ IInv'
           /\ \A h \in Listed' \ Listed : h > ptp_objectid
           /\ alive' = alive
<1>1. CASE ~HasJpg /\ Refuse("InitiateCapture", "StoreNotAvailable")
  <2>1. "StoreNotAvailable" \in Codes
    BY DEF Codes
  <2>2. alive' = alive
    BY <1>1 DEF Refuse
  <2> QED BY <1>1, <2>1, <2>2, RefuseKeeps
<1>2. CASE HasJpg
  <2>1. find_dcim # NoObject
    BY <1>2, FindDcim DEF IInv, TreeInv, DcimKept
  <2>2. /\ AddPicture("GPHOT", TRUE)
        /\ Answer("InitiateCapture", "OK")
        /\ UNCHANGED <<vendor, alive, known>>
    BY <1>2, <2>1 DEF ptp_initiatecapture_write
  <2>3. "GPHOT" \in FolderNames /\ resp'.code \in Codes /\ TRUE \in BOOLEAN
    BY <2>2 DEF FolderNames, Codes, Answer
  <2>4. alive' = alive
    BY <2>2
  <2>5. IInv' /\ \A h \in Listed' \ Listed : h > ptp_objectid
    BY <2>1, <2>2, <2>3, CaptureKeeps, Zenon
  <2> QED BY <2>4, <2>5
<1> QED BY <1>1, <1>2 DEF ptp_initiatecapture_write

\* The vendors' captures.
LEMMA VendorCaptureStep ==
    ASSUME IInv, NEW folder \in FolderNames, NEW refusal \in Codes,
           VendorCapture(folder, refusal)
    PROVE  /\ IInv'
           /\ \A h \in Listed' \ Listed : h > ptp_objectid
           /\ alive' = alive
<1>1. CASE Refuse("Capture", refusal)
  <2>1. alive' = alive
    BY <1>1 DEF Refuse
  <2> QED BY <1>1, <2>1, RefuseKeeps
<1>2. CASE /\ find_dcim # NoObject
           /\ AddPicture(folder, FALSE)
           /\ Answer("Capture", "OK")
           /\ UNCHANGED <<vendor, alive, known>>
  <2>1. resp'.code \in Codes /\ FALSE \in BOOLEAN
    BY <1>2 DEF Codes, Answer
  <2>2. alive' = alive
    BY <1>2
  <2>3. IInv' /\ \A h \in Listed' \ Listed : h > ptp_objectid
    BY <1>2, <2>1, CaptureKeeps, Zenon
  <2> QED BY <2>2, <2>3
<1> QED BY <1>1, <1>2 DEF VendorCapture

\* All captures.
LEMMA CaptureStep ==
    ASSUME IInv, Capture
    PROVE  /\ IInv'
           /\ \A h \in Listed' \ Listed : h > ptp_objectid
           /\ alive' = alive
<1>1. CASE ptp_initiatecapture_write
  BY <1>1, StandardCapture
<1>2. CASE VendorCapture("GPHOT", "OK")
  <2>1. "GPHOT" \in FolderNames /\ "OK" \in Codes
    BY DEF FolderNames, Codes
  <2> QED BY <1>2, <2>1, VendorCaptureStep, Zenon
<1>3. CASE VendorCapture("NIKON", "StoreNotAvailable")
  <2>1. "NIKON" \in FolderNames /\ "StoreNotAvailable" \in Codes
    BY DEF FolderNames, Codes
  <2> QED BY <1>3, <2>1, VendorCaptureStep, Zenon
<1> QED BY <1>1, <1>2, <1>3 DEF Capture, eos_capture_trigger, nikon_capture_card

\* Deletes. Only delete-all with virtual folders in the list can kill.
LEMMA DeleteStep ==
    ASSUME IInv, Delete
    PROVE  /\ IInv'
           /\ Listed' \subseteq Listed
           /\ ~DeleteAllAfterCapture => alive' = alive
<1>1. PICK h \in Handles \cup {AllHandles} : nikon_deleteobject(h)
  BY DEF Delete
<1>2. CASE Refuse("DeleteObject", "InvalidObjectHandle")
  <2>1. "InvalidObjectHandle" \in Codes /\ alive' = alive
    BY <1>2 DEF Codes, Refuse
  <2> QED BY <1>2, <2>1, RefuseKeeps
<1>3. CASE Refuse("DeleteObject", "ObjectWriteProtected")
  <2>1. "ObjectWriteProtected" \in Codes /\ alive' = alive
    BY <1>3 DEF Codes, Refuse
  <2> QED BY <1>3, <2>1, RefuseKeeps
<1>4. CASE DeleteAll
  <2>1. CASE DeleteAllAfterCapture /\ Die
    BY <2>1, DieKeeps
  <2>2. CASE /\ list' = <<>>
             /\ known' = {}
             /\ Answer("DeleteObject", "OK")
             /\ UNCHANGED <<vendor, ptp_objectid, alive, announced, taken>>
    <3>1. resp'.code \in Codes
      BY <2>2 DEF Codes, Answer
    <3>2. alive' = alive
      BY <2>2
    <3> QED BY <2>2, <3>1, <3>2, EmptyKeeps
  <2> QED BY <1>4, <2>1, <2>2 DEF DeleteAll
<1>5. CASE /\ find_dirent(h) # 0
           /\ list[find_dirent(h)].kind # "dir"
           /\ list' = RemoveAt(list, find_dirent(h))
           /\ known' = known \ {h}
           /\ Answer("DeleteObject", "OK")
           /\ UNCHANGED <<vendor, ptp_objectid, alive, announced, taken>>
  <2> DEFINE i == find_dirent(h)
  <2>1. i \in 1 .. Len(list) /\ list[i].id = h
    <3>1. StoreType
      BY DEF IInv, TreeInv
    <3>2. i \in 0 .. Len(list) /\ i # 0 /\ list[i].id = h
      BY <1>5, <3>1, FindDirent
    <3>3. Len(list) \in Nat
      BY <3>1 DEF StoreType
    <3> HIDE DEF i
    <3> QED BY <3>2, <3>3
  <2>2. resp'.code \in Codes
    BY <1>5 DEF Codes, Answer
  <2>3. alive' = alive
    BY <1>5
  <2>4. /\ list[i].kind # "dir"
        /\ list' = RemoveAt(list, i)
        /\ known' = known \ {list[i].id}
        /\ UNCHANGED <<vendor, ptp_objectid, alive, announced, taken>>
    BY <1>5, <2>1
  <2> HIDE DEF i
  <2> QED BY <2>1, <2>2, <2>3, <2>4, UnlinkKeeps
<1> QED BY <1>1, <1>2, <1>3, <1>4, <1>5
        DEF nikon_deleteobject, ptp_deleteobject_write, DeleteOne

\* Listings: what they return is listed.
LEMMA EnumerateStep ==
    ASSUME IInv, Enumerate
    PROVE  IInv' /\ Listed' \subseteq Listed /\ alive' = alive
<1>1. PICK mode \in Handles \cup {0, AllHandles} : ptp_getobjecthandles_write(mode)
  BY DEF Enumerate
<1>2. CASE Refuse("GetObjectHandles", "InvalidObjectHandle")
  <2>1. "InvalidObjectHandle" \in Codes /\ alive' = alive
    BY <1>2 DEF Codes, Refuse
  <2> QED BY <1>2, <2>1, RefuseKeeps
<1>3. CASE Refuse("GetObjectHandles", "InvalidParentObject")
  <2>1. "InvalidParentObject" \in Codes /\ alive' = alive
    BY <1>3 DEF Codes, Refuse
  <2> QED BY <1>3, <2>1, RefuseKeeps
<1>4. CASE /\ known' = known \cup HandlesBelow(mode)
           /\ Answer("GetObjectHandles", "OK")
           /\ UNCHANGED <<vendor, list, ptp_objectid, alive, announced, taken>>
  <2>1. HandlesBelow(mode) \subseteq Listed
    BY DEF HandlesBelow, Listed
  <2>2. known' \subseteq Listed /\ alive' \in BOOLEAN /\ alive' = alive
    BY <1>4, <2>1 DEF IInv, TreeInv, StoreType, KnownStaysValid
  <2>3. resp'.code \in Codes
    BY <1>4 DEF Codes, Answer
  <2> QED BY <1>4, <2>2, <2>3, ReadKeeps
<1> QED BY <1>1, <1>2, <1>3, <1>4 DEF ptp_getobjecthandles_write

\* Reads.
LEMMA ReadStep ==
    ASSUME IInv, Read
    PROVE  IInv' /\ Listed' \subseteq Listed /\ alive' = alive
<1>1. PICK op \in Readers, h \in Handles : ReadObject(op, h)
  BY DEF Read
<1>2. \E code \in Codes : Refuse(op, code)
  <2>1. ReadCodes(op, list[find_dirent(h)]) \subseteq Codes
    BY DEF ReadCodes, Codes
  <2>2. "InvalidObjectHandle" \in Codes
    BY DEF Codes
  <2> QED BY <1>1, <2>1, <2>2 DEF ReadObject
<1>3. alive' = alive
  BY <1>2 DEF Refuse
<1> QED BY <1>2, <1>3, RefuseKeeps

\* Argument errors and events.
LEMMA OtherStep ==
    ASSUME IInv, RefuseArguments \/ ReceiveEvent
    PROVE  IInv' /\ Listed' \subseteq Listed /\ alive' = alive
<1>1. CASE RefuseArguments
  <2>1. PICK e \in ArgumentErrors : Refuse(e.op, e.code)
    BY <1>1 DEF RefuseArguments
  <2>2. e.code \in Codes
    BY DEF ArgumentErrors, Codes
  <2>3. alive' = alive
    BY <2>1 DEF Refuse
  <2> QED BY <2>1, <2>2, <2>3, RefuseKeeps
<1>2. CASE ReceiveEvent
  <2>1. known' \subseteq Listed /\ alive' = alive /\ alive' \in BOOLEAN
    BY <1>2 DEF ReceiveEvent, IInv, TreeInv, StoreType, KnownStaysValid, Listed
  <2>2. resp'.code \in Codes
    BY <1>2 DEF ReceiveEvent, IInv, TreeInv, StoreType
  <2> QED BY <1>2, <2>1, <2>2, ReadKeeps DEF ReceiveEvent
<1> QED BY <1>1, <1>2

-----------------------------------------------------------------------------
(* Theorems *)

\* The invariant is inductive, every new entry has a handle above the counter,
\* and only delete-all on virtual folders stops the process.
LEMMA StepKeeps ==
    ASSUME IInv, [Next]_vars
    PROVE  /\ IInv'
           /\ \A h \in Listed' \ Listed : h > ptp_objectid
           /\ ~DeleteAllAfterCapture => alive' = alive
<1>1. CASE Capture
  BY <1>1, CaptureStep
<1>2. CASE Delete
  BY <1>2, DeleteStep
<1>3. CASE Enumerate
  BY <1>3, EnumerateStep
<1>4. CASE Read
  BY <1>4, ReadStep
<1>5. CASE RefuseArguments \/ ReceiveEvent
  BY <1>5, OtherStep
<1>6. CASE UNCHANGED vars
  <2>1. known' \subseteq Listed /\ alive' = alive /\ alive' \in BOOLEAN
        /\ resp'.code \in Codes
    BY <1>6 DEF vars, IInv, TreeInv, StoreType, KnownStaysValid
  <2> QED BY <1>6, <2>1, ReadKeeps DEF vars
<1> QED BY <1>1, <1>2, <1>3, <1>4, <1>5, <1>6 DEF Next

\* What the parts of the inductive invariant mean for the list.
LEMMA TreeIsSound ==
    ASSUME IInv
    PROVE  ListSound
<1>1. \A i \in DOMAIN list :
        /\ list[i].id \in Nat
        /\ list[i].kind \in Kinds
        /\ list[i].parent = NoObject <=> list[i].id = 0
  <2>1. \A i \in DOMAIN list : list[i] \in Dirents
    BY DEF IInv, TreeInv, StoreType
  <2> QED BY <2>1 DEF Dirents
<1>2. TypeOK
  BY <1>1 DEF TypeOK, IInv, TreeInv, StoreType
<1> QED BY <1>2 DEF ListSound, IInv, TreeInv

\* The object list stays a tree (ptp_dirent in vcam.h, read_tree, the captures,
\* DeleteObject): handles are unique and parent pointers lead to older folders.
THEOREM ListStaysSound == Spec => []ListSound
<1>1. Init => IInv
  BY InitKeeps
<1>2. IInv /\ [Next]_vars => IInv'
  BY StepKeeps
<1>3. IInv => ListSound
  BY TreeIsSound
<1> QED BY <1>1, <1>2, <1>3, PTL DEF Spec

\* What the client was told stays valid until it deletes it, and every picture
\* is announced once.
THEOREM ClientStaysInformed == Spec => []ClientInformed
<1>1. Init => IInv
  BY InitKeeps
<1>2. IInv /\ [Next]_vars => IInv'
  BY StepKeeps
<1>3. IInv => ClientInformed
  BY DEF IInv, ClientInformed
<1> QED BY <1>1, <1>2, <1>3, PTL DEF Spec

\* A handle never denotes a second object: what appears in the list has a
\* handle above every one handed out before.
THEOREM HandlesAreFresh == Spec => HandlesNotReused
<1>1. Init => IInv
  BY InitKeeps
<1>2. IInv /\ [Next]_vars => IInv'
  BY StepKeeps
<1>3. IInv /\ [Next]_vars => [\A h \in Listed' \ Listed : h > ptp_objectid]_vars
  BY StepKeeps
<1> QED BY <1>1, <1>2, <1>3, PTL DEF Spec, HandlesNotReused

\* InitiateCapture dereferences the DCIM entry unchecked and never meets a list
\* without it; as long as clients do not send delete-all while virtual folders
\* exist, nothing stops the process.
THEOREM ProcessSurvives ==
    ASSUME ~DeleteAllAfterCapture
    PROVE  Spec => []NeverCrashes
<1>1. Init => IInv /\ alive
  BY InitKeeps DEF Init
<1>2. IInv /\ alive /\ [Next]_vars => (IInv /\ alive)'
  BY StepKeeps
<1>3. IInv /\ alive => NeverCrashes
  BY DEF NeverCrashes
<1> QED BY <1>1, <1>2, <1>3, PTL DEF Spec

==============================================================================
