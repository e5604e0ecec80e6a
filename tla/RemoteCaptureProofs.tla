------------------------ MODULE RemoteCaptureProofs ------------------------
(***************************************************************************)
(* Proofs about remote capture, for any number of pictures of any sizes,   *)
(* any limits of the partial transfers and all three families of cameras.  *)
(***************************************************************************)
EXTENDS RemoteCapture, SeqLemmas

-----------------------------------------------------------------------------
(* The inductive invariant *)

\* Every picture that anyone can still name: on the card, in memory, announced,
\* or being downloaded.
Known ==
    card \cup {offers[i] : i \in 1 .. Len(offers)}
         \cup {a \in {sdram} : sdram.pic # 0}
         \cup {a \in {job.offer} : job.phase # "none"}

\* What the handle of a download can be served from.
Stock == card \cup {a \in {sdram} : sdram.pic # 0}

\* The camera's own variables.
CameraInv ==
    /\ vendor \in Vendors
    /\ stocked \in BOOLEAN /\ folder \in BOOLEAN
    /\ full_pressed \in BOOLEAN /\ in_memory \in BOOLEAN
    /\ destination \in {"card", "sdram"} /\ focus \in {1, 2}
    /\ SonyFlags
    /\ vendor = "sony" => card = {}

\* The counter of handles stays below the fixed handle.
CountInv ==
    /\ sizes \in Seq(Sizes) /\ Taken <= MaxPictures
    /\ ptp_objectid \in Nat /\ ptp_objectid <= Base + 2 * Taken
    /\ discarded \subseteq 1 .. Taken

\* A handle names one picture, apart from the fixed one, which names the newest.
KnownInv ==
    /\ sdram \in Pictures \cup {NoPicture} /\ card \subseteq Pictures
    /\ offers \in Seq(Pictures)
    /\ \A a \in Known :
          /\ a \in Pictures /\ a.size = sizes[a.pic]
          /\ a.handle = FixedHandle \/ a.handle <= ptp_objectid
          /\ vendor = "canon" => a.handle # FixedHandle
    /\ \A a, b \in Known : a.handle = b.handle /\ a.handle # FixedHandle => a = b
    /\ \A a \in card : a.handle # FixedHandle /\ a.pic # sdram.pic
    /\ sdram.pic # 0 => \A a \in Known : a.handle = FixedHandle => a.pic <= sdram.pic

AnyPicture == [pic : Nat, handle : Nat, size : Nat]

JobRecord ==
    [phase : {"none", "info", "fetch", "confirm"}, offer : AnyPicture,
     size : Nat, got : Nat, from : SUBSET Nat]

\* Everything the client has of a download is from one picture, which is still
\* the one its handle names if it names any.
Source ==
    /\ job.size > 0 /\ job.got <= job.size
    /\ job.from = {} => job.got = 0
    /\ \A n \in job.from :
          /\ n \in 1 .. Taken /\ job.from = {n} /\ sizes[n] = job.size
          /\ n >= job.offer.pic
          /\ job.offer.handle # FixedHandle => n = job.offer.pic
    /\ \A q \in Stock : q.handle = job.offer.handle =>
          q.size = job.size /\ job.from \subseteq {q.pic}

JobInv ==
    /\ job \in JobRecord
    /\ job.phase = "none" => job = NoJob
    /\ job.phase = "info" => job.from = {} /\ job.got = 0
    /\ job.phase \in {"fetch", "confirm"} => Source
    /\ job.phase = "confirm" =>
          /\ job.from # {} /\ job.got = job.size
          /\ [offer |-> job.offer, got |-> job.got, from |-> job.from] \in album

CaptureInv == CameraInv /\ CountInv /\ KnownInv /\ JobInv /\ DownloadsRight

-----------------------------------------------------------------------------
(* Pictures are taken *)

\* A sequence of members of a set is one of members of a larger set.
LEMMA SeqGrows ==
    ASSUME NEW S, NEW T, S \subseteq T, NEW q \in Seq(S)
    PROVE  q \in Seq(T)
<1>1. Len(q) \in Nat /\ q = [i \in 1 .. Len(q) |-> q[i]]
  OBVIOUS
<1>2. \A i \in 1 .. Len(q) : q[i] \in T
  OBVIOUS
<1>3. [i \in 1 .. Len(q) |-> q[i]] \in Seq(T)
  BY <1>1, <1>2
<1> QED BY <1>1, <1>3

\* The pictures in the stock are known, and those of the counter's handles are
\* told apart by them.
LEMMA StockKnown ==
    ASSUME CaptureInv
    PROVE  /\ Stock \subseteq Known
           /\ \A a \in Stock : a \in Pictures /\ a.pic # 0
           /\ \A a, b \in Stock : a.handle = b.handle => a = b
<1>1. Stock \subseteq Known
  BY DEF Stock, Known
<1>2. \A a \in Known : a \in Pictures
  BY DEF CaptureInv, KnownInv
<1>3. ASSUME NEW a \in Stock PROVE a \in Pictures /\ a.pic # 0
  <2>1. a \in Pictures
    BY <1>1, <1>2
  <2>2. a.pic \in 1 .. Taken
    BY <2>1 DEF Pictures
  <2> QED BY <2>1, <2>2
<1>4. ASSUME NEW a \in Stock, NEW b \in Stock, a.handle = b.handle PROVE a = b
  <2>1. CASE a.handle # FixedHandle
    BY <1>1, <1>4, <2>1 DEF CaptureInv, KnownInv
  <2>2. CASE a.handle = FixedHandle
    <3>1. a \notin card /\ b \notin card
      BY <1>4, <2>2 DEF CaptureInv, KnownInv
    <3> QED BY <3>1 DEF Stock
  <2> QED BY <2>1, <2>2
<1> QED BY <1>1, <1>3, <1>4

\* How a capture is seen by the client: a new picture, under a new handle of the
\* counter or under the fixed one, in memory or on the card.
Shot(n, size) ==
    /\ Taken < MaxPictures /\ (Idle \/ vendor = "canon")
    /\ n = Picture(n.handle, size) /\ n.handle \in Nat \ {0} /\ size \in Sizes
    /\ offers' = Append(offers, n) /\ sizes' = Append(sizes, size)
    /\ UNCHANGED <<vendor, job, album, discarded>>
    /\ \/ n.handle = FixedHandle /\ vendor # "canon" /\ ptp_objectid' = ptp_objectid
       \/ /\ n.handle > ptp_objectid /\ n.handle = ptp_objectid'
          /\ ptp_objectid' <= ptp_objectid + 2
    /\ \/ sdram' = n /\ card' = card
       \/ sdram' = sdram /\ card' = card \cup {n} /\ n.handle # FixedHandle

\* The history of sizes grows, and with it the numbers of pictures.
LEMMA ShotGrows ==
    ASSUME CaptureInv, NEW n, NEW size, Shot(n, size)
    PROVE  /\ Taken \in Nat /\ Taken' = Taken + 1
           /\ sizes' \in Seq(Sizes)
           /\ \A i \in 1 .. Taken : sizes'[i] = sizes[i]
           /\ n.pic = Taken + 1 /\ n.size = size /\ sizes'[n.pic] = size
           /\ Pictures \subseteq Pictures' /\ n \in Pictures'
           /\ offers' \in Seq(Pictures')
           /\ Known' \subseteq Known \cup {n} /\ Stock' \subseteq Stock \cup {n}
<1>1. sizes \in Seq(Sizes) /\ Len(sizes) \in Nat /\ size \in Sizes
  BY DEF CaptureInv, CountInv, Shot
<1>2. /\ sizes' \in Seq(Sizes) /\ Len(sizes') = Len(sizes) + 1
      /\ \A i \in 1 .. Len(sizes) : sizes'[i] = sizes[i]
      /\ sizes'[Len(sizes) + 1] = size
  BY <1>1, AppendProperties DEF Shot
<1>3. n.pic = Taken + 1 /\ n.size = size
  BY DEF Shot, Picture
<1>4. /\ Taken \in Nat /\ Taken' = Taken + 1 /\ sizes'[n.pic] = size
      /\ \A i \in 1 .. Taken : sizes'[i] = sizes[i]
  BY <1>1, <1>2, <1>3 DEF Taken
<1>5. Pictures \subseteq Pictures'
  <2>1. 1 .. Taken \subseteq 1 .. Taken'
    BY <1>4
  <2> QED BY <2>1 DEF Pictures
<1>6. n \in Pictures'
  <2>1. Taken + 1 \in 1 .. Taken' /\ n.handle \in Nat \ {0}
    BY <1>4 DEF Shot
  <2>2. n = [pic |-> Taken + 1, handle |-> n.handle, size |-> size]
    BY DEF Shot, Picture
  <2> QED BY <1>1, <2>1, <2>2 DEF Pictures
<1>7. /\ offers \in Seq(Pictures) /\ offers \in Seq(Pictures') /\ Len(offers) \in Nat
  <2>1. offers \in Seq(Pictures)
    BY DEF CaptureInv, KnownInv
  <2> QED BY <1>5, <2>1, SeqGrows
<1>8. /\ offers' \in Seq(Pictures') /\ Len(offers') = Len(offers) + 1
      /\ \A i \in 1 .. Len(offers) : offers'[i] = offers[i]
      /\ offers'[Len(offers) + 1] = n
  BY <1>6, <1>7, AppendProperties DEF Shot
<1>9. Stock' \subseteq Stock \cup {n}
  BY DEF Stock, Shot
<1>10. Known' \subseteq Known \cup {n}
  <2> SUFFICES ASSUME NEW a \in Known' PROVE a \in Known \cup {n}
    OBVIOUS
  <2>1. CASE a \in Stock'
    BY <1>9, <2>1 DEF Stock, Known
  <2>2. CASE \E i \in 1 .. Len(offers') : a = offers'[i]
    <3>1. PICK i \in 1 .. Len(offers) + 1 : a = offers'[i]
      BY <1>8, <2>2
    <3>2. CASE i = Len(offers) + 1
      BY <1>8, <3>1, <3>2
    <3>3. CASE i # Len(offers) + 1
      <4>1. i \in 1 .. Len(offers)
        BY <1>7, <3>3
      <4>2. a = offers[i]
        BY <1>8, <3>1, <4>1
      <4> QED BY <4>1, <4>2 DEF Known
    <3> QED BY <3>2, <3>3
  <2>3. CASE a = job'.offer /\ job'.phase # "none"
    BY <2>3 DEF Known, Shot
  <2> QED BY <2>1, <2>2, <2>3 DEF Known, Stock
<1> QED BY <1>2, <1>4, <1>3, <1>5, <1>6, <1>8, <1>9, <1>10 DEF Taken

\* What the invariant says of pictures and downloads is kept by a capture: its
\* handle is new, or the fixed one while nobody downloads.
LEMMA ShotKeeps ==
    ASSUME CaptureInv, NEW n, NEW size, Shot(n, size)
    PROVE  CountInv' /\ KnownInv' /\ JobInv' /\ DownloadsRight'
<1>1. /\ Taken \in Nat /\ Taken' = Taken + 1
      /\ sizes' \in Seq(Sizes)
      /\ \A i \in 1 .. Taken : sizes'[i] = sizes[i]
      /\ n.pic = Taken + 1 /\ n.size = size /\ sizes'[n.pic] = size
      /\ Pictures \subseteq Pictures' /\ n \in Pictures'
      /\ offers' \in Seq(Pictures')
      /\ Known' \subseteq Known \cup {n} /\ Stock' \subseteq Stock \cup {n}
  BY ShotGrows
<1>2. /\ MaxPictures \in Nat /\ Base \in Nat /\ FixedHandle \in Nat
      /\ FixedHandle > Base + 2 * MaxPictures
  BY ConstantsAssumption
<1>3. /\ ptp_objectid \in Nat /\ ptp_objectid <= Base + 2 * Taken
      /\ Taken < MaxPictures /\ n.handle \in Nat
  BY DEF CaptureInv, CountInv, Shot
<1>4. /\ ptp_objectid' \in Nat /\ ptp_objectid <= ptp_objectid'
      /\ ptp_objectid' <= Base + 2 * Taken'
      /\ n.handle = FixedHandle \/ n.handle <= ptp_objectid'
      /\ n.handle # FixedHandle => n.handle > ptp_objectid
      /\ vendor = "canon" => n.handle # FixedHandle
  <2>1. CASE n.handle = FixedHandle /\ vendor # "canon" /\ ptp_objectid' = ptp_objectid
    BY <1>1, <1>2, <1>3, <2>1
  <2>2. CASE /\ n.handle > ptp_objectid /\ n.handle = ptp_objectid'
             /\ ptp_objectid' <= ptp_objectid + 2
    BY <1>1, <1>2, <1>3, <2>2
  <2> QED BY <2>1, <2>2 DEF Shot
<1>5. ASSUME NEW a \in Known
      PROVE  /\ a \in Pictures /\ a.pic \in 1 .. Taken /\ a.handle \in Nat
             /\ a.size = sizes[a.pic]
             /\ a.handle = FixedHandle \/ a.handle <= ptp_objectid
             /\ vendor = "canon" => a.handle # FixedHandle
             /\ n.handle # FixedHandle => a.handle # n.handle
  <2>1. /\ a \in Pictures /\ a.size = sizes[a.pic]
        /\ a.handle = FixedHandle \/ a.handle <= ptp_objectid
        /\ vendor = "canon" => a.handle # FixedHandle
    BY DEF CaptureInv, KnownInv
  <2>2. a.pic \in 1 .. Taken /\ a.handle \in Nat
    BY <2>1 DEF Pictures
  <2> QED BY <1>3, <1>4, <2>1, <2>2
<1>6. CountInv'
  <2>1. discarded' \subseteq 1 .. Taken'
    BY <1>1 DEF CaptureInv, CountInv, Shot
  <2> QED BY <1>1, <1>2, <1>3, <1>4, <2>1 DEF CountInv
<1>7. sdram' \in Pictures' \cup {NoPicture} /\ card' \subseteq Pictures'
  <2>1. sdram \in Pictures \cup {NoPicture} /\ card \subseteq Pictures
    BY DEF CaptureInv, KnownInv
  <2> QED BY <1>1, <2>1 DEF Shot
<1>8. ASSUME NEW a \in Known'
      PROVE  /\ a \in Pictures' /\ a.size = sizes'[a.pic]
             /\ a.handle = FixedHandle \/ a.handle <= ptp_objectid'
             /\ vendor' = "canon" => a.handle # FixedHandle
             /\ a.pic \in 1 .. Taken + 1
  <2>1. vendor' = vendor
    BY DEF Shot
  <2>2. CASE a = n
    BY <1>1, <1>4, <2>1, <2>2
  <2>3. CASE a \in Known
    <3>1. /\ a \in Pictures /\ a.pic \in 1 .. Taken /\ a.handle \in Nat
          /\ a.size = sizes[a.pic]
          /\ a.handle = FixedHandle \/ a.handle <= ptp_objectid
          /\ vendor = "canon" => a.handle # FixedHandle
      BY <1>5, <2>3
    <3> QED BY <1>1, <1>3, <1>4, <2>1, <3>1
  <2> QED BY <1>1, <2>2, <2>3
<1>9. ASSUME NEW a \in Known', NEW b \in Known', a.handle = b.handle, a.handle # FixedHandle
      PROVE  a = b
  <2>1. CASE a \in Known /\ b \in Known
    BY <1>9, <2>1 DEF CaptureInv, KnownInv
  <2>2. CASE a = n \/ b = n
    BY <1>1, <1>5, <1>9, <2>2
  <2> QED BY <1>1, <2>1, <2>2
<1>10. ASSUME NEW a \in card'
       PROVE  a.handle # FixedHandle /\ a.pic # sdram'.pic
  <2>1. sdram.pic \in 0 .. Taken
    BY <1>1 DEF CaptureInv, KnownInv, Pictures, NoPicture
  <2>2. CASE a \in card
    <3>1. a.handle # FixedHandle /\ a.pic # sdram.pic /\ a \in Known
      BY <2>2 DEF CaptureInv, KnownInv, Known
    <3>2. a.pic \in 1 .. Taken
      BY <1>5, <3>1
    <3> QED BY <1>1, <3>1, <3>2 DEF Shot
  <2>3. CASE a \notin card
    <3>1. a = n /\ sdram' = sdram /\ n.handle # FixedHandle
      BY <2>3 DEF Shot
    <3> QED BY <1>1, <2>1, <3>1
  <2> QED BY <2>2, <2>3
<1>11. ASSUME sdram'.pic # 0, NEW a \in Known', a.handle = FixedHandle
       PROVE  a.pic <= sdram'.pic
  <2>1. CASE sdram' = n
    BY <1>1, <1>8, <2>1
  <2>2. CASE sdram' = sdram /\ n.handle # FixedHandle
    <3>1. a \in Known
      BY <1>1, <1>11, <2>2
    <3> QED BY <1>11, <2>2, <3>1 DEF CaptureInv, KnownInv
  <2> QED BY <2>1, <2>2 DEF Shot
<1>12. KnownInv'
  BY <1>1, <1>7, <1>8, <1>9, <1>10, <1>11 DEF KnownInv
<1>13. ASSUME job.phase # "none"
       PROVE  \A q \in Stock' : q.handle = job.offer.handle => q \in Stock
  <2>1. vendor = "canon"
    BY <1>13 DEF Shot, Idle, NoJob
  <2>2. job.offer \in Known
    BY <1>13 DEF Known
  <2>3. n.handle # job.offer.handle
    BY <1>4, <1>5, <2>1, <2>2
  <2> QED BY <1>1, <2>3
<1>14. ASSUME job.phase \in {"fetch", "confirm"}
       PROVE  Source'
  <2>1. Source /\ job' = job
    BY <1>14 DEF CaptureInv, JobInv, Shot
  <2>2. \A q \in Stock' : q.handle = job.offer.handle =>
            q.size = job.size /\ job.from \subseteq {q.pic}
    BY <1>13, <1>14, <2>1 DEF Source
  <2>3. \A k \in job.from :
            /\ k \in 1 .. Taken' /\ job.from = {k} /\ sizes'[k] = job.size
            /\ k >= job.offer.pic
            /\ job.offer.handle # FixedHandle => k = job.offer.pic
    BY <1>1, <2>1 DEF Source
  <2> QED BY <2>1, <2>2, <2>3 DEF Source
<1>15. JobInv'
  BY <1>14 DEF CaptureInv, JobInv, Shot
<1>16. DownloadsRight'
  <2>1. album' = album /\ DownloadsRight
    BY DEF Shot, CaptureInv
  <2>2. PicturesWhole'
    <3> SUFFICES ASSUME NEW d \in album
                 PROVE  \E p \in 1 .. Taken' : d.from = {p} /\ d.got = sizes'[p]
      BY <2>1 DEF PicturesWhole
    <3>1. PICK p \in 1 .. Taken : d.from = {p} /\ d.got = sizes[p]
      BY <2>1 DEF DownloadsRight, PicturesWhole
    <3>2. p \in 1 .. Taken' /\ sizes'[p] = sizes[p]
      BY <1>1
    <3> QED BY <3>1, <3>2
  <2>3. OfferedIsServed'
    BY <2>1 DEF DownloadsRight, OfferedIsServed
  <2> QED BY <2>2, <2>3 DEF DownloadsRight
<1> QED BY <1>6, <1>12, <1>15, <1>16

\* What every capture has in common, whatever takes it.
Release(size) ==
    /\ Taken < MaxPictures /\ (Idle \/ vendor = "canon") /\ size \in Sizes
    /\ UNCHANGED <<vendor, job, album, discarded>>

\* A capture to the card.
LEMMA CardShot ==
    ASSUME CaptureInv, NEW size, Release(size), capture_card(size)
    PROVE  /\ \E n : Shot(n, size)
           /\ folder' \in BOOLEAN /\ sdram' = sdram
<1>1. PICK h : h = IF folder THEN ptp_objectid + 1 ELSE ptp_objectid + 2
  OBVIOUS
<1>2. /\ ptp_objectid' = h /\ card' = card \cup {Picture(h, size)}
      /\ Announce(Picture(h, size)) /\ sdram' = sdram /\ folder' = TRUE
  BY <1>1 DEF capture_card
<1>3. /\ ptp_objectid \in Nat /\ ptp_objectid <= Base + 2 * Taken
      /\ Taken < MaxPictures /\ Taken \in Nat /\ MaxPictures \in Nat /\ Base \in Nat
      /\ FixedHandle \in Nat /\ FixedHandle > Base + 2 * MaxPictures
  BY ConstantsAssumption DEF CaptureInv, CountInv, Release, Taken
<1>4. /\ h \in Nat \ {0} /\ h > ptp_objectid /\ h <= ptp_objectid + 2
      /\ h # FixedHandle
  BY <1>1, <1>3
<1>5. PICK n : n = Picture(h, size)
  OBVIOUS
<1>6. n.handle = h /\ n.size = size /\ n = Picture(n.handle, size)
  BY <1>5 DEF Picture
<1>7. Shot(n, size)
  BY <1>2, <1>4, <1>5, <1>6 DEF Shot, Release, Announce
<1>8. folder' \in BOOLEAN
  BY <1>2, Zenon
<1> QED BY <1>2, <1>7, <1>8

\* A capture to memory, under the counter's next handle or the fixed one.
LEMMA MemoryShot ==
    ASSUME CaptureInv, NEW size, Release(size), NEW h,
           sdram' = Picture(h, size), Announce(Picture(h, size)), card' = card,
           \/ h = ptp_objectid + 1 /\ ptp_objectid' = h
           \/ h = FixedHandle /\ vendor # "canon" /\ ptp_objectid' = ptp_objectid
    PROVE  \E n : Shot(n, size)
<1>1. /\ ptp_objectid \in Nat /\ MaxPictures \in Nat /\ Base \in Nat
      /\ FixedHandle \in Nat /\ FixedHandle > Base + 2 * MaxPictures
  BY ConstantsAssumption DEF CaptureInv, CountInv
<1>2. h \in Nat \ {0}
  BY <1>1
<1>3. PICK n : n = Picture(h, size)
  OBVIOUS
<1>4. n.handle = h /\ n.size = size /\ n = Picture(n.handle, size)
  BY <1>3 DEF Picture
<1>5. \/ n.handle = FixedHandle /\ vendor # "canon" /\ ptp_objectid' = ptp_objectid
      \/ /\ n.handle > ptp_objectid /\ n.handle = ptp_objectid'
         /\ ptp_objectid' <= ptp_objectid + 2
  BY <1>1, <1>4
<1>6. Shot(n, size)
  BY <1>2, <1>3, <1>4, <1>5 DEF Shot, Release, Announce
<1> QED BY <1>6

\* A Canon body releases its shutter.
LEMMA CanonShot ==
    ASSUME CaptureInv, NEW size, Release(size), eos_capture_trigger(size)
    PROVE  CaptureInv'
<1>1. /\ vendor = "canon"
      /\ UNCHANGED <<vendor, stocked, destination, full_pressed, focus, in_memory>>
  BY DEF eos_capture_trigger, settings, shutter
<1>2. (\E n : Shot(n, size)) /\ folder' \in BOOLEAN
  <2>1. CASE eos_capture_sdram(size)
    <3>1. /\ sdram' = Picture(ptp_objectid + 1, size)
          /\ Announce(Picture(ptp_objectid + 1, size)) /\ card' = card
          /\ ptp_objectid' = ptp_objectid + 1 /\ folder' = folder
      BY <2>1 DEF eos_capture_sdram
    <3>2. folder' \in BOOLEAN
      BY <3>1 DEF CaptureInv, CameraInv
    <3> QED BY <3>1, <3>2, MemoryShot
  <2>2. CASE capture_card(size)
    BY <2>2, CardShot
  <2> QED BY <2>1, <2>2 DEF eos_capture_trigger
<1>3. CameraInv'
  BY <1>1, <1>2 DEF CaptureInv, CameraInv, SonyFlags
<1> QED BY <1>2, <1>3, ShotKeeps DEF CaptureInv

\* A Nikon body takes a picture.
LEMMA NikonShot ==
    ASSUME CaptureInv, NEW size, Release(size), nikon_do_capture(size)
    PROVE  CaptureInv'
<1>1. /\ vendor = "nikon"
      /\ UNCHANGED <<vendor, stocked, destination, full_pressed, focus, in_memory>>
  BY DEF nikon_do_capture, settings, shutter
<1>2. (\E n : Shot(n, size)) /\ folder' \in BOOLEAN
  <2>1. CASE nikon_capture_sdram(size)
    <3>1. /\ sdram' = Picture(FixedHandle, size)
          /\ Announce(Picture(FixedHandle, size))
          /\ UNCHANGED <<folder, ptp_objectid, card>>
      BY <2>1 DEF nikon_capture_sdram, store
    <3>2. folder' \in BOOLEAN
      BY <3>1 DEF CaptureInv, CameraInv
    <3> QED BY <1>1, <3>1, <3>2, MemoryShot
  <2>2. CASE capture_card(size)
    BY <2>2, CardShot
  <2> QED BY <2>1, <2>2 DEF nikon_do_capture
<1>3. CameraInv'
  BY <1>1, <1>2 DEF CaptureInv, CameraInv, SonyFlags
<1> QED BY <1>2, <1>3, ShotKeeps DEF CaptureInv

\* The shutter of a Sony body comes up again.
LEMMA SonyShot ==
    ASSUME CaptureInv, NEW size, Release(size), SonyRelease(size)
    PROVE  CaptureInv'
<1>1. /\ vendor = "sony" /\ full_pressed' = FALSE /\ in_memory' = TRUE /\ focus' = 1
      /\ sdram' = Picture(FixedHandle, size) /\ Announce(Picture(FixedHandle, size))
      /\ UNCHANGED <<vendor, stocked, destination, folder, ptp_objectid, card>>
  BY DEF SonyRelease, settings, store
<1>2. \E n : Shot(n, size)
  BY <1>1, MemoryShot
<1>3. SonyFlags'
  <2>1. sdram'.pic # 0
    <3>1. Taken \in Nat
      BY DEF CaptureInv, CountInv, Taken
    <3> QED BY <1>1, <3>1 DEF Picture
  <2>2. focus' # 2
    BY <1>1
  <2> QED BY <1>1, <2>1, <2>2, Zenon DEF SonyFlags
<1>4. full_pressed' \in BOOLEAN /\ in_memory' \in BOOLEAN
  BY <1>1, Zenon
<1>5. CameraInv'
  BY <1>1, <1>3, <1>4 DEF CaptureInv, CameraInv
<1> QED BY <1>2, <1>5, ShotKeeps DEF CaptureInv

\* Any capture.
LEMMA CaptureStep ==
    ASSUME CaptureInv, Capture
    PROVE  CaptureInv'
<1>1. PICK size \in Sizes :
        eos_capture_trigger(size) \/ nikon_do_capture(size) \/ SonyRelease(size)
  BY DEF Capture
<1>2. Release(size)
  BY <1>1 DEF Capture, Release, eos_capture_trigger, nikon_do_capture, SonyRelease,
              settings
<1> QED BY <1>1, <1>2, CanonShot, NikonShot, SonyShot

-----------------------------------------------------------------------------
(* Pictures are served *)

\* Nothing is said of a picture that nobody can name any more.
LEMMA FewerKnown ==
    ASSUME CaptureInv, UNCHANGED <<vendor, sizes, ptp_objectid, card, album>>,
           sdram' = sdram \/ sdram' = NoPicture,
           offers' \in Seq(Pictures), Known' \subseteq Known,
           discarded' \subseteq 1 .. Taken
    PROVE  /\ CountInv' /\ KnownInv' /\ DownloadsRight'
           /\ Stock' \subseteq Stock /\ Taken' = Taken
<1>1. Taken' = Taken /\ Pictures' = Pictures
  BY DEF Taken, Pictures
<1>2. CountInv'
  BY <1>1 DEF CaptureInv, CountInv
<1>3. Stock' \subseteq Stock
  BY DEF Stock, NoPicture
<1>4. \A a \in card : a.pic # 0 /\ a \in Stock
  BY StockKnown DEF Stock
<1>5. \A a \in card' : a.handle # FixedHandle /\ a.pic # sdram'.pic
  BY <1>4 DEF CaptureInv, KnownInv, NoPicture
<1>6. sdram'.pic # 0 => sdram' = sdram
  BY DEF NoPicture
<1>7. KnownInv'
  BY <1>1, <1>5, <1>6 DEF CaptureInv, KnownInv
<1>8. DownloadsRight'
  BY <1>1 DEF CaptureInv, DownloadsRight, PicturesWhole, OfferedIsServed
<1> QED BY <1>1, <1>2, <1>3, <1>7, <1>8

\* The object served for the handle of a download is the picture announced, or a
\* newer one if the handle is the fixed one, and no other object has the handle.
LEMMA ServedRight ==
    ASSUME CaptureInv, job.phase # "none",
           NEW op, NEW p \in Served(op, job.offer.handle)
    PROVE  /\ p \in Stock /\ p.handle = job.offer.handle
           /\ p.pic \in 1 .. Taken /\ p.size = sizes[p.pic] /\ p.size \in Nat \ {0}
           /\ job.offer.pic \in 1 .. Taken /\ p.pic >= job.offer.pic
           /\ job.offer.handle # FixedHandle => p.pic = job.offer.pic
           /\ \A q \in Stock : q.handle = job.offer.handle => q = p
           /\ vendor = "sony" => sdram = p
<1>1. p \in Stock /\ p.handle = job.offer.handle
  BY DEF Served, lookup_virtual_object, find_dirent, Stock
<1>2. p \in Known /\ job.offer \in Known
  BY <1>1, StockKnown DEF Known
<1>3. p \in Pictures /\ p.size = sizes[p.pic] /\ job.offer \in Pictures
  BY <1>2 DEF CaptureInv, KnownInv
<1>4. /\ p.pic \in 1 .. Taken /\ p.size \in Nat \ {0} /\ job.offer.pic \in 1 .. Taken
  BY <1>3, ConstantsAssumption DEF Pictures
<1>5. job.offer.handle # FixedHandle => p = job.offer
  BY <1>1, <1>2 DEF CaptureInv, KnownInv
<1>6. job.offer.handle = FixedHandle => p = sdram /\ sdram.pic # 0
  BY <1>1 DEF Stock, CaptureInv, KnownInv
<1>7. job.offer.handle = FixedHandle => job.offer.pic <= p.pic
  BY <1>2, <1>6 DEF CaptureInv, KnownInv
<1>8. p.pic >= job.offer.pic
  BY <1>4, <1>5, <1>7
<1>9. \A q \in Stock : q.handle = job.offer.handle => q = p
  BY <1>1, StockKnown
<1>10. vendor = "sony" => sdram = p
  BY <1>1 DEF Stock, CaptureInv, CameraInv
<1> QED BY <1>1, <1>3, <1>4, <1>5, <1>8, <1>9, <1>10

\* A download that ends leaves nothing to say.
LEMMA JobEnds ==
    ASSUME job' = NoJob
    PROVE  JobInv'
<1>1. NoPicture \in AnyPicture
  BY DEF NoPicture, AnyPicture
<1>2. NoJob \in JobRecord /\ NoJob.phase = "none"
  BY <1>1 DEF NoJob, JobRecord
<1> QED BY <1>2 DEF JobInv

\* A step of the client that leaves memory, card and announcements alone, and
\* goes on with its download or ends it.
LEMMA ClientKeeps ==
    ASSUME CaptureInv, job.phase # "none",
           UNCHANGED <<vendor, stocked, destination, folder, ptp_objectid, card,
                       sdram, full_pressed, focus, in_memory, offers, sizes, discarded>>,
           job' = NoJob \/ job'.offer = job.offer
    PROVE  /\ CameraInv' /\ CountInv' /\ KnownInv'
           /\ album' = album => DownloadsRight'
           /\ Stock' = Stock /\ Taken' = Taken
<1>1. Known' \subseteq Known
  BY DEF Known, NoJob
<1>2. Taken' = Taken /\ Stock' = Stock /\ Pictures' = Pictures
  BY DEF Taken, Stock, Pictures
<1>3. CameraInv'
  BY DEF CaptureInv, CameraInv, SonyFlags
<1>4. CountInv'
  BY <1>2 DEF CaptureInv, CountInv
<1>5. KnownInv'
  BY <1>1, <1>2 DEF CaptureInv, KnownInv
<1>6. album' = album => DownloadsRight'
  BY <1>2 DEF CaptureInv, DownloadsRight, PicturesWhole, OfferedIsServed
<1> QED BY <1>2, <1>3, <1>4, <1>5, <1>6

\* The client learns the size.
LEMMA InfoStep ==
    ASSUME CaptureInv, getobjectinfo
    PROVE  CaptureInv'
<1>1. /\ job.phase = "info"
      /\ UNCHANGED <<vendor, stocked, destination, folder, ptp_objectid, card, sdram,
                     full_pressed, focus, in_memory, offers, sizes, discarded, album>>
  BY DEF getobjectinfo, settings, store, shutter
<1>2. CASE job' = NoJob
  <2>1. CameraInv' /\ CountInv' /\ KnownInv' /\ DownloadsRight'
    BY <1>1, <1>2, ClientKeeps
  <2> QED BY <1>2, <2>1, JobEnds DEF CaptureInv
<1>3. ASSUME NEW p \in Served("GetObjectInfo", job.offer.handle),
             job' = [job EXCEPT !.phase = "fetch", !.size = p.size]
      PROVE  CaptureInv'
  <2>1. /\ p.handle = job.offer.handle /\ p.size \in Nat \ {0}
        /\ \A q \in Stock : q.handle = job.offer.handle => q = p
    BY <1>1, ServedRight
  <2>2. job \in JobRecord /\ job.from = {} /\ job.got = 0
    BY <1>1 DEF CaptureInv, JobInv
  <2>3. /\ job' \in JobRecord /\ job'.phase = "fetch" /\ job'.offer = job.offer
        /\ job'.size = p.size /\ job'.got = 0 /\ job'.from = {}
    BY <1>3, <2>1, <2>2 DEF JobRecord
  <2>4. CameraInv' /\ CountInv' /\ KnownInv' /\ DownloadsRight' /\ Stock' = Stock
    BY <1>1, <2>3, ClientKeeps
  <2>5. Source'
    BY <2>1, <2>3, <2>4 DEF Source
  <2>6. JobInv'
    BY <2>3, <2>5 DEF JobInv
  <2> QED BY <2>4, <2>6 DEF CaptureInv
<1> QED BY <1>2, <1>3 DEF getobjectinfo

\* The part that is sent stays within the object.
LEMMA PartFits ==
    ASSUME NEW op \in {"GetPartialObject", "EosGetPartialObject",
                       "NikonGetPartialObjectEx"},
           NEW size \in Nat, NEW offset \in 0 .. size, NEW reqsize \in PartSizes
    PROVE  tocopy(op, size, offset, reqsize) \in 0 .. size - offset
<1>1. ChunkOf(op) \in Nat /\ reqsize \in Nat
  BY ConstantsAssumption DEF ChunkOf
<1> QED BY <1>1 DEF tocopy, MinOf

\* A part arrives.
LEMMA PartStep ==
    ASSUME CaptureInv, NEW op \in PartOps, NEW n \in PartSizes, serve_partial(op, n)
    PROVE  CaptureInv'
<1>1. /\ job.phase = "fetch" /\ job.got < job.size
      /\ UNCHANGED <<vendor, stocked, destination, folder, ptp_objectid, card, sdram,
                     full_pressed, focus, in_memory, offers, sizes, discarded, album>>
  BY DEF serve_partial, settings, store, shutter
<1>2. CASE job' = NoJob
  <2>1. CameraInv' /\ CountInv' /\ KnownInv' /\ DownloadsRight'
    BY <1>1, <1>2, ClientKeeps
  <2> QED BY <1>2, <2>1, JobEnds DEF CaptureInv
<1>3. ASSUME NEW p \in Served(op, job.offer.handle),
             job' = [job EXCEPT !.got = job.got + tocopy(op, p.size, job.got, n),
                                !.from = job.from \cup {p.pic}]
      PROVE  CaptureInv'
  <2>1. /\ p \in Stock /\ p.handle = job.offer.handle
        /\ p.pic \in 1 .. Taken /\ p.size = sizes[p.pic] /\ p.size \in Nat \ {0}
        /\ p.pic >= job.offer.pic
        /\ job.offer.handle # FixedHandle => p.pic = job.offer.pic
        /\ \A q \in Stock : q.handle = job.offer.handle => q = p
    BY <1>1, ServedRight
  <2>2. job \in JobRecord /\ Source
    BY <1>1 DEF CaptureInv, JobInv
  <2>3. /\ job.got \in Nat /\ job.size = p.size /\ job.got <= job.size
        /\ job.from \cup {p.pic} = {p.pic}
    BY <2>1, <2>2 DEF Source, JobRecord
  <2>4. PICK m \in 0 .. p.size - job.got : m = tocopy(op, p.size, job.got, n)
    <3>1. op \in {"GetPartialObject", "EosGetPartialObject", "NikonGetPartialObjectEx"}
      BY ConstantsAssumption DEF PartOps, CaptureInv, CameraInv
    <3>2. job.got \in 0 .. p.size
      BY <2>1, <2>3
    <3> QED BY <2>1, <3>1, <3>2, PartFits
  <2>5. /\ job.got + m \in Nat /\ job.got + m <= job.size
        /\ {p.pic} \in SUBSET Nat
    BY <2>1, <2>3, <2>4
  <2>6. job' = [job EXCEPT !.got = job.got + m, !.from = {p.pic}]
    BY <1>3, <2>3, <2>4
  <2>7. /\ job' \in JobRecord /\ job'.phase = "fetch" /\ job'.offer = job.offer
        /\ job'.size = job.size /\ job'.got = job.got + m /\ job'.from = {p.pic}
    BY <1>1, <2>2, <2>5, <2>6 DEF JobRecord
  <2>8. /\ CameraInv' /\ CountInv' /\ KnownInv' /\ DownloadsRight' /\ Stock' = Stock
        /\ Taken' = Taken /\ sizes' = sizes
    BY <1>1, <2>7, ClientKeeps
  <2>9. Source'
    BY <2>1, <2>2, <2>3, <2>5, <2>7, <2>8 DEF Source
  <2>10. JobInv'
    BY <2>7, <2>9 DEF JobInv
  <2> QED BY <2>8, <2>10 DEF CaptureInv
<1> QED BY <1>2, <1>3 DEF serve_partial

\* The whole object arrives; a Sony body forgets it.
LEMMA ObjectStep ==
    ASSUME CaptureInv, serve_object
    PROVE  CaptureInv'
<1>1. /\ job.phase = "fetch" /\ job.got = 0
      /\ UNCHANGED <<vendor, stocked, destination, folder, ptp_objectid, card,
                     full_pressed, focus, offers, sizes, discarded, album>>
  BY DEF serve_object, settings, store
<1>2. CASE job' = NoJob /\ UNCHANGED <<sdram, in_memory>>
  <2>1. CameraInv' /\ CountInv' /\ KnownInv' /\ DownloadsRight'
    BY <1>1, <1>2, ClientKeeps
  <2> QED BY <1>2, <2>1, JobEnds DEF CaptureInv
<1>3. ASSUME NEW p \in Served("GetObject", job.offer.handle),
             job' = [job EXCEPT !.got = p.size, !.from = {p.pic}],
             sdram' = IF vendor = "sony" THEN free_sdram ELSE sdram,
             in_memory' = (in_memory /\ vendor # "sony")
      PROVE  CaptureInv'
  <2>1. /\ p \in Stock /\ p.handle = job.offer.handle
        /\ p.pic \in 1 .. Taken /\ p.size = sizes[p.pic] /\ p.size \in Nat \ {0}
        /\ p.pic >= job.offer.pic
        /\ job.offer.handle # FixedHandle => p.pic = job.offer.pic
        /\ \A q \in Stock : q.handle = job.offer.handle => q = p
    BY <1>1, ServedRight
  <2>2. job \in JobRecord /\ Source
    BY <1>1 DEF CaptureInv, JobInv
  <2>3. job.size = p.size
    BY <2>1, <2>2 DEF Source
  <2>4. {p.pic} \in SUBSET Nat
    BY <2>1
  <2>5. /\ job' \in JobRecord /\ job'.phase = "fetch" /\ job'.offer = job.offer
        /\ job'.size = job.size /\ job'.got = p.size /\ job'.from = {p.pic}
    BY <1>1, <1>3, <2>1, <2>2, <2>4 DEF JobRecord
  <2>6. Known' \subseteq Known
    BY <1>1, <1>3, <2>5 DEF Known, free_sdram, NoPicture
  <2>7. /\ CountInv' /\ KnownInv' /\ DownloadsRight'
        /\ Stock' \subseteq Stock /\ Taken' = Taken
    <3>1. sdram' = sdram \/ sdram' = NoPicture
      BY <1>3 DEF free_sdram
    <3>2. offers' \in Seq(Pictures) /\ discarded' \subseteq 1 .. Taken
      BY <1>1 DEF CaptureInv, KnownInv, CountInv
    <3> QED BY <1>1, <2>6, <3>1, <3>2, FewerKnown
  <2>8. Source'
    BY <1>1, <2>1, <2>2, <2>3, <2>5, <2>7 DEF Source
  <2>9. JobInv'
    BY <2>5, <2>8 DEF JobInv
  <2>10. CameraInv'
    <3>1. in_memory' \in BOOLEAN
      BY <1>3, Zenon
    <3>2. SonyFlags'
      <4> SUFFICES ASSUME vendor = "sony"
                   PROVE  in_memory' = (sdram'.pic # 0) /\ (focus' = 2) = full_pressed'
        BY <1>1 DEF SonyFlags
      <4>1. sdram'.pic = 0
        BY <1>3 DEF free_sdram, NoPicture
      <4>2. ~in_memory'
        BY <1>3, Zenon
      <4>3. in_memory' = (sdram'.pic # 0)
        BY <3>1, <4>1, <4>2, Zenon
      <4>4. (focus = 2) = full_pressed
        BY Zenon DEF CaptureInv, CameraInv, SonyFlags
      <4> QED BY <1>1, <4>3, <4>4
    <3> QED BY <1>1, <3>1, <3>2 DEF CaptureInv, CameraInv
  <2> QED BY <2>7, <2>9, <2>10 DEF CaptureInv
<1> QED BY <1>2, <1>3 DEF serve_object

\* A download is complete.
LEMMA FinishStep ==
    ASSUME CaptureInv, Finish
    PROVE  CaptureInv'
<1>1. /\ job.phase = "fetch" /\ job.got >= job.size
      /\ album' = album \cup {[offer |-> job.offer, got |-> job.got, from |-> job.from]}
      /\ job' = [job EXCEPT !.phase = "confirm"]
      /\ UNCHANGED <<vendor, stocked, destination, folder, ptp_objectid, card, sdram,
                     full_pressed, focus, in_memory, offers, sizes, discarded>>
  BY DEF Finish, settings, store, shutter
<1>2. job \in JobRecord /\ Source
  BY <1>1 DEF CaptureInv, JobInv
<1>3. /\ job' \in JobRecord /\ job'.phase = "confirm" /\ job'.offer = job.offer
      /\ job'.size = job.size /\ job'.got = job.got /\ job'.from = job.from
  BY <1>1, <1>2 DEF JobRecord
<1>4. CameraInv' /\ CountInv' /\ KnownInv' /\ Stock' = Stock /\ Taken' = Taken
  BY <1>1, <1>3, ClientKeeps
<1>5. job.got = job.size /\ job.from # {}
  BY <1>1, <1>2 DEF Source, JobRecord
<1>6. PICK n \in job.from :
        /\ n \in 1 .. Taken /\ job.from = {n} /\ sizes[n] = job.size
        /\ n >= job.offer.pic
        /\ job.offer.handle # FixedHandle => n = job.offer.pic
  BY <1>2, <1>5 DEF Source
<1>7. PICK e : e = [offer |-> job.offer, got |-> job.got, from |-> job.from]
  OBVIOUS
<1>8. e.offer = job.offer /\ e.got = job.got /\ e.from = job.from
  BY <1>7
<1>9. DownloadsRight'
  <2>1. \A d \in album' : \E p \in 1 .. Taken : d.from = {p} /\ d.got = sizes[p]
    BY <1>1, <1>5, <1>6, <1>7, <1>8 DEF CaptureInv, DownloadsRight, PicturesWhole
  <2>2. \A d \in album' : \A p \in d.from :
            /\ p >= d.offer.pic
            /\ d.offer.handle # FixedHandle => p = d.offer.pic
    BY <1>1, <1>6, <1>7, <1>8 DEF CaptureInv, DownloadsRight, OfferedIsServed
  <2> QED BY <1>1, <1>4, <2>1, <2>2 DEF DownloadsRight, PicturesWhole, OfferedIsServed
<1>10. Source'
  BY <1>1, <1>2, <1>3, <1>4 DEF Source
<1>11. [offer |-> job'.offer, got |-> job'.got, from |-> job'.from] \in album'
  BY <1>1, <1>3
<1>12. JobInv'
  BY <1>3, <1>5, <1>10, <1>11 DEF JobInv
<1> QED BY <1>4, <1>9, <1>12 DEF CaptureInv

\* The client confirms, and memory is free if the handle is that of its picture.
LEMMA ConfirmStep ==
    ASSUME CaptureInv, Confirm
    PROVE  CaptureInv'
<1>1. /\ job.phase = "confirm" /\ job' = NoJob
      /\ UNCHANGED <<vendor, stocked, destination, folder, ptp_objectid, card,
                     full_pressed, focus, in_memory, offers, sizes, discarded, album>>
  BY DEF Confirm, settings, store, shutter
<1>2. /\ sdram' = sdram \/ sdram' = NoPicture
      /\ vendor = "sony" => sdram' = sdram
  BY DEF Confirm, transfercomplete, free_sdram
<1>3. Known' \subseteq Known
  BY <1>1, <1>2 DEF Known, NoJob, NoPicture
<1>4. CountInv' /\ KnownInv' /\ DownloadsRight'
  <2>1. offers' \in Seq(Pictures) /\ discarded' \subseteq 1 .. Taken
    BY <1>1 DEF CaptureInv, KnownInv, CountInv
  <2> QED BY <1>1, <1>2, <1>3, <2>1, FewerKnown
<1>5. CameraInv'
  BY <1>1, <1>2 DEF CaptureInv, CameraInv, SonyFlags
<1> QED BY <1>1, <1>4, <1>5, JobEnds DEF CaptureInv

\* The client clears memory.
LEMMA CleanUpStep ==
    ASSUME CaptureInv, CleanUp
    PROVE  CaptureInv'
<1>1. /\ sdram.pic # 0 /\ sdram' = NoPicture /\ in_memory' = FALSE
      /\ discarded' = discarded \cup {sdram.pic} /\ Idle
      /\ UNCHANGED <<vendor, stocked, destination, folder, ptp_objectid, card,
                     full_pressed, focus, offers, job, sizes, album>>
  BY DEF CleanUp, free_sdram, settings, store
<1>2. sdram.pic \in 1 .. Taken
  BY <1>1 DEF CaptureInv, KnownInv, Pictures, NoPicture
<1>3. Known' \subseteq Known
  BY <1>1 DEF Known, NoPicture
<1>4. CountInv' /\ KnownInv' /\ DownloadsRight'
  <2>1. offers' \in Seq(Pictures) /\ discarded' \subseteq 1 .. Taken
    BY <1>1, <1>2 DEF CaptureInv, KnownInv, CountInv
  <2> QED BY <1>1, <1>3, <2>1, FewerKnown
<1>5. JobInv'
  BY <1>1, JobEnds DEF Idle
<1>6. CameraInv'
  <2>1. in_memory' \in BOOLEAN
    BY <1>1, Zenon
  <2>2. SonyFlags'
    <3>1. sdram'.pic = 0
      BY <1>1 DEF NoPicture
    <3>2. in_memory' = (sdram'.pic # 0)
      BY <1>1, <3>1, Zenon
    <3>3. vendor = "sony" => (focus = 2) = full_pressed
      BY Zenon DEF CaptureInv, CameraInv, SonyFlags
    <3> QED BY <1>1, <3>2, <3>3 DEF SonyFlags
  <2> QED BY <1>1, <2>1, <2>2 DEF CaptureInv, CameraInv
<1> QED BY <1>4, <1>5, <1>6 DEF CaptureInv

\* The client reads the oldest announcement and starts to download.
LEMMA ReadStep ==
    ASSUME CaptureInv, ReadEvent
    PROVE  CaptureInv'
<1>1. /\ offers # <<>> /\ offers' = Tail(offers)
      /\ UNCHANGED <<vendor, stocked, destination, folder, ptp_objectid, card, sdram,
                     full_pressed, focus, in_memory, sizes, album, discarded>>
      /\ job' = [NoJob EXCEPT !.offer = Head(offers),
                              !.phase = IF vendor = "canon" THEN "fetch" ELSE "info",
                              !.size = IF vendor = "canon" THEN Head(offers).size ELSE 0]
  BY DEF ReadEvent, settings, store, shutter
<1>2. offers \in Seq(Pictures) /\ Len(offers) \in Nat /\ Len(offers) >= 1
  <2>1. offers \in Seq(Pictures)
    BY DEF CaptureInv, KnownInv
  <2> QED BY <1>1, <2>1, EmptySeq
<1>3. PICK h \in Pictures : h = Head(offers) /\ h = offers[1] /\ h \in Known
  <2>1. offers[1] \in Pictures /\ Head(offers) = offers[1] /\ 1 \in 1 .. Len(offers)
    BY <1>2
  <2> QED BY <2>1 DEF Known
<1>4. /\ h.pic \in Nat /\ h.handle \in Nat /\ h.size \in Nat \ {0} /\ h \in AnyPicture
  <2>1. h.pic \in 1 .. Taken /\ h.handle \in Nat /\ h.size \in Sizes
        /\ h = [pic |-> h.pic, handle |-> h.handle, size |-> h.size]
    BY <1>3 DEF Pictures
  <2>2. h.pic \in Nat /\ h.size \in Nat \ {0}
    BY <2>1, ConstantsAssumption
  <2> QED BY <2>1, <2>2 DEF AnyPicture
<1>5. /\ job'.offer = h /\ job'.got = 0 /\ job'.from = {} /\ job' \in JobRecord
      /\ job'.phase = IF vendor = "canon" THEN "fetch" ELSE "info"
      /\ vendor = "canon" => job'.size = h.size
  BY <1>1, <1>3, <1>4 DEF NoJob, JobRecord
<1>6. /\ offers' \in Seq(Pictures) /\ Len(offers') = Len(offers) - 1
      /\ \A i \in 1 .. Len(offers') : offers'[i] = offers[i + 1]
  BY <1>1, <1>2
<1>7. Known' \subseteq Known
  <2> SUFFICES ASSUME NEW a \in Known' PROVE a \in Known
    OBVIOUS
  <2>1. CASE a \in Stock'
    BY <1>1, <2>1 DEF Stock, Known
  <2>2. CASE \E i \in 1 .. Len(offers') : a = offers'[i]
    <3>1. PICK i \in 1 .. Len(offers') : a = offers'[i]
      BY <2>2
    <3>2. i + 1 \in 1 .. Len(offers) /\ a = offers[i + 1]
      BY <1>2, <1>6, <3>1
    <3> QED BY <3>2 DEF Known
  <2>3. CASE a = job'.offer
    BY <1>3, <1>5, <2>3
  <2> QED BY <2>1, <2>2, <2>3 DEF Known, Stock
<1>8. CountInv' /\ KnownInv' /\ DownloadsRight' /\ Stock' \subseteq Stock
  <2>1. discarded' \subseteq 1 .. Taken
    BY <1>1 DEF CaptureInv, CountInv
  <2> QED BY <1>1, <1>6, <1>7, <2>1, FewerKnown
<1>9. ASSUME vendor = "canon" PROVE Source'
  <2>1. \A q \in Stock' : q.handle = h.handle => q = h
    BY <1>3, <1>8, <1>9, StockKnown DEF CaptureInv, KnownInv
  <2> QED BY <1>4, <1>5, <1>9, <2>1 DEF Source
<1>10. JobInv'
  BY <1>5, <1>9 DEF JobInv
<1>11. CameraInv'
  BY <1>1 DEF CaptureInv, CameraInv, SonyFlags
<1> QED BY <1>8, <1>10, <1>11 DEF CaptureInv

\* Nothing but the camera's own settings changes.
LEMMA SettingsKeep ==
    ASSUME CaptureInv,
           UNCHANGED <<vendor, ptp_objectid, card, sdram, offers, job, sizes, album,
                       discarded>>
    PROVE  CountInv' /\ KnownInv' /\ JobInv' /\ DownloadsRight'
<1>1. Known' = Known /\ Stock' = Stock /\ Taken' = Taken /\ Pictures' = Pictures
  BY DEF Known, Stock, Taken, Pictures
<1>2. CountInv'
  BY <1>1 DEF CaptureInv, CountInv
<1>3. KnownInv'
  BY <1>1 DEF CaptureInv, KnownInv
<1>4. Source => Source'
  BY <1>1 DEF Source
<1>5. JobInv'
  BY <1>4 DEF CaptureInv, JobInv
<1>6. DownloadsRight'
  BY <1>1 DEF CaptureInv, DownloadsRight, PicturesWhole, OfferedIsServed
<1> QED BY <1>2, <1>3, <1>5, <1>6

\* The shutter goes down, or the destination is set.
LEMMA SettingStep ==
    ASSUME CaptureInv, SonyPress \/ SetDestination
    PROVE  CaptureInv'
<1>1. UNCHANGED <<vendor, stocked, folder, ptp_objectid, card, sdram, in_memory, offers,
                  job, sizes, album, discarded>>
  BY DEF SonyPress, SetDestination, ptp_eos_set_property_data, settings, store, shutter
<1>2. CountInv' /\ KnownInv' /\ JobInv' /\ DownloadsRight'
  BY <1>1, SettingsKeep
<1>3. CASE SonyPress
  <2>1. vendor = "sony" /\ full_pressed' = TRUE /\ focus' = 2 /\ destination' = destination
    BY <1>3 DEF SonyPress
  <2>2. full_pressed' \in BOOLEAN
    BY <2>1, Zenon
  <2>3. SonyFlags'
    <3>1. in_memory = (sdram.pic # 0)
      BY <2>1, Zenon DEF CaptureInv, CameraInv, SonyFlags
    <3>2. (focus' = 2) = full_pressed'
      BY <2>1, Zenon
    <3> QED BY <1>1, <3>1, <3>2 DEF SonyFlags
  <2>4. CameraInv'
    BY <1>1, <2>1, <2>2, <2>3 DEF CaptureInv, CameraInv
  <2> QED BY <1>2, <2>4 DEF CaptureInv
<1>4. CASE SetDestination
  <2>1. /\ destination' \in {"card", "sdram"} /\ UNCHANGED <<full_pressed, focus>>
    BY <1>4 DEF SetDestination, ptp_eos_set_property_data, shutter
  <2>2. CameraInv'
    BY <1>1, <2>1 DEF CaptureInv, CameraInv, SonyFlags
  <2> QED BY <1>2, <2>2 DEF CaptureInv
<1> QED BY <1>3, <1>4

-----------------------------------------------------------------------------
(* The theorems *)

\* The invariant holds at start-up.
LEMMA CaptureInit ==
    ASSUME Init
    PROVE  CaptureInv
<1>1. /\ sdram = NoPicture /\ card = {} /\ offers = <<>> /\ job = NoJob
      /\ sizes = <<>> /\ album = {} /\ discarded = {} /\ ptp_objectid = Base
  BY DEF Init
<1>2. Base \in Nat /\ MaxPictures \in Nat
  BY ConstantsAssumption
<1>3. Taken = 0 /\ sizes \in Seq(Sizes) /\ offers \in Seq(Pictures) /\ Len(offers) = 0
  BY <1>1 DEF Taken
<1>4. NoPicture.pic = 0 /\ NoJob.phase = "none"
  BY DEF NoPicture, NoJob
<1>5. Known = {}
  BY <1>1, <1>3, <1>4 DEF Known
<1>6. CountInv
  BY <1>1, <1>2, <1>3 DEF CountInv
<1>7. KnownInv
  BY <1>1, <1>3, <1>4, <1>5 DEF KnownInv
<1>8. JobInv
  <2>1. NoPicture \in AnyPicture
    BY DEF NoPicture, AnyPicture
  <2>2. NoJob \in JobRecord
    BY <2>1 DEF NoJob, JobRecord
  <2> QED BY <1>1, <1>4, <2>2 DEF JobInv
<1>9. DownloadsRight
  BY <1>1 DEF DownloadsRight, PicturesWhole, OfferedIsServed
<1>10. CameraInv
  <2>1. full_pressed \in BOOLEAN /\ in_memory \in BOOLEAN
    BY Zenon DEF Init
  <2>2. SonyFlags
    <3>1. sdram.pic = 0
      BY <1>1, <1>4
    <3>2. in_memory = (sdram.pic # 0)
      BY <3>1, Zenon DEF Init
    <3>3. focus # 2
      BY DEF Init
    <3>4. (focus = 2) = full_pressed
      BY <3>3, Zenon DEF Init
    <3> QED BY <3>2, <3>4 DEF SonyFlags
  <2> QED BY <1>1, <2>1, <2>2 DEF Init, CameraInv
<1> QED BY <1>6, <1>7, <1>8, <1>9, <1>10 DEF CaptureInv

\* No step breaks the invariant.
LEMMA CaptureNext ==
    ASSUME CaptureInv, [Next]_vars
    PROVE  CaptureInv'
<1>1. CASE Capture
  BY <1>1, CaptureStep
<1>2. CASE SonyPress \/ SetDestination
  BY <1>2, SettingStep
<1>3. CASE ReadEvent
  BY <1>3, ReadStep
<1>4. CASE getobjectinfo
  BY <1>4, InfoStep
<1>5. CASE Fetch
  BY <1>5, ObjectStep, PartStep DEF Fetch
<1>6. CASE Finish
  BY <1>6, FinishStep
<1>7. CASE Confirm
  BY <1>7, ConfirmStep
<1>8. CASE CleanUp
  BY <1>8, CleanUpStep
<1>9. CASE UNCHANGED vars
  <2>1. /\ UNCHANGED <<vendor, ptp_objectid, card, sdram, offers, job, sizes, album,
                       discarded>>
        /\ UNCHANGED <<stocked, destination, folder, full_pressed, focus, in_memory>>
    BY <1>9 DEF vars, settings, store, shutter
  <2>2. CountInv' /\ KnownInv' /\ JobInv' /\ DownloadsRight'
    BY <2>1, SettingsKeep
  <2>3. CameraInv'
    BY <2>1 DEF CaptureInv, CameraInv, SonyFlags
  <2> QED BY <2>2, <2>3 DEF CaptureInv
<1> QED BY <1>1, <1>2, <1>3, <1>4, <1>5, <1>6, <1>7, <1>8, <1>9 DEF Next, ClientStep

\* The invariant holds in every reachable state.
LEMMA CaptureAlways == Spec => []CaptureInv
<1>1. Init => CaptureInv
  BY CaptureInit
<1>2. CaptureInv /\ [Next]_vars => CaptureInv'
  BY CaptureNext
<1> QED BY <1>1, <1>2, PTL DEF Spec

\* Every finished download is one whole picture and the right one, for any
\* sequence of captures, downloads in parts and confirmations.
THEOREM DownloadsStayRight == Spec => []DownloadsRight
<1>1. CaptureInv => DownloadsRight
  BY DEF CaptureInv
<1> QED BY <1>1, CaptureAlways, PTL

\* The memory slot never hides, or is hidden by, an object of the card, and
\* Sony's properties tell whether it is in use.
THEOREM MemoryStaysSound == Spec => []MemorySound
<1>1. ASSUME CaptureInv PROVE MemorySound
  <2>1. HandlesDisjoint
    <3>1. ASSUME NEW p \in card PROVE find_dirent(p.handle) = {p}
      <4>1. \A q \in card : q.handle = p.handle => q = p
        BY <1>1, StockKnown DEF Stock
      <4> QED BY <4>1 DEF find_dirent
    <3>2. ASSUME sdram.pic # 0 PROVE find_dirent(sdram.handle) = {}
      <4>1. \A q \in card : q.handle = sdram.handle => q = sdram
        BY <1>1, <3>2, StockKnown DEF Stock
      <4>2. \A q \in card : q.pic # sdram.pic
        BY <1>1 DEF CaptureInv, KnownInv
      <4> QED BY <4>1, <4>2 DEF find_dirent
    <3> QED BY <3>1, <3>2 DEF HandlesDisjoint
  <2>2. SonyFlags
    BY <1>1 DEF CaptureInv, CameraInv
  <2>3. job \in JobRecord /\ job.phase \in {"none", "info", "fetch", "confirm"}
        /\ job.size \in Nat /\ job.got \in Nat
    BY <1>1 DEF CaptureInv, JobInv, JobRecord
  <2>4. job.offer \in Pictures \cup {NoPicture}
    <3>1. CASE job.phase = "none"
      BY <1>1, <3>1 DEF CaptureInv, JobInv, NoJob
    <3>2. CASE job.phase # "none"
      <4>1. job.offer \in Known
        BY <3>2 DEF Known
      <4> QED BY <1>1, <4>1 DEF CaptureInv, KnownInv
    <3> QED BY <3>1, <3>2
  <2>5. job.from \subseteq 1 .. Taken
    <3>1. CASE job.phase = "none"
      BY <1>1, <3>1 DEF CaptureInv, JobInv, NoJob
    <3>2. CASE job.phase # "none"
      BY <1>1, <2>3, <3>2 DEF CaptureInv, JobInv, Source
    <3> QED BY <3>1, <3>2
  <2>6. TypeOK
    BY <1>1, <2>3, <2>4, <2>5 DEF CaptureInv, CameraInv, CountInv, KnownInv, TypeOK
  <2> QED BY <2>1, <2>2, <2>6 DEF MemorySound
<1>2. CaptureInv => MemorySound
  BY <1>1
<1> QED BY <1>2, CaptureAlways, PTL

\* Memory is emptied only of a picture that the client has, or has thrown away
\* itself: TransferComplete, DeleteObject, DelImageSDRAM and Sony's GetObject
\* never discard another one.
THEOREM MemoryIsDelivered == Spec => EmptiedIsDelivered
<1> DEFINE Emptied == sdram.pic # 0 /\ sdram'.pic = 0 =>
                          sdram.pic \in Delivered' \cup discarded'
<1>1. ASSUME CaptureInv, [Next]_vars, sdram.pic # 0, sdram'.pic = 0
      PROVE  sdram.pic \in Delivered' \cup discarded'
  <2>1. CASE Capture
    <3>1. Taken \in Nat
      BY <1>1 DEF CaptureInv, CountInv, Taken
    <3>2. \A h, z : Picture(h, z).pic = Taken + 1
      BY <3>1 DEF Picture
    <3>3. sdram' = sdram \/ \E h, z : sdram' = Picture(h, z)
      BY <2>1 DEF Capture, eos_capture_trigger, eos_capture_sdram, capture_card,
                  nikon_do_capture, nikon_capture_sdram, SonyRelease
    <3>4. sdram'.pic # 0
      BY <1>1, <3>1, <3>2, <3>3
    <3> QED BY <1>1, <3>4
  <2>2. CASE CleanUp
    BY <2>2 DEF CleanUp
  <2>3. CASE serve_object
    <3>1. vendor = "sony"
      BY <1>1, <2>3 DEF serve_object, free_sdram
    <3>2. job.phase = "fetch"
      BY <2>3 DEF serve_object
    <3>3. PICK p \in Served("GetObject", job.offer.handle) :
            job' = [job EXCEPT !.got = p.size, !.from = {p.pic}]
      BY <1>1, <2>3 DEF serve_object
    <3>4. sdram = p
      BY <1>1, <3>1, <3>2, <3>3, ServedRight
    <3>5. job'.from = {p.pic}
      BY <1>1, <3>3 DEF CaptureInv, JobInv, JobRecord
    <3> QED BY <3>4, <3>5 DEF Delivered
  <2>4. CASE Confirm
    <3>1. /\ job.phase = "confirm" /\ album' = album
          /\ lookup_virtual_object(job.offer.handle) # {}
      BY <1>1, <2>4 DEF Confirm, transfercomplete
    <3>2. sdram.handle = job.offer.handle /\ sdram \in Stock
      BY <1>1, <3>1 DEF lookup_virtual_object, Stock
    <3>3. /\ Source /\ job.from # {}
          /\ [offer |-> job.offer, got |-> job.got, from |-> job.from] \in album
      BY <1>1, <3>1 DEF CaptureInv, JobInv
    <3>4. sdram.pic \in job.from
      BY <3>2, <3>3 DEF Source
    <3>5. PICK d \in album' : d.from = job.from
      BY <3>1, <3>3
    <3> QED BY <3>4, <3>5 DEF Delivered
  <2>5. CASE sdram' = sdram
    BY <1>1, <2>5
  <2> QED
    BY <1>1, <2>1, <2>2, <2>3, <2>4, <2>5
    DEF Next, SonyPress, SetDestination, ptp_eos_set_property_data, ReadEvent,
        ClientStep, getobjectinfo, Fetch, serve_partial, Finish, vars
<1>2. CaptureInv /\ [Next]_vars => [Emptied]_vars
  BY <1>1
<1> HIDE DEF Emptied
<1>3. CaptureInv /\ [Next]_vars => [Emptied]_vars
  BY <1>2
<1>4. Spec => [][Emptied]_vars
  BY <1>3, CaptureAlways, PTL DEF Spec
<1> QED BY <1>4 DEF EmptiedIsDelivered, Emptied

=============================================================================
