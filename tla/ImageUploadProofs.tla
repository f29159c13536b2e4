------------------------- MODULE ImageUploadProofs -------------------------
(***************************************************************************)
(* Proofs about ImageUpload, for all sizes, pitches and numbers of images  *)
(* and surfaces, and any width of the integers: a u32 has the square of    *)
(* the values of a u16, which is all the argument needs of it.             *)
(***************************************************************************)
EXTENDS ImageUpload, TLAPS

(* Arithmetic of planes.                                                   *)

\* What fits 32 bits is not changed by `as u32`.
LEMMA SmallMod ==
    ASSUME NEW a \in Nat, NEW b \in Nat \ {0}, a < b
    PROVE  a % b = a
  OBVIOUS

\* A pitch a u16 nearly holds times a height it holds is below U16 * U16.
LEMMA PlaneFits ==
    ASSUME NEW p \in Nat, NEW h \in Nat, NEW u \in Nat, p <= u, h < u
    PROVE  p * h < u * u
  <1>1. p * h <= u * h  OBVIOUS
  <1>2. u * h < u * u  OBVIOUS
  <1>3. p * h \in Nat /\ u * h \in Nat /\ u * u \in Nat  OBVIOUS
  <1> QED  BY <1>1, <1>2, <1>3

\* Half a height, and the rows that hold a plane and its half.
LEMMA HalfRows ==
    ASSUME NEW h \in Nat
    PROVE  /\ UvRows(h) \in Nat /\ UvRows(h) <= h
           /\ Rows(h) = h + UvRows(h)
  BY DEF UvRows, Rows

\* Rows no longer than the pitch end before the next row would start.
LEMMA EndBound ==
    ASSUME NEW start \in Nat, NEW p \in Nat, NEW w \in Nat, NEW rows \in Nat, w <= p
    PROVE  End(start, p, w, rows) <= start + p * rows
  <1>1. CASE rows = 0  BY <1>1 DEF End
  <1>2. CASE rows # 0
    <2>1. (rows - 1) * p + w <= p * rows  BY <1>2
    <2>2. (rows - 1) * p \in Nat /\ p * rows \in Nat  BY <1>2
    <2> QED  BY <1>2, <2>1, <2>2 DEF End
  <1> QED  BY <1>1, <1>2

\* A product of naturals is one, and distributes.
LEMMA Products ==
    ASSUME NEW p \in Nat, NEW h \in Nat, NEW k \in Nat
    PROVE  p * h \in Nat /\ p * (h + k) = p * h + p * k
  OBVIOUS

\* The numbers of an image.
LEMMA TotalIsNat ==
    ASSUME NEW p \in Nat, NEW h \in Nat
    PROVE  /\ YSize(p, h) = p * h /\ YSize(p, h) \in Nat
           /\ Total(p, h) = p * h + p * UvRows(h) /\ Total(p, h) \in Nat
  <1>1. UvRows(h) \in Nat  BY HalfRows
  <1>2. p * h \in Nat /\ p * UvRows(h) \in Nat  BY <1>1, Products
  <1> QED  BY <1>2 DEF YSize, Total

\* A remainder of U32 is a natural number.
LEMMA LowIsNat ==
    ASSUME SizeAssumption, NEW n \in Nat
    PROVE  Low32(n) \in Nat
  <1>1. U16 \in Nat /\ U16 # 0  BY DEF SizeAssumption
  <1>2. U32 \in Nat /\ U32 # 0  BY <1>1 DEF U32
  <1> QED  BY <1>2 DEF Low32
---------------------------------------------------------------------------
(* The inductive invariant.                                                *)

SurfaceInv ==
    /\ surfaces \in [Surfaces -> SurfaceRecs \cup None]
    /\ \A s \in Surfaces : Live(s) => Pitched(surfaces[s].width, surfaces[s].pitch)

\* What alloc_host_image made of a size and a pitch; and what the client was
\* told of passed both conversions to u16.
ImageInv ==
    /\ images \in [Images -> ImageRecs \cup None]
    /\ \A i \in Images : images[i] \notin None =>
         /\ images[i].uv_offset = Low32(YSize(images[i].pitch, images[i].height))
         /\ images[i].bytes = Total(images[i].pitch, images[i].height)
         /\ Pitched(images[i].width, images[i].pitch)
    /\ buffers \subseteq {i \in Images : images[i] \notin None}
    /\ told \subseteq {i \in Images : images[i] # Unborn}
    /\ \A i \in Known : images[i].width < U16 /\ images[i].height < U16

\* The copies of one upload, which it was right to make.
CopyInv ==
    \/ copied = {}
    \/ \E i \in Known, s \in Surfaces :
         Uploadable(i, s) /\ copied \subseteq {YCopy(i, s), UvCopy(i, s)}

Inv == SurfaceInv /\ ImageInv /\ CopyInv
---------------------------------------------------------------------------
\* A new surface with a pitch that is right.
LEMMA NewSurface ==
    ASSUME Inv, NEW s \in Surfaces, NEW rec \in SurfaceRecs, Pitched(rec.width, rec.pitch),
           surfaces' = [surfaces EXCEPT ![s] = rec]
    PROVE  SurfaceInv'
  <1>1. surfaces' \in [Surfaces -> SurfaceRecs \cup None]  BY DEF Inv, SurfaceInv, None
  <1>2. ASSUME NEW t \in Surfaces, Live(t)'
        PROVE  Pitched(surfaces'[t].width, surfaces'[t].pitch)
    <2>1. CASE t = s  BY <2>1 DEF Inv, SurfaceInv
    <2>2. CASE t # s
      <3>1. surfaces'[t] = surfaces[t]  BY <2>2 DEF Inv, SurfaceInv
      <3> QED  BY <1>2, <3>1 DEF Inv, SurfaceInv, Live, None
    <2> QED  BY <2>1, <2>2
  <1> QED  BY <1>1, <1>2 DEF SurfaceInv, Live, Pitched, None

\* A step that leaves the images alone and copies nothing.
LEMMA SameImages ==
    ASSUME Inv, UNCHANGED <<images, buffers, told>>
    PROVE  ImageInv'
  BY DEF Inv, ImageInv, Known, None, Pitched, Low32, YSize, Total, UvRows

\* vaCreateSurfaces and vaDestroySurfaces.
LEMMA SurfaceSteps ==
    ASSUME SizeAssumption, NullAssumption, Inv, NEW s \in Surfaces,
           \/ DestroySurface(s)
           \/ \E size \in Sizes : \/ CreateOther(s, size)
                                  \/ \E pitch \in Pitches : CreateSurface(s, size, pitch)
    PROVE  Inv'
  <1>1. ImageInv' /\ CopyInv'
    <2>1. UNCHANGED <<images, buffers, told>> /\ copied' = {}
      BY DEF DestroySurface, CreateOther, CreateSurface
    <2> QED  BY <2>1, SameImages DEF CopyInv
  <1>2. CASE DestroySurface(s)
    <2>1. surfaces' = [surfaces EXCEPT ![s] = Destroyed]  BY <1>2 DEF DestroySurface
    <2>2. surfaces' \in [Surfaces -> SurfaceRecs \cup None]
      BY <2>1 DEF Inv, SurfaceInv, None
    <2>3. \A t \in Surfaces : Live(t)' => Live(t) /\ surfaces'[t] = surfaces[t]
      BY <2>1 DEF Inv, SurfaceInv, Live, None
    <2> QED  BY <1>1, <2>2, <2>3 DEF Inv, SurfaceInv
  <1>3. ASSUME NEW size \in Sizes, CreateOther(s, size)
        PROVE  SurfaceInv'
    <2> DEFINE rec == [resident |-> FALSE, width |-> size[1], height |-> size[2],
                       pitch |-> size[1]]
    <2>1. size[1] \in Nat /\ size[2] \in Nat /\ U16 \in Nat  BY DEF SizeAssumption
    <2>2. rec \in SurfaceRecs /\ Pitched(rec.width, rec.pitch)
      BY <2>1 DEF SurfaceRecs, Pitched
    <2>3. surfaces' = [surfaces EXCEPT ![s] = rec]  BY <1>3 DEF CreateOther
    <2> HIDE DEF rec
    <2> QED  BY <2>2, <2>3, NewSurface
  <1>4. ASSUME NEW size \in Sizes, NEW pitch \in Pitches, CreateSurface(s, size, pitch)
        PROVE  SurfaceInv'
    <2> DEFINE rec == [resident |-> TRUE, width |-> size[1], height |-> size[2],
                       pitch |-> pitch]
    <2>1. size[1] \in Nat /\ size[2] \in Nat /\ pitch \in Nat  BY DEF SizeAssumption
    <2>2. rec \in SurfaceRecs /\ Pitched(rec.width, rec.pitch)
      BY <1>4, <2>1 DEF SurfaceRecs, CreateSurface
    <2>3. surfaces' = [surfaces EXCEPT ![s] = rec]  BY <1>4 DEF CreateSurface
    <2> HIDE DEF rec
    <2> QED  BY <2>2, <2>3, NewSurface
  <1> QED  BY <1>1, <1>2, <1>3, <1>4 DEF Inv

\* vaCreateImage and vaDeriveImage.
LEMMA AllocInv ==
    ASSUME SizeAssumption, NullAssumption, Inv,
           NEW i \in Images, NEW k \in Surfaces \cup {Unborn},
           NEW w \in Nat, NEW h \in Nat, NEW p \in Nat, Pitched(w, p),
           AllocHostImage(i, k, w, h, p)
    PROVE  Inv'
  <1> DEFINE rec == ImageRec(k, w, h, p)
  <1>1. /\ rec.width = w /\ rec.height = h /\ rec.pitch = p
        /\ rec.uv_offset = Low32(YSize(p, h)) /\ rec.bytes = Total(p, h)
    BY DEF ImageRec
  <1>2. rec \in ImageRecs
    <2>1. YSize(p, h) \in Nat /\ Total(p, h) \in Nat  BY TotalIsNat
    <2>2. Low32(YSize(p, h)) \in Nat /\ Low32(Total(p, h)) \in Nat  BY <2>1, LowIsNat
    <2> QED  BY <2>1, <2>2 DEF ImageRec, ImageRecs
  <1>3. rec \notin None  BY <1>2 DEF NullAssumption, None
  <1>4. /\ images' = [images EXCEPT ![i] = rec] /\ buffers' = buffers \cup {i}
        /\ told' = IF w < U16 /\ h < U16 THEN told \cup {i} ELSE told
        /\ copied' = {} /\ surfaces' = surfaces /\ images[i] = Unborn
    BY DEF AllocHostImage, FitsU16
  <1> HIDE DEF rec
  <1>5. images' \in [Images -> ImageRecs \cup None]
    BY <1>2, <1>4 DEF Inv, ImageInv
  <1>6. images'[i] = rec /\ \A j \in Images : j # i => images'[j] = images[j]
    BY <1>4 DEF Inv, ImageInv
  <1>7. ASSUME NEW j \in Images, images'[j] \notin None
        PROVE  /\ images'[j].uv_offset = Low32(YSize(images'[j].pitch, images'[j].height))
               /\ images'[j].bytes = Total(images'[j].pitch, images'[j].height)
               /\ Pitched(images'[j].width, images'[j].pitch)
    <2>1. CASE j = i  BY <1>1, <1>6, <2>1
    <2>2. CASE j # i  BY <1>6, <1>7, <2>2 DEF Inv, ImageInv
    <2> QED  BY <2>1, <2>2
  <1>8. buffers' \subseteq {j \in Images : images'[j] \notin None}
    BY <1>3, <1>4, <1>6 DEF Inv, ImageInv
  <1>9. told' \subseteq {j \in Images : images'[j] # Unborn}
    BY <1>3, <1>4, <1>6 DEF Inv, ImageInv, None
  <1>10. i \notin told  BY <1>4 DEF Inv, ImageInv
  <1>11. ASSUME NEW j \in Known'
         PROVE  images'[j].width < U16 /\ images'[j].height < U16
    <2>1. j \in told' /\ j \in Images /\ images'[j] \notin None
      BY <1>9, <1>11 DEF Known, None
    <2>2. CASE j = i  BY <1>1, <1>4, <1>6, <1>10, <2>1, <2>2
    <2>3. CASE j # i
      <3>1. j \in Known  BY <1>4, <1>6, <2>1, <2>3 DEF Known
      <3> QED  BY <1>6, <2>1, <2>3, <3>1 DEF Inv, ImageInv
    <2> QED  BY <2>2, <2>3
  <1>12. SurfaceInv'  BY <1>4 DEF Inv, SurfaceInv, Live, None
  <1>13. ImageInv'
    <2>1. None' = None /\ U16' = U16  BY DEF None
    <2> QED  BY <1>5, <1>7, <1>8, <1>9, <1>11, <2>1
         DEF ImageInv, None, Pitched, Low32, YSize, Total, UvRows
  <1> QED  BY <1>4, <1>12, <1>13 DEF Inv, CopyInv

\* vaDestroyImage and vaDestroyBuffer.
LEMMA DestroyInv ==
    ASSUME SizeAssumption, NullAssumption, Inv, NEW i \in Images, DestroyImage(i) \/ DestroyBuffer(i)
    PROVE  Inv'
  <1>1. /\ copied' = {} /\ UNCHANGED <<surfaces, told>> /\ buffers' = buffers \ {i}
        /\ images' = images \/ images' = [images EXCEPT ![i] = Destroyed]
    BY DEF DestroyImage, DestroyBuffer
  <1>2. images' \in [Images -> ImageRecs \cup None]
    BY <1>1 DEF Inv, ImageInv, None
  <1>3. \A j \in Images : images'[j] = images[j] \/ (j = i /\ images'[j] = Destroyed)
    BY <1>1 DEF Inv, ImageInv
  <1>4. \A j \in Images : images'[j] \notin None => images'[j] = images[j]
    BY <1>3 DEF None
  <1>5. Known' \subseteq Known /\ Known' \subseteq Images
    BY <1>1, <1>4 DEF Known, Inv, ImageInv, None
  <1>6. buffers' \subseteq {j \in Images : images'[j] \notin None}
    BY <1>1, <1>3 DEF Inv, ImageInv
  <1>7. told' \subseteq {j \in Images : images'[j] # Unborn}
    BY <1>1, <1>3 DEF NullAssumption, Inv, ImageInv
  <1>8. \A j \in Known' : images'[j].width < U16 /\ images'[j].height < U16
    BY <1>4, <1>5 DEF Inv, ImageInv, Known, None
  <1>9. ImageInv'
    BY <1>2, <1>4, <1>6, <1>7, <1>8
    DEF Inv, ImageInv, None, Pitched, Low32, YSize, Total, UvRows
  <1>10. SurfaceInv'  BY <1>1 DEF Inv, SurfaceInv, Live, None
  <1> QED  BY <1>1, <1>9, <1>10 DEF Inv, CopyInv

\* The copies of an upload are those of one image and one surface of its size.
LEMMA UploadInv ==
    ASSUME SizeAssumption, NullAssumption, Inv, NEW i \in Known, NEW s \in Surfaces, Upload(i, s)
    PROVE  Inv'
  <1>1. UNCHANGED <<surfaces, images, buffers, told>>  BY DEF Upload
  <1>2. SurfaceInv' /\ ImageInv'
    BY <1>1, SameImages DEF Inv, SurfaceInv, Live, None
  <1>3. CopyInv'
    <2>1. CASE copied' = {}  BY <2>1 DEF CopyInv
    <2>2. CASE Uploadable(i, s) /\ copied' \subseteq {YCopy(i, s), UvCopy(i, s)}
      <3>1. i \in Known' /\ Uploadable(i, s)'
        BY <1>1, <2>2 DEF Known, None, Uploadable, Live, SameSize
      <3>2. copied' \subseteq {YCopy(i, s)', UvCopy(i, s)'}
        BY <1>1, <2>2 DEF YCopy, UvCopy, Copy, YSize, UvRows
      <3> QED  BY <3>1, <3>2 DEF CopyInv
    <2> QED  BY <2>1, <2>2 DEF Upload
  <1> QED  BY <1>2, <1>3 DEF Inv

\* Every step keeps Inv.
LEMMA NextInv ==
    ASSUME SizeAssumption, NullAssumption
    PROVE  Inv /\ [Next]_vars => Inv'
  <1> SUFFICES ASSUME Inv, [Next]_vars PROVE Inv'  OBVIOUS
  <1>1. CASE UNCHANGED vars
    <2>1. UNCHANGED <<surfaces, images, buffers, told, copied>>  BY <1>1 DEF vars
    <2>2. SurfaceInv' /\ ImageInv'
      BY <2>1, SameImages DEF Inv, SurfaceInv, Live, None
    <2>3. CopyInv'
      BY <2>1 DEF Inv, CopyInv, Known, None, Uploadable, Live, SameSize, YCopy, UvCopy, Copy,
                   YSize, UvRows
    <2> QED  BY <2>2, <2>3 DEF Inv
  <1>2. ASSUME NEW s \in Surfaces,
               \/ DestroySurface(s)
               \/ \E size \in Sizes : \/ CreateOther(s, size)
                                      \/ \E pitch \in Pitches : CreateSurface(s, size, pitch)
        PROVE  Inv'
    BY <1>2, SurfaceSteps
  <1>3. ASSUME NEW i \in Images, NEW size \in Sizes, CreateImage(i, size)
        PROVE  Inv'
    <2>1. size[1] \in Nat /\ size[2] \in Nat /\ U16 \in Nat  BY DEF SizeAssumption
    <2>2. Pitched(size[1], size[1])  BY <2>1 DEF Pitched
    <2> QED  BY <1>3, <2>1, <2>2, AllocInv DEF CreateImage
  <1>4. ASSUME NEW i \in Images, NEW s \in Surfaces, DeriveImage(i, s)
        PROVE  Inv'
    <2>1. surfaces[s] \in SurfaceRecs /\ Pitched(surfaces[s].width, surfaces[s].pitch)
      BY <1>4 DEF DeriveImage, Live, Inv, SurfaceInv
    <2>2. /\ surfaces[s].width \in Nat /\ surfaces[s].height \in Nat
          /\ surfaces[s].pitch \in Nat
      BY <2>1 DEF SurfaceRecs
    <2> QED  BY <1>4, <2>1, <2>2, AllocInv DEF DeriveImage
  <1>5. ASSUME NEW i \in Images, NEW s \in Surfaces, PutImage(i, s)
        PROVE  Inv'
    BY <1>5, UploadInv DEF PutImage
  <1>6. ASSUME NEW i \in Images, UnmapBuffer(i)
        PROVE  Inv'
    BY <1>6, UploadInv DEF UnmapBuffer
  <1>7. ASSUME NEW i \in Images, DestroyImage(i) \/ DestroyBuffer(i)
        PROVE  Inv'
    BY <1>7, DestroyInv
  <1> QED  BY <1>1, <1>2, <1>3, <1>4, <1>5, <1>6, <1>7 DEF Next

\* Nothing exists at first.
LEMMA InitInv == Init => Inv
  BY DEF Init, Inv, SurfaceInv, ImageInv, CopyInv, Live, Known, None

\* The inductive invariant.
THEOREM GeometryCorrect ==
    ASSUME SizeAssumption, NullAssumption
    PROVE  Spec => []Inv
  <1> QED  BY InitInv, NextInv, PTL DEF Spec
---------------------------------------------------------------------------
\* The UV offset a client is told was not cut: both sizes passed u16::try_from,
\* and the pitch of something that narrow is at most 2^16.
LEMMA OffsetNotCut ==
    ASSUME SizeAssumption, NullAssumption, Inv, NEW i \in Known
    PROVE  /\ images[i] \in ImageRecs /\ images[i].width <= images[i].pitch
           /\ images[i].uv_offset = images[i].pitch * images[i].height
           /\ images[i].bytes = images[i].pitch * images[i].height
                                + images[i].pitch * UvRows(images[i].height)
  <1> DEFINE p == images[i].pitch
             h == images[i].height
  <1>1. i \in Images /\ images[i] \notin None  BY DEF Known, Inv, ImageInv
  <1>2. images[i] \in ImageRecs  BY <1>1 DEF Inv, ImageInv
  <1>3. p \in Nat /\ h \in Nat /\ images[i].width \in Nat  BY <1>2 DEF ImageRecs
  <1>4. U16 \in Nat /\ U16 # 0  BY DEF SizeAssumption
  <1>5. h < U16 /\ p <= U16 /\ images[i].width <= p
    BY <1>1 DEF Inv, ImageInv, Pitched
  <1>6. p * h < U32  BY <1>3, <1>4, <1>5, PlaneFits DEF U32
  <1>7. YSize(p, h) = p * h /\ p * h \in Nat
        /\ Total(p, h) = p * h + p * UvRows(h)
    BY <1>3, TotalIsNat
  <1>8. U32 \in Nat /\ U32 # 0  BY <1>4 DEF U32
  <1>9. Low32(p * h) = p * h  BY <1>6, <1>7, <1>8, SmallMod DEF Low32
  <1> QED  BY <1>1, <1>2, <1>5, <1>7, <1>9 DEF Inv, ImageInv

\* Types, and a buffer only with its image.
THEOREM TypeCorrect ==
    ASSUME SizeAssumption, NullAssumption
    PROVE  Spec => []TypeOK
  <1>1. Inv => TypeOK  BY DEF Inv, SurfaceInv, ImageInv, TypeOK, None
  <1> QED  BY <1>1, GeometryCorrect, PTL

\* alloc_host_image: the planes the VAImage names are two, and in the buffer.
THEOREM PlanesAreApart ==
    ASSUME SizeAssumption, NullAssumption
    PROVE  Spec => []PlanesApart
  <1>1. ASSUME Inv PROVE PlanesApart
    <2> SUFFICES ASSUME NEW i \in Known
                 PROVE  /\ End(0, images[i].pitch, images[i].width, images[i].height)
                             <= images[i].uv_offset
                        /\ End(images[i].uv_offset, images[i].pitch, images[i].width,
                               UvRows(images[i].height)) <= images[i].bytes
      BY DEF PlanesApart
    <2> DEFINE p == images[i].pitch
               h == images[i].height
               w == images[i].width
    <2>1. /\ images[i] \in ImageRecs /\ w <= p /\ images[i].uv_offset = p * h
          /\ images[i].bytes = p * h + p * UvRows(h)
      BY <1>1, OffsetNotCut
    <2>2. p \in Nat /\ h \in Nat /\ w \in Nat  BY <2>1 DEF ImageRecs
    <2>3. UvRows(h) \in Nat /\ p * h \in Nat  BY <2>2, HalfRows, Products
    <2> HIDE DEF p, h, w
    <2>4. End(0, p, w, h) <= p * h
      <3>1. End(0, p, w, h) <= 0 + p * h  BY <2>1, <2>2, EndBound
      <3> QED  BY <2>3, <3>1
    <2>5. End(p * h, p, w, UvRows(h)) <= p * h + p * UvRows(h)
      BY <2>1, <2>2, <2>3, EndBound
    <2> QED  BY <2>1, <2>4, <2>5 DEF p, h, w
  <1> QED  BY <1>1, GeometryCorrect, PTL

\* The fields of the two copies.
LEMMA CopyFields ==
    ASSUME NEW i, NEW s
    PROVE  /\ YCopy(i, s).image = i /\ YCopy(i, s).surface = s
           /\ YCopy(i, s).src = 0 /\ YCopy(i, s).src_pitch = images[i].pitch
           /\ YCopy(i, s).dst = 0 /\ YCopy(i, s).dst_pitch = surfaces[s].pitch
           /\ YCopy(i, s).width = surfaces[s].width /\ YCopy(i, s).rows = surfaces[s].height
           /\ UvCopy(i, s).image = i /\ UvCopy(i, s).surface = s
           /\ UvCopy(i, s).src = images[i].uv_offset
           /\ UvCopy(i, s).src_pitch = images[i].pitch
           /\ UvCopy(i, s).dst = surfaces[s].pitch * surfaces[s].height
           /\ UvCopy(i, s).dst_pitch = surfaces[s].pitch
           /\ UvCopy(i, s).width = surfaces[s].width
           /\ UvCopy(i, s).rows = UvRows(surfaces[s].height)
  BY DEF YCopy, UvCopy, Copy, YSize

\* upload_image_to_surface: each copy stays in the buffer and in the surface,
\* and the two do not overlap, whichever image is put on whichever surface.
THEOREM CopiesInside ==
    ASSUME SizeAssumption, NullAssumption
    PROVE  Spec => []CopiesStayInside
  <1>1. ASSUME Inv PROVE CopiesStayInside
    <2>1. CASE copied = {}  BY <2>1 DEF CopiesStayInside
    <2>2. CASE copied # {}
      <3>1. PICK i \in Known, s \in Surfaces :
              Uploadable(i, s) /\ copied \subseteq {YCopy(i, s), UvCopy(i, s)}
        BY <1>1, <2>2 DEF Inv, CopyInv
      <3> DEFINE w == surfaces[s].width
                 h == surfaces[s].height
                 p == images[i].pitch
                 q == surfaces[s].pitch
      <3>2. /\ images[i] \in ImageRecs /\ images[i].width <= p
            /\ images[i].uv_offset = p * images[i].height
            /\ images[i].bytes = p * images[i].height + p * UvRows(images[i].height)
        BY <1>1, OffsetNotCut
      <3>3. images[i].width = w /\ images[i].height = h /\ Live(s)
        BY <3>1 DEF Uploadable, SameSize
      <3>4. surfaces[s] \in SurfaceRecs /\ w <= q
        BY <1>1, <3>3 DEF Inv, SurfaceInv, Live, Pitched
      <3>5. w \in Nat /\ h \in Nat /\ p \in Nat /\ q \in Nat
        BY <3>2, <3>4 DEF SurfaceRecs, ImageRecs
      <3>6. /\ w <= p /\ images[i].uv_offset = p * h
            /\ images[i].bytes = p * h + p * UvRows(h)
        BY <3>2, <3>3
      <3>7. UvRows(h) \in Nat /\ Rows(h) = h + UvRows(h)  BY <3>5, HalfRows
      <3>8. /\ p * h \in Nat /\ q * h \in Nat /\ p * UvRows(h) \in Nat /\ q * UvRows(h) \in Nat
            /\ q * Rows(h) = q * h + q * UvRows(h)
        BY <3>5, <3>7, Products
      <3> DEFINE Y == YCopy(i, s)
                 UV == UvCopy(i, s)
                 Inside(c) ==
                   /\ End(c.src, c.src_pitch, c.width, c.rows) <= images[c.image].bytes
                   /\ End(c.dst, c.dst_pitch, c.width, c.rows)
                        <= surfaces[c.surface].pitch * Rows(surfaces[c.surface].height)
      <3>9. /\ Y.image = i /\ Y.surface = s /\ Y.src = 0 /\ Y.src_pitch = p
            /\ Y.dst = 0 /\ Y.dst_pitch = q /\ Y.width = w /\ Y.rows = h
        BY CopyFields
      <3>10. /\ UV.image = i /\ UV.surface = s /\ UV.src = p * h /\ UV.src_pitch = p
             /\ UV.dst = q * h /\ UV.dst_pitch = q /\ UV.width = w /\ UV.rows = UvRows(h)
        BY <3>6, CopyFields
      <3>11. surfaces[s].pitch = q /\ surfaces[s].height = h  OBVIOUS
      <3> HIDE DEF w, h, p, q, Y, UV
      <3>12. End(0, p, w, h) <= p * h /\ End(0, q, w, h) <= q * h
        <4>1. End(0, p, w, h) <= 0 + p * h  BY <3>5, <3>6, EndBound
        <4>2. End(0, q, w, h) <= 0 + q * h  BY <3>4, <3>5, EndBound
        <4> QED  BY <3>8, <4>1, <4>2
      <3>13. /\ End(p * h, p, w, UvRows(h)) <= p * h + p * UvRows(h)
             /\ End(q * h, q, w, UvRows(h)) <= q * h + q * UvRows(h)
        BY <3>4, <3>5, <3>6, <3>7, <3>8, EndBound
      <3>14. End(0, p, w, h) \in Int /\ End(0, q, w, h) \in Int
        BY <3>5 DEF End
      <3>15. Inside(Y)
        BY <3>6, <3>8, <3>9, <3>11, <3>12, <3>14
      <3>16. Inside(UV)
        BY <3>6, <3>8, <3>10, <3>11, <3>13
      <3>17. ASSUME NEW c \in copied, NEW d \in copied, c.dst < d.dst
             PROVE  End(c.dst, c.dst_pitch, c.width, c.rows) <= d.dst
        <4>1. c \in {Y, UV} /\ d \in {Y, UV}  BY <3>1 DEF Y, UV
        <4>2. c = Y /\ d = UV  BY <3>8, <3>9, <3>10, <3>17, <4>1
        <4> QED  BY <3>9, <3>10, <3>12, <4>2
      <3>18. \A c \in copied : Inside(c)
        <4>1. \A c \in copied : c = Y \/ c = UV  BY <3>1 DEF Y, UV
        <4> QED  BY <3>15, <3>16, <4>1
      <3> QED  BY <3>17, <3>18 DEF CopiesStayInside
    <2> QED  BY <2>1, <2>2
  <1> QED  BY <1>1, GeometryCorrect, PTL
===========================================================================
