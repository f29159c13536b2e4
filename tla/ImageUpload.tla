---------------------------- MODULE ImageUpload ----------------------------
(***************************************************************************)
(* Images as memory: src/driver/image.rs, with the sizes and the pitch of  *)
(* a surface's memory from surface.rs.  An NV12 picture is two planes, Y   *)
(* and below it UV with half the rows; an image keeps them in a host       *)
(* buffer, an Internal surface in pitched CUDA memory, and an upload       *)
(* copies each plane with one cuMemcpy2D.                                  *)
(*                                                                         *)
(* An image's pitch is its width or that of the surface it was derived     *)
(* from, and a put may name any surface, so an upload relates three        *)
(* geometries.  Sizes are 32 bits in the driver, 16 in a VAImage, and      *)
(* products are computed in usize; U16 is 2^16 here.  Locks and threads    *)
(* are in MappedBuffers.                                                   *)
(***************************************************************************)
EXTENDS Integers

CONSTANTS
    Surfaces, Images,            \* keys: each names one object, once
    Sizes,                       \* sizes a client may ask for
    Pitches,                     \* pitches cuMemAllocPitch_v2 may choose
    U16,                         \* how many values a u16 has
    Unborn, Destroyed            \* what a key without a record stands for

U32   == U16 * U16
Usize == U32 * U32

SurfaceRecs == [resident : BOOLEAN, width : Nat, height : Nat, pitch : Nat]
ImageRecs == [surface_key : Surfaces \cup {Unborn}, width : Nat, height : Nat, pitch : Nat,
              uv_offset : Nat, data_size : Nat, bytes : Nat]

\* What the theorems assume of the constants.
SizeAssumption == U16 \in Nat \ {0} /\ Sizes \subseteq Nat \X Nat /\ Pitches \subseteq Nat
NullAssumption ==
    Unborn # Destroyed /\ {Unborn, Destroyed} \cap (SurfaceRecs \cup ImageRecs) = {}

VARIABLES
    surfaces,      \* SurfaceRec of each key
    images,        \* ImageRec of each key
    buffers,       \* images whose backing buffer is live
    told,          \* images whose VAImage the client got
    copied         \* the copies the last call made

vars == <<surfaces, images, buffers, told, copied>>

None == {Unborn, Destroyed}
Live(s) == surfaces[s] \notin None

\* Which images a client can name: their IDs were told.
Known == {i \in told : images[i] \notin None}

Init ==
    /\ surfaces = [s \in Surfaces |-> Unborn] /\ images = [i \in Images |-> Unborn]
    /\ buffers = {} /\ told = {} /\ copied = {}
---------------------------------------------------------------------------
(* Surfaces.                                                               *)

\* The pitch is CUDA's choice: a multiple of an alignment that divides U16.
Pitched(width, pitch) == width <= pitch /\ (width < U16 => pitch <= U16)

\* allocate_nv12: Y and UV rows in one block.
Rows(height) == (height * 3) \div 2

\* An Internal surface.
CreateSurface(s, size, pitch) ==
    /\ surfaces[s] = Unborn /\ size[1] > 0 /\ size[2] > 0 /\ Pitched(size[1], pitch)
    /\ surfaces' = [surfaces EXCEPT ![s] =
           [resident |-> TRUE, width |-> size[1], height |-> size[2], pitch |-> pitch]]
    /\ copied' = {} /\ UNCHANGED <<images, buffers, told>>

\* A surface without memory of its own: Stub, DmaBuf.  What derive_image takes
\* for its pitch is the width.
CreateOther(s, size) ==
    /\ surfaces[s] = Unborn
    /\ surfaces' = [surfaces EXCEPT ![s] =
           [resident |-> FALSE, width |-> size[1], height |-> size[2], pitch |-> size[1]]]
    /\ copied' = {} /\ UNCHANGED <<images, buffers, told>>

DestroySurface(s) ==
    /\ Live(s)
    /\ surfaces' = [surfaces EXCEPT ![s] = Destroyed]
    /\ copied' = {} /\ UNCHANGED <<images, buffers, told>>
---------------------------------------------------------------------------
(* Images.                                                                 *)

YSize(pitch, height)  == pitch * height
UvRows(height)        == height \div 2
Total(pitch, height)  == YSize(pitch, height) + pitch * UvRows(height)
Low32(n)              == n % U32    \* `as u32`

\* u16::try_from, the last thing that may fail.
FitsU16(n) == n < U16

ImageRec(surface, width, height, pitch) ==
    [surface_key |-> surface, width |-> width, height |-> height, pitch |-> pitch,
     uv_offset |-> Low32(YSize(pitch, height)), data_size |-> Low32(Total(pitch, height)),
     bytes |-> Total(pitch, height)]

\* Buffer and image are inserted before the sizes are converted: if that
\* fails both stay, and the client does not learn of them.
AllocHostImage(i, surface, width, height, pitch) ==
    /\ images[i] = Unborn
    /\ Total(pitch, height) < Usize
    /\ images' = [images EXCEPT ![i] = ImageRec(surface, width, height, pitch)]
    /\ buffers' = buffers \cup {i}
    /\ told' = IF FitsU16(width) /\ FitsU16(height) THEN told \cup {i} ELSE told
    /\ copied' = {} /\ UNCHANGED surfaces

CreateImage(i, size) ==
    /\ size[1] > 0 /\ size[2] > 0
    /\ AllocHostImage(i, Unborn, size[1], size[2], size[1])

\* The surface may go between derive_image's two locks; destroying it right
\* after the call leaves the same image.
DeriveImage(i, s) ==
    /\ Live(s)
    /\ AllocHostImage(i, s, surfaces[s].width, surfaces[s].height, surfaces[s].pitch)

DestroyImage(i) ==
    /\ i \in Known
    /\ images' = [images EXCEPT ![i] = Destroyed] /\ buffers' = buffers \ {i}
    /\ copied' = {} /\ UNCHANGED <<surfaces, told>>

\* vaDestroyBuffer of the buffer a VAImage names.
DestroyBuffer(i) ==
    /\ i \in Known
    /\ buffers' = buffers \ {i}
    /\ copied' = {} /\ UNCHANGED <<surfaces, images, told>>
---------------------------------------------------------------------------
(* Uploads.                                                                *)

\* One cuMemcpy2D: rows of the surface's width from src in the image's buffer to
\* dst in the surface's memory.
Copy(i, s, src, dst, rows) ==
    [image |-> i, surface |-> s,
     src |-> src, src_pitch |-> images[i].pitch,
     dst |-> dst, dst_pitch |-> surfaces[s].pitch,
     width |-> surfaces[s].width, rows |-> rows]

YCopy(i, s) == Copy(i, s, 0, 0, surfaces[s].height)

UvCopy(i, s) ==
    Copy(i, s, images[i].uv_offset, YSize(surfaces[s].pitch, surfaces[s].height),
         UvRows(surfaces[s].height))

\* Both sizes are compared, for the copies have the surface's.
SameSize(i, s) == images[i].width = surfaces[s].width /\ images[i].height = surfaces[s].height

Uploadable(i, s) ==
    /\ Live(s) /\ surfaces[s].resident /\ SameSize(i, s)
    /\ i \in buffers /\ images[i].bytes >= images[i].data_size

\* CUDA may refuse either copy; the UV plane is not tried after the Y plane.
\* A surface without CUDA memory is skipped, anything else is an error.
Upload(i, s) ==
    /\ \/ Uploadable(i, s) /\ copied' \in {{YCopy(i, s)}, {YCopy(i, s), UvCopy(i, s)}}
       \/ copied' = {}
    /\ UNCHANGED <<surfaces, images, buffers, told>>

\* A derived image is uploaded to the surface it came from when the client
\* unmaps its buffer.
UnmapBuffer(i) ==
    /\ i \in Known \cap buffers /\ images[i].surface_key \in Surfaces
    /\ Upload(i, images[i].surface_key)

\* Only the whole picture can be put.
PutImage(i, s) == i \in Known /\ Live(s) /\ Upload(i, s)

Next ==
    \/ \E s \in Surfaces, size \in Sizes :
           CreateOther(s, size) \/ \E pitch \in Pitches : CreateSurface(s, size, pitch)
    \/ \E s \in Surfaces : DestroySurface(s)
    \/ \E i \in Images, size \in Sizes : CreateImage(i, size)
    \/ \E i \in Images, s \in Surfaces : DeriveImage(i, s) \/ PutImage(i, s)
    \/ \E i \in Images : DestroyImage(i) \/ DestroyBuffer(i) \/ UnmapBuffer(i)

Spec == Init /\ [][Next]_vars
---------------------------------------------------------------------------
(* Properties. *)

\* Types, and only an image that is there has a buffer or can be told.
TypeOK ==
    /\ \A s \in Surfaces : surfaces[s] \notin None => surfaces[s] \in SurfaceRecs
    /\ \A i \in Images : images[i] \notin None => images[i] \in ImageRecs
    /\ \A i \in buffers : images[i] \notin None
    /\ told \subseteq {i \in Images : images[i] # Unborn}

\* One past the last byte of `rows` rows.
End(start, pitch, width, rows) ==
    IF rows = 0 THEN start ELSE start + (rows - 1) * pitch + width

\* "Host pointer is derived from a live &[u8] whose length is >= pitches[0] *
\* height; device pointer ... is at least surf_pitch * surf_h * 3 / 2 bytes":
\* whatever image is uploaded to whatever surface, every copy reads inside the
\* image's buffer and writes inside the surface's memory, and what is written
\* of one plane does not run into the other.
CopiesStayInside ==
    \A c \in copied :
        LET surface == surfaces[c.surface] IN
        /\ End(c.src, c.src_pitch, c.width, c.rows) <= images[c.image].bytes
        /\ End(c.dst, c.dst_pitch, c.width, c.rows) <= surface.pitch * Rows(surface.height)
        /\ \A d \in copied : c.dst < d.dst => End(c.dst, c.dst_pitch, c.width, c.rows) <= d.dst

\* A client that fills the planes where its VAImage says they are writes
\* neither over the other plane nor past the buffer: no offset it is told has
\* been cut to 32 bits.
PlanesApart ==
    \A i \in Known :
        LET rec == images[i] IN
        /\ End(0, rec.pitch, rec.width, rec.height) <= rec.uv_offset
        /\ End(rec.uv_offset, rec.pitch, rec.width, UvRows(rec.height)) <= rec.bytes

\* "UV host range is offsets[1]..data_size": the size in the VAImage covers
\* both planes.
DataSizeCovers ==
    \A i \in Known :
        LET rec == images[i] IN
        End(rec.uv_offset, rec.pitch, rec.width, UvRows(rec.height)) <= rec.data_size
===========================================================================
