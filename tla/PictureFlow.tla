---------------------------- MODULE PictureFlow ----------------------------
(***************************************************************************)
(* One encode context between vaBeginPicture and the client's read of the  *)
(* coded buffer: src/driver/picture.rs, the coded-buffer half of           *)
(* buffer.rs, and PendingFrame / CodedBufferSlot of state.rs.              *)
(*                                                                         *)
(* Every vtable function holds the `pools` lock, so each is one step.      *)
(* vaRenderPicture applies its buffers one after the other and keeps what  *)
(* it applied when a later one fails: one step per buffer.  The session is *)
(* what EncoderPort promises, a whole encode_frame in one step, and the    *)
(* configuration that sequence parameters change (EncoderParams).          *)
(*                                                                         *)
(* A parameter buffer is labelled with the picture it was rendered for, a  *)
(* bitstream with the picture it encodes.  A vaBeginPicture over a picture *)
(* that was not ended goes on with its label: what was rendered before it  *)
(* stays in the accumulator, and one vaEndPicture takes it all.            *)
(* packed_headers (legacy) and last_coded are written and never read; they *)
(* are left out.  Of the misc parameters, which vaEndPicture takes and     *)
(* ignores, only the label is kept.                                        *)
(***************************************************************************)
EXTENDS EncoderParams, FiniteSets

CONSTANTS
    Pictures,      \* labels of pictures, reusable once nothing carries them
    CodedBufs,     \* coded buffers the client may create
    NoPicture, NoBuf,
    SeqParams,     \* sequence parameters the client renders
    NoSeq, Malformed,
    VaProfiles,    \* profiles the client creates its VAConfig with
    Dims,          \* picture sizes it asks for and surfaces have, in either direction
    Preset,        \* the rate control NVENC's preset comes with
    Capacity       \* how many frames the session may hold back

ASSUME NullAssumption == /\ NoPicture \notin Pictures /\ NoBuf \notin CodedBufs
                         /\ NoSeq \notin SeqParams /\ Malformed \notin SeqParams
ASSUME ParamsAssumption ==
    /\ SeqParams \subseteq SeqParamBuffer /\ VaProfiles \subseteq Profiles /\ Dims \subseteq Nat
    /\ Preset \in [rateControlMode : {"CBR", "VBR", "CONSTQP"}, averageBitRate : Nat,
                   maxBitRate : Nat, vbvBufferSize : Nat, vbvInitialDelay : Nat, constQP : Nat]
ASSUME CapacityAssumption == Capacity \in Nat

VARIABLES
    building,   \* client: the picture between begin and end, or NoPicture
    named,      \* client: the coded buffers it named since vaBeginPicture
    described,  \* client: did it render picture parameters since then?
    pending,    \* PendingFrame: who each accumulated parameter belongs to
    held,       \* frames the session accepted and has not returned
    va_config,  \* the profile in the context's ConfigRec, "none" once destroyed
    config,     \* NvencSession::config, NoConfig if there is no session
    encoder,    \* NVENC side: the parameters it last accepted
    in_force,   \* history: the sequence parameters last applied, with the profile
    buffers,    \* coded buffers in the pool
    segment,    \* of each: the picture whose bytes its segment points to
    coded_ready,
    mapped,     \* client: coded buffers it holds a segment pointer of
    ended       \* history: what the last vaEndPicture used and produced

vars == <<building, named, described, pending, held, va_config, config, encoder, in_force,
          buffers, segment, coded_ready, mapped, ended>>
client == <<building, named, described>>
session == <<held, config, encoder, in_force>>
coded  == <<buffers, segment, coded_ready, mapped>>

Label    == Pictures \cup {NoPicture}
BufOrNo  == CodedBufs \cup {NoBuf}
Scalars  == {"slice_param", "misc"}
SeqData  == SeqParams \cup {NoSeq, Malformed}
Empty    == [scalars |-> [p \in Scalars |-> NoPicture],
             seq_from |-> NoPicture, seq_param |-> NoSeq,
             pic_param |-> NoPicture, pps_coded_buf |-> NoBuf,
             coded_from |-> NoPicture, coded_buf |-> NoBuf,
             packed_kind |-> NoPicture, packed_headers_typed |-> {}]
NotEnded == [picture |-> NoPicture, used |-> {}, status |-> "none", reset |-> FALSE,
             bytes |-> NoPicture, into |-> NoBuf]
NoConfig == [profile |-> "none"]
NotSent  == [seq |-> NoSeq, profile |-> "none"]

\* What NVENC is asked for; preset and tuning are those of the session's creation.
Submitted(cfg, choice) == init_params(cfg, choice, apply_config(Preset, cfg))

\* vaCreateContext, with a session or, for want of a GPU, without.
InitContext ==
    /\ va_config \in VaProfiles
    /\ \/ \E asked, target \in Dims \X Dims :
            LET width  == PictureSize(asked[1], target[1])
                height == PictureSize(asked[2], target[2])
            IN /\ width # 0 /\ height # 0
               /\ config = default_for(width, height, va_config)
               /\ encoder = Submitted(config, map_preset_choice(config))
       \/ config = NoConfig /\ encoder = NoConfig
    /\ in_force = NotSent

Init ==
    /\ InitContext
    /\ building = NoPicture /\ named = {} /\ described = FALSE
    /\ pending = Empty /\ held = {}
    /\ buffers = {} /\ segment = [b \in CodedBufs |-> NoPicture]
    /\ coded_ready = {} /\ mapped = {} /\ ended = NotEnded

\* The pictures whose parameters are in the accumulator.
Labels(frame) == ({frame.scalars[p] : p \in Scalars}
                    \cup {frame.seq_from, frame.pic_param, frame.coded_from, frame.packed_kind}
                    \cup frame.packed_headers_typed) \ {NoPicture}
InUse == Labels(pending) \cup held \cup {building} \cup {segment[b] : b \in CodedBufs}
---------------------------------------------------------------------------
(* The client's pictures.                                                  *)

\* Only the legacy packed_headers list is cleared, whether or not the picture
\* before was ended.
BeginPicture(p) ==
    /\ IF building = NoPicture THEN p \notin InUse ELSE p = building
    /\ building' = p /\ named' = {} /\ described' = FALSE /\ ended' = NotEnded
    /\ UNCHANGED <<pending, va_config, session, coded>>

Render(frame) ==
    /\ building # NoPicture
    /\ pending' = frame /\ ended' = NotEnded
    /\ UNCHANGED <<building, va_config, session, coded>>

RenderScalar(param) ==
    /\ Render([pending EXCEPT !.scalars[param] = building])
    /\ UNCHANGED client

RenderSeqParam(data) ==
    /\ Render([pending EXCEPT !.seq_from = building, !.seq_param = data])
    /\ UNCHANGED client

\* A picture parameter buffer names a coded buffer (or 0) by its ID; the
\* client renders one per picture.
RenderPicParam(b) ==
    /\ ~described /\ described' = TRUE
    /\ b \in (buffers \ mapped) \cup {NoBuf}
    /\ Render([pending EXCEPT !.pic_param = building, !.pps_coded_buf = b])
    /\ named' = named \cup ({b} \ {NoBuf})

RenderCodedBuf(b) ==
    /\ b \in buffers \ mapped
    /\ Render([pending EXCEPT !.coded_from = building, !.coded_buf = b])
    /\ named' = named \cup {b} /\ UNCHANGED described

\* from_va_type knows the kind or clears the marker.
RenderPackedParam ==
    /\ \/ Render([pending EXCEPT !.packed_kind = building])
       \/ Render([pending EXCEPT !.packed_kind = NoPicture])
    /\ UNCHANGED client

\* The data buffer takes the kind announced before it, whoever announced it.
RenderPackedData ==
    /\ Render(IF pending.packed_kind = NoPicture THEN pending
              ELSE [pending EXCEPT !.packed_kind = NoPicture,
                                   !.packed_headers_typed = @ \cup {pending.packed_kind}])
    /\ UNCHANGED client
---------------------------------------------------------------------------
(* vaEndPicture: the accumulator is taken first, whatever happens next.    *)

\* The client names a coded buffer for every picture it ends, and does not rely
\* on the picture parameters of one it abandoned.
MayEnd == /\ building # NoPicture /\ named # {}
          /\ described \/ pending.pic_param = NoPicture

\* The ID in the picture parameters first, the rendered buffer otherwise.
ResolvedBuf == IF pending.pps_coded_buf \in buffers
                 THEN pending.pps_coded_buf ELSE pending.coded_buf

\* std::mem::take of the accumulator.
\* What if: a field is left behind.
KeepsMarker   == [Empty EXCEPT !.packed_kind = pending.packed_kind]
KeepsCodedBuf == [Empty EXCEPT !.pps_coded_buf = pending.pps_coded_buf,
                               !.coded_buf = pending.coded_buf]
Taken == Empty

Ended(status, reset, bytes, into) ==
    /\ pending' = Taken /\ building' = NoPicture /\ named' = {} /\ described' = FALSE
    /\ ended' = [picture |-> building, used |-> Labels(pending), status |-> status,
                 reset |-> reset, bytes |-> bytes, into |-> into]
    /\ UNCHANGED va_config

\* The configuration the accumulated sequence parameters ask for.  A context
\* whose VAConfig was destroyed counts as Main.
Profile == IF va_config = "none" THEN "Main" ELSE va_config
Parsed  == pending.seq_param \in SeqParams
Wanted  == IF Parsed THEN build_cfg_from_sps(parse_sps(pending.seq_param), Profile, config)
                     ELSE config
Resets  == Wanted # config

\* NvencSession::reconfigure, ok if NVENC takes it.
\* What if: the new configuration is stored before the call, or never.
StoresFirst(ok) == config' = Wanted /\ encoder' = IF ok THEN Submitted(Wanted, encoder) ELSE encoder
StoresNone(ok)  == config' = config /\ encoder' = IF ok THEN Submitted(Wanted, encoder) ELSE encoder
Reconfigure(ok) ==
    IF ok THEN config' = Wanted /\ encoder' = Submitted(Wanted, encoder)
          ELSE UNCHANGED <<config, encoder>>

\* A failing reconfigure is logged and the picture goes on.
ApplySeqParam ==
    \E ok \in BOOLEAN :
        /\ IF Resets THEN Reconfigure(ok) ELSE UNCHANGED <<config, encoder>>
        /\ in_force' = IF Parsed /\ (ok \/ ~Resets)
                         THEN [seq |-> pending.seq_param, profile |-> Profile] ELSE in_force

\* The context has no session.
EndPictureNoSession ==
    /\ MayEnd /\ config = NoConfig
    /\ Ended("error", FALSE, NoPicture, NoBuf)
    /\ UNCHANGED <<session, coded>>

\* With a session the parameters are applied, then the surface is registered
\* and encode_frame called, which may first lose frames NVENC gave up.
Encode(kept) ==
    /\ MayEnd /\ config # NoConfig
    /\ ApplySeqParam
    /\ kept \subseteq held

EndPictureFails(kept) ==
    /\ Encode(kept) /\ held' = kept
    /\ Ended("error", Resets, NoPicture, NoBuf)
    /\ UNCHANGED coded

\* encode_frame returned the bytes of g, this picture or an earlier one.
\* Their length fits the segment's u32: NVENC counts it in one, and no client's
\* headers are put before them (client_drives_headers is false).
EndPictureBytes(kept, g) ==
    LET cb == ResolvedBuf
        present == cb \in buffers
    IN
    /\ Encode(kept)
    /\ g \in kept \cup {building}
    /\ held' = (kept \cup {building}) \ {g}
    /\ segment' = IF present THEN [segment EXCEPT ![cb] = g] ELSE segment
    /\ coded_ready' = IF present THEN coded_ready \cup {cb} ELSE coded_ready
    /\ Ended("bytes", Resets, g, IF present THEN cb ELSE NoBuf)
    /\ UNCHANGED <<buffers, mapped>>

\* encode_frame deferred the frame: only the flag of the coded buffer changes.
EndPicturePending(kept) ==
    /\ Encode(kept)
    /\ Cardinality(kept) < Capacity
    /\ held' = kept \cup {building}
    /\ coded_ready' = coded_ready \ {ResolvedBuf}
    /\ Ended("pending", Resets, NoPicture, IF ResolvedBuf \in buffers THEN ResolvedBuf ELSE NoBuf)
    /\ UNCHANGED <<buffers, segment, mapped>>

EndPicture == \/ EndPictureNoSession
              \/ \E kept \in SUBSET held : \/ EndPictureFails(kept) \/ EndPicturePending(kept)
                                           \/ \E g \in Pictures : EndPictureBytes(kept, g)

\* vaDestroyConfig does not ask whether a context still uses the config.
DestroyConfig ==
    /\ va_config # "none" /\ va_config' = "none" /\ ended' = NotEnded
    /\ UNCHANGED <<client, pending, session, coded>>
---------------------------------------------------------------------------
(* Coded buffers.  By the libva contract buffer.rs quotes, the client calls *)
(* nothing on a buffer between map and unmap, nor maps one it has named for *)
(* the picture it is building.                                              *)

\* A new buffer has a new key, even if its 32-bit ID was seen before (IdPool).
CreateBuffer(b) ==
    /\ b \notin buffers \cup {pending.coded_buf, pending.pps_coded_buf}
    /\ buffers' = buffers \cup {b} /\ ended' = NotEnded
    /\ UNCHANGED <<client, pending, va_config, session, segment, coded_ready, mapped>>

\* What if: the ready flag outlives the record.
KeepsFlag(b)  == segment' = [segment EXCEPT ![b] = NoPicture] /\ coded_ready' = coded_ready
DropRecord(b) == /\ segment' = [segment EXCEPT ![b] = NoPicture]
                 /\ coded_ready' = coded_ready \ {b}

DestroyBuffer(b) ==
    /\ b \in buffers \ (mapped \cup named)
    /\ buffers' = buffers \ {b} /\ ended' = NotEnded /\ DropRecord(b)
    /\ UNCHANGED <<client, pending, va_config, session, mapped>>

\* coded_ready is not looked at: a segment is handed out once there is one.
MapBuffer(b) ==
    /\ b \in buffers \ (mapped \cup named)
    /\ segment[b] # NoPicture
    /\ mapped' = mapped \cup {b} /\ ended' = NotEnded
    /\ UNCHANGED <<client, pending, va_config, session, buffers, segment, coded_ready>>

UnmapBuffer(b) ==
    /\ b \in mapped
    /\ mapped' = mapped \ {b} /\ ended' = NotEnded
    /\ UNCHANGED <<client, pending, va_config, session, buffers, segment, coded_ready>>

Next ==
    \/ \E p \in Pictures : BeginPicture(p)
    \/ \E param \in Scalars : RenderScalar(param)
    \/ \E data \in SeqData \ {NoSeq} : RenderSeqParam(data)
    \/ \E b \in BufOrNo : RenderPicParam(b)
    \/ \E b \in CodedBufs : \/ RenderCodedBuf(b) \/ CreateBuffer(b)
                            \/ DestroyBuffer(b) \/ MapBuffer(b) \/ UnmapBuffer(b)
    \/ RenderPackedParam \/ RenderPackedData
    \/ EndPicture \/ DestroyConfig

Spec == Init /\ [][Next]_vars
---------------------------------------------------------------------------
(* Properties. *)

TypeOK ==
    /\ building \in Label /\ named \subseteq CodedBufs /\ described \in BOOLEAN
    /\ pending \in [scalars : [Scalars -> Label], seq_from : Label, seq_param : SeqData,
                   pic_param : Label,
                   pps_coded_buf : BufOrNo, coded_from : Label, coded_buf : BufOrNo,
                   packed_kind : Label, packed_headers_typed : SUBSET Pictures]
    /\ held \subseteq Pictures /\ Cardinality(held) <= Capacity
    /\ va_config \in Profiles \cup {"none"}
    /\ config \in EncoderConfig \cup {NoConfig} /\ (config = NoConfig <=> encoder = NoConfig)
    /\ in_force \in [seq : SeqData, profile : Profiles \cup {"none"}]
    /\ buffers \subseteq CodedBufs
    /\ segment \in [CodedBufs -> Label]
    /\ coded_ready \subseteq {b \in buffers : segment[b] # NoPicture}
    /\ mapped \subseteq {b \in buffers : segment[b] # NoPicture}
    /\ ended \in [picture : Label, used : SUBSET Pictures, bytes : Label, into : BufOrNo,
                  reset : BOOLEAN, status : {"none", "error", "bytes", "pending"}]

\* What vaEndPicture acts on was rendered since the vaEndPicture before it:
\* nothing of a picture that was ended, failed or deferred, complete or with a
\* packed header left unpaired, counts for a later one.
UsedByOneEnd == ended.used \subseteq {ended.picture}

\* Whatever the client leaves 0 in its sequence parameters, and however slow
\* its timebase, NVENC is never given a size, a rate or a period of 0.
NonZeroParams ==
    config # NoConfig =>
        LET set == encoder.encodeConfig IN
        /\ encoder.encodeWidth > 0 /\ encoder.encodeHeight > 0
        /\ encoder.frameRateNum > 0 /\ encoder.frameRateDen > 0
        /\ set.rcParams.averageBitRate > 0 /\ set.rcParams.vbvBufferSize > 0
        /\ set.gopLength > 0 /\ set.idrPeriod > 0

\* "On failure we keep the old config": the configuration the next sequence
\* parameters are merged into and compared with is the one NVENC runs with.
ConfigMatchesEncoder == config # NoConfig => encoder = Submitted(config, encoder)

\* "Change-detection on SPS replay": a client that sends the same sequence
\* parameters again and again causes no further NvEncReconfigureEncoder, which
\* would force an IDR and may orphan frames.
ReplayedSpsResetsNothing ==
    [][ended' # ended /\ ended'.reset =>
          in_force # [seq |-> pending.seq_param, profile |-> Profile]]_vars

\* Bytes the session returns reach the client: they are written to a coded
\* buffer the client named for this very picture, not dropped and not put in
\* a buffer of an earlier one, ended or abandoned.
BytesToNamedBuffer ==
    [][ended' # ended /\ ended'.status = "bytes" => ended'.into \in named]_vars

\* The segment pointer a client holds stays valid and its bytes unchanged
\* until vaUnmapBuffer, whatever pictures end in between.
MappedSegmentStable ==
    [][\A b \in mapped \cap mapped' : segment'[b] = segment[b] /\ b \in buffers']_vars

\* "Pending frame: do not hand anything to the client this time around": a
\* buffer that can be read holds the bytes of the last picture ended into it.
MappedIsReady == mapped \subseteq coded_ready
===========================================================================
