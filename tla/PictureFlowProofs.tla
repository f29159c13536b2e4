------------------------- MODULE PictureFlowProofs -------------------------
(***************************************************************************)
(* Proofs about PictureFlow: the properties of run picture_strict for any  *)
(* number of pictures, coded buffers and held frames, any sequence         *)
(* parameters, sizes and preset, and for clients that abandon pictures.    *)
(***************************************************************************)
EXTENDS PictureFlow, FiniteSetTheorems, TLAPS

(* The operators of EncoderParams, for every value a buffer of the client  *)
(* can hold.                                                               *)

\* Euclidean division: the one fact about \div the rest needs.
LEMMA Quotient ==
    ASSUME NEW n \in Nat, NEW d \in Nat, d > 0
    PROVE  /\ n \div d \in Nat
           /\ d * (n \div d) <= n
           /\ n < d * (n \div d) + d
  BY Z3

\* A quotient is at most what was divided.
LEMMA QuotientBound ==
    ASSUME NEW n \in Nat, NEW d \in Nat, d > 0
    PROVE  n \div d <= n
  <1> DEFINE q == n \div d
  <1>1. q \in Nat /\ d * q <= n  BY Quotient
  <1>2. ASSUME NEW x \in Nat, NEW y \in Nat, y > 0 PROVE x <= y * x  BY <1>2
  <1>3. q <= d * q  BY <1>1, <1>2
  <1> QED  BY <1>1, <1>3

\* The frame rate of parse_sps is a number of the width of time_scale, so the
\* `.min(u32::MAX)` behind it never cuts anything off (h264/mod.rs:68-70).
THEOREM FrameRateFits ==
    ASSUME NEW max \in Nat, NEW num_units_in_tick \in 0 .. max, NEW time_scale \in 0 .. max
    PROVE  FrameRate(num_units_in_tick, time_scale) \in 0 .. max
  <1>1. CASE num_units_in_tick > 0 /\ time_scale > 0
    <2> DEFINE d == num_units_in_tick * 2
    <2>1. d \in Nat /\ d > 0 /\ time_scale \in Nat  BY <1>1
    <2>2. time_scale \div d \in Nat /\ time_scale \div d <= time_scale
      BY <2>1, Quotient, QuotientBound
    <2> QED  BY <1>1, <2>2 DEF FrameRate
  <1>2. CASE ~(num_units_in_tick > 0 /\ time_scale > 0)
    BY <1>2 DEF FrameRate
  <1> QED  BY <1>1, <1>2

\* The frame rate is 0, which build_cfg_from_sps reads as "keep the old one",
\* exactly for a timebase that is not set or slower than one frame a second.
THEOREM FrameRateZero ==
    ASSUME NEW num_units_in_tick \in Nat, NEW time_scale \in Nat
    PROVE  FrameRate(num_units_in_tick, time_scale) = 0
             <=> num_units_in_tick = 0 \/ time_scale < num_units_in_tick * 2
  <1>1. CASE num_units_in_tick > 0 /\ time_scale > 0
    <2> DEFINE d == num_units_in_tick * 2
               q == time_scale \div d
    <2>1. d \in Nat /\ d > 0  BY <1>1
    <2>2. q \in Nat /\ d * q <= time_scale /\ time_scale < d * q + d  BY <2>1, Quotient
    <2>3. ASSUME NEW x \in Nat, NEW y \in Nat, y > 0 PROVE x <= y * x  BY <2>3
    <2>4. ASSUME q = 0 PROVE time_scale < d
      BY <2>1, <2>2, <2>4
    <2>5. ASSUME q # 0 PROVE d <= time_scale
      <3>1. q > 0  BY <2>2, <2>5
      <3>2. d <= q * d  BY <3>1, <2>1, <2>2, <2>3
      <3>3. q * d = d * q  BY <2>1, <2>2
      <3>4. d * q \in Nat  BY <2>1, <2>2
      <3> QED  BY <3>2, <3>3, <3>4, <2>1, <2>2
    <2>6. FrameRate(num_units_in_tick, time_scale) = q  BY <1>1 DEF FrameRate
    <2> HIDE DEF q, d
    <2>7. q = 0 <=> time_scale < d  BY <2>1, <2>2, <2>4, <2>5
    <2> QED  BY <1>1, <2>6, <2>7 DEF d
  <1>2. CASE ~(num_units_in_tick > 0 /\ time_scale > 0)
    BY <1>2 DEF FrameRate
  <1> QED  BY <1>1, <1>2

\* What parse_sps returns is a view of the sequence parameters.
LEMMA ParsedIsView ==
    ASSUME NEW sps \in SeqParamBuffer
    PROVE  parse_sps(sps) \in SpsView
  <1> DEFINE n == sps.num_units_in_tick
             t == sps.time_scale
  <1>1. n \in Nat /\ t \in Nat  BY DEF SeqParamBuffer
  <1>2. FrameRate(n, t) \in Nat
    <2>1. CASE n > 0 /\ t > 0
      <3> DEFINE d == n * 2
      <3>1. d \in Nat /\ d > 0  BY <1>1, <2>1
      <3>2. t \div d \in Nat  BY <1>1, <3>1, Quotient
      <3> QED  BY <2>1, <3>2 DEF FrameRate
    <2>2. CASE ~(n > 0 /\ t > 0)  BY <2>2 DEF FrameRate
    <2> QED  BY <2>1, <2>2
  <1>3. /\ sps.picture_width_in_mbs * 16 \in Nat /\ sps.picture_height_in_mbs * 16 \in Nat
        /\ sps.bits_per_second \in Nat /\ sps.intra_idr_period \in Nat
    BY DEF SeqParamBuffer
  <1> HIDE DEF n, t
  <1> QED  BY <1>2, <1>3 DEF parse_sps, SpsView, n, t
---------------------------------------------------------------------------
(* The merge of build_cfg_from_sps.                                        *)

\* A configuration without a number that is 0.
NonZero(cfg) == /\ cfg.width > 0 /\ cfg.height > 0 /\ cfg.fps_num > 0 /\ cfg.fps_den > 0
                /\ cfg.bitrate_bps > 0 /\ cfg.gop_length > 0

\* The merge of two well-formed inputs is a configuration.
LEMMA MergeTyped ==
    ASSUME NEW sps \in SpsView, NEW profile \in Profiles, NEW current \in EncoderConfig
    PROVE  build_cfg_from_sps(sps, profile, current) \in EncoderConfig
  <1> DEFINE resized == sps.width > 0 /\ sps.height > 0
  <1>1. /\ Given(sps.bits_per_second, current.bitrate_bps) \in Nat
        /\ Given(sps.fps, current.fps_num) \in Nat
        /\ (IF sps.fps > 0 THEN 1 ELSE current.fps_den) \in Nat
        /\ Given(sps.idr_period, current.gop_length) \in Nat
        /\ (IF resized THEN sps.width ELSE current.width) \in Nat
        /\ (IF resized THEN sps.height ELSE current.height) \in Nat
    BY DEF SpsView, EncoderConfig, Given
  <1>2. current.rc_mode \in {"Cbr", "CbrLookahead", "ConstQp", "Vbr"}  BY DEF EncoderConfig
  <1> QED  BY <1>1, <1>2 DEF EncoderConfig, build_cfg_from_sps

\* Whatever is 0 in the sequence parameters, the merge keeps the session free
\* of zeros.
THEOREM MergeKeepsNonZero ==
    ASSUME NEW sps \in SpsView, NEW profile \in Profiles, NEW current \in EncoderConfig,
           NonZero(current)
    PROVE  NonZero(build_cfg_from_sps(sps, profile, current))
  BY DEF SpsView, EncoderConfig, NonZero, build_cfg_from_sps, Given

\* Merging the same sequence parameters once more changes nothing: the
\* comparison in end_picture recognises a replayed SPS, whatever it leaves out.
THEOREM MergeIdempotent ==
    ASSUME NEW sps \in SpsView, NEW profile \in Profiles, NEW current \in EncoderConfig
    PROVE  LET merged == build_cfg_from_sps(sps, profile, current)
           IN  build_cfg_from_sps(sps, profile, merged) = merged
  <1> DEFINE merged == build_cfg_from_sps(sps, profile, current)
             again  == build_cfg_from_sps(sps, profile, merged)
  <1>1. /\ again.profile = merged.profile /\ again.rc_mode = merged.rc_mode
        /\ again.bitrate_bps = merged.bitrate_bps /\ again.gop_length = merged.gop_length
        /\ again.fps_num = merged.fps_num /\ again.fps_den = merged.fps_den
        /\ again.width = merged.width /\ again.height = merged.height
    BY DEF build_cfg_from_sps, Given
  <1>2. merged \in EncoderConfig  BY MergeTyped
  <1>3. again \in EncoderConfig  BY <1>2, MergeTyped
  <1> HIDE DEF merged, again
  <1>4. again = merged  BY <1>1, <1>2, <1>3 DEF EncoderConfig
  <1> QED  BY <1>4 DEF merged, again
---------------------------------------------------------------------------
\* A context starts without zeros once vaCreateContext has a size for it.
LEMMA DefaultNonZero ==
    ASSUME NEW width \in Nat, NEW height \in Nat, NEW profile \in Profiles,
           width # 0, height # 0
    PROVE  /\ default_for(width, height, profile) \in EncoderConfig
           /\ NonZero(default_for(width, height, profile))
  BY SMT DEF default_for, EncoderConfig, NonZero, Profiles

\* A session's preset and tuning are chosen from the configuration it starts
\* with, and that is the same 5 Mbps at 60 frames a second for every size and
\* profile: the rows of the table in preset.rs for other rates are not reached.
THEOREM OneChoice ==
    ASSUME NEW width \in Nat, NEW height \in Nat, NEW profile \in Profiles
    PROVE  map_preset_choice(default_for(width, height, profile))
             = [preset |-> "P4", tuning |-> "LowLatency"]
  <1> DEFINE cfg   == default_for(width, height, profile)
             start == 5000000
             row   == Choice("P4", "LowLatency", "Cbr", TRUE)
  <1>1. /\ cfg.fps_num = 60 /\ cfg.fps_den = 1 /\ cfg.bitrate_bps = start
        /\ cfg.rc_mode # "ConstQp"
    BY SMT DEF default_for
  <1>2. choose(start, 60, FALSE) = row  BY SMT DEF choose
  <1> HIDE DEF cfg, start, row
  <1>3. choose(cfg.bitrate_bps, cfg.fps_num \div cfg.fps_den, cfg.rc_mode = "ConstQp") = row
    <2>1. 60 \div 1 = 60  OBVIOUS
    <2>2. (cfg.rc_mode = "ConstQp") = FALSE  BY <1>1
    <2>3. cfg.fps_num \div cfg.fps_den = 60  BY <1>1, <2>1
    <2> QED  BY <1>1, <1>2, <2>2, <2>3, Zenon
  <1>4. map_preset_choice(cfg) = [preset |-> row.preset, tuning |-> row.tuning]
    <2>1. cfg.fps_den > 0  BY <1>1
    <2> QED  BY <1>3, <2>1, Zenon DEF map_preset_choice
  <1>5. row.preset = "P4" /\ row.tuning = "LowLatency"  BY DEF row, Choice
  <1> QED  BY <1>4, <1>5, Zenon DEF cfg
---------------------------------------------------------------------------

(* What a step does to the session's configuration.                        *)

Keeps       == UNCHANGED <<va_config, config, encoder, in_force>> /\ ended'.reset = FALSE
Applies     == /\ config # NoConfig /\ ApplySeqParam /\ UNCHANGED va_config
               /\ ended'.reset = Resets
Forgets     == UNCHANGED <<config, encoder, in_force>> /\ va_config' = "none"
               /\ ended'.reset = FALSE

\* Only a vaEndPicture with a session touches the configuration.
LEMMA ConfigSteps ==
    ASSUME Next
    PROVE  Keeps \/ Applies \/ Forgets
  <1> DEFINE Quiet == UNCHANGED <<va_config, config, encoder, in_force>> /\ ended' = NotEnded
  <1>1. ASSUME NEW f, Render(f) PROVE Quiet
    BY <1>1 DEF Render, session
  <1>2. ASSUME NEW p \in Pictures, BeginPicture(p) PROVE Quiet
    BY <1>2 DEF BeginPicture, session
  <1>3. ASSUME \/ \E param \in Scalars : RenderScalar(param)
               \/ \E data \in SeqData \ {NoSeq} : RenderSeqParam(data)
               \/ \E b \in BufOrNo : RenderPicParam(b)
               \/ \E b \in CodedBufs : RenderCodedBuf(b)
               \/ RenderPackedParam \/ RenderPackedData
        PROVE  Quiet
    BY <1>1, <1>3, Zenon DEF RenderScalar, RenderSeqParam, RenderPicParam, RenderCodedBuf,
                             RenderPackedParam, RenderPackedData
  <1>4. ASSUME NEW b \in CodedBufs,
               CreateBuffer(b) \/ DestroyBuffer(b) \/ MapBuffer(b) \/ UnmapBuffer(b)
        PROVE  Quiet
    BY <1>4 DEF CreateBuffer, DestroyBuffer, MapBuffer, UnmapBuffer, session
  <1>5. CASE DestroyConfig
    BY <1>5 DEF DestroyConfig, Forgets, session, NotEnded
  <1>6. CASE EndPictureNoSession
    BY <1>6 DEF EndPictureNoSession, Ended, Keeps, session
  <1>7. ASSUME NEW kept \in SUBSET held,
               \/ EndPictureFails(kept) \/ EndPicturePending(kept)
               \/ \E g \in Pictures : EndPictureBytes(kept, g)
        PROVE  Applies
    BY <1>7 DEF EndPictureFails, EndPicturePending, EndPictureBytes, Encode, Ended, Applies
  <1>8. Quiet => Keeps
    BY DEF Keeps, NotEnded
  <1> HIDE DEF Quiet
  <1> QED  BY <1>2, <1>3, <1>4, <1>5, <1>6, <1>7, <1>8 DEF Next, EndPicture

\* The one step to look at: what reconfigure leaves, and what Resets says.
LEMMA AppliedParams ==
    ASSUME ApplySeqParam
    PROVE  \/ UNCHANGED <<config, encoder, in_force>>
           \/ /\ config' = Wanted
              /\ encoder' = encoder \/ encoder' = Submitted(Wanted, encoder)
              /\ Wanted # config => encoder' = Submitted(Wanted, encoder)
              /\ Wanted = config => UNCHANGED encoder
              /\ in_force' = IF Parsed THEN [seq |-> pending.seq_param, profile |-> Profile]
                                       ELSE in_force
  <1>1. PICK ok \in BOOLEAN :
          /\ IF Resets THEN Reconfigure(ok) ELSE UNCHANGED <<config, encoder>>
          /\ in_force' = IF Parsed /\ (ok \/ ~Resets)
                           THEN [seq |-> pending.seq_param, profile |-> Profile] ELSE in_force
    BY DEF ApplySeqParam
  <1>2. CASE ~Resets
    BY <1>1, <1>2 DEF Resets
  <1>3. CASE Resets /\ ok
    BY <1>1, <1>3 DEF Resets, Reconfigure
  <1>4. CASE Resets /\ ~ok
    BY <1>1, <1>4 DEF Resets, Reconfigure
  <1> QED  BY <1>2, <1>3, <1>4
---------------------------------------------------------------------------
(* The configuration a session runs with.                                  *)

Configured == /\ config \in EncoderConfig /\ NonZero(config) /\ config.rc_mode = "Cbr"
              /\ encoder = Submitted(config, encoder)

ConfigInv ==
    /\ va_config \in Profiles \cup {"none"}
    /\ \/ config = NoConfig /\ encoder = NoConfig
       \/ config # NoConfig /\ Configured
    /\ in_force \in [seq : SeqParams \cup {NoSeq}, profile : Profiles \cup {"none"}]

\* A configuration is not the absence of one.
LEMMA NoConfigIsNone ==
    ASSUME NEW cfg \in EncoderConfig
    PROVE  cfg # NoConfig
  BY DEF EncoderConfig, NoConfig, Profiles

\* The fields of what NVENC is asked for, none of which depends on what it was
\* asked for before but preset and tuning.
LEMMA SubmittedTwice ==
    ASSUME NEW cfg, NEW choice
    PROVE  Submitted(cfg, Submitted(cfg, choice)) = Submitted(cfg, choice)
  BY DEF Submitted, init_params

\* What sequence parameters ask for is again a configuration without zeros.
LEMMA WantedConfig ==
    ASSUME ConfigInv, config # NoConfig
    PROVE  /\ Wanted \in EncoderConfig /\ NonZero(Wanted) /\ Wanted.rc_mode = "Cbr"
           /\ Profile \in Profiles
  <1>1. config \in EncoderConfig /\ NonZero(config) /\ config.rc_mode = "Cbr"
    BY DEF ConfigInv, Configured
  <1>2. Profile \in Profiles  BY DEF ConfigInv, Profile, Profiles
  <1>3. CASE Parsed
    <2> DEFINE view == parse_sps(pending.seq_param)
    <2>1. view \in SpsView  BY <1>3, ParsedIsView, ParamsAssumption DEF Parsed
    <2>2. Wanted = build_cfg_from_sps(view, Profile, config)  BY <1>3 DEF Wanted
    <2> HIDE DEF view
    <2>3. Wanted \in EncoderConfig  BY <1>1, <1>2, <2>1, <2>2, MergeTyped
    <2>4. NonZero(Wanted)  BY <1>1, <1>2, <2>1, <2>2, MergeKeepsNonZero
    <2>5. Wanted.rc_mode = "Cbr"  BY <1>1, <2>2 DEF build_cfg_from_sps
    <2> QED  BY <1>2, <2>3, <2>4, <2>5
  <1>4. CASE ~Parsed
    BY <1>1, <1>2, <1>4 DEF Wanted
  <1> QED  BY <1>3, <1>4

\* A context starts with the encoder created from its configuration.
LEMMA ConfigInit == Init => ConfigInv
  <1> SUFFICES ASSUME Init PROVE ConfigInv  OBVIOUS
  <1>1. InitContext  BY DEF Init
  <1>2. va_config \in Profiles  BY <1>1, ParamsAssumption DEF InitContext
  <1>3. in_force = NotSent  BY <1>1 DEF InitContext
  <1>4. CASE config = NoConfig /\ encoder = NoConfig
    BY <1>2, <1>3, <1>4 DEF ConfigInv, NotSent
  <1>5. ASSUME NEW asked \in Dims \X Dims, NEW target \in Dims \X Dims,
               LET width  == PictureSize(asked[1], target[1])
                   height == PictureSize(asked[2], target[2])
               IN /\ width # 0 /\ height # 0
                  /\ config = default_for(width, height, va_config)
                  /\ encoder = Submitted(config, map_preset_choice(config))
        PROVE  ConfigInv
    <2> DEFINE width  == PictureSize(asked[1], target[1])
               height == PictureSize(asked[2], target[2])
               cfg    == default_for(width, height, va_config)
    <2>1. /\ width \in Nat /\ height \in Nat /\ width # 0 /\ height # 0
          /\ config = cfg
          /\ encoder = Submitted(config, map_preset_choice(config))
      BY <1>5, ParamsAssumption DEF PictureSize
    <2>2. cfg \in EncoderConfig /\ NonZero(cfg)
      BY <1>2, <2>1, DefaultNonZero, Zenon
    <2>3. cfg.rc_mode = "Cbr"  BY SMT DEF default_for
    <2> HIDE DEF cfg
    <2>4. encoder = Submitted(config, encoder)
      BY <2>1, SubmittedTwice
    <2>5. config # NoConfig  BY <2>1, <2>2, NoConfigIsNone
    <2> QED  BY <1>2, <1>3, <2>1, <2>2, <2>3, <2>4, <2>5 DEF ConfigInv, Configured, NotSent
  <1> QED  BY <1>1, <1>4, <1>5 DEF InitContext

\* Every step keeps ConfigInv, an accepted and a refused reconfigure included.
LEMMA ConfigStep == ConfigInv /\ [Next]_vars => ConfigInv'
  <1> SUFFICES ASSUME ConfigInv, [Next]_vars PROVE ConfigInv'  OBVIOUS
  <1> USE DEF ConfigInv
  <1>1. CASE UNCHANGED vars  BY <1>1 DEF vars, Configured
  <1>2. CASE Keeps    BY <1>2 DEF Keeps, Configured
  <1>3. CASE Forgets  BY <1>3 DEF Forgets, Configured
  <1>4. CASE Applies
    <2>1. config # NoConfig /\ ApplySeqParam /\ UNCHANGED va_config  BY <1>4 DEF Applies
    <2>2. CASE UNCHANGED <<config, encoder, in_force>>
      BY <2>1, <2>2 DEF Configured
    <2>3. CASE ~UNCHANGED <<config, encoder, in_force>>
      <3>1. /\ config' = Wanted
            /\ Wanted # config => encoder' = Submitted(Wanted, encoder)
            /\ Wanted = config => UNCHANGED encoder
            /\ in_force' = IF Parsed THEN [seq |-> pending.seq_param, profile |-> Profile]
                                     ELSE in_force
        BY <2>1, <2>3, AppliedParams
      <3>2. /\ Wanted \in EncoderConfig /\ NonZero(Wanted) /\ Wanted.rc_mode = "Cbr"
            /\ Profile \in Profiles
        BY <2>1, WantedConfig
      <3>3. encoder' = Submitted(config', encoder')
        BY <2>1, <3>1, SubmittedTwice DEF Configured
      <3>4. config' # NoConfig  BY <3>1, <3>2, NoConfigIsNone
      <3>5. in_force' \in [seq : SeqParams \cup {NoSeq}, profile : Profiles \cup {"none"}]
        BY <3>1, <3>2 DEF Parsed
      <3> QED  BY <2>1, <3>1, <3>2, <3>3, <3>4, <3>5 DEF Configured
    <2> QED  BY <2>2, <2>3
  <1> QED  BY <1>1, <1>2, <1>3, <1>4, ConfigSteps

\* After any sequence of pictures the encoder has what the driver believes it
\* has, and nothing of it is 0 (picture.rs 235-252, session.rs 596-661).
THEOREM ConfigCorrect == Spec => []ConfigInv
  BY ConfigInit, ConfigStep, PTL DEF Spec

\* "On failure we keep the old config": what the next sequence parameters are
\* compared with is what NVENC runs with, for all of them.
THEOREM ConfigIsEncoders == Spec => []ConfigMatchesEncoder
  <1>1. ConfigInv => ConfigMatchesEncoder
    BY DEF ConfigInv, Configured, ConfigMatchesEncoder
  <1> QED  BY <1>1, ConfigCorrect, PTL
---------------------------------------------------------------------------
(* No zeros reach NVENC.                                                   *)

\* The rate NVENC is told, for the only rate control a session uses.
LEMMA RcFields ==
    ASSUME NEW cfg \in EncoderConfig, NonZero(cfg), cfg.rc_mode = "Cbr"
    PROVE  /\ rcParams(Preset, cfg).averageBitRate = cfg.bitrate_bps
           /\ rcParams(Preset, cfg).vbvBufferSize = cfg.bitrate_bps
  <1> DEFINE rc == [Preset EXCEPT !.rateControlMode = "CBR", !.averageBitRate = cfg.bitrate_bps,
                          !.maxBitRate = cfg.bitrate_bps, !.vbvBufferSize = cfg.bitrate_bps,
                          !.vbvInitialDelay = cfg.bitrate_bps \div 2]
  <1>1. rcParams(Preset, cfg) = rc  BY SMT DEF rcParams
  <1>2. rc.averageBitRate = cfg.bitrate_bps /\ rc.vbvBufferSize = cfg.bitrate_bps
    BY ParamsAssumption, SMT
  <1> QED  BY <1>1, <1>2

\* Whatever the client's sequence parameters leave 0, and whatever their
\* timebase, no size, rate or period NVENC is configured with is 0.
THEOREM ParamsNonZero == Spec => []NonZeroParams
  <1>1. ConfigInv => NonZeroParams
    <2> SUFFICES ASSUME ConfigInv, config # NoConfig
                 PROVE  LET set == encoder.encodeConfig IN
                        /\ encoder.encodeWidth > 0 /\ encoder.encodeHeight > 0
                        /\ encoder.frameRateNum > 0 /\ encoder.frameRateDen > 0
                        /\ set.rcParams.averageBitRate > 0 /\ set.rcParams.vbvBufferSize > 0
                        /\ set.gopLength > 0 /\ set.idrPeriod > 0
      BY DEF NonZeroParams
    <2>1. /\ config \in EncoderConfig /\ NonZero(config) /\ config.rc_mode = "Cbr"
          /\ encoder = Submitted(config, encoder)
      BY DEF ConfigInv, Configured
    <2> DEFINE set == apply_config(Preset, config)
    <2>2. /\ encoder.encodeWidth = config.width /\ encoder.encodeHeight = config.height
          /\ encoder.frameRateNum = config.fps_num /\ encoder.frameRateDen = config.fps_den
          /\ encoder.encodeConfig = set
      <3> HIDE DEF set
      <3>1. encoder = init_params(config, encoder, set)  BY <2>1 DEF Submitted, set
      <3> QED  BY <3>1 DEF init_params
    <2>3. /\ set.rcParams = rcParams(Preset, config)
          /\ set.gopLength = config.gop_length /\ set.idrPeriod = config.gop_length
      BY DEF apply_config
    <2> HIDE DEF set
    <2> QED  BY <2>1, <2>2, <2>3, RcFields DEF NonZero
  <1> QED  BY <1>1, ConfigCorrect, PTL
---------------------------------------------------------------------------
(* A replayed SPS.                                                         *)

\* What is in force is in the configuration: merging it again adds nothing.
ReplayInv ==
    in_force.seq \in SeqParams =>
        /\ config # NoConfig
        /\ build_cfg_from_sps(parse_sps(in_force.seq), in_force.profile, config) = config

\* Every step keeps ReplayInv.
LEMMA ReplayStep == ConfigInv /\ ReplayInv /\ [Next]_vars => ReplayInv'
  <1> SUFFICES ASSUME ConfigInv, ReplayInv, [Next]_vars PROVE ReplayInv'  OBVIOUS
  <1>1. CASE UNCHANGED vars  BY <1>1 DEF vars, ReplayInv
  <1>2. CASE Keeps    BY <1>2 DEF Keeps, ReplayInv
  <1>3. CASE Forgets  BY <1>3 DEF Forgets, ReplayInv
  <1>4. CASE Applies
    <2>1. config # NoConfig /\ ApplySeqParam  BY <1>4 DEF Applies
    <2>2. CASE UNCHANGED <<config, encoder, in_force>>
      BY <2>2 DEF ReplayInv
    <2>3. CASE ~UNCHANGED <<config, encoder, in_force>>
      <3>1. /\ config' = Wanted
            /\ in_force' = IF Parsed THEN [seq |-> pending.seq_param, profile |-> Profile]
                                     ELSE in_force
        BY <2>1, <2>3, AppliedParams
      <3>2. Wanted \in EncoderConfig /\ Profile \in Profiles /\ config \in EncoderConfig
        BY <2>1, WantedConfig DEF ConfigInv, Configured
      <3>3. CASE Parsed
        <4> DEFINE view == parse_sps(pending.seq_param)
        <4>1. view \in SpsView  BY <3>3, ParsedIsView, ParamsAssumption DEF Parsed
        <4>2. Wanted = build_cfg_from_sps(view, Profile, config)  BY <3>3 DEF Wanted
        <4>3. in_force'.seq = pending.seq_param /\ in_force'.profile = Profile
          BY <3>1, <3>3
        <4> HIDE DEF view
        <4>4. build_cfg_from_sps(view, Profile, Wanted) = Wanted
          BY <3>2, <4>1, <4>2, MergeIdempotent
        <4>5. config' # NoConfig  BY <3>1, <3>2, NoConfigIsNone
        <4> QED  BY <3>1, <4>3, <4>4, <4>5 DEF ReplayInv, view
      <3>4. CASE ~Parsed
        BY <3>1, <3>4 DEF ReplayInv, Wanted
      <3> QED  BY <3>3, <3>4
    <2> QED  BY <2>2, <2>3
  <1> QED  BY <1>1, <1>2, <1>3, <1>4, ConfigSteps

\* "Change-detection on SPS replay": sequence parameters that are in force are
\* never a reason to reconfigure, however many pictures, failed reconfigures or
\* other parameters lay in between.
THEOREM ReplayResetsNothing == Spec => ReplayedSpsResetsNothing
  <1>1. Init => ReplayInv
    BY NullAssumption DEF Init, InitContext, NotSent, ReplayInv
  <1>2. ConfigInv /\ ReplayInv /\ [Next]_vars =>
          [ended' # ended /\ ended'.reset =>
             in_force # [seq |-> pending.seq_param, profile |-> Profile]]_vars
    <2> SUFFICES ASSUME ConfigInv, ReplayInv, Next, ended'.reset,
                        in_force = [seq |-> pending.seq_param, profile |-> Profile]
                 PROVE  FALSE
      OBVIOUS
    <2>1. Applies  BY ConfigSteps DEF Keeps, Forgets
    <2>2. Wanted # config  BY <2>1 DEF Applies, Resets
    <2>3. Parsed  BY <2>2 DEF Wanted
    <2>4. Wanted = build_cfg_from_sps(parse_sps(pending.seq_param), Profile, config)
      BY <2>3 DEF Wanted
    <2>5. in_force.seq = pending.seq_param /\ in_force.profile = Profile  OBVIOUS
    <2> QED  BY <2>2, <2>3, <2>4, <2>5 DEF ReplayInv, Parsed
  <1> QED  BY <1>1, <1>2, ConfigCorrect, ReplayStep, PTL DEF Spec, ReplayedSpsResetsNothing
---------------------------------------------------------------------------
(* The kinds of step, and what ending a picture does to everything but the *)
(* session.                                                                *)

RenderStep == \/ \E param \in Scalars : RenderScalar(param)
              \/ \E data \in SeqData \ {NoSeq} : RenderSeqParam(data)
              \/ \E b \in BufOrNo : RenderPicParam(b)
              \/ \E b \in CodedBufs : RenderCodedBuf(b)
              \/ RenderPackedParam \/ RenderPackedData
BufferStep == \E b \in CodedBufs : \/ CreateBuffer(b) \/ DestroyBuffer(b)
                                   \/ MapBuffer(b) \/ UnmapBuffer(b)

\* The kinds of steps.
LEMMA StepKinds ==
    ASSUME Next
    PROVE  \/ \E p \in Pictures : BeginPicture(p)
           \/ RenderStep \/ BufferStep \/ EndPicture \/ DestroyConfig
  BY Zenon DEF Next, RenderStep, BufferStep

\* What every way to end a picture has in common.
LEMMA EndPictureEffect ==
    ASSUME EndPicture
    PROVE  /\ MayEnd
           /\ pending' = Empty /\ building' = NoPicture /\ named' = {} /\ described' = FALSE
           /\ ended'.picture = building /\ ended'.used = Labels(pending)
           /\ ended'.status = "bytes" =>
                ended'.into = IF ResolvedBuf \in buffers THEN ResolvedBuf ELSE NoBuf
           /\ UNCHANGED <<buffers, mapped>>
           /\ \/ UNCHANGED segment
              \/ ResolvedBuf \in buffers /\ \E g : segment' = [segment EXCEPT ![ResolvedBuf] = g]
  <1> DEFINE Into == IF ResolvedBuf \in buffers THEN ResolvedBuf ELSE NoBuf
  <1>1. ASSUME NEW status, NEW reset, NEW bytes, NEW into,
               MayEnd, Ended(status, reset, bytes, into), status = "bytes" => into = Into
        PROVE  /\ MayEnd
               /\ pending' = Empty /\ building' = NoPicture /\ named' = {} /\ described' = FALSE
               /\ ended'.picture = building /\ ended'.used = Labels(pending)
               /\ ended'.status = "bytes" => ended'.into = Into
    BY <1>1 DEF Ended, Taken
  <1>2. CASE EndPictureNoSession
    BY <1>1, <1>2 DEF EndPictureNoSession, coded
  <1>3. ASSUME NEW kept, EndPictureFails(kept)
        PROVE  UNCHANGED coded /\ MayEnd /\ Ended("error", Resets, NoPicture, NoBuf)
    BY <1>3 DEF EndPictureFails, Encode
  <1>4. ASSUME NEW kept, EndPicturePending(kept)
        PROVE  /\ UNCHANGED <<buffers, segment, mapped>> /\ MayEnd
               /\ Ended("pending", Resets, NoPicture, Into)
    BY <1>4 DEF EndPicturePending, Encode
  <1>5. ASSUME NEW kept, NEW g, EndPictureBytes(kept, g)
        PROVE  /\ UNCHANGED <<buffers, mapped>> /\ MayEnd
               /\ Ended("bytes", Resets, g, Into)
               /\ segment' = IF ResolvedBuf \in buffers
                               THEN [segment EXCEPT ![ResolvedBuf] = g] ELSE segment
    BY <1>5 DEF EndPictureBytes, Encode
  <1> HIDE DEF Into
  <1>6. CASE \E kept \in SUBSET held : EndPictureFails(kept)
    BY <1>1, <1>3, <1>6 DEF coded, Into
  <1>7. CASE \E kept \in SUBSET held : EndPicturePending(kept)
    BY <1>1, <1>4, <1>7 DEF Into
  <1>8. CASE \E kept \in SUBSET held : \E g \in Pictures : EndPictureBytes(kept, g)
    <2>1. PICK kept \in SUBSET held, g \in Pictures : EndPictureBytes(kept, g)  BY <1>8
    <2>2. /\ UNCHANGED <<buffers, mapped>> /\ MayEnd
          /\ Ended("bytes", Resets, g, Into)
          /\ segment' = IF ResolvedBuf \in buffers
                          THEN [segment EXCEPT ![ResolvedBuf] = g] ELSE segment
      BY <2>1, <1>5
    <2> QED  BY <2>2, <1>1 DEF Into
  <1> QED  BY <1>2, <1>6, <1>7, <1>8 DEF EndPicture
---------------------------------------------------------------------------
(* Types.                                                                  *)

FrameType == [scalars : [Scalars -> Label], seq_from : Label, seq_param : SeqData,
              pic_param : Label, pps_coded_buf : BufOrNo, coded_from : Label,
              coded_buf : BufOrNo, packed_kind : Label,
              packed_headers_typed : SUBSET Pictures]
EndedType == [picture : Label, used : SUBSET Pictures, bytes : Label, into : BufOrNo,
              reset : BOOLEAN, status : {"none", "error", "bytes", "pending"}]

TypeInv ==
    /\ building \in Label /\ named \subseteq CodedBufs /\ described \in BOOLEAN
    /\ pending \in FrameType
    /\ held \subseteq Pictures /\ IsFiniteSet(held) /\ Cardinality(held) <= Capacity
    /\ buffers \subseteq CodedBufs
    /\ segment \in [CodedBufs -> Label]
    /\ coded_ready \subseteq {b \in buffers : segment[b] # NoPicture}
    /\ mapped \subseteq {b \in buffers : segment[b] # NoPicture}
    /\ ended \in EndedType

\* The initial values have their types.
LEMMA EmptyTyped == Empty \in FrameType /\ NotEnded \in EndedType
  BY DEF Empty, FrameType, NotEnded, EndedType, Label, SeqData, BufOrNo

\* What is rendered for a picture is labelled with a picture.
LEMMA LabelsTyped ==
    ASSUME NEW frame \in FrameType
    PROVE  Labels(frame) \subseteq Pictures
  BY DEF FrameType, Labels, Label

\* A frame with one parameter replaced is a frame.
LEMMA FrameUpdate ==
    /\ \A f \in FrameType, l \in Label : [f EXCEPT !.packed_kind = l] \in FrameType
    /\ \A f \in FrameType, l \in Label, data \in SeqData :
          [f EXCEPT !.seq_from = l, !.seq_param = data] \in FrameType
    /\ \A f \in FrameType, l \in Label, b \in BufOrNo :
          [f EXCEPT !.pic_param = l, !.pps_coded_buf = b] \in FrameType
    /\ \A f \in FrameType, l \in Label, b \in BufOrNo :
          [f EXCEPT !.coded_from = l, !.coded_buf = b] \in FrameType
    /\ \A f \in FrameType, l \in Label, headers \in SUBSET Pictures :
          [f EXCEPT !.packed_kind = l, !.packed_headers_typed = headers] \in FrameType
  <1>1. ASSUME NEW f \in FrameType, NEW l \in Label, NEW b \in BufOrNo, NEW data \in SeqData,
               NEW headers \in SUBSET Pictures
        PROVE  /\ [f EXCEPT !.seq_from = l] \in FrameType
               /\ [f EXCEPT !.seq_param = data] \in FrameType
               /\ [f EXCEPT !.pic_param = l] \in FrameType
               /\ [f EXCEPT !.pps_coded_buf = b] \in FrameType
               /\ [f EXCEPT !.coded_from = l] \in FrameType
               /\ [f EXCEPT !.coded_buf = b] \in FrameType
               /\ [f EXCEPT !.packed_kind = l] \in FrameType
               /\ [f EXCEPT !.packed_headers_typed = headers] \in FrameType
    BY DEF FrameType
  <1>2. NoSeq \in SeqData /\ NoBuf \in BufOrNo /\ {} \in SUBSET Pictures
    BY DEF SeqData, BufOrNo
  <1>3. ASSUME NEW f \in FrameType, NEW l \in Label, NEW data \in SeqData
        PROVE  [f EXCEPT !.seq_from = l, !.seq_param = data] \in FrameType
    <2> DEFINE g == [f EXCEPT !.seq_from = l]
    <2>1. g \in FrameType  BY <1>1, <1>2
    <2> HIDE DEF g
    <2>2. [g EXCEPT !.seq_param = data] \in FrameType  BY <1>1, <1>2, <2>1
    <2> QED  BY <2>2 DEF g
  <1>4. ASSUME NEW f \in FrameType, NEW l \in Label, NEW b \in BufOrNo
        PROVE  [f EXCEPT !.pic_param = l, !.pps_coded_buf = b] \in FrameType
    <2> DEFINE g == [f EXCEPT !.pic_param = l]
    <2>1. g \in FrameType  BY <1>1, <1>2
    <2> HIDE DEF g
    <2>2. [g EXCEPT !.pps_coded_buf = b] \in FrameType  BY <1>1, <1>2, <2>1
    <2> QED  BY <2>2 DEF g
  <1>5. ASSUME NEW f \in FrameType, NEW l \in Label, NEW b \in BufOrNo
        PROVE  [f EXCEPT !.coded_from = l, !.coded_buf = b] \in FrameType
    <2> DEFINE g == [f EXCEPT !.coded_from = l]
    <2>1. g \in FrameType  BY <1>1, <1>2
    <2> HIDE DEF g
    <2>2. [g EXCEPT !.coded_buf = b] \in FrameType  BY <1>1, <1>2, <2>1
    <2> QED  BY <2>2 DEF g
  <1>6. ASSUME NEW f \in FrameType, NEW l \in Label, NEW headers \in SUBSET Pictures
        PROVE  [f EXCEPT !.packed_kind = l, !.packed_headers_typed = headers] \in FrameType
    <2> DEFINE g == [f EXCEPT !.packed_kind = l]
    <2>1. g \in FrameType  BY <1>1, <1>2
    <2> HIDE DEF g
    <2>2. [g EXCEPT !.packed_headers_typed = headers] \in FrameType  BY <1>1, <1>2, <2>1
    <2> QED  BY <2>2 DEF g
  <1> QED  BY <1>1, <1>2, <1>3, <1>4, <1>5, <1>6

\* The initial state is well typed.
LEMMA TypeInit == Init => TypeInv
  <1>1. IsFiniteSet({}) /\ Cardinality({}) = 0  BY FS_EmptySet
  <1>2. Init => described \in BOOLEAN  BY Zenon DEF Init
  <1> QED  BY <1>1, <1>2, EmptyTyped, CapacityAssumption DEF Init, TypeInv, Label

\* Rendering keeps the types of the accumulator.
LEMMA RenderTyped ==
    ASSUME TypeInv, RenderStep
    PROVE  /\ pending' \in FrameType /\ named' \subseteq CodedBufs /\ described' \in BOOLEAN
           /\ ended' = NotEnded /\ UNCHANGED <<building, session, coded>>
           /\ building \in Pictures
  <1>1. /\ pending \in FrameType /\ building \in Label /\ named \subseteq CodedBufs
        /\ buffers \subseteq CodedBufs /\ described \in BOOLEAN
    BY DEF TypeInv
  <1>2. ASSUME NEW f, Render(f)
        PROVE  /\ pending' = f /\ building # NoPicture
               /\ ended' = NotEnded /\ UNCHANGED <<building, session, coded>>
    BY <1>2 DEF Render
  <1>3. ASSUME NEW param \in Scalars, RenderScalar(param)
        PROVE  pending' \in FrameType /\ named' \subseteq CodedBufs /\ described' \in BOOLEAN
    BY <1>1, <1>2, <1>3 DEF RenderScalar, client, FrameType
  <1>4. ASSUME NEW data \in SeqData \ {NoSeq}, RenderSeqParam(data)
        PROVE  pending' \in FrameType /\ named' \subseteq CodedBufs /\ described' \in BOOLEAN
    <2> DEFINE f == [pending EXCEPT !.seq_from = building, !.seq_param = data]
    <2>1. f \in FrameType  BY <1>1, FrameUpdate, Zenon
    <2>2. Render(f) /\ UNCHANGED <<named, described>>  BY <1>4, Zenon DEF RenderSeqParam, client
    <2> HIDE DEF f
    <2> QED  BY <1>1, <1>2, <2>1, <2>2
  <1>5. ASSUME NEW b \in BufOrNo, RenderPicParam(b)
        PROVE  pending' \in FrameType /\ named' \subseteq CodedBufs /\ described' \in BOOLEAN
    <2> DEFINE f == [pending EXCEPT !.pic_param = building, !.pps_coded_buf = b]
    <2>1. f \in FrameType  BY <1>1, FrameUpdate, Zenon
    <2>2. Render(f) /\ named' = named \cup ({b} \ {NoBuf}) /\ described' = TRUE
      BY <1>5, Zenon DEF RenderPicParam
    <2> HIDE DEF f
    <2> QED  BY <1>1, <1>2, <2>1, <2>2 DEF BufOrNo
  <1>6. ASSUME NEW b \in CodedBufs, RenderCodedBuf(b)
        PROVE  pending' \in FrameType /\ named' \subseteq CodedBufs /\ described' \in BOOLEAN
    <2> DEFINE f == [pending EXCEPT !.coded_from = building, !.coded_buf = b]
    <2>1. b \in BufOrNo  BY DEF BufOrNo
    <2>2. f \in FrameType  BY <1>1, <2>1, FrameUpdate, Zenon
    <2>3. Render(f) /\ named' = named \cup {b} /\ UNCHANGED described
      BY <1>6, Zenon DEF RenderCodedBuf
    <2> HIDE DEF f
    <2> QED  BY <1>1, <1>2, <2>2, <2>3
  <1>7. ASSUME RenderPackedParam
        PROVE  pending' \in FrameType /\ named' \subseteq CodedBufs /\ described' \in BOOLEAN
    <2> DEFINE f(l) == [pending EXCEPT !.packed_kind = l]
    <2>1. NoPicture \in Label  BY DEF Label
    <2>2. f(building) \in FrameType /\ f(NoPicture) \in FrameType
      BY <1>1, <2>1, FrameUpdate, Zenon
    <2>3. (Render(f(building)) \/ Render(f(NoPicture))) /\ UNCHANGED <<named, described>>
      BY <1>7, Zenon DEF RenderPackedParam, client
    <2> HIDE DEF f
    <2> QED  BY <1>1, <1>2, <2>2, <2>3
  <1>8. ASSUME RenderPackedData
        PROVE  pending' \in FrameType /\ named' \subseteq CodedBufs /\ described' \in BOOLEAN
    <2>1. pending.packed_kind \in Label /\ pending.packed_headers_typed \in SUBSET Pictures
      BY <1>1 DEF FrameType
    <2>2. CASE pending.packed_kind = NoPicture
      BY <1>1, <1>2, <1>8, <2>2 DEF RenderPackedData, client
    <2>3. CASE pending.packed_kind # NoPicture
      <3> DEFINE headers == pending.packed_headers_typed \cup {pending.packed_kind}
                 f == [pending EXCEPT !.packed_kind = NoPicture,
                                      !.packed_headers_typed = headers]
      <3>1. headers \in SUBSET Pictures  BY <2>1, <2>3 DEF Label
      <3>2. Render(f) /\ UNCHANGED <<named, described>>
        BY <1>8, <2>3, Zenon DEF RenderPackedData, client
      <3>3. NoPicture \in Label  BY DEF Label
      <3> HIDE DEF headers
      <3>4. f \in FrameType  BY <1>1, <3>1, <3>3, FrameUpdate, Zenon
      <3> HIDE DEF f
      <3> QED  BY <1>1, <1>2, <3>2, <3>4
    <2> QED  BY <2>2, <2>3
  <1>9. \E f : Render(f)
    BY Zenon DEF RenderStep, RenderScalar, RenderSeqParam, RenderPicParam, RenderCodedBuf,
                 RenderPackedParam, RenderPackedData
  <1>10. ended' = NotEnded /\ UNCHANGED <<building, session, coded>> /\ building # NoPicture
    BY <1>2, <1>9
  <1> QED  BY <1>1, <1>3, <1>4, <1>5, <1>6, <1>7, <1>8, <1>10 DEF RenderStep, Label

\* The end of a picture: its frames, its record, and the buffer it names.
LEMMA EndTyped ==
    ASSUME TypeInv, EndPicture
    PROVE  /\ held' \subseteq Pictures /\ IsFiniteSet(held') /\ Cardinality(held') <= Capacity
           /\ ended' \in EndedType
           /\ \/ UNCHANGED segment /\ coded_ready' \subseteq coded_ready
              \/ /\ ResolvedBuf \in buffers
                 /\ \E g \in Pictures : segment' = [segment EXCEPT ![ResolvedBuf] = g]
                 /\ coded_ready' = coded_ready \cup {ResolvedBuf}
  <1> DEFINE Into   == IF ResolvedBuf \in buffers THEN ResolvedBuf ELSE NoBuf
             Frames == held' \subseteq Pictures /\ IsFiniteSet(held') /\ Cardinality(held') <= Capacity
             Quiet  == UNCHANGED segment /\ coded_ready' \subseteq coded_ready
             Writes == /\ ResolvedBuf \in buffers
                       /\ \E g \in Pictures : segment' = [segment EXCEPT ![ResolvedBuf] = g]
                       /\ coded_ready' = coded_ready \cup {ResolvedBuf}
  <1>1. /\ building \in Label /\ pending \in FrameType /\ buffers \subseteq CodedBufs
        /\ held \subseteq Pictures /\ IsFiniteSet(held) /\ Cardinality(held) <= Capacity
    BY DEF TypeInv
  <1>2. building \in Pictures  BY <1>1, EndPictureEffect DEF MayEnd, Label
  <1>3. ASSUME NEW status \in {"error", "bytes", "pending"}, NEW reset \in BOOLEAN,
               NEW bytes \in Label, NEW into \in BufOrNo, Ended(status, reset, bytes, into)
        PROVE  ended' \in EndedType
    <2>1. Labels(pending) \subseteq Pictures  BY <1>1, LabelsTyped
    <2> HIDE DEF Into
    <2> QED  BY <1>1, <1>3, <2>1 DEF Ended, EndedType
  <1>4. Into \in BufOrNo /\ NoBuf \in BufOrNo /\ NoPicture \in Label /\ Resets \in BOOLEAN
    BY <1>1 DEF BufOrNo, Label, Resets
  <1>5. ASSUME NEW kept \in SUBSET held
        PROVE  IsFiniteSet(kept) /\ Cardinality(kept) <= Capacity /\ Cardinality(kept) \in Nat
    <2>1. IsFiniteSet(kept) /\ Cardinality(kept) <= Cardinality(held)
      BY <1>1, <1>5, FS_Subset
    <2>2. Cardinality(kept) \in Nat /\ Cardinality(held) \in Nat
      BY <1>1, <2>1, FS_CardinalityType
    <2> QED  BY <1>1, <2>1, <2>2, CapacityAssumption
  <1>6. CASE EndPictureNoSession
    <2>1. UNCHANGED <<session, coded>> /\ Ended("error", FALSE, NoPicture, NoBuf)
      BY <1>6 DEF EndPictureNoSession
    <2>2. ended' \in EndedType  BY <1>3, <1>4, <2>1
    <2> QED  BY <1>1, <2>1, <2>2 DEF session, coded
  <1>7. ASSUME NEW kept \in SUBSET held, EndPictureFails(kept)
        PROVE  Frames /\ ended' \in EndedType /\ Quiet
    <2>1. UNCHANGED coded /\ held' = kept /\ Ended("error", Resets, NoPicture, NoBuf)
      BY <1>7 DEF EndPictureFails
    <2>2. ended' \in EndedType  BY <1>3, <1>4, <2>1
    <2> QED  BY <1>1, <1>5, <2>1, <2>2 DEF coded
  <1>8. ASSUME NEW kept \in SUBSET held, EndPicturePending(kept)
        PROVE  Frames /\ ended' \in EndedType /\ Quiet
    <2>1. /\ UNCHANGED segment /\ coded_ready' \subseteq coded_ready
          /\ held' = kept \cup {building} /\ Cardinality(kept) < Capacity
          /\ Ended("pending", Resets, NoPicture, Into)
      BY <1>8 DEF EndPicturePending
    <2>2. ended' \in EndedType  BY <1>3, <1>4, <2>1
    <2>3. /\ IsFiniteSet(kept \cup {building})
          /\ Cardinality(kept \cup {building})
               = IF building \in kept THEN Cardinality(kept) ELSE Cardinality(kept) + 1
      BY <1>5, FS_AddElement
    <2>4. Frames  BY <1>1, <1>2, <1>5, <2>1, <2>3, CapacityAssumption
    <2> QED  BY <2>1, <2>2, <2>4
  <1>9. ASSUME NEW kept \in SUBSET held, NEW g \in Pictures, EndPictureBytes(kept, g)
        PROVE  Frames /\ ended' \in EndedType /\ (Quiet \/ Writes)
    <2>1. /\ g \in kept \cup {building}
          /\ held' = (kept \cup {building}) \ {g}
          /\ segment' = IF ResolvedBuf \in buffers
                          THEN [segment EXCEPT ![ResolvedBuf] = g] ELSE segment
          /\ coded_ready' = IF ResolvedBuf \in buffers
                              THEN coded_ready \cup {ResolvedBuf} ELSE coded_ready
          /\ Ended("bytes", Resets, g, Into)
      BY <1>9 DEF EndPictureBytes
    <2>2. ended' \in EndedType  BY <1>3, <1>4, <2>1 DEF Label
    <2>3. /\ IsFiniteSet(kept \cup {building})
          /\ Cardinality(kept \cup {building}) <= Cardinality(kept) + 1
      BY <1>5, FS_AddElement
    <2>4. /\ IsFiniteSet(held')
          /\ Cardinality(held') = Cardinality(kept \cup {building}) - 1
      BY <2>1, <2>3, FS_RemoveElement
    <2>5. Cardinality(kept \cup {building}) \in Nat  BY <2>3, FS_CardinalityType
    <2>6. Frames  BY <1>1, <1>2, <1>5, <2>1, <2>3, <2>4, <2>5, CapacityAssumption
    <2> QED  BY <2>1, <2>2, <2>6
  <1> HIDE DEF Frames, Quiet, Writes
  <1>10. CASE \E kept \in SUBSET held : EndPictureFails(kept) \/ EndPicturePending(kept)
    BY <1>7, <1>8, <1>10 DEF Frames, Quiet
  <1>11. CASE \E kept \in SUBSET held : \E g \in Pictures : EndPictureBytes(kept, g)
    BY <1>9, <1>11 DEF Frames, Quiet, Writes
  <1> QED  BY <1>6, <1>10, <1>11 DEF EndPicture

\* Every step keeps TypeInv.
LEMMA TypeStep == TypeInv /\ [Next]_vars => TypeInv'
  <1> SUFFICES ASSUME TypeInv, [Next]_vars PROVE TypeInv'  OBVIOUS
  <1>1. /\ building \in Label /\ named \subseteq CodedBufs /\ described \in BOOLEAN
        /\ pending \in FrameType
        /\ held \subseteq Pictures /\ IsFiniteSet(held) /\ Cardinality(held) <= Capacity
        /\ buffers \subseteq CodedBufs /\ segment \in [CodedBufs -> Label]
        /\ coded_ready \subseteq {b \in buffers : segment[b] # NoPicture}
        /\ mapped \subseteq {b \in buffers : segment[b] # NoPicture}
        /\ ended \in EndedType
    BY DEF TypeInv
  <1>2. CASE UNCHANGED vars  BY <1>1, <1>2 DEF vars, TypeInv
  <1>3. ASSUME NEW p \in Pictures, BeginPicture(p) PROVE TypeInv'
    BY <1>1, <1>3, EmptyTyped DEF BeginPicture, session, coded, TypeInv, Label
  <1>4. CASE RenderStep
    BY <1>1, <1>4, RenderTyped, EmptyTyped DEF session, coded, TypeInv, Label
  <1>5. CASE EndPicture
    <2>1. /\ pending' = Empty /\ building' = NoPicture /\ named' = {} /\ described' = FALSE
          /\ UNCHANGED <<buffers, mapped>>
      BY <1>5, EndPictureEffect
    <2>2. /\ held' \subseteq Pictures /\ IsFiniteSet(held') /\ Cardinality(held') <= Capacity
          /\ ended' \in EndedType
      BY <1>5, EndTyped
    <2>3. CASE UNCHANGED segment /\ coded_ready' \subseteq coded_ready
      BY <1>1, <2>1, <2>2, <2>3, EmptyTyped DEF TypeInv, Label
    <2>4. ASSUME ResolvedBuf \in buffers,
                 NEW g \in Pictures, segment' = [segment EXCEPT ![ResolvedBuf] = g],
                 coded_ready' = coded_ready \cup {ResolvedBuf}
          PROVE  TypeInv'
      <3>1. segment' \in [CodedBufs -> Label]  BY <1>1, <2>4 DEF Label
      <3>2. \A b \in buffers : segment'[b] # NoPicture <=> segment[b] # NoPicture \/ b = ResolvedBuf
        BY <1>1, <2>4, NullAssumption
      <3> QED  BY <1>1, <2>1, <2>2, <2>4, <3>1, <3>2, EmptyTyped DEF TypeInv, Label
    <2> QED  BY <1>5, <2>3, <2>4, EndTyped
  <1>6. CASE DestroyConfig
    BY <1>1, <1>6, EmptyTyped DEF DestroyConfig, client, session, coded, TypeInv
  <1>7. ASSUME NEW b \in CodedBufs, CreateBuffer(b) PROVE TypeInv'
    BY <1>1, <1>7, EmptyTyped DEF CreateBuffer, client, session, TypeInv
  <1>8. ASSUME NEW b \in CodedBufs, DestroyBuffer(b) PROVE TypeInv'
    <2>1. /\ buffers' = buffers \ {b} /\ b \notin mapped /\ ended' = NotEnded
          /\ segment' = [segment EXCEPT ![b] = NoPicture] /\ coded_ready' = coded_ready \ {b}
          /\ UNCHANGED <<building, named, described, pending, held, mapped>>
      BY <1>8 DEF DestroyBuffer, DropRecord, client, session
    <2>2. segment' \in [CodedBufs -> Label]  BY <1>1, <2>1 DEF Label
    <2>3. \A c \in buffers' : segment'[c] = segment[c]  BY <1>1, <2>1
    <2> QED  BY <1>1, <2>1, <2>2, <2>3, EmptyTyped DEF TypeInv
  <1>9. ASSUME NEW b \in CodedBufs, MapBuffer(b) \/ UnmapBuffer(b) PROVE TypeInv'
    BY <1>1, <1>9, EmptyTyped DEF MapBuffer, UnmapBuffer, client, session, TypeInv
  <1> QED  BY <1>2, <1>3, <1>4, <1>5, <1>6, <1>7, <1>8, <1>9, StepKinds DEF BufferStep

\* Either both sides have a configuration or neither.
LEMMA SessionTyped == ConfigInv => (config = NoConfig <=> encoder = NoConfig)
  <1> SUFFICES ASSUME ConfigInv, config # NoConfig PROVE encoder # NoConfig
    BY DEF ConfigInv
  <1>1. encoder = Submitted(config, encoder)  BY DEF ConfigInv, Configured
  <1>2. "preset" \in DOMAIN encoder  BY <1>1 DEF Submitted, init_params
  <1>3. "preset" \notin DOMAIN NoConfig  BY DEF NoConfig
  <1> QED  BY <1>2, <1>3

\* Types, and: NVENC holds back at most as many frames as it may, whatever is
\* lost on the way, and a coded buffer is ready or mapped only while its record
\* has a segment.
THEOREM TypeCorrect == Spec => []TypeOK
  <1>1. TypeInv /\ ConfigInv => TypeOK
    BY SessionTyped DEF TypeInv, ConfigInv, Configured, TypeOK, FrameType, EndedType, SeqData
  <1> QED  BY <1>1, TypeInit, TypeStep, ConfigCorrect, PTL DEF Spec
---------------------------------------------------------------------------
(* The accumulator and the coded buffers.                                  *)

\* Between pictures the accumulator is empty; while one is built all of it was
\* rendered since the last vaEndPicture, and a buffer the client named is there
\* and will be found, unless the picture parameters are an abandoned picture's.
PictureInv ==
    /\ building = NoPicture => pending = Empty /\ named = {} /\ ~described
    /\ Labels(pending) \subseteq {building}
    /\ ended.used \subseteq {ended.picture}
    /\ named \subseteq buffers \ mapped
    /\ described => pending.pps_coded_buf \in named \cup {NoBuf}
    /\ pending.pic_param = NoPicture => pending.pps_coded_buf = NoBuf
    /\ named # {} => \/ described /\ pending.pps_coded_buf # NoBuf
                     \/ pending.coded_buf \in named

\* An empty accumulator belongs to nobody and names no buffer.
LEMMA EmptyFrame ==
    /\ Labels(Empty) = {} /\ Empty.pps_coded_buf = NoBuf
    /\ NotEnded.used \subseteq {NotEnded.picture}
  BY DEF Empty, Labels, NotEnded, Scalars

\* A parameter rendered now is the current picture's and the others stay whose
\* they were; a buffer that is named is recorded.
SameNames(f)  == f.pic_param = pending.pic_param /\ f.pps_coded_buf = pending.pps_coded_buf
                 /\ f.coded_buf = pending.coded_buf
RenderEffect(f) ==
    /\ \A p \in Scalars : f.scalars[p] \in {pending.scalars[p], building}
    /\ f.seq_from \in {pending.seq_from, building}
    /\ f.pic_param \in {pending.pic_param, building}
    /\ f.coded_from \in {pending.coded_from, building}
    /\ f.packed_kind \in {pending.packed_kind, building, NoPicture}
    /\ f.packed_headers_typed \subseteq
         pending.packed_headers_typed \cup ({pending.packed_kind} \ {NoPicture})

\* What every vaRenderPicture step does to the accumulator, and the three ways
\* it may name a buffer.
LEMMA RenderEffects ==
    ASSUME TypeInv, RenderStep
    PROVE  /\ RenderEffect(pending') /\ building # NoPicture
           /\ ended' = NotEnded /\ UNCHANGED <<building, coded>>
           /\ \/ SameNames(pending') /\ UNCHANGED <<named, described>>
              \/ /\ ~described /\ described' = TRUE
                 /\ pending'.pic_param = building /\ pending'.coded_buf = pending.coded_buf
                 /\ \E b \in (buffers \ mapped) \cup {NoBuf} :
                       pending'.pps_coded_buf = b /\ named' = named \cup ({b} \ {NoBuf})
              \/ /\ pending'.pic_param = pending.pic_param
                 /\ pending'.pps_coded_buf = pending.pps_coded_buf /\ UNCHANGED described
                 /\ \E b \in buffers \ mapped :
                       pending'.coded_buf = b /\ named' = named \cup {b}
  <1>1. pending \in FrameType  BY DEF TypeInv
  <1>2. ASSUME NEW f, Render(f) PROVE pending' = f  BY <1>2 DEF Render
  <1>3. /\ building # NoPicture /\ ended' = NotEnded /\ UNCHANGED <<building, coded>>
    BY RenderTyped, NullAssumption
  <1>4. ASSUME NEW param \in Scalars, RenderScalar(param)
        PROVE  RenderEffect(pending') /\ SameNames(pending') /\ UNCHANGED <<named, described>>
    BY <1>1, <1>4 DEF RenderScalar, Render, RenderEffect, SameNames, client, FrameType
  <1>5. ASSUME NEW data \in SeqData \ {NoSeq}, RenderSeqParam(data)
        PROVE  RenderEffect(pending') /\ SameNames(pending') /\ UNCHANGED <<named, described>>
    BY <1>1, <1>5 DEF RenderSeqParam, Render, RenderEffect, SameNames, client, FrameType
  <1>6. ASSUME NEW b \in BufOrNo, RenderPicParam(b)
        PROVE  /\ RenderEffect(pending')
               /\ ~described /\ described' = TRUE
               /\ pending'.pic_param = building /\ pending'.coded_buf = pending.coded_buf
               /\ pending'.pps_coded_buf = b /\ named' = named \cup ({b} \ {NoBuf})
               /\ b \in (buffers \ mapped) \cup {NoBuf}
    BY <1>1, <1>6 DEF RenderPicParam, Render, RenderEffect, FrameType
  <1>7. ASSUME NEW b \in CodedBufs, RenderCodedBuf(b)
        PROVE  /\ RenderEffect(pending')
               /\ pending'.pic_param = pending.pic_param
               /\ pending'.pps_coded_buf = pending.pps_coded_buf /\ UNCHANGED described
               /\ pending'.coded_buf = b /\ named' = named \cup {b} /\ b \in buffers \ mapped
    BY <1>1, <1>7 DEF RenderCodedBuf, Render, RenderEffect, FrameType
  <1>8. ASSUME RenderPackedParam
        PROVE  RenderEffect(pending') /\ SameNames(pending') /\ UNCHANGED <<named, described>>
    BY <1>1, <1>8 DEF RenderPackedParam, Render, RenderEffect, SameNames, client, FrameType
  <1>9. ASSUME RenderPackedData
        PROVE  RenderEffect(pending') /\ SameNames(pending') /\ UNCHANGED <<named, described>>
    <2>1. CASE pending.packed_kind = NoPicture
      BY <1>1, <1>9, <2>1 DEF RenderPackedData, Render, RenderEffect, SameNames, client, FrameType
    <2>2. CASE pending.packed_kind # NoPicture
      BY <1>1, <1>9, <2>2 DEF RenderPackedData, Render, RenderEffect, SameNames, client, FrameType
    <2> QED  BY <2>1, <2>2
  <1> QED  BY <1>3, <1>4, <1>5, <1>6, <1>7, <1>8, <1>9 DEF RenderStep

\* Rendering adds no label but the current picture's.
LEMMA RenderedLabels ==
    ASSUME NEW f, RenderEffect(f)
    PROVE  Labels(f) \subseteq Labels(pending) \cup {building}
  BY DEF RenderEffect, Labels

\* The accumulator starts empty.
LEMMA PictureInit == Init => PictureInv
  BY EmptyFrame DEF Init, PictureInv

\* Every step keeps PictureInv, a vaBeginPicture over a picture that was not
\* ended included.
LEMMA PictureStep == TypeInv /\ PictureInv /\ [Next]_vars => PictureInv'
  <1> SUFFICES ASSUME TypeInv, PictureInv, [Next]_vars PROVE PictureInv'  OBVIOUS
  <1>1. CASE UNCHANGED vars  BY <1>1 DEF vars, PictureInv
  <1>2. ASSUME NEW p \in Pictures, BeginPicture(p) PROVE PictureInv'
    <2>1. /\ building = NoPicture \/ building = p
          /\ pending' = pending /\ building' = p
          /\ named' = {} /\ described' = FALSE /\ ended' = NotEnded
      BY <1>2 DEF BeginPicture
    <2>2. building' # NoPicture  BY <2>1, NullAssumption
    <2>3. Labels(pending') \subseteq {building'}
      BY <2>1, EmptyFrame DEF PictureInv
    <2> QED  BY <2>1, <2>2, <2>3, EmptyFrame DEF PictureInv
  <1>3. CASE RenderStep
    <2>1. /\ RenderEffect(pending') /\ building # NoPicture
          /\ ended' = NotEnded /\ UNCHANGED <<building, buffers, mapped>>
      BY <1>3, RenderEffects DEF coded
    <2>2. Labels(pending') \subseteq {building'}
      BY <2>1, RenderedLabels DEF PictureInv
    <2>3. NoBuf \notin buffers  BY NullAssumption DEF TypeInv
    <2>4. CASE SameNames(pending') /\ UNCHANGED <<named, described>>
      BY <2>1, <2>2, <2>4, EmptyFrame DEF SameNames, PictureInv
    <2>5. ASSUME ~described, described' = TRUE,
                 pending'.pic_param = building, pending'.coded_buf = pending.coded_buf,
                 NEW b \in (buffers \ mapped) \cup {NoBuf},
                 pending'.pps_coded_buf = b, named' = named \cup ({b} \ {NoBuf})
          PROVE  PictureInv'
      BY <2>1, <2>2, <2>3, <2>5, EmptyFrame DEF PictureInv
    <2>6. ASSUME pending'.pic_param = pending.pic_param,
                 pending'.pps_coded_buf = pending.pps_coded_buf, UNCHANGED described,
                 NEW b \in buffers \ mapped,
                 pending'.coded_buf = b, named' = named \cup {b}
          PROVE  PictureInv'
      BY <2>1, <2>2, <2>3, <2>6, EmptyFrame DEF PictureInv
    <2> QED  BY <1>3, <2>4, <2>5, <2>6, RenderEffects
  <1>4. CASE EndPicture
    <2>1. /\ pending' = Empty /\ building' = NoPicture /\ named' = {} /\ described' = FALSE
          /\ ended'.picture = building /\ ended'.used = Labels(pending)
          /\ UNCHANGED <<buffers, mapped>>
      BY <1>4, EndPictureEffect
    <2> QED  BY <2>1, EmptyFrame DEF PictureInv
  <1>5. CASE DestroyConfig
    BY <1>5, EmptyFrame DEF DestroyConfig, client, coded, PictureInv
  <1>6. CASE BufferStep
    <2>1. /\ UNCHANGED <<building, named, described, pending>> /\ ended' = NotEnded
          /\ named \subseteq buffers \ mapped => named \subseteq buffers' \ mapped'
      BY <1>6 DEF BufferStep, CreateBuffer, DestroyBuffer, MapBuffer, UnmapBuffer, client
    <2> QED  BY <2>1, EmptyFrame DEF PictureInv
  <1> QED  BY <1>1, <1>2, <1>3, <1>4, <1>5, <1>6, StepKinds

\* A parameter counts for one vaEndPicture: nothing rendered before the last
\* one is left for the next, after any sequence of complete, failed, deferred
\* or abandoned pictures.
THEOREM ParametersUsedOnce == Spec => []UsedByOneEnd
  <1>1. PictureInv => UsedByOneEnd  BY DEF PictureInv, UsedByOneEnd
  <1>2. TypeInv /\ PictureInv /\ [Next]_vars => PictureInv'  BY PictureStep
  <1> QED  BY <1>1, <1>2, TypeInit, TypeStep, PictureInit, PTL DEF Spec

\* A picture that may be ended resolves to a buffer it named, which exists and
\* is not mapped.
LEMMA NamedIsFound ==
    ASSUME TypeInv, PictureInv, MayEnd
    PROVE  ResolvedBuf \in named /\ ResolvedBuf \in buffers /\ ResolvedBuf \notin mapped
  <1>1. NoBuf \notin buffers  BY NullAssumption DEF TypeInv
  <1> QED  BY <1>1 DEF PictureInv, MayEnd, ResolvedBuf

\* The bytes of a picture go to a buffer the client named for the picture it
\* ends: the two ways to name one never lead to an older picture's, and not to
\* an abandoned one's if the client describes the picture it begins instead.
THEOREM BytesGoToNamed == Spec => BytesToNamedBuffer
  <1>1. TypeInv /\ PictureInv /\ [Next]_vars =>
          [ended' # ended /\ ended'.status = "bytes" => ended'.into \in named]_vars
    <2> SUFFICES ASSUME TypeInv, PictureInv, Next, ended'.status = "bytes"
                 PROVE  ended'.into \in named
      OBVIOUS
    <2>1. CASE EndPicture
      <3>1. /\ MayEnd
            /\ ended'.into = IF ResolvedBuf \in buffers THEN ResolvedBuf ELSE NoBuf
        BY <2>1, EndPictureEffect
      <3> QED  BY <3>1, NamedIsFound
    <2>2. CASE ~EndPicture
      <3>1. ended' = NotEnded
        BY <2>2, StepKinds, RenderTyped DEF BufferStep, BeginPicture, DestroyConfig,
           CreateBuffer, DestroyBuffer, MapBuffer, UnmapBuffer
      <3> QED  BY <3>1 DEF NotEnded
    <2> QED  BY <2>1, <2>2
  <1>2. TypeInv /\ PictureInv /\ [Next]_vars => PictureInv'  BY PictureStep
  <1> QED  BY <1>1, <1>2, TypeInit, TypeStep, PictureInit, PTL DEF Spec, BytesToNamedBuffer

\* The segment behind a pointer the client holds is neither replaced nor freed
\* before it is unmapped.
THEOREM SegmentsStable == Spec => MappedSegmentStable
  <1>1. TypeInv /\ PictureInv /\ [Next]_vars =>
          [\A b \in mapped \cap mapped' : segment'[b] = segment[b] /\ b \in buffers']_vars
    <2> SUFFICES ASSUME TypeInv, PictureInv, Next, NEW b \in mapped, b \in mapped'
                 PROVE  segment'[b] = segment[b] /\ b \in buffers'
      BY Zenon
    <2>1. b \in buffers /\ segment \in [CodedBufs -> Label] /\ buffers \subseteq CodedBufs
      BY DEF TypeInv
    <2>2. CASE EndPicture
      <3>1. /\ MayEnd /\ UNCHANGED buffers
            /\ \/ UNCHANGED segment
               \/ \E g : segment' = [segment EXCEPT ![ResolvedBuf] = g]
        BY <2>2, EndPictureEffect
      <3>2. b # ResolvedBuf  BY <3>1, NamedIsFound
      <3> QED  BY <2>1, <3>1, <3>2
    <2>3. ASSUME NEW c \in CodedBufs, DestroyBuffer(c)
          PROVE  segment'[b] = segment[b] /\ b \in buffers'
      BY <2>1, <2>3 DEF DestroyBuffer, DropRecord
    <2>4. ASSUME NEW c \in CodedBufs, CreateBuffer(c) \/ MapBuffer(c) \/ UnmapBuffer(c)
          PROVE  segment'[b] = segment[b] /\ b \in buffers'
      BY <2>1, <2>4 DEF CreateBuffer, MapBuffer, UnmapBuffer
    <2>5. CASE (\E p \in Pictures : BeginPicture(p)) \/ RenderStep \/ DestroyConfig
      BY <2>1, <2>5, RenderTyped DEF BeginPicture, DestroyConfig, coded
    <2> QED  BY <2>2, <2>3, <2>4, <2>5, StepKinds DEF BufferStep
  <1>2. TypeInv /\ PictureInv /\ [Next]_vars => PictureInv'  BY PictureStep
  <1> QED  BY <1>1, <1>2, TypeInit, TypeStep, PictureInit, PTL DEF Spec, MappedSegmentStable
---------------------------------------------------------------------------
(* Where MappedIsReady, which a run refutes, does hold: with an encoder    *)
(* that never holds a frame back.                                          *)

\* Every buffer with a segment has had its flag set, and none has lost it.
ReadyInv == \A b \in CodedBufs : segment[b] # NoPicture => b \in coded_ready

\* As long as encode_frame never answers "pending", vaMapBuffer loses nothing by
\* not looking at coded_ready: a buffer that has a segment has the flag as well.
THEOREM ReadyWithoutDelay ==
    ASSUME Capacity = 0
    PROVE  Spec => []MappedIsReady
  <1>1. Init => ReadyInv  BY DEF Init, ReadyInv
  <1>2. TypeInv /\ ReadyInv /\ [Next]_vars => ReadyInv'
    <2> SUFFICES ASSUME TypeInv, ReadyInv, [Next]_vars PROVE ReadyInv'  OBVIOUS
    <2>0. segment \in [CodedBufs -> Label]  BY DEF TypeInv
    <2>1. CASE UNCHANGED coded  BY <2>1 DEF coded, ReadyInv
    <2>2. CASE UNCHANGED vars  BY <2>2 DEF vars, ReadyInv
    <2>3. ASSUME NEW kept \in SUBSET held, EndPicturePending(kept) PROVE FALSE
      <3>1. IsFiniteSet(kept)  BY FS_Subset DEF TypeInv
      <3> QED  BY <2>3, <3>1, FS_CardinalityType DEF EndPicturePending
    <2>4. ASSUME NEW kept \in SUBSET held, NEW g \in Pictures, EndPictureBytes(kept, g)
          PROVE  ReadyInv'
      BY <2>0, <2>4 DEF EndPictureBytes, ReadyInv
    <2>5. CASE EndPicture
      BY <2>1, <2>3, <2>4, <2>5 DEF EndPicture, EndPictureNoSession, EndPictureFails
    <2>6. ASSUME NEW b \in CodedBufs, DestroyBuffer(b) PROVE ReadyInv'
      BY <2>0, <2>6 DEF DestroyBuffer, DropRecord, ReadyInv
    <2>7. ASSUME NEW b \in CodedBufs, CreateBuffer(b) \/ MapBuffer(b) \/ UnmapBuffer(b)
          PROVE  ReadyInv'
      BY <2>7 DEF CreateBuffer, MapBuffer, UnmapBuffer, ReadyInv
    <2>8. CASE (\E p \in Pictures : BeginPicture(p)) \/ RenderStep \/ DestroyConfig
      BY <2>1, <2>8, RenderTyped DEF BeginPicture, DestroyConfig
    <2> QED  BY <2>2, <2>5, <2>6, <2>7, <2>8, StepKinds DEF BufferStep
  <1>3. TypeInv /\ ReadyInv => MappedIsReady  BY DEF TypeInv, ReadyInv, MappedIsReady
  <1> QED  BY <1>1, <1>2, <1>3, TypeInit, TypeStep, PTL DEF Spec
===========================================================================
