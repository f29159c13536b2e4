--------------------------- MODULE EncoderParams ---------------------------
(***************************************************************************)
(* The pure part of the encoder's configuration: what a sequence parameter *)
(* buffer says (src/h264/mod.rs), the configuration a context starts from  *)
(* (driver/context.rs, nvenc/h264_config.rs), how the two are merged       *)
(* (driver/picture.rs), and what NVENC is told (nvenc/preset.rs,           *)
(* h264_config.rs, session.rs).                                            *)
(*                                                                         *)
(* Numbers are unbounded.  The code's are u32, its products and quotients  *)
(* u64 and clamped to u32: FrameRateFits (PictureFlowProofs) says why      *)
(* the clamp changes nothing.  A size in macroblocks is 16 bits wide, so   *)
(* sixteen times it fits as well.                                          *)
(***************************************************************************)
EXTENDS Integers

Profiles == {"ConstrainedBaseline", "Main", "High"}

SpsView == [bits_per_second : Nat, idr_period : Nat, fps : Nat, width : Nat, height : Nat]

\* Fields of VAEncSequenceParameterBufferH264 that are read and used.
SeqParamBuffer == [bits_per_second : Nat, intra_idr_period : Nat,
                   num_units_in_tick : Nat, time_scale : Nat,
                   picture_width_in_mbs : Nat, picture_height_in_mbs : Nat]

EncoderConfig == [width : Nat, height : Nat, fps_num : Nat, fps_den : Nat,
                  bitrate_bps : Nat, gop_length : Nat, profile : Profiles,
                  rc_mode : {"Cbr", "CbrLookahead", "ConstQp", "Vbr"}]
---------------------------------------------------------------------------
(* parse_sps.                                                              *)

\* The integer quotient truncates; below one frame a second it is 0.
FrameRate(num_units_in_tick, time_scale) ==
    IF num_units_in_tick > 0 /\ time_scale > 0
      THEN time_scale \div (num_units_in_tick * 2) ELSE 0

parse_sps(sps) ==
    [bits_per_second |-> sps.bits_per_second,
     idr_period      |-> sps.intra_idr_period,
     fps             |-> FrameRate(sps.num_units_in_tick, sps.time_scale),
     width           |-> sps.picture_width_in_mbs * 16,
     height          |-> sps.picture_height_in_mbs * 16]
---------------------------------------------------------------------------
(* Where a context starts.                                                 *)

\* A dimension the client leaves 0 is that of the first render target, which
\* is 0 here if there is none; vaCreateContext refuses what is still 0.
PictureSize(asked, target) == IF asked = 0 THEN target ELSE asked

default_for(width, height, profile) ==
    [width |-> width, height |-> height, fps_num |-> 60, fps_den |-> 1,
     bitrate_bps |-> 5000000, gop_length |-> 120, profile |-> profile, rc_mode |-> "Cbr"]
---------------------------------------------------------------------------
(* build_cfg_from_sps: what the sequence parameters leave 0 is kept.       *)

\* What if: the values are taken as they are.
TakesZeros(sps, profile, current) ==
    [current EXCEPT !.profile = profile, !.bitrate_bps = sps.bits_per_second,
                    !.fps_num = sps.fps, !.fps_den = 1, !.gop_length = sps.idr_period,
                    !.width = sps.width, !.height = sps.height]
Given(new, old) == IF new > 0 THEN new ELSE old
build_cfg_from_sps(sps, profile, current) ==
    LET resized == sps.width > 0 /\ sps.height > 0 IN
    [profile     |-> profile,
     bitrate_bps |-> Given(sps.bits_per_second, current.bitrate_bps),
     fps_num     |-> Given(sps.fps, current.fps_num),
     fps_den     |-> IF sps.fps > 0 THEN 1 ELSE current.fps_den,
     gop_length  |-> Given(sps.idr_period, current.gop_length),
     width       |-> IF resized THEN sps.width ELSE current.width,
     height      |-> IF resized THEN sps.height ELSE current.height,
     rc_mode     |-> current.rc_mode]
---------------------------------------------------------------------------
(* What NVENC is told.                                                     *)

Choice(preset, tuning, rc, aq) == [preset |-> preset, tuning |-> tuning, rc |-> rc, enable_aq |-> aq]

choose(bitrate_bps, fps, rc_wants_cqp) ==
    CASE rc_wants_cqp -> Choice("P4", "LowLatency", "ConstQp", FALSE)
      [] ~rc_wants_cqp /\ bitrate_bps <= 2500000 ->
            Choice("P3", "UltraLowLatency", "Cbr", FALSE)
      [] ~rc_wants_cqp /\ bitrate_bps > 2500000 /\ bitrate_bps <= 6000000 /\ fps <= 60 ->
            Choice("P4", "LowLatency", "Cbr", TRUE)
      [] OTHER -> Choice("P5", "LowLatency", "Cbr", TRUE)

map_preset_choice(cfg) ==
    LET fps == IF cfg.fps_den > 0 THEN cfg.fps_num \div cfg.fps_den ELSE 30
        choice == choose(cfg.bitrate_bps, fps, cfg.rc_mode = "ConstQp")
    IN [preset |-> choice.preset, tuning |-> choice.tuning]

\* NVENC's preset supplies a whole NV_ENC_CONFIG; these are the fields of it
\* that depend on the session's configuration.
rcParams(preset, cfg) ==
    CASE cfg.rc_mode \in {"Cbr", "CbrLookahead"} ->
           [preset EXCEPT !.rateControlMode = "CBR", !.averageBitRate = cfg.bitrate_bps,
                          !.maxBitRate = cfg.bitrate_bps, !.vbvBufferSize = cfg.bitrate_bps,
                          !.vbvInitialDelay = cfg.bitrate_bps \div 2]
      [] cfg.rc_mode = "Vbr" ->
           [preset EXCEPT !.rateControlMode = "VBR", !.averageBitRate = cfg.bitrate_bps,
                          !.maxBitRate = IF @ < cfg.bitrate_bps THEN cfg.bitrate_bps ELSE @]
      [] cfg.rc_mode = "ConstQp" ->
           [preset EXCEPT !.rateControlMode = "CONSTQP", !.constQP = 28]

apply_config(preset, cfg) ==
    [rcParams |-> rcParams(preset, cfg), gopLength |-> cfg.gop_length,
     idrPeriod |-> cfg.gop_length, profileGUID |-> cfg.profile,
     entropyCodingMode |-> IF cfg.profile = "ConstrainedBaseline" THEN "CAVLC" ELSE "CABAC"]

init_params(cfg, choice, encode_config) ==
    [preset |-> choice.preset, tuning |-> choice.tuning,
     encodeWidth |-> cfg.width, encodeHeight |-> cfg.height,
     frameRateNum |-> cfg.fps_num, frameRateDen |-> cfg.fps_den,
     encodeConfig |-> encode_config]
===========================================================================
