--------------------------- MODULE MCPictureFlow ---------------------------
(* TLC instance of PictureFlow. *)
EXTENDS PictureFlow, TLC

Sps(bits, period, ticks, scale, mbs) ==
    [bits_per_second |-> bits, intra_idr_period |-> period, num_units_in_tick |-> ticks,
     time_scale |-> scale, picture_width_in_mbs |-> mbs[1], picture_height_in_mbs |-> mbs[2]]

\* All fields set; half of them, and a timebase slower than a frame a second.
MCSeqParams == {Sps(244000, 30, 1001, 60000, <<8, 6>>), Sps(0, 60, 1, 1, <<0, 6>>)}
MCPreset == [rateControlMode |-> "VBR", averageBitRate |-> 0, maxBitRate |-> 0,
             vbvBufferSize |-> 0, vbvInitialDelay |-> 0, constQP |-> 0]

Symmetry == Permutations(Pictures) \cup Permutations(CodedBufs)
=============================================================================
