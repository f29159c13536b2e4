SPECIFICATION Spec
CONSTANTS
    Pictures = {p1,p2,p3}
    CodedBufs = {b1,b2}
    NoPicture = NoPicture
    NoBuf = NoBuf
    SeqParams <- MCSeqParams
    NoSeq = NoSeq
    Malformed = Malformed
    VaProfiles = {"High"}
    Dims = {0, 64}
    Preset <- MCPreset
    Capacity = 1
SYMMETRY Symmetry
INVARIANTS TypeOK UsedByOneEnd NonZeroParams ConfigMatchesEncoder
PROPERTIES ReplayedSpsResetsNothing BytesToNamedBuffer MappedSegmentStable
