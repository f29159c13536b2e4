\* A u16 has 16 values: the planes of a 15x15 image are more bytes than a u32
\* counts, and a width of 16 does not fit a VAImage.
SPECIFICATION Spec
CONSTANTS
    Surfaces = {s1, s2}
    Images = {i1}
    Sizes <- MCSizes
    Pitches = {5, 8, 12, 15, 16, 24}
    U16 = 16
    Unborn = Unborn
    Destroyed = Destroyed
SYMMETRY Symmetry
INVARIANTS TypeOK CopiesStayInside PlanesApart
CHECK_DEADLOCK FALSE
