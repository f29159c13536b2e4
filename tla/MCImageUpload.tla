--------------------------- MODULE MCImageUpload ---------------------------
(* TLC instance of ImageUpload. *)
EXTENDS ImageUpload, TLC

\* Odd and even heights, one a VAImage just holds, three it does not, one whose
\* bytes usize cannot count, and no width at all.
MCSizes == {<<0, 3>>, <<5, 3>>, <<12, 1>>, <<15, 15>>, <<16, 5>>, <<16, 16>>, <<200, 250>>}

Symmetry == Permutations(Surfaces)
=============================================================================
