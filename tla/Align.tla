-------------------------------- MODULE Align --------------------------------
(***************************************************************************)
(* Rounding offsets up to a boundary, which placing, reading and carving   *)
(* all do.  A definition under "Slip", here and in the other modules, is   *)
(* no part of the model: it is a mistake that the definition after it      *)
(* could have, kept to show which property finds it.                       *)
(***************************************************************************)
EXTENDS Integers

\* Slip: the offset is taken as it comes.
NoRounding(x, align) == x

\* x rounded up to a multiple of align, as div_ceil(align) * align does.
AlignUp(x, align) == ((x + align - 1) \div align) * align

=============================================================================
