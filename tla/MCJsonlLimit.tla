----------------------------- MODULE MCJsonlLimit -----------------------------
(* Instances of JsonlLimit: a first capacity of two bytes, so that streams of  *)
(* up to twelve bytes are read with none, one and several growths.             *)
EXTENDS JsonlLimit

\* Lengths around the first capacity, its multiples and the limits.
SmallSizes == 0..6
\* Invalid limits, one below the first capacity, one that is a power of two times
\* it, ones that are not, the largest integer and one beyond it.
SomeLimits == {-1, 0, 1, 2, 4, 5, 7, 9, 12, 13}
=============================================================================
