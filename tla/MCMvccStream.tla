---------------------------- MODULE MCMvccStream ----------------------------
(* Instances of MvccStream for TLC. *)
EXTENDS MvccStream

CONSTANT k1

AllMutations == {"short", "long", "delete", "lock"}

\* Ranges of either column family that hold the key, real and notify-only.
SomeRanges ==
    [cf : {"default", "write"}, keys : {{k1}}, notifyOnly : BOOLEAN]

=============================================================================
