--------------------------- MODULE MCSpanProducer ---------------------------
(* Instances of SpanProducer for TLC: regions and bridges are model values. *)
EXTENDS SpanProducer, TLC
Symmetry == Permutations(Bridge)
=============================================================================
