--------------------------- MODULE MCIngestWorkers ---------------------------
(* Instances of IngestWorkers for TLC. *)
EXTENDS IngestWorkers

D(k) == [cf |-> "default", key |-> k]
W(k) == [cf |-> "write", key |-> k]

MCCf == {"default", "write"}

\* A batch with a value and its write record, and a batch with a write record
\* alone.  Two batches fill a buffer of three pairs exactly or beyond its limit.
MCBatch == {<<D(1), W(1)>>, <<W(2)>>}
=============================================================================
