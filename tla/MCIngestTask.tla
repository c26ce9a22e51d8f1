---------------------------- MODULE MCIngestTask ----------------------------
(* IngestTask on small sets of regions and loops. *)
EXTENDS IngestTask, TLC

\* Regions and loops are only compared for equality.
Interchangeable == Permutations(Region) \cup Permutations(Loop)

\* What is left of a loop that ended is its last frontier, as long as the task
\* waits for it or its record is the one in the file; spawn resets the rest.
Remaining(l) ==
    IF Live(l)
    THEN <<cancelled[l], frontier[l], lastRec[l], startTs[l], known[l], floor[l],
           staleTarget[l], synced[l]>>
    ELSE IF synced[l] \/ l = doneRx
         THEN <<frontier[l], staleTarget[l], synced[l]>>
         ELSE <<>>

WithoutEndedLoops ==
    <<taskVars, phase, [l \in Loop |-> Remaining(l)], ckptFile, sourceTs>>

=============================================================================
