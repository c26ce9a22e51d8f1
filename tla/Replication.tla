----------------------------- MODULE Replication -----------------------------
(***************************************************************************)
(* What physical cluster replication promises, whatever its moving parts:  *)
(* the target holds only what the source committed and never gives a       *)
(* version up again; a version is covered by a checkpoint only once it was *)
(* committed, and a covered version is settled in the end: it reaches the  *)
(* target, or the replica has reported that it gave it up.                 *)
(*                                                                         *)
(* This is the at-least-once promise of develop/PCR-Semantic-Doc.md with   *)
(* its exceptions made explicit: `forfeited' grows where the code drops    *)
(* data knowingly (a flush that returned an error) or by a crash.          *)
(***************************************************************************)
CONSTANT Version   \* the versions a source may commit

VARIABLES
    committed,   \* versions committed on the source
    replicated,  \* versions ingested by the target
    forfeited,   \* versions dropped by a failed flush or a crash
    promised     \* versions covered by the recorded checkpoint

vars == <<committed, replicated, forfeited, promised>>

Init ==
    /\ committed = {}
    /\ replicated = {}
    /\ forfeited = {}
    /\ promised = {}

Commit ==
    /\ \E v \in Version \ committed : committed' = committed \cup {v}
    /\ UNCHANGED <<replicated, forfeited, promised>>

\* Some versions reach the target; others, tried with them, are given up.
Settle ==
    /\ \E R, F \in SUBSET committed :
          /\ replicated' = replicated \cup R
          /\ forfeited' = forfeited \cup F
    /\ UNCHANGED <<committed, promised>>

\* A checkpoint covers more of what was committed.
Promise ==
    /\ \E P \in SUBSET committed : promised' = promised \cup P
    /\ UNCHANGED <<committed, replicated, forfeited>>

\* Activation ends the replica and removes its checkpoint.  A crash may lose the
\* checkpoint along with what was in memory.
Withdraw ==
    /\ promised' = {}
    /\ \E F \in SUBSET committed : forfeited' = forfeited \cup F
    /\ UNCHANGED <<committed, replicated>>

Next == Commit \/ Settle \/ Promise \/ Withdraw

Honoured ==
    \A v \in Version : (v \in promised) ~> (v \in replicated \cup forfeited)

Safety == Init /\ [][Next]_vars
Spec == Safety /\ Honoured
=============================================================================
