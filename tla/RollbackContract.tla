--------------------------- MODULE RollbackContract ---------------------------
(***************************************************************************)
(* What the follower's rollback promises (spec.md, the follower's rollback *)
(* of speculative changes): the follower's store only ever moves towards   *)
(* the leader's log, a target is forgotten as pending only once it agrees  *)
(* with the leader, and the leader hears Match only once nothing is        *)
(* pending. How many rounds, messages, failures and restarts it takes is   *)
(* left out.                                                               *)
(*                                                                         *)
(* FollowerRollback implements it under the mapping in its refinement      *)
(* section: a target is pending while its rollback key is persisted.       *)
(***************************************************************************)
CONSTANTS Targets, DocIds

VARIABLES
    local,      \* local[t][d]: the follower's copy of document d of target t
    leader,     \* leader[t]: the documents of target t in the leader's log
    pending,    \* the targets whose rollback is not finished
    synced      \* the leader has been told the follower matches it

cvars == <<local, leader, pending, synced>>

DocState == {"absent", "leader", "speculative"}

LeaderCopy(t, d) == IF d \in leader[t] THEN "leader" ELSE "absent"

Diverged(t) == {d \in DocIds : local[t][d] # LeaderCopy(t, d)}

\* A target that is not pending agrees with the leader.
Init ==
    /\ local \in [Targets -> [DocIds -> DocState]]
    /\ leader \in [Targets -> SUBSET DocIds]
    /\ pending \subseteq Targets
    /\ \A t \in Targets \ pending : Diverged(t) = {}
    /\ synced = FALSE

\* Some documents, of any targets, are given the leader's version.
Restore ==
    /\ \A t \in Targets, d \in DocIds : local'[t][d] \in {local[t][d], LeaderCopy(t, d)}
    /\ local' \in [Targets -> [DocIds -> DocState]]
    /\ UNCHANGED <<leader, pending, synced>>

\* A pending target that agrees with the leader is finished.
Finish(t) ==
    /\ t \in pending
    /\ Diverged(t) = {}
    /\ pending' = pending \ {t}
    /\ UNCHANGED <<local, leader, synced>>

\* With nothing pending, the leader is told the follower matches.
Confirm ==
    /\ pending = {}
    /\ \A t \in Targets : Diverged(t) = {}
    /\ synced' = TRUE
    /\ UNCHANGED <<local, leader, pending>>

Next ==
    \/ Restore
    \/ \E t \in Targets : Finish(t)
    \/ Confirm

SafetySpec == Init /\ [][Next]_cvars

\* What the contract guarantees: whatever is not pending agrees with the
\* leader, and Match means everything does.
Settled ==
    /\ \A t \in Targets \ pending : Diverged(t) = {}
    /\ synced => pending = {}

=============================================================================
