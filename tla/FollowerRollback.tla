-------------------------- MODULE FollowerRollback --------------------------
(***************************************************************************)
(* The follower side of the cluster's rollback exchange:                   *)
(* JMAPServer::handle_rollback_updates in                                   *)
(* src/src/cluster/follower/updates_rollback.rs, together with the parts   *)
(* of its environment that drive it (the follower's caller, the leader     *)
(* answering its responses, storage failures and restarts).                *)
(*                                                                         *)
(* Data is abstracted to what the properties tell apart: a document of a   *)
(* target (an (AccountId, Collection) pair) is absent, holds the leader's  *)
(* version, or holds a speculative version the leader never confirmed.     *)
(* The leader's store is fixed for the duration of a rollback.             *)
(***************************************************************************)
EXTENDS Naturals, FiniteSets

CONSTANTS
    Targets,        \* (AccountId, Collection) pairs
    ThreadTargets,  \* the targets whose collection is Collection::Thread
    DocIds,         \* document ids
    MaxFaults       \* bound on storage failures plus follower restarts

ASSUME ConstantsAssumption ==
    /\ ThreadTargets \subseteq Targets
    /\ MaxFaults \in Nat

VARIABLES
    local,      \* local[t][d]: the follower's copy of document d of target t
    leader,     \* leader[t]: the documents of target t in the leader's log
    keys,       \* keys[t]: persisted rollback change of t (NoChanges: none)
    state,      \* the follower's in-memory cluster::follower::State
    pc,         \* where handle_rollback_updates is ("idle": not running)
    target,     \* its (account_id, collection)
    changes,    \* its changes: MergedChanges
    updates,    \* its updates: Vec<Update>
    request,    \* the leader's request in flight to the follower
    response,   \* the follower's response in flight to the leader
    remaining,  \* update records the leader has still to send
    synced,     \* the leader received AppendEntriesResponse::Match
    faults      \* storage failures and restarts so far

vars == <<local, leader, keys, state, pc, target, changes, updates,
          request, response, remaining, synced, faults>>

-----------------------------------------------------------------------------
(* Data                                                                    *)

\* cluster::log::changes_merge::MergedChanges
MergedChanges ==
    [inserts: SUBSET DocIds, updates: SUBSET DocIds, deletes: SUBSET DocIds]

NoChanges == [inserts |-> {}, updates |-> {}, deletes |-> {}]

\* A cluster::log::Update record the leader sends back for one document.
UpdateRecord == [target: Targets, id: DocIds]

\* The Vec<Update> of one AppendEntries request; eof marks the last batch.
UpdateBatch == [records: SUBSET UpdateRecord, eof: BOOLEAN]

NoUpdates == [records |-> {}, eof |-> FALSE]

DocState == {"absent", "leader", "speculative"}

Synchronized == [mode |-> "Synchronized"]

Rollback(t, ch) == [mode |-> "Rollback", target |-> t, changes |-> ch]

FollowerState ==
    {Synchronized} \cup [mode: {"Rollback"}, target: Targets, changes: MergedChanges]

Nothing == [type |-> "Nothing"]

Request ==
    {[type |-> "Synchronize"]} \cup [type: {"AppendEntries"}, updates: UpdateBatch]

Response ==
    {[type |-> t] : t \in {"None", "Continue", "Match"}}
        \cup [type: {"Update"}, target: Targets, changes: MergedChanges]

\* What the leader's log says document d of t should be.
LeaderCopy(t, d) == IF d \in leader[t] THEN "leader" ELSE "absent"

\* The documents of t whose local copy differs from the leader's.
Diverged(t) == {d \in DocIds : local[t][d] # LeaderCopy(t, d)}

Touched(ch) == ch.inserts \cup ch.updates \cup ch.deletes

PendingTargets == {t \in Targets : keys[t] # NoChanges}

-----------------------------------------------------------------------------
(* Collaborators outside src/                                              *)

\* Mutant: the rollback-key scan uses a wrong prefix and finds nothing.
NextRollbackTargetsNone == {}

\* next_rollback_change: it may return any target whose rollback key is
\* still persisted (the order is unspecified).
NextRollbackTargets == PendingTargets

\* MergedChanges::serialize: fails (None) on an empty change set; the
\* compact bitmap encoding round-trips, so the payload is the set triple.
Serialize(ch) == IF ch = NoChanges THEN Nothing ELSE ch

\* apply_rollback_updates: each record restores the leader's version of its
\* document, all in one write batch.
ApplyRecords(recs) ==
    [t \in Targets |-> [d \in DocIds |->
        IF [target |-> t, id |-> d] \in recs THEN LeaderCopy(t, d)
                                           ELSE local[t][d]]]

\* A round returns None: the State it was given is gone (it was moved into
\* the call), so the follower is left Synchronized, and the leader's
\* send_request sees None.
Abort ==
    /\ faults < MaxFaults
    /\ faults' = faults + 1
    /\ pc' = "idle"
    /\ response' = [type |-> "None"]
    /\ UNCHANGED <<local, leader, keys, state, target, changes, updates,
                   request, remaining, synced>>

\* A round returns Some((state, response)).
Reply(st, resp) ==
    /\ pc' = "idle"
    /\ state' = st
    /\ response' = resp

-----------------------------------------------------------------------------
(* The follower's caller: entering handle_rollback_updates                 *)

\* A synchronisation request while no rollback is in memory: the follower
\* asks storage for the next pending rollback target and calls
\* handle_rollback_updates with no update records (as the loop does from
\* line 130 on).
BeginRollback ==
    /\ pc = "idle"
    /\ request.type = "Synchronize"
    /\ state = Synchronized
    /\ request' = Nothing
    /\ pc' = "next"
    /\ updates' = NoUpdates
    /\ UNCHANGED <<local, leader, keys, state, target, changes, response,
                   remaining, synced, faults>>

\* AppendEntries carrying update records while in State::Rollback: the
\* follower moves the stored target and changes into handle_rollback_updates
\* (leaving State::default() behind) together with the records.
ResumeRollback ==
    /\ pc = "idle"
    /\ request.type = "AppendEntries"
    /\ state.mode = "Rollback"
    /\ request' = Nothing
    /\ pc' = "inserts"
    /\ target' = state.target
    /\ changes' = state.changes
    /\ updates' = request.updates
    /\ state' = Synchronized
    /\ UNCHANGED <<local, leader, keys, response, remaining, synced, faults>>

-----------------------------------------------------------------------------
(* handle_rollback_updates, one action per await                           *)
(* Each helper below that models a line of the handler is preceded by a    *)
(* variant with a plausible bug in it ("mutant"): substituted for the      *)
(* helper, it shows which property notices that bug.                       *)

\* Lines 50-54: Collection::Thread holds no records, only change tracking.
ThreadDiscarded(t, ch) == IF t \in ThreadTargets THEN NoChanges ELSE ch

\* Mutant: the inserts and the updates are taken for deletion.
TakenInsertsAndUpdates(ch) == ch.inserts \cup ch.updates

\* Line 57: std::mem::take(&mut changes.inserts).
TakenInserts(ch) == ch.inserts

\* Lines 58-68: the spawned worker deletes ids of t in one write batch.
DeleteDocuments(t, ids) ==
    [local EXCEPT ![t] = [d \in DocIds |-> IF d \in ids THEN "absent" ELSE @[d]]]

\* Lines 48-73: a Thread target's changes are discarded; the remaining
\* inserts are taken out of changes and deleted; a failed batch ends the
\* round with None.
RollbackInserts ==
    /\ pc = "inserts"
    /\ LET ch == ThreadDiscarded(target, changes)
       IN  \/ /\ ch.inserts = {}
              /\ changes' = ch
              /\ pc' = "updates"
              /\ UNCHANGED <<local, state, response, faults>>
           \/ /\ ch.inserts # {}
              /\ local' = DeleteDocuments(target, TakenInserts(ch))
              /\ changes' = [ch EXCEPT !.inserts = {}]
              /\ pc' = "updates"
              /\ UNCHANGED <<state, response, faults>>
           \/ /\ ch.inserts # {}
              /\ Abort
    /\ UNCHANGED <<leader, keys, target, updates, request, remaining, synced>>

\* Mutant: is_done leaves updates and deletes in changes.
KeptOnDone(ch) == ch

\* Lines 78-80: once every record is undone, updates and deletes are done.
ClearedOnDone(ch) == [ch EXCEPT !.updates = {}, !.deletes = {}]

\* Lines 75-99: the update records are undone; when the leader's last batch
\* has been applied, updates and deletes are cleared, otherwise the round
\* stops with Continue and the state kept for the next batch.
ApplyRollbackUpdates ==
    /\ pc = "updates"
    /\ \/ /\ updates = NoUpdates
          /\ pc' = "pending"
          /\ UNCHANGED <<local, state, changes, updates, response, faults>>
       \/ /\ updates # NoUpdates
          /\ local' = ApplyRecords(updates.records)
          /\ updates.eof
          /\ changes' = ClearedOnDone(changes)
          /\ updates' = NoUpdates
          /\ pc' = "pending"
          /\ UNCHANGED <<state, response, faults>>
       \/ /\ updates # NoUpdates
          /\ local' = ApplyRecords(updates.records)
          /\ ~updates.eof
          /\ Reply(Rollback(target, changes), [type |-> "Continue"])
          /\ UNCHANGED <<changes, updates, faults>>
       \/ /\ updates # NoUpdates
          /\ Abort
    /\ UNCHANGED <<leader, keys, target, request, remaining, synced>>

\* Mutant: only the deletes are checked.
DeletesLeft(ch) == ch.deletes # {}

\* Line 101: !changes.deletes.is_empty() || !changes.updates.is_empty().
RollbackLeft(ch) == ch.deletes \cup ch.updates # {}

\* Lines 101-128: deletes or updates still to roll back are sent to the
\* leader (is_rollback: true) and the state kept; otherwise the target's
\* persisted rollback key is removed.
RequestOrRemove ==
    /\ pc = "pending"
    /\ \/ /\ RollbackLeft(changes)
          /\ IF Serialize(changes) = Nothing
             THEN Abort
             ELSE /\ Reply(Rollback(target, changes),
                           [type |-> "Update", target |-> target,
                            changes |-> Serialize(changes)])
                  /\ UNCHANGED <<keys, faults>>
       \/ /\ ~RollbackLeft(changes)
          /\ keys' = [keys EXCEPT ![target] = NoChanges]
          /\ pc' = "next"
          /\ UNCHANGED <<state, response, faults>>
       \/ /\ ~RollbackLeft(changes)
          /\ Abort
    /\ UNCHANGED <<local, leader, target, changes, updates, request,
                   remaining, synced>>

\* Lines 130-160: the next pending rollback target is taken up in the same
\* round; when none is left the follower answers Match with its last log;
\* an error of either lookup ends the round with None.
NextRollbackChange ==
    /\ pc = "next"
    /\ \/ \E t \in NextRollbackTargets :
             /\ target' = t
             /\ changes' = keys[t]
             /\ pc' = "inserts"
             /\ UNCHANGED <<state, response, faults>>
       \/ /\ NextRollbackTargets = {}
          /\ Reply(Synchronized, [type |-> "Match"])
          /\ UNCHANGED <<target, changes, faults>>
       \/ Abort
    /\ UNCHANGED <<local, leader, keys, updates, request, remaining, synced>>

-----------------------------------------------------------------------------
(* Environment                                                             *)

\* The follower restarts: memory is lost, storage survives, the connection
\* drops and the leader's pending send_request resolves to None.
Restart ==
    /\ ~synced
    /\ faults < MaxFaults
    /\ faults' = faults + 1
    /\ pc' = "idle"
    /\ state' = Synchronized
    /\ request' = Nothing
    /\ response' = [type |-> "None"]
    /\ UNCHANGED <<local, leader, keys, target, changes, updates, remaining,
                   synced>>

\* The leader answers the follower's response: update records in batches
\* for an Update or Continue, done on Match, a new synchronisation on None.
Leader ==
    /\ response # Nothing
    /\ response' = Nothing
    /\ \/ /\ response.type \in {"Update", "Continue"}
          /\ LET pool == IF response.type = "Update"
                         THEN {[target |-> response.target, id |-> d] :
                                 d \in response.changes.updates
                                         \cup response.changes.deletes}
                         ELSE remaining
             IN  \E batch \in (SUBSET pool) \ {{}} :
                    /\ request' = [type |-> "AppendEntries",
                                   updates |-> [records |-> batch,
                                                eof |-> batch = pool]]
                    /\ remaining' = pool \ batch
          /\ UNCHANGED synced
       \/ /\ response.type = "Match"
          /\ synced' = TRUE
          /\ UNCHANGED <<request, remaining>>
       \/ /\ response.type = "None"
          /\ request' = [type |-> "Synchronize"]
          /\ remaining' = {}
          /\ UNCHANGED synced
    /\ UNCHANGED <<local, leader, keys, state, pc, target, changes, updates,
                   faults>>

\* The exchange is over once the leader has the follower's Match.
Finished ==
    /\ synced
    /\ UNCHANGED vars

-----------------------------------------------------------------------------
(* The initial state: the follower has applied speculative changes on top  *)
(* of the leader's log and persisted, per target, the merged changes that  *)
(* roll them back. A Thread target holds no records.                       *)

Class == {"inserted", "updated", "deleted", "present", "absent"}

Init ==
    /\ \E h \in [Targets -> [DocIds -> Class]] :
          /\ keys = [t \in Targets |->
                       [inserts |-> {d \in DocIds : h[t][d] = "inserted"},
                        updates |-> {d \in DocIds : h[t][d] = "updated"},
                        deletes |-> {d \in DocIds : h[t][d] = "deleted"}]]
          /\ leader = [t \in Targets |->
                         IF t \in ThreadTargets THEN {}
                         ELSE {d \in DocIds :
                                 h[t][d] \in {"updated", "deleted", "present"}}]
          /\ local = [t \in Targets |-> [d \in DocIds |->
                        IF t \in ThreadTargets THEN "absent"
                        ELSE CASE h[t][d] \in {"inserted", "updated"} -> "speculative"
                               [] h[t][d] = "present" -> "leader"
                               [] OTHER -> "absent"]]
    /\ state = Synchronized
    /\ pc = "idle"
    /\ target \in Targets
    /\ changes = NoChanges
    /\ updates = NoUpdates
    /\ request = [type |-> "Synchronize"]
    /\ response = Nothing
    /\ remaining = {}
    /\ synced = FALSE
    /\ faults = 0

Next ==
    \/ BeginRollback
    \/ ResumeRollback
    \/ RollbackInserts
    \/ ApplyRollbackUpdates
    \/ RequestOrRemove
    \/ NextRollbackChange
    \/ Restart
    \/ Leader
    \/ Finished

\* The follower's task and the leader are scheduled by the async runtime and
\* always run again; failures and restarts are not obliged to happen.
Fairness ==
    /\ WF_vars(BeginRollback)
    /\ WF_vars(ResumeRollback)
    /\ WF_vars(RollbackInserts)
    /\ WF_vars(ApplyRollbackUpdates)
    /\ WF_vars(RequestOrRemove)
    /\ WF_vars(NextRollbackChange)
    /\ WF_vars(Leader)

Spec == Init /\ [][Next]_vars /\ Fairness

-----------------------------------------------------------------------------
(* Properties                                                              *)

\* Every variable of the exchange is of its type; the fault counter stays
\* within its bound.
TypeOK ==
    /\ local \in [Targets -> [DocIds -> DocState]]
    /\ leader \in [Targets -> SUBSET DocIds]
    /\ keys \in [Targets -> MergedChanges]
    /\ state \in FollowerState
    /\ pc \in {"idle", "inserts", "updates", "pending", "next"}
    /\ target \in Targets
    /\ changes \in MergedChanges
    /\ updates \in UpdateBatch
    /\ request \in Request \cup {Nothing}
    /\ response \in Response \cup {Nothing}
    /\ remaining \in SUBSET UpdateRecord
    /\ synced \in BOOLEAN
    /\ faults \in 0..MaxFaults

\* Crash safety of the persisted rollback keys: every document whose local
\* copy differs from the leader's is still named by its target's persisted
\* rollback change, so a restart at any point (the key is removed at line
\* 125 only after lines 56-99 restored the target) can finish the rollback.
DivergenceRecorded ==
    \A t \in Targets : Diverged(t) \subseteq Touched(keys[t])

\* When the leader receives Match (lines 137-154) every target of the
\* follower agrees with the leader's log and no rollback is left pending.
MatchImpliesConverged ==
    synced => /\ PendingTargets = {}
              /\ \A t \in Targets : Diverged(t) = {}

\* The rollback never destroys a document that is in the leader's log: the
\* batch of lines 59-67 only deletes the speculative inserts.
NeverDeletesConfirmed ==
    [][\A t \in Targets, d \in DocIds :
          (d \in leader[t] /\ local[t][d] # "absent") => local'[t][d] # "absent"
      ]_vars

\* With failures and restarts bounded, the exchange ends in Match: rounds
\* resumed from State::Rollback or from the persisted keys make progress.
RollbackConverges == <>synced

-----------------------------------------------------------------------------
(* Refinement of RollbackContract                                          *)

\* A target is pending while its rollback key is persisted.
Contract == INSTANCE RollbackContract WITH pending <- PendingTargets

\* The rollback exchange, failures and restarts included, is a behaviour of
\* the contract: every write of the delete batch (lines 58-68) and of
\* apply_rollback_updates restores the leader's version, the key of line
\* 125 is removed only once its target agrees with the leader, and Match
\* (lines 137-154) reaches the leader only once no key is left.
ImplementsContract == Contract!SafetySpec

=============================================================================
