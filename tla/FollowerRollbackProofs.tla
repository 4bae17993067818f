----------------------- MODULE FollowerRollbackProofs -----------------------
(***************************************************************************)
(* Proofs about FollowerRollback: type correctness, and that the persisted *)
(* rollback keys always name every document whose local copy differs from *)
(* the leader's (DivergenceRecorded), whatever the number of targets,      *)
(* documents and faults.                                                   *)
(***************************************************************************)
EXTENDS FollowerRollback, TLAPS

\* The ids of the update records of target t in a set of records.
RecIds(recs, t) == {r.id : r \in {r \in recs : r.target = t}}

\* What is still to be restored of the round's target once the inserts are
\* gone: the records in hand and those the leader still holds, or, with no
\* records in hand, the updates and deletes of changes.
StillRestorable ==
    IF updates = NoUpdates
    THEN changes.updates \cup changes.deletes
    ELSE RecIds(updates.records, target) \cup RecIds(remaining, target)

\* A Thread target holds no records on the leader, nor diverged ones locally.
ThreadEmpty ==
    \A t \in ThreadTargets : leader[t] = {} /\ Diverged(t) = {}

\* Persisted inserts are documents the leader does not have.
InsertsUnconfirmed ==
    \A t \in Targets : keys[t].inserts \cap leader[t] = {}

\* Within a round, every diverged document of the round's target will be
\* restored by a later step of the round or of the exchange.
RoundCovers ==
    /\ pc # "idle" => request = Nothing /\ response = Nothing
    /\ pc = "inserts" =>
          /\ changes.inserts \cap leader[target] = {}
          /\ Diverged(target) \subseteq changes.inserts \cup StillRestorable
    /\ pc = "updates" => Diverged(target) \subseteq StillRestorable
    /\ pc \in {"updates", "pending"} => changes.inserts = {}
    /\ pc \in {"inserts", "updates"} /\ updates # NoUpdates =>
          /\ updates.records # {}
          /\ updates.eof <=> remaining = {}
    /\ pc \in {"pending", "next"} => updates = NoUpdates
    /\ pc = "pending" =>
          Diverged(target) \subseteq changes.updates \cup changes.deletes

\* Between rounds, the message in flight and the State::Rollback kept
\* account for every diverged document of the target being rolled back.
ExchangeCovers ==
    /\ request = Nothing \/ response = Nothing
    /\ state.mode = "Rollback" => state.changes.inserts = {}
    /\ request.type = "AppendEntries" =>
          /\ state.mode = "Rollback"
          /\ request.updates.records # {}
          /\ request.updates.eof <=> remaining = {}
          /\ Diverged(state.target) \subseteq
                 RecIds(request.updates.records, state.target)
                     \cup RecIds(remaining, state.target)
    /\ response.type = "Update" =>
          /\ state.mode = "Rollback"
          /\ state.target = response.target
          /\ response.changes.updates \cup response.changes.deletes # {}
          /\ Diverged(response.target) \subseteq
                 response.changes.updates \cup response.changes.deletes
    /\ response.type = "Continue" =>
          /\ state.mode = "Rollback"
          /\ Diverged(state.target) \subseteq RecIds(remaining, state.target)
          /\ remaining # {}

\* The inductive invariant.
IInv ==
    /\ TypeOK
    /\ DivergenceRecorded
    /\ ThreadEmpty
    /\ InsertsUnconfirmed
    /\ RoundCovers
    /\ ExchangeCovers

-----------------------------------------------------------------------------
(* Type correctness                                                        *)

USE ConstantsAssumption DEF ConstantsAssumption

LEMMA InitTypeOK == Init => TypeOK
<1> SUFFICES ASSUME Init PROVE TypeOK
    OBVIOUS
<1>1. PICK h \in [Targets -> [DocIds -> Class]] :
        /\ keys = [t \in Targets |->
                     [inserts |-> {d \in DocIds : h[t][d] = "inserted"},
                      updates |-> {d \in DocIds : h[t][d] = "updated"},
                      deletes |-> {d \in DocIds : h[t][d] = "deleted"}]]
        /\ leader = [t \in Targets |->
                       IF t \in ThreadTargets THEN {}
                       ELSE {d \in DocIds :
                               h[t][d] \in {"updated", "deleted", "present"}}]
        /\ local = [t \in Targets |-> [d \in DocIds |->
                      IF t \in ThreadTargets THEN "absent"
                      ELSE CASE h[t][d] \in {"inserted", "updated"} -> "speculative"
                             [] h[t][d] = "present" -> "leader"
                             [] OTHER -> "absent"]]
    BY DEF Init
<1>2. local \in [Targets -> [DocIds -> DocState]]
    BY <1>1 DEF DocState
<1>3. keys \in [Targets -> MergedChanges]
    BY <1>1 DEF MergedChanges
<1>4. leader \in [Targets -> SUBSET DocIds]
    BY <1>1
<1>5. state \in FollowerState
    BY DEF Init, FollowerState
<1>6. changes \in MergedChanges /\ updates \in UpdateBatch
    BY DEF Init, MergedChanges, NoChanges, UpdateBatch, NoUpdates
<1>7. request \in Request \cup {Nothing} /\ response \in Response \cup {Nothing}
    BY DEF Init, Request, Response
<1>8. /\ pc \in {"idle", "inserts", "updates", "pending", "next"}
      /\ target \in Targets
      /\ remaining \in SUBSET UpdateRecord
      /\ synced \in BOOLEAN
    BY DEF Init
<1>9. faults \in 0..MaxFaults
    BY DEF Init
<1>10. QED
    BY <1>2, <1>3, <1>4, <1>5, <1>6, <1>7, <1>8, <1>9 DEF TypeOK

\* Restoring documents from update records keeps the store well typed.
LEMMA ApplyRecordsType ==
    ASSUME TypeOK, NEW recs \in SUBSET UpdateRecord
    PROVE  ApplyRecords(recs) \in [Targets -> [DocIds -> DocState]]
BY DEF TypeOK, ApplyRecords, LeaderCopy, DocState

\* Deleting documents keeps the store well typed.
LEMMA DeleteDocumentsType ==
    ASSUME TypeOK, NEW t \in Targets, NEW ids
    PROVE  DeleteDocuments(t, ids) \in [Targets -> [DocIds -> DocState]]
BY DEF TypeOK, DeleteDocuments, DocState

LEMMA AbortTypeOK == TypeOK /\ Abort => TypeOK'
BY DEF TypeOK, Abort, Response

LEMMA StepTypeOK == TypeOK /\ [Next]_vars => TypeOK'
<1> SUFFICES ASSUME TypeOK, [Next]_vars PROVE TypeOK'
    OBVIOUS
<1>1. CASE BeginRollback
    BY <1>1 DEF BeginRollback, TypeOK, UpdateBatch, NoUpdates, Nothing
<1>2. CASE ResumeRollback
    BY <1>2 DEF ResumeRollback, TypeOK, FollowerState, Synchronized, Request,
       Nothing
<1>3. CASE RollbackInserts
    <2> DEFINE ch == ThreadDiscarded(target, changes)
    <2>1. ch \in MergedChanges
        BY DEF ThreadDiscarded, TypeOK, NoChanges, MergedChanges
    <2>2. TakenInserts(ch) \subseteq DocIds
        BY <2>1 DEF TakenInserts, MergedChanges
    <2>3. [ch EXCEPT !.inserts = {}] \in MergedChanges
        BY <2>1 DEF MergedChanges
    <2>4. local' \in [Targets -> [DocIds -> DocState]]
        BY <1>3, DeleteDocumentsType DEF RollbackInserts, TypeOK, Abort
    <2>5. changes' \in MergedChanges
        BY <1>3, <2>1, <2>3 DEF RollbackInserts, TypeOK, Abort
    <2>6. /\ pc' \in {"idle", "inserts", "updates", "pending", "next"}
          /\ faults' \in 0..MaxFaults
          /\ response' \in Response \cup {Nothing}
        BY <1>3 DEF RollbackInserts, TypeOK, Abort, Response
    <2>7. UNCHANGED <<leader, keys, state, target, updates, request,
                      remaining, synced>>
        BY <1>3 DEF RollbackInserts, Abort
    <2>8. QED
        BY <2>4, <2>5, <2>6, <2>7 DEF TypeOK
<1>4. CASE ApplyRollbackUpdates
    <2>1. ClearedOnDone(changes) \in MergedChanges
        BY DEF ClearedOnDone, TypeOK, MergedChanges
    <2>2. Rollback(target, changes) \in FollowerState
        BY DEF Rollback, FollowerState, TypeOK
    <2>3. updates.records \in SUBSET UpdateRecord
        BY DEF TypeOK, UpdateBatch
    <2>4. local' \in [Targets -> [DocIds -> DocState]]
        BY <1>4, <2>3, ApplyRecordsType DEF ApplyRollbackUpdates, TypeOK, Abort
    <2>5. changes' \in MergedChanges
        BY <1>4, <2>1 DEF ApplyRollbackUpdates, TypeOK, Abort, Reply
    <2>8. updates' \in UpdateBatch
        <3>1. NoUpdates \in UpdateBatch
            BY DEF NoUpdates, UpdateBatch
        <3>2. QED
            BY <1>4, <3>1 DEF ApplyRollbackUpdates, TypeOK, Abort, Reply
    <2>6. /\ pc' \in {"idle", "inserts", "updates", "pending", "next"}
          /\ faults' \in 0..MaxFaults
          /\ response' \in Response \cup {Nothing}
          /\ state' \in FollowerState
        BY <1>4, <2>2 DEF ApplyRollbackUpdates, TypeOK, Abort, Reply, Response
    <2>9. UNCHANGED <<leader, keys, target, request, remaining, synced>>
        BY <1>4 DEF ApplyRollbackUpdates, Abort
    <2>10. QED
        BY <2>4, <2>5, <2>6, <2>8, <2>9 DEF TypeOK
<1>5. CASE RequestOrRemove
    <2>1. Rollback(target, changes) \in FollowerState
        BY DEF Rollback, FollowerState, TypeOK
    <2>2. RollbackLeft(changes) =>
             [type |-> "Update", target |-> target,
              changes |-> Serialize(changes)] \in Response
        BY DEF RollbackLeft, Serialize, Response, TypeOK, NoChanges
    <2>3. [keys EXCEPT ![target] = NoChanges] \in [Targets -> MergedChanges]
        BY DEF TypeOK, NoChanges, MergedChanges
    <2>4. QED
        BY <1>5, <2>1, <2>2, <2>3, AbortTypeOK
        DEF RequestOrRemove, Reply, TypeOK
<1>6. CASE NextRollbackChange
    <2>1. Synchronized \in FollowerState /\ [type |-> "Match"] \in Response
        BY DEF Synchronized, FollowerState, Response
    <2>2. QED
        BY <1>6, <2>1, AbortTypeOK
        DEF NextRollbackChange, NextRollbackTargets, PendingTargets, Reply,
            TypeOK
<1>7. CASE Restart
    BY <1>7 DEF Restart, TypeOK, Synchronized, FollowerState, Response, Nothing
<1>8. CASE Leader
    <2>1. CASE response.type \in {"Update", "Continue"}
        <3> DEFINE pool == IF response.type = "Update"
                           THEN {[target |-> response.target, id |-> d] :
                                   d \in response.changes.updates
                                           \cup response.changes.deletes}
                           ELSE remaining
        <3>1. pool \in SUBSET UpdateRecord
            BY <2>1 DEF TypeOK, Response, Nothing, UpdateRecord, MergedChanges
        <3>2. ASSUME NEW batch \in SUBSET pool
              PROVE  /\ [type |-> "AppendEntries",
                         updates |-> [records |-> batch,
                                      eof |-> batch = pool]] \in Request
                     /\ pool \ batch \in SUBSET UpdateRecord
            BY <3>1 DEF Request, UpdateBatch
        <3>3. PICK batch \in (SUBSET pool) \ {{}} :
                    /\ request' = [type |-> "AppendEntries",
                                   updates |-> [records |-> batch,
                                                eof |-> batch = pool]]
                    /\ remaining' = pool \ batch
            BY <1>8, <2>1 DEF Leader
        <3>4. /\ UNCHANGED <<local, leader, keys, state, pc, target, changes,
                             updates, faults, synced>>
              /\ response' = Nothing
            BY <1>8, <2>1 DEF Leader
        <3>5. QED
            BY <3>2, <3>3, <3>4 DEF TypeOK, Nothing, Response
    <2>2. CASE response.type \notin {"Update", "Continue"}
        BY <1>8, <2>2 DEF Leader, TypeOK, Nothing, Request
    <2>3. QED
        BY <2>1, <2>2
<1>9. CASE Finished
    BY <1>9 DEF Finished, TypeOK, vars
<1>10. CASE UNCHANGED vars
    BY <1>10 DEF vars, TypeOK
<1>11. QED
    BY <1>1, <1>2, <1>3, <1>4, <1>5, <1>6, <1>7, <1>8, <1>9, <1>10 DEF Next

\* The follower's variables always have the types TypeOK gives them.
THEOREM TypeCorrect == Spec => []TypeOK
<1>1. Init => TypeOK
    BY InitTypeOK
<1>2. TypeOK /\ [Next]_vars => TypeOK'
    BY StepTypeOK
<1>3. QED
    BY <1>1, <1>2, PTL DEF Spec

-----------------------------------------------------------------------------
(* DivergenceRecorded                                                      *)

\* A target's divergence depends only on its local copy and the leader's.
LEMMA DivergedFrame ==
    ASSUME NEW t, local'[t] = local[t], leader'[t] = leader[t]
    PROVE  Diverged(t)' = Diverged(t)
BY DEF Diverged, LeaderCopy

\* Applying update records restores exactly the documents they name.
LEMMA DivergedApply ==
    ASSUME TypeOK, NEW recs \in SUBSET UpdateRecord, NEW t \in Targets,
           local' = ApplyRecords(recs), leader' = leader
    PROVE  Diverged(t)' = Diverged(t) \ RecIds(recs, t)
<1>1. \A d \in DocIds : d \in RecIds(recs, t) <=> [target |-> t, id |-> d] \in recs
    BY DEF RecIds, UpdateRecord
<1>2. QED
    BY <1>1 DEF Diverged, ApplyRecords, LeaderCopy, TypeOK

\* Deleting documents the leader does not have restores exactly those.
LEMMA DivergedDelete ==
    ASSUME TypeOK, NEW t \in Targets, NEW ids, ids \cap leader[t] = {},
           local' = DeleteDocuments(t, ids), leader' = leader
    PROVE  /\ Diverged(t)' = Diverged(t) \ ids
           /\ \A u \in Targets \ {t} : Diverged(u)' = Diverged(u)
BY DEF Diverged, DeleteDocuments, LeaderCopy, TypeOK

\* The three store-level conjuncts survive a step that leaves the store,
\* the leader and the keys alone.
LEMMA StoreFrame ==
    ASSUME IInv, UNCHANGED <<local, leader, keys>>
    PROVE  DivergenceRecorded' /\ ThreadEmpty' /\ InsertsUnconfirmed'
BY DEF IInv, DivergenceRecorded, ThreadEmpty, InsertsUnconfirmed, Diverged,
       LeaderCopy, Touched

\* A round that ends with None leaves nothing to cover.
LEMMA AbortIInv ==
    ASSUME IInv, pc # "idle", Abort
    PROVE  IInv'
<1>1. TypeOK'
    BY AbortTypeOK DEF IInv
<1>2. DivergenceRecorded' /\ ThreadEmpty' /\ InsertsUnconfirmed'
    BY StoreFrame DEF Abort
<1>3. request = Nothing
    BY DEF IInv, RoundCovers
<1>4. RoundCovers'
    BY DEF Abort, RoundCovers
<1>5. ExchangeCovers'
    BY <1>3 DEF Abort, ExchangeCovers, IInv, Nothing
<1>6. QED
    BY <1>1, <1>2, <1>4, <1>5 DEF IInv

LEMMA BeginRollbackIInv ==
    ASSUME IInv, BeginRollback
    PROVE  IInv'
<1>1. TypeOK'
    BY StepTypeOK DEF IInv, Next
<1>2. DivergenceRecorded' /\ ThreadEmpty' /\ InsertsUnconfirmed'
    BY StoreFrame DEF BeginRollback
<1>3. response = Nothing
    BY DEF BeginRollback, IInv, ExchangeCovers, Nothing
<1>4. RoundCovers'
    BY <1>3 DEF BeginRollback, RoundCovers
<1>5. ExchangeCovers'
    BY <1>3 DEF BeginRollback, ExchangeCovers, IInv, Nothing
<1>6. QED
    BY <1>1, <1>2, <1>4, <1>5 DEF IInv

LEMMA ResumeRollbackIInv ==
    ASSUME IInv, ResumeRollback
    PROVE  IInv'
<1>1. TypeOK'
    BY StepTypeOK DEF IInv, Next
<1>2. DivergenceRecorded' /\ ThreadEmpty' /\ InsertsUnconfirmed'
    BY StoreFrame DEF ResumeRollback
<1>3. /\ response = Nothing
      /\ state.mode = "Rollback"
      /\ state.changes.inserts = {}
      /\ request.updates.records # {}
      /\ request.updates.eof <=> remaining = {}
      /\ Diverged(state.target) \subseteq
             RecIds(request.updates.records, state.target)
                 \cup RecIds(remaining, state.target)
    BY DEF ResumeRollback, IInv, ExchangeCovers, Nothing
<1>4. /\ \A t \in Targets : Diverged(t)' = Diverged(t)
      /\ target' = state.target
      /\ state.target \in Targets
    BY DEF ResumeRollback, Diverged, LeaderCopy, IInv, TypeOK, FollowerState,
       Synchronized
<1>5. updates' # NoUpdates
    BY <1>3 DEF ResumeRollback, NoUpdates
<1>6. RoundCovers'
    BY <1>3, <1>4, <1>5 DEF ResumeRollback, RoundCovers, StillRestorable
<1>7. ExchangeCovers'
    BY <1>3 DEF ResumeRollback, ExchangeCovers, Synchronized, Nothing
<1>8. QED
    BY <1>1, <1>2, <1>6, <1>7 DEF IInv

LEMMA RestartIInv ==
    ASSUME IInv, Restart
    PROVE  IInv'
<1>1. TypeOK'
    BY StepTypeOK DEF IInv, Next
<1>2. DivergenceRecorded' /\ ThreadEmpty' /\ InsertsUnconfirmed'
    BY StoreFrame DEF Restart
<1>3. RoundCovers'
    BY DEF Restart, RoundCovers
<1>4. ExchangeCovers'
    BY DEF Restart, ExchangeCovers, Synchronized, Nothing
<1>5. QED
    BY <1>1, <1>2, <1>3, <1>4 DEF IInv

\* The records made for a change set name exactly its updates and deletes.
LEMMA RecIdsOfChanges ==
    ASSUME NEW t, NEW ids
    PROVE  RecIds({[target |-> t, id |-> d] : d \in ids}, t) = ids
<1> DEFINE recs == {[target |-> t, id |-> d] : d \in ids}
<1>1. \A r \in recs : r.target = t
    OBVIOUS
<1>2. {r \in recs : r.target = t} = recs
    BY <1>1, Zenon
<1>3. {r.id : r \in recs} = ids
    <2>1. ASSUME NEW d \in ids PROVE d \in {r.id : r \in recs}
        <3>1. [target |-> t, id |-> d] \in recs
            OBVIOUS
        <3>2. [target |-> t, id |-> d].id = d
            OBVIOUS
        <3>3. QED
            BY <3>1, <3>2
    <2>2. ASSUME NEW r \in recs PROVE r.id \in ids
        OBVIOUS
    <2>3. QED
        BY <2>1, <2>2, Zenon
<1>4. QED
    BY <1>2, <1>3 DEF RecIds

\* Splitting records into a batch and the rest splits their ids.
LEMMA RecIdsSplit ==
    ASSUME NEW pool, NEW batch \in SUBSET pool, NEW t
    PROVE  RecIds(batch, t) \cup RecIds(pool \ batch, t) = RecIds(pool, t)
BY DEF RecIds

LEMMA LeaderIInv ==
    ASSUME IInv, Leader
    PROVE  IInv'
<1>1. TypeOK'
    BY StepTypeOK DEF IInv, Next
<1>2. DivergenceRecorded' /\ ThreadEmpty' /\ InsertsUnconfirmed'
    BY StoreFrame DEF Leader
<1>3. /\ pc = "idle"
      /\ request = Nothing
    BY DEF Leader, IInv, RoundCovers, ExchangeCovers
<1>4. RoundCovers'
    BY <1>3 DEF Leader, RoundCovers
<1>5. \A t \in Targets : Diverged(t)' = Diverged(t)
    BY DEF Leader, Diverged, LeaderCopy
<1>6. CASE response.type \in {"Update", "Continue"}
    <2> DEFINE pool == IF response.type = "Update"
                       THEN {[target |-> response.target, id |-> d] :
                               d \in response.changes.updates
                                       \cup response.changes.deletes}
                       ELSE remaining
    <2>1. /\ state.mode = "Rollback"
          /\ state.changes.inserts = {}
          /\ state.target \in Targets
          /\ Diverged(state.target) \subseteq RecIds(pool, state.target)
          /\ pool # {}
        <3>1. CASE response.type = "Update"
            <4>1. /\ state.mode = "Rollback"
                  /\ state.target = response.target
                  /\ Diverged(response.target) \subseteq
                         response.changes.updates \cup response.changes.deletes
                BY <3>1 DEF IInv, ExchangeCovers
            <4>2. RecIds(pool, state.target)
                     = response.changes.updates \cup response.changes.deletes
                BY <3>1, <4>1, RecIdsOfChanges
            <4>3. response.changes.updates \cup response.changes.deletes # {}
                BY <3>1 DEF IInv, ExchangeCovers
            <4>4. pool # {}
                BY <3>1, <4>3
            <4>5. state.target \in Targets /\ state.changes.inserts = {}
                BY <4>1 DEF IInv, ExchangeCovers, TypeOK, FollowerState,
                   Synchronized
            <4>6. QED
                BY <3>1, <4>1, <4>2, <4>4, <4>5
        <3>2. CASE response.type = "Continue"
            BY <3>2 DEF IInv, ExchangeCovers, TypeOK, FollowerState,
               Synchronized
        <3>3. QED
            BY <1>6, <3>1, <3>2
    <2>2. PICK batch \in (SUBSET pool) \ {{}} :
                /\ request' = [type |-> "AppendEntries",
                               updates |-> [records |-> batch,
                                            eof |-> batch = pool]]
                /\ remaining' = pool \ batch
        BY <1>6 DEF Leader
    <2>3. UNCHANGED state
        BY DEF Leader
    <2>4. RecIds(batch, state.target) \cup RecIds(remaining', state.target)
              = RecIds(pool, state.target)
        BY <2>2, RecIdsSplit
    <2>5. (batch = pool) <=> remaining' = {}
        BY <2>2
    <2>6. Diverged(state.target)' \subseteq
              RecIds(batch, state.target) \cup RecIds(remaining', state.target)
        BY <2>1, <2>3, <2>4, <1>5
    <2>7. /\ state'.mode = "Rollback"
          /\ state'.changes.inserts = {}
          /\ request'.type = "AppendEntries"
          /\ request'.updates.records = batch
          /\ batch # {}
          /\ request'.updates.eof = (batch = pool)
          /\ response' = Nothing
        BY <2>1, <2>2, <2>3 DEF Leader
    <2>8. ExchangeCovers'
        BY <2>3, <2>5, <2>6, <2>7 DEF ExchangeCovers, Nothing
    <2>9. QED
        BY <1>1, <1>2, <1>4, <2>8 DEF IInv
<1>7. CASE response.type \notin {"Update", "Continue"}
    <2>1. ExchangeCovers'
        BY <1>3, <1>7 DEF Leader, ExchangeCovers, Nothing, IInv
    <2>2. QED
        BY <1>1, <1>2, <1>4, <2>1 DEF IInv
<1>8. QED
    BY <1>6, <1>7

LEMMA RollbackInsertsIInv ==
    ASSUME IInv, RollbackInserts
    PROVE  IInv'
<1> DEFINE ch == ThreadDiscarded(target, changes)
<1>1. TypeOK'
    BY StepTypeOK DEF IInv, Next
<1>2. /\ pc = "inserts"
      /\ request = Nothing /\ response = Nothing
      /\ changes.inserts \cap leader[target] = {}
      /\ Diverged(target) \subseteq changes.inserts \cup StillRestorable
      /\ updates # NoUpdates => /\ updates.records # {}
                                /\ updates.eof <=> remaining = {}
      /\ target \in Targets
    BY DEF RollbackInserts, IInv, RoundCovers, TypeOK
<1>3. UNCHANGED <<leader, keys, target, updates, request, remaining, synced>>
    BY DEF RollbackInserts
<1>5. CASE /\ ch.inserts = {}
           /\ changes' = ch
           /\ pc' = "updates"
           /\ UNCHANGED <<local, state, response, faults>>
    <2>1. DivergenceRecorded' /\ ThreadEmpty' /\ InsertsUnconfirmed'
        BY <1>3, <1>5, StoreFrame
    <2>2. Diverged(target)' = Diverged(target)
        BY <1>3, <1>5 DEF Diverged, LeaderCopy
    <2>3. Diverged(target) \subseteq StillRestorable'
        <3>1. CASE target \in ThreadTargets
            BY <3>1 DEF IInv, ThreadEmpty
        <3>2. CASE target \notin ThreadTargets
            <4>1. changes' = changes /\ changes.inserts = {}
                BY <1>5, <3>2 DEF ThreadDiscarded
            <4>2. QED
                BY <1>2, <1>3, <4>1 DEF StillRestorable
        <3>3. QED
            BY <3>1, <3>2
    <2>4. changes'.inserts = {}
        BY <1>5
    <2>5. RoundCovers'
        BY <1>2, <1>3, <1>5, <2>2, <2>3, <2>4 DEF RoundCovers
    <2>6. ExchangeCovers'
        BY <1>2, <1>3, <1>5 DEF ExchangeCovers, IInv, Nothing
    <2>7. QED
        BY <1>1, <2>1, <2>5, <2>6 DEF IInv
<1>6. CASE /\ ch.inserts # {}
           /\ local' = DeleteDocuments(target, TakenInserts(ch))
           /\ changes' = [ch EXCEPT !.inserts = {}]
           /\ pc' = "updates"
           /\ UNCHANGED <<state, response, faults>>
    <2>1. target \notin ThreadTargets /\ ch = changes
        BY <1>6 DEF ThreadDiscarded, NoChanges
    <2>2. /\ Diverged(target)' = Diverged(target) \ changes.inserts
          /\ \A u \in Targets \ {target} : Diverged(u)' = Diverged(u)
        BY <1>2, <1>3, <1>6, <2>1, DivergedDelete DEF IInv, TakenInserts
    <2>3. \A u \in Targets : Diverged(u)' \subseteq Diverged(u)
        BY <1>2, <1>3, <2>2
    <2>4. DivergenceRecorded'
        BY <1>3, <2>3 DEF IInv, DivergenceRecorded
    <2>5. ThreadEmpty'
        BY <1>3, <2>1, <2>2 DEF IInv, ThreadEmpty
    <2>6. InsertsUnconfirmed'
        BY <1>3 DEF IInv, InsertsUnconfirmed
    <2>7. /\ changes'.inserts = {}
          /\ changes'.updates = changes.updates
          /\ changes'.deletes = changes.deletes
        BY <1>6, <2>1 DEF IInv, TypeOK, MergedChanges
    <2>8. StillRestorable' = StillRestorable
        BY <1>3, <2>7 DEF StillRestorable
    <2>9. RoundCovers'
        BY <1>2, <1>3, <1>6, <2>2, <2>7, <2>8 DEF RoundCovers
    <2>10. ExchangeCovers'
        BY <1>2, <1>3, <1>6 DEF ExchangeCovers, IInv, Nothing
    <2>11. QED
        BY <1>1, <2>4, <2>5, <2>6, <2>9, <2>10 DEF IInv
<1>7. CASE ch.inserts # {} /\ Abort
    BY <1>2, <1>7, AbortIInv
<1>8. QED
    BY <1>5, <1>6, <1>7 DEF RollbackInserts

\* Applying update records only shrinks what diverges; the store-level
\* conjuncts survive it.
LEMMA ApplyStore ==
    ASSUME IInv, NEW recs \in SUBSET UpdateRecord,
           local' = ApplyRecords(recs), UNCHANGED <<leader, keys>>
    PROVE  /\ \A t \in Targets : Diverged(t)' = Diverged(t) \ RecIds(recs, t)
           /\ DivergenceRecorded' /\ ThreadEmpty' /\ InsertsUnconfirmed'
<1>1. \A t \in Targets : Diverged(t)' = Diverged(t) \ RecIds(recs, t)
    BY DivergedApply DEF IInv
<1>2. DivergenceRecorded'
    BY <1>1 DEF IInv, DivergenceRecorded
<1>3. ThreadEmpty'
    BY <1>1 DEF IInv, ThreadEmpty, TypeOK
<1>4. InsertsUnconfirmed'
    BY DEF IInv, InsertsUnconfirmed
<1>5. QED
    BY <1>1, <1>2, <1>3, <1>4

LEMMA ApplyRollbackUpdatesIInv ==
    ASSUME IInv, ApplyRollbackUpdates
    PROVE  IInv'
<1>1. TypeOK'
    BY StepTypeOK DEF IInv, Next
<1>2. /\ pc = "updates"
      /\ request = Nothing /\ response = Nothing
      /\ changes.inserts = {}
      /\ Diverged(target) \subseteq StillRestorable
      /\ updates # NoUpdates => /\ updates.records # {}
                                /\ updates.eof <=> remaining = {}
      /\ target \in Targets
      /\ updates.records \in SUBSET UpdateRecord
    BY DEF ApplyRollbackUpdates, IInv, RoundCovers, TypeOK, UpdateBatch
<1>3. UNCHANGED <<leader, keys, target, request, remaining, synced>>
    BY DEF ApplyRollbackUpdates
<1>4. CASE /\ updates = NoUpdates
           /\ pc' = "pending"
           /\ UNCHANGED <<local, state, changes, updates, response, faults>>
    <2>1. DivergenceRecorded' /\ ThreadEmpty' /\ InsertsUnconfirmed'
        BY <1>3, <1>4, StoreFrame
    <2>2. Diverged(target)' = Diverged(target)
        BY <1>3, <1>4 DEF Diverged, LeaderCopy
    <2>3. Diverged(target) \subseteq changes.updates \cup changes.deletes
        BY <1>2, <1>4 DEF StillRestorable
    <2>4. RoundCovers'
        BY <1>2, <1>3, <1>4, <2>2, <2>3 DEF RoundCovers
    <2>5. ExchangeCovers'
        BY <1>2, <1>3, <1>4 DEF ExchangeCovers, IInv, Nothing
    <2>6. QED
        BY <1>1, <2>1, <2>4, <2>5 DEF IInv
<1>5. CASE /\ updates # NoUpdates
           /\ local' = ApplyRecords(updates.records)
           /\ updates.eof
           /\ changes' = ClearedOnDone(changes)
           /\ updates' = NoUpdates
           /\ pc' = "pending"
           /\ UNCHANGED <<state, response, faults>>
    <2>1. /\ \A t \in Targets :
                 Diverged(t)' = Diverged(t) \ RecIds(updates.records, t)
          /\ DivergenceRecorded' /\ ThreadEmpty' /\ InsertsUnconfirmed'
        BY <1>2, <1>3, <1>5, ApplyStore
    <2>2. remaining = {}
        BY <1>2, <1>5
    <2>3. Diverged(target)' = {}
        BY <1>2, <1>3, <1>5, <2>1, <2>2 DEF StillRestorable, RecIds
    <2>4. changes'.inserts = {}
        BY <1>2, <1>5 DEF ClearedOnDone
    <2>5. RoundCovers'
        BY <1>2, <1>3, <1>5, <2>3, <2>4 DEF RoundCovers
    <2>6. ExchangeCovers'
        BY <1>2, <1>3, <1>5 DEF ExchangeCovers, IInv, Nothing
    <2>7. QED
        BY <1>1, <2>1, <2>5, <2>6 DEF IInv
<1>6. CASE /\ updates # NoUpdates
           /\ local' = ApplyRecords(updates.records)
           /\ ~updates.eof
           /\ Reply(Rollback(target, changes), [type |-> "Continue"])
           /\ UNCHANGED <<changes, updates, faults>>
    <2>1. /\ \A t \in Targets :
                 Diverged(t)' = Diverged(t) \ RecIds(updates.records, t)
          /\ DivergenceRecorded' /\ ThreadEmpty' /\ InsertsUnconfirmed'
        BY <1>2, <1>3, <1>6, ApplyStore
    <2>2. remaining # {}
        BY <1>2, <1>6
    <2>3. Diverged(target)' \subseteq RecIds(remaining, target)
        BY <1>2, <1>3, <1>6, <2>1 DEF StillRestorable
    <2>4. /\ pc' = "idle"
          /\ state' = [mode |-> "Rollback", target |-> target,
                        changes |-> changes]
          /\ response' = [type |-> "Continue"]
        BY <1>6 DEF Reply, Rollback
    <2>5. RoundCovers'
        BY <2>4 DEF RoundCovers
    <2>6. ExchangeCovers'
        BY <1>2, <1>3, <2>2, <2>3, <2>4 DEF ExchangeCovers, Nothing
    <2>7. QED
        BY <1>1, <2>1, <2>5, <2>6 DEF IInv
<1>7. CASE updates # NoUpdates /\ Abort
    BY <1>2, <1>7, AbortIInv
<1>8. QED
    BY <1>4, <1>5, <1>6, <1>7 DEF ApplyRollbackUpdates

LEMMA RequestOrRemoveIInv ==
    ASSUME IInv, RequestOrRemove
    PROVE  IInv'
<1>1. TypeOK'
    BY StepTypeOK DEF IInv, Next
<1>2. /\ pc = "pending"
      /\ request = Nothing /\ response = Nothing
      /\ changes.inserts = {}
      /\ updates = NoUpdates
      /\ Diverged(target) \subseteq changes.updates \cup changes.deletes
      /\ target \in Targets
    BY DEF RequestOrRemove, IInv, RoundCovers, TypeOK
<1>3. UNCHANGED <<local, leader, target, changes, updates, request,
                  remaining, synced>>
    BY DEF RequestOrRemove
<1>4. \A t \in Targets : Diverged(t)' = Diverged(t)
    BY <1>3 DEF Diverged, LeaderCopy
<1>5. CASE RollbackLeft(changes) /\ Serialize(changes) = Nothing /\ Abort
    BY <1>2, <1>5, AbortIInv
<1>6. CASE /\ RollbackLeft(changes)
           /\ Serialize(changes) # Nothing
           /\ Reply(Rollback(target, changes),
                     [type |-> "Update", target |-> target,
                      changes |-> Serialize(changes)])
           /\ UNCHANGED <<keys, faults>>
    <2>1. DivergenceRecorded' /\ ThreadEmpty' /\ InsertsUnconfirmed'
        BY <1>3, <1>6, StoreFrame
    <2>2. Serialize(changes) = changes
        BY <1>6 DEF Serialize
    <2>3. /\ pc' = "idle"
          /\ state' = [mode |-> "Rollback", target |-> target,
                        changes |-> changes]
          /\ response' = [type |-> "Update", target |-> target,
                           changes |-> changes]
        BY <1>6, <2>2 DEF Reply, Rollback
    <2>4. changes.updates \cup changes.deletes # {}
        BY <1>6 DEF RollbackLeft
    <2>5. RoundCovers'
        BY <2>3 DEF RoundCovers
    <2>6. ExchangeCovers'
        BY <1>2, <1>3, <1>4, <2>3, <2>4 DEF ExchangeCovers, Nothing
    <2>7. QED
        BY <1>1, <2>1, <2>5, <2>6 DEF IInv
<1>7. CASE /\ ~RollbackLeft(changes)
           /\ keys' = [keys EXCEPT ![target] = NoChanges]
           /\ pc' = "next"
           /\ UNCHANGED <<state, response, faults>>
    <2>1. Diverged(target) = {}
        BY <1>2, <1>7 DEF RollbackLeft
    <2>2. DivergenceRecorded'
        BY <1>3, <1>4, <1>7, <2>1 DEF IInv, DivergenceRecorded, TypeOK
    <2>3. ThreadEmpty'
        BY <1>3, <1>4 DEF IInv, ThreadEmpty, TypeOK
    <2>4. InsertsUnconfirmed'
        BY <1>3, <1>7 DEF IInv, InsertsUnconfirmed, TypeOK, NoChanges
    <2>5. RoundCovers'
        BY <1>2, <1>3, <1>7 DEF RoundCovers
    <2>6. ExchangeCovers'
        BY <1>2, <1>3, <1>4, <1>7 DEF ExchangeCovers, IInv, Nothing
    <2>7. QED
        BY <1>1, <2>2, <2>3, <2>4, <2>5, <2>6 DEF IInv
<1>8. CASE ~RollbackLeft(changes) /\ Abort
    BY <1>2, <1>8, AbortIInv
<1>9. QED
    BY <1>5, <1>6, <1>7, <1>8 DEF RequestOrRemove

LEMMA NextRollbackChangeIInv ==
    ASSUME IInv, NextRollbackChange
    PROVE  IInv'
<1>1. TypeOK'
    BY StepTypeOK DEF IInv, Next
<1>2. /\ pc = "next"
      /\ request = Nothing /\ response = Nothing
      /\ updates = NoUpdates
    BY DEF NextRollbackChange, IInv, RoundCovers
<1>3. UNCHANGED <<local, leader, keys, updates, request, remaining, synced>>
    BY DEF NextRollbackChange
<1>4. \A t \in Targets : Diverged(t)' = Diverged(t)
    BY <1>3 DEF Diverged, LeaderCopy
<1>5. DivergenceRecorded' /\ ThreadEmpty' /\ InsertsUnconfirmed'
    BY <1>3, StoreFrame
<1>6. CASE \E t \in NextRollbackTargets :
             /\ target' = t
             /\ changes' = keys[t]
             /\ pc' = "inserts"
             /\ UNCHANGED <<state, response, faults>>
    <2>1. PICK t \in NextRollbackTargets :
             /\ target' = t
             /\ changes' = keys[t]
             /\ pc' = "inserts"
             /\ UNCHANGED <<state, response, faults>>
        BY <1>6
    <2>2. t \in Targets
        BY DEF NextRollbackTargets, PendingTargets
    <2>3. /\ keys[t].inserts \cap leader[t] = {}
          /\ Diverged(t) \subseteq Touched(keys[t])
        BY <2>2 DEF IInv, InsertsUnconfirmed, DivergenceRecorded
    <2>4. StillRestorable' = keys[t].updates \cup keys[t].deletes
        BY <1>2, <1>3, <2>1 DEF StillRestorable
    <2>5. Diverged(target') \subseteq changes'.inserts \cup StillRestorable'
        BY <2>1, <2>3, <2>4 DEF Touched
    <2>6. Diverged(target)' = Diverged(target')
        BY <1>4, <2>1, <2>2
    <2>7. RoundCovers'
        BY <1>2, <1>3, <2>1, <2>3, <2>5, <2>6 DEF RoundCovers
    <2>8. ExchangeCovers'
        BY <1>2, <1>3, <2>1 DEF ExchangeCovers, IInv, Nothing
    <2>9. QED
        BY <1>1, <1>5, <2>7, <2>8 DEF IInv
<1>7. CASE /\ NextRollbackTargets = {}
           /\ Reply(Synchronized, [type |-> "Match"])
           /\ UNCHANGED <<target, changes, faults>>
    <2>1. /\ pc' = "idle"
          /\ state' = Synchronized
          /\ response' = [type |-> "Match"]
        BY <1>7 DEF Reply
    <2>2. RoundCovers'
        BY <2>1 DEF RoundCovers
    <2>3. ExchangeCovers'
        BY <1>2, <1>3, <2>1 DEF ExchangeCovers, Nothing, Synchronized
    <2>4. QED
        BY <1>1, <1>5, <2>2, <2>3 DEF IInv
<1>8. CASE Abort
    BY <1>2, <1>8, AbortIInv
<1>9. QED
    BY <1>6, <1>7, <1>8 DEF NextRollbackChange

LEMMA FinishedIInv ==
    ASSUME IInv, UNCHANGED vars
    PROVE  IInv'
<1>1. UNCHANGED <<local, leader, keys>>
    BY DEF vars
<1>2. DivergenceRecorded' /\ ThreadEmpty' /\ InsertsUnconfirmed'
    BY <1>1, StoreFrame
<1>3. TypeOK'
    BY DEF vars, IInv, TypeOK
<1>4. \A t \in Targets : Diverged(t)' = Diverged(t)
    BY <1>1 DEF Diverged, LeaderCopy
<1>5. RoundCovers'
    BY <1>4 DEF vars, IInv, RoundCovers, StillRestorable, RecIds, TypeOK
<1>6. ExchangeCovers'
    BY <1>4 DEF vars, IInv, ExchangeCovers, RecIds, TypeOK, FollowerState,
       Synchronized
<1>7. QED
    BY <1>2, <1>3, <1>5, <1>6 DEF IInv

LEMMA StepIInv == IInv /\ [Next]_vars => IInv'
<1> SUFFICES ASSUME IInv, [Next]_vars PROVE IInv'
    OBVIOUS
<1>1. CASE BeginRollback
    BY <1>1, BeginRollbackIInv
<1>2. CASE ResumeRollback
    BY <1>2, ResumeRollbackIInv
<1>3. CASE RollbackInserts
    BY <1>3, RollbackInsertsIInv
<1>4. CASE ApplyRollbackUpdates
    BY <1>4, ApplyRollbackUpdatesIInv
<1>5. CASE RequestOrRemove
    BY <1>5, RequestOrRemoveIInv
<1>6. CASE NextRollbackChange
    BY <1>6, NextRollbackChangeIInv
<1>7. CASE Restart
    BY <1>7, RestartIInv
<1>8. CASE Leader
    BY <1>8, LeaderIInv
<1>9. CASE Finished \/ UNCHANGED vars
    BY <1>9, FinishedIInv DEF Finished
<1>10. QED
    BY <1>1, <1>2, <1>3, <1>4, <1>5, <1>6, <1>7, <1>8, <1>9 DEF Next

LEMMA InitIInv == Init => IInv
<1> SUFFICES ASSUME Init PROVE IInv
    OBVIOUS
<1>1. PICK h \in [Targets -> [DocIds -> Class]] :
        /\ keys = [t \in Targets |->
                     [inserts |-> {d \in DocIds : h[t][d] = "inserted"},
                      updates |-> {d \in DocIds : h[t][d] = "updated"},
                      deletes |-> {d \in DocIds : h[t][d] = "deleted"}]]
        /\ leader = [t \in Targets |->
                       IF t \in ThreadTargets THEN {}
                       ELSE {d \in DocIds :
                               h[t][d] \in {"updated", "deleted", "present"}}]
        /\ local = [t \in Targets |-> [d \in DocIds |->
                      IF t \in ThreadTargets THEN "absent"
                      ELSE CASE h[t][d] \in {"inserted", "updated"} -> "speculative"
                             [] h[t][d] = "present" -> "leader"
                             [] OTHER -> "absent"]]
    BY DEF Init
<1>2. TypeOK
    BY InitTypeOK
<1>3. ThreadEmpty
    <2> SUFFICES ASSUME NEW t \in ThreadTargets
                 PROVE  leader[t] = {} /\ Diverged(t) = {}
        BY DEF ThreadEmpty
    <2>1. t \in Targets
        OBVIOUS
    <2>2. leader[t] = {}
        BY <1>1, <2>1
    <2>3. \A d \in DocIds : local[t][d] = "absent"
        BY <1>1, <2>1, Zenon
    <2>4. QED
        BY <2>2, <2>3 DEF Diverged, LeaderCopy
<1>4. DivergenceRecorded
    <2> SUFFICES ASSUME NEW t \in Targets, NEW d \in Diverged(t)
                 PROVE  d \in Touched(keys[t])
        BY DEF DivergenceRecorded
    <2>1. t \notin ThreadTargets
        BY <1>3 DEF ThreadEmpty
    <2>2. h[t][d] \in {"inserted", "updated", "deleted"}
        BY <1>1, <2>1 DEF Diverged, LeaderCopy, Class
    <2>3. QED
        BY <1>1, <2>2 DEF Touched, Diverged
<1>5. InsertsUnconfirmed
    BY <1>1 DEF InsertsUnconfirmed
<1>6. RoundCovers
    BY DEF Init, RoundCovers
<1>7. ExchangeCovers
    BY DEF Init, ExchangeCovers, Nothing, Synchronized
<1>8. QED
    BY <1>2, <1>3, <1>4, <1>5, <1>6, <1>7 DEF IInv

\* IInv is an inductive invariant of the rollback exchange.
THEOREM IInvHolds == Spec => []IInv
BY InitIInv, StepIInv, PTL DEF Spec

\* Whatever the number of targets, documents and faults, every document
\* whose local copy differs from the leader's is named by the persisted
\* rollback key of its target (handle_rollback_updates removes a key at
\* line 125 only once lines 56-99 restored the target).
THEOREM DivergenceRecordedHolds == Spec => []DivergenceRecorded
<1>1. IInv => DivergenceRecorded
    BY DEF IInv
<1>2. QED
    BY <1>1, IInvHolds, PTL


-----------------------------------------------------------------------------
(* MatchImpliesConverged                                                   *)

\* Once the follower has answered Match, or the leader has it, no rollback
\* key is pending: the follower answers Match only when the key scan of
\* line 130 finds nothing, and after that keys are only ever removed.
MatchInv ==
    synced \/ response.type = "Match" => PendingTargets = {}

\* No step persists a new rollback key: keys are only removed (line 125).
LEMMA PendingShrinks ==
    ASSUME TypeOK, [Next]_vars
    PROVE  PendingTargets' \subseteq PendingTargets
<1>1. CASE RequestOrRemove
    <2>1. keys' = keys \/ keys' = [keys EXCEPT ![target] = NoChanges]
        BY <1>1 DEF RequestOrRemove, Abort, Reply
    <2>. QED BY <2>1 DEF PendingTargets, TypeOK
<1>2. CASE ~RequestOrRemove
    <2>1. keys' = keys
        BY <1>2 DEF Next, vars, BeginRollback, ResumeRollback, RollbackInserts,
           ApplyRollbackUpdates, NextRollbackChange, Restart, Leader, Finished,
           Abort, Reply
    <2>. QED BY <2>1 DEF PendingTargets
<1>. QED BY <1>1, <1>2

\* A step that leaves Match in flight or received either found it there or
\* is the Match reply of lines 137-154, made when no key is pending.
LEMMA MatchSource ==
    ASSUME TypeOK, [Next]_vars, synced' \/ response'.type = "Match"
    PROVE  synced \/ response.type = "Match" \/ PendingTargets = {}
<1>1. CASE NextRollbackChange
    BY <1>1 DEF NextRollbackChange, NextRollbackTargets, Reply, Abort
<1>2. CASE Leader
    <2>1. response'.type = "Nothing"
        BY <1>2 DEF Leader, Nothing
    <2>2. synced' => synced \/ response.type = "Match"
        BY <1>2 DEF Leader
    <2>. QED BY <2>1, <2>2
<1>3. CASE RequestOrRemove \/ RollbackInserts \/ ApplyRollbackUpdates
    BY <1>3 DEF RequestOrRemove, RollbackInserts, ApplyRollbackUpdates, Reply,
       Abort, Rollback
<1>4. CASE BeginRollback \/ ResumeRollback \/ Restart \/ Finished \/ UNCHANGED vars
    BY <1>4 DEF BeginRollback, ResumeRollback, Restart, Finished, vars
<1>. QED BY <1>1, <1>2, <1>3, <1>4 DEF Next

LEMMA StepMatchInv == TypeOK /\ MatchInv /\ [Next]_vars => MatchInv'
<1> SUFFICES ASSUME TypeOK, MatchInv, [Next]_vars, synced' \/ response'.type = "Match"
             PROVE  PendingTargets' = {}
    BY DEF MatchInv
<1>1. PendingTargets = {}
    BY MatchSource DEF MatchInv
<1>. QED BY <1>1, PendingShrinks

\* MatchInv holds in every reachable state, whatever the constants.
THEOREM MatchInvHolds == Spec => []MatchInv
<1>1. Init => TypeOK /\ MatchInv
    <2>1. Init => ~synced /\ response = Nothing
        BY DEF Init
    <2>2. ~synced /\ response = Nothing => MatchInv
        BY DEF MatchInv, Nothing
    <2>. QED BY <2>1, <2>2, InitTypeOK
<1>2. TypeOK /\ MatchInv /\ [Next]_vars => (TypeOK /\ MatchInv)'
    BY StepTypeOK, StepMatchInv
<1>. QED BY <1>1, <1>2, PTL DEF Spec

\* When the leader receives Match (lines 137-154 of updates_rollback.rs),
\* whatever the targets, documents and faults, no rollback key is left and
\* every target of the follower agrees with the leader's log: a Match can
\* not be sent while a persisted rollback is unfinished, nor before the
\* store was restored.
THEOREM MatchImpliesConvergedHolds == Spec => []MatchImpliesConverged
<1>1. IInv /\ MatchInv => MatchImpliesConverged
    <2> SUFFICES ASSUME IInv, MatchInv, synced
                 PROVE  PendingTargets = {} /\ \A t \in Targets : Diverged(t) = {}
        BY DEF MatchImpliesConverged
    <2>1. PendingTargets = {}
        BY DEF MatchInv
    <2>2. \A t \in Targets : Touched(keys[t]) = {}
        BY <2>1 DEF PendingTargets, Touched, NoChanges
    <2>. QED BY <2>1, <2>2 DEF IInv, DivergenceRecorded
<1>. QED BY <1>1, IInvHolds, MatchInvHolds, PTL

-----------------------------------------------------------------------------
(* NeverDeletesConfirmed                                                   *)

\* A step never makes absent a document the leader has and the follower
\* holds.
LEMMA StepKeepsConfirmed ==
    ASSUME IInv, [Next]_vars
    PROVE  \A t \in Targets, d \in DocIds :
              (d \in leader[t] /\ local[t][d] # "absent") => local'[t][d] # "absent"
<1> SUFFICES ASSUME NEW t \in Targets, NEW d \in DocIds,
                    d \in leader[t], local[t][d] # "absent"
             PROVE  local'[t][d] # "absent"
    OBVIOUS
<1>1. CASE local' = local
    BY <1>1
<1>2. CASE RollbackInserts /\ local' # local
    <2> DEFINE ch == ThreadDiscarded(target, changes)
    <2>1. ch.inserts # {} /\ local' = DeleteDocuments(target, TakenInserts(ch))
        BY <1>2 DEF RollbackInserts, Abort
    <2>2. ch = changes
        BY <2>1 DEF ThreadDiscarded, NoChanges
    <2>3. changes.inserts \cap leader[target] = {}
        BY <1>2 DEF RollbackInserts, IInv, RoundCovers
    <2>. QED BY <2>1, <2>2, <2>3 DEF DeleteDocuments, TakenInserts, IInv, TypeOK
<1>3. CASE ApplyRollbackUpdates /\ local' # local
    <2>1. PICK recs : local' = ApplyRecords(recs)
        BY <1>3 DEF ApplyRollbackUpdates, Abort
    <2>. QED BY <2>1 DEF ApplyRecords, LeaderCopy
<1>. QED BY <1>1, <1>2, <1>3 DEF Next, vars, BeginRollback, ResumeRollback,
             RequestOrRemove, NextRollbackChange, Restart, Leader, Finished

\* Lines 59-67 of updates_rollback.rs delete only speculative inserts, and
\* apply_rollback_updates writes the leader's versions: whatever the
\* constants, no step of the rollback destroys a document that is in the
\* leader's log.
THEOREM NeverDeletesConfirmedHolds == Spec => NeverDeletesConfirmed
<1>1. IInv /\ [Next]_vars =>
        [\A t \in Targets, d \in DocIds :
            (d \in leader[t] /\ local[t][d] # "absent") => local'[t][d] # "absent"]_vars
    BY StepKeepsConfirmed
<1>. QED BY <1>1, IInvHolds, PTL DEF Spec, NeverDeletesConfirmed


-----------------------------------------------------------------------------
(* Refinement of RollbackContract                                          *)

\* A step that leaves the store, the leader's log, the keys and synced alone
\* is a stuttering step of the contract.
LEMMA ContractStutter ==
    ASSUME UNCHANGED <<local, leader, keys, synced>>
    PROVE  UNCHANGED Contract!cvars
BY DEF Contract!cvars, PendingTargets

\* A step that gives documents the leader's version, and nothing else, is
\* a Restore of the contract.
LEMMA ContractRestore ==
    ASSUME TypeOK', UNCHANGED <<leader, keys, synced>>,
           \A t \in Targets, d \in DocIds : local'[t][d] \in {local[t][d], LeaderCopy(t, d)}
    PROVE  Contract!Restore
<1>1. PendingTargets' = PendingTargets
    BY DEF PendingTargets
<1>. QED BY <1>1 DEF Contract!Restore, Contract!LeaderCopy, LeaderCopy, TypeOK, DocState,
             Contract!DocState

\* The delete batch of lines 58-68 gives every deleted insert the leader's
\* version: absent, since persisted inserts are not in the leader's log.
LEMMA RollbackInsertsContract ==
    ASSUME IInv, RollbackInserts
    PROVE  [Contract!Next]_Contract!cvars
<1> DEFINE ch == ThreadDiscarded(target, changes)
<1>1. UNCHANGED <<leader, keys, synced>> /\ pc = "inserts" /\ target \in Targets
    BY DEF RollbackInserts, IInv, TypeOK
<1>2. CASE local' = local
    BY <1>1, <1>2, ContractStutter
<1>3. CASE local' # local
    <2>1. ch.inserts # {} /\ local' = DeleteDocuments(target, TakenInserts(ch))
        BY <1>3 DEF RollbackInserts, Abort
    <2>2. ch = changes
        BY <2>1 DEF ThreadDiscarded, NoChanges
    <2>3. changes.inserts \cap leader[target] = {}
        BY <1>1 DEF IInv, RoundCovers
    <2>4. \A t \in Targets, d \in DocIds : local'[t][d] \in {local[t][d], LeaderCopy(t, d)}
        BY <2>1, <2>2, <2>3 DEF DeleteDocuments, TakenInserts, LeaderCopy, IInv, TypeOK
    <2>5. TypeOK'
        BY StepTypeOK DEF IInv, Next
    <2>. QED BY <1>1, <2>4, <2>5, ContractRestore DEF Contract!Next
<1>. QED BY <1>2, <1>3

\* apply_rollback_updates gives the documents it names the leader's version.
LEMMA ApplyRollbackUpdatesContract ==
    ASSUME IInv, ApplyRollbackUpdates
    PROVE  [Contract!Next]_Contract!cvars
<1>1. UNCHANGED <<leader, keys, synced>>
    BY DEF ApplyRollbackUpdates
<1>2. CASE local' = local
    BY <1>1, <1>2, ContractStutter
<1>3. CASE local' # local
    <2>1. PICK recs : local' = ApplyRecords(recs)
        BY <1>3 DEF ApplyRollbackUpdates, Abort
    <2>2. \A t \in Targets, d \in DocIds : local'[t][d] \in {local[t][d], LeaderCopy(t, d)}
        BY <2>1 DEF ApplyRecords
    <2>3. TypeOK'
        BY StepTypeOK DEF IInv, Next
    <2>. QED BY <1>1, <2>2, <2>3, ContractRestore DEF Contract!Next
<1>. QED BY <1>2, <1>3

\* Removing the rollback key at line 125 finishes a target that agrees
\* with the leader: at "pending" the diverged documents are among the
\* updates and deletes still to request, and there are none.
LEMMA RequestOrRemoveContract ==
    ASSUME IInv, RequestOrRemove
    PROVE  [Contract!Next]_Contract!cvars
<1>1. UNCHANGED <<local, leader, synced>> /\ pc = "pending" /\ target \in Targets
    BY DEF RequestOrRemove, IInv, TypeOK
<1>2. CASE keys' = keys
    BY <1>1, <1>2, ContractStutter
<1>3. CASE keys' # keys
    <2>1. ~RollbackLeft(changes) /\ keys' = [keys EXCEPT ![target] = NoChanges]
        BY <1>3 DEF RequestOrRemove, Abort, Reply
    <2>2. Diverged(target) = {}
        BY <1>1, <2>1 DEF IInv, RoundCovers, RollbackLeft
    <2>3. PendingTargets' = PendingTargets \ {target}
        BY <2>1 DEF PendingTargets, IInv, TypeOK
    <2>4. CASE target \in PendingTargets
        <3>1. Contract!Finish(target)
            BY <1>1, <2>2, <2>3, <2>4 DEF Contract!Finish, Contract!Diverged,
               Contract!LeaderCopy, Diverged, LeaderCopy
        <3>. QED BY <1>1, <3>1 DEF Contract!Next
    <2>5. CASE target \notin PendingTargets
        BY <1>1, <2>3, <2>5 DEF Contract!cvars
    <2>. QED BY <2>4, <2>5
<1>. QED BY <1>2, <1>3

\* The leader receiving Match is the contract's Confirm: no key is left and
\* nothing diverges.
LEMMA LeaderContract ==
    ASSUME IInv, MatchInv, Leader
    PROVE  [Contract!Next]_Contract!cvars
<1>1. UNCHANGED <<local, leader, keys>>
    BY DEF Leader
<1>2. CASE synced' = synced
    BY <1>1, <1>2, ContractStutter
<1>3. CASE synced' # synced
    <2>1. response.type = "Match" /\ synced' = TRUE
        BY <1>3 DEF Leader
    <2>2. PendingTargets = {}
        BY <2>1 DEF MatchInv
    <2>3. \A t \in Targets : Diverged(t) = {}
        <3>1. \A t \in Targets : Touched(keys[t]) = {}
            BY <2>2 DEF PendingTargets, Touched, NoChanges
        <3>. QED BY <3>1 DEF IInv, DivergenceRecorded
    <2>4. PendingTargets' = PendingTargets
        BY <1>1 DEF PendingTargets
    <2>5. Contract!Confirm
        BY <1>1, <2>1, <2>2, <2>3, <2>4 DEF Contract!Confirm, Contract!Diverged,
           Contract!LeaderCopy, Diverged, LeaderCopy
    <2>. QED BY <2>5 DEF Contract!Next
<1>. QED BY <1>2, <1>3

LEMMA ContractStep ==
    ASSUME IInv, MatchInv, [Next]_vars
    PROVE  [Contract!Next]_Contract!cvars
<1>1. CASE RollbackInserts
    BY <1>1, RollbackInsertsContract
<1>2. CASE ApplyRollbackUpdates
    BY <1>2, ApplyRollbackUpdatesContract
<1>3. CASE RequestOrRemove
    BY <1>3, RequestOrRemoveContract
<1>4. CASE Leader
    BY <1>4, LeaderContract
<1>5. CASE \/ BeginRollback \/ ResumeRollback \/ NextRollbackChange \/ Restart
           \/ Finished \/ UNCHANGED vars
    <2>1. UNCHANGED <<local, leader, keys, synced>>
        BY <1>5 DEF BeginRollback, ResumeRollback, NextRollbackChange, Restart,
           Finished, vars, Abort, Reply
    <2>. QED BY <2>1, ContractStutter
<1>. QED BY <1>1, <1>2, <1>3, <1>4, <1>5 DEF Next

\* The initial state is one of the contract's: a target without a rollback
\* key agrees with the leader.
LEMMA ContractInit == Init => Contract!Init
<1> SUFFICES ASSUME Init PROVE Contract!Init
    OBVIOUS
<1>1. IInv /\ TypeOK
    BY InitIInv DEF IInv
<1>2. \A t \in Targets \ PendingTargets : Diverged(t) = {}
    <2>1. \A t \in Targets \ PendingTargets : Touched(keys[t]) = {}
        BY DEF PendingTargets, Touched, NoChanges
    <2>. QED BY <1>1, <2>1 DEF IInv, DivergenceRecorded
<1>3. ~synced
    BY DEF Init
<1>. QED BY <1>1, <1>2, <1>3 DEF Contract!Init, Contract!Diverged, Contract!LeaderCopy,
             Diverged, LeaderCopy, TypeOK, DocState, Contract!DocState, PendingTargets

\* Whatever the targets, documents and fault bound, every behaviour of the
\* rollback exchange, failures and restarts included, is a behaviour of
\* RollbackContract: the delete batch (lines 58-68) and
\* apply_rollback_updates only restore the leader's versions, the key of
\* line 125 is removed only once its target agrees with the leader, and
\* Match (lines 137-154) reaches the leader only once no key is left.
THEOREM Refinement == Spec => ImplementsContract
<1>1. Spec => [](IInv /\ MatchInv)
    BY IInvHolds, MatchInvHolds, PTL
<1>2. IInv /\ MatchInv /\ [Next]_vars => [Contract!Next]_Contract!cvars
    BY ContractStep
<1>. QED BY <1>1, <1>2, ContractInit, PTL DEF Spec, ImplementsContract,
            Contract!SafetySpec

\* The contract keeps its own promise: in every behaviour of RollbackContract
\* a target that is not pending agrees with the leader, and Match is only
\* sent with nothing pending. With Refinement, this holds of the follower's
\* rollback (updates_rollback.rs): a target whose rollback key is gone
\* matches the leader's log, and Match follows the last removal.
LEMMA ContractSettledStep ==
    ASSUME Contract!Settled, [Contract!Next]_Contract!cvars
    PROVE  Contract!Settled'
<1> USE DEF Contract!Settled, Contract!Diverged, Contract!LeaderCopy
<1>1. CASE Contract!Restore
      BY <1>1 DEF Contract!Restore
<1>2. ASSUME NEW t \in Targets, Contract!Finish(t) PROVE Contract!Settled'
      BY <1>2 DEF Contract!Finish
<1>3. CASE Contract!Confirm
      BY <1>3 DEF Contract!Confirm
<1>4. CASE UNCHANGED Contract!cvars
      BY <1>4 DEF Contract!cvars
<1>. QED BY <1>1, <1>2, <1>3, <1>4 DEF Contract!Next

THEOREM ContractSettled == Contract!SafetySpec => []Contract!Settled
<1>1. Contract!Init => Contract!Settled
      BY DEF Contract!Init, Contract!Settled
<1>. QED BY <1>1, ContractSettledStep, PTL DEF Contract!SafetySpec

\* Hence the follower's rollback settles as the contract says it does.
THEOREM RollbackSettled == Spec => []Contract!Settled
BY Refinement, ContractSettled, PTL DEF ImplementsContract

=============================================================================
