---------------------- MODULE ProcessProvisionerProofs ----------------------
(***************************************************************************)
(* Proofs about the process provisioner, for any number of calls, any      *)
(* generations and sidecar identities, any number of faults and crashes.   *)
(***************************************************************************)
EXTENDS ProcessProvisioner, TLAPS

-----------------------------------------------------------------------------
(* How a call moves and ends *)

\* Goto leaves the call table well-typed (every suspension point).
LEMMA GotoType ==
    ASSUME TypeOK, NEW c \in Calls, NEW l \in PCs, Goto(c, l)
    PROVE  pc' \in [Calls -> PCs] /\ inFlight' \in Calls \cup {NoCall}
           /\ result' \in [Calls -> Results]
  BY DEF TypeOK, Goto

\* Settle leaves the call table well-typed (the end of ensure and destroy).
LEMMA SettleType ==
    ASSUME TypeOK, NEW c \in Calls, NEW res \in Results, Settle(c, res)
    PROVE  pc' \in [Calls -> PCs] /\ inFlight' \in Calls \cup {NoCall}
           /\ result' \in [Calls -> Results]
  BY DEF TypeOK, Settle, PCs

\* A call has made its request once it is under way.
Asked == \A c \in Calls : pc[c] # "idle" => req[c].gen \in Gens

\* Only an arrival wakes an idle call (Goto, Settle).
LEMMA OthersStayIdle ==
    ASSUME TypeOK, NEW c \in Calls, pc[c] # "idle",
           (\E l \in PCs : Goto(c, l)) \/ (\E res \in Results : Settle(c, res))
    PROVE  \A d \in Calls : pc[d] = "idle" => pc'[d] = "idle"
  BY DEF TypeOK, Goto, Settle

\* The store's view of the allocation is a record (initialize).
LEMMA LoadedType == TypeOK => Loaded \in AllocationRecord
  BY DEF TypeOK, Loaded

\* The records the two observations write are well-typed.
LEMMA RecordTypes ==
    ASSUME NEW q \in Request, NEW rec \in AllocationRecord, NEW r \in Ref
    PROVE  /\ EnsuredRecord(q) \in AllocationRecord
           /\ DestroyedRecord(rec, q) \in AllocationRecord
           /\ [rec EXCEPT !.ref = r] \in AllocationRecord
  BY DEF Request, AllocationRecord, EnsuredRecord, DestroyedRecord, Ref

\* The verdicts are writes, keeps or answers.
LEMMA VerdictTypes ==
    ASSUME NEW q \in Request, NEW rec \in AllocationRecord
    PROVE  /\ EnsureVerdict(rec, q) \in {"write", "keep"} \cup Results
           /\ DestroyVerdict(rec, q) \in {"write", "keep"} \cup Results
  BY DEF Request, AllocationRecord, EnsureVerdict, DestroyVerdict, Results

\* Acknowledge keeps a number.
LEMMA AcknowledgeType ==
    ASSUME acked \in Nat, NEW n \in Nat, Acknowledge(n)
    PROVE  acked' \in Nat /\ acked' >= acked /\ acked' >= n /\ acked' \in {acked, n}
  BY DEF Acknowledge

\* Ranks are numbers.
LEMMA RankType == ASSUME NEW rec \in AllocationRecord PROVE Rank(rec) \in Nat
  BY DEF Rank, AllocationRecord

-----------------------------------------------------------------------------
(* Type correctness *)

\* The state before the first call is well-typed.
LEMMA InitType == Init => TypeOK
  <1> SUFFICES ASSUME Init PROVE TypeOK
    OBVIOUS
  <1>1. NoRef \in Ref /\ "idle" \in PCs /\ "none" \in Results
    BY DEF Ref, PCs, Results
  <1>2. NoRecord \in AllocationRecord /\ NoRequest \in Request
    BY <1>1 DEF NoRecord, AllocationRecord, NoRequest, Request
  <1>3. 0 \in 0..MaxFaults /\ 0 \in 0..MaxCrashes
    BY ConstantsAssumption DEF ConstantsAssumption
  <1> QED BY <1>1, <1>2, <1>3 DEF Init, TypeOK

\* ensure()'s fence keeps the types (observeEnsure).
LEMMA ObserveEnsureType ==
    ASSUME TypeOK, NEW c \in Calls, ObserveEnsure(c) PROVE TypeOK'
  <1> DEFINE v == EnsureVerdict(Loaded, req[c])
  <1>1. Loaded \in AllocationRecord /\ req[c] \in Request /\ NoRef \in Ref /\ Loaded.ref \in Ref
    BY LoadedType DEF TypeOK, Ref, AllocationRecord
  <1>2. EnsuredRecord(req[c]) \in AllocationRecord /\ Rank(EnsuredRecord(req[c])) \in Nat
        /\ Rank(Loaded) \in Nat
    BY <1>1, RecordTypes, RankType
  <1>3. CASE v = "write" 
    BY <1>2, <1>3, GotoType, AcknowledgeType DEF ObserveEnsure, TypeOK, Persist, PCs, files, procs, bounds
  <1>4. CASE v = "keep"
    BY <1>1, <1>2, <1>4, GotoType, AcknowledgeType DEF ObserveEnsure, TypeOK, Keep, PCs, files, procs, bounds
  <1>5. CASE v \notin {"write", "keep"}
    BY <1>1, <1>5, VerdictTypes, SettleType DEF ObserveEnsure, TypeOK, Keep, files, procs, bounds
  <1> QED BY <1>3, <1>4, <1>5

\* destroy()'s fence and its choice of refs keep the types (observeDestroy, destroy).
LEMMA ObserveDestroyType ==
    ASSUME TypeOK, NEW c \in Calls, ObserveDestroy(c) PROVE TypeOK'
  <1> DEFINE v   == DestroyVerdict(Loaded, req[c])
             rec == IF v = "write" THEN DestroyedRecord(Loaded, req[c]) ELSE Loaded
             ref == IF req[c].ref # NoRef THEN req[c].ref ELSE rec.ref
  <1>1. Loaded \in AllocationRecord /\ req[c] \in Request
    BY LoadedType DEF TypeOK
  <1>2. rec \in AllocationRecord /\ Rank(rec) \in Nat
    BY <1>1, RecordTypes, RankType DEF Ref
  <1>3. ref \in Ref
    BY <1>1, <1>2 DEF AllocationRecord, Request
  <1> HIDE DEF rec, ref
  <1>4. CASE v \in {"write", "keep"}
    <2>1. records' \in AllocationRecord /\ stateFile' \in AllocationRecord /\ initialized' \in BOOLEAN
      BY <1>1, <1>2, <1>4 DEF ObserveDestroy, TypeOK, Persist, Keep, rec
    <2>2. /\ Acknowledge(Rank(rec))
          /\ \/ Goto(c, "list") /\ UNCHANGED stops
             \/ ref # NoRef /\ Goto(c, "stop") /\ stops' = [stops EXCEPT ![c] = {ref}]
      BY <1>4 DEF ObserveDestroy, rec, ref
    <2>3. stops' \in [Calls -> SUBSET Unit]
      BY <2>2, <1>3 DEF TypeOK, Ref
    <2> QED BY <1>2, <2>1, <2>2, <2>3, GotoType, AcknowledgeType DEF ObserveDestroy, TypeOK, PCs, files, procs, bounds
  <1>5. CASE v \notin {"write", "keep"}
    BY <1>1, <1>5, VerdictTypes, SettleType DEF ObserveDestroy, TypeOK, Keep, files, procs, bounds
  <1> QED BY <1>4, <1>5

\* Recording a started unit keeps the types (recordUnit).
LEMMA RecordUnitType ==
    ASSUME TypeOK, NEW c \in Calls, RecordUnit(c) PROVE TypeOK'
  <1>1. Loaded \in AllocationRecord /\ Rank(Loaded) \in Nat /\ unit[c] \in Ref /\ req[c] \in Request
    BY LoadedType, RankType DEF TypeOK
  <1>2. [Loaded EXCEPT !.ref = unit[c]] \in AllocationRecord
    BY <1>1, RecordTypes
  <1>3. CASE StillWanted(Loaded, req[c])
    BY <1>1, <1>2, <1>3, GotoType, AcknowledgeType
       DEF RecordUnit, TypeOK, Persist, PCs, files, procs, progress, bounds
  <1>4. CASE ~StillWanted(Loaded, req[c])
    BY <1>1, <1>4, GotoType DEF RecordUnit, TypeOK, Keep, PCs, files, procs, progress, bounds
  <1> QED BY <1>3, <1>4

\* Every step of a call keeps the types (Step).
LEMMA StepType ==
    ASSUME TypeOK, Asked, NEW c \in Calls, Step(c) PROVE TypeOK'
  <1> USE DEF store, files, procs, progress, bounds, history
  <1>1. req[c] \in Request /\ unit[c] \in Ref /\ cur[c] \in Ref
    BY DEF TypeOK
  <1>2. CASE ObserveEnsure(c)
    BY <1>2, ObserveEnsureType
  <1>3. CASE MakeUnitDir(c)
    BY <1>3, GotoType DEF TypeOK, Asked, MakeUnitDir, PCs
  <1>4. CASE SpawnSidecar(c)
    <2>1. [gen |-> req[c].gen, pid |-> lastPid + 1] \in Unit
      BY <1>4 DEF TypeOK, Asked, SpawnSidecar, Unit
    <2> QED BY <1>4, <2>1, GotoType DEF TypeOK, SpawnSidecar, PCs, Ref
  <1>5. CASE WritePidFile(c)
    <2>1. unit[c].pid \in Nat
      BY <1>1 DEF Ref, Unit, NoRef
    <2> QED BY <1>5, <2>1, GotoType DEF TypeOK, WritePidFile, PCs
  <1>6. CASE AbortStart(c)
    BY <1>6, SettleType DEF TypeOK, AbortStart, Results
  <1>7. CASE RecordUnit(c)
    BY <1>7, RecordUnitType
  <1>8. CASE StopLateUnit(c)
    BY <1>8, <1>1, GotoType DEF TypeOK, StopLateUnit, PCs
  <1>9. CASE RemoveLateUnit(c)
    BY <1>9, SettleType DEF TypeOK, RemoveLateUnit, RemoveUnitDir, Results
  <1>10. CASE ObserveDestroy(c)
    BY <1>10, ObserveDestroyType
  <1>11. CASE ListUnits(c)
    BY <1>11, GotoType DEF TypeOK, ListUnits, VisibleUnitDirs, PCs
  <1>12. CASE ReadPidFile(c)
    BY <1>12, GotoType DEF TypeOK, ReadPidFile, PCs, Unit
  <1>13. CASE TerminateUnit(c)
    BY <1>13, GotoType DEF TypeOK, TerminateUnit, PCs, Ref
  <1>14. CASE RemoveUnit(c)
    BY <1>14, GotoType DEF TypeOK, RemoveUnit, RemoveUnitDir, PCs
  <1>15. CASE Answer(c)
    BY <1>15, SettleType DEF TypeOK, Answer, Results
  <1> QED
    BY <1>2, <1>3, <1>4, <1>5, <1>6, <1>7, <1>8, <1>9, <1>10, <1>11, <1>12, <1>13,
       <1>14, <1>15 DEF Step

\* The record a store operation would persist is well-typed (Intended).
LEMMA IntendedType ==
    ASSUME TypeOK, NEW c \in Calls PROVE Intended(c) \in AllocationRecord
  <1>1. Loaded \in AllocationRecord /\ req[c] \in Request /\ unit[c] \in Ref
    BY LoadedType DEF TypeOK
  <1> QED BY <1>1, RecordTypes DEF Intended

\* A failure counts itself and stays within its bound.
LEMMA FaultType == TypeOK /\ Fault => faults' \in 0..MaxFaults /\ crashes' \in 0..MaxCrashes
  BY ConstantsAssumption DEF ConstantsAssumption, TypeOK, Fault

\* Every failure keeps the types (Failure).
LEMMA FailureType ==
    ASSUME TypeOK, NEW c \in Calls, Failure(c) PROVE TypeOK'
  <1> USE DEF store, files, procs, progress, history
  <1>1. CASE StoreReadFails(c)
    BY <1>1, FaultType, SettleType DEF TypeOK, StoreReadFails, Results
  <1>2. CASE StoreWriteFails(c)
    BY <1>2, FaultType, SettleType, LoadedType, IntendedType DEF TypeOK, StoreWriteFails, Results
  <1>3. CASE StartFails(c)
    BY <1>3, FaultType, SettleType DEF TypeOK, StartFails, Results
  <1>4. CASE PidWriteFails(c)
    BY <1>4, FaultType, GotoType DEF TypeOK, PidWriteFails, PCs
  <1>5. CASE FindFails(c)
    BY <1>5, FaultType, SettleType DEF TypeOK, FindFails, Results
  <1>6. CASE LateStopFails(c)
    BY <1>6, FaultType, SettleType DEF TypeOK, LateStopFails, HalfRemoved, Results
  <1>7. CASE TerminateFails(c)
    BY <1>7, FaultType, SettleType, GotoType DEF TypeOK, TerminateFails, StopFailed, Results, PCs
  <1>8. CASE RemoveFails(c)
    BY <1>8, FaultType, SettleType, GotoType DEF TypeOK, RemoveFails, HalfRemoved, StopFailed, Results, PCs
  <1> QED
    BY <1>1, <1>2, <1>3, <1>4, <1>5, <1>6, <1>7, <1>8 DEF Failure

\* A new call keeps the types (ensure, destroy).
LEMMA ArrivalType ==
    ASSUME TypeOK, NEW c \in Calls, Arrival(c) PROVE TypeOK'
  <1> USE DEF store, files, procs, progress, bounds, history
  <1>1. ASSUME NEW g \in Gens, NEW s \in Sids, Ensure(c, g, s) PROVE TypeOK'
    <2>1. [kind |-> "ensure", gen |-> g, sid |-> s, ref |-> NoRef] \in Request
      BY ConstantsAssumption DEF ConstantsAssumption, Request, Ref
    <2> QED BY <1>1, <2>1 DEF TypeOK, Ensure, PCs
  <1>2. ASSUME NEW g \in Gens, NEW s \in Sids, NEW r \in KnownRefs, Destroy(c, g, s, r)
        PROVE  TypeOK'
    <2>1. r \in Ref
      BY DEF KnownRefs, TypeOK, Ref
    <2>2. [kind |-> "destroy", gen |-> g, sid |-> s, ref |-> r] \in Request
      BY <2>1, ConstantsAssumption DEF ConstantsAssumption, Request
    <2> QED BY <1>2, <2>2, GotoType DEF TypeOK, Destroy, PCs
  <1> QED BY <1>1, <1>2 DEF Arrival

\* A step moves its call to a later point or ends it, and touches no request.
LEMMA StepMoves ==
    ASSUME TypeOK, NEW c \in Calls, Step(c) \/ Failure(c)
    PROVE  /\ req' = req /\ pc[c] \notin {"idle", "queued", "done"}
           /\ (\E l \in PCs : Goto(c, l)) \/ (\E res \in Results : Settle(c, res))
  <1>1. req' = req /\ pc[c] \notin {"idle", "queued", "done"}
    BY DEF Step, ObserveEnsure, MakeUnitDir, SpawnSidecar, WritePidFile, AbortStart,
           RecordUnit, StopLateUnit, RemoveLateUnit, ObserveDestroy, ListUnits, ReadPidFile,
           TerminateUnit, RemoveUnit, Answer, Failure, StoreReadFails, StoreWriteFails,
           StartFails, PidWriteFails, FindFails, LateStopFails, TerminateFails, RemoveFails
  <1>2. (\E l \in PCs : Goto(c, l)) \/ (\E res \in Results : Settle(c, res))
    <2>1. EnsureVerdict(Loaded, req[c]) \in {"write", "keep"} \cup Results
          /\ DestroyVerdict(Loaded, req[c]) \in {"write", "keep"} \cup Results
      BY LoadedType, VerdictTypes DEF TypeOK
    <2>2. CASE Failure(c)
      BY <2>2 DEF Failure, StoreReadFails, StoreWriteFails, StartFails, PidWriteFails,
                  FindFails, LateStopFails, TerminateFails, RemoveFails, StopFailed, PCs, Results
    <2>3. CASE ObserveEnsure(c) \/ ObserveDestroy(c)
      BY <2>1, <2>3 DEF ObserveEnsure, ObserveDestroy, PCs
    <2>4. CASE Step(c) /\ ~ObserveEnsure(c) /\ ~ObserveDestroy(c)
      BY <2>4 DEF Step, MakeUnitDir, SpawnSidecar, WritePidFile, AbortStart, RecordUnit,
                  StopLateUnit, RemoveLateUnit, ListUnits, ReadPidFile, TerminateUnit,
                  RemoveUnit, Answer, PCs, Results
    <2> QED BY <2>2, <2>3, <2>4
  <1> QED BY <1>1, <1>2

\* No step makes a call forget its request, and none starts an idle call.
LEMMA AskedStep ==
    ASSUME TypeOK, Asked, NEW c \in Calls, Step(c) \/ Failure(c) PROVE Asked'
  BY StepMoves, OthersStayIdle DEF Asked

\* No step, failure, exit or crash breaks the types (the whole provisioner).
LEMMA NextType == TypeOK /\ Asked /\ [Next]_vars => TypeOK' /\ Asked'
  <1> SUFFICES ASSUME TypeOK, Asked, [Next]_vars PROVE TypeOK' /\ Asked'
    OBVIOUS
  <1> USE DEF store, files, procs, progress, answers, bounds, history
  <1>1. CASE SidecarExits
    BY <1>1 DEF TypeOK, Asked, SidecarExits
  <1>2. CASE HubCrash
    <2>1. NoRecord \in AllocationRecord
      BY DEF NoRecord, AllocationRecord, Ref
    <2>2. crashes' \in 0..MaxCrashes
      BY <1>2, ConstantsAssumption DEF ConstantsAssumption, TypeOK, HubCrash
    <2>3. pc' \in [Calls -> PCs] /\ result' \in [Calls -> Results]
      BY <1>2 DEF TypeOK, HubCrash, PCs, Results
    <2>4. Asked'
      BY <1>2 DEF TypeOK, HubCrash, Asked
    <2> QED BY <1>2, <2>1, <2>2, <2>3, <2>4 DEF TypeOK, HubCrash
  <1>3. CASE UNCHANGED vars
    BY <1>3 DEF TypeOK, Asked, vars
  <1>4. ASSUME NEW c \in Calls, Arrival(c) PROVE Asked'
    <2>1. PICK g \in Gens : /\ \E q : q.gen = g /\ req' = [req EXCEPT ![c] = q]
                            /\ \A d \in Calls \ {c} : pc'[d] = pc[d]
      BY <1>4 DEF Arrival, Ensure, Destroy, Goto, TypeOK
    <2> QED BY <2>1 DEF Asked, TypeOK
  <1> QED
    BY <1>1, <1>2, <1>3, <1>4, ArrivalType, StepType, FailureType, AskedStep DEF Next

\* Every variable keeps its type, whatever fails and whenever the hub crashes;
\* in particular only positive pids are ever signalled (readPidFile).
THEOREM TypeCorrect == Spec => []TypeOK
  <1>1. Init => TypeOK /\ Asked
    BY InitType DEF Init, Asked
  <1> QED BY <1>1, NextType, PTL DEF Spec

-----------------------------------------------------------------------------
(* The fence is durable *)

\* FenceIsDurable is not inductive: acknowledging an unchanged record needs the
\* state file to be at least as new as the memory of a store that has read it.
\* (It may be newer, after a write whose directory sync failed.)
StoreInv ==
    /\ FenceIsDurable
    /\ initialized => Rank(records) <= Rank(stateFile)

\* What StoreInv says of the record the store works on (initialize).
LEMMA LoadedRank ==
    ASSUME TypeOK, StoreInv
    PROVE  /\ Rank(Loaded) \in Nat /\ Rank(stateFile) \in Nat
           /\ acked <= Rank(Loaded) /\ Rank(Loaded) <= Rank(stateFile)
  <1>1. Rank(records) \in Nat /\ Rank(stateFile) \in Nat
    BY RankType DEF TypeOK
  <1> QED BY <1>1 DEF TypeOK, StoreInv, FenceIsDurable, Loaded

\* observeEnsure and observeDestroy replace a record only by one of a higher rank.
LEMMA WritesAdvance ==
    ASSUME NEW q \in Request, NEW rec \in AllocationRecord
    PROVE  /\ EnsureVerdict(rec, q) = "write" => Rank(EnsuredRecord(q)) > Rank(rec)
           /\ DestroyVerdict(rec, q) = "write" => Rank(DestroyedRecord(rec, q)) > Rank(rec)
  <1>1. ASSUME EnsureVerdict(rec, q) = "write" PROVE Rank(EnsuredRecord(q)) > Rank(rec)
    BY <1>1 DEF EnsureVerdict, Rank, EnsuredRecord, Request, AllocationRecord
  <1>2. ASSUME DestroyVerdict(rec, q) = "write" PROVE Rank(DestroyedRecord(rec, q)) > Rank(rec)
    BY <1>2 DEF DestroyVerdict, Rank, DestroyedRecord, Request, AllocationRecord
  <1> QED BY <1>1, <1>2

\* recordUnit replaces a record by one of the same rank.
LEMMA RefKeepsRank ==
    ASSUME NEW rec \in AllocationRecord, NEW r
    PROVE  Rank([rec EXCEPT !.ref = r]) = Rank(rec)
  BY DEF Rank, AllocationRecord

\* Persisting a record of at least the current rank, and acknowledging it.
LEMMA PersistKeepsFence ==
    ASSUME TypeOK, StoreInv, NEW rec \in AllocationRecord, Rank(rec) >= Rank(Loaded),
           Persist(rec), Acknowledge(Rank(rec))
    PROVE  StoreInv'
  BY LoadedRank, RankType, AcknowledgeType
     DEF TypeOK, StoreInv, FenceIsDurable, Persist, Rank

\* Leaving the store alone, and acknowledging at most what it holds.
LEMMA KeepKeepsFence ==
    ASSUME TypeOK, StoreInv, Keep, UNCHANGED acked \/ Acknowledge(Rank(Loaded))
    PROVE  StoreInv'
  BY LoadedRank, AcknowledgeType DEF TypeOK, StoreInv, FenceIsDurable, Keep, Rank

\* An action that touches neither the store nor the acknowledgements.
LEMMA StoreFrame ==
    ASSUME StoreInv, UNCHANGED <<store, acked>> PROVE StoreInv'
  BY DEF StoreInv, FenceIsDurable, store, Rank

\* What observeEnsure acknowledges is on disk.
LEMMA ObserveEnsureFence ==
    ASSUME TypeOK, StoreInv, NEW c \in Calls, ObserveEnsure(c) PROVE StoreInv'
  <1> DEFINE rec == EnsuredRecord(req[c])
  <1>1. Loaded \in AllocationRecord /\ req[c] \in Request /\ rec \in AllocationRecord
    BY LoadedType, RecordTypes DEF TypeOK, Ref
  <1>2. CASE EnsureVerdict(Loaded, req[c]) = "write"
    <2>1. Rank(rec) >= Rank(Loaded)
      BY <1>1, <1>2, WritesAdvance, RankType
    <2>2. Persist(rec) /\ Acknowledge(Rank(rec))
      BY <1>2 DEF ObserveEnsure
    <2> QED BY <1>1, <2>1, <2>2, PersistKeepsFence
  <1>3. CASE EnsureVerdict(Loaded, req[c]) # "write"
    BY <1>3, KeepKeepsFence DEF ObserveEnsure
  <1> QED BY <1>2, <1>3

\* What observeDestroy acknowledges is on disk.
LEMMA ObserveDestroyFence ==
    ASSUME TypeOK, StoreInv, NEW c \in Calls, ObserveDestroy(c) PROVE StoreInv'
  <1> DEFINE rec == DestroyedRecord(Loaded, req[c])
  <1>1. Loaded \in AllocationRecord /\ req[c] \in Request /\ rec \in AllocationRecord
    BY LoadedType, RecordTypes DEF TypeOK, Ref
  <1>2. CASE DestroyVerdict(Loaded, req[c]) = "write"
    <2>1. Rank(rec) >= Rank(Loaded)
      BY <1>1, <1>2, WritesAdvance, RankType
    <2>2. Persist(rec) /\ Acknowledge(Rank(rec))
      BY <1>2 DEF ObserveDestroy
    <2> QED BY <1>1, <2>1, <2>2, PersistKeepsFence
  <1>3. CASE DestroyVerdict(Loaded, req[c]) # "write"
    BY <1>3, KeepKeepsFence DEF ObserveDestroy
  <1> QED BY <1>2, <1>3

\* What recordUnit acknowledges is on disk.
LEMMA RecordUnitFence ==
    ASSUME TypeOK, StoreInv, NEW c \in Calls, RecordUnit(c) PROVE StoreInv'
  <1> DEFINE rec == [Loaded EXCEPT !.ref = unit[c]]
  <1>1. rec \in AllocationRecord /\ Rank(rec) = Rank(Loaded) /\ Rank(Loaded) \in Nat
    BY LoadedType, RecordTypes, RefKeepsRank, RankType DEF TypeOK
  <1>2. CASE StillWanted(Loaded, req[c])
    BY <1>1, <1>2, PersistKeepsFence DEF RecordUnit
  <1>3. CASE ~StillWanted(Loaded, req[c])
    BY <1>3, KeepKeepsFence DEF RecordUnit
  <1> QED BY <1>2, <1>3

\* A failed write may still have reached the state file, never the memory.
LEMMA StoreWriteFailsFence ==
    ASSUME TypeOK, StoreInv, NEW c \in Calls, StoreWriteFails(c) PROVE StoreInv'
  <1>1. Loaded \in AllocationRecord /\ req[c] \in Request /\ unit[c] \in Ref
        /\ Rank(Loaded) \in Nat /\ Rank(Intended(c)) \in Nat
    BY LoadedType, RankType, IntendedType DEF TypeOK
  <1>2. Rank(Intended(c)) >= Rank(Loaded)
    <2>1. CASE pc[c] = "observe" /\ IsEnsure(c)
      BY <1>1, <2>1, WritesAdvance DEF StoreWriteFails, Writes, Intended, IsEnsure, IsDestroy
    <2>2. CASE pc[c] = "observe" /\ IsDestroy(c)
      BY <1>1, <2>2, WritesAdvance DEF StoreWriteFails, Writes, Intended, IsEnsure, IsDestroy
    <2>3. CASE pc[c] = "record"
      BY <1>1, <2>3, RefKeepsRank DEF Intended
    <2> QED BY <2>1, <2>2, <2>3 DEF StoreWriteFails, Writes
  <1> QED
    BY <1>1, <1>2, LoadedRank
       DEF TypeOK, StoreInv, FenceIsDurable, StoreWriteFails, history, Rank

\* The steps and failures of a call preserve StoreInv (ensureOnce, destroy).
LEMMA StepFence ==
    ASSUME TypeOK, StoreInv, NEW c \in Calls, Step(c) \/ Failure(c) PROVE StoreInv'
  <1>1. CASE ObserveEnsure(c) \/ ObserveDestroy(c) \/ RecordUnit(c) \/ StoreWriteFails(c)
    BY <1>1, ObserveEnsureFence, ObserveDestroyFence, RecordUnitFence, StoreWriteFailsFence
  <1>2. CASE ~(ObserveEnsure(c) \/ ObserveDestroy(c) \/ RecordUnit(c) \/ StoreWriteFails(c))
    <2>1. UNCHANGED <<store, acked>>
      BY <1>2 DEF Step, MakeUnitDir, SpawnSidecar, WritePidFile, AbortStart, StopLateUnit,
                  RemoveLateUnit, ListUnits, ReadPidFile, TerminateUnit, RemoveUnit, Answer,
                  Failure, StoreReadFails, StartFails, PidWriteFails, FindFails,
                  LateStopFails, TerminateFails, RemoveFails, history
    <2> QED BY <2>1, StoreFrame
  <1> QED BY <1>1, <1>2

\* So does every step; a crash only makes the store read the state file again.
LEMMA NextFence == TypeOK /\ StoreInv /\ [Next]_vars => StoreInv'
  <1> SUFFICES ASSUME TypeOK, StoreInv, [Next]_vars PROVE StoreInv'
    OBVIOUS
  <1>1. CASE HubCrash
    BY <1>1 DEF HubCrash, StoreInv, FenceIsDurable, Rank
  <1>2. CASE SidecarExits \/ (\E c \in Calls : Arrival(c)) \/ UNCHANGED vars
    <2>1. UNCHANGED <<store, acked>>
      BY <1>2 DEF SidecarExits, Arrival, Ensure, Destroy, vars, history
    <2> QED BY <2>1, StoreFrame
  <1> QED BY <1>1, <1>2, StepFence DEF Next

\* Whatever the store has acknowledged stays in force, for any number of calls,
\* generations, failed writes and hub crashes (createAllocationStateStore).
THEOREM FenceDurable == Spec => []FenceIsDurable
  <1>1. Init => StoreInv
    BY DEF Init, StoreInv, FenceIsDurable, Rank, NoRecord
  <1>2. StoreInv => FenceIsDurable
    BY DEF StoreInv
  <1> QED BY <1>1, <1>2, NextFence, TypeCorrect, PTL DEF Spec

-----------------------------------------------------------------------------
(* No sidecar is out of reach *)

\* The hub mints a new generation for every ensure().
OneEnsurePerGen ==
    \A d, e \in Calls : IsEnsure(d) /\ IsEnsure(e) /\ req[d].gen = req[e].gen => d = e

\* The generation of a unit has an ensure() that is past its spawn.
PastSpawn(c) == pc[c] \notin {"idle", "queued", "observe", "mkdir", "spawn"}
SpawnedByEnsure ==
    \A r \in spawned : \E d \in Calls : IsEnsure(d) /\ req[d].gen = r.gen /\ PastSpawn(d)

\* Hence every generation spawns once, and every pid names one unit.
UnitsAreUnique ==
    /\ \A r1, r2 \in spawned : r1.gen = r2.gen \/ r1.pid = r2.pid => r1 = r2
    /\ \A r \in spawned : r.pid <= lastPid
    /\ live \subseteq spawned

\* Every ref the program holds is the ref of a unit that was spawned.
Known == spawned \cup {NoRef}
RefsAreKnown ==
    /\ records.ref \in Known /\ stateFile.ref \in Known
    /\ \A c \in Calls : req[c].ref \in Known /\ unit[c] \in Known /\ stops[c] \subseteq spawned
    /\ \A g \in Gens : pidFiles[g] # 0 => [gen |-> g, pid |-> pidFiles[g]] \in spawned

\* A call that has spawned a unit holds it; a call about to remove a directory
\* has seen that directory's sidecar go.
CallsInStep ==
    \A c \in Calls :
        /\ pc[c] \in {"writePid", "abort", "record", "lateStop"} => unit[c] \in spawned
        /\ pc[c] \in {"rm", "lateRm"} => cur[c] \in spawned \ live
        /\ pc[c] \in {"mkdir", "spawn"} => IsEnsure(c)

OrphanInv ==
    /\ OneEnsurePerGen
    /\ SpawnedByEnsure
    /\ UnitsAreUnique
    /\ RefsAreKnown
    /\ CallsInStep
    /\ OrphanFree

\* A step of one call leaves what the others hold alone, and at most wakes those
\* queued behind it (Settle).
LEMMA OthersKeep ==
    ASSUME TypeOK, NEW c \in Calls, Step(c) \/ Failure(c), NEW d \in Calls \ {c}
    PROVE  /\ pc'[d] = pc[d] \/ (pc[d] = "queued" /\ pc'[d] \in {"observe", "done"})
           /\ unit'[d] = unit[d] /\ cur'[d] = cur[d]
           /\ todo'[d] = todo[d] /\ stops'[d] = stops[d]
  <1>1. pc'[d] = pc[d] \/ (pc[d] = "queued" /\ pc'[d] \in {"observe", "done"})
    BY StepMoves DEF TypeOK, Goto, Settle
  <1>2. unit'[d] = unit[d] /\ cur'[d] = cur[d] /\ todo'[d] = todo[d] /\ stops'[d] = stops[d]
    BY DEF TypeOK, Step, ObserveEnsure, MakeUnitDir, SpawnSidecar, WritePidFile, AbortStart,
           RecordUnit, StopLateUnit, RemoveLateUnit, ObserveDestroy, ListUnits, ReadPidFile,
           TerminateUnit, RemoveUnit, Answer, Failure, StoreReadFails, StoreWriteFails,
           StartFails, PidWriteFails, FindFails, LateStopFails, TerminateFails, RemoveFails,
           progress
  <1> QED BY <1>1, <1>2

\* Only a spawn adds a unit, and only a spawn makes one run (SpawnSidecar).
LEMMA OnlySpawnAdds ==
    ASSUME TypeOK, NEW c \in Calls, Step(c) \/ Failure(c), ~SpawnSidecar(c)
    PROVE  spawned' = spawned /\ lastPid' = lastPid /\ live' \subseteq live
  BY DEF Step, ObserveEnsure, MakeUnitDir, WritePidFile, AbortStart, RecordUnit,
         StopLateUnit, RemoveLateUnit, ObserveDestroy, ListUnits, ReadPidFile, TerminateUnit,
         RemoveUnit, Answer, Failure, StoreReadFails, StoreWriteFails, StartFails,
         PidWriteFails, FindFails, LateStopFails, TerminateFails, RemoveFails, procs, history

\* A call past its spawn never returns before it.
LEMMA PastSpawnStays ==
    ASSUME TypeOK, NEW c \in Calls, Step(c) \/ Failure(c), NEW d \in Calls, PastSpawn(d)
    PROVE  PastSpawn(d)'
  <1>1. CASE d # c
    BY <1>1, OthersKeep DEF PastSpawn
  <1>2. CASE d = c
    BY <1>2 DEF TypeOK, PastSpawn, Step, ObserveEnsure, MakeUnitDir, SpawnSidecar,
           WritePidFile, AbortStart, RecordUnit, StopLateUnit, RemoveLateUnit,
           ObserveDestroy, ListUnits, ReadPidFile, TerminateUnit, RemoveUnit, Answer, Failure,
           StoreReadFails, StoreWriteFails, StartFails, PidWriteFails, FindFails,
           LateStopFails, TerminateFails, RemoveFails, StopFailed, Goto, Settle
  <1> QED BY <1>1, <1>2

\* What a spawn does to the units: a fresh pid, and the first of its generation.
LEMMA SpawnIsFresh ==
    ASSUME TypeOK, Asked, OneEnsurePerGen, SpawnedByEnsure, UnitsAreUnique, CallsInStep,
           NEW c \in Calls, SpawnSidecar(c)
    PROVE  \E n \in Unit :
              /\ n.gen = req[c].gen /\ n.pid = lastPid + 1 /\ lastPid' = lastPid + 1
              /\ spawned' = spawned \cup {n} /\ live' = live \cup {n}
              /\ unit' = [unit EXCEPT ![c] = n]
              /\ \A r \in spawned : r.gen # n.gen /\ r.pid < n.pid
  <1> DEFINE n == [gen |-> req[c].gen, pid |-> lastPid + 1]
  <1>1. n \in Unit
    BY DEF TypeOK, Asked, SpawnSidecar, Unit
  <1>2. ASSUME NEW r \in spawned PROVE r.gen # n.gen
    BY <1>2 DEF SpawnedByEnsure, OneEnsurePerGen, CallsInStep, SpawnSidecar, PastSpawn
  <1>3. ASSUME NEW r \in spawned PROVE r.pid < n.pid
    BY <1>3 DEF UnitsAreUnique, TypeOK, Unit
  <1> QED BY <1>1, <1>2, <1>3 DEF SpawnSidecar

\* SpawnedByEnsure and UnitsAreUnique are preserved by the calls' steps.
LEMMA UnitsStep ==
    ASSUME TypeOK, Asked, OneEnsurePerGen, SpawnedByEnsure, UnitsAreUnique, CallsInStep,
           NEW c \in Calls, Step(c) \/ Failure(c)
    PROVE  SpawnedByEnsure' /\ UnitsAreUnique'
  <1>1. CASE SpawnSidecar(c)
    <2>1. PICK n \in Unit :
              /\ n.gen = req[c].gen /\ n.pid = lastPid + 1 /\ lastPid' = lastPid + 1
              /\ spawned' = spawned \cup {n} /\ live' = live \cup {n}
              /\ \A r \in spawned : r.gen # n.gen /\ r.pid < n.pid
      BY <1>1, SpawnIsFresh
    <2>2. IsEnsure(c)' /\ req'[c].gen = n.gen /\ PastSpawn(c)'
      BY <1>1, <2>1 DEF SpawnSidecar, CallsInStep, IsEnsure, PastSpawn, Goto, TypeOK
    <2>3. SpawnedByEnsure'
      BY <2>1, <2>2, StepMoves, PastSpawnStays DEF SpawnedByEnsure, IsEnsure
    <2>4. UnitsAreUnique'
      BY <2>1 DEF UnitsAreUnique, TypeOK, Unit
    <2> QED BY <2>3, <2>4
  <1>2. CASE ~SpawnSidecar(c)
    <2>1. SpawnedByEnsure'
      BY <1>2, StepMoves, OnlySpawnAdds, PastSpawnStays DEF SpawnedByEnsure, IsEnsure
    <2>2. UnitsAreUnique'
      BY <1>2, OnlySpawnAdds DEF UnitsAreUnique
    <2> QED BY <2>1, <2>2
  <1> QED BY <1>1, <1>2

\* RefsAreKnown is preserved by the calls' steps.
LEMMA RefsStep ==
    ASSUME TypeOK, Asked, OneEnsurePerGen, SpawnedByEnsure, UnitsAreUnique, CallsInStep, RefsAreKnown,
           NEW c \in Calls, Step(c) \/ Failure(c)
    PROVE  RefsAreKnown'
  <1> USE DEF store, files, procs, progress, history, bounds
  <1>0. spawned \subseteq spawned'
    BY OnlySpawnAdds DEF SpawnSidecar
  <1>1. Loaded.ref \in Known /\ Intended(c).ref \in Known
    <2>1. Loaded.ref \in Known /\ unit[c] \in Known /\ NoRef \in Known
      BY DEF RefsAreKnown, Loaded, Known
    <2>2. Loaded \in AllocationRecord
      BY LoadedType
    <2> QED BY <2>1, <2>2 DEF Intended, EnsuredRecord, DestroyedRecord, AllocationRecord
  <1>2. records'.ref \in Known' /\ stateFile'.ref \in Known'
    <2>1. CASE UNCHANGED store
      BY <1>0, <2>1 DEF RefsAreKnown, Known
    <2>2. CASE ObserveEnsure(c)
      BY <1>0, <1>1, <2>2 DEF ObserveEnsure, Persist, Keep, EnsuredRecord, RefsAreKnown, Known
    <2>3. CASE ObserveDestroy(c)
      BY <1>0, <1>1, <2>3 DEF ObserveDestroy, Persist, Keep, DestroyedRecord, RefsAreKnown, Known
    <2>4. CASE RecordUnit(c)
      <3>1. [Loaded EXCEPT !.ref = unit[c]].ref = unit[c] /\ unit[c] \in Known
        BY LoadedType DEF AllocationRecord, RefsAreKnown
      <3> QED BY <1>0, <1>1, <2>4, <3>1 DEF RecordUnit, Persist, Keep, RefsAreKnown, Known
    <2>5. CASE StoreWriteFails(c)
      BY <1>0, <1>1, <2>5 DEF StoreWriteFails, RefsAreKnown, Known
    <2> QED
      BY <2>1, <2>2, <2>3, <2>4, <2>5
         DEF Step, MakeUnitDir, SpawnSidecar, WritePidFile, AbortStart, StopLateUnit,
             RemoveLateUnit, ListUnits, ReadPidFile, TerminateUnit, RemoveUnit, Answer, Failure,
             StoreReadFails, StartFails, PidWriteFails, FindFails, LateStopFails,
             TerminateFails, RemoveFails
  <1>3. \A d \in Calls : unit'[d] \in Known'
    <2>1. CASE unit' = unit
      BY <1>0, <2>1 DEF RefsAreKnown, Known
    <2>2. CASE ObserveEnsure(c)
      BY <1>0, <1>1, <2>2 DEF ObserveEnsure, RefsAreKnown, Known, TypeOK
    <2>3. CASE SpawnSidecar(c)
      BY <1>0, <2>3 DEF SpawnSidecar, RefsAreKnown, Known, TypeOK
    <2> QED
      BY <2>1, <2>2, <2>3
         DEF Step, ObserveDestroy, MakeUnitDir, WritePidFile, AbortStart, RecordUnit,
             StopLateUnit, RemoveLateUnit, ListUnits, ReadPidFile, TerminateUnit, RemoveUnit,
             Answer, Failure, StoreReadFails, StoreWriteFails, StartFails, PidWriteFails,
             FindFails, LateStopFails, TerminateFails, RemoveFails
  <1>4. \A d \in Calls : stops'[d] \subseteq spawned'
    <2>1. CASE \A d \in Calls : stops'[d] \subseteq stops[d]
      BY <1>0, <2>1 DEF RefsAreKnown
    <2>2. CASE ObserveDestroy(c)
      BY <1>0, <1>1, <2>2 DEF ObserveDestroy, DestroyedRecord, RefsAreKnown, Known, TypeOK
    <2>3. CASE ReadPidFile(c)
      <3>1. PICK g \in todo[c] :
                \/ pidFiles[g] = 0 /\ stops' = stops
                \/ /\ pidFiles[g] # 0
                   /\ stops' \in {stops, [stops EXCEPT ![c] = @ \cup {[gen |-> g, pid |-> pidFiles[g]]}]}
        BY <2>3 DEF ReadPidFile
      <3> QED BY <1>0, <3>1 DEF RefsAreKnown, TypeOK
    <2>4. CASE TerminateUnit(c) \/ TerminateFails(c)
      BY <2>4, <2>1 DEF TerminateUnit, TerminateFails, TypeOK
    <2>5. CASE LateStopFails(c) /\ pc[c] # "lateRm"
      BY <2>1, <2>5 DEF LateStopFails
    <2> QED
      BY <2>1, <2>2, <2>3, <2>4, <2>5
         DEF Step, ObserveEnsure, MakeUnitDir, SpawnSidecar, WritePidFile, AbortStart,
             RecordUnit, StopLateUnit, RemoveLateUnit, ListUnits, RemoveUnit, Answer, Failure,
             StoreReadFails, StoreWriteFails, StartFails, PidWriteFails, FindFails,
             LateStopFails, RemoveFails
  <1>5. \A g \in Gens : pidFiles'[g] # 0 => [gen |-> g, pid |-> pidFiles'[g]] \in spawned'
    <2>1. CASE \A g \in Gens : pidFiles'[g] \in {0, pidFiles[g]}
      BY <1>0, <2>1 DEF RefsAreKnown
    <2>2. CASE WritePidFile(c)
      <3>1. unit[c] \in spawned /\ unit[c] = [gen |-> unit[c].gen, pid |-> unit[c].pid]
        BY <2>2 DEF WritePidFile, CallsInStep, TypeOK, Unit
      <3> QED BY <1>0, <2>2, <3>1 DEF WritePidFile, RefsAreKnown, TypeOK
    <2>3. CASE RemoveUnit(c) \/ RemoveLateUnit(c) \/ RemoveFails(c) \/ LateStopFails(c)
      BY <2>3, <2>1
         DEF RemoveUnit, RemoveLateUnit, RemoveUnitDir, RemoveFails, LateStopFails, HalfRemoved, TypeOK
    <2> QED
      BY <2>1, <2>2, <2>3
         DEF Step, ObserveEnsure, ObserveDestroy, MakeUnitDir, SpawnSidecar, AbortStart,
             RecordUnit, StopLateUnit, ListUnits, ReadPidFile, TerminateUnit, Answer, Failure,
             StoreReadFails, StoreWriteFails, StartFails, PidWriteFails, FindFails,
             TerminateFails
  <1> QED BY <1>0, <1>2, <1>3, <1>4, <1>5, StepMoves DEF RefsAreKnown, Known

\* CallsInStep is preserved by the calls' steps.
LEMMA CallsStep ==
    ASSUME TypeOK, Asked, OrphanInv, NEW c \in Calls, Step(c) \/ Failure(c)
    PROVE  CallsInStep'
  <1> USE DEF files, store, procs, progress, history, bounds
  <1>1. spawned \subseteq spawned' /\ \A r \in spawned \ live : r \notin live'
    <2>1. CASE SpawnSidecar(c)
      BY <2>1, SpawnIsFresh DEF OrphanInv
    <2> QED BY <2>1, OnlySpawnAdds
  <1>2. ASSUME NEW d \in Calls \ {c}
        PROVE  /\ pc'[d] \in {"writePid", "abort", "record", "lateStop"} => unit'[d] \in spawned'
               /\ pc'[d] \in {"rm", "lateRm"} => cur'[d] \in spawned' \ live'
               /\ pc'[d] \in {"mkdir", "spawn"} => IsEnsure(d)'
    BY <1>1, OthersKeep, StepMoves DEF OrphanInv, CallsInStep, IsEnsure
  <1>3. pc'[c] \in {"writePid", "abort", "record", "lateStop"} => unit'[c] \in spawned'
    <2>1. CASE SpawnSidecar(c)
      BY <2>1 DEF SpawnSidecar, TypeOK
    <2>2. CASE WritePidFile(c) \/ PidWriteFails(c) \/ RecordUnit(c)
      BY <1>1, <2>2 DEF WritePidFile, PidWriteFails, RecordUnit, OrphanInv, CallsInStep
    <2> QED
      BY <2>1, <2>2
         DEF Step, ObserveEnsure, ObserveDestroy, MakeUnitDir, AbortStart, StopLateUnit,
             RemoveLateUnit, ListUnits, ReadPidFile, TerminateUnit, RemoveUnit, Answer,
             Failure, StoreReadFails, StoreWriteFails, StartFails, FindFails, LateStopFails,
             TerminateFails, RemoveFails, StopFailed, Goto, Settle, TypeOK
  <1>4. pc'[c] \in {"rm", "lateRm"} => cur'[c] \in spawned' \ live'
    <2>1. CASE StopLateUnit(c)
      BY <1>1, <2>1 DEF StopLateUnit, OrphanInv, CallsInStep, TypeOK
    <2>2. CASE TerminateUnit(c)
      BY <1>1, <2>2 DEF TerminateUnit, OrphanInv, RefsAreKnown, TypeOK
    <2>3. CASE Failure(c)
      BY <2>3 DEF Failure, StoreReadFails, StoreWriteFails, StartFails, PidWriteFails,
                  FindFails, LateStopFails, TerminateFails, RemoveFails, StopFailed, Goto,
                  Settle, TypeOK
    <2>4. CASE Step(c) /\ ~StopLateUnit(c) /\ ~TerminateUnit(c)
      BY <2>4 DEF Step, ObserveEnsure, ObserveDestroy, MakeUnitDir, SpawnSidecar, WritePidFile,
                  AbortStart, RecordUnit, RemoveLateUnit, ListUnits, ReadPidFile, RemoveUnit,
                  Answer, Goto, Settle, TypeOK
    <2> QED BY <2>1, <2>2, <2>3, <2>4
  <1>5. pc'[c] \in {"mkdir", "spawn"} => IsEnsure(c)'
    BY StepMoves
       DEF OrphanInv, CallsInStep, IsEnsure, IsDestroy, TypeOK, Step, ObserveEnsure,
           ObserveDestroy, MakeUnitDir, SpawnSidecar, WritePidFile, AbortStart, RecordUnit,
           StopLateUnit, RemoveLateUnit, ListUnits, ReadPidFile, TerminateUnit, RemoveUnit,
           Answer, Failure, StoreReadFails, StoreWriteFails, StartFails, PidWriteFails,
           FindFails, LateStopFails, TerminateFails, RemoveFails, StopFailed, Goto, Settle
  <1> QED BY <1>2, <1>3, <1>4, <1>5 DEF CallsInStep

\* OrphanFree is preserved by the calls' steps.
LEMMA OrphanStep ==
    ASSUME TypeOK, Asked, OrphanInv, NEW c \in Calls, Step(c) \/ Failure(c)
    PROVE  OrphanFree'
  <1> USE DEF files, store, procs, progress, history, bounds
  <1> SUFFICES ASSUME NEW r \in live' PROVE r \in lost' \/ Findable(r)' \/ Held(r)'
    BY DEF OrphanFree
  <1>1. CASE r \notin live
    <2>1. SpawnSidecar(c)
      BY <1>1, OnlySpawnAdds
    <2> QED BY <1>1, <2>1 DEF SpawnSidecar, Held, Goto, TypeOK
  <1>2. CASE r \in live /\ r \in lost
    BY <1>2 DEF Step, ObserveEnsure, ObserveDestroy, MakeUnitDir, SpawnSidecar, WritePidFile,
           AbortStart, RecordUnit, StopLateUnit, RemoveLateUnit, ListUnits, ReadPidFile,
           TerminateUnit, RemoveUnit, Answer, Failure, StoreReadFails, StoreWriteFails,
           StartFails, PidWriteFails, FindFails, LateStopFails, TerminateFails, RemoveFails
  <1>3. CASE r \in live /\ Findable(r)
    <2>1. CASE unitDirs \subseteq unitDirs' /\ pidFiles' = pidFiles
      BY <1>3, <2>1 DEF Findable
    <2>2. CASE WritePidFile(c)
      <3>1. unit[c] \in spawned /\ r \in spawned
        BY <1>3, <2>2 DEF WritePidFile, OrphanInv, CallsInStep, UnitsAreUnique
      <3>2. unit[c].gen = r.gen => unit[c] = r
        BY <3>1 DEF OrphanInv, UnitsAreUnique
      <3> QED BY <1>3, <2>2, <3>2 DEF WritePidFile, Findable, TypeOK
    <2>3. CASE RemoveUnit(c) \/ RemoveLateUnit(c)
      <3>1. cur[c] \in spawned \ live /\ r \in spawned
        BY <1>3, <2>3 DEF RemoveUnit, RemoveLateUnit, OrphanInv, CallsInStep, UnitsAreUnique
      <3>2. cur[c].gen # r.gen
        BY <1>3, <3>1 DEF OrphanInv, UnitsAreUnique
      <3> QED BY <1>3, <2>3, <3>2 DEF RemoveUnit, RemoveLateUnit, RemoveUnitDir, Findable, TypeOK
    <2>4. CASE RemoveFails(c) \/ LateStopFails(c)
      <3>1. CASE UNCHANGED files
        BY <1>3, <3>1 DEF Findable
      <3>2. CASE pc[c] \in {"rm", "lateRm"} /\ HalfRemoved(cur[c].gen)
        <4>1. cur[c].gen # r.gen
          BY <1>3, <3>2 DEF OrphanInv, CallsInStep, UnitsAreUnique
        <4> QED BY <1>3, <3>2, <4>1 DEF HalfRemoved, Findable, TypeOK
      <3> QED BY <2>4, <3>1, <3>2 DEF RemoveFails, LateStopFails
    <2> QED
      BY <2>1, <2>2, <2>3, <2>4
         DEF Step, ObserveEnsure, ObserveDestroy, MakeUnitDir, SpawnSidecar, AbortStart,
             RecordUnit, StopLateUnit, ListUnits, ReadPidFile, TerminateUnit, Answer, Failure,
             StoreReadFails, StoreWriteFails, StartFails, PidWriteFails, FindFails,
             TerminateFails
  <1>4. CASE r \in live /\ Held(r)
    <2>1. PICK d \in Calls : pc[d] \in {"writePid", "abort"} /\ unit[d] = r
      BY <1>4 DEF Held
    <2>2. CASE d # c
      BY <2>1, <2>2, OthersKeep DEF Held
    <2>3. CASE d = c
      <3>1. WritePidFile(c) \/ PidWriteFails(c) \/ AbortStart(c)
        BY <2>1, <2>3
           DEF Step, ObserveEnsure, ObserveDestroy, MakeUnitDir, SpawnSidecar, RecordUnit,
               StopLateUnit, RemoveLateUnit, ListUnits, ReadPidFile, TerminateUnit,
               RemoveUnit, Answer, Failure, StoreReadFails, StoreWriteFails, StartFails,
               FindFails, LateStopFails, TerminateFails, RemoveFails
      <3>2. CASE WritePidFile(c)
        BY <2>1, <2>3, <3>2, <1>4 DEF WritePidFile, Findable, Held, Goto, TypeOK, Unit
      <3>3. CASE PidWriteFails(c)
        BY <2>1, <2>3, <3>3 DEF PidWriteFails, Held, Goto, TypeOK
      <3>4. CASE AbortStart(c)
        BY <2>1, <2>3, <3>4 DEF AbortStart
      <3> QED BY <3>1, <3>2, <3>3, <3>4
    <2> QED BY <2>2, <2>3
  <1> QED BY <1>1, <1>2, <1>3, <1>4 DEF OrphanInv, OrphanFree

\* The steps and failures of a call preserve OrphanInv (ensureOnce, destroy).
LEMMA StepOrphans ==
    ASSUME TypeOK, Asked, OrphanInv, NEW c \in Calls, Step(c) \/ Failure(c)
    PROVE  OrphanInv'
  <1>1. OneEnsurePerGen'
    BY StepMoves DEF OrphanInv, OneEnsurePerGen, IsEnsure
  <1> QED BY <1>1, UnitsStep, RefsStep, CallsStep, OrphanStep DEF OrphanInv

\* What an arrival changes: one idle call is given a request, with a generation of
\* its own when it is an ensure() (AdmitsEnsure) and a known ref (KnownRefs).
ArrivesWith(c, q) ==
    /\ pc[c] = "idle" /\ pc'[c] \in {"observe", "queued"}
    /\ \A d \in Calls \ {c} : pc'[d] = pc[d]
    /\ req' = [req EXCEPT ![c] = q]
    /\ q.ref \in Known
    /\ q.kind = "ensure" => \A d \in Calls : IsEnsure(d) => req[d].gen < q.gen
    /\ UNCHANGED <<store, files, procs, progress, history>>

\* Every arrival is of that form when generations advance (ensure, destroy).
LEMMA ArrivalMoves ==
    ASSUME TypeOK, Asked, OrphanInv, Order # "any", NEW c \in Calls, Arrival(c)
    PROVE  \E q \in Request : ArrivesWith(c, q)
  <1>1. ASSUME NEW g \in Gens, NEW s \in Sids, Ensure(c, g, s)
        PROVE  \E q \in Request : ArrivesWith(c, q)
    <2> DEFINE q == [kind |-> "ensure", gen |-> g, sid |-> s, ref |-> NoRef]
    <2>1. q \in Request
      BY ConstantsAssumption DEF ConstantsAssumption, Request, Ref
    <2>2. \A d \in Calls : IsEnsure(d) => req[d].gen < q.gen
      BY <1>1 DEF Ensure, AdmitsEnsure, IsEnsure, NoRequest
    <2> QED BY <1>1, <2>1, <2>2 DEF Ensure, ArrivesWith, Known, TypeOK
  <1>2. ASSUME NEW g \in Gens, NEW s \in Sids, NEW r \in KnownRefs, Destroy(c, g, s, r)
        PROVE  \E q \in Request : ArrivesWith(c, q)
    <2> DEFINE q == [kind |-> "destroy", gen |-> g, sid |-> s, ref |-> r]
    <2>1. r \in Ref /\ r \in Known
      BY DEF KnownRefs, OrphanInv, RefsAreKnown, Known, TypeOK, Ref
    <2>2. q \in Request
      BY <2>1, ConstantsAssumption DEF ConstantsAssumption, Request
    <2> QED BY <1>2, <2>1, <2>2 DEF Destroy, Goto, ArrivesWith, TypeOK
  <1> QED BY <1>1, <1>2 DEF Arrival

\* A new call preserves OrphanInv (ensure, destroy).
LEMMA ArrivalOrphans ==
    ASSUME TypeOK, Asked, OrphanInv, Order # "any", NEW c \in Calls, Arrival(c)
    PROVE  OrphanInv'
  <1> USE DEF files, store, procs, progress, history
  <1>1. PICK q \in Request : ArrivesWith(c, q)
    BY ArrivalMoves
  <1>2. req'[c] = q /\ \A d \in Calls \ {c} : req'[d] = req[d] /\ pc'[d] = pc[d]
    BY <1>1 DEF ArrivesWith, TypeOK
  <1>3. OneEnsurePerGen'
    <2>1. \A d \in Calls : req[d].gen \in Nat
      BY DEF TypeOK, Request
    <2> QED BY <1>1, <1>2, <2>1 DEF ArrivesWith, OrphanInv, OneEnsurePerGen, IsEnsure
  <1>4. SpawnedByEnsure'
    <2>1. \A d \in Calls : PastSpawn(d) => d # c
      BY <1>1 DEF ArrivesWith, PastSpawn
    <2> QED BY <1>1, <1>2, <2>1 DEF ArrivesWith, OrphanInv, SpawnedByEnsure, IsEnsure, PastSpawn
  <1>5. UnitsAreUnique'
    BY <1>1 DEF ArrivesWith, OrphanInv, UnitsAreUnique
  <1>6. RefsAreKnown'
    BY <1>1, <1>2 DEF ArrivesWith, OrphanInv, RefsAreKnown, Known
  <1>7. CallsInStep'
    BY <1>1, <1>2 DEF ArrivesWith, OrphanInv, CallsInStep, IsEnsure
  <1>8. OrphanFree'
    <2>1. ASSUME NEW r, Held(r) PROVE Held(r)'
      BY <1>1, <1>2, <2>1 DEF ArrivesWith, Held
    <2> QED BY <1>1, <2>1 DEF ArrivesWith, OrphanInv, OrphanFree, Findable
  <1> QED BY <1>3, <1>4, <1>5, <1>6, <1>7, <1>8 DEF OrphanInv

\* A hub crash moves the units whose pid file is not written yet to lost.
LEMMA CrashOrphans ==
    ASSUME TypeOK, OrphanInv, HubCrash PROVE OrphanInv'
  <1> USE DEF files, store, procs, progress
  <1>1. UNCHANGED <<stateFile, files, procs, progress, req, spawned>>
    BY DEF HubCrash
  <1>2. \A d \in Calls : pc'[d] \in {"idle", "done"} /\ (pc'[d] = "idle" => pc[d] = "idle")
    BY DEF HubCrash, TypeOK
  <1>3. OneEnsurePerGen' /\ UnitsAreUnique'
    BY <1>1 DEF OrphanInv, OneEnsurePerGen, UnitsAreUnique, IsEnsure
  <1>4. SpawnedByEnsure'
    BY <1>1, <1>2 DEF OrphanInv, SpawnedByEnsure, IsEnsure, PastSpawn
  <1>5. RefsAreKnown'
    BY <1>1 DEF OrphanInv, RefsAreKnown, Known, HubCrash, NoRecord
  <1>6. CallsInStep'
    BY <1>1, <1>2 DEF OrphanInv, CallsInStep
  <1>7. OrphanFree'
    <2>1. ASSUME NEW r, Held(r) PROVE r \in lost'
      BY <2>1 DEF Held, HubCrash
    <2>2. lost \subseteq lost'
      BY DEF HubCrash
    <2> QED BY <1>1, <2>1, <2>2 DEF OrphanInv, OrphanFree, Findable
  <1> QED BY <1>3, <1>4, <1>5, <1>6, <1>7 DEF OrphanInv

\* Every step preserves OrphanInv when generations advance.
LEMMA NextOrphans ==
    TypeOK /\ Asked /\ OrphanInv /\ Order # "any" /\ [Next]_vars => OrphanInv'
  <1> SUFFICES ASSUME TypeOK, Asked, OrphanInv, Order # "any", [Next]_vars PROVE OrphanInv'
    OBVIOUS
  <1>1. CASE SidecarExits \/ UNCHANGED vars
    <2>1. live' \subseteq live
          /\ UNCHANGED <<store, files, lastPid, progress, pc, req, spawned, lost>>
      BY <1>1 DEF SidecarExits, vars, procs, answers, history
    <2> QED
      BY <2>1 DEF store, files, progress, OrphanInv, OneEnsurePerGen, SpawnedByEnsure,
             UnitsAreUnique, RefsAreKnown, CallsInStep, OrphanFree, Findable, Held, Known,
             IsEnsure, PastSpawn
  <1> QED BY <1>1, ArrivalOrphans, StepOrphans, CrashOrphans DEF Next

\* When every ensure() has a new generation, no running sidecar is ever out of the
\* provisioner's reach, except by a hub crash between its spawn and its pid file:
\* for any number of calls, generations, faults and crashes.
THEOREM NoOrphans == Order # "any" /\ Spec => []OrphanFree
  <1>1. Init => TypeOK /\ Asked /\ OrphanInv
    <2>1. Init => OrphanInv
      BY DEF Init, OrphanInv, OneEnsurePerGen, SpawnedByEnsure, UnitsAreUnique, RefsAreKnown,
             CallsInStep, OrphanFree, Known, NoRecord, NoRequest, IsEnsure
    <2> QED BY <2>1, InitType DEF Init, Asked
  <1>2. OrphanInv => OrphanFree
    BY DEF OrphanInv
  <1>3. Order # "any" /\ TypeOK /\ Asked /\ OrphanInv /\ [Next]_vars
        => TypeOK' /\ Asked' /\ OrphanInv'
    BY NextType, NextOrphans
  <1>4. CASE Order # "any"
    <2>1. TypeOK /\ Asked /\ OrphanInv /\ [Next]_vars => TypeOK' /\ Asked' /\ OrphanInv'
      BY <1>3, <1>4
    <2> QED BY <1>1, <1>2, <2>1, PTL DEF Spec
  <1> QED BY <1>4

-----------------------------------------------------------------------------
(***************************************************************************)
(* A confirmed destroy leaves nothing running: proof of DestroyedMeansGone *)
(* for any number of calls and generations and a hub that stays up, in the *)
(* order of the reconciler with any number of I/O failures, and whenever   *)
(* generations advance without them.  (A crash between a spawn and its pid *)
(* file does leave a sidecar, see OrphanFree; and generation 0, which only *)
(* a probe uses, has no directory name.)  What holds in both cases is      *)
(* Standing; DestroyInv is for the reconciler, SweepInv for the other.     *)
(***************************************************************************)

\* A destroy() that the store has let through, and what comes of it.
Confirming(d) ==
    \/ ~IsEnsure(d) /\ pc[d] \in {"list", "read", "stop", "rm"}
    \/ result[d] = "destroyed"

\* The call that spawned the unit has yet to be let through by recordUnit.
Starting(r) ==
    \E c \in Calls : pc[c] \in {"writePid", "abort", "record", "lateStop"} /\ unit[c] = r

(* The parts of the invariant *)

\* No crash: memory and disk agree until the store is initialized.
Remembers == lost = {} /\ (initialized \/ records = stateFile)

\* An idle call has no request and no unit, a starting one is an ensure() with its own unit.
CallsKeepKind ==
    \A c \in Calls :
        /\ pc[c] = "idle" => req[c] = NoRequest /\ unit[c] = NoRef
        /\ result[c] = "destroyed" => pc[c] = "done"
        /\ pc[c] \in {"mkdir", "spawn", "writePid", "abort", "record", "lateStop", "lateRm"}
              => IsEnsure(c)
        /\ pc[c] \in {"writePid", "abort", "record", "lateStop", "lateRm"} => unit[c] # NoRef
        /\ unit[c] # NoRef => unit[c].gen = req[c].gen

\* The reconciler asks for a generation once the one before is destroyed.
OneAtATime ==
    \A e, f \in Calls : IsEnsure(e) /\ IsEnsure(f) /\ req[e].gen < req[f].gen => Destroyed(e)

\* A generation that has a unit, or is about to.
Started(g) ==
    \/ \E r \in spawned : r.gen = g
    \/ \E c \in Calls : pc[c] \in {"mkdir", "spawn"} /\ req[c].gen = g

\* The store's record is of the newest generation started, and so is its ref.
RecordIsNewest ==
    /\ \A g \in Gens : Started(g) =>
          /\ records.desired # "absent" /\ g <= records.gen
          /\ records.ref # NoRef => g <= records.ref.gen
    /\ records.desired = "ensured" /\ records.ref # NoRef => records.ref.gen = records.gen

\* The ref a destroy() brings is of the newest ensure() made before it.
RequestIsNewest ==
    \A d, e \in Calls :
        (IsEnsure(e) /\ req[d].ref # NoRef /\ req[e].gen <= req[d].gen)
            => req[e].gen <= req[d].ref.gen

\* The store's record fences whatever a confirming destroy() has to stop.
Fenced ==
    \A d \in Calls : Confirming(d) => initialized /\ Rank(records) >= 2 * req[d].gen + 2

\* The call has still to find the unit's directory, to read it, or to stop the unit.
Reaches(d, r) ==
    \/ pc[d] = "list"
    \/ pc[d] = "read" /\ r.gen \in todo[d]
    \/ pc[d] \in {"read", "stop", "rm"} /\ r \in stops[d]

\* A confirming destroy() stops every unit of its generation or an older one,
\* or the unit's own ensure() does.
Covered ==
    \A d \in Calls : Confirming(d) =>
        \A r \in live : r.gen <= req[d].gen => Starting(r) \/ Reaches(d, r)

\* What holds whenever generations advance and the hub stays up.
Standing == Remembers /\ CallsKeepKind /\ RecordIsNewest /\ RequestIsNewest /\ Fenced

Assumed == TypeOK /\ Asked /\ OrphanInv /\ Standing

\* What the reconciler's order adds.
DestroyInv == OneAtATime /\ Covered

(* What the absence of failures adds, in every order of advancing generations *)

\* The call's sweep, or its destroy(), takes the unit; a sweep keeps its own.
Sweeps(d, r) == Reaches(d, r) /\ ~(IsEnsure(d) /\ r = unit[d])

\* The unit is the one the store wants to run.
Current(r) == records.desired = "ensured" /\ records.ref = r

\* The ensure() the store wants has still to record its unit, and then sweeps.
SweepToCome ==
    /\ records.desired = "ensured" /\ records.ref = NoRef
    /\ \E c \in Calls : pc[c] \in {"mkdir", "spawn", "writePid", "record"}
                        /\ req[c].gen = records.gen

\* Every other unit is being started, or on its way out.
Swept ==
    \A r \in live :
        Starting(r) \/ Current(r) \/ SweepToCome \/ \E d \in Calls : Sweeps(d, r)

\* Nobody knows a unit before its pid file is written, so nobody removes the
\* directory from under it, and no start is abandoned.
StartsUnseen ==
    \A c \in Calls :
        /\ pc[c] # "abort"
        /\ pc[c] \in {"spawn", "writePid"} => req[c].gen \in unitDirs
        /\ pc[c] = "writePid" =>
              /\ records.ref # unit[c] /\ pidFiles[unit[c].gen] # unit[c].pid
              /\ \A d \in Calls : /\ req[d].ref # unit[c] /\ unit[c] \notin stops[d]
                                  /\ pc[d] \in {"rm", "lateRm"} => cur[d] # unit[c]
        /\ result[c] = "accepted" => pc[c] = "done"

\* The ensure() has recorded its unit.
Recorded(e) == result[e] = "accepted" \/ (IsEnsure(e) /\ pc[e] \in {"list", "read", "stop", "rm"})

\* The newest ensure() that has done so did it last.
NewestIsRecorded ==
    \A e \in Calls : Recorded(e) /\ NewestEnsure(e) => unit[e] # NoRef /\ records.ref = unit[e]

\* The ref a destroy() brings is the record's, or the destroy() is stale.
RequestIsCurrent ==
    \A d \in Calls : pc[d] \in {"observe", "queued"} /\ req[d].ref # NoRef =>
        records.ref = req[d].ref \/ records.gen > req[d].gen

SweepInv == Swept /\ StartsUnseen /\ NewestIsRecorded /\ RequestIsCurrent

-----------------------------------------------------------------------------
(* The store *)

\* Without a crash the store works on what it remembers (initialize).
LEMMA LoadedIsRecords == Remembers => Loaded = records
  BY DEF Remembers, Loaded

\* A step either leaves the store alone, or reads it and perhaps moves it on.
LEMMA StoreMoves ==
    ASSUME TypeOK, Remembers, NEW c \in Calls, Step(c) \/ Failure(c)
    PROVE  \/ UNCHANGED <<records, initialized>>
           \/ records' = records /\ initialized'
           \/ /\ ObserveEnsure(c) /\ EnsureVerdict(records, req[c]) = "write"
              /\ records' = EnsuredRecord(req[c]) /\ initialized'
           \/ /\ ObserveDestroy(c) /\ DestroyVerdict(records, req[c]) = "write"
              /\ records' = DestroyedRecord(records, req[c]) /\ initialized'
           \/ /\ RecordUnit(c) /\ StillWanted(records, req[c])
              /\ records' = [records EXCEPT !.ref = unit[c]] /\ initialized'
  <1> USE LoadedIsRecords DEF store, Persist, Keep
  <1>1. CASE ObserveEnsure(c)
    BY <1>1 DEF ObserveEnsure
  <1>2. CASE ObserveDestroy(c)
    BY <1>2 DEF ObserveDestroy
  <1>3. CASE RecordUnit(c)
    BY <1>3 DEF RecordUnit
  <1>4. CASE StoreWriteFails(c)
    BY <1>4 DEF StoreWriteFails
  <1>5. CASE Step(c) /\ ~ObserveEnsure(c) /\ ~ObserveDestroy(c) /\ ~RecordUnit(c)
    BY <1>5 DEF Step, MakeUnitDir, SpawnSidecar, WritePidFile, AbortStart, StopLateUnit,
                RemoveLateUnit, ListUnits, ReadPidFile, TerminateUnit, RemoveUnit, Answer
  <1>6. CASE Failure(c) /\ ~StoreWriteFails(c)
    BY <1>6 DEF Failure, StoreReadFails, StartFails, PidWriteFails, FindFails, LateStopFails,
                TerminateFails, RemoveFails
  <1> QED BY <1>1, <1>2, <1>3, <1>4, <1>5, <1>6

\* The remembered record never goes back (observeEnsure, observeDestroy, recordUnit).
LEMMA RankGrows ==
    ASSUME TypeOK, Remembers, NEW c \in Calls, Step(c) \/ Failure(c)
    PROVE  Rank(records') >= Rank(records) /\ (initialized => initialized')
  <1>1. req[c] \in Request /\ records \in AllocationRecord /\ Rank(records) \in Nat
    BY RankType DEF TypeOK
  <1>2. Rank(EnsuredRecord(req[c])) \in Nat /\ Rank(DestroyedRecord(records, req[c])) \in Nat
    BY <1>1, RecordTypes, RankType DEF Ref
  <1>3. Rank([records EXCEPT !.ref = unit[c]]) = Rank(records)
    BY <1>1, RefKeepsRank
  <1>4. EnsureVerdict(records, req[c]) = "write" => Rank(EnsuredRecord(req[c])) > Rank(records)
    BY <1>1, WritesAdvance
  <1>5. DestroyVerdict(records, req[c]) = "write"
           => Rank(DestroyedRecord(records, req[c])) > Rank(records)
    BY <1>1, WritesAdvance
  <1>6. Rank(records') >= Rank(records)
    <2> HIDE DEF Rank
    <2>1. CASE records' = records
      BY <2>1, <1>1
    <2>2. CASE records' # records
      BY <2>2, <1>1, <1>2, <1>3, <1>4, <1>5, StoreMoves
    <2> QED BY <2>1, <2>2
  <1>7. initialized => initialized'
    BY StoreMoves
  <1> QED BY <1>6, <1>7

\* Only a crash forgets (createAllocationStateStore).
LEMMA RemembersStep ==
    ASSUME TypeOK, Remembers, NEW c \in Calls, Step(c) \/ Failure(c)
    PROVE  Remembers'
  <1>1. lost' = lost
    BY DEF history, Step, ObserveEnsure, ObserveDestroy, MakeUnitDir, SpawnSidecar, WritePidFile,
           AbortStart, RecordUnit, StopLateUnit, RemoveLateUnit, ListUnits, ReadPidFile,
           TerminateUnit, RemoveUnit, Answer, Failure, StoreReadFails, StoreWriteFails,
           StartFails, PidWriteFails, FindFails, LateStopFails, TerminateFails, RemoveFails
  <1>2. initialized' \/ UNCHANGED store
    BY DEF store, Persist, Keep, Step, ObserveEnsure, ObserveDestroy, MakeUnitDir, SpawnSidecar,
           WritePidFile, AbortStart, RecordUnit, StopLateUnit, RemoveLateUnit, ListUnits,
           ReadPidFile, TerminateUnit, RemoveUnit, Answer, Failure, StoreReadFails,
           StoreWriteFails, StartFails, PidWriteFails, FindFails, LateStopFails,
           TerminateFails, RemoveFails
  <1> QED BY <1>1, <1>2 DEF Remembers, store

-----------------------------------------------------------------------------
(* The calls *)

\* A step ends no other call as destroyed, and forgets no such end (Settle).
LEMMA DestroyedStays ==
    ASSUME TypeOK, CallsKeepKind, NEW c \in Calls, Step(c) \/ Failure(c), NEW d \in Calls
    PROVE  /\ result[d] = "destroyed" => result'[d] = "destroyed" /\ pc'[d] = pc[d]
           /\ result'[d] = "destroyed" => \/ result[d] = "destroyed"
                                          \/ d = c /\ Answer(c) /\ ~IsEnsure(c)
  <1>1. CASE Answer(c)
    BY <1>1 DEF Answer, Settle, TypeOK, CallsKeepKind
  <1>2. CASE ~Answer(c)
    <2>1. \/ \E l \in PCs : Goto(c, l)
          \/ \E res \in Results : Settle(c, res) /\ res # "destroyed"
      <3>1. EnsureVerdict(Loaded, req[c]) # "destroyed" /\ DestroyVerdict(Loaded, req[c]) # "destroyed"
        BY DEF EnsureVerdict, DestroyVerdict
      <3>2. EnsureVerdict(Loaded, req[c]) \in {"write", "keep"} \cup Results
            /\ DestroyVerdict(Loaded, req[c]) \in {"write", "keep"} \cup Results
        BY LoadedType, VerdictTypes DEF TypeOK
      <3>3. CASE ObserveEnsure(c) \/ ObserveDestroy(c)
        BY <3>1, <3>2, <3>3 DEF ObserveEnsure, ObserveDestroy, PCs
      <3>4. CASE Failure(c)
        BY <3>4 DEF Failure, StoreReadFails, StoreWriteFails, StartFails, PidWriteFails,
                    FindFails, LateStopFails, TerminateFails, RemoveFails, StopFailed, PCs, Results
      <3>5. CASE Step(c) /\ ~ObserveEnsure(c) /\ ~ObserveDestroy(c)
        BY <3>5, <1>2 DEF Step, MakeUnitDir, SpawnSidecar, WritePidFile, AbortStart, RecordUnit,
                    StopLateUnit, RemoveLateUnit, ListUnits, ReadPidFile, TerminateUnit,
                    RemoveUnit, PCs, Results
      <3> QED BY <3>3, <3>4, <3>5
    <2>2. pc[c] # "done"
      BY StepMoves
    <2> QED BY <2>1, <2>2 DEF Goto, Settle, TypeOK, CallsKeepKind
  <1> QED BY <1>1, <1>2

\* Requests and their order are those of the arrivals.
LEMMA OrderStep ==
    ASSUME TypeOK, CallsKeepKind, NEW c \in Calls, Step(c) \/ Failure(c)
    PROVE  /\ OneAtATime => OneAtATime'
           /\ RequestIsNewest => RequestIsNewest'
  <1>1. req' = req
    BY StepMoves
  <1>2. \A e \in Calls : Destroyed(e) => Destroyed(e)'
    BY <1>1, DestroyedStays DEF Destroyed, IsDestroy
  <1> QED BY <1>1, <1>2 DEF OneAtATime, RequestIsNewest, IsEnsure

\* A call keeps its kind and its unit (ensureOnce, destroy).
LEMMA KindStep ==
    ASSUME Assumed, NEW c \in Calls, Step(c) \/ Failure(c)
    PROVE  CallsKeepKind'
  <1> USE DEF Assumed, Standing
  <1>1. req' = req /\ pc[c] \notin {"idle", "queued", "done"}
    BY StepMoves
  <1>2. ASSUME NEW d \in Calls PROVE result'[d] = "destroyed" => pc'[d] = "done"
    BY <1>2, DestroyedStays DEF CallsKeepKind, Answer, Settle, TypeOK
  <1>3. ASSUME NEW d \in Calls PROVE pc'[d] = "idle" => req'[d] = NoRequest /\ unit'[d] = NoRef
    <2>1. pc'[d] = "idle" => pc[d] = "idle" /\ d # c
      <3>1. CASE d = c
        BY <3>1 DEF TypeOK, Step, ObserveEnsure, ObserveDestroy, MakeUnitDir, SpawnSidecar,
               WritePidFile, AbortStart, RecordUnit, StopLateUnit, RemoveLateUnit, ListUnits,
               ReadPidFile, TerminateUnit, RemoveUnit, Answer, Failure, StoreReadFails,
               StoreWriteFails, StartFails, PidWriteFails, FindFails, LateStopFails,
               TerminateFails, RemoveFails, StopFailed, Goto, Settle
      <3>2. CASE d # c
        BY <3>2, OthersKeep
      <3> QED BY <3>1, <3>2
    <2> QED BY <1>1, <2>1, OthersKeep DEF CallsKeepKind
  <1>4. ASSUME NEW d \in Calls
        PROVE  pc'[d] \in {"mkdir", "spawn", "writePid", "abort", "record", "lateStop", "lateRm"}
                  => IsEnsure(d)'
    <2>1. CASE d = c
      BY <1>1, <2>1 DEF CallsKeepKind, IsEnsure, IsDestroy, TypeOK, Step, ObserveEnsure,
             ObserveDestroy, MakeUnitDir, SpawnSidecar, WritePidFile, AbortStart, RecordUnit,
             StopLateUnit, RemoveLateUnit, ListUnits, ReadPidFile, TerminateUnit, RemoveUnit,
             Answer, Failure, StoreReadFails, StoreWriteFails, StartFails, PidWriteFails,
             FindFails, LateStopFails, TerminateFails, RemoveFails, StopFailed, Goto, Settle
    <2>2. CASE d # c
      BY <1>1, <2>2, OthersKeep DEF CallsKeepKind, IsEnsure
    <2> QED BY <2>1, <2>2
  <1>5. \A d \in Calls : unit'[d] = unit[d] \/ (d = c /\ (SpawnSidecar(c) \/ ObserveEnsure(c)))
    BY DEF TypeOK, progress, Step, ObserveDestroy, MakeUnitDir, WritePidFile,
           AbortStart, RecordUnit, StopLateUnit, RemoveLateUnit, ListUnits, ReadPidFile,
           TerminateUnit, RemoveUnit, Answer, Failure, StoreReadFails, StoreWriteFails,
           StartFails, PidWriteFails, FindFails, LateStopFails, TerminateFails, RemoveFails,
           SpawnSidecar, ObserveEnsure
  <1>6. ASSUME NEW d \in Calls PROVE unit'[d] # NoRef => unit'[d].gen = req'[d].gen
    <2>1. CASE SpawnSidecar(c) /\ d = c
      BY <1>1, <2>1 DEF SpawnSidecar, TypeOK
    <2>2. CASE ObserveEnsure(c) /\ d = c /\ unit'[c] # unit[c]
      <3>1. EnsureVerdict(records, req[c]) = "keep" /\ unit'[c] = records.ref
        BY <2>2, LoadedIsRecords DEF ObserveEnsure, TypeOK
      <3>2. records.desired = "ensured" /\ records.gen = req[c].gen
        BY <3>1 DEF EnsureVerdict
      <3> QED BY <1>1, <2>2, <3>1, <3>2 DEF RecordIsNewest
    <2>3. CASE unit'[d] = unit[d]
      BY <1>1, <2>3 DEF CallsKeepKind
    <2> QED BY <1>5, <2>1, <2>2, <2>3
  <1>7. ASSUME NEW d \in Calls
        PROVE  pc'[d] \in {"writePid", "abort", "record", "lateStop", "lateRm"} => unit'[d] # NoRef
    <2>1. CASE d # c
      BY <2>1, OthersKeep DEF CallsKeepKind
    <2>2. CASE d = c /\ SpawnSidecar(c)
      BY <2>2 DEF SpawnSidecar, TypeOK, NoRef
    <2>3. CASE d = c /\ ~SpawnSidecar(c)
      <3>1. pc'[c] \in {"writePid", "abort", "record", "lateStop", "lateRm"}
               => pc[c] \in {"writePid", "abort", "record", "lateStop", "lateRm"} /\ ~ObserveEnsure(c)
        BY <2>3 DEF TypeOK, Step, ObserveEnsure, ObserveDestroy, MakeUnitDir,
               WritePidFile, AbortStart, RecordUnit, StopLateUnit, RemoveLateUnit, ListUnits,
               ReadPidFile, TerminateUnit, RemoveUnit, Answer, Failure, StoreReadFails,
               StoreWriteFails, StartFails, PidWriteFails, FindFails, LateStopFails,
               TerminateFails, RemoveFails, StopFailed, Goto, Settle
      <3> QED BY <2>3, <3>1, <1>5 DEF CallsKeepKind
    <2> QED BY <2>1, <2>2, <2>3
  <1> QED BY <1>2, <1>3, <1>4, <1>6, <1>7 DEF CallsKeepKind

-----------------------------------------------------------------------------
(* The record, the fence and the units *)

\* A step starts only the generation whose ensure() has been let through.
LEMMA StartedStep ==
    ASSUME Assumed, NEW c \in Calls, Step(c) \/ Failure(c), NEW g \in Gens, Started(g)'
    PROVE  \/ Started(g)
           \/ /\ ObserveEnsure(c) /\ req[c].gen = g /\ records'.ref = NoRef
              /\ records'.desired = "ensured" /\ records'.gen = g
  <1> USE DEF Assumed, Standing
  <1>1. CASE SpawnSidecar(c)
    <2>1. Started(req[c].gen)
      BY <1>1 DEF SpawnSidecar, Started
    <2>2. \A r \in spawned' : r \in spawned \/ r.gen = req[c].gen
      BY <1>1 DEF SpawnSidecar
    <2>3. ASSUME NEW d \in Calls, pc'[d] \in {"mkdir", "spawn"}
          PROVE  pc[d] \in {"mkdir", "spawn"} /\ req'[d] = req[d]
      BY <1>1, <2>3, StepMoves DEF SpawnSidecar, Goto, TypeOK
    <2> QED BY <2>1, <2>2, <2>3 DEF Started
  <1>2. CASE ObserveEnsure(c)
    <2>1. spawned' = spawned /\ req' = req
      BY <1>2 DEF ObserveEnsure
    <2>2. \A d \in Calls \ {c} : pc'[d] \in {"mkdir", "spawn"} => pc[d] \in {"mkdir", "spawn"}
      BY OthersKeep
    <2>3. CASE pc'[c] \notin {"mkdir", "spawn"}
      BY <2>1, <2>2, <2>3 DEF Started
    <2>4. CASE pc'[c] \in {"mkdir", "spawn"}
      <3>1. CASE EnsureVerdict(records, req[c]) = "write"
        <4>1. records' = EnsuredRecord(req[c])
          BY <1>2, <3>1, LoadedIsRecords DEF ObserveEnsure, Persist
        <4> QED BY <1>2, <2>1, <2>2, <4>1 DEF Started, EnsuredRecord
      <3>2. CASE EnsureVerdict(records, req[c]) = "keep"
        <4>1. records' = records /\ records.ref = NoRef
          BY <1>2, <2>4, <3>2, LoadedIsRecords DEF ObserveEnsure, Keep, Goto, TypeOK
        <4>2. records.desired = "ensured" /\ records.gen = req[c].gen
          BY <3>2 DEF EnsureVerdict
        <4> QED BY <1>2, <2>1, <2>2, <4>1, <4>2 DEF Started
      <3>3. CASE EnsureVerdict(records, req[c]) \notin {"write", "keep"}
        BY <1>2, <2>4, <3>3, LoadedIsRecords DEF ObserveEnsure, Settle, TypeOK
      <3> QED BY <3>1, <3>2, <3>3
    <2> QED BY <2>3, <2>4
  <1>3. CASE ~SpawnSidecar(c) /\ ~ObserveEnsure(c)
    <2>1. spawned' = spawned /\ req' = req
      BY <1>3, OnlySpawnAdds, StepMoves
    <2>2. pc'[c] \in {"mkdir", "spawn"} => pc[c] \in {"mkdir", "spawn"}
      BY <1>3 DEF TypeOK, Step, ObserveDestroy, MakeUnitDir, WritePidFile,
             AbortStart, RecordUnit, StopLateUnit, RemoveLateUnit, ListUnits,
             ReadPidFile, TerminateUnit, RemoveUnit, Answer, Failure, StoreReadFails,
             StoreWriteFails, StartFails, PidWriteFails, FindFails, LateStopFails,
             TerminateFails, RemoveFails, StopFailed, Goto, Settle
    <2>3. \A d \in Calls \ {c} : pc'[d] \in {"mkdir", "spawn"} => pc[d] \in {"mkdir", "spawn"}
      BY OthersKeep
    <2> QED BY <2>1, <2>2, <2>3 DEF Started
  <1> QED BY <1>1, <1>2, <1>3

\* The record stays the newest (observeEnsure, observeDestroy, recordUnit).
LEMMA RecordStep ==
    ASSUME Assumed, NEW c \in Calls, Step(c) \/ Failure(c)
    PROVE  RecordIsNewest'
  <1> USE DEF Assumed, Standing
  <1>0. req[c] \in Request /\ records \in AllocationRecord /\ Gens \subseteq Nat
    BY ConstantsAssumption DEF ConstantsAssumption, TypeOK
  <1>1. CASE records' = records
    <2>1. ASSUME NEW g \in Gens, Started(g)'
          PROVE  /\ records.desired # "absent" /\ g <= records.gen
                 /\ records.ref # NoRef => g <= records.ref.gen
      <3>1. CASE Started(g)
        BY <2>1, <3>1 DEF RecordIsNewest
      <3>2. CASE ~Started(g)
        BY <1>0, <1>1, <2>1, <3>2, StartedStep
      <3> QED BY <3>1, <3>2
    <2> QED BY <1>1, <2>1 DEF RecordIsNewest
  <1>2. CASE ObserveEnsure(c) /\ records' = EnsuredRecord(req[c])
             /\ EnsureVerdict(records, req[c]) = "write"
    <2>1. records'.desired = "ensured" /\ records'.ref = NoRef /\ records'.gen = req[c].gen
      BY <1>2 DEF EnsuredRecord
    <2>2. ASSUME NEW g \in Gens, Started(g)' PROVE g <= req[c].gen
      <3>1. CASE Started(g)
        <4>1. records.desired # "absent" /\ g <= records.gen
          BY <3>1 DEF RecordIsNewest
        <4>2. records.gen <= req[c].gen
          BY <1>0, <1>2, <4>1 DEF EnsureVerdict, AllocationRecord, Request
        <4> QED BY <1>0, <4>1, <4>2 DEF AllocationRecord, Request
      <3>2. CASE ~Started(g)
        BY <1>0, <2>2, <3>2, StartedStep
      <3> QED BY <3>1, <3>2
    <2> QED BY <2>1, <2>2 DEF RecordIsNewest
  <1>3. CASE ObserveDestroy(c) /\ records' = DestroyedRecord(records, req[c])
             /\ DestroyVerdict(records, req[c]) = "write"
    <2>1. records'.desired = "destroyed" /\ records'.ref = records.ref /\ records'.gen = req[c].gen
      BY <1>3 DEF DestroyedRecord
    <2>2. ASSUME NEW g \in Gens, Started(g)'
          PROVE  g <= req[c].gen /\ (records.ref # NoRef => g <= records.ref.gen)
      <3>1. Started(g)
        BY <1>3, <2>1, <2>2, StartedStep
      <3>2. records.desired # "absent" /\ g <= records.gen
            /\ (records.ref # NoRef => g <= records.ref.gen)
        BY <3>1 DEF RecordIsNewest
      <3>3. records.gen <= req[c].gen
        BY <1>0, <1>3, <3>2 DEF DestroyVerdict, AllocationRecord, Request
      <3> QED BY <1>0, <3>2, <3>3 DEF AllocationRecord, Request
    <2> QED BY <2>1, <2>2 DEF RecordIsNewest
  <1>4. CASE RecordUnit(c) /\ StillWanted(records, req[c])
             /\ records' = [records EXCEPT !.ref = unit[c]]
    <2>1. /\ records'.desired = "ensured" /\ records'.ref = unit[c]
          /\ records'.gen = req[c].gen /\ records.gen = req[c].gen
      BY <1>0, <1>4 DEF StillWanted, AllocationRecord
    <2>2. unit[c] # NoRef /\ unit[c].gen = req[c].gen
      BY <1>4 DEF RecordUnit, CallsKeepKind
    <2>3. ASSUME NEW g \in Gens, Started(g)' PROVE g <= req[c].gen
      <3>1. Started(g)
        BY <1>4, <2>3, StartedStep DEF RecordUnit, ObserveEnsure
      <3> QED BY <2>1, <3>1 DEF RecordIsNewest
    <2> QED BY <2>1, <2>2, <2>3 DEF RecordIsNewest
  <1> QED BY <1>1, <1>2, <1>3, <1>4, StoreMoves

\* What comes to confirm has been fenced (observeDestroy).
LEMMA ConfirmingStep ==
    ASSUME Assumed, NEW c \in Calls, Step(c) \/ Failure(c), NEW d \in Calls, Confirming(d)'
    PROVE  \/ Confirming(d) /\ (d # c => pc'[d] = pc[d] /\ todo'[d] = todo[d] /\ stops'[d] = stops[d])
           \/ /\ d = c /\ ObserveDestroy(c)
              /\ DestroyVerdict(records, req[c]) \in {"write", "keep"}
  <1> USE DEF Assumed, Standing
  <1>1. CASE d # c
    <2>1. result'[d] = "destroyed" => result[d] = "destroyed"
      BY <1>1, DestroyedStays
    <2>2. ~IsEnsure(d)' /\ pc'[d] \in {"list", "read", "stop", "rm"}
             => ~IsEnsure(d) /\ pc[d] \in {"list", "read", "stop", "rm"}
      BY <1>1, OthersKeep, StepMoves DEF IsEnsure
    <2>3. pc'[d] = pc[d]
      BY <1>1, <2>1, <2>2, OthersKeep DEF Confirming, CallsKeepKind
    <2> QED BY <1>1, <2>1, <2>2, <2>3, OthersKeep DEF Confirming
  <1>2. CASE d = c /\ ObserveDestroy(c)
    <2>1. CASE DestroyVerdict(records, req[c]) \notin {"write", "keep"}
      <3>1. pc'[c] = "done" /\ result'[c] # "destroyed"
        BY <1>2, <2>1, LoadedIsRecords DEF ObserveDestroy, Settle, TypeOK, DestroyVerdict
      <3> QED BY <1>2, <3>1 DEF Confirming
    <2> QED BY <1>2, <2>1
  <1>3. CASE d = c /\ ~ObserveDestroy(c)
    <2>1. req' = req /\ pc[c] # "done"
      BY StepMoves
    <2>2. CASE result'[c] = "destroyed"
      <3>1. Answer(c) /\ ~IsEnsure(c)
        BY <2>1, <2>2, DestroyedStays DEF CallsKeepKind
      <3> QED BY <1>3, <3>1 DEF Answer, Confirming
    <2>3. CASE ~IsEnsure(c)' /\ pc'[c] \in {"list", "read", "stop", "rm"}
      <3>1. ~IsEnsure(c)
        BY <2>1, <2>3 DEF IsEnsure
      <3>2. pc[c] \notin {"mkdir", "spawn", "writePid", "abort", "record", "lateStop", "lateRm"}
        BY <3>1 DEF CallsKeepKind
      <3>3. pc[c] \in {"list", "read", "stop", "rm"}
        BY <1>3, <2>3, <3>1, <3>2 DEF TypeOK, Step, ObserveEnsure, MakeUnitDir, SpawnSidecar,
               WritePidFile, AbortStart, RecordUnit, StopLateUnit, RemoveLateUnit, ListUnits,
               ReadPidFile, TerminateUnit, RemoveUnit, Answer, Failure, StoreReadFails,
               StoreWriteFails, StartFails, PidWriteFails, FindFails, LateStopFails,
               TerminateFails, RemoveFails, Goto, Settle
      <3> QED BY <1>3, <3>1, <3>3 DEF Confirming
    <2> QED BY <1>3, <2>2, <2>3 DEF Confirming
  <1> QED BY <1>1, <1>2, <1>3

\* The fence rises with the record (observeDestroy).
LEMMA FencedStep ==
    ASSUME Assumed, NEW c \in Calls, Step(c) \/ Failure(c)
    PROVE  Fenced'
  <1> USE DEF Assumed, Standing
  <1> SUFFICES ASSUME NEW d \in Calls, Confirming(d)'
               PROVE  initialized' /\ Rank(records') >= 2 * req'[d].gen + 2
    BY DEF Fenced, Rank
  <1>0. /\ req' = req /\ req[d] \in Request /\ records \in AllocationRecord
        /\ Rank(records) \in Nat /\ Rank(records') >= Rank(records)
        /\ (initialized => initialized')
    BY StepMoves, RankType, RankGrows DEF TypeOK
  <1>1. CASE Confirming(d)
    <2>1. initialized /\ Rank(records) >= 2 * req[d].gen + 2
      BY <1>1 DEF Fenced
    <2>2. TypeOK'
      BY NextType DEF Next
    <2>3. Rank(records') \in Nat
      BY <2>2, RankType DEF TypeOK
    <2> HIDE DEF Rank
    <2> QED BY <1>0, <2>1, <2>3 DEF Request
  <1>2. CASE ~Confirming(d)
    <2>1. d = c /\ ObserveDestroy(c) /\ DestroyVerdict(records, req[c]) \in {"write", "keep"}
      BY <1>2, ConfirmingStep
    <2>2. initialized'
      BY <2>1, LoadedIsRecords DEF ObserveDestroy, Persist, Keep
    <2>3. CASE DestroyVerdict(records, req[c]) = "write"
      <3>1. records' = DestroyedRecord(records, req[c])
        BY <2>1, <2>3, LoadedIsRecords DEF ObserveDestroy, Persist
      <3> QED BY <1>0, <2>1, <2>2, <3>1 DEF DestroyedRecord, Rank, Request
    <2>4. CASE DestroyVerdict(records, req[c]) = "keep"
      <3>1. records' = records
        BY <2>1, <2>4, LoadedIsRecords DEF ObserveDestroy, Keep
      <3>2. records.desired = "destroyed" /\ records.gen = req[c].gen
        BY <2>4 DEF DestroyVerdict
      <3> QED BY <1>0, <2>1, <2>2, <3>1, <3>2 DEF Rank, Request
    <2> QED BY <2>1, <2>3, <2>4
  <1> QED BY <1>1, <1>2

-----------------------------------------------------------------------------
(* What a confirming destroy() has to stop *)

\* A running unit is found in its directory, or its ensure() is still starting it.
LEMMA FoundOrStarting ==
    ASSUME OrphanInv, Remembers, NEW r \in live
    PROVE  Starting(r) \/ Findable(r)
  BY DEF OrphanInv, OrphanFree, Remembers, Held, Starting

\* The unit of a starting call goes before it is let through to a fenced
\* generation: recordUnit refuses it, and the call stops it (ensureOnce).
LEMMA StartingStays ==
    ASSUME Assumed, NEW c \in Calls, Step(c) \/ Failure(c),
           NEW r \in live', Starting(r), initialized, Rank(records) >= 2 * r.gen + 2
    PROVE  Starting(r)'
  <1> USE DEF Assumed, Standing
  <1>1. PICK e \in Calls : pc[e] \in {"writePid", "abort", "record", "lateStop"} /\ unit[e] = r
    BY DEF Starting
  <1>2. CASE e # c
    BY <1>1, <1>2, OthersKeep DEF Starting
  <1>3. CASE e = c
    <2>1. unit[c] # NoRef /\ req[c].gen = r.gen
      BY <1>1, <1>3 DEF CallsKeepKind
    <2>2. ~StillWanted(records, req[c])
      BY <2>1 DEF StillWanted, Rank, TypeOK, AllocationRecord
    <2>3. WritePidFile(c) \/ PidWriteFails(c) \/ AbortStart(c) \/ RecordUnit(c)
          \/ StopLateUnit(c) \/ LateStopFails(c)
      BY <1>1, <1>3, <2>2, LoadedIsRecords
         DEF Step, ObserveEnsure, ObserveDestroy, MakeUnitDir, SpawnSidecar, RemoveLateUnit,
             ListUnits, ReadPidFile, TerminateUnit, RemoveUnit, Answer, Failure, StoreReadFails,
             StoreWriteFails, Writes, StartFails, FindFails, TerminateFails, RemoveFails
    <2>4. CASE WritePidFile(c) \/ PidWriteFails(c) \/ RecordUnit(c)
      <3>1. unit' = unit
        BY <2>4 DEF WritePidFile, PidWriteFails, RecordUnit, progress
      <3>2. pc'[c] \in {"abort", "record", "lateStop"}
        BY <2>2, <2>4, LoadedIsRecords DEF WritePidFile, PidWriteFails, RecordUnit, Goto, TypeOK
      <3> QED BY <1>1, <1>3, <3>1, <3>2 DEF Starting
    <2>5. CASE AbortStart(c) \/ StopLateUnit(c) \/ LateStopFails(c)
      BY <1>1, <1>3, <2>5 DEF AbortStart, StopLateUnit, LateStopFails
    <2> QED BY <2>3, <2>4, <2>5
  <1> QED BY <1>2, <1>3

\* A unit that runs and is let through is of the newest ensure(): the one before
\* is destroyed, and what its destroy() confirmed is gone (AdmitsEnsure).
LEMMA OnlyTheNewest ==
    ASSUME Assumed, DestroyInv, NEW r \in live, ~Starting(r), NEW s \in spawned
    PROVE  s.gen <= r.gen
  <1> USE DEF Assumed, Standing
  <1>1. PICK e \in Calls : IsEnsure(e) /\ req[e].gen = r.gen
    BY DEF OrphanInv, UnitsAreUnique, SpawnedByEnsure
  <1>2. PICK f \in Calls : IsEnsure(f) /\ req[f].gen = s.gen
    BY DEF OrphanInv, SpawnedByEnsure
  <1>3. r.gen \in Nat /\ s.gen \in Nat
    BY ConstantsAssumption DEF ConstantsAssumption, TypeOK, Unit
  <1>4. CASE r.gen < s.gen
    <2>1. Destroyed(e)
      BY <1>1, <1>2, <1>4 DEF DestroyInv, OneAtATime
    <2>2. PICK d \in Calls : result[d] = "destroyed" /\ req[d].gen >= r.gen
      BY <1>1, <2>1 DEF Destroyed
    <2>3. pc[d] = "done" /\ Confirming(d)
      BY <2>2 DEF CallsKeepKind, Confirming
    <2>4. req[d].gen \in Nat
      BY DEF TypeOK, Request
    <2> QED BY <1>3, <2>2, <2>3, <2>4 DEF DestroyInv, Covered, Reaches
  <1> QED BY <1>3, <1>4

\* The unit destroy() stops without looking further is the only one (destroy).
LEMMA RefIsTheOne ==
    ASSUME Assumed, DestroyInv, NEW d \in Calls, IsDestroy(d), NEW r \in live, ~Starting(r),
           r.gen <= req[d].gen,
           NEW ref \in {req[d].ref, records.ref}, ref # NoRef
    PROVE  r = ref
  <1> USE DEF Assumed, Standing
  <1>1. ref \in spawned /\ r \in spawned
    BY DEF OrphanInv, RefsAreKnown, Known, UnitsAreUnique
  <1>2. ref.gen <= r.gen
    BY <1>1, OnlyTheNewest
  <1>3. r.gen \in Gens /\ r.gen \in Nat /\ ref.gen \in Nat
    BY <1>1, ConstantsAssumption DEF ConstantsAssumption, TypeOK, Unit
  <1>4. r.gen <= ref.gen
    <2>1. CASE ref = req[d].ref
      <3>1. PICK e \in Calls : IsEnsure(e) /\ req[e].gen = r.gen
        BY <1>1 DEF OrphanInv, SpawnedByEnsure
      <3> QED BY <2>1, <3>1 DEF RequestIsNewest
    <2>2. CASE ref = records.ref
      BY <1>1, <1>3, <2>2 DEF RecordIsNewest, Started
    <2> QED BY <2>1, <2>2
  <1> QED BY <1>1, <1>2, <1>3, <1>4 DEF OrphanInv, UnitsAreUnique

\* What a destroy() that is let through has to stop is what it stops, or what it
\* will find (destroy).
LEMMA CoveredAtFirst ==
    ASSUME Assumed, DestroyInv, NEW d \in Calls, ObserveDestroy(d),
           DestroyVerdict(records, req[d]) \in {"write", "keep"},
           NEW r \in live, ~Starting(r), r.gen <= req[d].gen
    PROVE  pc'[d] = "list" \/ (pc'[d] = "stop" /\ r \in stops'[d])
  <1> USE DEF Assumed, Standing
  <1> DEFINE rec == IF DestroyVerdict(records, req[d]) = "write"
                      THEN DestroyedRecord(records, req[d]) ELSE records
             ref == IF req[d].ref # NoRef THEN req[d].ref ELSE rec.ref
  <1>1. rec.ref = records.ref
    BY DEF DestroyedRecord
  <1>2. ref \in {req[d].ref, records.ref}
    BY <1>1
  <1>3. \/ ref = NoRef /\ pc'[d] = "list"
        \/ ref # NoRef /\ pc'[d] = "stop" /\ stops'[d] = {ref}
    BY LoadedIsRecords DEF ObserveDestroy, Goto, TypeOK
  <1> HIDE DEF ref
  <1>4. CASE ref # NoRef
    BY <1>2, <1>3, <1>4, RefIsTheOne DEF ObserveDestroy
  <1> QED BY <1>3, <1>4

\* A sweep loses no unit it has yet to stop (findUnitsByAllocation, stopUnit).
LEMMA SweepGoesOn ==
    ASSUME Assumed, 0 \notin Gens, NEW d \in Calls,
           ListUnits(d) \/ ReadPidFile(d) \/ TerminateUnit(d) \/ RemoveUnit(d),
           NEW r \in live', r \in live, ~Starting(r), ~(IsEnsure(d) /\ r = unit[d]),
           Reaches(d, r)
    PROVE  Reaches(d, r)'
  <1> USE DEF Assumed, Standing, Reaches
  <1>1. \/ pc[d] = "list" \/ (pc[d] = "read" /\ r.gen \in todo[d])
        \/ (pc[d] \in {"read", "stop", "rm"} /\ r \in stops[d])
    OBVIOUS
  <1>2. r.gen \in VisibleUnitDirs /\ r = [gen |-> r.gen, pid |-> pidFiles[r.gen]] /\ r.pid # 0
    <2>1. Findable(r) /\ r \in Unit
      BY FoundOrStarting DEF TypeOK
    <2>2. r.gen \in Nat /\ r.gen # 0 /\ r.pid # 0 /\ r = [gen |-> r.gen, pid |-> r.pid]
      BY <2>1, ConstantsAssumption DEF ConstantsAssumption, Unit
    <2> QED BY <2>1, <2>2 DEF Findable, VisibleUnitDirs
  <1>3. CASE ListUnits(d)
    BY <1>2, <1>3 DEF ListUnits, Goto, TypeOK
  <1>4. CASE ReadPidFile(d)
    <2>1. pc[d] = "read"
      BY <1>4 DEF ReadPidFile
    <2>2. PICK g \in todo[d] :
              LET u == [gen |-> g, pid |-> pidFiles[g]]
              IN  /\ todo' = [todo EXCEPT ![d] = @ \ {g}]
                  /\ stops' = IF u.pid # 0 /\ IsAlive(u.pid) /\ ~(IsEnsure(d) /\ u = unit[d])
                              THEN [stops EXCEPT ![d] = @ \cup {u}] ELSE stops
                  /\ Goto(d, IF todo[d] = {g} THEN "stop" ELSE "read")
      BY <1>4 DEF ReadPidFile
    <2>3. todo'[d] = todo[d] \ {g} /\ stops[d] \subseteq stops'[d]
          /\ pc'[d] \in {"read", "stop"} /\ (pc'[d] = "stop" => todo[d] = {g})
      BY <2>2 DEF Goto, TypeOK
    <2>4. CASE r \in stops[d]
      BY <2>3, <2>4
    <2>5. CASE r.gen \in todo[d] /\ r.gen = g
      <3>1. r \in stops'[d]
        BY <1>1, <1>2, <2>2, <2>5 DEF IsAlive, TypeOK
      <3> QED BY <2>3, <3>1
    <2>6. CASE r.gen \in todo[d] /\ r.gen # g
      BY <2>3, <2>6
    <2> QED BY <1>1, <2>1, <2>4, <2>5, <2>6
  <1>5. CASE TerminateUnit(d)
    <2>1. r \in stops[d]
      BY <1>1, <1>5 DEF TerminateUnit
    <2> QED BY <1>5, <2>1 DEF TerminateUnit, Goto, TypeOK
  <1>6. CASE RemoveUnit(d)
    BY <1>1, <1>6 DEF RemoveUnit, progress, Goto, TypeOK
  <1> QED BY <1>3, <1>4, <1>5, <1>6

\* The destroy()'s own steps lose no unit it has yet to stop (destroy).
LEMMA CoveredByItself ==
    ASSUME Assumed, Covered, 0 \notin Gens,
           NEW d \in Calls, Step(d) \/ Failure(d), ~ObserveDestroy(d),
           Confirming(d), Confirming(d)',
           NEW r \in live', r \in live, ~Starting(r), r.gen <= req[d].gen
    PROVE  Reaches(d, r)'
  <1> USE DEF Assumed, Standing
  <1>1. Reaches(d, r) /\ ~IsEnsure(d)
    <2>1. pc[d] # "done"
      BY StepMoves
    <2> QED BY <2>1 DEF Covered, Confirming, CallsKeepKind
  <1>2. ListUnits(d) \/ ReadPidFile(d) \/ TerminateUnit(d) \/ RemoveUnit(d)
    <2>1. ~Failure(d)
      <3>1. ASSUME Failure(d) PROVE pc'[d] = "done" /\ result'[d] # "destroyed"
        BY <1>1, <3>1 DEF Failure, StoreReadFails, StoreWriteFails, StartFails, PidWriteFails,
               FindFails, LateStopFails, TerminateFails, RemoveFails, StopFailed, Settle, TypeOK,
               Reaches
      <3> QED BY <3>1 DEF Confirming
    <2>2. ~Answer(d)
      BY <1>1 DEF Answer, Reaches
    <2> QED
      BY <1>1, <2>1, <2>2 DEF Reaches, Step, ObserveEnsure, MakeUnitDir, SpawnSidecar, WritePidFile,
             AbortStart, RecordUnit, StopLateUnit, RemoveLateUnit
  <1> QED BY <1>1, <1>2, SweepGoesOn

\* Every step of a call leaves every confirming destroy() covered.
LEMMA CoveredStep ==
    ASSUME Assumed, DestroyInv, 0 \notin Gens, NEW c \in Calls, Step(c) \/ Failure(c)
    PROVE  Covered'
  <1> USE DEF Assumed, Standing
  <1> SUFFICES ASSUME NEW d \in Calls, Confirming(d)', NEW r \in live', r.gen <= req'[d].gen
               PROVE  Starting(r)' \/ Reaches(d, r)'
    BY DEF Covered
  <1>0. req' = req /\ pc[c] \notin {"idle", "queued", "done"}
    BY StepMoves
  <1>1. CASE r \notin live
    <2>1. SpawnSidecar(c)
      BY <1>1, OnlySpawnAdds
    <2> QED BY <1>1, <2>1 DEF SpawnSidecar, Starting, Goto, TypeOK
  <1>2. CASE r \in live /\ Confirming(d)
    <2>1. initialized /\ Rank(records) >= 2 * r.gen + 2
      <3>1. initialized /\ Rank(records) >= 2 * req[d].gen + 2
        BY <1>2 DEF Fenced
      <3>2. Rank(records) \in Nat /\ req[d].gen \in Nat /\ r.gen \in Nat
        BY <1>2, RankType, ConstantsAssumption DEF ConstantsAssumption, TypeOK, Request, Unit
      <3> HIDE DEF Rank
      <3> QED BY <1>0, <3>1, <3>2
    <2>2. CASE Starting(r)
      BY <2>1, <2>2, StartingStays
    <2>3. CASE ~Starting(r) /\ d # c
      <3>1. pc'[d] = pc[d] /\ todo'[d] = todo[d] /\ stops'[d] = stops[d]
        BY <2>3, ConfirmingStep
      <3> QED BY <1>0, <1>2, <2>3, <3>1 DEF DestroyInv, Covered, Reaches
    <2>4. CASE ~Starting(r) /\ d = c
      <3>1. ~ObserveDestroy(c)
        BY <1>2, <2>4 DEF ObserveDestroy, Confirming, CallsKeepKind
      <3> QED BY <1>0, <1>2, <2>4, <3>1, CoveredByItself DEF DestroyInv
    <2> QED BY <2>2, <2>3, <2>4
  <1>3. CASE r \in live /\ ~Confirming(d)
    <2>1. d = c /\ ObserveDestroy(c) /\ DestroyVerdict(records, req[c]) \in {"write", "keep"}
      BY <1>3, ConfirmingStep
    <2>2. CASE Starting(r)
      <3>1. PICK e \in Calls : pc[e] \in {"writePid", "abort", "record", "lateStop"} /\ unit[e] = r
        BY <2>2 DEF Starting
      <3>2. e # c
        BY <2>1, <3>1 DEF ObserveDestroy
      <3> QED BY <3>1, <3>2, OthersKeep DEF Starting
    <2>3. CASE ~Starting(r)
      BY <1>0, <1>3, <2>1, <2>3, CoveredAtFirst DEF Reaches
    <2> QED BY <2>2, <2>3
  <1> QED BY <1>1, <1>2, <1>3

\* The steps and failures of a call preserve Standing.
LEMMA StepStands ==
    ASSUME Assumed, NEW c \in Calls, Step(c) \/ Failure(c)
    PROVE  Standing'
  <1>1. Remembers' /\ RequestIsNewest'
    BY RemembersStep, OrderStep DEF Assumed, Standing
  <1> QED BY <1>1, KindStep, RecordStep, FencedStep DEF Standing

\* The steps and failures of a call preserve DestroyInv.
LEMMA StepDestroys ==
    ASSUME Assumed, DestroyInv, 0 \notin Gens, NEW c \in Calls, Step(c) \/ Failure(c)
    PROVE  DestroyInv'
  <1>1. OneAtATime'
    BY OrderStep DEF Assumed, Standing, DestroyInv
  <1> QED BY <1>1, CoveredStep DEF DestroyInv

-----------------------------------------------------------------------------
(* Arrivals *)

\* A new call changes no other, and makes no unit, record or end.
LEMMA ArrivalKeeps ==
    ASSUME Assumed, Order # "any", NEW c \in Calls, Arrival(c)
    PROVE  \E q \in Request :
              /\ ArrivesWith(c, q)
              /\ result' = result
              /\ \/ /\ q.kind = "ensure" /\ q.ref = NoRef
                    /\ \A d \in Calls : req[d] # NoRequest => req[d].gen < q.gen
                    /\ Order = "reconciler" => \A e \in Calls : IsEnsure(e) => Destroyed(e)
                 \/ /\ q.kind = "destroy"
                    /\ \/ q.ref = NoRef
                       \/ \E e \in Calls : /\ result[e] = "accepted" /\ NewestEnsure(e)
                                           /\ q.ref = unit[e]
  <1> USE DEF Assumed, Standing
  <1>1. ASSUME NEW g \in Gens, NEW s \in Sids, Ensure(c, g, s)
        PROVE  \E q \in Request :
                  /\ ArrivesWith(c, q)
                  /\ result' = result
                  /\ q.kind = "ensure" /\ q.ref = NoRef
                  /\ \A d \in Calls : req[d] # NoRequest => req[d].gen < q.gen
                  /\ Order = "reconciler" => \A e \in Calls : IsEnsure(e) => Destroyed(e)
    <2> DEFINE q == [kind |-> "ensure", gen |-> g, sid |-> s, ref |-> NoRef]
    <2>1. q \in Request
      BY ConstantsAssumption DEF ConstantsAssumption, Request, Ref
    <2>2. \A d \in Calls : IsEnsure(d) => req[d].gen < q.gen
      BY <1>1 DEF Ensure, AdmitsEnsure, IsEnsure, NoRequest
    <2>3. ArrivesWith(c, q) /\ result' = result
      BY <1>1, <2>1, <2>2 DEF Ensure, ArrivesWith, Known, TypeOK
    <2>4. /\ \A d \in Calls : req[d] # NoRequest => req[d].gen < g
          /\ Order = "reconciler" => \A e \in Calls : IsEnsure(e) => Destroyed(e)
      BY <1>1 DEF Ensure, AdmitsEnsure
    <2> QED BY <2>1, <2>3, <2>4
  <1>2. ASSUME NEW g \in Gens, NEW s \in Sids, NEW r \in KnownRefs, Destroy(c, g, s, r)
        PROVE  \E q \in Request :
                  /\ ArrivesWith(c, q)
                  /\ result' = result
                  /\ q.kind = "destroy"
                  /\ \/ q.ref = NoRef
                     \/ \E e \in Calls : /\ result[e] = "accepted" /\ NewestEnsure(e)
                                         /\ q.ref = unit[e]
    <2> DEFINE q == [kind |-> "destroy", gen |-> g, sid |-> s, ref |-> r]
    <2>1. r \in Ref /\ r \in Known
      BY DEF KnownRefs, OrphanInv, RefsAreKnown, Known, TypeOK, Ref
    <2>2. q \in Request
      BY <2>1, ConstantsAssumption DEF ConstantsAssumption, Request
    <2>3. ArrivesWith(c, q) /\ result' = result
      BY <1>2, <2>1, <2>2 DEF Destroy, Goto, ArrivesWith, TypeOK
    <2>4. \/ r = NoRef
          \/ \E e \in Calls : result[e] = "accepted" /\ NewestEnsure(e) /\ r = unit[e]
      BY DEF KnownRefs
    <2> QED BY <2>2, <2>3, <2>4
  <1> QED BY <1>1, <1>2 DEF Arrival

\* An arrival with this request: what it leaves alone, and what it brings.
Arrives(c, q) ==
    /\ ArrivesWith(c, q)
    /\ result' = result
    /\ req'[c] = q /\ pc'[c] \in {"observe", "queued"}
    /\ \A d \in Calls \ {c} : req'[d] = req[d] /\ pc'[d] = pc[d]
    /\ records' = records /\ initialized' = initialized /\ stateFile' = stateFile
    /\ unitDirs' = unitDirs /\ pidFiles' = pidFiles
    /\ live' = live /\ unit' = unit /\ todo' = todo /\ stops' = stops /\ cur' = cur
    /\ spawned' = spawned /\ lost' = lost
    /\ pc[c] = "idle" /\ req[c] = NoRequest /\ result[c] # "destroyed"
    /\ \/ /\ q.kind = "ensure" /\ q.ref = NoRef
          /\ \A d \in Calls : req[d] # NoRequest => req[d].gen < q.gen
          /\ Order = "reconciler" => \A e \in Calls : IsEnsure(e) => Destroyed(e)
       \/ /\ q.kind = "destroy"
          /\ \/ q.ref = NoRef
             \/ \E e \in Calls : result[e] = "accepted" /\ NewestEnsure(e) /\ q.ref = unit[e]

\* Every arrival is of that form (ensure, destroy).
LEMMA ArrivalIs ==
    ASSUME Assumed, Order # "any", NEW c \in Calls, Arrival(c)
    PROVE  \E q \in Request : Arrives(c, q)
  <1> USE DEF Assumed, Standing
  <1>1. PICK q \in Request :
              /\ ArrivesWith(c, q)
              /\ result' = result
              /\ \/ /\ q.kind = "ensure" /\ q.ref = NoRef
                    /\ \A d \in Calls : req[d] # NoRequest => req[d].gen < q.gen
                    /\ Order = "reconciler" => \A e \in Calls : IsEnsure(e) => Destroyed(e)
                 \/ /\ q.kind = "destroy"
                    /\ \/ q.ref = NoRef
                       \/ \E e \in Calls : /\ result[e] = "accepted" /\ NewestEnsure(e)
                                           /\ q.ref = unit[e]
    BY ArrivalKeeps
  <1>2. /\ req'[c] = q /\ pc'[c] \in {"observe", "queued"}
        /\ \A d \in Calls \ {c} : req'[d] = req[d] /\ pc'[d] = pc[d]
    BY <1>1 DEF ArrivesWith, TypeOK
  <1>3. /\ records' = records /\ initialized' = initialized /\ stateFile' = stateFile
        /\ unitDirs' = unitDirs /\ pidFiles' = pidFiles
        /\ live' = live /\ unit' = unit /\ todo' = todo /\ stops' = stops /\ cur' = cur
        /\ spawned' = spawned /\ lost' = lost
    BY <1>1 DEF ArrivesWith, store, files, procs, progress, history
  <1>4. pc[c] = "idle" /\ req[c] = NoRequest /\ result[c] # "destroyed"
    BY <1>1 DEF ArrivesWith, CallsKeepKind
  <1> QED BY <1>1, <1>2, <1>3, <1>4 DEF Arrives

\* An arrival makes nothing confirming, and ends no start.
LEMMA ArrivalConfirmsNothing ==
    ASSUME Assumed, NEW c \in Calls, NEW q \in Request, Arrives(c, q)
    PROVE  /\ \A d \in Calls : Confirming(d)' => Confirming(d) /\ d # c
           /\ \A r : Starting(r) => Starting(r)'
  <1>1. ASSUME NEW d \in Calls, Confirming(d)' PROVE Confirming(d) /\ d # c
    BY <1>1 DEF Arrives, Confirming, IsEnsure
  <1>2. ASSUME NEW r, Starting(r) PROVE Starting(r)'
    BY <1>2 DEF Arrives, Starting
  <1> QED BY <1>1, <1>2

\* A new call preserves Standing (AdmitsEnsure, AdmitsDestroy, KnownRefs).
LEMMA ArrivalStands ==
    ASSUME Assumed, NEW c \in Calls, NEW q \in Request, Arrives(c, q)
    PROVE  Standing'
  <1> USE DEF Assumed, Standing
  <1>1. Remembers'
    BY DEF Arrives, Remembers
  <1>2. CallsKeepKind'
    BY DEF Arrives, CallsKeepKind, IsEnsure
  <1>3. Fenced'
    BY ArrivalConfirmsNothing DEF Arrives, Fenced, Rank
  <1>4. RecordIsNewest'
    <2>1. \A g \in Gens : Started(g)' => Started(g)
      BY DEF Arrives, Started
    <2> QED BY <2>1 DEF Arrives, RecordIsNewest
  <1>5. RequestIsNewest'
    <2> SUFFICES ASSUME NEW d \in Calls, NEW e \in Calls, IsEnsure(e)', req'[d].ref # NoRef,
                        req'[e].gen <= req'[d].gen
                 PROVE  req'[e].gen <= req'[d].ref.gen
      BY DEF RequestIsNewest
    <2>1. CASE d # c /\ e # c
      BY <2>1 DEF Arrives, RequestIsNewest, IsEnsure
    <2>2. CASE d = c /\ e # c
      <3>1. PICK f \in Calls : NewestEnsure(f) /\ q.ref = unit[f]
        BY <2>2 DEF Arrives
      <3>2. q.ref # NoRef /\ req[e].gen <= req[f].gen
        BY <2>2, <3>1 DEF Arrives, IsEnsure, NewestEnsure
      <3> QED BY <2>2, <3>1, <3>2 DEF Arrives, CallsKeepKind
    <2>3. CASE d # c /\ e = c
      <3>1. req[d] # NoRequest
        BY <2>3 DEF Arrives, NoRequest
      <3>2. req[d].gen < q.gen /\ req[d].gen \in Nat /\ q.gen \in Nat
        BY <2>3, <3>1 DEF Arrives, IsEnsure, TypeOK, Request
      <3> QED BY <2>3, <3>2 DEF Arrives
    <2>4. CASE d = c /\ e = c
      BY <2>4 DEF Arrives, IsEnsure
    <2> QED BY <2>1, <2>2, <2>3, <2>4
  <1> QED BY <1>1, <1>2, <1>3, <1>4, <1>5

\* A new call of the reconciler preserves DestroyInv (AdmitsEnsure).
LEMMA ArrivalDestroys ==
    ASSUME Assumed, DestroyInv, Order = "reconciler",
           NEW c \in Calls, NEW q \in Request, Arrives(c, q)
    PROVE  DestroyInv'
  <1> USE DEF Assumed, Standing
  <1>1. Covered'
    BY ArrivalConfirmsNothing DEF DestroyInv, Arrives, Covered, Reaches
  <1>2. OneAtATime'
    <2>1. \A e \in Calls : Destroyed(e) /\ e # c => Destroyed(e)'
      BY DEF Arrives, Destroyed, IsDestroy
    <2>2. \A e \in Calls : req[e].gen \in Nat
      BY DEF TypeOK, Request
    <2>3. ASSUME NEW e \in Calls, NEW f \in Calls, IsEnsure(e)', IsEnsure(f)',
                 req'[e].gen < req'[f].gen
          PROVE  Destroyed(e)'
      <3>1. CASE e # c /\ f # c
        BY <2>1, <2>3, <3>1 DEF Arrives, DestroyInv, OneAtATime, IsEnsure
      <3>2. CASE e # c /\ f = c
        BY <2>1, <2>3, <3>2 DEF Arrives, IsEnsure
      <3>3. CASE e = c /\ f # c
        <4>1. req[f].gen < q.gen
          BY <2>3, <3>3 DEF Arrives, ArrivesWith, IsEnsure
        <4> QED BY <2>2, <2>3, <3>3, <4>1 DEF Arrives, Request
      <3>4. CASE e = c /\ f = c
        BY <2>3, <3>4 DEF Arrives, Request
      <3> QED BY <3>1, <3>2, <3>3, <3>4
    <2> QED BY <2>3 DEF OneAtATime
  <1> QED BY <1>1, <1>2 DEF DestroyInv

-----------------------------------------------------------------------------
(* Without failures *)

\* Where no I/O fails, a call only takes its own steps (Fault).
LEMMA NoFailure ==
    ASSUME TypeOK, MaxFaults = 0, NEW c \in Calls, Failure(c) PROVE FALSE
  BY DEF TypeOK, Failure, Fault, StoreReadFails, StoreWriteFails, StartFails, PidWriteFails,
         FindFails, LateStopFails, TerminateFails, RemoveFails

\* A unit has one ensure() (SpawnSidecar).
LEMMA UnitHasOneCall ==
    ASSUME OrphanInv, CallsKeepKind, NEW x \in Calls, NEW y \in Calls, IsEnsure(x), IsEnsure(y),
           unit[x] # NoRef, unit[y] # NoRef, unit[x].gen = unit[y].gen
    PROVE  x = y
  BY DEF OrphanInv, OneEnsurePerGen, CallsKeepKind

\* A unit whose pid file is not written yet is no other call's.
LEMMA UnwrittenIsOwn ==
    ASSUME Assumed, NEW x \in Calls, pc[x] = "writePid"
    PROVE  /\ IsEnsure(x) /\ unit[x] # NoRef /\ unit[x] \in spawned /\ unit[x] \in Unit
           /\ unit[x].gen = req[x].gen /\ unit[x].pid # 0
           /\ \A y \in Calls \ {x} : IsEnsure(y) /\ unit[y] # NoRef => unit[y].gen # unit[x].gen
  <1>1. IsEnsure(x) /\ unit[x] # NoRef /\ unit[x] \in spawned /\ unit[x].gen = req[x].gen
    BY DEF Assumed, Standing, CallsKeepKind, OrphanInv, CallsInStep
  <1>2. unit[x] \in Unit /\ unit[x].pid # 0
    BY <1>1 DEF Assumed, TypeOK, Unit
  <1> QED BY <1>1, <1>2, UnitHasOneCall DEF Assumed, Standing

\* Only a spawn and ensure()'s first store operation give a call a unit.
LEMMA UnitStays ==
    ASSUME TypeOK, NEW c \in Calls, Step(c), NEW d \in Calls
    PROVE  unit'[d] = unit[d] \/ (d = c /\ (SpawnSidecar(c) \/ ObserveEnsure(c)))
  BY DEF TypeOK, progress, Step, ObserveDestroy, MakeUnitDir, WritePidFile, AbortStart, RecordUnit,
         StopLateUnit, RemoveLateUnit, ListUnits, ReadPidFile, TerminateUnit, RemoveUnit, Answer,
         SpawnSidecar, ObserveEnsure

\* The ref a destroy() goes for is the record's (destroy).
LEMMA DestroyTakesTheRef ==
    ASSUME Assumed, RequestIsCurrent, NEW c \in Calls, ObserveDestroy(c),
           DestroyVerdict(records, req[c]) \in {"write", "keep"}
    PROVE  /\ records.ref = NoRef => pc'[c] = "list"
           /\ records.ref # NoRef => pc'[c] = "stop" /\ stops'[c] = {records.ref}
  <1> USE DEF Assumed, Standing
  <1> DEFINE rec == IF DestroyVerdict(records, req[c]) = "write"
                      THEN DestroyedRecord(records, req[c]) ELSE records
             ref == IF req[c].ref # NoRef THEN req[c].ref ELSE rec.ref
  <1>1. rec.ref = records.ref
    BY DEF DestroyedRecord
  <1>2. \/ ref = NoRef /\ pc'[c] = "list"
        \/ ref # NoRef /\ pc'[c] = "stop" /\ stops'[c] = {ref}
    BY LoadedIsRecords DEF ObserveDestroy, Goto, TypeOK
  <1>3. req[c].ref # NoRef => records.ref = req[c].ref
    <2> SUFFICES ASSUME req[c].ref # NoRef PROVE records.ref = req[c].ref
      OBVIOUS
    <2>1. Started(req[c].ref.gen) /\ req[c].ref.gen \in Gens
      BY DEF OrphanInv, RefsAreKnown, Known, Started, TypeOK, Unit
    <2>2. records.desired # "absent"
      BY <2>1 DEF RecordIsNewest
    <2>3. records.gen \in Nat /\ req[c].gen \in Nat
      BY DEF TypeOK, AllocationRecord, Request
    <2>4. ~(records.gen > req[c].gen)
      BY <2>2, <2>3 DEF DestroyVerdict
    <2> QED BY <2>4 DEF RequestIsCurrent, ObserveDestroy
  <1> QED
    <2> HIDE DEF rec
    <2> QED BY <1>1, <1>2, <1>3

\* What an ensure() writes first is newer than all that started (observeEnsure).
LEMMA EnsureAdvances ==
    ASSUME Assumed, NEW c \in Calls, EnsureVerdict(records, req[c]) = "write",
           NEW g \in Gens, Started(g)
    PROVE  records.gen < req[c].gen /\ g < req[c].gen
  <1>1. records.desired # "absent" /\ g <= records.gen
    BY DEF Assumed, Standing, RecordIsNewest
  <1>2. records \in AllocationRecord /\ req[c].gen \in Nat /\ g \in Nat
    BY ConstantsAssumption DEF ConstantsAssumption, Assumed, TypeOK, Request
  <1>3. records.gen < req[c].gen
    BY <1>1, <1>2 DEF EnsureVerdict, AllocationRecord
  <1> QED BY <1>1, <1>2, <1>3 DEF AllocationRecord

\* StartsUnseen: the pid files and directories (WritePidFile, RemoveUnitDir).
LEMMA DirectoriesStep ==
    ASSUME Assumed, StartsUnseen, NEW c \in Calls, Step(c), NEW x \in Calls \ {c}
    PROVE  /\ pc[x] \in {"spawn", "writePid"} => req[x].gen \in unitDirs'
           /\ pc[x] = "writePid" => pidFiles'[unit[x].gen] # unit[x].pid
  <1> USE DEF Assumed, Standing
  <1>1. \/ UNCHANGED files
        \/ MakeUnitDir(c)
        \/ WritePidFile(c)
        \/ pc[c] \in {"rm", "lateRm"} /\ RemoveUnitDir(cur[c].gen)
    BY DEF Step, ObserveEnsure, SpawnSidecar, AbortStart, RecordUnit, StopLateUnit,
           RemoveLateUnit, ObserveDestroy, ListUnits, ReadPidFile, TerminateUnit, RemoveUnit, Answer
  <1>2. /\ pc[x] \in {"spawn", "writePid"} => req[x].gen \in unitDirs
        /\ pc[x] = "writePid" => pidFiles[unit[x].gen] # unit[x].pid
    BY DEF StartsUnseen
  <1>3. CASE UNCHANGED files \/ MakeUnitDir(c)
    BY <1>2, <1>3 DEF files, MakeUnitDir
  <1>4. CASE WritePidFile(c)
    <2>1. IsEnsure(c) /\ unit[c] # NoRef
      BY <1>4, UnwrittenIsOwn DEF WritePidFile
    <2>2. pc[x] = "writePid" => unit[c].gen # unit[x].gen
      BY <2>1, UnwrittenIsOwn
    <2>3. /\ unitDirs' = unitDirs
          /\ pidFiles' = pidFiles \/ pidFiles' = [pidFiles EXCEPT ![unit[c].gen] = unit[c].pid]
      BY <1>4 DEF WritePidFile
    <2>4. pc[x] = "writePid" => unit[x].gen \in Gens
      BY UnwrittenIsOwn DEF Unit
    <2> QED BY <1>2, <2>2, <2>3, <2>4 DEF TypeOK
  <1>5. CASE pc[c] \in {"rm", "lateRm"} /\ RemoveUnitDir(cur[c].gen)
    <2>1. cur[c] \in spawned
      BY <1>5 DEF OrphanInv, CallsInStep
    <2>2. pc[x] = "spawn" => cur[c].gen # req[x].gen
      BY <2>1 DEF OrphanInv, SpawnedByEnsure, OneEnsurePerGen, PastSpawn, CallsKeepKind
    <2>3. pc[x] = "writePid" => cur[c].gen # req[x].gen /\ unit[x].pid # 0
      <3>1. pc[x] = "writePid" => cur[c] # unit[x]
        BY <1>5 DEF StartsUnseen
      <3> QED BY <2>1, <3>1, UnwrittenIsOwn DEF OrphanInv, UnitsAreUnique
    <2> QED BY <1>2, <1>5, <2>2, <2>3, UnwrittenIsOwn DEF RemoveUnitDir, TypeOK
  <1> QED BY <1>1, <1>3, <1>4, <1>5

\* StartsUnseen: what the other calls and the store know (readPidFile, destroy).
LEMMA KnowledgeStep ==
    ASSUME Assumed, StartsUnseen, NEW c \in Calls, Step(c), NEW x \in Calls \ {c},
           pc[x] = "writePid"
    PROVE  /\ records'.ref # unit[x]
           /\ \A d \in Calls : /\ unit[x] \notin stops'[d]
                               /\ pc'[d] \in {"rm", "lateRm"} => cur'[d] # unit[x]
  <1> USE DEF Assumed, Standing
  <1>1. /\ records.ref # unit[x] /\ pidFiles[unit[x].gen] # unit[x].pid
        /\ \A d \in Calls : /\ req[d].ref # unit[x] /\ unit[x] \notin stops[d]
                            /\ pc[d] \in {"rm", "lateRm"} => cur[d] # unit[x]
    BY DEF StartsUnseen
  <1>2. \A y \in Calls \ {x} : IsEnsure(y) => unit[y] # unit[x]
    BY UnwrittenIsOwn
  <1>3. records'.ref # unit[x]
    <2>1. pc[c] = "record" => unit[c] # unit[x]
      BY <1>2 DEF CallsKeepKind
    <2>2. records \in AllocationRecord /\ unit[x] # NoRef
      BY UnwrittenIsOwn DEF TypeOK
    <2>3. \/ records'.ref = records.ref \/ records'.ref = NoRef
          \/ pc[c] = "record" /\ records'.ref = unit[c]
      <3>1. CASE RecordUnit(c) /\ records' = [records EXCEPT !.ref = unit[c]]
        BY <2>2, <3>1 DEF RecordUnit, AllocationRecord
      <3>2. CASE records' = EnsuredRecord(req[c]) \/ records' = DestroyedRecord(records, req[c])
        BY <3>2 DEF EnsuredRecord, DestroyedRecord
      <3>3. CASE records' = records
        BY <3>3
      <3> QED BY <3>1, <3>2, <3>3, StoreMoves
    <2> QED BY <1>1, <2>1, <2>2, <2>3
  <1>4. unit[x] \notin stops'[c]
    <2>1. CASE ReadPidFile(c)
      <3>1. PICK g \in todo[c] :
                stops' = IF pidFiles[g] # 0 /\ IsAlive(pidFiles[g])
                              /\ ~(IsEnsure(c) /\ [gen |-> g, pid |-> pidFiles[g]] = unit[c])
                         THEN [stops EXCEPT ![c] = @ \cup {[gen |-> g, pid |-> pidFiles[g]]}]
                         ELSE stops
        BY <2>1 DEF ReadPidFile
      <3>2. unit[x] # [gen |-> g, pid |-> pidFiles[g]]
        BY <1>1
      <3>3. unit[x] \notin stops[c]
        BY <1>1
      <3> QED BY <3>1, <3>2, <3>3 DEF TypeOK
    <2>2. CASE ObserveDestroy(c)
      <3>1. stops' = stops \/ stops'[c] = {req[c].ref} \/ stops'[c] = {records.ref}
        BY <2>2, LoadedIsRecords DEF ObserveDestroy, DestroyedRecord, TypeOK
      <3> QED BY <1>1, <3>1
    <2>3. CASE TerminateUnit(c)
      BY <1>1, <2>3 DEF TerminateUnit, TypeOK
    <2>4. CASE ~ReadPidFile(c) /\ ~ObserveDestroy(c) /\ ~TerminateUnit(c)
      <3>1. stops' = stops
        BY <2>4 DEF progress, Step, ObserveEnsure, MakeUnitDir, SpawnSidecar, WritePidFile,
               AbortStart, RecordUnit, StopLateUnit, RemoveLateUnit, ListUnits, RemoveUnit, Answer
      <3> QED BY <1>1, <3>1
    <2> QED BY <2>1, <2>2, <2>3, <2>4
  <1>5. pc'[c] \in {"rm", "lateRm"} => cur'[c] # unit[x]
    <2>1. CASE TerminateUnit(c)
      <3>1. cur'[c] \in stops[c]
        BY <2>1 DEF TerminateUnit, TypeOK
      <3> QED BY <1>1, <3>1
    <2>2. CASE StopLateUnit(c)
      <3>1. IsEnsure(c) /\ cur'[c] = unit[c]
        BY <2>2 DEF StopLateUnit, CallsKeepKind, TypeOK
      <3> QED BY <1>2, <3>1
    <2>3. CASE ~TerminateUnit(c) /\ ~StopLateUnit(c)
      <3>1. pc'[c] \notin {"rm", "lateRm"}
        BY <2>3, LoadedIsRecords, VerdictTypes
           DEF TypeOK, Step, ObserveEnsure, ObserveDestroy, MakeUnitDir, SpawnSidecar,
               WritePidFile, AbortStart, RecordUnit, RemoveLateUnit, ListUnits, ReadPidFile,
               RemoveUnit, Answer, Goto, Settle
      <3> QED BY <3>1
    <2> QED BY <2>1, <2>2, <2>3
  <1>6. ASSUME NEW d \in Calls \ {c}
        PROVE  unit[x] \notin stops'[d] /\ (pc'[d] \in {"rm", "lateRm"} => cur'[d] # unit[x])
    BY <1>1, OthersKeep
  <1> QED BY <1>3, <1>4, <1>5, <1>6

\* StartsUnseen: the call that steps.
LEMMA StarterStep ==
    ASSUME Assumed, StartsUnseen, NEW c \in Calls, Step(c)
    PROVE  /\ pc'[c] # "abort"
           /\ pc'[c] \in {"spawn", "writePid"} => req[c].gen \in unitDirs'
           /\ pc'[c] = "writePid" => SpawnSidecar(c)
  <1> USE DEF Assumed, Standing
  <1>1. CASE WritePidFile(c)
    <2>1. unit[c].gen \in unitDirs
      BY <1>1, UnwrittenIsOwn DEF WritePidFile, StartsUnseen
    <2> QED BY <1>1, <2>1 DEF WritePidFile, Goto, TypeOK
  <1>2. CASE MakeUnitDir(c) \/ SpawnSidecar(c)
    BY <1>2 DEF MakeUnitDir, SpawnSidecar, StartsUnseen, Goto, TypeOK, files
  <1>3. CASE ~WritePidFile(c) /\ ~MakeUnitDir(c) /\ ~SpawnSidecar(c)
    <2>1. pc'[c] \notin {"spawn", "writePid", "abort"}
      BY <1>3, LoadedIsRecords
         DEF TypeOK, Step, ObserveEnsure, ObserveDestroy, AbortStart, RecordUnit, StopLateUnit,
             RemoveLateUnit, ListUnits, ReadPidFile, TerminateUnit, RemoveUnit, Answer, Goto, Settle
    <2> QED BY <2>1
  <1> QED BY <1>1, <1>2, <1>3

\* StartsUnseen: nobody knows the unit just spawned (SpawnSidecar).
LEMMA FreshIsUnknown ==
    ASSUME Assumed, NEW c \in Calls, SpawnSidecar(c)
    PROVE  /\ records'.ref # unit'[c] /\ pidFiles'[unit'[c].gen] # unit'[c].pid
           /\ \A d \in Calls : /\ req[d].ref # unit'[c] /\ unit'[c] \notin stops'[d]
                               /\ pc'[d] \in {"rm", "lateRm"} => cur'[d] # unit'[c]
  <1> USE DEF Assumed, Standing
  <1>1. PICK n \in Unit :
            /\ n.gen = req[c].gen /\ n.pid = lastPid + 1
            /\ unit' = [unit EXCEPT ![c] = n]
            /\ \A r \in spawned : r.gen # n.gen /\ r.pid < n.pid
    BY SpawnIsFresh DEF OrphanInv
  <1>2. unit'[c] = n /\ n \notin spawned /\ n # NoRef /\ n.gen \in Gens /\ n.pid # 0
    BY <1>1, ConstantsAssumption DEF ConstantsAssumption, TypeOK, Unit, NoRef
  <1>3. /\ records' = records /\ pidFiles' = pidFiles /\ stops' = stops /\ cur' = cur
        /\ \A d \in Calls : pc'[d] \in {"rm", "lateRm"} => pc[d] \in {"rm", "lateRm"}
    BY DEF SpawnSidecar, store, files, Goto, TypeOK
  <1>4. records.ref # n /\ \A d \in Calls : req[d].ref # n /\ n \notin stops[d]
    BY <1>2 DEF OrphanInv, RefsAreKnown, Known
  <1>5. pidFiles[n.gen] # n.pid
    <2>1. CASE pidFiles[n.gen] # 0
      <3>1. [gen |-> n.gen, pid |-> pidFiles[n.gen]] \in spawned
        BY <1>2, <2>1 DEF OrphanInv, RefsAreKnown
      <3> QED BY <1>1, <3>1
    <2> QED BY <1>2, <2>1
  <1>6. \A d \in Calls : pc[d] \in {"rm", "lateRm"} => cur[d] # n
    BY <1>2 DEF OrphanInv, CallsInStep
  <1> QED BY <1>2, <1>3, <1>4, <1>5, <1>6

\* StartsUnseen is preserved by the calls' steps (startUnit).
LEMMA UnseenStep ==
    ASSUME Assumed, StartsUnseen, NEW c \in Calls, Step(c)
    PROVE  StartsUnseen'
  <1> USE DEF Assumed, Standing
  <1>0. req' = req /\ pc[c] # "done"
    BY StepMoves
  <1>1. ASSUME NEW x \in Calls PROVE result'[x] = "accepted" => pc'[x] = "done"
    <2>1. result[x] = "accepted" => pc[x] = "done"
      BY DEF StartsUnseen
    <2> QED BY <1>0, <2>1, StepMoves DEF Goto, Settle, TypeOK
  <1>2. ASSUME NEW x \in Calls \ {c}
        PROVE  /\ pc'[x] # "abort"
               /\ pc'[x] \in {"spawn", "writePid"} => req[x].gen \in unitDirs'
               /\ pc'[x] = "writePid" =>
                     /\ records'.ref # unit'[x] /\ pidFiles'[unit'[x].gen] # unit'[x].pid
                     /\ \A d \in Calls : /\ req[d].ref # unit'[x] /\ unit'[x] \notin stops'[d]
                                         /\ pc'[d] \in {"rm", "lateRm"} => cur'[d] # unit'[x]
    <2>1. unit'[x] = unit[x] /\ (pc'[x] \notin {"observe", "done"} => pc'[x] = pc[x])
      BY OthersKeep
    <2>2. pc[x] # "abort" /\ (pc[x] = "writePid" => \A d \in Calls : req[d].ref # unit[x])
      BY DEF StartsUnseen
    <2> QED BY <2>1, <2>2, DirectoriesStep, KnowledgeStep
  <1>3. /\ pc'[c] # "abort"
        /\ pc'[c] \in {"spawn", "writePid"} => req[c].gen \in unitDirs'
        /\ pc'[c] = "writePid" =>
              /\ records'.ref # unit'[c] /\ pidFiles'[unit'[c].gen] # unit'[c].pid
              /\ \A d \in Calls : /\ req[d].ref # unit'[c] /\ unit'[c] \notin stops'[d]
                                  /\ pc'[d] \in {"rm", "lateRm"} => cur'[d] # unit'[c]
    BY StarterStep, FreshIsUnknown
  <1> QED BY <1>0, <1>1, <1>2, <1>3 DEF StartsUnseen

\* NewestIsRecorded is preserved by the calls' steps (recordUnit).
LEMMA RecordedStep ==
    ASSUME Assumed, StartsUnseen, NewestIsRecorded, NEW c \in Calls, Step(c)
    PROVE  NewestIsRecorded'
  <1> USE DEF Assumed, Standing
  <1> SUFFICES ASSUME NEW e \in Calls, Recorded(e)', NewestEnsure(e)'
               PROVE  unit'[e] # NoRef /\ records'.ref = unit'[e]
    BY DEF NewestIsRecorded
  <1>0. req' = req /\ pc[c] # "done" /\ NewestEnsure(e)
    BY StepMoves DEF NewestEnsure, IsEnsure
  <1>1. CASE Recorded(e)
    <2>1. unit[e] # NoRef /\ records.ref = unit[e]
      BY <1>0, <1>1 DEF NewestIsRecorded
    <2>2. e = c => pc[c] \in {"list", "read", "stop", "rm"}
      BY <1>0, <1>1 DEF Recorded, StartsUnseen
    <2>3. unit'[e] = unit[e]
      BY <2>2, UnitStays DEF SpawnSidecar, ObserveEnsure
    <2>4. unit[e].gen = req[e].gen /\ Started(req[e].gen) /\ req[e].gen \in Gens
      BY <2>1 DEF CallsKeepKind, OrphanInv, RefsAreKnown, Known, Started, TypeOK, Unit
    <2>5. ~(ObserveEnsure(c) /\ EnsureVerdict(records, req[c]) = "write")
      <3>1. ASSUME ObserveEnsure(c), EnsureVerdict(records, req[c]) = "write"
            PROVE  req[e].gen < req[c].gen /\ req[c].gen <= req[e].gen
        BY <1>0, <2>4, <3>1, EnsureAdvances DEF NewestEnsure, ObserveEnsure
      <3>2. req[e].gen \in Nat /\ req[c].gen \in Nat
        BY DEF TypeOK, Request
      <3> QED BY <3>1, <3>2
    <2>6. ~(RecordUnit(c) /\ StillWanted(records, req[c]))
      <3>1. ASSUME RecordUnit(c), StillWanted(records, req[c]) PROVE c = e
        <4>1. IsEnsure(c) /\ req[e].gen <= req[c].gen
          BY <2>4, <3>1 DEF RecordUnit, StillWanted, CallsKeepKind, RecordIsNewest
        <4>2. IsEnsure(e) /\ req[c].gen <= req[e].gen
          BY <1>0, <4>1 DEF NewestEnsure
        <4>3. req[e].gen \in Nat /\ req[c].gen \in Nat
          BY DEF TypeOK, Request
        <4> QED BY <4>1, <4>2, <4>3 DEF OrphanInv, OneEnsurePerGen
      <3> QED BY <2>2, <3>1 DEF RecordUnit
    <2>7. records'.ref = records.ref
      BY <2>5, <2>6, StoreMoves DEF DestroyedRecord
    <2> QED BY <2>1, <2>3, <2>7
  <1>2. CASE ~Recorded(e)
    <2>1. IsEnsure(e)
      BY <1>0 DEF NewestEnsure
    <2>2. e = c
      <3>1. e # c => /\ pc'[e] \in {"list", "read", "stop", "rm"} => pc'[e] = pc[e]
                     /\ result'[e] = "accepted" => result[e] = "accepted"
        BY OthersKeep, StepMoves DEF Goto, Settle, TypeOK
      <3> QED BY <1>0, <1>2, <2>1, <3>1 DEF Recorded, IsEnsure
    <2>3. pc[c] \notin {"list", "read", "stop", "rm"} /\ result[c] # "accepted"
      BY <1>2, <2>1, <2>2 DEF Recorded
    <2>4. \/ ObserveEnsure(c) /\ pc'[c] \in {"list", "read", "stop", "rm"}
          \/ RecordUnit(c) /\ pc'[c] \in {"list", "read", "stop", "rm"}
      <3>1. result'[c] = "accepted" \/ pc'[c] \in {"list", "read", "stop", "rm"}
        BY <2>2 DEF Recorded
      <3>2. ~ObserveDestroy(c)
        BY <2>1, <2>2 DEF ObserveDestroy, IsEnsure, IsDestroy
      <3>3. CASE ObserveEnsure(c)
        <4>1. result'[c] # "accepted"
          BY <2>3, <3>3 DEF ObserveEnsure, Goto, Settle, EnsureVerdict, TypeOK
        <4> QED BY <3>1, <3>3, <4>1
      <3>4. CASE RecordUnit(c)
        BY <2>3, <3>1, <3>4 DEF RecordUnit, Goto
      <3>5. CASE ~ObserveEnsure(c) /\ ~RecordUnit(c)
        BY <2>3, <3>1, <3>2, <3>5
           DEF TypeOK, Step, MakeUnitDir, SpawnSidecar, WritePidFile, AbortStart, StopLateUnit,
               RemoveLateUnit, ListUnits, ReadPidFile, TerminateUnit, RemoveUnit, Answer,
               Goto, Settle
      <3> QED BY <3>3, <3>4, <3>5
    <2>5. CASE ObserveEnsure(c) /\ pc'[c] \in {"list", "read", "stop", "rm"}
      BY <2>2, <2>5, LoadedIsRecords DEF ObserveEnsure, Keep, Goto, Settle, TypeOK
    <2>6. CASE RecordUnit(c) /\ pc'[c] \in {"list", "read", "stop", "rm"}
      <3>1. records' = [records EXCEPT !.ref = unit[c]] /\ unit' = unit
        BY <2>6, LoadedIsRecords DEF RecordUnit, Persist, Goto, TypeOK, progress
      <3>2. unit[c] # NoRef /\ records'.ref = unit[c]
        BY <2>6, <3>1 DEF RecordUnit, CallsKeepKind, TypeOK, AllocationRecord
      <3> QED BY <2>2, <3>1, <3>2
    <2> QED BY <2>4, <2>5, <2>6
  <1> QED BY <1>1, <1>2

\* RequestIsCurrent is preserved by the calls' steps (observeEnsure, recordUnit).
LEMMA CurrentStep ==
    ASSUME Assumed, RequestIsCurrent, NEW c \in Calls, Step(c)
    PROVE  RequestIsCurrent'
  <1> USE DEF Assumed, Standing
  <1> SUFFICES ASSUME NEW d \in Calls, pc'[d] \in {"observe", "queued"}, req'[d].ref # NoRef
               PROVE  records'.ref = req'[d].ref \/ records'.gen > req'[d].gen
    BY DEF RequestIsCurrent
  <1>0. req' = req
    BY StepMoves
  <1>1. d # c
    BY LoadedIsRecords
       DEF TypeOK, Step, ObserveEnsure, ObserveDestroy, MakeUnitDir, SpawnSidecar, WritePidFile,
           AbortStart, RecordUnit, StopLateUnit, RemoveLateUnit, ListUnits, ReadPidFile,
           TerminateUnit, RemoveUnit, Answer, Goto, Settle
  <1>2. records.ref = req[d].ref \/ records.gen > req[d].gen
    BY <1>0, <1>1, OthersKeep DEF RequestIsCurrent
  <1>3. /\ Started(req[d].ref.gen) /\ req[d].ref.gen \in Gens /\ req[d].ref \in spawned
        /\ records.desired # "absent" /\ req[d].ref.gen <= records.gen
    <2>1. Started(req[d].ref.gen) /\ req[d].ref.gen \in Gens /\ req[d].ref \in spawned
      BY <1>0 DEF OrphanInv, RefsAreKnown, Known, Started, TypeOK, Unit
    <2> QED BY <2>1 DEF RecordIsNewest
  <1>4. /\ records.gen \in Nat /\ req[c].gen \in Nat /\ req[d].gen \in Nat
        /\ req[d].ref.gen \in Nat
    BY <1>3, ConstantsAssumption DEF ConstantsAssumption, TypeOK, AllocationRecord, Request
  <1>5. CASE ObserveEnsure(c) /\ EnsureVerdict(records, req[c]) = "write"
             /\ records' = EnsuredRecord(req[c])
    <2>1. records.gen < req[c].gen /\ req[d].ref.gen < req[c].gen
      BY <1>3, <1>5, EnsureAdvances
    <2>2. req[c].gen <= req[d].gen => req[c].gen <= req[d].ref.gen
      BY <1>0, <1>5 DEF RequestIsNewest, ObserveEnsure
    <2>3. records'.gen = req[c].gen
      BY <1>5 DEF EnsuredRecord
    <2> QED BY <1>0, <1>4, <2>1, <2>2, <2>3
  <1>6. CASE ObserveDestroy(c) /\ DestroyVerdict(records, req[c]) = "write"
             /\ records' = DestroyedRecord(records, req[c])
    <2>1. ~(records.gen > req[c].gen)
      BY <1>3, <1>4, <1>6 DEF DestroyVerdict
    <2>2. records'.gen = req[c].gen /\ records'.ref = records.ref
      BY <1>6 DEF DestroyedRecord
    <2> QED BY <1>0, <1>2, <1>4, <2>1, <2>2
  <1>7. CASE RecordUnit(c) /\ StillWanted(records, req[c])
             /\ records' = [records EXCEPT !.ref = unit[c]]
    <2>1. records'.gen = records.gen /\ records'.ref = unit[c] /\ records.gen = req[c].gen
      BY <1>7 DEF StillWanted, TypeOK, AllocationRecord
    <2>2. IsEnsure(c) /\ unit[c] \in spawned /\ unit[c].gen = req[c].gen
      BY <1>7 DEF RecordUnit, CallsKeepKind, OrphanInv, CallsInStep
    <2>3. req[c].gen <= req[d].gen => req[c].gen = req[d].ref.gen
      BY <1>0, <1>3, <1>4, <2>1, <2>2 DEF RequestIsNewest
    <2>4. req[c].gen <= req[d].gen => unit[c] = req[d].ref
      BY <1>3, <2>2, <2>3 DEF OrphanInv, UnitsAreUnique
    <2> QED BY <1>0, <1>4, <2>1, <2>4
  <1>8. CASE records' = records
    BY <1>0, <1>2, <1>8
  <1> QED BY <1>5, <1>6, <1>7, <1>8, StoreMoves

\* A unit whose ensure() leaves the start is the one to run (recordUnit), or stopped.
LEMMA StartingMoves ==
    ASSUME Assumed, StartsUnseen, NEW c \in Calls, Step(c), NEW r \in live', Starting(r)
    PROVE  Starting(r)' \/ Current(r)'
  <1> USE DEF Assumed, Standing
  <1>1. PICK e \in Calls : pc[e] \in {"writePid", "abort", "record", "lateStop"} /\ unit[e] = r
    BY DEF Starting
  <1>2. CASE e # c
    BY <1>1, <1>2, OthersKeep DEF Starting
  <1>3. CASE e = c
    <2>1. WritePidFile(c) \/ AbortStart(c) \/ RecordUnit(c) \/ StopLateUnit(c)
      BY <1>1, <1>3 DEF Step, ObserveEnsure, ObserveDestroy, MakeUnitDir, SpawnSidecar,
             RemoveLateUnit, ListUnits, ReadPidFile, TerminateUnit, RemoveUnit, Answer
    <2>2. CASE WritePidFile(c)
      <3>1. pc'[c] \in {"record", "abort"} /\ unit' = unit
        BY <2>2 DEF WritePidFile, Goto, TypeOK, progress
      <3> QED BY <1>1, <1>3, <3>1 DEF Starting
    <2>3. CASE AbortStart(c) \/ StopLateUnit(c)
      BY <1>1, <1>3, <2>3 DEF AbortStart, StopLateUnit
    <2>4. CASE RecordUnit(c)
      <3>1. unit' = unit
        BY <2>4 DEF RecordUnit, progress
      <3>2. CASE StillWanted(records, req[c])
        <4>1. records' = [records EXCEPT !.ref = unit[c]] /\ records.desired = "ensured"
          BY <2>4, <3>2, LoadedIsRecords DEF RecordUnit, Persist, StillWanted
        <4> QED BY <1>1, <1>3, <4>1 DEF Current, TypeOK, AllocationRecord
      <3>3. CASE ~StillWanted(records, req[c])
        <4>1. pc'[c] = "lateStop"
          BY <2>4, <3>3, LoadedIsRecords DEF RecordUnit, Goto, TypeOK
        <4> QED BY <1>1, <1>3, <3>1, <4>1 DEF Starting
      <3> QED BY <3>2, <3>3
    <2> QED BY <2>1, <2>2, <2>3, <2>4
  <1> QED BY <1>2, <1>3

\* A sweep takes what it has yet to stop (sweepObsoleteUnits, destroy).
LEMMA SweepsStay ==
    ASSUME Assumed, 0 \notin Gens, NEW c \in Calls, Step(c), NEW d \in Calls,
           NEW r \in live', r \in live, ~Starting(r), Sweeps(d, r)
    PROVE  Sweeps(d, r)'
  <1> USE DEF Assumed, Standing
  <1>0. req' = req
    BY StepMoves
  <1>1. pc[d] \in {"list", "read", "stop", "rm"}
    BY DEF Sweeps, Reaches
  <1>2. CASE d # c
    BY <1>0, <1>1, <1>2, OthersKeep DEF Sweeps, Reaches, IsEnsure
  <1>3. CASE d = c
    <2>1. ~Answer(c)
      BY <1>3 DEF Sweeps, Reaches, Answer
    <2>2. ListUnits(c) \/ ReadPidFile(c) \/ TerminateUnit(c) \/ RemoveUnit(c)
      BY <1>1, <1>3, <2>1 DEF Step, ObserveEnsure, ObserveDestroy, MakeUnitDir, SpawnSidecar,
             WritePidFile, AbortStart, RecordUnit, StopLateUnit, RemoveLateUnit
    <2>3. unit' = unit
      BY <2>2 DEF ListUnits, ReadPidFile, TerminateUnit, RemoveUnit, progress
    <2>4. ~(IsEnsure(c) /\ r = unit[c]) /\ Reaches(c, r)
      BY <1>3 DEF Sweeps
    <2>5. Reaches(c, r)'
      BY <2>2, <2>4, SweepGoesOn
    <2> QED BY <1>0, <1>3, <2>3, <2>4, <2>5 DEF Sweeps, IsEnsure
  <1> QED BY <1>2, <1>3

\* The unit to run stays, or somebody's sweep takes it (observeEnsure, observeDestroy).
LEMMA CurrentMoves ==
    ASSUME Assumed, RequestIsCurrent, NEW c \in Calls, Step(c),
           NEW r \in live', r \in live, Current(r)
    PROVE  Current(r)' \/ SweepToCome' \/ Sweeps(c, r)'
  <1> USE DEF Assumed, Standing
  <1>0. req' = req /\ r # NoRef
    BY StepMoves, ConstantsAssumption DEF TypeOK, Unit, NoRef
  <1>1. CASE records' = records
    BY <1>1 DEF Current
  <1>2. CASE ObserveEnsure(c) /\ EnsureVerdict(records, req[c]) = "write"
             /\ records' = EnsuredRecord(req[c])
    <2>1. pc'[c] = "mkdir"
      BY <1>2, LoadedIsRecords DEF ObserveEnsure, Goto, TypeOK
    <2> QED BY <1>0, <1>2, <2>1 DEF SweepToCome, EnsuredRecord
  <1>3. CASE ObserveDestroy(c) /\ DestroyVerdict(records, req[c]) = "write"
    <2>1. pc'[c] = "stop" /\ stops'[c] = {r}
      BY <1>0, <1>3, DestroyTakesTheRef DEF Current
    <2> QED BY <1>0, <1>3, <2>1 DEF Sweeps, Reaches, ObserveDestroy, IsEnsure, IsDestroy
  <1>4. CASE RecordUnit(c) /\ StillWanted(records, req[c])
             /\ records' = [records EXCEPT !.ref = unit[c]]
    <2>1. pc'[c] = "list" /\ unit' = unit
      BY <1>4, LoadedIsRecords DEF RecordUnit, Goto, TypeOK, progress
    <2>2. records'.desired = "ensured" /\ records'.ref = unit[c]
      BY <1>4 DEF StillWanted, TypeOK, AllocationRecord
    <2> QED BY <2>1, <2>2 DEF Current, Sweeps, Reaches
  <1> QED BY <1>1, <1>2, <1>3, <1>4, StoreMoves

\* The ensure() whose sweep is to come still sweeps, or another does before it.
LEMMA ToComeMoves ==
    ASSUME Assumed, RequestIsCurrent, StartsUnseen, NEW c \in Calls, Step(c),
           NEW r \in live, ~Starting(r), SweepToCome
    PROVE  SweepToCome' \/ Sweeps(c, r)'
  <1> USE DEF Assumed, Standing
  <1>0. req' = req
    BY StepMoves
  <1>1. PICK e \in Calls : /\ pc[e] \in {"mkdir", "spawn", "writePid", "record"}
                           /\ req[e].gen = records.gen
    BY DEF SweepToCome
  <1>2. records.desired = "ensured" /\ records.ref = NoRef /\ IsEnsure(e)
    BY <1>1 DEF SweepToCome, CallsKeepKind
  <1>3. CASE RecordUnit(c) /\ StillWanted(records, req[c])
    <2>1. pc'[c] = "list" /\ unit' = unit
      BY <1>3, LoadedIsRecords DEF RecordUnit, Goto, TypeOK, progress
    <2>2. r # unit[c]
      BY <1>3 DEF RecordUnit, Starting
    <2> QED BY <2>1, <2>2 DEF Sweeps, Reaches
  <1>4. CASE ObserveEnsure(c) /\ EnsureVerdict(records, req[c]) = "write"
             /\ records' = EnsuredRecord(req[c])
    <2>1. pc'[c] = "mkdir"
      BY <1>4, LoadedIsRecords DEF ObserveEnsure, Goto, TypeOK
    <2> QED BY <1>0, <1>4, <2>1 DEF SweepToCome, EnsuredRecord
  <1>5. CASE ObserveDestroy(c) /\ DestroyVerdict(records, req[c]) = "write"
    <2>1. pc'[c] = "list"
      BY <1>2, <1>5, DestroyTakesTheRef
    <2> QED BY <1>0, <1>5, <2>1 DEF Sweeps, Reaches, ObserveDestroy, IsEnsure, IsDestroy
  <1>6. CASE records' = records /\ ~(RecordUnit(c) /\ StillWanted(records, req[c]))
    <2>1. CASE e # c
      <3>1. pc'[e] = pc[e]
        BY <1>1, <2>1, OthersKeep
      <3> QED BY <1>0, <1>1, <1>2, <1>6, <3>1 DEF SweepToCome
    <2>2. CASE e = c
      <3>1. StillWanted(records, req[c])
        BY <1>1, <1>2, <2>2 DEF StillWanted
      <3>2. MakeUnitDir(c) \/ SpawnSidecar(c) \/ WritePidFile(c)
        BY <1>1, <1>6, <2>2, <3>1
           DEF Step, ObserveEnsure, ObserveDestroy, AbortStart, StopLateUnit, RemoveLateUnit,
               ListUnits, ReadPidFile, TerminateUnit, RemoveUnit, Answer
      <3>3. pc'[c] \in {"spawn", "writePid", "record"}
        <4>1. pc'[c] # "abort"
          BY StarterStep
        <4> QED BY <3>2, <4>1 DEF MakeUnitDir, SpawnSidecar, WritePidFile, Goto, TypeOK
      <3> QED BY <1>0, <1>1, <1>2, <1>6, <2>2, <3>3 DEF SweepToCome
    <2> QED BY <2>1, <2>2
  <1> QED BY <1>3, <1>4, <1>5, <1>6, StoreMoves

\* The steps of a call preserve SweepInv.
LEMMA StepSweeps ==
    ASSUME Assumed, SweepInv, 0 \notin Gens, NEW c \in Calls, Step(c)
    PROVE  SweepInv'
  <1> USE DEF SweepInv
  <1>1. Swept'
    <2> SUFFICES ASSUME NEW r \in live'
                 PROVE  \/ Starting(r)' \/ Current(r)' \/ SweepToCome'
                        \/ \E d \in Calls : Sweeps(d, r)'
      BY DEF Swept
    <2>1. CASE r \notin live
      <3>1. SpawnSidecar(c)
        BY <2>1, OnlySpawnAdds DEF Assumed
      <3> QED BY <2>1, <3>1 DEF SpawnSidecar, Starting, Goto, Assumed, TypeOK
    <2>2. CASE Starting(r)
      BY <2>2, StartingMoves
    <2>3. CASE r \in live /\ ~Starting(r)
      <3>1. Current(r) \/ SweepToCome \/ \E d \in Calls : Sweeps(d, r)
        BY <2>3 DEF Swept
      <3> QED BY <2>3, <3>1, CurrentMoves, ToComeMoves, SweepsStay
    <2> QED BY <2>1, <2>2, <2>3
  <1> QED BY <1>1, UnseenStep, RecordedStep, CurrentStep

\* A new call preserves SweepInv (KnownRefs).
LEMMA ArrivalSweeps ==
    ASSUME Assumed, SweepInv, NEW c \in Calls, NEW q \in Request, Arrives(c, q)
    PROVE  SweepInv'
  <1> USE DEF Assumed, Standing, SweepInv
  <1>1. Swept'
    <2> SUFFICES ASSUME NEW r \in live'
                 PROVE  \/ Starting(r)' \/ Current(r)' \/ SweepToCome'
                        \/ \E d \in Calls : Sweeps(d, r)'
      BY DEF Swept
    <2>1. Starting(r) \/ Current(r) \/ SweepToCome \/ \E d \in Calls : Sweeps(d, r)
      BY DEF Arrives, Swept
    <2>2. SweepToCome => SweepToCome'
      BY DEF Arrives, SweepToCome
    <2>3. Current(r) => Current(r)'
      BY DEF Arrives, Current
    <2>4. ASSUME NEW d \in Calls, Sweeps(d, r) PROVE Sweeps(d, r)'
      BY <2>4 DEF Arrives, Sweeps, Reaches, IsEnsure
    <2> QED BY <2>1, <2>2, <2>3, <2>4, ArrivalConfirmsNothing
  <1>2. StartsUnseen'
    <2>1. ASSUME NEW x \in Calls, pc[x] = "writePid" PROVE q.ref # unit[x]
      <3>1. CASE q.ref = NoRef
        BY <2>1, <3>1, UnwrittenIsOwn
      <3>2. CASE \E e \in Calls : result[e] = "accepted" /\ NewestEnsure(e) /\ q.ref = unit[e]
        <4>1. PICK e \in Calls : result[e] = "accepted" /\ NewestEnsure(e) /\ q.ref = unit[e]
          BY <3>2
        <4>2. e # x /\ IsEnsure(e)
          BY <2>1, <4>1 DEF StartsUnseen, NewestEnsure
        <4> QED BY <2>1, <4>1, <4>2, UnwrittenIsOwn
      <3> QED BY <3>1, <3>2 DEF Arrives
    <2> QED BY <2>1 DEF Arrives, StartsUnseen
  <1>3. NewestIsRecorded'
    <2> SUFFICES ASSUME NEW e \in Calls, Recorded(e)', NewestEnsure(e)'
                 PROVE  unit'[e] # NoRef /\ records'.ref = unit'[e]
      BY DEF NewestIsRecorded
    <2>1. result[c] # "accepted"
      BY DEF StartsUnseen, Arrives
    <2>2. e # c /\ Recorded(e)
      BY <2>1 DEF Arrives, Recorded, IsEnsure
    <2>3. NewestEnsure(e)
      BY <2>2 DEF Arrives, NewestEnsure, IsEnsure, NoRequest
    <2> QED BY <2>2, <2>3 DEF Arrives, NewestIsRecorded
  <1>4. RequestIsCurrent'
    <2>1. q.ref = NoRef \/ records.ref = q.ref
      BY DEF Arrives, NewestIsRecorded, Recorded
    <2> QED BY <2>1 DEF Arrives, RequestIsCurrent
  <1> QED BY <1>1, <1>2, <1>3, <1>4

-----------------------------------------------------------------------------
(* The theorem *)

\* The cases the theorem is about: a hub that stays up and asks in the reconciler's
\* order, or asks for advancing generations and meets no I/O failure.
Steadily ==
    /\ Order = "reconciler" \/ (Order = "advancing" /\ MaxFaults = 0)
    /\ MaxCrashes = 0 /\ 0 \notin Gens

\* What each case keeps.
Cleared == IF Order = "reconciler" THEN DestroyInv ELSE SweepInv

\* The first state satisfies both.
LEMMA DestroyInit == Init => Standing /\ Cleared
  <1>1. Init => Standing /\ DestroyInv
    BY DEF Init, Standing, DestroyInv, Remembers, CallsKeepKind, OneAtATime, RecordIsNewest,
           RequestIsNewest, Fenced, Covered, Confirming, Started, NoRecord, NoRequest, IsEnsure
  <1>2. Init => SweepInv
    BY DEF Init, SweepInv, Swept, StartsUnseen, NewestIsRecorded, RequestIsCurrent, Recorded,
           NoRequest, IsEnsure
  <1> QED BY <1>1, <1>2 DEF Cleared

\* A sidecar that exits by itself disturbs neither.
LEMMA ExitDestroys ==
    ASSUME Assumed, SidecarExits \/ UNCHANGED vars
    PROVE  Standing' /\ (Cleared => Cleared')
  <1>1. live' \subseteq live
        /\ UNCHANGED <<store, files, progress, pc, result, req, spawned, lost>>
    BY DEF SidecarExits, vars, procs, answers, history
  <1>2. /\ records' = records /\ initialized' = initialized /\ stateFile' = stateFile
        /\ unitDirs' = unitDirs /\ pidFiles' = pidFiles
        /\ pc' = pc /\ result' = result /\ req' = req /\ unit' = unit /\ todo' = todo
        /\ stops' = stops /\ cur' = cur /\ spawned' = spawned /\ lost' = lost
    BY <1>1 DEF store, files, progress
  <1>3. \A r : /\ Starting(r) => Starting(r)'
               /\ \A d \in Calls : Reaches(d, r) => Reaches(d, r)'
               /\ \A d \in Calls : Sweeps(d, r) => Sweeps(d, r)'
    BY <1>2 DEF Starting, Reaches, Sweeps, IsEnsure
  <1>4. Remembers' /\ CallsKeepKind' /\ RequestIsNewest'
    BY <1>2 DEF Assumed, Standing, Remembers, CallsKeepKind, RequestIsNewest, IsEnsure
  <1>5. RecordIsNewest' /\ Fenced'
    BY <1>2 DEF Assumed, Standing, RecordIsNewest, Started, Fenced, Confirming, Rank, IsEnsure
  <1>6. ASSUME DestroyInv PROVE DestroyInv'
    <2>1. OneAtATime'
      BY <1>2, <1>6 DEF DestroyInv, OneAtATime, IsEnsure, IsDestroy, Destroyed
    <2>2. Covered'
      BY <1>1, <1>2, <1>3, <1>6 DEF DestroyInv, Covered, Confirming, IsEnsure
    <2> QED BY <2>1, <2>2 DEF DestroyInv
  <1>7. ASSUME SweepInv PROVE SweepInv'
    <2>1. Swept'
      BY <1>1, <1>2, <1>3, <1>7 DEF SweepInv, Swept, Current, SweepToCome
    <2>2. StartsUnseen' /\ NewestIsRecorded' /\ RequestIsCurrent'
      BY <1>2, <1>7 DEF SweepInv, StartsUnseen, NewestIsRecorded, RequestIsCurrent, Recorded,
             NewestEnsure, IsEnsure
    <2> QED BY <2>1, <2>2 DEF SweepInv
  <1> QED BY <1>4, <1>5, <1>6, <1>7 DEF Standing, Cleared

\* Every step keeps what its case needs (the whole provisioner).
LEMMA NextDestroys ==
    Steadily /\ Assumed /\ Cleared /\ [Next]_vars => Assumed' /\ Cleared'
  <1> SUFFICES ASSUME Steadily, Assumed, Cleared, [Next]_vars PROVE Assumed' /\ Cleared'
    OBVIOUS
  <1>1. Order # "any" /\ 0 \notin Gens /\ (Order = "reconciler" \/ MaxFaults = 0)
    BY DEF Steadily
  <1>2. TypeOK' /\ Asked' /\ OrphanInv'
    BY <1>1, NextType, NextOrphans DEF Assumed
  <1>3. Standing' /\ Cleared'
    <2>1. CASE SidecarExits \/ UNCHANGED vars
      BY <2>1, ExitDestroys
    <2>2. ~HubCrash
      BY DEF Steadily, HubCrash, Assumed, TypeOK
    <2>3. ASSUME NEW c \in Calls, Arrival(c) PROVE Standing' /\ Cleared'
      <3>1. PICK q \in Request : Arrives(c, q)
        BY <1>1, <2>3, ArrivalIs
      <3> QED BY <1>1, <3>1, ArrivalStands, ArrivalDestroys, ArrivalSweeps DEF Cleared
    <2>4. ASSUME NEW c \in Calls, Step(c) \/ Failure(c) PROVE Standing' /\ Cleared'
      <3>1. Standing'
        BY <2>4, StepStands
      <3>2. CASE Order = "reconciler"
        BY <1>1, <2>4, <3>1, <3>2, StepDestroys DEF Cleared
      <3>3. CASE Order # "reconciler"
        <4>1. Step(c)
          BY <1>1, <2>4, <3>3, NoFailure DEF Assumed
        <4> QED BY <1>1, <3>1, <3>3, <4>1, StepSweeps DEF Cleared
      <3> QED BY <3>2, <3>3
    <2> QED BY <2>1, <2>2, <2>3, <2>4 DEF Next
  <1> QED BY <1>2, <1>3 DEF Assumed

\* Once destroy() has answered destroyed and no call is running, no sidecar of that
\* generation or an older one runs: for any number of calls and generations and a hub
\* that stays up, with any number of I/O failures in the reconciler's order, and in
\* every order of advancing generations without them (destroy, recordUnit's fence).
THEOREM DestroysComplete == Steadily /\ Spec => []DestroyedMeansGone
  <1>1. Init => Assumed /\ Cleared
    BY InitType, DestroyInit
       DEF Init, Assumed, Asked, OrphanInv, OneEnsurePerGen, SpawnedByEnsure, UnitsAreUnique,
           RefsAreKnown, CallsInStep, OrphanFree, Known, NoRecord, NoRequest, IsEnsure
  <1>2. Assumed /\ Cleared => DestroyedMeansGone
    <2> SUFFICES ASSUME Assumed, Cleared, Quiet, NEW c \in Calls, result[c] = "destroyed",
                        NEW r \in live
                 PROVE  r.gen > req[c].gen
      BY DEF DestroyedMeansGone
    <2>1. ~Starting(r) /\ Confirming(c) /\ \A d \in Calls : ~Reaches(d, r)
      BY DEF Quiet, Starting, Confirming, Reaches
    <2>2. r.gen \in Nat /\ req[c].gen \in Nat /\ records \in AllocationRecord
      BY ConstantsAssumption DEF ConstantsAssumption, Assumed, TypeOK, Unit, Request
    <2>3. CASE DestroyInv
      <3>1. ~(r.gen <= req[c].gen)
        BY <2>1, <2>3 DEF DestroyInv, Covered
      <3> QED BY <2>2, <3>1
    <2>4. CASE SweepInv
      <3>1. records.desired = "ensured" /\ records.ref = r
        BY <2>1, <2>4 DEF SweepInv, Swept, Sweeps, SweepToCome, Current, Quiet
      <3>2. records.gen = r.gen
        BY <2>2, <3>1 DEF Assumed, Standing, RecordIsNewest, TypeOK, Unit, NoRef
      <3>3. Rank(records) >= 2 * req[c].gen + 2
        BY <2>1 DEF Assumed, Standing, Fenced
      <3> QED BY <2>2, <3>1, <3>2, <3>3 DEF Rank
    <2> QED BY <2>3, <2>4 DEF Cleared
  <1>3. CASE Steadily
    <2>1. Assumed /\ Cleared /\ [Next]_vars => Assumed' /\ Cleared'
      BY <1>3, NextDestroys
    <2> QED BY <1>1, <1>2, <2>1, PTL DEF Spec
  <1> QED BY <1>3

=============================================================================
