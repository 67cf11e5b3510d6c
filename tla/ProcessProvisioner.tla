------------------------- MODULE ProcessProvisioner -------------------------
(***************************************************************************)
(* The hub's process provisioner (apps/hub/src/provisioners/process.ts):   *)
(* ensure() and destroy() for ONE allocation, the allocation state store   *)
(* they fence each other through, the unit directories and pid files on    *)
(* disk, and the sidecar processes themselves.                             *)
(*                                                                         *)
(* One action per stretch of code between two awaits.  A store operation   *)
(* is one action: runExclusive lets no other store operation in between,   *)
(* and nothing outside the store reads its state.  A hub crash between the *)
(* durable write and the in-memory update is the completed action followed *)
(* by HubCrash.                                                            *)
(*                                                                         *)
(* Simplifications                                                         *)
(*  - Allocations share only the store's queue and the state file, whose   *)
(*    records are per allocation, so one allocation is modelled.           *)
(*  - The operating system hands out a fresh pid for every spawn.          *)
(*  - terminate() is the step at which the process is gone: the process    *)
(*    stays alive, and may exit by itself, until then (SIGTERM, at most    *)
(*    five seconds of polling, SIGKILL).                                   *)
(*  - Requests are the ones the hub sends: the validators' empty-string    *)
(*    and negative-generation rejections never fire.                       *)
(***************************************************************************)
EXTENDS Integers, FiniteSets

CONSTANTS
    Calls,        \* identifiers of the ensure() and destroy() calls
    Gens,         \* generations the hub asks for
    Sids,         \* sidecar identities the hub mints
    NoCall,       \* inFlightEnsures holds nothing
    Order,        \* in which order the hub makes its requests, see AdmitsEnsure
    MaxFaults,    \* bound on I/O failures
    MaxCrashes    \* bound on hub crashes

ASSUME ConstantsAssumption ==
    /\ Gens \subseteq Nat
    /\ NoCall \notin Calls
    /\ Order \in {"any", "advancing", "reconciler"}
    /\ MaxFaults \in Nat
    /\ MaxCrashes \in Nat

VARIABLES
    \* createAllocationStateStore
    records,      \* the in-memory record of the allocation
    initialized,  \* the state file has been read since the hub booted
    stateFile,    \* the durable record, state.json
    \* the file system
    unitDirs,     \* generations whose unit directory gen-<g> exists
    pidFiles,     \* pid recorded in gen-<g>/sidecar.pid, 0 when there is none
    \* the operating system
    live,         \* units <generation, pid> whose process is running
    lastPid,      \* highest pid handed out
    \* the calls
    inFlight,     \* the call inFlightEnsures holds for the allocation
    pc,           \* where each call is suspended
    req,          \* its request
    behind,       \* the call a queued ensure() waits for
    unit,         \* the unit an ensure() started, or the one it keeps
    todo,         \* directory entries findUnitsByAllocation has still to read
    stops,        \* units the call has still to stop
    cur,          \* the unit whose directory it is about to remove
    result,       \* what the call answered
    \* bounds
    faults, crashes,
    \* history, read by no action
    spawned,      \* every unit ever spawned
    acked,        \* rank of the newest record the store has answered "observed" for
    lost          \* units whose hub crashed between their spawn and their pid file

store    == <<records, initialized, stateFile>>
files    == <<unitDirs, pidFiles>>
procs    == <<live, lastPid>>
progress == <<unit, todo, stops, cur>>
answers  == <<inFlight, pc, result>>
bounds   == <<faults, crashes>>
history  == <<spawned, acked, lost>>
vars     == <<store, files, procs, progress, answers, req, behind, bounds, history>>

-----------------------------------------------------------------------------
(* Data. *)

\* An external ref <allocationId>:<generation>:<pid>; pids are positive, so
\* pid 0 stands for null.
Unit  == [gen : Gens, pid : Nat \ {0}]
NoRef == [gen |-> 0, pid |-> 0]
Ref   == Unit \cup {NoRef}

NoSid == "no sidecar"
AllocationRecord ==
    [sid : Sids \cup {NoSid}, gen : Nat,
     desired : {"absent", "ensured", "destroyed"}, ref : Ref]
NoRecord == [sid |-> NoSid, gen |-> 0, desired |-> "absent", ref |-> NoRef]

Request   == [kind : {"none", "ensure", "destroy"}, gen : Nat,
              sid : Sids \cup {NoSid}, ref : Ref]
NoRequest == [kind |-> "none", gen |-> 0, sid |-> NoSid, ref |-> NoRef]

PCs == {"idle", "queued", "observe", "mkdir", "spawn", "writePid", "abort",
        "record", "lateStop", "lateRm", "list", "read", "stop", "rm", "done"}

Results == {"none", "accepted", "destroyed", "request_conflict",
            "stale_generation", "generation_destroyed", "start_failed",
            "superseded", "destroy_failed", "threw", "crashed"}

\* The order in which the store lets a record be replaced: by generation, and
\* within one generation destroyed after ensured.
Rank(rec) ==
    IF rec.desired = "absent" THEN 0
    ELSE 2 * rec.gen + (IF rec.desired = "ensured" THEN 1 ELSE 2)

IsEnsure(c)  == req[c].kind = "ensure"
IsDestroy(c) == req[c].kind = "destroy"

IsAlive(pid) == \E r \in live : r.pid = pid

-----------------------------------------------------------------------------
(* createAllocationStateStore *)

\* initialize(): the first operation after a boot reads the state file.
Loaded == IF initialized THEN records ELSE stateFile

\* The checks of observeEnsure, in the code's order.
EnsureVerdict(rec, q) ==
    CASE rec.desired = "absent"  -> "write"
      [] rec.desired # "absent" /\ rec.sid # q.sid -> "request_conflict"
      [] rec.desired # "absent" /\ rec.sid = q.sid /\ rec.gen > q.gen -> "stale_generation"
      [] rec.desired = "destroyed" /\ rec.sid = q.sid /\ rec.gen = q.gen -> "generation_destroyed"
      [] rec.desired = "ensured" /\ rec.sid = q.sid /\ rec.gen = q.gen -> "keep"
      [] OTHER -> "write"

\* The checks of observeDestroy.
DestroyVerdict(rec, q) ==
    CASE rec.desired = "absent"  -> "write"
      [] rec.desired # "absent" /\ rec.sid # q.sid -> "request_conflict"
      [] rec.desired # "absent" /\ rec.sid = q.sid /\ rec.gen > q.gen -> "stale_generation"
      [] rec.desired = "destroyed" /\ rec.sid = q.sid /\ rec.gen = q.gen -> "keep"
      [] OTHER -> "write"

\* The records observeEnsure and observeDestroy build.  observeDestroy carries
\* the external ref over, so that destroy() can still stop the unit.
EnsuredRecord(q) ==
    [sid |-> q.sid, gen |-> q.gen, desired |-> "ensured", ref |-> NoRef]
DestroyedRecord(rec, q) ==
    [sid |-> q.sid, gen |-> q.gen, desired |-> "destroyed", ref |-> rec.ref]

\* Mutant of StillWanted: destroyed within the same generation is not noticed.
SameGeneration(rec, q) == rec.desired # "absent" /\ rec.gen = q.gen

\* recordUnit's condition: the generation is still the one to run.
StillWanted(rec, q) == rec.desired = "ensured" /\ rec.gen = q.gen

\* Mutant of Persist: the state file is not written.
PersistInMemory(rec) == records' = rec /\ initialized' = TRUE /\ UNCHANGED stateFile

\* persist() and then the in-memory update; or no change at all.
Persist(rec) == records' = rec /\ stateFile' = rec /\ initialized' = TRUE
Keep         == records' = Loaded /\ initialized' = TRUE /\ UNCHANGED stateFile

\* The store answers a fence of this rank.
Acknowledge(rank) == acked' = IF rank > acked THEN rank ELSE acked

\* The record a call at this point would persist.
Intended(c) ==
    CASE pc[c] = "observe" /\ IsEnsure(c)  -> EnsuredRecord(req[c])
      [] pc[c] = "observe" /\ IsDestroy(c) -> DestroyedRecord(Loaded, req[c])
      [] OTHER -> [Loaded EXCEPT !.ref = unit[c]]

\* Does the call's next store operation write the state file?
Writes(c) ==
    \/ pc[c] = "observe" /\ IsEnsure(c)  /\ EnsureVerdict(Loaded, req[c]) = "write"
    \/ pc[c] = "observe" /\ IsDestroy(c) /\ DestroyVerdict(Loaded, req[c]) = "write"
    \/ pc[c] = "record" /\ StillWanted(Loaded, req[c])

-----------------------------------------------------------------------------
(* How a call moves and ends. *)

Goto(c, l) == pc' = [pc EXCEPT ![c] = l] /\ UNCHANGED <<inFlight, result>>

\* Mutant of Settle: the calls queued behind this one are forgotten.
SettleAlone(c, res) ==
    /\ pc' = [pc EXCEPT ![c] = "done"]
    /\ result' = [result EXCEPT ![c] = res]
    /\ inFlight' = IF inFlight = c THEN NoCall ELSE inFlight

\* The call's promise settles.  inFlightEnsures forgets it, and the ensure()
\* calls queued behind it run, or reject with it when it threw.
Settle(c, res) ==
    LET woken(d) == pc[d] = "queued" /\ behind[d] = c
    IN  /\ pc' = [d \in Calls |->
                    IF d = c THEN "done"
                    ELSE IF ~woken(d) THEN pc[d]
                    ELSE IF res = "threw" THEN "done" ELSE "observe"]
        /\ result' = [d \in Calls |->
                    IF d = c \/ (woken(d) /\ res = "threw") THEN res ELSE result[d]]
        /\ inFlight' = IF inFlight = c THEN NoCall ELSE inFlight

-----------------------------------------------------------------------------
(* The two entry points, and the order in which the hub may call them:      *)
(*   any          repeated, reordered and duplicated requests;              *)
(*   advancing    every ensure() has a new generation, no request an older  *)
(*                one, as the allocation store mints them;                  *)
(*   reconciler   moreover a destroy() follows an ensure() and names its    *)
(*                sidecar, and no ensure() is made before the previous one  *)
(*                has been answered destroyed.                              *)
(* In every order, a call the reconciler has given up waiting for may still *)
(* be running.                                                              *)

NewestEnsure(c) ==
    IsEnsure(c) /\ \A d \in Calls : IsEnsure(d) => req[d].gen <= req[c].gen

Destroyed(c) ==
    \E d \in Calls : IsDestroy(d) /\ result[d] = "destroyed" /\ req[d].gen >= req[c].gen

AdmitsEnsure(g) ==
    /\ Order # "any" => \A d \in Calls : req[d] # NoRequest => req[d].gen < g
    /\ Order = "reconciler" => \A d \in Calls : IsEnsure(d) => Destroyed(d)

AdmitsDestroy(g, s) ==
    /\ Order # "any" => \A d \in Calls : req[d].gen <= g
    /\ Order = "reconciler" => \E d \in Calls : NewestEnsure(d) /\ req[d].sid = s

\* ensure(): coalesced behind the tracked call when there is one.
Ensure(c, g, s) ==
    /\ pc[c] = "idle"
    /\ AdmitsEnsure(g)
    /\ req' = [req EXCEPT ![c] = [kind |-> "ensure", gen |-> g, sid |-> s, ref |-> NoRef]]
    /\ IF inFlight = NoCall
       THEN /\ inFlight' = c
            /\ pc' = [pc EXCEPT ![c] = "observe"]
            /\ UNCHANGED behind
       ELSE /\ behind' = [behind EXCEPT ![c] = inFlight]
            /\ pc' = [pc EXCEPT ![c] = "queued"]
            /\ UNCHANGED inFlight
    /\ UNCHANGED <<store, files, procs, progress, result, bounds, history>>

\* The refs a destroy() may carry: none, or the one its newest ensure() was
\* accepted with (the hub forgets a ref when it moves to a new generation).
KnownRefs ==
    {NoRef} \cup {unit[d] : d \in {e \in Calls : result[e] = "accepted" /\ NewestEnsure(e)}}

\* destroy(): never coalesced.
Destroy(c, g, s, r) ==
    /\ pc[c] = "idle"
    /\ r \in KnownRefs
    /\ AdmitsDestroy(g, s)
    /\ req' = [req EXCEPT ![c] = [kind |-> "destroy", gen |-> g, sid |-> s, ref |-> r]]
    /\ Goto(c, "observe")
    /\ UNCHANGED <<store, files, procs, progress, behind, bounds, history>>

-----------------------------------------------------------------------------
(* ensureOnce *)

ObserveEnsure(c) ==
    LET v == EnsureVerdict(Loaded, req[c])
    IN  /\ pc[c] = "observe"
        /\ IsEnsure(c)
        /\ \/ /\ v = "write"
              /\ Persist(EnsuredRecord(req[c]))
              /\ Acknowledge(Rank(EnsuredRecord(req[c])))
              /\ Goto(c, "mkdir")
              /\ UNCHANGED unit
           \/ /\ v = "keep"
              /\ Keep
              /\ Acknowledge(Rank(Loaded))
              /\ unit' = [unit EXCEPT ![c] = Loaded.ref]
              /\ Goto(c, IF Loaded.ref = NoRef THEN "mkdir" ELSE "list")
           \/ /\ v \notin {"write", "keep"}
              /\ Keep
              /\ Settle(c, v)
              /\ UNCHANGED <<unit, acked>>
        /\ UNCHANGED <<files, procs, todo, stops, cur, req, behind, bounds, spawned, lost>>

\* startUnit, up to its first await.
MakeUnitDir(c) ==
    /\ pc[c] = "mkdir"
    /\ unitDirs' = unitDirs \cup {req[c].gen}
    /\ Goto(c, "spawn")
    /\ UNCHANGED <<store, pidFiles, procs, progress, req, behind, bounds, history>>

SpawnSidecar(c) ==
    LET r == [gen |-> req[c].gen, pid |-> lastPid + 1]
    IN  /\ pc[c] = "spawn"
        /\ lastPid' = lastPid + 1
        /\ live' = live \cup {r}
        /\ spawned' = spawned \cup {r}
        /\ unit' = [unit EXCEPT ![c] = r]
        /\ Goto(c, "writePid")
        /\ UNCHANGED <<store, files, todo, stops, cur, req, behind, bounds, acked, lost>>

\* The pid file, in a directory another call may have removed meanwhile.
WritePidFile(c) ==
    /\ pc[c] = "writePid"
    /\ IF unit[c].gen \in unitDirs
       THEN pidFiles' = [pidFiles EXCEPT ![unit[c].gen] = unit[c].pid] /\ Goto(c, "record")
       ELSE UNCHANGED pidFiles /\ Goto(c, "abort")
    /\ UNCHANGED <<store, unitDirs, procs, progress, req, behind, bounds, history>>

\* Mutant of AbortStart: the unit whose pid file was not written is left running.
AbandonStart(c) ==
    /\ pc[c] = "abort"
    /\ Settle(c, "start_failed")
    /\ UNCHANGED <<store, files, procs, progress, req, behind, bounds, history>>

\* startUnit's failed pid write: terminate the unit and reject.
AbortStart(c) ==
    /\ pc[c] = "abort"
    /\ live' = {r \in live : r.pid # unit[c].pid}
    /\ Settle(c, "start_failed")
    /\ UNCHANGED <<store, files, lastPid, progress, req, behind, bounds, history>>

RecordUnit(c) ==
    /\ pc[c] = "record"
    /\ IF StillWanted(Loaded, req[c])
       THEN /\ Persist([Loaded EXCEPT !.ref = unit[c]])
            /\ Acknowledge(Rank(Loaded))
            /\ Goto(c, "list")
       ELSE /\ Keep
            /\ Goto(c, "lateStop")
            /\ UNCHANGED acked
    /\ UNCHANGED <<files, procs, progress, req, behind, bounds, spawned, lost>>

\* Mutant of StopLateUnit: only the directory of the superseded unit is removed.
ForgetLateUnit(c) ==
    /\ pc[c] = "lateStop"
    /\ cur' = [cur EXCEPT ![c] = unit[c]]
    /\ Goto(c, "lateRm")
    /\ UNCHANGED <<store, files, procs, unit, todo, stops, req, behind, bounds, history>>

\* The generation was superseded while its unit was starting: stopUnit, then reject.
StopLateUnit(c) ==
    /\ pc[c] = "lateStop"
    /\ live' = {r \in live : r.pid # unit[c].pid}
    /\ cur' = [cur EXCEPT ![c] = unit[c]]
    /\ Goto(c, "lateRm")
    /\ UNCHANGED <<store, files, lastPid, unit, todo, stops, req, behind, bounds, history>>

RemoveUnitDir(g) ==
    /\ unitDirs' = unitDirs \ {g}
    /\ pidFiles' = [pidFiles EXCEPT ![g] = 0]

RemoveLateUnit(c) ==
    /\ pc[c] = "lateRm"
    /\ RemoveUnitDir(cur[c].gen)
    /\ Settle(c, "superseded")
    /\ UNCHANGED <<store, procs, progress, req, behind, bounds, history>>

-----------------------------------------------------------------------------
(* destroy *)

ObserveDestroy(c) ==
    LET v   == DestroyVerdict(Loaded, req[c])
        rec == IF v = "write" THEN DestroyedRecord(Loaded, req[c]) ELSE Loaded
        ref == IF req[c].ref # NoRef THEN req[c].ref ELSE rec.ref
    IN  /\ pc[c] = "observe"
        /\ IsDestroy(c)
        /\ \/ /\ v \in {"write", "keep"}
              /\ IF v = "write" THEN Persist(rec) ELSE Keep
              /\ Acknowledge(Rank(rec))
              /\ IF ref = NoRef
                 THEN Goto(c, "list") /\ UNCHANGED stops
                 ELSE Goto(c, "stop") /\ stops' = [stops EXCEPT ![c] = {ref}]
           \/ /\ v \notin {"write", "keep"}
              /\ Keep
              /\ Settle(c, v)
              /\ UNCHANGED <<stops, acked>>
        /\ UNCHANGED <<files, procs, unit, todo, cur, req, behind, bounds, spawned, lost>>

-----------------------------------------------------------------------------
(* findUnitsByAllocation and stopUnit, shared by the sweep and by destroy *)

\* Mutant of VisibleUnitDirs: an off-by-one in generationOf.
LaterUnitDirs == {g \in unitDirs : g > 1}

\* generationOf: a directory name counts only for a positive generation.
VisibleUnitDirs == {g \in unitDirs : g > 0}

\* readdir.
ListUnits(c) ==
    /\ pc[c] = "list"
    /\ todo' = [todo EXCEPT ![c] = VisibleUnitDirs]
    /\ Goto(c, IF VisibleUnitDirs = {} THEN "stop" ELSE "read")
    /\ UNCHANGED <<store, files, procs, unit, stops, cur, req, behind, bounds, history>>

\* Mutant of ReadPidFile: a missing pid file counts as a unit.
ReadMissingPidFile(c) ==
    /\ pc[c] = "read"
    /\ \E g \in todo[c] :
         /\ todo' = [todo EXCEPT ![c] = @ \ {g}]
         /\ stops' = [stops EXCEPT ![c] = @ \cup {[gen |-> g, pid |-> pidFiles[g]]}]
         /\ Goto(c, IF todo[c] = {g} THEN "stop" ELSE "read")
    /\ UNCHANGED <<store, files, procs, unit, cur, req, behind, bounds, history>>

\* One pid file; a sweep keeps the unit it was asked to keep.
ReadPidFile(c) ==
    /\ pc[c] = "read"
    /\ \E g \in todo[c] :
         LET r == [gen |-> g, pid |-> pidFiles[g]]
         IN  /\ todo' = [todo EXCEPT ![c] = @ \ {g}]
             /\ stops' = IF r.pid # 0 /\ IsAlive(r.pid) /\ ~(IsEnsure(c) /\ r = unit[c])
                         THEN [stops EXCEPT ![c] = @ \cup {r}] ELSE stops
             /\ Goto(c, IF todo[c] = {g} THEN "stop" ELSE "read")
    /\ UNCHANGED <<store, files, procs, unit, cur, req, behind, bounds, history>>

\* stopUnit up to the end of terminate().
TerminateUnit(c) ==
    /\ pc[c] = "stop"
    /\ \E r \in stops[c] :
         /\ live' = {p \in live : p.pid # r.pid}
         /\ stops' = [stops EXCEPT ![c] = @ \ {r}]
         /\ cur' = [cur EXCEPT ![c] = r]
    /\ Goto(c, "rm")
    /\ UNCHANGED <<store, files, lastPid, unit, todo, req, behind, bounds, history>>

\* The rest of stopUnit.
RemoveUnit(c) ==
    /\ pc[c] = "rm"
    /\ RemoveUnitDir(cur[c].gen)
    /\ Goto(c, "stop")
    /\ UNCHANGED <<store, procs, progress, req, behind, bounds, history>>

\* Nothing is left to stop: the call answers.
Answer(c) ==
    /\ pc[c] = "stop"
    /\ stops[c] = {}
    /\ Settle(c, IF IsEnsure(c) THEN "accepted" ELSE "destroyed")
    /\ UNCHANGED <<store, files, procs, progress, req, behind, bounds, history>>

-----------------------------------------------------------------------------
(* What can go wrong *)

Fault == faults < MaxFaults /\ faults' = faults + 1 /\ UNCHANGED crashes

\* initialize() cannot read the state file: the operation throws.
StoreReadFails(c) ==
    /\ pc[c] \in {"observe", "record"}
    /\ ~initialized
    /\ Fault
    /\ Settle(c, "threw")
    /\ UNCHANGED <<store, files, procs, progress, req, behind, history>>

\* writeFileAtomic throws, before its rename or (the directory sync) after it;
\* the in-memory record is left alone either way.
StoreWriteFails(c) ==
    /\ pc[c] \in {"observe", "record"}
    /\ Writes(c)
    /\ Fault
    /\ records' = Loaded
    /\ initialized' = TRUE
    /\ stateFile' \in {stateFile, Intended(c)}
    /\ Settle(c, "threw")
    /\ UNCHANGED <<files, procs, progress, req, behind, history>>

\* sidecarEnvFor, mkdir or spawn throws: startUnit rejects.
StartFails(c) ==
    /\ pc[c] \in {"mkdir", "spawn"}
    /\ Fault
    /\ Settle(c, "start_failed")
    /\ UNCHANGED <<store, files, procs, progress, req, behind, history>>

\* writeFile of the pid file throws.
PidWriteFails(c) ==
    /\ pc[c] = "writePid"
    /\ Fault
    /\ Goto(c, "abort")
    /\ UNCHANGED <<store, files, procs, progress, req, behind, history>>

\* readdir or readFile throws in findUnitsByAllocation, which nobody catches.
FindFails(c) ==
    /\ pc[c] \in {"list", "read"}
    /\ Fault
    /\ Settle(c, "threw")
    /\ UNCHANGED <<store, files, procs, progress, req, behind, history>>

\* rm throws, the pid file removed or not.
HalfRemoved(g) ==
    /\ pidFiles' \in {pidFiles, [pidFiles EXCEPT ![g] = 0]}
    /\ UNCHANGED unitDirs

\* stopUnit throws inside ensureOnce's superseded branch, which nobody catches:
\* the process exited between isAlive and the signal, or rm failed.
LateStopFails(c) ==
    /\ pc[c] \in {"lateStop", "lateRm"}
    /\ Fault
    /\ live' = {r \in live : r.pid # unit[c].pid}
    /\ IF pc[c] = "lateRm" THEN HalfRemoved(cur[c].gen) ELSE UNCHANGED files
    /\ Settle(c, "threw")
    /\ UNCHANGED <<store, lastPid, progress, req, behind, history>>

\* What a throwing stopUnit does to its caller: the sweep goes on, destroy rejects.
StopFailed(c) ==
    IF IsEnsure(c) THEN Goto(c, "stop") ELSE Settle(c, "destroy_failed")

\* terminate() throws: the process exited between isAlive and the signal.
TerminateFails(c) ==
    /\ pc[c] = "stop"
    /\ Fault
    /\ \E r \in stops[c] :
         /\ IsAlive(r.pid)
         /\ live' = {p \in live : p.pid # r.pid}
         /\ stops' = [stops EXCEPT ![c] = @ \ {r}]
    /\ StopFailed(c)
    /\ UNCHANGED <<store, files, lastPid, unit, todo, cur, req, behind, history>>

RemoveFails(c) ==
    /\ pc[c] = "rm"
    /\ Fault
    /\ HalfRemoved(cur[c].gen)
    /\ StopFailed(c)
    /\ UNCHANGED <<store, procs, progress, req, behind, history>>

\* A sidecar exits by itself; nobody tells the provisioner.
SidecarExits ==
    /\ \E r \in live : live' = live \ {r}
    /\ UNCHANGED <<store, files, lastPid, progress, answers, req, behind, bounds, history>>

\* The hub dies and boots again.  Its calls and the store's memory are gone;
\* the state file, the directories and the (unref'd) sidecars survive.
HubCrash ==
    /\ crashes < MaxCrashes
    /\ crashes' = crashes + 1
    /\ pc' = [c \in Calls |-> IF pc[c] = "idle" THEN "idle" ELSE "done"]
    /\ result' = [c \in Calls |->
                    IF pc[c] \in {"idle", "done"} THEN result[c] ELSE "crashed"]
    /\ inFlight' = NoCall
    /\ records' = NoRecord
    /\ initialized' = FALSE
    /\ lost' = lost \cup {unit[c] : c \in {d \in Calls : pc[d] \in {"writePid", "abort"}}}
    /\ UNCHANGED <<stateFile, files, procs, progress, req, behind, faults, spawned, acked>>

-----------------------------------------------------------------------------

Init ==
    /\ records = NoRecord /\ initialized = FALSE /\ stateFile = NoRecord
    /\ unitDirs = {} /\ pidFiles = [g \in Gens |-> 0]
    /\ live = {} /\ lastPid = 0
    /\ inFlight = NoCall
    /\ pc = [c \in Calls |-> "idle"]
    /\ req = [c \in Calls |-> NoRequest]
    /\ behind = [c \in Calls |-> NoCall]
    /\ unit = [c \in Calls |-> NoRef]
    /\ todo = [c \in Calls |-> {}]
    /\ stops = [c \in Calls |-> {}]
    /\ cur = [c \in Calls |-> NoRef]
    /\ result = [c \in Calls |-> "none"]
    /\ faults = 0 /\ crashes = 0
    /\ spawned = {} /\ acked = 0 /\ lost = {}

\* What the hub's event loop does for a call once it has been made.
Step(c) ==
    \/ ObserveEnsure(c)
    \/ MakeUnitDir(c)
    \/ SpawnSidecar(c)
    \/ WritePidFile(c)
    \/ AbortStart(c)
    \/ RecordUnit(c)
    \/ StopLateUnit(c)
    \/ RemoveLateUnit(c)
    \/ ObserveDestroy(c)
    \/ ListUnits(c)
    \/ ReadPidFile(c)
    \/ TerminateUnit(c)
    \/ RemoveUnit(c)
    \/ Answer(c)

Failure(c) ==
    \/ StoreReadFails(c)
    \/ StoreWriteFails(c)
    \/ StartFails(c)
    \/ PidWriteFails(c)
    \/ FindFails(c)
    \/ LateStopFails(c)
    \/ TerminateFails(c)
    \/ RemoveFails(c)

Arrival(c) ==
    \E g \in Gens, s \in Sids :
        \/ Ensure(c, g, s)
        \/ \E r \in KnownRefs : Destroy(c, g, s, r)

Next ==
    \/ \E c \in Calls : Arrival(c) \/ Step(c) \/ Failure(c)
    \/ SidecarExits
    \/ HubCrash

\* The event loop runs every call that can run; nothing makes the hub call,
\* an I/O operation fail, a sidecar exit or the hub crash.
Fairness == \A c \in Calls : WF_vars(Step(c))

Spec     == Init /\ [][Next]_vars
FairSpec == Spec /\ Fairness

-----------------------------------------------------------------------------
(* Properties *)

\* In particular no call ever signals pid 0, which would reach the hub's own
\* process group (readPidFile, parseExternalRef).
TypeOK ==
    /\ records \in AllocationRecord /\ stateFile \in AllocationRecord
    /\ initialized \in BOOLEAN
    /\ unitDirs \subseteq Gens /\ pidFiles \in [Gens -> Nat]
    /\ live \subseteq Unit /\ lastPid \in Nat
    /\ inFlight \in Calls \cup {NoCall}
    /\ pc \in [Calls -> PCs]
    /\ req \in [Calls -> Request]
    /\ behind \in [Calls -> Calls \cup {NoCall}]
    /\ unit \in [Calls -> Ref] /\ cur \in [Calls -> Ref]
    /\ todo \in [Calls -> SUBSET Gens]
    /\ stops \in [Calls -> SUBSET Unit]
    /\ result \in [Calls -> Results]
    /\ faults \in 0..MaxFaults /\ crashes \in 0..MaxCrashes
    /\ spawned \subseteq Unit
    /\ acked \in Nat /\ lost \subseteq Ref

\* Whatever the store has answered "observed" for stays in force: neither a
\* failed write of the state file nor a hub crash lets the store fall back to
\* an older generation, or from destroyed to ensured, than one it has
\* acknowledged (observeEnsure, observeDestroy, recordUnit, writeFileAtomic).
FenceIsDurable ==
    /\ acked <= Rank(stateFile)
    /\ initialized => acked <= Rank(records)

\* The unit can be found again from its generation's pid file.
Findable(r) == r.gen \in unitDirs /\ pidFiles[r.gen] = r.pid

\* The call that spawned the unit has still to write its pid file.
Held(r) == \E c \in Calls : pc[c] \in {"writePid", "abort"} /\ unit[c] = r

\* When the hub mints a new generation for every ensure(), no running sidecar is ever
\* out of the provisioner's reach: its pid file names it, or the call that
\* spawned it is about to write that file or to terminate it.  The one
\* exception is a hub crash in exactly that window (startUnit, stopUnit,
\* sweepObsoleteUnits).
OrphanFree == \A r \in live : r \in lost \/ Findable(r) \/ Held(r)

\* No call is running.
Quiet == \A c \in Calls : pc[c] \in {"idle", "done"}

\* Once destroy() has answered destroyed and no call is running any more, no
\* sidecar of that generation or an older one runs: a concurrent ensure() that
\* was still starting its unit has stopped it (destroy, recordUnit's fence).
DestroyedMeansGone ==
    Quiet => \A c \in Calls : result[c] = "destroyed" =>
        \A r \in live : r.gen > req[c].gen

\* Racing ensure() calls never leave two sidecars running for one generation
\* (inFlightEnsures).
NoDuplicateUnits ==
    \A r1, r2 \in live : r1.gen = r2.gen => r1 = r2

\* Every call answers: no ensure() waits for ever behind a coalesced one,
\* whatever fails (ensure, runExclusive).
CallsReturn == \A c \in Calls : pc[c] # "idle" ~> pc[c] = "done"

\* After a confirmed destroy the fence holds for good: from some point on no
\* sidecar of that generation or an older one runs.
EventuallyGone ==
    \A c \in Calls :
        result[c] = "destroyed" ~> [](\A r \in live : r.gen > req[c].gen)

=============================================================================
