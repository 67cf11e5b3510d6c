--------------------------- MODULE ModelOfferings ---------------------------
(***************************************************************************)
(* The model offerings of a workspace and the workers deployed over them   *)
(* (apps/web/src): connecting a provider (shadowOffering), the credential  *)
(* edit that changes the model (credentials-section, worker-model-redeploy)*)
(* and the deployments that pin whatever offerings they find               *)
(* (createWorkbench, redeployWorkbenchAgent).  Each is a sequence of       *)
(* requests with no transaction around them, from any tab, and any of its  *)
(* requests may fail, handled by the hub or not.                           *)
(*                                                                         *)
(* What an operation creates has a fresh id, so the operation names it: o  *)
(* is the catalog provider and the offering that operation o mints, and    *)
(* Earlier what was minted before.  There is one provider name with one    *)
(* credential.  Benches are children of the workspace and see its          *)
(* offerings, with none of their own; the person owns them all.  Only      *)
(* default workers are deployed here: the edit moves no other agent.  The  *)
(* order of the offerings, so which one a list or a deployment has first,  *)
(* is left out.                                                            *)
(*                                                                         *)
(* The hub's routes are vendored.  What is relied on: an offering is       *)
(* unique by model and provider, a provider takes its offerings along, a   *)
(* deployment must pin distinct offerings that exist, and deleting what is *)
(* gone is a 404.                                                          *)
(***************************************************************************)
EXTENDS Naturals

CONSTANTS
    Ops,        \* connects, edits, creations and restarts
    Models,     \* canonical names of models
    Benches,    \* workbench tenants that can be created
    Earlier,    \* an operation that ended before all of them
    None,       \* no provider, no offering, no model, no bench
    MaxFaults   \* bound on the requests that fail

ASSUME OfferingsAssumption ==
    /\ Earlier \notin Ops
    /\ None \notin Ops \cup Models \cup Benches \cup {Earlier}
    /\ MaxFaults \in Nat

VARIABLES
    hub,      \* the workspace's catalog, its benches and their workers
    at,       \* the request an operation is making, or how it ended
    job,      \* what it is and knows
    stale,    \* history: the edits saved over an offering that was gone
    met,      \* history: the pairs of operations that ran at the same time
    faults

vars == <<hub, at, job, stale, met, faults>>

Requests == {"prepare", "provider", "offering", "rollback", "list", "swap",
             "redeploy", "retire", "resolve", "deploy"}
Ends     == {"done", "refused", "undone", "broken"}
Ids      == Ops \cup {Earlier}

Hubs == [provider  : Ids \cup {None},                      \* the catalog provider
         offerings : SUBSET [id : Ids, model : Models],    \* of that provider
         benches   : SUBSET Benches,
         workers   : [Benches -> SUBSET Ids]]   \* sourceOfferingIds; {}: no worker

\* A list of offerings: what each offering of a catalog is listed as.
Chains == UNION {[S -> Ids] : S \in SUBSET Ids}

Jobs == [kind     : {"none", "connect", "edit", "create", "restart"},
         model    : Models \cup {None},  \* connected, or changed to
         provider : Ids \cup {None},     \* the catalog provider it works on
         old      : Ids \cup {None},     \* the offering an edit replaces
         new      : Ids \cup {None},     \* the offering it minted or found
         bench    : Benches \cup {None}, \* the bench it deploys
         todo     : SUBSET Benches,      \* those the edit has still to look at
         chain    : Chains]              \* the sourceOfferingIds it deploys

Busy == {o \in Ops : at[o] \in Requests}

Live == {f.id : f \in hub.offerings}

-----------------------------------------------------------------------------
(* The hub *)

\* The offerings of the model operation o asks for: one at most.
OfModel(o) == {f \in hub.offerings : f.model = job[o].model}

Mint(o) == [hub EXCEPT !.offerings = @ \cup {[id |-> o, model |-> job[o].model]}]

DeleteProvider == [hub EXCEPT !.provider = None, !.offerings = {}]

DeleteOffering(o) == [hub EXCEPT !.offerings = {f \in @ : f.id # job[o].old}]

Pins(chain) == {chain[k] : k \in DOMAIN chain}

\* Some offering, none named twice, and each one that exists.
Deployable(chain) ==
    /\ Pins(chain) # {} /\ Pins(chain) \subseteq Live
    /\ \A j, k \in DOMAIN chain : chain[j] = chain[k] => j = k

DeployWorker(o) == [hub EXCEPT !.workers[job[o].bench] = Pins(job[o].chain)]

\* The hub once it has handled the request operation o is making; where it
\* refuses or only reads, it is as before.
Effect(o) ==
    CASE at[o] = "provider" /\ hub.provider = None -> [hub EXCEPT !.provider = o]
      [] at[o] = "offering" /\ job[o].provider = hub.provider /\ OfModel(o) = {} -> Mint(o)
      [] at[o] = "rollback" /\ job[o].provider = hub.provider -> DeleteProvider
      [] at[o] \in {"redeploy", "deploy"} /\ Deployable(job[o].chain) -> DeployWorker(o)
      [] at[o] = "retire" -> DeleteOffering(o)
      [] OTHER -> hub

-----------------------------------------------------------------------------
(* The client *)

\* Operation o starts, and meets those that are running.
Begin(o, known, first) ==
    /\ at' = [at EXCEPT ![o] = first]
    /\ job' = [job EXCEPT ![o] = known]
    /\ met' = met \cup ({o} \X Busy) \cup (Busy \X {o})
    /\ UNCHANGED faults

\* Its request is answered: it then knows `known' and goes on to `next'.
Answered(o, known, next) ==
    /\ hub' = Effect(o)
    /\ job' = [job EXCEPT ![o] = known]
    /\ at' = [at EXCEPT ![o] = next]
    /\ UNCHANGED <<stale, met, faults>>

(* shadowOffering, and the steps of it an edit shares *)

\* Mutant of Connect: no model has been chosen.
ConnectUnnamed(o, m) ==
    /\ at[o] = "idle"
    /\ Begin(o, [job[o] EXCEPT !.kind = "connect"], "prepare")
    /\ UNCHANGED <<hub, stale>>

Connect(o, m) ==
    /\ at[o] = "idle"
    /\ Begin(o, [job[o] EXCEPT !.kind = "connect", !.model = m], "prepare")
    /\ UNCHANGED <<hub, stale>>

\* ensureModel, ensureProviderRow and ensureCredential for a connect, ensureModel
\* for an edit: rows created or found, on which nothing depends yet.
PrepareRows(o) ==
    /\ at[o] = "prepare"
    /\ Answered(o, job[o], IF job[o].kind = "connect" THEN "provider" ELSE "offering")

\* Mutant of EnsureModelProvider: a conflict is not answered by the row there.
MintModelProvider(o) ==
    /\ at[o] = "provider"
    /\ IF hub.provider = None
         THEN Answered(o, [job[o] EXCEPT !.provider = o], "offering")
         ELSE Answered(o, job[o], "refused")

\* ensureModelProvider: created, or found under its name.
EnsureModelProvider(o) ==
    /\ at[o] = "provider"
    /\ Answered(o, [job[o] EXCEPT !.provider = IF hub.provider = None THEN o ELSE hub.provider],
                "offering")

\* A throw at the offering: a connect that minted its provider undoes that.
Undo(o, end) ==
    IF job[o].kind = "connect" /\ job[o].provider = o THEN "rollback" ELSE end

\* ensureOffering: created, or the one of this model; a provider that is gone is
\* a 404.  A connect has then succeeded.
EnsureOffering(o) ==
    LET next == IF job[o].kind = "connect" THEN "done" ELSE "list" IN
    /\ at[o] = "offering"
    /\ \/ /\ job[o].provider # hub.provider
          /\ Answered(o, job[o], Undo(o, "refused"))
       \/ /\ job[o].provider = hub.provider
          /\ OfModel(o) = {}
          /\ Answered(o, [job[o] EXCEPT !.new = o], next)
       \/ /\ job[o].provider = hub.provider
          /\ \E f \in OfModel(o) : Answered(o, [job[o] EXCEPT !.new = f.id], next)

\* Mutant of Rollback: the minted provider is left there.
KeepProvider(o) ==
    /\ at[o] = "rollback"
    /\ at' = [at EXCEPT ![o] = "undone"]
    /\ UNCHANGED <<hub, job, stale, met, faults>>

\* The just-minted provider is deleted.  A 404 is only reported.
Rollback(o) ==
    /\ at[o] = "rollback"
    /\ Answered(o, job[o], "undone")

(* The credential edit that changes the model *)

\* The settings page has listed the catalog; linkedCatalogOffering takes an
\* offering of the provider.
OpenDialog(o) ==
    /\ at[o] = "idle"
    /\ at' = [at EXCEPT ![o] = "open"]
    /\ \E f \in hub.offerings :
          job' = [job EXCEPT ![o] = [job[o] EXCEPT !.kind = "edit", !.old = f.id,
                                        !.model = f.model, !.provider = hub.provider]]
    /\ UNCHANGED <<hub, stale, met, faults>>

\* Saved with another model, whatever has happened to the catalog since.  The
\* name, the description and the base URL are written first.
SaveModel(o, m) ==
    /\ at[o] = "open"
    /\ m # job[o].model
    /\ Begin(o, [job[o] EXCEPT !.model = m], "prepare")
    /\ stale' = IF job[o].old \in Live THEN stale ELSE stale \cup {o}
    /\ UNCHANGED hub

\* The loop over the benches goes on, or the old offering is retired.
Onward(benches) == IF benches = {} THEN "retire" ELSE "swap"

\* Mutant of ListBenches: the old offering is retired first.
ListBenchesRetired(o) ==
    /\ at[o] = "list"
    /\ hub' = DeleteOffering(o)
    /\ job' = [job EXCEPT ![o].todo = hub.benches]
    /\ at' = [at EXCEPT ![o] = Onward(hub.benches)]
    /\ UNCHANGED <<stale, met, faults>>

\* listWorkbenchTenants.
ListBenches(o) ==
    /\ at[o] = "list"
    /\ Answered(o, [job[o] EXCEPT !.todo = hub.benches], Onward(hub.benches))

\* Mutant of swapDeclaredOffering: a name that is there twice is dropped twice.
SwapDroppingTwice(declared, from, to) == [k \in declared \ {from, to} |-> k]

\* The new offering in the place of the old one, and no more in a place of its
\* own: it is declared already, and the hub rejects a list that names one twice.
swapDeclaredOffering(declared, from, to) ==
    [k \in declared \ {to} |-> IF k = from THEN to ELSE k]

\* One bench of the loop: listChatAgents, then redeployWorkerForModelChange up to
\* its deployment.  Nothing is done for a bench without a worker, or when the old
\* offering is not declared; what is declared is the catalog, not what the worker
\* was deployed with.
Swap(o, b) ==
    LET left == job[o].todo \ {b} IN
    /\ at[o] = "swap"
    /\ b \in job[o].todo
    /\ IF hub.workers[b] = {} \/ job[o].old \notin Live
         THEN Answered(o, [job[o] EXCEPT !.todo = left], Onward(left))
         ELSE Answered(o, [job[o] EXCEPT
                             !.todo = left, !.bench = b,
                             !.chain = swapDeclaredOffering(Live, job[o].old, job[o].new)],
                       "redeploy")

\* deployWorkerSource, one request here.
Redeploy(o) ==
    /\ at[o] = "redeploy"
    /\ Answered(o, job[o],
                IF Deployable(job[o].chain) THEN Onward(job[o].todo) ELSE "refused")

\* deleteOwnOffering: the edit has succeeded, unless another retired it first.
RetireOffering(o) ==
    /\ at[o] = "retire"
    /\ Answered(o, job[o], IF job[o].old \in Live THEN "done" ELSE "refused")

(* Deployments of whatever offerings there are *)

\* createWorkbench, up to the tenant.
CreateBench(o, b) ==
    /\ at[o] = "idle"
    /\ b \notin hub.benches
    /\ Begin(o, [job[o] EXCEPT !.kind = "create", !.bench = b], "resolve")
    /\ hub' = [hub EXCEPT !.benches = @ \cup {b}]
    /\ UNCHANGED stale

\* redeployWorkbenchAgent, of a worker on a roster.
Restart(o, b) ==
    /\ at[o] = "idle"
    /\ hub.workers[b] # {}
    /\ Begin(o, [job[o] EXCEPT !.kind = "restart", !.bench = b], "resolve")
    /\ UNCHANGED <<hub, stale>>

\* resolveExistingOffering: every visible offering is a source.  With none, the
\* person is told to connect a provider.
Resolve(o) ==
    /\ at[o] = "resolve"
    /\ Answered(o, [job[o] EXCEPT !.chain = [k \in Live |-> k]],
                IF Live = {} THEN "broken" ELSE "deploy")

Deploy(o) ==
    /\ at[o] = "deploy"
    /\ Answered(o, job[o], IF Deployable(job[o].chain) THEN "done" ELSE "refused")

-----------------------------------------------------------------------------
\* A request fails, handled or not, or the tab is closed: then nothing is undone.
Break(o) ==
    /\ o \in Busy
    /\ faults < MaxFaults
    /\ faults' = faults + 1
    /\ hub' \in {hub, Effect(o)}
    /\ \E end \in {"broken"} \cup (IF at[o] = "offering" THEN {Undo(o, "broken")} ELSE {}) :
          at' = [at EXCEPT ![o] = end]
    /\ UNCHANGED <<job, stale, met>>

\* A new workspace, or one connected before with workers on some benches.
Hub0 ==
    {[provider |-> None, offerings |-> {}, benches |-> {},
      workers |-> [b \in Benches |-> {}]]} \cup
    {[provider |-> Earlier, offerings |-> {[id |-> Earlier, model |-> m]}, benches |-> B,
      workers |-> [b \in Benches |-> IF b \in B THEN {Earlier} ELSE {}]] :
     m \in Models, B \in SUBSET Benches}

Init ==
    /\ hub \in Hub0
    /\ at = [o \in Ops |-> "idle"]
    /\ job = [o \in Ops |-> [kind |-> "none", model |-> None, provider |-> None,
                             old |-> None, new |-> None, bench |-> None, todo |-> {},
                             chain |-> [k \in {} |-> Earlier]]]
    /\ stale = {} /\ met = {}
    /\ faults = 0

Next ==
    \E o \in Ops :
        \/ \E m \in Models : Connect(o, m) \/ SaveModel(o, m)
        \/ PrepareRows(o) \/ EnsureModelProvider(o) \/ EnsureOffering(o) \/ Rollback(o)
        \/ OpenDialog(o) \/ ListBenches(o) \/ Redeploy(o) \/ RetireOffering(o)
        \/ \E b \in Benches : Swap(o, b) \/ CreateBench(o, b) \/ Restart(o, b)
        \/ Resolve(o) \/ Deploy(o) \/ Break(o)

Spec == Init /\ [][Next]_vars

-----------------------------------------------------------------------------
(* Properties *)

\* The types of the variables.
TypeOK ==
    /\ hub \in Hubs
    /\ at \in [Ops -> Requests \cup Ends \cup {"idle", "open"}]
    /\ job \in [Ops -> Jobs]
    /\ stale \subseteq Ops
    /\ met \subseteq Ops \X Ops
    /\ faults \in 0..MaxFaults

Alone(o) == \A p \in Ops : <<o, p>> \notin met

\* The overlaps that the code does not withstand: a worker is deployed, or
\* another offering is being replaced, during an edit, and a connect that takes
\* back the provider it minted has not run alone.
Disturbed ==
    \E o, p \in Ops :
        /\ <<o, p>> \in met
        /\ \/ job[o].kind = "edit" /\ job[p].kind \in {"create", "restart"}
           \/ job[o].kind = "edit" /\ job[p].kind = "edit" /\ job[o].old # job[p].old
           \/ job[o].kind = "connect" /\ at[o] \in {"rollback", "undone", "broken"}

\* No worker is left pinned to an offering that is gone, since the allocation
\* service could not launch it again: an edit redeploys every worker before it
\* retires the old offering, whatever fails, however old the page it was saved
\* on, and with connects and edits of the same offering going on
\* (settings/credentials-section.tsx:217-235).
LivePins ==
    ~ Disturbed => \A b \in Benches : hub.workers[b] \subseteq Live

\* An edit that ran alone and succeeded leaves every worker on the new offering
\* and none on the old one (settings/worker-model-redeploy.ts:101-122).
EditServes ==
    [][\A o \in Ops :
          (at[o] = "retire" /\ at'[o] = "done" /\ Alone(o)) =>
             \A b \in Benches : hub'.workers[b] # {} =>
                job[o].new \in hub'.workers[b] /\ job[o].old \notin hub'.workers[b]]_vars

\* A catalog provider without an offering re-routes what inherits it: it is there
\* only while its own connect is under way, or when that connect could not undo
\* it (settings/inference/api.ts:263-308).
NoBareProvider ==
    (hub.provider \in Ops /\ hub.offerings = {} /\ ~ Disturbed) =>
        at[hub.provider] \in {"offering", "rollback", "broken"}

\* An operation that runs alone is refused nothing, whatever earlier ones left
\* half done: rows in conflict are looked up, an offering that is already
\* declared is not pinned twice.  An edit saved on an old page may find its
\* offering retired (settings/inference/api.ts:256-257).
RetrySucceeds ==
    \A o \in Ops \ stale : at[o] = "refused" => ~ Alone(o)

=============================================================================
