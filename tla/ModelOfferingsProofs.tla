------------------------ MODULE ModelOfferingsProofs ------------------------
(***************************************************************************)
(* Proofs about ModelOfferings, for any number of operations, models,      *)
(* benches and faults.                                                     *)
(***************************************************************************)
EXTENDS ModelOfferings, TLAPS

(* What holds whatever overlaps *)

Started(o)  == at[o] \notin {"idle", "open"}
Unminted(o) == at[o] \in {"idle", "open", "prepare", "provider", "offering"}
Moving(o)   == at[o] \in {"list", "swap", "redeploy", "retire"}

\* A connect and an edit ask for a model; an edit moves workers to an offering.
Named ==
    \A o \in Ops :
        /\ at[o] \in {"prepare", "provider", "offering"} => job[o].model \in Models
        /\ Moving(o) => job[o].new \in Ids

TypeInv == TypeOK /\ Named

\* An operation makes the requests of its kind.
Kinds ==
    \A o \in Ops :
        /\ at[o] \in {"open", "list", "swap", "redeploy", "retire"} => job[o].kind = "edit"
        /\ at[o] \in {"provider", "rollback", "undone"} => job[o].kind = "connect"
        /\ at[o] \in {"prepare", "offering"} => job[o].kind \in {"connect", "edit"}
        /\ at[o] \in {"resolve", "deploy"} => job[o].kind \in {"create", "restart"}

\* met is what its name says.
Meetings ==
    /\ \A o, p \in Ops : <<o, p>> \in met => Started(o) /\ Started(p) /\ <<p, o>> \in met
    /\ \A o, p \in Busy : o # p => <<o, p>> \in met

\* The hub's constraints
Rows ==
    /\ hub.provider = None => hub.offerings = {}
    /\ \A b \in Benches : hub.workers[b] # {} => b \in hub.benches
    /\ \A f, g \in hub.offerings : f.id = g.id \/ f.model = g.model => f = g
    /\ \A o \in Ops : at[o] \in {"redeploy", "resolve", "deploy"} => job[o].bench \in hub.benches

\* Ids are fresh: one that is gone does not come back.
Fresh == \A o \in Ops : Unminted(o) => o \notin Live /\ \A p \in Ops : job[p].old # o

\* A provider is there only while or after its connect.
Providers ==
    /\ hub.provider \in Ops =>
          /\ at[hub.provider] \in {"offering", "rollback", "done", "broken"}
          /\ job[hub.provider].kind = "connect"
          /\ at[hub.provider] # "broken" => job[hub.provider].provider = hub.provider
    /\ \A o \in Ops :
          /\ at[o] = "rollback" => job[o].provider = o
          /\ job[o].kind = "edit" \/ at[o] = "offering" => job[o].provider \in Ids

\* The offering an edit replaces has another model than the edit asks for, and
\* the provider the edit has read.
Olds ==
    \A o \in Ops : job[o].kind = "edit" =>
        /\ \A f \in hub.offerings : f.id = job[o].old =>
              IF at[o] = "open" THEN f.model = job[o].model
              ELSE Started(o) => f.model # job[o].model
        /\ job[o].old \in Live => job[o].provider = hub.provider
        /\ o \in stale => job[o].old \notin Live

Stales == \A o \in stale : Started(o) /\ job[o].kind = "edit"

\* An edit moves workers off the old offering only.
Moves ==
    \A o \in Ops : Moving(o) =>
        /\ job[o].new # job[o].old
        /\ at[o] = "retire" => job[o].todo = {}
        /\ at[o] = "redeploy" => job[o].old \notin Pins(job[o].chain)

CatalogInv ==
    TypeInv /\ Kinds /\ Meetings /\ Rows /\ Fresh /\ Providers /\ Olds /\ Stales /\ Moves

(* What holds as long as no overlap is of the kinds Disturbed names *)

NewLive == \A o \in Ops : Moving(o) => job[o].new \in Live

\* The workers still on the old offering are those the edit has yet to move.
OldLeft ==
    \A o \in Ops : at[o] \in {"swap", "redeploy", "retire"} =>
        \A b \in Benches : job[o].old \in hub.workers[b] =>
            b \in job[o].todo \/ (at[o] = "redeploy" /\ b = job[o].bench)

\* A connect that minted the provider alone has no worker to harm.
NoWorkers ==
    \A o \in Ops :
        (at[o] \in {"offering", "rollback"} /\ job[o].kind = "connect"
           /\ job[o].provider = o /\ Alone(o)) =>
             \A b \in Benches : hub.workers[b] = {}

AllLive == \A b \in Benches : hub.workers[b] \subseteq Live

PinInv == ~ Disturbed => NewLive /\ OldLeft /\ NoWorkers /\ AllLive

(* What an operation knows while it is alone *)

Steady(o) ==
    /\ at[o] = "offering" /\ job[o].kind = "connect" => job[o].provider = hub.provider
    /\ at[o] = "deploy" => Deployable(job[o].chain)
    /\ at[o] = "refused" => o \in stale
    /\ o \in Busy /\ job[o].kind = "edit" /\ o \notin stale =>
         /\ job[o].old \in Live
         /\ Moving(o) => job[o].new \in Live
         /\ at[o] = "redeploy" => Deployable(job[o].chain) /\ job[o].new \in Pins(job[o].chain)
         /\ at[o] \in {"swap", "redeploy", "retire"} =>
              \A b \in Benches : hub.workers[b] # {} =>
                 \/ b \in job[o].todo
                 \/ at[o] = "redeploy" /\ b = job[o].bench
                 \/ job[o].new \in hub.workers[b] /\ job[o].old \notin hub.workers[b]

AloneInv == \A o \in Ops : Alone(o) => Steady(o)

-----------------------------------------------------------------------------
(* Types *)

LEMMA ChainType ==
    ASSUME NEW S \in SUBSET Ids, NEW C, C \in [S -> Ids] PROVE C \in Chains
BY DEF Chains

LEMMA SwapType ==
    ASSUME NEW STATE S, S \in SUBSET Ids, NEW STATE to, to \in Ids, NEW STATE from
    PROVE  swapDeclaredOffering(S, from, to) \in Chains
<1>1. swapDeclaredOffering(S, from, to) \in [S \ {to} -> Ids]
  BY DEF swapDeclaredOffering
<1> QED
  BY <1>1, ChainType

LEMMA ListType == ASSUME NEW S \in SUBSET Ids PROVE [k \in S |-> k] \in Chains
<1>1. [k \in S |-> k] \in [S -> Ids]
  OBVIOUS
<1> QED
  BY <1>1, ChainType

LEMMA LiveType == ASSUME TypeOK PROVE Live \in SUBSET Ids
BY DEF TypeOK, Hubs, Live

LEMMA PinsType == ASSUME NEW C \in Chains PROVE Pins(C) \in SUBSET Ids
BY DEF Chains, Pins

LEMMA TypeInit == Init => TypeOK
<1> SUFFICES ASSUME Init PROVE TypeOK
  OBVIOUS
<1>1. hub \in Hubs
  BY DEF Init, Hub0, Hubs, Ids
<1>2. [k \in {} |-> Earlier] \in Chains
  <2>1. [k \in {} |-> Earlier] \in [{} -> Ids]
    OBVIOUS
  <2> QED
    BY <2>1 DEF Chains
<1>3. job \in [Ops -> Jobs]
  BY <1>2 DEF Init, Jobs
<1>4. at \in [Ops -> Requests \cup Ends \cup {"idle", "open"}]
  BY DEF Init
<1>5. stale \subseteq Ops /\ met \subseteq Ops \X Ops
  BY DEF Init
<1>6. faults \in 0..MaxFaults
  BY OfferingsAssumption DEF Init
<1> QED
  BY <1>1, <1>3, <1>4, <1>5, <1>6 DEF TypeOK

\* Whatever request is made, the hub keeps its type.
LEMMA EffectType == ASSUME TypeInv, NEW o \in Busy PROVE Effect(o) \in Hubs
<1>1. /\ o \in Ops /\ o \in Ids
      /\ hub \in Hubs /\ job[o] \in Jobs
  BY DEF Busy, TypeInv, TypeOK, Ids
<1>2. [hub EXCEPT !.provider = o] \in Hubs
  BY <1>1 DEF Hubs
<1>3. at[o] = "offering" => Mint(o) \in Hubs
  BY <1>1 DEF Hubs, Mint, TypeInv, Named
<1>4. DeleteProvider \in Hubs
  BY <1>1 DEF Hubs, DeleteProvider
<1>5. DeleteOffering(o) \in Hubs
  BY <1>1 DEF Hubs, DeleteOffering
<1>6. DeployWorker(o) \in Hubs
  <2>1. Pins(job[o].chain) \in SUBSET Ids
    BY <1>1, PinsType DEF Jobs
  <2> QED
    BY <1>1, <2>1 DEF Hubs, DeployWorker
<1> QED
  BY <1>1, <1>2, <1>3, <1>4, <1>5, <1>6 DEF Effect

\* One request of o has been answered, or has failed.
Acts(o) ==
    /\ o \in Busy
    /\ hub' \in {hub, Effect(o)}
    /\ \A p \in Ops : p # o => at'[p] = at[p] /\ job'[p] = job[p]
    /\ job'[o].kind = job[o].kind /\ job'[o].model = job[o].model /\ job'[o].old = job[o].old
    /\ at'[o] \in Requests \cup Ends
    /\ at' \in [Ops -> Requests \cup Ends \cup {"idle", "open"}]
    /\ job' \in [Ops -> Jobs]
    /\ faults' \in 0..MaxFaults
    /\ stale' = stale /\ met' = met

LEMMA AnsweredActs ==
    ASSUME TypeOK, NEW o \in Busy, NEW STATE known, NEW STATE next, known \in Jobs,
           known.kind = job[o].kind, known.model = job[o].model, known.old = job[o].old,
           next \in Requests \cup Ends, Answered(o, known, next)
    PROVE  Acts(o) /\ at'[o] = next /\ job'[o] = known /\ hub' = Effect(o)
BY DEF Answered, Acts, TypeOK, Busy

LEMMA PrepareActs == ASSUME TypeOK, NEW o \in Ops, PrepareRows(o) PROVE Acts(o) /\ job'[o] = job[o]
BY AnsweredActs DEF PrepareRows, TypeOK, Busy, Requests

LEMMA ProviderActs ==
    ASSUME TypeOK, NEW o \in Ops, EnsureModelProvider(o)
    PROVE  /\ Acts(o) /\ at'[o] = "offering" /\ hub' = Effect(o)
           /\ job'[o] = [job[o] EXCEPT !.provider = IF hub.provider = None THEN o ELSE hub.provider]
<1>1. job[o] \in Jobs /\ o \in Busy
  BY DEF EnsureModelProvider, TypeOK, Busy, Requests
<1>2. [job[o] EXCEPT !.provider = IF hub.provider = None THEN o ELSE hub.provider] \in Jobs
  BY <1>1 DEF Jobs, TypeOK, Hubs, Ids
<1> QED
  BY <1>1, <1>2, AnsweredActs DEF EnsureModelProvider, Jobs, Requests

LEMMA OfferingActs ==
    ASSUME TypeOK, NEW o \in Ops, EnsureOffering(o)
    PROVE  /\ Acts(o) /\ hub' = Effect(o)
           /\ \/ /\ job[o].provider # hub.provider
                 /\ at'[o] = Undo(o, "refused") /\ job'[o] = job[o]
              \/ /\ job[o].provider = hub.provider
                 /\ at'[o] = IF job[o].kind = "connect" THEN "done" ELSE "list"
                 /\ job'[o] = [job[o] EXCEPT !.new = job'[o].new]
                 /\ OfModel(o) = {} => job'[o].new = o
                 /\ OfModel(o) # {} => \E f \in OfModel(o) : job'[o].new = f.id
<1> DEFINE next == IF job[o].kind = "connect" THEN "done" ELSE "list"
<1>1. job[o] \in Jobs /\ o \in Busy /\ o \in Ids
  BY DEF EnsureOffering, TypeOK, Busy, Requests, Ids
<1>2. next \in Requests \cup Ends
  BY DEF Requests, Ends
<1>3. CASE job[o].provider # hub.provider /\ Answered(o, job[o], Undo(o, "refused"))
  <2>1. Undo(o, "refused") \in Requests \cup Ends
    BY DEF Undo, Requests, Ends
  <2> QED
    BY <1>1, <1>3, <2>1, AnsweredActs
<1>4. CASE /\ job[o].provider = hub.provider /\ OfModel(o) = {}
           /\ Answered(o, [job[o] EXCEPT !.new = o], next)
  <2> DEFINE known == [job[o] EXCEPT !.new = o]
  <2>1. known \in Jobs /\ known.kind = job[o].kind /\ known.model = job[o].model /\ known.old = job[o].old
    BY <1>1 DEF Jobs
  <2>2. Acts(o) /\ at'[o] = next /\ job'[o] = known /\ hub' = Effect(o)
    BY <1>1, <1>2, <1>4, <2>1, AnsweredActs
  <2>3. job'[o].new = o /\ job'[o] = [job[o] EXCEPT !.new = job'[o].new]
    BY <1>1, <2>2 DEF Jobs
  <2> QED
    BY <1>4, <2>2, <2>3
<1>5. ASSUME NEW f \in OfModel(o), job[o].provider = hub.provider,
             Answered(o, [job[o] EXCEPT !.new = f.id], next)
      PROVE  /\ Acts(o) /\ at'[o] = next /\ hub' = Effect(o)
             /\ job'[o] = [job[o] EXCEPT !.new = job'[o].new] /\ job'[o].new = f.id
  <2> DEFINE known == [job[o] EXCEPT !.new = f.id]
  <2>1. f.id \in Ids
    BY DEF OfModel, TypeOK, Hubs
  <2>2. known \in Jobs /\ known.kind = job[o].kind /\ known.model = job[o].model /\ known.old = job[o].old
    BY <1>1, <2>1 DEF Jobs
  <2>5. Answered(o, known, next)
    BY <1>5
  <2> HIDE DEF known, next
  <2>3. Acts(o) /\ at'[o] = next /\ job'[o] = known /\ hub' = Effect(o)
    BY <1>1, <1>2, <2>5, <2>2, AnsweredActs
  <2>4. job'[o].new = f.id /\ job'[o] = [job[o] EXCEPT !.new = job'[o].new]
    BY <1>1, <2>3 DEF Jobs, known
  <2> QED
    BY <2>3, <2>4
<1> QED
  BY <1>3, <1>4, <1>5 DEF EnsureOffering

LEMMA RollbackActs ==
    ASSUME TypeOK, NEW o \in Ops, Rollback(o)
    PROVE  Acts(o) /\ at'[o] = "undone" /\ job'[o] = job[o] /\ hub' = Effect(o)
BY AnsweredActs DEF Rollback, TypeOK, Busy, Requests, Ends

LEMMA ListActs ==
    ASSUME TypeOK, NEW o \in Ops, ListBenches(o)
    PROVE  /\ Acts(o) /\ at'[o] = Onward(hub.benches) /\ hub' = Effect(o)
           /\ job'[o] = [job[o] EXCEPT !.todo = hub.benches]
<1>1. job[o] \in Jobs /\ o \in Busy
  BY DEF ListBenches, TypeOK, Busy, Requests
<1>2. [job[o] EXCEPT !.todo = hub.benches] \in Jobs
  BY <1>1 DEF Jobs, TypeOK, Hubs
<1> QED
  BY <1>1, <1>2, AnsweredActs DEF ListBenches, Jobs, Requests, Onward

\* The two outcomes of Swap
LEMMA SwapActs ==
    ASSUME TypeInv, NEW o \in Ops, NEW b \in Benches, Swap(o, b)
    PROVE  LET left == job[o].todo \ {b} IN
           /\ Acts(o) /\ hub' = Effect(o)
           /\ IF hub.workers[b] = {} \/ job[o].old \notin Live
                THEN at'[o] = Onward(left) /\ job'[o] = [job[o] EXCEPT !.todo = left]
                ELSE /\ at'[o] = "redeploy"
                     /\ job'[o] = [job[o] EXCEPT
                           !.todo = left, !.bench = b,
                           !.chain = swapDeclaredOffering(Live, job[o].old, job[o].new)]
<1> DEFINE left == job[o].todo \ {b}
<1>1. job[o] \in Jobs /\ o \in Busy /\ TypeOK /\ job[o].new \in Ids
  BY DEF Swap, TypeInv, TypeOK, Busy, Requests, Named, Moving
<1>2. [job[o] EXCEPT !.todo = left] \in Jobs
  BY <1>1 DEF Jobs
<1>3. CASE hub.workers[b] = {} \/ job[o].old \notin Live
  BY <1>1, <1>2, <1>3, AnsweredActs DEF Swap, Jobs, Requests, Onward
<1>4. CASE ~ (hub.workers[b] = {} \/ job[o].old \notin Live)
  <2>1. swapDeclaredOffering(Live, job[o].old, job[o].new) \in Chains
    <3>1. Live \in SUBSET Ids
      BY <1>1, LiveType
    <3> QED
      BY <1>1, <3>1, SwapType
  <2> DEFINE known == [job[o] EXCEPT !.todo = left, !.bench = b,
                          !.chain = swapDeclaredOffering(Live, job[o].old, job[o].new)]
  <2>2. known \in Jobs /\ known.kind = job[o].kind /\ known.model = job[o].model /\ known.old = job[o].old
    BY <1>1, <2>1 DEF Jobs
  <2>3. Answered(o, known, "redeploy")
    BY <1>4 DEF Swap
  <2> QED
    BY <1>1, <1>4, <2>2, <2>3, AnsweredActs DEF Requests
<1> QED
  BY <1>3, <1>4

LEMMA RedeployActs ==
    ASSUME TypeOK, NEW o \in Ops, Redeploy(o)
    PROVE  /\ Acts(o) /\ job'[o] = job[o] /\ hub' = Effect(o)
           /\ at'[o] = IF Deployable(job[o].chain) THEN Onward(job[o].todo) ELSE "refused"
BY AnsweredActs DEF Redeploy, TypeOK, Busy, Requests, Ends, Onward

LEMMA RetireActs ==
    ASSUME TypeOK, NEW o \in Ops, RetireOffering(o)
    PROVE  /\ Acts(o) /\ job'[o] = job[o] /\ hub' = Effect(o)
           /\ at'[o] = IF job[o].old \in Live THEN "done" ELSE "refused"
BY AnsweredActs DEF RetireOffering, TypeOK, Busy, Requests, Ends

LEMMA ResolveActs ==
    ASSUME TypeOK, NEW o \in Ops, Resolve(o)
    PROVE  /\ Acts(o) /\ hub' = Effect(o)
           /\ at'[o] = IF Live = {} THEN "broken" ELSE "deploy"
           /\ job'[o] = [job[o] EXCEPT !.chain = [k \in Live |-> k]]
<1>1. job[o] \in Jobs /\ o \in Busy
  BY DEF Resolve, TypeOK, Busy, Requests
<1>2. [job[o] EXCEPT !.chain = [k \in Live |-> k]] \in Jobs
  BY <1>1, LiveType, ListType DEF Jobs
<1> QED
  BY <1>1, <1>2, AnsweredActs DEF Resolve, Jobs, Requests, Ends

LEMMA DeployActs ==
    ASSUME TypeOK, NEW o \in Ops, Deploy(o)
    PROVE  /\ Acts(o) /\ job'[o] = job[o] /\ hub' = Effect(o)
           /\ at'[o] = IF Deployable(job[o].chain) THEN "done" ELSE "refused"
BY AnsweredActs DEF Deploy, TypeOK, Busy, Requests, Ends

LEMMA BreakActs ==
    ASSUME TypeOK, NEW o \in Ops, Break(o)
    PROVE  /\ Acts(o) /\ job' = job
           /\ at'[o] = "broken" \/ (at[o] = "offering" /\ at'[o] = Undo(o, "broken"))
<1>1. Undo(o, "broken") \in {"broken", "rollback"}
  BY DEF Undo
<1> QED
  BY <1>1, OfferingsAssumption DEF Break, Acts, TypeOK, Busy, Requests, Ends

\* Operation o begins.
Starts(o) ==
    /\ o \in Ops /\ at[o] \in {"idle", "open"}
    /\ \A p \in Ops : p # o => at'[p] = at[p] /\ job'[p] = job[p]
    /\ at'[o] \in {"prepare", "resolve"}
    /\ job'[o].old = job[o].old /\ job'[o].provider = job[o].provider
    /\ at' \in [Ops -> Requests \cup Ends \cup {"idle", "open"}]
    /\ job' \in [Ops -> Jobs]
    /\ faults' = faults
    /\ met' = met \cup ({o} \X Busy) \cup (Busy \X {o})
    /\ hub' \in Hubs /\ hub.benches \subseteq hub'.benches
    /\ hub'.provider = hub.provider /\ hub'.offerings = hub.offerings /\ hub'.workers = hub.workers

LEMMA BeginStarts ==
    ASSUME TypeOK, NEW o \in Ops, at[o] \in {"idle", "open"}, NEW STATE known, known \in Jobs,
           known.old = job[o].old, known.provider = job[o].provider,
           NEW STATE first, first \in {"prepare", "resolve"}, Begin(o, known, first),
           hub' \in Hubs, hub.benches \subseteq hub'.benches,
           hub'.provider = hub.provider, hub'.offerings = hub.offerings, hub'.workers = hub.workers
    PROVE  Starts(o) /\ at'[o] = first /\ job'[o] = known
BY DEF Begin, Starts, TypeOK, Requests

LEMMA ConnectStarts ==
    ASSUME TypeOK, NEW o \in Ops, NEW m \in Models, Connect(o, m)
    PROVE  /\ Starts(o) /\ at[o] = "idle" /\ stale' = stale /\ at'[o] = "prepare"
           /\ job'[o].kind = "connect" /\ job'[o].model = m
<1> DEFINE known == [job[o] EXCEPT !.kind = "connect", !.model = m]
<1>1. known \in Jobs /\ known.old = job[o].old /\ known.provider = job[o].provider
      /\ known.kind = "connect" /\ known.model = m
  BY DEF TypeOK, Jobs
<1>2. Begin(o, known, "prepare") /\ at[o] = "idle" /\ hub' = hub /\ stale' = stale
  BY DEF Connect
<1> HIDE DEF known
<1> QED
  BY <1>1, <1>2, BeginStarts DEF TypeOK

LEMMA SaveStarts ==
    ASSUME TypeOK, NEW o \in Ops, NEW m \in Models, SaveModel(o, m)
    PROVE  /\ Starts(o) /\ at[o] = "open" /\ at'[o] = "prepare"
           /\ stale' = IF job[o].old \in Live THEN stale ELSE stale \cup {o}
           /\ job'[o].kind = job[o].kind /\ job'[o].model = m /\ m # job[o].model
<1> DEFINE known == [job[o] EXCEPT !.model = m]
<1>1. known \in Jobs /\ known.old = job[o].old /\ known.provider = job[o].provider
      /\ known.kind = job[o].kind /\ known.model = m
  BY DEF TypeOK, Jobs
<1>2. Begin(o, known, "prepare") /\ at[o] = "open" /\ hub' = hub
  BY DEF SaveModel
<1> HIDE DEF known
<1>3. Starts(o) /\ at'[o] = "prepare" /\ job'[o] = known
  BY <1>1, <1>2, BeginStarts DEF TypeOK
<1> QED
  BY <1>1, <1>2, <1>3 DEF SaveModel

LEMMA CreateStarts ==
    ASSUME TypeOK, NEW o \in Ops, NEW b \in Benches, CreateBench(o, b)
    PROVE  /\ Starts(o) /\ at[o] = "idle" /\ stale' = stale /\ at'[o] = "resolve"
           /\ job'[o].kind = "create" /\ job'[o].bench \in hub'.benches
<1> DEFINE known == [job[o] EXCEPT !.kind = "create", !.bench = b]
<1>1. known \in Jobs /\ known.old = job[o].old /\ known.provider = job[o].provider
      /\ known.kind = "create" /\ known.bench = b
  BY DEF TypeOK, Jobs
<1>2. Begin(o, known, "resolve") /\ at[o] = "idle" /\ stale' = stale
  BY DEF CreateBench
<1>3. /\ hub' \in Hubs /\ hub.benches \subseteq hub'.benches /\ b \in hub'.benches
      /\ hub'.provider = hub.provider /\ hub'.offerings = hub.offerings /\ hub'.workers = hub.workers
  BY DEF CreateBench, TypeOK, Hubs
<1> HIDE DEF known
<1> QED
  BY <1>1, <1>2, <1>3, BeginStarts

LEMMA RestartStarts ==
    ASSUME TypeOK, NEW o \in Ops, NEW b \in Benches, Restart(o, b)
    PROVE  /\ Starts(o) /\ at[o] = "idle" /\ stale' = stale /\ at'[o] = "resolve"
           /\ job'[o].kind = "restart" /\ job'[o].bench = b /\ hub.workers[b] # {}
<1> DEFINE known == [job[o] EXCEPT !.kind = "restart", !.bench = b]
<1>1. known \in Jobs /\ known.old = job[o].old /\ known.provider = job[o].provider
      /\ known.kind = "restart" /\ known.bench = b
  BY DEF TypeOK, Jobs
<1>2. Begin(o, known, "resolve") /\ at[o] = "idle" /\ stale' = stale /\ hub' = hub /\ hub.workers[b] # {}
  BY DEF Restart
<1> HIDE DEF known
<1> QED
  BY <1>1, <1>2, BeginStarts DEF TypeOK

\* A dialog is opened.
Opens(o) ==
    /\ o \in Ops /\ at[o] = "idle" /\ at'[o] = "open"
    /\ \A p \in Ops : p # o => at'[p] = at[p] /\ job'[p] = job[p]
    /\ job'[o].kind = "edit" /\ job'[o].provider = hub.provider
    /\ \E f \in hub.offerings : job'[o].old = f.id /\ job'[o].model = f.model
    /\ at' \in [Ops -> Requests \cup Ends \cup {"idle", "open"}]
    /\ job' \in [Ops -> Jobs]
    /\ UNCHANGED <<hub, stale, met, faults>>

LEMMA DialogOpens == ASSUME TypeOK, NEW o \in Ops, OpenDialog(o) PROVE Opens(o)
<1> PICK f \in hub.offerings :
          job' = [job EXCEPT ![o] = [job[o] EXCEPT !.kind = "edit", !.old = f.id,
                                        !.model = f.model, !.provider = hub.provider]]
  BY DEF OpenDialog
<1>1. f.id \in Ids /\ f.model \in Models /\ hub.provider \in Ids \cup {None} /\ job[o] \in Jobs
  BY DEF TypeOK, Hubs
<1> DEFINE known == [job[o] EXCEPT !.kind = "edit", !.old = f.id, !.model = f.model,
                        !.provider = hub.provider]
<1>2. known \in Jobs /\ known.kind = "edit" /\ known.old = f.id /\ known.model = f.model
      /\ known.provider = hub.provider
  BY <1>1 DEF Jobs
<1>3. job' = [job EXCEPT ![o] = known]
  OBVIOUS
<1> HIDE DEF known
<1> QED
  BY <1>2, <1>3 DEF OpenDialog, Opens, TypeOK

\* The answer to a request, or its failure
Acting(o) ==
    \/ PrepareRows(o) \/ EnsureModelProvider(o) \/ EnsureOffering(o) \/ Rollback(o)
    \/ ListBenches(o) \/ Redeploy(o) \/ RetireOffering(o)
    \/ \E b \in Benches : Swap(o, b)
    \/ Resolve(o) \/ Deploy(o) \/ Break(o)

\* What becomes of the operation
Progress(o) ==
    \/ /\ hub' = Effect(o)
       /\ \/ /\ at[o] = "prepare" /\ job'[o] = job[o]
             /\ at'[o] = IF job[o].kind = "connect" THEN "provider" ELSE "offering"
          \/ /\ at[o] = "provider" /\ at'[o] = "offering"
             /\ job'[o] = [job[o] EXCEPT !.provider = IF hub.provider = None THEN o ELSE hub.provider]
          \/ /\ at[o] = "offering" /\ job[o].provider # hub.provider
             /\ at'[o] = Undo(o, "refused") /\ job'[o] = job[o]
          \/ /\ at[o] = "offering" /\ job[o].provider = hub.provider
             /\ at'[o] = IF job[o].kind = "connect" THEN "done" ELSE "list"
             /\ job'[o] = [job[o] EXCEPT !.new = job'[o].new]
             /\ OfModel(o) = {} => job'[o].new = o
             /\ OfModel(o) # {} => \E f \in OfModel(o) : job'[o].new = f.id
          \/ at[o] = "rollback" /\ at'[o] = "undone" /\ job'[o] = job[o]
          \/ /\ at[o] = "list" /\ at'[o] = Onward(hub.benches)
             /\ job'[o] = [job[o] EXCEPT !.todo = hub.benches]
          \/ \E b \in job[o].todo :
                /\ at[o] = "swap" /\ (hub.workers[b] = {} \/ job[o].old \notin Live)
                /\ at'[o] = Onward(job[o].todo \ {b})
                /\ job'[o] = [job[o] EXCEPT !.todo = job[o].todo \ {b}]
          \/ \E b \in job[o].todo :
                /\ at[o] = "swap" /\ hub.workers[b] # {} /\ job[o].old \in Live
                /\ at'[o] = "redeploy"
                /\ job'[o] = [job[o] EXCEPT !.todo = job[o].todo \ {b}, !.bench = b,
                                 !.chain = swapDeclaredOffering(Live, job[o].old, job[o].new)]
          \/ /\ at[o] = "redeploy" /\ job'[o] = job[o]
             /\ at'[o] = IF Deployable(job[o].chain) THEN Onward(job[o].todo) ELSE "refused"
          \/ /\ at[o] = "retire" /\ job'[o] = job[o]
             /\ at'[o] = IF job[o].old \in Live THEN "done" ELSE "refused"
          \/ /\ at[o] = "resolve" /\ job'[o] = [job[o] EXCEPT !.chain = [k \in Live |-> k]]
             /\ at'[o] = IF Live = {} THEN "broken" ELSE "deploy"
          \/ /\ at[o] = "deploy" /\ job'[o] = job[o]
             /\ at'[o] = IF Deployable(job[o].chain) THEN "done" ELSE "refused"
    \/ /\ job'[o] = job[o]
       /\ at'[o] = "broken" \/ (at[o] = "offering" /\ at'[o] = Undo(o, "broken"))

LEMMA Progresses == ASSUME TypeInv, NEW o \in Ops, Acting(o) PROVE Acts(o) /\ Progress(o)
<1> TypeOK
  BY DEF TypeInv
<1>1. CASE PrepareRows(o)
  BY <1>1, PrepareActs, AnsweredActs DEF Progress, PrepareRows, TypeOK, Busy, Requests
<1>2. CASE EnsureModelProvider(o)
  BY <1>2, ProviderActs DEF Progress, EnsureModelProvider
<1>3. CASE EnsureOffering(o)
  BY <1>3, OfferingActs DEF Progress, EnsureOffering
<1>4. CASE Rollback(o)
  BY <1>4, RollbackActs DEF Progress, Rollback
<1>5. CASE ListBenches(o)
  BY <1>5, ListActs DEF Progress, ListBenches
<1>6. CASE Redeploy(o)
  BY <1>6, RedeployActs DEF Progress, Redeploy
<1>7. CASE RetireOffering(o)
  BY <1>7, RetireActs DEF Progress, RetireOffering
<1>8. ASSUME NEW b \in Benches, Swap(o, b) PROVE Acts(o) /\ Progress(o)
  <2>1. at[o] = "swap" /\ b \in job[o].todo
    BY <1>8 DEF Swap
  <2> QED
    BY <1>8, <2>1, SwapActs DEF Progress
<1>9. CASE Resolve(o)
  BY <1>9, ResolveActs DEF Progress, Resolve
<1>10. CASE Deploy(o)
  BY <1>10, DeployActs DEF Progress, Deploy
<1>11. CASE Break(o)
  BY <1>11, BreakActs DEF Progress
<1> QED
  BY <1>1, <1>2, <1>3, <1>4, <1>5, <1>6, <1>7, <1>8, <1>9, <1>10, <1>11 DEF Acting

\* How an operation begins
Begun(o) ==
    /\ Starts(o)
    /\ \/ /\ at[o] = "idle" /\ at'[o] = "prepare" /\ stale' = stale
          /\ job'[o].kind = "connect" /\ job'[o].model \in Models
       \/ /\ at[o] = "idle" /\ at'[o] = "resolve" /\ stale' = stale
          /\ job'[o].kind \in {"create", "restart"}
          /\ \/ job'[o].bench \in hub'.benches
             \/ job'[o].bench \in Benches /\ hub.workers[job'[o].bench] # {}
       \/ /\ at[o] = "open" /\ at'[o] = "prepare"
          /\ stale' = IF job[o].old \in Live THEN stale ELSE stale \cup {o}
          /\ job'[o].kind = job[o].kind /\ job'[o].model \in Models /\ job'[o].model # job[o].model

LEMMA Cases ==
    ASSUME TypeInv, [Next]_vars
    PROVE  \/ UNCHANGED vars
           \/ \E o \in Ops : Opens(o) \/ Begun(o) \/ (Acts(o) /\ Progress(o))
<1> SUFFICES ASSUME Next PROVE \E o \in Ops : Opens(o) \/ Begun(o) \/ (Acts(o) /\ Progress(o))
  OBVIOUS
<1> PICK o \in Ops :
        \/ \E m \in Models : Connect(o, m) \/ SaveModel(o, m)
        \/ OpenDialog(o)
        \/ \E b \in Benches : CreateBench(o, b) \/ Restart(o, b)
        \/ Acting(o)
  BY DEF Next, Acting
<1> TypeOK
  BY DEF TypeInv
<1>1. ASSUME NEW m \in Models, Connect(o, m) PROVE Begun(o)
  BY <1>1, ConnectStarts DEF Begun
<1>2. ASSUME NEW m \in Models, SaveModel(o, m) PROVE Begun(o)
  BY <1>2, SaveStarts DEF Begun
<1>3. ASSUME NEW b \in Benches, CreateBench(o, b) PROVE Begun(o)
  BY <1>3, CreateStarts DEF Begun
<1>4. ASSUME NEW b \in Benches, Restart(o, b) PROVE Begun(o)
  BY <1>4, RestartStarts DEF Begun
<1> QED
  BY <1>1, <1>2, <1>3, <1>4, DialogOpens, Progresses

LEMMA TypeStep == ASSUME TypeInv, [Next]_vars PROVE TypeInv'
<1>1. CASE UNCHANGED vars
  BY <1>1 DEF vars, TypeInv, TypeOK, Named, Moving
<1>2. ASSUME NEW o \in Ops, Acts(o), Progress(o) PROVE TypeInv'
  <2>2. hub' \in Hubs
    BY <1>2, EffectType DEF Acts, TypeInv, TypeOK
  <2>3. TypeOK'
    BY <1>2, <2>2 DEF Acts, TypeInv, TypeOK
  <2>4. at'[o] \in {"prepare", "provider", "offering"} => job'[o].model \in Models
    BY <1>2 DEF Acts, Progress, Onward, Undo, TypeInv, Named
  <2>5. Moving(o)' => job'[o].new \in Ids
    <3>1. job[o] \in Jobs /\ \A f \in OfModel(o) : f.id \in Ids
      BY DEF TypeInv, TypeOK, OfModel, Hubs
    <3> QED
      BY <1>2, <3>1 DEF Progress, Onward, Undo, TypeInv, Named, Moving, Jobs, Ids
  <2> QED
    BY <1>2, <2>3, <2>4, <2>5 DEF Acts, TypeInv, Named, Moving
<1>3. ASSUME NEW o \in Ops, Begun(o) PROVE TypeInv'
  <2>1. TypeOK'
    <3>1. met' \subseteq Ops \X Ops
      BY <1>3 DEF Begun, Starts, TypeInv, TypeOK, Busy
    <3>2. stale' \subseteq Ops
      BY <1>3 DEF Begun, TypeInv, TypeOK
    <3> QED
      BY <1>3, <3>1, <3>2 DEF Begun, Starts, TypeInv, TypeOK
  <2>2. Named'
    BY <1>3 DEF Begun, Starts, TypeInv, Named, Moving
  <2> QED
    BY <2>1, <2>2 DEF TypeInv
<1>4. ASSUME NEW o \in Ops, Opens(o) PROVE TypeInv'
  BY <1>4 DEF Opens, TypeInv, TypeOK, Named, Moving
<1> QED
  BY <1>1, <1>2, <1>3, <1>4, Cases

-----------------------------------------------------------------------------
(* What the hub does, field by field *)

HubMove(o) ==
    \/ UNCHANGED hub
    \/ /\ at[o] = "provider" /\ hub.provider = None
       /\ hub'.provider = o /\ hub'.offerings = hub.offerings
       /\ hub'.workers = hub.workers /\ hub'.benches = hub.benches
    \/ /\ at[o] = "offering" /\ job[o].provider = hub.provider /\ OfModel(o) = {}
       /\ hub'.provider = hub.provider
       /\ hub'.offerings = hub.offerings \cup {[id |-> o, model |-> job[o].model]}
       /\ hub'.workers = hub.workers /\ hub'.benches = hub.benches
    \/ /\ at[o] = "rollback" /\ job[o].provider = hub.provider
       /\ hub'.provider = None /\ hub'.offerings = {}
       /\ hub'.workers = hub.workers /\ hub'.benches = hub.benches
    \/ /\ at[o] \in {"redeploy", "deploy"} /\ Deployable(job[o].chain)
       /\ hub'.provider = hub.provider /\ hub'.offerings = hub.offerings
       /\ hub'.workers = [hub.workers EXCEPT ![job[o].bench] = Pins(job[o].chain)]
       /\ hub'.benches = hub.benches
    \/ /\ at[o] = "retire"
       /\ hub'.provider = hub.provider
       /\ hub'.offerings = {f \in hub.offerings : f.id # job[o].old}
       /\ hub'.workers = hub.workers /\ hub'.benches = hub.benches

LEMMA HubMoves == ASSUME TypeOK, NEW o \in Ops, Acts(o) PROVE HubMove(o)
<1>1. CASE hub' = hub
  BY <1>1 DEF HubMove
<1>2. CASE hub' = Effect(o)
  <2> hub \in Hubs
    BY DEF TypeOK
  <2>1. CASE at[o] = "provider" /\ hub.provider = None
    BY <1>2, <2>1 DEF Effect, HubMove, Hubs
  <2>2. CASE at[o] = "offering" /\ job[o].provider = hub.provider /\ OfModel(o) = {}
    BY <1>2, <2>2 DEF Effect, HubMove, Hubs, Mint
  <2>3. CASE at[o] = "rollback" /\ job[o].provider = hub.provider
    BY <1>2, <2>3 DEF Effect, HubMove, Hubs, DeleteProvider
  <2>4. CASE at[o] \in {"redeploy", "deploy"} /\ Deployable(job[o].chain)
    BY <1>2, <2>4 DEF Effect, HubMove, Hubs, DeployWorker
  <2>5. CASE at[o] = "retire"
    BY <1>2, <2>5 DEF Effect, HubMove, Hubs, DeleteOffering
  <2> QED
    BY <1>2, <2>1, <2>2, <2>3, <2>4, <2>5 DEF Effect, HubMove
<1> QED
  BY <1>1, <1>2 DEF Acts

\* The offerings that are there afterwards
LEMMA LiveMoves ==
    ASSUME TypeOK, NEW o \in Ops, HubMove(o)
    PROVE  \/ Live' = Live
           \/ at[o] = "offering" /\ job[o].provider = hub.provider /\ Live' = Live \cup {o}
           \/ at[o] = "rollback" /\ job[o].provider = hub.provider /\ Live' = {}
           \/ at[o] = "retire" /\ Live' = Live \ {job[o].old}
BY DEF HubMove, Live

-----------------------------------------------------------------------------
(* The catalog, whatever overlaps *)

LEMMA KindsStep == ASSUME TypeInv, Kinds, [Next]_vars PROVE Kinds'
<1>1. CASE UNCHANGED vars
  BY <1>1 DEF vars, Kinds
<1>2. ASSUME NEW o \in Ops, Acts(o), Progress(o) PROVE Kinds'
  BY <1>2 DEF Acts, Progress, Kinds, Onward, Undo
<1>3. ASSUME NEW o \in Ops, Begun(o) PROVE Kinds'
  BY <1>3 DEF Begun, Starts, Kinds
<1>4. ASSUME NEW o \in Ops, Opens(o) PROVE Kinds'
  BY <1>4 DEF Opens, Kinds
<1> QED
  BY <1>1, <1>2, <1>3, <1>4, Cases

LEMMA BusyStarted == ASSUME NEW o \in Busy PROVE o \in Ops /\ Started(o)
BY DEF Busy, Started, Requests

LEMMA MeetingsStep == ASSUME TypeInv, Meetings, [Next]_vars PROVE Meetings'
<1>1. CASE UNCHANGED vars
  BY <1>1 DEF vars, Meetings, Started, Busy
<1>2. ASSUME NEW o \in Ops, Acts(o), Progress(o) PROVE Meetings'
  <2>1. Busy' \subseteq Busy
    BY <1>2 DEF Acts, Busy
  <2>2. \A p \in Ops : Started(p) => Started(p)'
    BY <1>2 DEF Acts, Started, Requests, Ends
  <2> QED
    BY <1>2, <2>1, <2>2 DEF Acts, Meetings
<1>3. ASSUME NEW o \in Ops, Begun(o) PROVE Meetings'
  <2>1. Busy' \subseteq Busy \cup {o} /\ o \notin Busy
    BY <1>3 DEF Begun, Starts, Busy, Requests
  <2>2. Started(o)' /\ \A p \in Ops : Started(p) => Started(p)'
    BY <1>3 DEF Begun, Starts, Started
  <2>3. met' = met \cup ({o} \X Busy) \cup (Busy \X {o})
    BY <1>3 DEF Begun, Starts
  <2> QED
    BY <2>1, <2>2, <2>3, BusyStarted DEF Meetings
<1>4. ASSUME NEW o \in Ops, Opens(o) PROVE Meetings'
  <2>1. Busy' = Busy
    BY <1>4 DEF Opens, Busy, Requests
  <2>2. \A p \in Ops : Started(p) => Started(p)'
    BY <1>4 DEF Opens, Started
  <2> QED
    BY <1>4, <2>1, <2>2 DEF Opens, Meetings
<1> QED
  BY <1>1, <1>2, <1>3, <1>4, Cases

LEMMA RowsStep == ASSUME TypeInv, Rows, Fresh, Providers, [Next]_vars PROVE Rows'
<1>1. CASE UNCHANGED vars
  BY <1>1 DEF vars, Rows
<1>2. ASSUME NEW o \in Ops, Acts(o), Progress(o) PROVE Rows'
  <2> hub \in Hubs /\ job[o] \in Jobs /\ TypeOK
    BY DEF TypeInv, TypeOK
  <2>1. HubMove(o)
    BY <1>2, HubMoves
  <2>2. hub'.provider = None => hub'.offerings = {}
    BY <2>1, OfferingsAssumption DEF HubMove, Rows, Providers, Ids
  <2>3. \A b \in Benches : hub'.workers[b] # {} => b \in hub'.benches
    BY <2>1 DEF HubMove, Rows, Hubs
  <2>4. \A f, g \in hub'.offerings : f.id = g.id \/ f.model = g.model => f = g
    BY <2>1 DEF HubMove, Rows, Fresh, Unminted, Live, OfModel
  <2>5. hub'.benches = hub.benches
    BY <2>1 DEF HubMove
  <2>6. at'[o] \in {"redeploy", "resolve", "deploy"} => job'[o].bench \in hub'.benches
    BY <1>2, <2>5 DEF Progress, Rows, Jobs, Onward, Undo
  <2> QED
    BY <1>2, <2>2, <2>3, <2>4, <2>5, <2>6 DEF Acts, Rows
<1>3. ASSUME NEW o \in Ops, Begun(o) PROVE Rows'
  BY <1>3 DEF Begun, Starts, Rows
<1>4. ASSUME NEW o \in Ops, Opens(o) PROVE Rows'
  BY <1>4 DEF Opens, Rows
<1> QED
  BY <1>1, <1>2, <1>3, <1>4, Cases

LEMMA FreshStep == ASSUME TypeInv, Fresh, [Next]_vars PROVE Fresh'
<1>1. CASE UNCHANGED vars
  BY <1>1 DEF vars, Fresh, Unminted, Live
<1>2. ASSUME NEW o \in Ops, Acts(o), Progress(o) PROVE Fresh'
  <2>1. HubMove(o)
    BY <1>2, HubMoves DEF TypeInv
  <2>2. Live' \subseteq Live \/ (at[o] = "offering" /\ Live' = Live \cup {o})
    BY <2>1, LiveMoves DEF TypeInv
  <2>3. Unminted(o)' => at[o] \in {"prepare", "provider"}
    BY <1>2 DEF Progress, Unminted, Onward, Undo
  <2>4. ASSUME NEW p \in Ops, Unminted(p)' PROVE p \notin Live' /\ Unminted(p)
    BY <1>2, <2>2, <2>3, <2>4 DEF Acts, Fresh, Unminted
  <2> QED
    BY <1>2, <2>4 DEF Acts, Fresh
<1>3. ASSUME NEW o \in Ops, Begun(o) PROVE Fresh'
  <2>1. Live' = Live
    BY <1>3 DEF Begun, Starts, Live
  <2>2. \A p \in Ops : job'[p].old = job[p].old /\ (Unminted(p)' => Unminted(p))
    BY <1>3 DEF Begun, Starts, Unminted
  <2> QED
    BY <2>1, <2>2 DEF Fresh
<1>4. ASSUME NEW o \in Ops, Opens(o) PROVE Fresh'
  <2>1. Live' = Live /\ job'[o].old \in Live
    BY <1>4 DEF Opens, Live
  <2>2. \A p \in Ops : Unminted(p)' => Unminted(p)
    BY <1>4 DEF Opens, Unminted
  <2> QED
    BY <1>4, <2>1, <2>2 DEF Fresh, Opens
<1> QED
  BY <1>1, <1>2, <1>3, <1>4, Cases

LEMMA ProvidersStep == ASSUME TypeInv, Kinds, Providers, Rows, [Next]_vars PROVE Providers'
<1>1. CASE UNCHANGED vars
  BY <1>1 DEF vars, Providers
<1>2. ASSUME NEW o \in Ops, Acts(o), Progress(o) PROVE Providers'
  <2> hub \in Hubs /\ job[o] \in Jobs /\ TypeOK
    BY DEF TypeInv, TypeOK
  <2>1. HubMove(o)
    BY <1>2, HubMoves
  <2>2. at'[o] = "rollback" => job'[o].provider = o
    BY <1>2 DEF Progress, Onward, Undo, Providers
  <2>3. job'[o].kind = "edit" \/ at'[o] = "offering" => job'[o].provider \in Ids
    <3>1. job'[o].provider = job[o].provider \/ (at[o] = "provider" /\ job'[o].provider \in Ids)
      BY <1>2 DEF Progress, Jobs, Hubs, Ids
    <3>2. at'[o] = "offering" => at[o] = "provider" \/ (at[o] = "prepare" /\ job[o].kind # "connect")
      BY <1>2 DEF Progress, Undo, Onward
    <3>3. at[o] = "provider" /\ at'[o] = "offering" => job'[o].provider \in Ids
      <4>1. at[o] = "provider" /\ at'[o] = "offering" =>
               job'[o] = [job[o] EXCEPT !.provider = IF hub.provider = None THEN o ELSE hub.provider]
        BY <1>2 DEF Progress
      <4> QED
        BY <4>1 DEF Jobs, Hubs, Ids
    <3> QED
      BY <1>2, <3>1, <3>2, <3>3 DEF Acts, Providers, Kinds
  <2>4. hub'.provider \in {hub.provider, None} \/ (hub'.provider = o /\ at[o] = "provider")
    BY <2>1 DEF HubMove
  <2>7. hub'.provider = o => job[o].kind = "connect"
    BY <2>4, OfferingsAssumption DEF Providers, Kinds
  <2>5. ASSUME hub'.provider = o, hub.provider = o
        PROVE  at'[o] \in {"offering", "rollback", "done", "broken"} /\ (at'[o] # "broken" => job'[o].provider = o)
    <3>1. at[o] \in {"offering", "rollback"} /\ job[o].provider = o
      BY <1>2, <2>5 DEF Acts, Busy, Requests, Providers
    <3>2. CASE at[o] = "offering"
      <4>1. at'[o] \in {"done", "broken", "rollback"} /\ job'[o].provider = o
        BY <1>2, <2>5, <3>1, <3>2, <2>7 DEF Progress, Providers, Undo, Jobs
      <4> QED
        BY <4>1
    <3>3. CASE at[o] = "rollback"
      <4>1. hub' # Effect(o)
        BY <2>5, <3>1, <3>3, OfferingsAssumption DEF Effect, DeleteProvider, Hubs
      <4> QED
        BY <1>2, <3>3, <4>1 DEF Progress
    <3> QED
      BY <3>1, <3>2, <3>3
  <2>6. ASSUME hub'.provider = o, at[o] = "provider"
        PROVE  at'[o] \in {"offering", "broken"} /\ (at'[o] # "broken" => job'[o].provider = o)
    BY <1>2, <2>1, <2>6, OfferingsAssumption DEF HubMove, Progress, Providers, Jobs
  <2> QED
    BY <1>2, <2>2, <2>3, <2>4, <2>5, <2>6, <2>7, OfferingsAssumption DEF Acts, Providers
<1>3. ASSUME NEW o \in Ops, Begun(o) PROVE Providers'
  BY <1>3 DEF Begun, Starts, Providers, Kinds
<1>4. ASSUME NEW o \in Ops, Opens(o) PROVE Providers'
  BY <1>4 DEF Opens, Providers, Rows, TypeInv, TypeOK, Hubs
<1> QED
  BY <1>1, <1>2, <1>3, <1>4, Cases

LEMMA OldsStep ==
    ASSUME TypeInv, Kinds, Rows, Fresh, Olds, Stales, [Next]_vars PROVE Olds'
<1>1. CASE UNCHANGED vars
  BY <1>1 DEF vars, Olds, Live, Started
<1>2. ASSUME NEW o \in Ops, Acts(o), Progress(o) PROVE Olds'
  <2> TypeOK /\ job[o] \in Jobs /\ hub \in Hubs
    BY DEF TypeInv, TypeOK
  <2>1. HubMove(o)
    BY <1>2, HubMoves
  <2>2. /\ \A f \in hub'.offerings : f \in hub.offerings \/ (at[o] = "offering" /\ f.id = o)
        /\ \A i \in Live' : i \in Live \/ (at[o] = "offering" /\ i = o)
    BY <2>1 DEF HubMove, Live
  <2>3. \/ hub'.provider = hub.provider
        \/ hub.provider = None /\ Live = {} /\ Live' = {}
        \/ Live' = {}
    BY <2>1 DEF HubMove, Live, Rows
  <2>4. \A p \in Ops : /\ job'[p].kind = job[p].kind /\ job'[p].model = job[p].model
                       /\ job'[p].old = job[p].old
                       /\ at'[p] = "open" <=> at[p] = "open"
                       /\ Started(p)' <=> Started(p)
    BY <1>2 DEF Acts, Busy, Requests, Ends, Started
  <2>5. \A p \in Ops : job[p].kind = "edit" => job'[p].provider = job[p].provider
    <3>1. at[o] # "provider" => job'[o].provider = job[o].provider
      BY <1>2 DEF Progress, Jobs
    <3> QED
      BY <1>2, <3>1 DEF Acts, Kinds
  <2>6. at[o] = "offering" => \A p \in Ops : job[p].old # o
    BY DEF Fresh, Unminted
  <2>7. ASSUME NEW p \in Ops, job[p].kind = "edit", job[p].old \in Live'
        PROVE  job[p].old \in Live /\ job'[p].provider = hub'.provider
    BY <2>2, <2>3, <2>5, <2>6, <2>7 DEF Olds
  <2>8. ASSUME NEW p \in Ops, job[p].kind = "edit", NEW f \in hub'.offerings, f.id = job[p].old
        PROVE  IF at[p] = "open" THEN f.model = job[p].model ELSE Started(p) => f.model # job[p].model
    BY <2>2, <2>6, <2>8 DEF Olds
  <2>9. stale' = stale
    BY <1>2 DEF Acts
  <2> QED
    BY <2>4, <2>7, <2>8, <2>9 DEF Olds
<1>3. ASSUME NEW o \in Ops, Begun(o) PROVE Olds'
  <2>1. hub'.offerings = hub.offerings /\ Live' = Live /\ hub'.provider = hub.provider
    BY <1>3 DEF Begun, Starts, Live
  <2>2. \A p \in Ops : /\ p # o => at'[p] = at[p] /\ job'[p] = job[p]
                       /\ p # o => (p \in stale' <=> p \in stale)
    BY <1>3 DEF Begun, Starts
  <2>3. CASE at[o] = "open" /\ at'[o] = "prepare"
    <3>1. /\ stale' = IF job[o].old \in Live THEN stale ELSE stale \cup {o}
          /\ job'[o].model # job[o].model /\ job'[o].kind = job[o].kind
          /\ job'[o].old = job[o].old /\ job'[o].provider = job[o].provider
      BY <1>3, <2>3 DEF Begun, Starts
    <3>2. o \notin stale
      BY <2>3 DEF Stales, Started
    <3> QED
      BY <2>1, <2>2, <2>3, <3>1, <3>2 DEF Olds, Started
  <2>4. CASE job'[o].kind # "edit"
    BY <2>1, <2>2, <2>4 DEF Olds, Started
  <2> QED
    BY <1>3, <2>3, <2>4 DEF Begun
<1>4. ASSUME NEW o \in Ops, Opens(o) PROVE Olds'
  <2>1. Live' = Live /\ hub' = hub /\ stale' = stale
    BY <1>4 DEF Opens, Live
  <2>2. o \notin stale
    BY <1>4 DEF Opens, Stales, Started
  <2>3. \A f \in hub.offerings : f.id = job'[o].old => f.model = job'[o].model
    BY <1>4 DEF Opens, Rows
  <2> QED
    BY <1>4, <2>1, <2>2, <2>3 DEF Opens, Olds, Started
<1> QED
  BY <1>1, <1>2, <1>3, <1>4, Cases

LEMMA StalesStep == ASSUME TypeInv, Kinds, Stales, [Next]_vars PROVE Stales'
<1>1. CASE UNCHANGED vars
  BY <1>1 DEF vars, Stales, Started
<1>2. ASSUME NEW o \in Ops, Acts(o), Progress(o) PROVE Stales'
  BY <1>2 DEF Acts, Stales, Started, Requests, Ends, TypeInv, TypeOK
<1>3. ASSUME NEW o \in Ops, Begun(o) PROVE Stales'
  BY <1>3 DEF Begun, Starts, Stales, Started, Kinds, TypeInv, TypeOK
<1>4. ASSUME NEW o \in Ops, Opens(o) PROVE Stales'
  BY <1>4 DEF Opens, Stales, Started, TypeInv, TypeOK
<1> QED
  BY <1>1, <1>2, <1>3, <1>4, Cases

\* What a swapped list of offerings names
LEMMA SwapPins ==
    ASSUME NEW STATE S, NEW STATE from, from \in S, NEW STATE to, from # to
    PROVE  Pins(swapDeclaredOffering(S, from, to)) = (S \ {from}) \cup {to}
BY DEF Pins, swapDeclaredOffering

LEMMA SwapNamesOnce ==
    ASSUME NEW STATE S, NEW STATE from, from \in S, NEW STATE to, from # to
    PROVE  LET chain == swapDeclaredOffering(S, from, to) IN
           \A j, k \in DOMAIN chain : chain[j] = chain[k] => j = k
BY DEF swapDeclaredOffering

LEMMA MovesStep ==
    ASSUME TypeInv, Kinds, Fresh, Olds, Moves, [Next]_vars PROVE Moves'
<1>1. CASE UNCHANGED vars
  BY <1>1 DEF vars, Moves, Moving
<1>2. ASSUME NEW o \in Ops, Acts(o), Progress(o) PROVE Moves'
  <2> TypeOK /\ job[o] \in Jobs /\ hub \in Hubs
    BY DEF TypeInv, TypeOK
  <2>1. Moving(o)' => Moving(o) \/ (at[o] = "offering" /\ at'[o] = "list" /\ job[o].kind = "edit")
    BY <1>2 DEF Progress, Moving, Undo, Onward, Kinds
  <2>2. job'[o].old = job[o].old
    BY <1>2 DEF Acts
  <2>3. ASSUME at[o] = "offering", at'[o] = "list", job[o].kind = "edit" PROVE job'[o].new # job[o].old
    <3>1. OfModel(o) = {} => job'[o].new = o
      BY <1>2, <2>3 DEF Progress, Undo
    <3>2. OfModel(o) # {} => \E f \in OfModel(o) : job'[o].new = f.id
      BY <1>2, <2>3 DEF Progress, Undo
    <3>3. job[o].old # o
      BY <2>3 DEF Fresh, Unminted
    <3>4. \A f \in OfModel(o) : f.id # job[o].old
      BY <2>3 DEF OfModel, Olds, Started
    <3> QED
      BY <3>1, <3>2, <3>3, <3>4
  <2>4. Moving(o) => job'[o].new = job[o].new
    BY <1>2 DEF Progress, Moving, Jobs
  <2>5. at'[o] = "retire" => job'[o].todo = {}
    BY <1>2 DEF Progress, Onward, Undo, Jobs
  <2>6. at'[o] = "redeploy" => job'[o].old \notin Pins(job'[o].chain)
    <3> SUFFICES ASSUME at'[o] = "redeploy" PROVE job'[o].old \notin Pins(job'[o].chain)
      OBVIOUS
    <3>1. /\ at[o] = "swap" /\ job[o].old \in Live
          /\ job'[o].chain = swapDeclaredOffering(Live, job[o].old, job[o].new)
      BY <1>2 DEF Progress, Onward, Undo, Jobs
    <3>2. job[o].new # job[o].old
      BY <3>1 DEF Moves, Moving
    <3>3. Pins(swapDeclaredOffering(Live, job[o].old, job[o].new)) = (Live \ {job[o].old}) \cup {job[o].new}
      BY <3>1, <3>2, SwapPins
    <3>4. Pins(job'[o].chain) = Pins(swapDeclaredOffering(Live, job[o].old, job[o].new))
      BY <3>1 DEF Pins
    <3> QED
      BY <2>2, <3>2, <3>3, <3>4
  <2> HIDE DEF Pins
  <2>7. Moving(o)' => job'[o].new # job'[o].old
    BY <2>1, <2>2, <2>3, <2>4 DEF Moves
  <2> QED
    <3>1. \A p \in Ops : p # o => at'[p] = at[p] /\ job'[p] = job[p]
      BY <1>2 DEF Acts
    <3> QED
      BY <2>5, <2>6, <2>7, <3>1 DEF Moves, Moving
<1>3. ASSUME NEW o \in Ops, Begun(o) PROVE Moves'
  BY <1>3 DEF Begun, Starts, Moves, Moving
<1>4. ASSUME NEW o \in Ops, Opens(o) PROVE Moves'
  BY <1>4 DEF Opens, Moves, Moving
<1> QED
  BY <1>1, <1>2, <1>3, <1>4, Cases

LEMMA CatalogInit == Init => CatalogInv
<1> SUFFICES ASSUME Init PROVE CatalogInv
  OBVIOUS
<1>1. TypeOK
  BY TypeInit
<1>2. /\ \A o \in Ops : at[o] = "idle" /\ job[o].kind = "none" /\ job[o].old = None
      /\ stale = {} /\ met = {}
  BY DEF Init
<1>3. hub \in Hub0
  BY DEF Init
<1>4. Named /\ Kinds /\ Stales /\ Moves
  BY <1>2 DEF Named, Kinds, Stales, Moves, Moving
<1>5. Meetings
  BY <1>2 DEF Meetings, Busy, Requests
<1>6. Rows
  BY <1>2, <1>3, OfferingsAssumption DEF Rows, Hub0
<1>7. Fresh
  BY <1>2, <1>3, OfferingsAssumption DEF Fresh, Hub0, Live
<1>8. Providers /\ Olds
  BY <1>2, <1>3, OfferingsAssumption DEF Providers, Olds, Hub0
<1> QED
  BY <1>1, <1>4, <1>5, <1>6, <1>7, <1>8 DEF CatalogInv, TypeInv

LEMMA CatalogStep == ASSUME CatalogInv, [Next]_vars PROVE CatalogInv'
BY TypeStep, KindsStep, MeetingsStep, RowsStep, FreshStep, ProvidersStep, OldsStep, StalesStep, MovesStep
   DEF CatalogInv

-----------------------------------------------------------------------------
(* The pins, as long as no overlap is of the kinds Disturbed names *)

\* Such an overlap is one for good.
LEMMA DisturbedStays == ASSUME CatalogInv, Disturbed, [Next]_vars PROVE Disturbed'
<1> USE DEF CatalogInv
<1> PICK o \in Ops, p \in Ops :
        /\ <<o, p>> \in met
        /\ \/ job[o].kind = "edit" /\ job[p].kind \in {"create", "restart"}
           \/ job[o].kind = "edit" /\ job[p].kind = "edit" /\ job[o].old # job[p].old
           \/ job[o].kind = "connect" /\ at[o] \in {"rollback", "undone", "broken"}
  BY DEF Disturbed
<1>1. Started(o) /\ Started(p)
  BY DEF Meetings
<1>2. <<o, p>> \in met'
  <2>1. met \subseteq met'
    BY Cases DEF vars, Opens, Begun, Starts, Acts
  <2> QED
    BY <2>1
<1>3. ASSUME NEW q \in Ops, Started(q) PROVE job'[q].kind = job[q].kind /\ job'[q].old = job[q].old
  BY <1>3, Cases DEF vars, Opens, Begun, Starts, Acts, Started
<1>4. at[o] \in {"rollback", "undone", "broken"} => at'[o] \in {"rollback", "undone", "broken"}
  <2>1. at[o] = "rollback" => at'[o] \in {"rollback", "undone", "broken"}
    BY Cases DEF vars, Opens, Begun, Starts, Acts, Progress
  <2>2. at[o] \in {"undone", "broken"} => at'[o] = at[o]
    BY Cases DEF vars, Opens, Begun, Starts, Acts, Busy, Requests
  <2> QED
    BY <2>1, <2>2
<1> QED
  BY <1>1, <1>2, <1>3, <1>4 DEF Disturbed

\* Two operations that are under way have met.
LEMMA BothMet ==
    ASSUME CatalogInv, NEW o \in Busy, NEW p \in Ops, p # o, at[p] \in Requests
    PROVE  <<o, p>> \in met /\ <<p, o>> \in met
BY DEF CatalogInv, Meetings, Busy

\* An offering in use by an edit goes only with an overlap.
LEMMA NewStays ==
    ASSUME CatalogInv, NEW o \in Ops, Acts(o), HubMove(o), ~ Disturbed,
           NEW p \in Ops, Moving(p), job[p].new \in Live
    PROVE  job[p].new \in Live'
<1> USE DEF CatalogInv
<1>1. o \in Busy /\ p \in Busy /\ job[p].kind = "edit"
  BY DEF Acts, Moving, Busy, Requests, Kinds
<1>2. at[o] # "rollback"
  <2> SUFFICES ASSUME at[o] = "rollback" PROVE FALSE
    OBVIOUS
  <2>1. o # p /\ job[o].kind = "connect"
    BY <1>1 DEF Kinds, Moving
  <2>2. <<o, p>> \in met
    BY <1>1, <2>1, BothMet DEF Busy
  <2> QED
    BY <2>1, <2>2 DEF Disturbed
<1>3. at[o] = "retire" => job[p].new # job[o].old
  <2> SUFFICES ASSUME at[o] = "retire" PROVE job[p].new # job[o].old
    OBVIOUS
  <2>1. job[o].kind = "edit" /\ job[p].new # job[p].old
    BY DEF Kinds, Moves
  <2>2. o # p => <<o, p>> \in met
    BY <1>1, BothMet DEF Busy
  <2>3. job[o].old = job[p].old
    BY <1>1, <2>1, <2>2 DEF Disturbed
  <2> QED
    BY <2>1, <2>3
<1> QED
  BY <1>2, <1>3, LiveMoves DEF TypeInv

LEMMA OfferingFound ==
    ASSUME CatalogInv, NEW o \in Ops, Acts(o), Progress(o), HubMove(o),
           at[o] = "offering", at'[o] \in {"list", "done"}
    PROVE  job'[o].new \in Live'
<1> USE DEF CatalogInv
<1> hub \in Hubs /\ job[o] \in Jobs
  BY DEF TypeInv, TypeOK
<1>1. /\ hub' = Effect(o) /\ job[o].provider = hub.provider
      /\ OfModel(o) = {} => job'[o].new = o
      /\ OfModel(o) # {} => \E f \in OfModel(o) : job'[o].new = f.id
  BY DEF Progress, Undo
<1>2. CASE OfModel(o) = {}
  <2>1. hub' = Mint(o)
    BY <1>1, <1>2 DEF Effect
  <2>2. [id |-> o, model |-> job[o].model] \in hub'.offerings
    BY <2>1 DEF Mint, Hubs
  <2> QED
    BY <1>1, <1>2, <2>2 DEF Live
<1>3. CASE OfModel(o) # {}
  <2>1. hub' = hub
    BY <1>1, <1>3 DEF Effect
  <2> QED
    BY <1>1, <1>3, <2>1 DEF Live, OfModel
<1> QED
  BY <1>2, <1>3

LEMMA NewLiveStep ==
    ASSUME CatalogInv, ~ Disturbed, NewLive, [Next]_vars PROVE NewLive'
<1> USE DEF CatalogInv
<1>1. CASE UNCHANGED vars
  BY <1>1 DEF vars, NewLive, Moving, Live
<1>2. ASSUME NEW o \in Ops, Acts(o), Progress(o) PROVE NewLive'
  <2>1. HubMove(o)
    BY <1>2, HubMoves DEF TypeInv
  <2>2. ASSUME NEW p \in Ops, Moving(p) PROVE job[p].new \in Live'
    BY <1>2, <2>1, <2>2, NewStays DEF NewLive
  <2>3. Moving(o)' => (Moving(o) /\ job'[o].new = job[o].new) \/ (at[o] = "offering" /\ at'[o] = "list")
    BY <1>2 DEF Progress, Moving, Undo, Onward, Kinds, TypeInv, TypeOK, Jobs
  <2>4. at[o] = "offering" /\ at'[o] = "list" => job'[o].new \in Live'
    BY <1>2, <2>1, OfferingFound
  <2>5. \A p \in Ops : p # o => (Moving(p)' <=> Moving(p)) /\ job'[p] = job[p]
    BY <1>2 DEF Acts, Moving
  <2> QED
    BY <2>2, <2>3, <2>4, <2>5 DEF NewLive
<1>3. ASSUME NEW o \in Ops, Begun(o) PROVE NewLive'
  <2>1. Live' = Live
    BY <1>3 DEF Begun, Starts, Live
  <2> QED
    BY <1>3, <2>1 DEF Begun, Starts, NewLive, Moving
<1>4. ASSUME NEW o \in Ops, Opens(o) PROVE NewLive'
  <2>1. Live' = Live
    BY <1>4 DEF Opens, Live
  <2> QED
    BY <1>4, <2>1 DEF Opens, NewLive, Moving
<1> QED
  BY <1>1, <1>2, <1>3, <1>4, Cases

\* A deployment by another operation brings no worker back to the offering that
\* an edit is replacing.
LEMMA OldNotPinned ==
    ASSUME CatalogInv, ~ Disturbed, NEW o \in Busy, at[o] \in {"redeploy", "deploy"},
           NEW p \in Ops, Moving(p)
    PROVE  job[p].old \notin Pins(job[o].chain)
<1> USE DEF CatalogInv
<1>1. o \in Ops /\ at[p] \in Requests /\ job[p].kind = "edit" /\ p \in Busy
  BY DEF Busy, Moving, Requests, Kinds
<1>2. o # p => <<p, o>> \in met /\ <<o, p>> \in met
  BY <1>1, BothMet
<1>3. at[o] = "redeploy"
  BY <1>1, <1>2 DEF Disturbed, Kinds, Moving
<1>4. job[o].kind = "edit" /\ job[o].old \notin Pins(job[o].chain)
  BY <1>1, <1>3 DEF Kinds, Moves, Moving
<1>5. job[o].old = job[p].old
  BY <1>1, <1>2, <1>4 DEF Disturbed
<1> QED
  BY <1>4, <1>5

LEMMA OldLeftStep ==
    ASSUME CatalogInv, ~ Disturbed, OldLeft, AllLive, [Next]_vars PROVE OldLeft'
<1> USE DEF CatalogInv
<1>1. CASE UNCHANGED vars
  BY <1>1 DEF vars, OldLeft
<1>2. ASSUME NEW o \in Ops, Acts(o), Progress(o) PROVE OldLeft'
  <2> hub \in Hubs /\ job[o] \in Jobs
    BY DEF TypeInv, TypeOK
  <2>1. HubMove(o) /\ o \in Busy
    BY <1>2, HubMoves DEF TypeInv, Acts
  <2>2. ASSUME NEW p \in Ops, Moving(p), NEW b \in Benches, job[p].old \in hub'.workers[b]
        PROVE  job[p].old \in hub.workers[b]
    BY <2>1, <2>2, OldNotPinned DEF HubMove, Hubs
  <2>3. ASSUME NEW p \in Ops, p # o, at'[p] \in {"swap", "redeploy", "retire"},
               NEW b \in Benches, job'[p].old \in hub'.workers[b]
        PROVE  b \in job'[p].todo \/ (at'[p] = "redeploy" /\ b = job'[p].bench)
    <3>1. at'[p] = at[p] /\ job'[p] = job[p]
      BY <1>2, <2>3 DEF Acts
    <3> QED
      BY <2>2, <2>3, <3>1 DEF OldLeft, Moving
  <2>4. ASSUME at'[o] \in {"swap", "redeploy", "retire"},
               NEW b \in Benches, job'[o].old \in hub'.workers[b]
        PROVE  b \in job'[o].todo \/ (at'[o] = "redeploy" /\ b = job'[o].bench)
    <3>1. at[o] \in {"list", "swap", "redeploy"} /\ job'[o].old = job[o].old
      BY <1>2, <2>4 DEF Acts, Progress, Undo, Onward
    <3>2. job[o].old \in hub.workers[b]
      BY <2>2, <2>4, <3>1 DEF Moving
    <3>3. CASE at[o] = "list"
      <4>1. job'[o].todo = hub.benches
        BY <1>2, <2>4, <3>3 DEF Progress, Jobs
      <4> QED
        BY <3>2, <4>1 DEF Rows
    <3>4. CASE at[o] = "swap"
      <4>1. b \in job[o].todo /\ job[o].old \in Live
        BY <3>2, <3>4 DEF OldLeft, AllLive
      <4>2. PICK c \in job[o].todo :
               /\ job'[o].todo = job[o].todo \ {c}
               /\ hub.workers[c] = {} \/ (at'[o] = "redeploy" /\ job'[o].bench = c)
        BY <1>2, <2>4, <3>4, <4>1 DEF Progress, Jobs
      <4> QED
        BY <3>2, <4>1, <4>2
    <3>5. CASE at[o] = "redeploy"
      <4>1. hub' = Effect(o) /\ Deployable(job[o].chain) /\ job'[o] = job[o]
        BY <1>2, <2>4, <3>5 DEF Progress
      <4>2. hub'.workers = [hub.workers EXCEPT ![job[o].bench] = Pins(job[o].chain)]
        BY <3>5, <4>1 DEF Effect, DeployWorker, Hubs
      <4>3. job[o].old \notin Pins(job[o].chain)
        BY <3>5 DEF Moves, Moving
      <4>4. b # job[o].bench
        BY <2>4, <3>1, <4>2, <4>3 DEF Hubs
      <4> QED
        BY <3>2, <3>5, <4>1, <4>4 DEF OldLeft
    <3> QED
      BY <3>1, <3>3, <3>4, <3>5
  <2> QED
    BY <2>3, <2>4 DEF OldLeft
<1>3. ASSUME NEW o \in Ops, Begun(o) PROVE OldLeft'
  BY <1>3 DEF Begun, Starts, OldLeft
<1>4. ASSUME NEW o \in Ops, Opens(o) PROVE OldLeft'
  BY <1>4 DEF Opens, OldLeft
<1> QED
  BY <1>1, <1>2, <1>3, <1>4, Cases

LEMMA NoWorkersStep ==
    ASSUME CatalogInv, NoWorkers, AllLive, [Next]_vars PROVE NoWorkers'
<1> USE DEF CatalogInv
<1>1. CASE UNCHANGED vars
  BY <1>1 DEF vars, NoWorkers, Alone
<1>2. ASSUME NEW o \in Ops, Acts(o), Progress(o) PROVE NoWorkers'
  <2> hub \in Hubs /\ job[o] \in Jobs
    BY DEF TypeInv, TypeOK
  <2>1. HubMove(o) /\ o \in Busy /\ \A p \in Ops : Alone(p)' <=> Alone(p)
    BY <1>2, HubMoves DEF TypeInv, Acts, Alone
  <2>2. \A p \in Ops : p # o /\ at'[p] \in {"offering", "rollback"} => ~ Alone(p)
    BY <1>2, <2>1, BothMet DEF Acts, Alone, Requests
  <2>3. ASSUME at'[o] \in {"offering", "rollback"}, job'[o].kind = "connect",
               job'[o].provider = o, Alone(o), NEW b \in Benches
        PROVE  hub'.workers[b] = {}
    <3>1. job[o].kind = "connect" /\ at[o] \in {"provider", "offering"}
      BY <1>2, <2>3 DEF Acts, Progress, Undo, Onward
    <3>2. hub'.workers = hub.workers
      BY <2>1, <3>1 DEF HubMove
    <3>3. CASE at[o] = "provider"
      <4>1. hub.provider = None \/ hub.provider = o
        BY <1>2, <2>3, <3>3 DEF Progress, Jobs
      <4>2. hub.provider = None
        BY <3>3, <4>1 DEF Providers
      <4>3. Live = {}
        BY <4>2 DEF Rows, Live
      <4> QED
        BY <3>2, <4>3 DEF AllLive
    <3>4. CASE at[o] = "offering"
      <4>1. job'[o] = job[o]
        BY <1>2, <2>3, <3>4 DEF Progress
      <4> QED
        BY <2>3, <3>1, <3>2, <3>4, <4>1 DEF NoWorkers
    <3> QED
      BY <3>1, <3>3, <3>4
  <2> QED
    BY <2>1, <2>2, <2>3 DEF NoWorkers
<1>3. ASSUME NEW o \in Ops, Begun(o) PROVE NoWorkers'
  BY <1>3 DEF Begun, Starts, NoWorkers, Alone
<1>4. ASSUME NEW o \in Ops, Opens(o) PROVE NoWorkers'
  BY <1>4 DEF Opens, NoWorkers, Alone
<1> QED
  BY <1>1, <1>2, <1>3, <1>4, Cases

LEMMA AllLiveStep ==
    ASSUME CatalogInv, ~ Disturbed, OldLeft, NoWorkers, AllLive, [Next]_vars PROVE AllLive'
<1> USE DEF CatalogInv
<1>1. CASE UNCHANGED vars
  BY <1>1 DEF vars, AllLive, Live
<1>2. ASSUME NEW o \in Ops, Acts(o), Progress(o) PROVE AllLive'
  <2> hub \in Hubs /\ job[o] \in Jobs
    BY DEF TypeInv, TypeOK
  <2>1. HubMove(o)
    BY <1>2, HubMoves DEF TypeInv
  <2>2. CASE at[o] \in {"redeploy", "deploy"}
    <3>1. Live' = Live
      BY <2>1, <2>2, LiveMoves DEF TypeInv
    <3>2. hub'.workers = hub.workers \/
          (/\ hub'.workers = [hub.workers EXCEPT ![job[o].bench] = Pins(job[o].chain)]
           /\ Pins(job[o].chain) \subseteq Live)
      BY <2>1, <2>2 DEF HubMove, Deployable
    <3> QED
      BY <3>1, <3>2 DEF AllLive, Hubs
  <2>3. CASE at[o] = "rollback"
    <3>1. job[o].kind = "connect" /\ job[o].provider = o
      BY <2>3 DEF Kinds, Providers
    <3>2. Alone(o)
      BY <2>3, <3>1 DEF Alone, Disturbed
    <3>3. hub'.workers = hub.workers
      BY <2>1, <2>3 DEF HubMove
    <3> QED
      BY <2>3, <3>1, <3>2, <3>3 DEF NoWorkers, AllLive
  <2>4. CASE at[o] = "retire"
    <3>1. hub'.workers = hub.workers /\ (Live' = Live \/ Live' = Live \ {job[o].old})
      BY <2>1, <2>4, LiveMoves DEF HubMove, TypeInv
    <3>2. \A b \in Benches : job[o].old \notin hub.workers[b]
      BY <2>4 DEF OldLeft, Moves, Moving
    <3> QED
      BY <3>1, <3>2 DEF AllLive
  <2>5. CASE at[o] \notin {"redeploy", "deploy", "rollback", "retire"}
    <3>1. hub'.workers = hub.workers
      BY <2>1, <2>5 DEF HubMove
    <3>2. Live \subseteq Live'
      BY <2>1, <2>5, LiveMoves DEF TypeInv
    <3> QED
      BY <3>1, <3>2 DEF AllLive
  <2> QED
    BY <2>2, <2>3, <2>4, <2>5
<1>3. ASSUME NEW o \in Ops, Begun(o) PROVE AllLive'
  <2>1. Live' = Live /\ hub'.workers = hub.workers
    BY <1>3 DEF Begun, Starts, Live
  <2> QED
    BY <2>1 DEF AllLive
<1>4. ASSUME NEW o \in Ops, Opens(o) PROVE AllLive'
  BY <1>4 DEF Opens, AllLive, Live
<1> QED
  BY <1>1, <1>2, <1>3, <1>4, Cases

LEMMA PinStep == ASSUME CatalogInv, PinInv, [Next]_vars PROVE PinInv'
BY DisturbedStays, NewLiveStep, OldLeftStep, NoWorkersStep, AllLiveStep DEF PinInv

LEMMA BareStep ==
    ASSUME CatalogInv, CatalogInv', PinInv, NoBareProvider, [Next]_vars PROVE NoBareProvider'
<1> USE DEF CatalogInv
<1> SUFFICES ASSUME ~ Disturbed, hub'.provider \in Ops, hub'.offerings = {}
             PROVE  at'[hub'.provider] # "done"
  BY DisturbedStays DEF NoBareProvider, Providers
<1>1. CASE UNCHANGED vars
  BY <1>1 DEF vars, NoBareProvider
<1>2. ASSUME NEW o \in Ops, Acts(o), Progress(o) PROVE at'[hub'.provider] # "done"
  <2> hub \in Hubs /\ job[o] \in Jobs
    BY DEF TypeInv, TypeOK
  <2>1. HubMove(o) /\ at[o] \in Requests
    BY <1>2, HubMoves DEF TypeInv, Acts, Busy
  <2>2. CASE at[o] = "provider"
    <3>1. at'[o] # "done"
      BY <1>2, <2>2 DEF Progress
    <3>2. hub'.provider = o \/ hub' = hub
      BY <2>1, <2>2 DEF HubMove
    <3> QED
      BY <1>2, <3>1, <3>2 DEF Acts, NoBareProvider
  <2>3. CASE at[o] = "offering"
    <3>1. at'[o] # "done"
      BY <1>2, <2>1, <2>3, OfferingFound DEF Live
    <3>2. hub'.provider = hub.provider /\ hub.offerings = {}
      BY <2>1, <2>3 DEF HubMove
    <3> QED
      BY <1>2, <3>1, <3>2 DEF Acts, NoBareProvider
  <2>4. CASE at[o] = "retire"
    <3>1. Moving(o) /\ job[o].kind = "edit"
      BY <2>4 DEF Moving, Kinds
    <3>2. job[o].new \in Live'
      BY <1>2, <2>1, <3>1, NewStays DEF PinInv, NewLive
    <3> QED
      BY <3>2 DEF Live
  <2>5. CASE at[o] \notin {"provider", "offering", "retire"}
    <3>1. hub'.provider = hub.provider /\ hub.offerings = {} /\ at[o] # "offering"
      BY <2>1, <2>5, OfferingsAssumption DEF HubMove
    <3>2. at[hub.provider] \in {"rollback", "broken", "offering"}
      BY <3>1 DEF NoBareProvider
    <3>3. at[o] = "rollback" => at'[o] # "done"
      BY <1>2 DEF Progress
    <3> QED
      BY <1>2, <2>1, <3>1, <3>2, <3>3 DEF Acts, Requests
  <2> QED
    BY <2>2, <2>3, <2>4, <2>5
<1>3. ASSUME NEW o \in Ops, Begun(o) PROVE at'[hub'.provider] # "done"
  BY <1>3 DEF Begun, Starts, NoBareProvider
<1>4. ASSUME NEW o \in Ops, Opens(o) PROVE at'[hub'.provider] # "done"
  BY <1>4 DEF Opens, NoBareProvider
<1> QED
  BY <1>1, <1>2, <1>3, <1>4, Cases

-----------------------------------------------------------------------------
(* An operation that is alone *)

\* The other operations' requests are not its concern.
LEMMA SteadyIdle ==
    ASSUME NEW p \in Ops, Steady(p), at'[p] = at[p], at[p] \notin Requests, stale \subseteq stale'
    PROVE  Steady(p)'
BY DEF Steady, Busy, Moving, Requests

LEMMA SteadyRefused ==
    ASSUME CatalogInv, NEW o \in Ops, Steady(o), Acts(o), Progress(o), at'[o] = "refused"
    PROVE  o \in stale
<1> USE DEF CatalogInv
<1> SUFFICES ASSUME o \notin stale PROVE FALSE
  OBVIOUS
<1>1. /\ o \in Busy
      /\ at[o] \in {"offering", "redeploy", "retire", "deploy"}
  BY DEF Acts, Progress, Undo, Onward
<1>2. at[o] # "deploy"
  BY DEF Steady, Progress, Undo, Onward
<1>3. job[o].kind = "edit" => job[o].old \in Live /\ job[o].provider = hub.provider
  BY <1>1 DEF Steady, Olds
<1>4. CASE at[o] = "offering"
  <2>1. job[o].provider # hub.provider
    BY <1>4 DEF Progress, Undo
  <2> QED
    BY <1>3, <1>4, <2>1 DEF Steady, Kinds
<1>5. CASE at[o] \in {"redeploy", "retire"}
  <2>1. job[o].kind = "edit"
    BY <1>5 DEF Kinds
  <2> QED
    BY <1>1, <1>3, <1>5, <2>1 DEF Steady, Progress, Onward
<1> QED
  BY <1>1, <1>2, <1>4, <1>5

\* The workers an edit that is alone has moved so far
LEMMA SteadyWorkers ==
    ASSUME CatalogInv, NEW o \in Ops, Steady(o), Acts(o), Progress(o), HubMove(o),
           job[o].kind = "edit", o \notin stale, at'[o] \in {"swap", "redeploy", "retire"},
           NEW b \in Benches, hub'.workers[b] # {}
    PROVE  \/ b \in job'[o].todo
           \/ at'[o] = "redeploy" /\ b = job'[o].bench
           \/ job'[o].new \in hub'.workers[b] /\ job'[o].old \notin hub'.workers[b]
<1> USE DEF CatalogInv
<1> hub \in Hubs /\ job[o] \in Jobs /\ o \in Busy
  BY DEF TypeInv, TypeOK, Acts
<1>1. at[o] \in {"list", "swap", "redeploy"} /\ job'[o].old = job[o].old
  BY DEF Acts, Progress, Undo, Onward
<1>2. job'[o].new = job[o].new /\ job[o].old \in Live
  BY <1>1 DEF Progress, Steady, Jobs
<1>3. CASE at[o] = "list"
  <2>1. job'[o].todo = hub.benches /\ hub'.workers = hub.workers
    BY <1>3 DEF Progress, Jobs, HubMove
  <2> QED
    BY <2>1 DEF Rows
<1>4. CASE at[o] = "swap"
  <2>1. PICK c \in job[o].todo :
           /\ job'[o].todo = job[o].todo \ {c}
           /\ hub.workers[c] = {} \/ (at'[o] = "redeploy" /\ job'[o].bench = c)
    BY <1>2, <1>4 DEF Progress, Jobs
  <2>2. hub'.workers = hub.workers
    BY <1>4 DEF HubMove
  <2> QED
    BY <1>1, <1>2, <1>4, <2>1, <2>2 DEF Steady
<1>5. CASE at[o] = "redeploy"
  <2>1. hub' = Effect(o) /\ Deployable(job[o].chain) /\ job'[o] = job[o]
    BY <1>5 DEF Progress
  <2>2. hub'.workers = [hub.workers EXCEPT ![job[o].bench] = Pins(job[o].chain)]
    BY <1>5, <2>1 DEF Effect, DeployWorker, Hubs
  <2>3. job[o].old \notin Pins(job[o].chain) /\ job[o].new \in Pins(job[o].chain)
    BY <1>5 DEF Moves, Moving, Steady
  <2>4. CASE b = job[o].bench
    BY <1>1, <1>2, <2>2, <2>3, <2>4 DEF Hubs
  <2>5. CASE b # job[o].bench
    <3>1. hub'.workers[b] = hub.workers[b]
      BY <2>2, <2>5 DEF Hubs
    <3> QED
      BY <1>1, <1>2, <1>5, <2>1, <2>5, <3>1 DEF Steady
  <2> QED
    BY <2>4, <2>5
<1> QED
  BY <1>1, <1>3, <1>4, <1>5

\* The list an edit that is alone deploys can be deployed, and names the new
\* offering.
LEMMA SteadySwap ==
    ASSUME CatalogInv, NEW o \in Ops, Steady(o), Acts(o), Progress(o), HubMove(o),
           job[o].kind = "edit", o \notin stale, at'[o] = "redeploy"
    PROVE  Deployable(job[o].chain)' /\ job'[o].new \in Pins(job'[o].chain)
<1> USE DEF CatalogInv
<1> hub \in Hubs /\ job[o] \in Jobs /\ o \in Busy
  BY DEF TypeInv, TypeOK, Acts
<1> DEFINE chain == swapDeclaredOffering(Live, job[o].old, job[o].new)
<1>1. at[o] = "swap" /\ job'[o].new = job[o].new /\ job'[o].chain = chain
  BY DEF Progress, Undo, Onward, Jobs
<1>2. job[o].old \in Live /\ job[o].new \in Live /\ job[o].new # job[o].old
  BY <1>1 DEF Steady, Moves, Moving
<1>3. Live' = Live
  BY <1>1, LiveMoves DEF TypeInv
<1>4. Pins(chain) = (Live \ {job[o].old}) \cup {job[o].new}
  BY <1>2, SwapPins
<1>5. \A j, k \in DOMAIN chain : chain[j] = chain[k] => j = k
  BY <1>2, SwapNamesOnce
<1> HIDE DEF chain
<1>6. Pins(job'[o].chain) = Pins(chain)
  BY <1>1 DEF Pins
<1>7. Pins(job[o].chain)' = Pins(chain)
  BY <1>1 DEF Pins
<1> QED
  BY <1>1, <1>2, <1>3, <1>4, <1>5, <1>6, <1>7 DEF Deployable

\* A deployment that is alone names the offerings that are there.
LEMMA SteadyResolve ==
    ASSUME CatalogInv, NEW o \in Ops, Acts(o), Progress(o), HubMove(o), at'[o] = "deploy"
    PROVE  Deployable(job[o].chain)'
<1> USE DEF CatalogInv
<1> job[o] \in Jobs
  BY DEF TypeInv, TypeOK
<1>1. at[o] = "resolve" /\ Live # {} /\ job'[o].chain = [k \in Live |-> k]
  BY DEF Progress, Undo, Onward, Jobs
<1>2. Live' = Live
  BY <1>1, LiveMoves DEF TypeInv
<1>3. Pins(job[o].chain)' = Live
  BY <1>1 DEF Pins
<1>4. DOMAIN job'[o].chain = Live /\ \A j \in Live : job'[o].chain[j] = j
  BY <1>1
<1> QED
  BY <1>1, <1>2, <1>3, <1>4 DEF Deployable

LEMMA SteadyActs ==
    ASSUME CatalogInv, NEW o \in Ops, Steady(o), Acts(o), Progress(o) PROVE Steady(o)'
<1> USE DEF CatalogInv
<1> hub \in Hubs /\ job[o] \in Jobs /\ TypeOK
  BY DEF TypeInv, TypeOK
<1>1. HubMove(o) /\ o \in Busy /\ stale' = stale /\ job'[o].kind = job[o].kind /\ job'[o].old = job[o].old
  BY HubMoves DEF Acts
<1>2. ASSUME at'[o] = "offering", job[o].kind = "connect" PROVE job'[o].provider = hub'.provider
  <2>1. at[o] = "provider" /\ hub' = Effect(o) /\
        job'[o].provider = IF hub.provider = None THEN o ELSE hub.provider
    BY <1>2 DEF Progress, Undo, Onward, Jobs, Kinds
  <2> QED
    BY <2>1 DEF Effect, Hubs
<1>3. at'[o] = "deploy" => Deployable(job[o].chain)'
  BY <1>1, SteadyResolve
<1>4. at'[o] = "refused" => o \in stale
  BY SteadyRefused
<1>5. ASSUME o \in Busy', job[o].kind = "edit", o \notin stale
      PROVE  /\ job[o].old \in Live'
             /\ Moving(o)' => job'[o].new \in Live'
  <2>1. job[o].old \in Live
    BY <1>1, <1>5 DEF Steady
  <2>2. at[o] \notin {"rollback", "retire"}
    BY <1>5 DEF Kinds, Progress, Busy, Requests
  <2>3. Live \subseteq Live'
    BY <1>1, <2>2, LiveMoves
  <2>4. Moving(o)' => (Moving(o) /\ job'[o].new = job[o].new) \/ (at[o] = "offering" /\ at'[o] = "list")
    BY DEF Progress, Moving, Undo, Onward, Kinds, Jobs
  <2>5. at[o] = "offering" /\ at'[o] = "list" => job'[o].new \in Live'
    BY <1>1, OfferingFound
  <2> QED
    BY <1>1, <1>5, <2>1, <2>3, <2>4, <2>5 DEF Steady
<1>6. job[o].kind = "edit" /\ o \notin stale /\ at'[o] = "redeploy" =>
         Deployable(job[o].chain)' /\ job'[o].new \in Pins(job'[o].chain)
  BY <1>1, SteadySwap
<1>7. ASSUME job[o].kind = "edit", o \notin stale, at'[o] \in {"swap", "redeploy", "retire"}
      PROVE  \A b \in Benches : hub'.workers[b] # {} =>
                \/ b \in job'[o].todo
                \/ at'[o] = "redeploy" /\ b = job'[o].bench
                \/ job'[o].new \in hub'.workers[b] /\ job'[o].old \notin hub'.workers[b]
  BY <1>1, <1>7, SteadyWorkers
<1>8. Pins(job[o].chain)' = Pins(job'[o].chain)
  BY DEF Pins
<1> HIDE DEF CatalogInv
<1> QED
  BY <1>1, <1>2, <1>3, <1>4, <1>5, <1>6, <1>7, <1>8 DEF Steady

LEMMA AloneStep == ASSUME CatalogInv, AloneInv, [Next]_vars PROVE AloneInv'
<1> USE DEF CatalogInv
<1>1. CASE UNCHANGED vars
  <2> SUFFICES ASSUME NEW p \in Ops, Alone(p) PROVE Steady(p)'
    BY <1>1 DEF vars, AloneInv, Alone
  <2>1. at'[p] = at[p] /\ job'[p] = job[p] /\ hub' = hub /\ stale' = stale /\ Live' = Live
    BY <1>1 DEF vars, Live
  <2>2. Steady(p)
    BY DEF AloneInv
  <2> QED
    BY <2>1, <2>2 DEF Steady, Busy, Moving, Deployable, Pins
<1>2. ASSUME NEW o \in Ops, Acts(o), Progress(o) PROVE AloneInv'
  <2> SUFFICES ASSUME NEW p \in Ops, Alone(p) PROVE Steady(p)'
    BY <1>2 DEF Acts, Alone, AloneInv
  <2>1. CASE p = o
    BY <1>2, <2>1, SteadyActs DEF AloneInv
  <2>2. CASE p # o
    <3>1. at[p] \notin Requests
      BY <1>2, <2>2, BothMet DEF Acts, Alone
    <3> QED
      BY <1>2, <2>2, <3>1, SteadyIdle DEF Acts, AloneInv
  <2> QED
    BY <2>1, <2>2
<1>3. ASSUME NEW o \in Ops, Begun(o) PROVE AloneInv'
  <2> SUFFICES ASSUME NEW p \in Ops, Alone(p)' PROVE Steady(p)'
    BY DEF AloneInv
  <2>1. Alone(p) /\ met' = met \cup ({o} \X Busy) \cup (Busy \X {o}) /\ stale \subseteq stale'
    BY <1>3 DEF Begun, Starts, Alone
  <2>2. CASE p = o
    <3>1. Live' = Live
      BY <1>3 DEF Begun, Starts, Live
    <3> QED
      BY <1>3, <2>2, <3>1 DEF Begun, Starts, Steady, Moving, Kinds
  <2>3. CASE p # o
    <3>1. at[p] \notin Requests
      BY <2>1 DEF Alone, Busy
    <3> QED
      BY <1>3, <2>1, <2>3, <3>1, SteadyIdle DEF Begun, Starts, AloneInv
  <2> QED
    BY <2>2, <2>3
<1>4. ASSUME NEW o \in Ops, Opens(o) PROVE AloneInv'
  <2> SUFFICES ASSUME NEW p \in Ops, Alone(p) PROVE Steady(p)'
    BY <1>4 DEF Opens, Alone, AloneInv
  <2>1. CASE p = o
    BY <1>4, <2>1 DEF Opens, Steady, Busy, Moving, Requests
  <2>2. CASE p # o
    <3>1. Live' = Live /\ at'[p] = at[p] /\ job'[p] = job[p] /\ hub' = hub /\ stale' = stale
      BY <1>4, <2>2 DEF Opens, Live
    <3>2. Steady(p)
      BY DEF AloneInv
    <3> QED
      BY <3>1, <3>2 DEF Steady, Busy, Moving, Deployable, Pins
  <2> QED
    BY <2>1, <2>2
<1> QED
  BY <1>1, <1>2, <1>3, <1>4, Cases

-----------------------------------------------------------------------------
(* The theorems *)

PinsInv   == CatalogInv /\ PinInv
BareInv   == PinsInv /\ NoBareProvider
SteadyInv == CatalogInv /\ AloneInv

LEMMA PinsInit == Init => PinsInv
<1> SUFFICES ASSUME Init PROVE PinInv
  BY CatalogInit DEF PinsInv
<1>1. \A o \in Ops : at[o] = "idle"
  BY DEF Init
<1>2. NewLive /\ OldLeft /\ NoWorkers
  BY <1>1 DEF NewLive, OldLeft, NoWorkers, Moving
<1>3. AllLive
  <2>1. CASE \A b \in Benches : hub.workers[b] = {}
    BY <2>1 DEF AllLive
  <2>2. CASE \E m \in Models, B \in SUBSET Benches :
               hub = [provider |-> Earlier, offerings |-> {[id |-> Earlier, model |-> m]}, benches |-> B,
                      workers |-> [b \in Benches |-> IF b \in B THEN {Earlier} ELSE {}]]
    <3>1. Earlier \in Live
      BY <2>2 DEF Live
    <3> QED
      BY <2>2, <3>1 DEF AllLive
  <2> QED
    BY <2>1, <2>2 DEF Init, Hub0
<1> QED
  BY <1>2, <1>3 DEF PinInv

LEMMA BareInit == Init => BareInv
<1> SUFFICES ASSUME Init PROVE NoBareProvider
  BY PinsInit DEF BareInv
<1> QED
  BY OfferingsAssumption DEF Init, Hub0, NoBareProvider

LEMMA SteadyInit == Init => SteadyInv
<1> SUFFICES ASSUME Init PROVE AloneInv
  BY CatalogInit DEF SteadyInv
<1> QED
  BY DEF Init, AloneInv, Steady, Busy, Requests

\* The variables keep their types (the operations of settings/inference/api.ts,
\* settings/credentials-section.tsx and workbench-create.ts).
THEOREM TypeCorrect == Spec => []TypeOK
<1>1. Init => CatalogInv
  BY CatalogInit
<1>2. CatalogInv /\ [Next]_vars => CatalogInv'
  BY CatalogStep
<1>3. CatalogInv => TypeOK
  BY DEF CatalogInv, TypeInv
<1> QED
  BY <1>1, <1>2, <1>3, PTL DEF Spec

\* For any number of operations, models, benches and failures, no worker is left
\* pinned to an offering that is gone, outside the overlaps that Disturbed names
\* (settings/credentials-section.tsx:217-235).
THEOREM WorkersStayPinned == Spec => []LivePins
<1>1. Init => PinsInv
  BY PinsInit
<1>2. PinsInv /\ [Next]_vars => PinsInv'
  BY CatalogStep, PinStep DEF PinsInv
<1>3. PinsInv => LivePins
  BY DEF PinsInv, PinInv, AllLive, LivePins
<1> QED
  BY <1>1, <1>2, <1>3, PTL DEF Spec

\* A provider without an offering is there only while its own connect is under
\* way, or when that connect could not undo it (settings/inference/api.ts:263-308).
THEOREM ProvidersServe == Spec => []NoBareProvider
<1>1. Init => BareInv
  BY BareInit
<1>2. BareInv /\ [Next]_vars => BareInv'
  BY CatalogStep, PinStep, BareStep DEF BareInv, PinsInv
<1>3. BareInv => NoBareProvider
  BY DEF BareInv
<1> QED
  BY <1>1, <1>2, <1>3, PTL DEF Spec

\* An operation that runs alone is refused nothing, whatever was left half done
\* (settings/inference/api.ts:256-257).
THEOREM RetriesSucceed == Spec => []RetrySucceeds
<1>1. Init => SteadyInv
  BY SteadyInit
<1>2. SteadyInv /\ [Next]_vars => SteadyInv'
  BY CatalogStep, AloneStep DEF SteadyInv
<1>3. SteadyInv => RetrySucceeds
  BY DEF SteadyInv, AloneInv, Steady, RetrySucceeds
<1> QED
  BY <1>1, <1>2, <1>3, PTL DEF Spec

\* What an edit that was alone has done when it has succeeded
Served(o) ==
    (at[o] = "retire" /\ at'[o] = "done" /\ Alone(o)) =>
       \A b \in Benches : hub'.workers[b] # {} =>
          job[o].new \in hub'.workers[b] /\ job[o].old \notin hub'.workers[b]

LEMMA ServedStep == ASSUME SteadyInv, [Next]_vars, NEW o \in Ops PROVE Served(o)
<1> USE DEF SteadyInv, CatalogInv
<1> SUFFICES ASSUME at[o] = "retire", at'[o] = "done", Alone(o), NEW b \in Benches, hub'.workers[b] # {}
             PROVE  job[o].new \in hub'.workers[b] /\ job[o].old \notin hub'.workers[b]
  BY DEF Served
<1>1. Acts(o) /\ Progress(o)
  BY Cases DEF vars, Opens, Begun, Starts, Acts
<1>2. job[o].old \in Live /\ job[o].kind = "edit"
  BY <1>1 DEF Progress, Kinds
<1>3. o \notin stale
  BY <1>2 DEF Olds
<1>4. hub'.workers = hub.workers
  BY <1>1, HubMoves DEF HubMove, TypeInv
<1>5. Steady(o) /\ o \in Busy /\ job[o].todo = {}
  BY <1>1 DEF AloneInv, Acts, Moves, Moving
<1> QED
  BY <1>2, <1>3, <1>4, <1>5 DEF Steady

\* An edit that ran alone and succeeded leaves every worker on the new offering
\* and none on the old one (settings/worker-model-redeploy.ts:101-122).
THEOREM EditsServe == Spec => EditServes
<1>1. Init => SteadyInv
  BY SteadyInit
<1>2. SteadyInv /\ [Next]_vars => SteadyInv'
  BY CatalogStep, AloneStep DEF SteadyInv
<1>3. SteadyInv /\ [Next]_vars =>
        [\A o \in Ops :
          (at[o] = "retire" /\ at'[o] = "done" /\ Alone(o)) =>
             \A b \in Benches : hub'.workers[b] # {} =>
                job[o].new \in hub'.workers[b] /\ job[o].old \notin hub'.workers[b]]_vars
  BY ServedStep DEF Served
<1> QED
  BY <1>1, <1>2, <1>3, PTL DEF Spec, EditServes

=============================================================================
