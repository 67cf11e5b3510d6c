# Workbench, verified

This directory holds TLA+ specifications of the parts of Workbench whose
correctness depends on order, on failure or on what other parts do at the same
time, the TLC configurations that check them on small instances, and TLAPS
proofs of the most important of the properties for every instance. The
specifications are read beside the source: each definition is translated from
code under `src/`, and the `map` of `PROJECT.json` names the lines.

Run from this directory:

    tlc -workers 2 -config MCProvisionerOrphans.cfg MCProcessProvisioner
    tlapm ProcessProvisionerProofs.tla

## 1. The system

Workbench is a hub (an HTTP server over Postgres), the sidecars it starts (one
operating-system process per allocation, in which agents' workflow runs
execute), a browser client, and the packages that an agent carries into its
sidecar. The hub, the sidecar and the runtime under both are a vendored copy of
Interchange (`vendor/intx`); the first-party code composes them, provides the
sidecar provisioner, the boot migrations, the mailbox routes, the deferred-tools
director, the worker's definition and the whole client.

| Component | Where | State it keeps | Operations |
| --- | --- | --- | --- |
| Process provisioner | `apps/hub/src/provisioners/process.ts` | per allocation: the fence record (memory and `state.json`), unit directories, pid files, sidecar processes, `inFlightEnsures` | `ensure`, `destroy`, store `observeEnsure`/`observeDestroy`/`recordUnit` |
| Boot migrations | `apps/hub/src/migrate.ts` | an advisory lock; the database's schemas | `migrateHub`, also from `scripts/db-setup.ts` |
| Mailbox delivery | `apps/hub/src/mailbox-send.ts`, `mailbox-persist.ts` | rows of the mailbox; triggers already sent | send to runs and people, persist to people |
| Hub composition | `apps/hub/src/server.ts`, `corbits-mount.ts`, `index.ts` | none of its own | wiring, boot, shutdown |
| Run stream, run authenticator, static web | `apps/hub/src/*.ts` | none | stateless handlers |
| Deferred tools | `packages/deferred-tools/src` | the surfaced set of one director; the catalogue cell on `globalThis` | `decide`, `tools`, `tool_search` |
| Worker definition | `packages/worker/src` | none | builds a workflow definition |
| Error sink | `packages/error-sink/src` | none | redacts and reports |
| Opening message | `apps/web/src/opening-message.ts`, `bench/pending-opening-message.tsx` | the parked message of each new workbench (session storage); the page's session, ref and mutation | park, send, retry, forget |
| MCP servers | `apps/web/src/mcp-servers.ts`, `tools/mcp-servers-query.ts` | `ensureQueue` of one tab; the hub's provider and credential rows, the deployed Workers | add, sign in, remove, ensure the built-in server, redeploy every bench |
| Model offerings | `apps/web/src/settings/inference/api.ts`, `settings/credentials-section.tsx`, `settings/worker-model-redeploy.ts` | none of its own: the hub's catalog provider, its offerings and what each worker pins | connect with rollback, change a credential's model, deploy |
| Worker redeploy | `apps/web/src/chat/redeploy-failures.ts`, `agent-redeployer.tsx`, `use-restart-agent.ts`, `workbench-create.ts` | claim and failure sets of one tab; cached agent rosters | claim, redeploy, release, restart |
| Agent install | `apps/web/src/install-package.ts`, `git-push.ts`, `agent-hub-credential.ts` | none of its own: the hub's asset, provider, bearers, credential, git ref and deployments of one agent | `installPackage`, `ensureAgentHubCredential`, `pushSourceTree` |
| Chat, approvals, pages, shell | `apps/web/src` | query caches, optimistic entries | user interface |
| Allocation reconciler | `vendor/intx/hub-sessions`, `vendor/intx/db` | allocation rows | claims and retries the provisioner's calls |
| Sidecar, runtime, workflow host | `vendor/intx`, `apps/sidecar` (a vendored copy) | sessions, the reactor's conversation | not first-party |

How they interact: the allocation reconciler is the only caller of the
provisioner, one call at a time with retries and with a call it has given up
waiting for possibly still running. The provisioner and the sidecar meet only in
the operating system. Hubs that boot meet in Postgres. The director and the
`tool_search` tool meet in one process in a cell keyed on `globalThis`, the
person who answers an approval comes in through the reactor. Browser tabs meet
in the hub's HTTP interface and, within a tab, in TanStack Query's cache.

What is hard, and what would make each part correct:

- **Process provisioner.** Every `await` lets another call of the same
  allocation run: `destroy()` is never coalesced with the `ensure()` it fences,
  and two units of one generation share a directory and a pid file. An I/O
  operation may fail at every step and the hub may die between any two. Correct
  means: what the store has acknowledged stays in force; a confirmed destroy
  leaves nothing running; no running sidecar is out of reach; every call returns.
- **Boot migrations.** Several boots overlap, die in the middle, and belong to
  different releases; half the SQL cannot be repeated. Correct means: a boot
  can be repeated, a hub serves on whole schemas, no boot waits for ever.
- **Deferred tools.** The director decides at the time a search is asked for,
  the tool answers at the time it runs, and a person may be in between; the
  conversation outlives the director. Correct means: the block of tools only
  grows, nothing is sent twice, and what the model has been told it may call is
  offered.
- **Agent install.** Thirteen requests with no transaction around them, from any
  tab, while another install of the same agent may be under way, and a request the
  client has given up on may still be handled. Correct means: a valid bearer is
  not lost; a retry gets through whatever was left half done; an install that
  returned leaves an agent that can call the hub; no push undoes another.
- **Opening message and mailbox delivery.** A send outlives the page that started it,
  which is gone with every change of workbench, and the hub goes on triggering runs
  after the client has given up. Correct means: the message is kept until a send has
  reached every run it was addressed to; a send that was answered well is not repeated;
  a page that shows the message is never waiting for nothing and comes to an end with it.
- **MCP servers.** An add is up to six requests with an undo behind them, a removal
  two, and each ends in a redeploy of every workbench's Worker, which may itself add
  the built-in server; all this from several tabs. Correct means: what was added
  stays until it is removed, what failed is gone, every Worker carries the catalogue
  or is named as stale, and no failed operation blocks those queued behind it.
- **Model offerings.** A connect takes its provider back when the offering fails; an
  edit replaces an offering that deployed workers are pinned to, bench by bench, with
  a failure possible after each. Correct means: no worker is left pinned to an
  offering that is gone, no provider is left without an offering, and a retry gets
  through whatever was left half done.
- **Worker redeploy.** Two pages with rosters cached at different times decide by
  themselves to redeploy a dead agent, while the person restarts it or changes the
  catalogue. Correct means: one claim at a time, no redeploy of what runs or has just
  failed, and no page that shows "coming up" for ever.
- **Allocation reconciler.** Leases, timeouts, retries and late answers.

`PROJECT.json` lists every component and every hazard with the line where it
bites, and the properties that cover it.

## 2. The modules

| Module | Models | Properties | Proofs |
| --- | --- | --- | --- |
| `ProcessProvisioner` | `ensure()` and `destroy()` of one allocation | `TypeOK`, `FenceIsDurable`, `OrphanFree`, `DestroyedMeansGone`, `EventuallyGone`, `CallsReturn`, and one the code does not keep (`NoDuplicateUnits`) | `ProcessProvisionerProofs` |
| `BootMigrations` | `migrateHub` by several hubs | `TypeOK`, `BootsAreRepeatable`, `ServesWhole`, `BootsEnd` | `BootMigrationsProofs` |
| `DeferredTools` | the director and `tool_search` over one conversation | `TypeOK`, `GrowsWhileUp`, `FoundIsOffered`, `SentOnce` | `DeferredToolsProofs` |
| `AgentInstall` | several `installPackage` calls for one agent | `TypeOK`, `BearersAccounted`, `RetrySucceeds`, `SuccessServes`, `Published` | `AgentInstallProofs` |
| `McpServers` | the MCP catalogue and the redeploys that carry it, by several tabs | `TypeOK`, `BuiltInOnce`, `SettledCatalogue`, `FailedAddGone`, `AddedStays`, `QueueServed` | `McpServersProofs` |
| `OpeningMessage` | a parked message, from session storage to the hub's triggers | `TypeOK`, `SentAgainForCause`, `NeverStuck`, `KeptUntilReached`, `ShownIsResolved` | `OpeningMessageProofs` |
| `Outbox` | what is promised of a parked message; `OpeningMessage` implements it | | |
| `WorkerRedeploy` | one agent, two pages, the claim and the failure set of one tab | `TypeOK`, `ClaimExclusive`, `RedeploysOnce`, `Recovers` | `WorkerRedeployProofs` |
| `ModelOfferings` | connects, model edits and deployments over one catalog | `TypeOK`, `LivePins`, `EditServes`, `NoBareProvider`, `RetrySucceeds` | `ModelOfferingsProofs` |

Each module `M` but `Outbox` has an `MCM` that instantiates it for TLC.

How the modules meet: `AgentInstall` is the inside of the one request that a deployment
is in `McpServers`, `WorkerRedeploy` and `ModelOfferings`; `OpeningMessage` is client
and hub together, the page and `deliver` as actions over shared sends. What one module
takes as a single step (a deployment) is retriable and may fail, handled or not, in
all of them, which is what `AgentInstall` shows of it.

### 2.1 ProcessProvisioner

*State.* `records`, `initialized` and `stateFile` are the store's `state` map,
its `initialized` flag and `state.json`; the record keeps the sidecar identity,
the generation, the desired state and the external ref of the code. `unitDirs`
and `pidFiles` are the directories `gen-<g>` and their `sidecar.pid`; `live` is
what the operating system runs, as pairs of a generation and a pid. `inFlight` is
the entry of `inFlightEnsures`. Each call has a program counter `pc`, its request
`req`, and the locals that live across an await: `unit`, `todo` (entries
`findUnitsByAllocation` has still to read), `stops`, `cur`.

*Actions.* One for each stretch of code between two awaits, in the order of the
code: `Ensure`/`Destroy` (the entry points), `ObserveEnsure`, `MakeUnitDir`,
`SpawnSidecar`, `WritePidFile`, `AbortStart`, `RecordUnit`, `StopLateUnit`,
`RemoveLateUnit` (`ensureOnce`, `startUnit`), `ObserveDestroy` (`destroy`),
`ListUnits`, `ReadPidFile`, `TerminateUnit`, `RemoveUnit`, `Answer`
(`findUnitsByAllocation`, `sweepObsoleteUnits`, `stopUnit`). Failures are one
action for each operation that can throw, with everything the `catch` does.
`SidecarExits` and `HubCrash` are the environment's.

A store operation is one action because `runExclusive` chains all of them on one
promise and nothing else reads the map; a crash in the middle of one is the same
state as the completed or the not yet started operation followed by `HubCrash`
(a crash after the rename and before the in-memory update leaves the new file and
no memory). `writeFileAtomic` may fail before or after its rename, so
`StoreWriteFails` leaves either file.

*The caller.* `Order` says in which order requests arrive: `any` (repeated,
reordered, duplicated, what the store's comments promise to withstand),
`advancing` (a new generation for every ensure, no request older than one
already made, as the vendored allocation store mints them), `reconciler`
(moreover a destroy only follows its ensure, and the next generation is asked
for only once the previous one has been answered destroyed). In each of them
several calls run at once, since the reconciler gives up waiting for a call
without being able to cancel it.

*Simplifications.* One allocation (allocations share a queue and a file, not a
record). Every spawn gets a fresh pid. `terminate()` is one step at its end. The
request validators are left out, the hub never sends what they reject.

### 2.2 BootMigrations

*State.* `lock` is the Postgres advisory lock, `platform` how many statements of
the vendored platform SQL have been applied, `packages` the packages whose
repeatable migration has been applied. Each hub has `pc`, the `release` it runs
(so how many platform statements its image holds) and `next`, its place in the
loop. `torn` is history: the platform SQL was cut short by a failure, or a hub
lost the lock's connection and went on.

*Actions.* `Boot`, `AcquireLock`, `CheckPlatform` (`platformSchemaPresent` and the
branch on it), `ApplyStatement`/`EndPlatform` (`runMigrations`, one statement at
a time with no transaction around them, as vendored), `ApplyPackage`, `Unlock`,
then `Fails` (a query fails or the process dies, at any point, the statement in
flight applied or not) and `LosesLock`. Statement number `UserTable` creates the
table the check looks at; in the shipped SQL it is the third.

### 2.3 DeferredTools

*State.* `surfaced` and `catalog` are the director's insertion-ordered set and the
cell `tool_search` reads; `sent` is what the last inference was sent; `calls`,
`parked` are the reactor's calls of the current turn and those waiting for a
person; `found` (history) is what `tool_search` has told the model in this run
child.

*Actions.* `StartDirector`, `Message`, `InferenceDone` (with every sequence of up to
`MaxCalls` calls), `InferenceFails`, `ExecuteTools` (any subset of the calls gated
on a person), `Approve`, `Deny`, `Respawn`. `Surface`, `SurfaceTurn`, `Matches`,
`Always` and `Tools` are the code's functions as operators; `InOrder` is what each of
their filters keeps of the catalogue. Pattern and token matching are data: the
constants say which names are deferred and what a query hits. `ToolsAssumption` is what
the code makes sure of: building the agent throws on a repeated tool name
(`resolveTools`, `vendor/intx/agent/src/agent.ts:278-295`), and `tool_search` is not among the
deferred names, which the worker gives as names of other tools and `<server>.*`
(`packages/worker/src/definition-json.ts:36-44`).

### 2.4 AgentInstall

*State.* `hub` is what the hub keeps for one agent: the asset and the provider made,
the agent tokens not yet revoked (`bearers`), the row named
`agentHubCredentialName` (`credential`), the commits of `refs/heads/main` and the
deployments. An install's locals that live across an await are the row it listed
(`found`), the `hubCredentialId` of its tree (`named`) and the advertised commit
(`tip`); `at` is the request it is making. Whatever an install creates has a fresh
id, so the install's own name stands for it.

*Actions.* One for each request, in the order of the code, with all that follows its
answer: `EnsureAsset`, `ListProviders`, `CreateProvider`, `ListCredentials`, `Revoke`,
`Drop`, `Mint`, `Store` (`ensureAgentHubCredential`), `MintPushToken`, `Advertise`, `Push`,
`DeletePushToken`, `Deploy`. `Handle` and `Refuse` are the two answers the client tells
apart; `Break` is a request that fails, or a tab closed: the install is over, and
what it sent is lost or handled at any later time (`late`).

*The hub.* The routes are vendored or come from packages. What is relied on:
names of providers and credentials are unique in a tenant, deleting what is gone
answers 404, a push moves `main` from the advertised commit or is refused, a
deployment resolves the credential it binds by name while its tree requires the
use of one by id.

*Simplifications.* The trees of the two callers (`deployWorkerSource`,
`deployAgentSource`) each name a credential stored a moment before, so no tree
is pushed twice and the branches for an unchanged tree are unreachable. The push
token is not state: it opens nothing but the push. The list of credentials is
complete (the route returns 50 rows; see `hazards`). A 409 on the asset and the
list that follows are one step.

### 2.5 McpServers

*State.* `providers` and `creds` are the hub's rows of each handle, `workers` the
catalogue each bench's deployed Worker carries, `logins` the OAuth logins open at the
hub. The client has only `queue`, `ensureQueue` of each tab. `ops` holds, for each
operation, its request and the locals that live across an await (`providerId`,
`credentialId`, the list an ensure returns, the benches still to redeploy). History:
`newest`, `overlapped`.

*Actions.* `StartAdd`, `StartRemove`, `StartDeploy` begin an operation. An add or a
sign-in is `FindProvider`, `MakeProvider`, `Store` or `OpenLogin` with
`LoginCompletes`/`LoginFails`, `Poll` and `ReadCredential`, then `Discover`, `Record`, and
`Undo` on a failure (not on one of the two reads: those throw past it);
a removal is `DropCredential`, `DropProvider`; both go on with `ListBenches`,
`NextBench` and, for each bench, the ensure of the built-in server (`EnsureBuiltIn`
at the head of the tab's queue, which runs the add's own steps) and `Install`;
`Finish` ends it. Each request is answered, refused, handled with its answer lost, or
never handled (`Answers`). `Reload` ends every operation of a tab where it stands.

*Simplifications.* Of the routes: unique names, deletion by id, and a deleted
provider takes its credentials along. `installPackage` is one request. The two reads
of `listMcpServers` are one, since a provider is stored before its credential and
outlives it. URLs, secrets and the probe that fills in a name are left out.

### 2.6 OpeningMessage and Outbox

*State.* `started`, `live`, `roster`: the runs of each bench's agents, those alive and
those the cached participants show. `parked` is session storage. `page`, `session`,
`attempted` and `mutation` are the workbench page: the workbench it shows, the
`PendingOpeningMessageSession` with its timer, the ref `attemptedTenantId` and the
`useMutation` state. The page is keyed by its workbench (`workbench-page.tsx:530`), so all
three go with it, and a change of workbench is a `Leave` and an `Open`;
`syncPendingOpeningMessageSession` (`pending-opening-message.tsx:62-75`) never meets
another workbench and is no action. `sends` holds each send on its way through client and hub, `got`
the triggers that reached their run.

*Actions.* `Open`, `Leave`, `Reload` (navigation), `TimerFires`, `AutoSend` (the
effect), `Retry`, `Refresh` (the roster's poll); `Trigger` and `TriggerFails` (the hub's
`deliver`, one run at a time, which stops at the first failure); `Land`, `Settle`,
`Fail`, `LoseAnswer` (the answer and `onSuccess`/`onError`); `RunStarts`, `RunEnds`.

*Refinement.* `Kept == INSTANCE Outbox WITH Messages <- Benches, kept <- parked,
reached <- Reached`, where `Reached` are the workbenches one send of whose message
has reached every run it was addressed to. `Outbox` may forget only what was reached;
`KeptUntilReached` is `Kept!Spec`.

*Assumptions.* An effect runs before the person can press what its render shows. Runs
start only on the bench whose page is open, the others being as they were when it
is opened. A run that ends counts as a fault. People are not addressed by these
sends.

*Repeats.* `SentAgainForCause` says when the message is sent again: after a send that
failed in front of its page, or one unanswered when its page was left or reloaded. The
second is automatic: the new page's ref is empty, so A to B and back to A with A's send
on its way sends A's message again. What it rules out is a repeat of a send whose answer
was handled, at any point of its handling.

### 2.7 WorkerRedeploy

*State.* `failed` and `inFlight` are the two sets of `redeploy-failures.ts` for one agent
(nothing relates two agents). `roster` and `fetch` are, for each page, the cached
`listChatAgents` and the read under way; `page`, `started`, `busy` are what is mounted;
`run` is the agent's latest run at the hub; `tasks` are the redeploys, `last` history.

*Actions.* `Fire` (`AgentRedeployer`'s effect with its claim, granted or not), `Restart`,
`CatalogueChanges`; `Settles`, `CatalogueEnds`, `AnswerLost`, `OrphanEnds`;
`Poll`, `Reread`, `Lands`, `ReadFails`; `GoTo`, `Reload`; `RunUp`, `Dies`, `DiesQuickly`.

*Assumptions.* A deployment is one step of the hub, at its end; a reload leaves it an
orphan that still ends. Time is only whether a run died within two minutes of its
start. `Dies` waits until no open page is due to poll: a run that has lived two minutes has
been seen alive by whatever page polls every three seconds.

### 2.8 ModelOfferings

*State.* `hub` is the catalog provider, its offerings (an id and a model), the benches,
and for each bench the offerings its worker is pinned to. `at` is the request each
operation is making or how it ended, `job` what it is and knows (the offering it
replaces, the one it minted, the benches still to look at, the list it deploys).
History: `met`, the pairs that ran at the same time, and `stale`, the edits saved over
an offering that was gone by then. What an operation creates is named after it.

*Actions.* One for each request: `Connect`, `PrepareRows`, `EnsureModelProvider`,
`EnsureOffering`, `Rollback` (`shadowOffering`); `OpenDialog`, `SaveModel`, `ListBenches`,
`Swap`, `Redeploy`, `RetireOffering` (the edit, with `swapDeclaredOffering`); `CreateBench`,
`Restart`, `Resolve`, `Deploy` (the deployments). `Effect(o)` is what the hub does with
the request `o` is making, and `Break` is any of them failing with or without it.

*Disturbed.* The edit reads a bench's worker, redeploys it, and retires the old offering
after the last bench, so a deployment, or an edit of another offering, that runs
meanwhile may pin the old one again; and a connect that takes its provider back may
take what another connect has put there. Those overlaps are what `Disturbed` names;
`LivePins` and `NoBareProvider` are claimed outside them, and hold there whatever fails.

*Simplifications.* One provider name with one credential. Benches are children of the
workspace with no offerings of their own, all owned by the person. Only default
workers are deployed: the edit moves no other agent. The order of offerings, so the
default source of a deployment, is left out. `installPackage` is one request;
`listChatAgents` and the resolution of the declared offerings are one read.

## 3. The runs

Every passing run has a small seeded fault for each of its properties (the
`mutants` of `PROJECT.json`) that makes the property fail.

| Run | Question | Instance | Result |
| --- | --- | --- | --- |
| `orphans` | With one I/O failure and one crash anywhere: is the fence durable, and is every running sidecar reachable? | 3 calls, generations 1–3, `advancing` | holds |
| `fence` | Without failures, in every interleaving: does a confirmed destroy leave nothing running, for good? | 3 calls, generations 1–3, `advancing` | holds |
| `retry` | The same with one I/O failure and the reconciler's retries | 4 calls, generations 1–4, `reconciler` | holds |
| `returns` | Does every call return, coalesced ones included, with a failure and a crash? | 3 calls, one generation, 2 sidecar identities, `any` | holds |
| `duplicates` | Do racing ensures never start two sidecars of one generation? | 3 calls, no failure | violated |
| `boot` | Overlapping, failing, repeated boots | 2 hubs, releases of 4 and 5 statements, 2 packages, 4 boots, 2 faults | holds |
| `tools` | Parked calls, overlapping searches, a respawn | 5 tools, 3 queries, 4 turns of up to 2 calls, 1 respawn, 1 parked call | holds |
| `install` | Installs of one agent, together or one after the other, with failing and late requests | 3 installs, 3 faults | holds |
| `mcp` | The MCP catalogue and the Workers under concurrent adds, sign-ins, removals and deploys | 2 operations, 2 tabs, 2 handles, 2 benches, 1 fault | holds |
| `opening` | Is the opening message kept until delivered, repeated only for a cause, never stuck, and resolved in time? And the refinement of `Outbox` | one bench with 2 agents, one whose agent never comes up, 1 run each, 2 exits or reloads, 1 Retry, 1 fault | holds |
| `redeploy` | The claim, the failure set and two cached rosters; does a dead agent recover or offer Restart? | 2 redeploys at once, 1 ask, 1 death, 1 fault | holds |
| `models` | Connects, edits and deployments, overlapping, failing, retried | 3 operations, 3 models, 2 benches, 1 fault | holds |

Why the bounds are enough. *Provisioner*: three calls are the least with which
one ensure can be tracked, a second queued behind it and a third (a destroy)
interleaved with both; three generations let a sweep have an older unit to stop
while a newer one is fenced. `retry` has a fourth call so that a destroy can fail
and be repeated after an ensure that failed. `returns` needs only one generation,
since only same-generation ensures queue, and takes order `any`, with a second sidecar
identity so that refused calls are among them. One fault and
one crash put a failure at each point of each call; a second fault repeats what
a retry meets. *Migrations*: four boots let both hubs boot twice, two faults let
a repair itself be interrupted; two releases with one statement between them give
"absent", "old", "new", and the user table in the third place gives a database cut
short before and after it. *Tools*: two namespaces whose members interleave in
the catalogue, a query that hits each, one that hits nothing, the empty query and
a malformed one; two calls in a turn are the least in which their order matters.
*Installs*: two that overlap and a third that runs alone on what they left, one
fault for each. *MCP servers*: two operations overlap in every way, in one tab or in
two, and each redeploy of a bench is itself an ensure that queues; the second handle is
the built-in server, which an operation adds on the way. A third operation repeats
what an ended one left for a second. *Opening message*: one bench whose send has two
runs to reach, so that a trigger can fail between them, and a second bench to go to,
whose agent never comes up, so that its message meets the cap; two exits (there and back,
or a reload) and one Retry give four sends. *Redeploys*: the two pages' automatic
redeploys, or one and a Restart or a change of the catalogue, are the two that can
be under way; one death makes an agent that came up again die again. *Models*: two
operations that overlap and a third that finds what they left; three models, so that
two edits can ask for different ones; from a new workspace, and from one connected
before with workers on some of its benches. The theorems of section 4 lift the
bounds of every module that has any.
`SYMMETRY` is used only in runs without liveness, on values that no other constant
names: calls, installs, operations, tabs, benches and models.

`CHECK_DEADLOCK FALSE` in every configuration: calls, boots and turns are
bounded, so each instance ends; so are installs, operations and navigation.

*Fairness.* `WF_vars(Step(c))`: the hub's event loop runs every call whose
awaited operation has completed; nothing forces a request, a failure, an exit or
a crash, and an I/O operation always completes one way or the other. In
`BootMigrations`, `WF` on the steps under the lock for the same reason, and `SF`
on `AcquireLock`, since `pg_advisory_lock` queues its waiters and other boots may
take the lock in between. A hub that holds the lock may still fail at every
step; the liveness property says others do not wait for it for ever.
In `WorkerRedeploy`, `WF` on `Fire` (React runs an effect after its render), on
`Ends(t)` (a request is answered or fails), on `Poll(v)` and `Lands(v)` (the query's
interval, and its read is answered or fails). Nobody need navigate or press anything, a
deployment need not come up, a claim need not be granted. In `OpeningMessage`, `FairSpec` adds `WF` on
`AutoSend` (React runs the effect of a render), on `TimerFires` (`setTimeout`), and for each
send on `Hub(s)` (the hub works its triggers off, well or not) and `Answer(s)` (the client
handles the answer): nobody need come back, press Retry or start an agent, and the roster
may stay stale. The other modules state no fairness and no liveness: what waits there,
waits for a person or for an outage to end, and `QueueServed` says as an invariant that
nothing else is waited for.

### What the violated run shows

`duplicates` contradicts a sentence of the repository, quoted in `findings`: an
`ensure()` that finds a call in `inFlightEnsures` awaits it and then runs `ensureOnce`
without tracking itself. Two that waited for the same call run at once, and when the
first failed before recording its unit each starts a sidecar.

### Disagreements without a run

One step, or a state that a property of a passing run already excepts, shows each of
these; no search is needed.

- The pid file is the only way from an allocation to its process and is written after
  the spawn (`process.ts:595`): a hub that dies in between leaves a sidecar that the
  next `destroy()` does not find, and confirms, against `contracts.ts:55-58`.
  `OrphanFree` excepts exactly this.
- `observeEnsure` compares sidecar identities before generations (`process.ts:258`), so
  a replacement, which has a new identity (`contracts.ts:16`), is a `request_conflict`.
- The check for the `"user"` table is all-or-nothing (`migrate.ts:72`), so a newer release
  does not apply the platform statements it adds, against `docs/local-dev.md:24-33`.
- A new run child starts with an empty surfaced set (`director.ts:55`), so the tools block
  may shrink within a conversation, against `ARCHITECTURE.md:74-77`.
- `findUnitsByAllocation` skips a directory without a live process (`process.ts:665`), so
  a start that failed after `mkdir` leaves state that `contracts.ts:101-102` says is gone.
- `generationOf` refuses generation 0 (`process.ts:483`), which a probe uses, so a probe's
  destroy without its ref finds nothing, against `contracts.ts:173-174`.
- For a query that is no string the director surfaces everything while the tool answers
  an error (`director.ts:106`), against `match.ts:1-4`.
- Every deploy of a Worker ensures the built-in MCP server (`mcp-servers.ts:540`), the
  redeploys that end its removal included, so removing it adds it again, against
  `mcp-servers.ts:509-511`.
- A deployment that overlaps an edit may pin the offering the edit then retires, and a
  hand-authored agent is not moved off it (`credentials-section.tsx:218-220`), against
  `settings/inference/api.ts:218-219`. `Disturbed` names the overlaps.
- A repeated connect succeeds and keeps the first key (`settings/inference/api.ts:375`).
- Retry pressed with no agent live takes back the cap whose timer runs only once, so
  the message is shown as coming for good (`pending-opening-message.tsx:2-3`).
  `NeverStuck` and `ShownIsResolved` except it as `CapTakenBack`.
- A page reopened while an earlier page's send is unanswered sends the message again
  by itself (`pending-opening-message.tsx:129`, the ref is the new page's), and may say
  "This message hasn't been sent yet" (`pending-opening-message.tsx:150`) of a message
  that the earlier send has delivered. `SentAgainForCause` counts that send as a cause.
- A sign-in whose login has completed and whose read of the status or of the credentials
  then fails (`mcp-servers.ts:457`, `:470`) throws with no undo and leaves the login's
  credential, against `mcp-servers.ts:370` (a failed add leaves nothing behind). No
  catalogue shows the row. `FailedAddGone` excepts it, and only it.

## 4. The proofs

The proofs hold for every value of the constants that satisfies the named
assumption of the module, in particular for any number of calls, hubs,
generations, failures and crashes.

**`ProcessProvisionerProofs`**, from `ConstantsAssumption`.

- `TypeCorrect`: `Spec => []TypeOK`. The content is in `stops`: a call only ever
  signals a unit with a positive pid, because `readPidFile` and `parseExternalRef`
  refuse every other.
- `FenceDurable`: `Spec => []FenceIsDurable`. By itself the property is not
  inductive: that a write keeps the newest acknowledged record depends on the
  file never being behind the memory. The inductive invariant `StoreInv` adds that
  memory, once initialised, never ranks above the file (it is below only after a
  write that failed past its rename), and the lemmas on the verdicts say that
  `observeEnsure`, `observeDestroy` and `recordUnit` write only upwards.
- `NoOrphans`: for the orders in which every ensure has a new generation,
  `Spec => []OrphanFree`. The inductive invariant `OrphanInv` adds that one
  generation has at most one spawning call, that a call past its spawn holds a pid
  nobody else has, and that whoever is about to remove a directory has already
  stopped the only unit in it.

- `DestroysComplete`: `Steadily /\ Spec => []DestroyedMeansGone`. `Steadily` is a hub
  that stays up (a crash between a spawn and its pid file does leave a sidecar, see
  `OrphanFree`), no generation 0, which has no directory name, and either the order of
  the reconciler with I/O failures anywhere (run `retry`), or any order of advancing
  generations without them (run `fence`). `Standing` is the invariant of both cases.

  *In the reconciler's order* an ensure of a newer generation comes once the older is
  destroyed (`OneAtATime`). The heart of the invariant `DestroyInv` is `Covered`: a unit that a confirmed destroy
  ought to have stopped is always on its way out by one of three hands. Its own ensure
  has not been let through yet, and `recordUnit` will refuse it, since the store ranks
  at least as high as the destroy (`Fenced`); or the destroy has still to list and read
  the directory the unit is in (by `OrphanInv` it is in one); or the unit is among
  those it has read and is about to stop. A destroy that brings a ref skips the
  directories, so that ref must be the only unit left: only the newest ensure can
  have one that was let through (`OnlyTheNewest`), and the refs in the record and in
  the request are of the newest generation (`RecordIsNewest`, `RequestIsNewest`).

  *In the other orders* ensures overlap, so a destroy that brings a ref and skips the
  directories may leave an older unit that an ensure's sweep has still to stop. `Covered`
  is false there, and the invariant `SweepInv` says instead of *every* running unit that
  it is being started, is the one the store wants to run, is on the list of somebody's
  sweep or destroy, or has the sweep of a starting ensure still to come (`Swept`). A
  sweep to come must come: no start is abandoned, since nobody knows a unit before its pid
  file is written and so nobody removes its directory (`StartsUnseen`); and the ref a
  destroy brings is the record's, unless the destroy is stale (`NewestIsRecorded`,
  `RequestIsCurrent`). A sweep that fails really does break this, for want of a retry:
  that is why failures are left to the reconciler's order. TLC checked `SweepInv` on
  the bounds of `fence`, and with a fourth call and a second sidecar identity.

**`BootMigrationsProofs`**, from `BootAssumption`.

- `TypeCorrect`: no more platform statements are ever applied than some release has.
- `BootsRepeat` and `ServedWhole`: `Spec => []BootsAreRepeatable` and
  `Spec => []ServesWhole`. The inductive invariant `BootInv` has two parts. What
  holds whatever happens: a hub applies the packages in order and leaves none out
  (`PackagesInOrder`). What holds until the platform SQL is cut short or the lock
  lost: whoever migrates holds the lock, a hub inside the platform SQL has applied
  every statement so far itself, outside it the schema is absent or whole, and past
  it nobody is in it (`Untorn`). Without `InStep` a second hub could have moved
  `platform` under the first; without `WholeOrNone` the check on one table would say
  nothing about the others.

**`AgentInstallProofs`**, from `InstallAssumption`, for any number of installs and
failed requests. All five properties of the run `install` are theorems.

- `TypeCorrect`.
- `BearersKept`: `Spec => []BearersAccounted`. The inductive invariant `BearerInv` adds
  that an install about to drop a row has seen its bearer dead (`DropsDead`), and
  that a row stored or listed records a bearer minted by then (`RowsAreMinted`):
  without it a revoked bearer might still be minted, by a request that lands late.
- `RetriesSucceed`, `SuccessIsServed`: `Spec => []RetrySucceeds` and
  `Spec => []SuccessServes`, both from `SoloInv`: what an install that runs alone has
  learnt of the hub is still so (`Undisturbed`), because any other with a request
  out would make it not alone (`MoveKeeps`, `StopKeeps`).
- `PublishedStays`: `Spec => []Published`. A push appends (`PushAppends`), no other
  step touches `main`, and only a deployment of a pushed commit adds one.

**`OpeningMessageProofs`**, from `OpeningAssumption`, for any number of workbenches,
agents, sends and faults. Four of the five properties of the run `opening` are theorems.

- `TypeCorrect`.
- `ImplementsOutbox`: `Spec => Kept!Spec`. Every step maps to `Reach`, `Forget` or a
  stutter, from `HubInv`: a send that the hub has accepted, and so one that may make the
  client forget, has reached all its runs (`SendsDelivered`), and triggers are made only
  by sends that were made (`TriggersMade`).
- `RepeatsHaveCauses`, `ShownIsMoving`: `[]SentAgainForCause`, `[]NeverStuck`, from
  `PageInv`, which adds what ties the page's state to the sends: a page of a workbench
  whose message is parked shows it (`SessionOfPage`); a send that has landed has
  cleared its message, and one the page still waits for is the one its mutation shows
  (`Watched`); the mutation is a send of this page, of the workbench the ref names, and
  is there just when the ref is set (`MutationOfRef`). So the effect, which asks for an
  empty ref, and Retry, which asks for a failure or for no agent and a message still
  shown, find no send of this page that was answered well.

**`WorkerRedeployProofs`**, from `RedeployAssumption`, for any number of redeploys,
deaths and faults. `Spec` here includes its fairness, which the proofs do not use.

- `TypeCorrect`; `ClaimIsExclusive`: `[]ClaimExclusive`, inductive with the types.
- `RedeploysOnlyTheDead`: `Spec => RedeploysOnce`, from `RosterInv`: a roster read since
  the latest redeploy that shows "auto" is of a dead run whose redeploy did not fail
  (`RostersTrue`), and a failure stays in the set while it is the latest
  (`FailuresKept`).

**`ModelOfferingsProofs`**, from `OfferingsAssumption`, for any number of operations,
models, benches and failed requests. All five properties of the run `models` are
theorems.

- `TypeCorrect` and `ProvidersServe` (`[]NoBareProvider`), from `CatalogInv`, what holds
  whatever overlaps: an operation makes the requests of its kind, an id is fresh until
  its request is handled and does not come back, a provider is there only while or
  after its own connect, and an edit replaces an offering of another model than it asks
  for.
- `WorkersStayPinned`: `Spec => []LivePins`. The inductive invariant adds `PinInv`,
  outside the disturbing overlaps: the offering an edit moves to exists (`NewLive`), the
  workers still on the old one are those the edit has yet to move (`OldLeft`), so that
  none is left when it is retired, and a connect that can take back its provider has
  no worker to harm (`NoWorkers`). `DisturbedStays`: an overlap of those kinds stays one,
  so the invariant need not hold again after it.
- `RetriesSucceed`, `EditsServe`: `[]RetrySucceeds` and `EditServes`, from `AloneInv`: what
  an operation that has met no other knows of the hub is still so (`Steady`).

The steps are split once (lemma `Cases`) into those that open a dialog, begin an
operation, or carry one on, and the hub's changes are stated field by field
(`HubMoves`, `LiveMoves`).

**`McpServersProofs`**, from `McpAssumption`, for any number of operations, tabs,
servers, benches and faults. All six properties of the run `mcp` are theorems.

- `TypeCorrect`, `FailedAddsGo` (`[]FailedAddGone`) and `AddedServersStay`
  (`[]AddedStays`), from `CatalogueInv`. Its parts: an operation has the locals its step
  needs (`Placed`); ids are given out once and a credential is on its server's provider
  (`Rows`); a credential belongs to the one operation that stored it (`Owned`) and is of
  the server that operation adds (`InPlace`); a login the hub has open is of a sign-in
  that waits for it or has ended (`LoginsWait`); until the catalogue is discovered a
  sign-in's credential is the login's own row (`LoginRows`), because the tools of a row are
  recorded by its own operation alone (`Listing`): that is what a sign-in that fails on
  a read leaves, and no more. Every step is one change of the hub
  (`HubMoves`) and one operation's move (`Moves`), and a row is lost only by its own
  operation's undo or by a removal that names it (`Losses`).
- `QueueMoves`: `[]QueueServed`, from `Queued`: a tab's queue holds its ensures, each
  once, and all but the first wait.
- `EnsuresInTurn`: `[]BuiltInOnce`, from `CalmInv`. The queue gives the tab one ensure at
  a time (`OneEnsure`), so what it has read of the built-in server's rows is still
  so when it writes them (`Knows`), and the row has its tools whenever no ensure is at it
  (`RowListed`). An unanswered request ends `Calm`: it may have left a row
  whose tools nobody discovers.
- `ChangesAreCarried`: `[]SettledCatalogue`, from `SoloInv`. A bench that is behind an
  operation has the present catalogue, or no Worker, or is named. That would break when
  the redeploy of a later bench adds the built-in server; but then no bench before it can
  have been deployed, since every deploy that succeeds has listed it (`Carries`).

**`DeferredToolsProofs`**, from `ToolsAssumption`: for a catalogue of any length, any
namespaces and hits, and turns of any number of calls.

- *What the operators compute.* `InOrder` and `SurfaceTurn` are recursive functions over
  the positions of a sequence. The library's induction theorems take an operator as a
  parameter, which no installed prover can instantiate, but induction over a *set* of
  numbers needs none: `LeastElement` (a nonempty set of naturals has a least member, from
  `WFMin`) gives `SetInduction`, and from it `Iterates`, that a recursion over 0..n has
  a solution and just one. Then `InOrderKeeps` says what a filter keeps (a sequence without
  repetition of exactly the names of its set), `SurfaceGrows` that a search appends new
  names and surfaces all it matches, and `TurnGrows` that a turn does so for each of its
  searches, in order: what one search surfaced stays under the ones after it.
- `TypeCorrect`, `SearchedIsSent`, `NoToolTwice` and `BlockOnlyGrows`: all four properties
  of the run `tools`. By itself `FoundIsOffered` is not inductive: a call is executed,
  or approved, long after the turn that asked for it. The inductive invariant
  `IInv` adds that a call being executed, or parked by this child, is of a turn whose
  searches are surfaced (`Surfaced`), that a child that is down has nothing surfaced and
  nothing found, and that an inference under way was sent the tools of the present state.
  A call parked by an earlier child is told from those by its turn (`born`), and nothing is
  claimed of it. TLC checked `IInv` on the run's bounds before it was proved.

Only model-checked: the liveness properties (`CallsReturn`, `EventuallyGone`,
`BootsEnd`, `Recovers`, `ShownIsResolved`), because TLAPS has no rules for fairness and ENABLED here. Every
invariant and action property of the passing runs is a theorem.

## 5. What is not modelled

The map covers the code with state that an order of steps, a failure or another actor
can disturb. That is a small share of the repository: most of the rest is React
components, styling, stateless handlers, configuration and two vendored copies of
Interchange code, for which a state machine would say nothing that the types or a
unit test do not.

- Interchange (`vendor/intx`) and the sidecar app (a vendored copy), except where
  first-party code calls it or is called by it: the reconciler's order of requests, the
  reactor's order of events, `runMigrations`, the hub's routes as their callers rely on
  them.
- In mailbox delivery: `persistMail`, which no send of this client reaches, and the
  authorisation of senders.
- Around an install: the schedule and the roles assigned after it; the conversion of a
  thread that starts an agent (`needs-converge.ts`).
- Around model offerings: deleting a credential, signing in again, reordering and
  restricting offerings, an offering that a bench shadows, the OAuth login before a
  connect.
- Approvals and the working status that the client derives: read-only projections whose
  exactness nothing promises. The library editor's save state; the persistence of
  the query cache.
- Pages, shell, settings and styling; stateless handlers (`run-stream.ts`,
  `workflow-run-authenticator.ts`, `static-web.ts`), the worker's definition, the error
  sink's redaction, the scripts.
- In the provisioner: reuse of pids by the operating system, the environment handed
  to a sidecar, the probe's generation 0.
- In the migrations: what the SQL does. In the tools: glob and token matching,
  compaction (the director keeps its set across it). In an install: pages of the
  credential list.

## 6. Plan

Done: `ProcessProvisioner`, `BootMigrations`, `DeferredTools`, `AgentInstall`,
`McpServers`, `OpeningMessage` with `Outbox`, `WorkerRedeploy`, `ModelOfferings`, and the
proofs of every safety and action property their runs check.

Next, in this order:

1. `SidecarAllocation`: the vendored reconciler and the allocation store, composed with
   `ProcessProvisioner` (its `Order` becomes a theorem instead of a constant), which
   replaces the run `retry`.
2. An abstract fence (a register of ranks that only moves up) that the provisioner's
   store implements under a refinement mapping.

Runs are kept few: one for each question. A new module brings one passing run, and
takes the place of `retry` or of `duplicates` once its finding is settled.
