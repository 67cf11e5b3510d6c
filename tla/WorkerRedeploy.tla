--------------------------- MODULE WorkerRedeploy ---------------------------
(***************************************************************************)
(* How one browser tab puts a dead agent back to work: by itself from the  *)
(* chat page and from the workers list (apps/web/src/agent-redeployer.tsx, *)
(* chat/redeploy-failures.ts), on the person's Restart                     *)
(* (use-restart-agent.ts), and after a change of the MCP catalogue, which  *)
(* goes round the claim (tools/mcp-servers-query.ts).                      *)
(*                                                                         *)
(* Each page decides by its own cached roster of agents, read at another   *)
(* time than the other's.  A redeploy outlives the page that started it.   *)
(*                                                                         *)
(* Abstracted: a redeploy to one step of the hub (AgentInstall and         *)
(* McpServers are its inside); time to whether a run died within two       *)
(* minutes of its start; the three lists a roster is made of to one read.  *)
(***************************************************************************)
EXTENDS Naturals

CONSTANTS
    None,       \* no fetch under way
    Slots,      \* bound on redeploys under way at once
    MaxAsks,    \* bound on Restarts and changes of the catalogue
    MaxDeaths,  \* bound on runs that die
    MaxFaults   \* bound on failed requests and reloads

ASSUME RedeployAssumption ==
    Slots \in Nat /\ MaxAsks \in Nat /\ MaxDeaths \in Nat /\ MaxFaults \in Nat

Views == {"chat", "workers"}
Tasks == 1 .. Slots

VARIABLES
    run,      \* the agent's latest run at the hub
    failed,   \* redeploy-failures: failed
    inFlight, \* redeploy-failures: inFlight
    roster,   \* what each page's cached roster shows of the agent
    fetch,    \* each roster's read under way, or None
    page,     \* the page that is open
    started,  \* AgentRedeployer's ref on that page
    busy,     \* the Restart pending on that page, or 0
    tasks,    \* the redeploys
    asks, deaths, faults,
    last      \* history: whether the latest redeploy failed

cache  == <<roster, fetch>>
mounts == <<page, started, busy>>
bounds == <<asks, deaths, faults>>
vars   == <<run, failed, inFlight, cache, mounts, tasks, bounds, last>>

Runs   == {"starting", "live", "dead", "quick"}
Modes  == {"starting", "live", "auto", "manual"}
(* Read since the latest redeploy ended, or before? *)
Ages   == {"fresh", "old"}
Entry  == [shows : Modes, age : Ages]
Read   == [run : Runs, age : Ages]
Task   == [kind : {"none", "auto", "restart", "catalogue"},
           at : {"idle", "deploying", "orphan"},
           claim : {"kept", "released"}]  \* has another redeploy released this one's claim

-----------------------------------------------------------------------------
(* listChatAgents and redeployMode: what a read of the hub shows *)
Shown(r) ==
    CASE r \in {"live", "starting"}      -> r
      [] r = "quick" \/ failed = "yes"   -> "manual"
      [] OTHER                           -> "auto"

Deploying(t) == tasks[t].at = "deploying"

Spends == faults < MaxFaults /\ faults' = faults + 1

Idle == [kind |-> "none", at |-> "idle", claim |-> "kept"]

(* Redeploy t begins. *)
Begins(t, kind) ==
    /\ tasks[t] = Idle /\ \A u \in Tasks : u < t => tasks[u] # Idle
    /\ tasks' = [tasks EXCEPT ![t] = [kind |-> kind, at |-> "deploying", claim |-> "kept"]]

Asks == asks < MaxAsks /\ asks' = asks + 1

\* Mutant of Fire: nobody looks at the claim.
FireUnclaimed ==
    /\ page \in Views
    /\ roster[page].shows = "auto"
    /\ started = "no"
    /\ started' = "yes"
    /\ inFlight' = "yes"
    /\ (\E t \in Tasks : Begins(t, "auto"))
    /\ UNCHANGED <<run, failed, cache, page, busy, bounds, last>>

(* AgentRedeployer's effect: a refused claim is not asked for again. *)
Fire ==
    /\ page \in Views
    /\ roster[page].shows = "auto"
    /\ started = "no"
    /\ started' = "yes"
    /\ IF inFlight = "no"
       THEN inFlight' = "yes" /\ (\E t \in Tasks : Begins(t, "auto"))
       ELSE UNCHANGED <<inFlight, tasks>>
    /\ UNCHANGED <<run, failed, cache, page, busy, bounds, last>>

(* The Restart button of either page *)
Restart ==
    /\ page \in Views
    /\ roster[page].shows = "manual"
    /\ busy = 0
    /\ Asks
    /\ \E t \in Tasks : Begins(t, "restart") /\ busy' = t
    /\ UNCHANGED <<run, failed, inFlight, cache, page, started, deaths, faults, last>>

(* redeployWorkspaceWorkers reaches this agent. *)
CatalogueChanges ==
    /\ Asks
    /\ \E t \in Tasks : Begins(t, "catalogue")
    /\ UNCHANGED <<run, failed, inFlight, cache, mounts, deaths, faults, last>>

-----------------------------------------------------------------------------
(* A redeploy ends.                                                        *)

(* The deployment is made, or is not. *)
Deployed(ok) ==
    IF ok THEN run' \in {"starting"} \cup ({"live"} \cap {run}) ELSE UNCHANGED run

\* Mutant of Marked: a failure is not kept.
MarkedNever(ok) == failed' = "no" /\ last' = IF ok THEN "none" ELSE "failed"

(* clearRedeployFailure, markRedeployFailed *)
Marked(ok) ==
    /\ failed' = IF ok THEN "no" ELSE "yes"
    /\ last' = IF ok THEN "none" ELSE "failed"

Aged == [v \in Views |-> [roster[v] EXCEPT !.age = "old"]]

(* invalidateQueries: both rosters have observers in the sidebar; a read   *)
(* under way is cancelled and begun again.                                 *)
Refetched == fetch' = [v \in Views |-> [run |-> run', age |-> "fresh"]]

(* onSettled: the claim is released, whoever took it. *)
Released(t) ==
    /\ inFlight' = "no"
    /\ tasks' = [u \in Tasks |->
          IF u = t THEN Idle
          ELSE IF Deploying(u) THEN [tasks[u] EXCEPT !.claim = "released"] ELSE tasks[u]]

(* A redeploy of useRestartAgent ends. *)
Settles(t, ok) ==
    /\ Deploying(t)
    /\ tasks[t].kind \in {"auto", "restart"}
    /\ Deployed(ok)
    /\ Marked(ok)
    /\ Released(t)
    /\ roster' = Aged
    /\ Refetched
    /\ busy' = IF busy = t THEN 0 ELSE busy
    /\ UNCHANGED <<page, started, bounds>>

(* A redeploy of the Tools page ends: no claim, and no read of the agents. *)
CatalogueEnds(t, ok) ==
    /\ Deploying(t)
    /\ tasks[t].kind = "catalogue"
    /\ Deployed(ok)
    /\ Marked(ok)
    /\ tasks' = [tasks EXCEPT ![t] = Idle]
    /\ roster' = Aged
    /\ fetch' = [v \in Views |-> IF fetch[v] = None THEN None ELSE [fetch[v] EXCEPT !.age = "old"]]
    /\ UNCHANGED <<inFlight, mounts, bounds>>

(* The hub has deployed, the client is told it failed. *)
AnswerLost(t) ==
    /\ Deploying(t)
    /\ Spends
    /\ Deployed(TRUE)
    /\ Marked(FALSE)
    /\ IF tasks[t].kind = "catalogue"
       THEN /\ tasks' = [tasks EXCEPT ![t] = Idle]
            /\ fetch' = [v \in Views |-> IF fetch[v] = None THEN None ELSE [fetch[v] EXCEPT !.age = "old"]]
            /\ UNCHANGED <<inFlight, busy>>
       ELSE /\ Released(t)
            /\ Refetched
            /\ busy' = IF busy = t THEN 0 ELSE busy
    /\ roster' = Aged
    /\ UNCHANGED <<page, started, asks, deaths>>

-----------------------------------------------------------------------------
(* The rosters                                                             *)

\* Mutant of Polls: the pages poll while an agent is starting.
PollsStarting(v) ==
    /\ roster[v].shows = "starting"
    /\ v = "chat" => page = "chat"

(* refetchInterval *)
Polls(v) ==
    /\ roster[v].shows \in IF v = "chat" THEN {"starting", "auto"} ELSE {"starting", "auto", "manual"}
    /\ v = "chat" => page = "chat"

StartsRead(v) ==
    /\ fetch[v] = None
    /\ fetch' = [fetch EXCEPT ![v] = [run |-> run, age |-> "fresh"]]
    /\ UNCHANGED <<run, failed, inFlight, roster, mounts, tasks, bounds, last>>

Poll(v) == Polls(v) /\ StartsRead(v)

(* A page is focused, mail arrives, an entry has become stale. *)
Reread(v) == StartsRead(v)

\* Mutant of Lands: a failed read leaves an entry without data.
LandsEmpty(v) ==
    /\ fetch[v] # None
    /\ roster' = [roster EXCEPT ![v].shows = "none"]
    /\ fetch' = [fetch EXCEPT ![v] = None]
    /\ UNCHANGED <<run, failed, inFlight, mounts, tasks, bounds, last>>

(* A roster is replaced; a redeployer whose agent is not listed any more   *)
(* unmounts.                                                               *)
Lands(v) ==
    /\ fetch[v] # None
    /\ roster' = [roster EXCEPT ![v] = [shows |-> Shown(fetch[v].run), age |-> fetch[v].age]]
    /\ fetch' = [fetch EXCEPT ![v] = None]
    /\ started' = IF v = page /\ Shown(fetch[v].run) # "auto" THEN "no" ELSE started
    /\ UNCHANGED <<run, failed, inFlight, page, busy, tasks, bounds, last>>

(* A read fails after its retries; what was cached stays. *)
ReadFails(v) ==
    /\ fetch[v] # None
    /\ Spends
    /\ fetch' = [fetch EXCEPT ![v] = None]
    /\ UNCHANGED <<run, failed, inFlight, roster, mounts, tasks, asks, deaths, last>>

-----------------------------------------------------------------------------
(* The person goes to another page: hooks and refs are new, what was       *)
(* started goes on.                                                        *)
GoTo(p) ==
    /\ p # page
    /\ page' = p
    /\ started' = "no"
    /\ busy' = 0
    /\ UNCHANGED <<run, failed, inFlight, cache, tasks, bounds, last>>

(* The tab is reloaded: the sets are module state, the caches persist, and *)
(* what was started is left to the hub.                                    *)
Reload ==
    /\ Spends
    /\ failed' = "no"
    /\ inFlight' = "no"
    /\ started' = "no"
    /\ busy' = 0
    /\ fetch' = [v \in Views |-> None]
    /\ tasks' = [t \in Tasks |-> IF Deploying(t) THEN [Idle EXCEPT !.at = "orphan"] ELSE tasks[t]]
    /\ last' = "none"
    /\ UNCHANGED <<run, roster, page, asks, deaths>>

(* The hub handles, or never gets, a redeploy whose tab is gone. *)
OrphanEnds(t, ok) ==
    /\ tasks[t].at = "orphan"
    /\ Deployed(ok)
    /\ tasks' = [tasks EXCEPT ![t] = Idle]
    /\ roster' = Aged
    /\ fetch' = [v \in Views |-> IF fetch[v] = None THEN None ELSE [fetch[v] EXCEPT !.age = "old"]]
    /\ UNCHANGED <<failed, inFlight, mounts, bounds, last>>

-----------------------------------------------------------------------------
(* The hub                                                                 *)

RunUp ==
    /\ run = "starting"
    /\ run' = "live"
    /\ UNCHANGED <<failed, inFlight, cache, mounts, tasks, bounds, last>>

DiesQuickly ==
    /\ run \in {"starting", "live"}
    /\ deaths < MaxDeaths
    /\ deaths' = deaths + 1
    /\ run' = "quick"
    /\ UNCHANGED <<failed, inFlight, cache, mounts, tasks, asks, faults, last>>

(* A run that has lived for two minutes has been seen by whatever page     *)
(* polls every three seconds.                                              *)
Dies ==
    /\ run = "live"
    /\ \A v \in Views : ~Polls(v)
    /\ deaths < MaxDeaths
    /\ deaths' = deaths + 1
    /\ run' = "dead"
    /\ UNCHANGED <<failed, inFlight, cache, mounts, tasks, asks, faults, last>>

-----------------------------------------------------------------------------
(* A tab that has just read both rosters *)
Init ==
    /\ run \in Runs
    /\ failed = "no"
    /\ inFlight = "no"
    /\ roster = [v \in Views |-> [shows |-> Shown(run), age |-> "fresh"]]
    /\ fetch = [v \in Views |-> None]
    /\ page = "other"
    /\ started = "no"
    /\ busy = 0
    /\ tasks = [t \in Tasks |-> Idle]
    /\ asks = 0
    /\ deaths = 0
    /\ faults = 0
    /\ last = "none"

Ends(t) == \E ok \in BOOLEAN : Settles(t, ok) \/ CatalogueEnds(t, ok) \/ OrphanEnds(t, ok)

Next ==
    \/ Fire \/ Restart \/ CatalogueChanges
    \/ \E t \in Tasks : Ends(t) \/ AnswerLost(t)
    \/ \E v \in Views : Poll(v) \/ Reread(v) \/ Lands(v) \/ ReadFails(v)
    \/ \E p \in Views \cup {"other"} : GoTo(p)
    \/ Reload \/ RunUp \/ DiesQuickly \/ Dies

(* An effect runs after its render, an interval comes round, requests are  *)
(* answered or fail.  Nobody need navigate or press, and a deployment need *)
(* not come up.                                                            *)
Fairness ==
    /\ WF_vars(Fire)
    /\ \A t \in Tasks : WF_vars(Ends(t))
    /\ \A v \in Views : WF_vars(Poll(v)) /\ WF_vars(Lands(v))

Spec == Init /\ [][Next]_vars /\ Fairness

-----------------------------------------------------------------------------
TypeOK ==
    /\ run \in Runs
    /\ failed \in {"no", "yes"} /\ inFlight \in {"no", "yes"}
    /\ roster \in [Views -> Entry]
    /\ fetch \in [Views -> Read \cup {None}]
    /\ page \in Views \cup {"other"}
    /\ started \in {"no", "yes"}
    /\ busy \in Nat
    /\ tasks \in [Tasks -> Task]
    /\ asks \in Nat /\ deaths \in Nat /\ faults \in Nat
    /\ last \in {"none", "failed"}

Claims(t) == tasks[t].kind = "auto" /\ Deploying(t) /\ tasks[t].claim = "kept"

(* "The claim keeps the chat page and the workers list from both           *)
(* redeploying the same agent": two automatic redeploys run at once only   *)
(* after a Restart that ended has released the first one's claim; and the  *)
(* claim is held by nobody else, or no page would redeploy the agent again *)
(* before a reload.                                                        *)
ClaimExclusive ==
    /\ \A t, u \in Tasks : Claims(t) /\ Claims(u) => t = u
    /\ (inFlight = "yes") = (\E t \in Tasks : Claims(t))

(* "A dead one redeploys on its own once, then, if that died again         *)
(* quickly, waits for the person"; one whose redeploy failed is not        *)
(* redeployed by every remount.  So it is for a page that has read its     *)
(* roster since the latest redeploy ended, whatever the other page, a      *)
(* Restart or a change of the catalogue was doing meanwhile.  (A page      *)
(* opened before that read has landed redeploys once more, even a live     *)
(* agent.)                                                                 *)
StartsAuto == \E t \in Tasks : ~Deploying(t) /\ tasks'[t].at = "deploying" /\ tasks'[t].kind = "auto"

RedeploysOnce ==
    [][StartsAuto /\ roster[page].age = "fresh" => run = "dead" /\ last # "failed"]_vars

(* A page that shows a dead agent as coming up has it redeployed or offers  *)
(* Restart in the end, though its own claim may have been refused for good *)
(* and the person goes from page to page.                                  *)
ShowsComing == page \in Views /\ roster[page].shows = "auto"

Recovers == ShowsComing ~> ~ShowsComing

=============================================================================
