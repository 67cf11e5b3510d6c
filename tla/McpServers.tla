----------------------------- MODULE McpServers -----------------------------
(***************************************************************************)
(* The workspace's MCP catalogue (apps/web/src/mcp-servers.ts) and the     *)
(* redeploys that carry a change of it to every workbench's Worker         *)
(* (tools/mcp-servers-query.ts, worker-deploy.ts).                         *)
(*                                                                         *)
(* Nothing is kept in the client: a server is a provider row and a         *)
(* credential row of the hub, both with unique names, and an operation is  *)
(* a sequence of requests from one browser tab with no transaction around  *)
(* them.  Several operations run at once, in one tab or in several, and a  *)
(* reload ends those of a tab wherever they are.                           *)
(*                                                                         *)
(* Abstracted: the hub's routes to unique names, deletion by id and the    *)
(* cascade from a provider to its credentials; installPackage to one       *)
(* request (AgentInstall is its inside); the two reads of listMcpServers   *)
(* to one, since a provider is stored before its credential and outlives   *)
(* it; URLs and secrets.                                                   *)
(***************************************************************************)
EXTENDS Naturals, Sequences, FiniteSets

CONSTANTS
    Ops,        \* operations a person or a page starts
    Tabs,       \* browser tabs
    Handles,    \* server handles
    BuiltIn,    \* EXA_MCP_SERVER.handle
    Benches,    \* the workspace's workbench tenants
    None,       \* no row, no worker, no bench
    MaxFaults   \* bound on refused and unanswered requests and reloads

(* What a credential's metadata.mcp holds: nothing (a login's own row),    *)
(* no tools yet, or the discovered ones.                                   *)
Tools == {"bare", "unlisted", "listed"}
Cred  == [id : Nat, provider : Nat, tools : Tools]

ASSUME McpAssumption ==
    /\ BuiltIn \in Handles
    /\ MaxFaults \in Nat
    /\ None \notin Nat /\ None \notin Nat \X Nat /\ None \notin Cred
    /\ None \notin Tabs \cup Benches

VARIABLES
    providers,  \* the hub's provider row of each handle: an id or None
    creds,      \* the hub's credential row of each handle, or None
    workers,    \* the servers each bench's deployed Worker carries, or None
    queue,      \* ensureQueue: per tab, the ensures under way and waiting
    logins,     \* the OAuth logins the hub has open
    ops,        \* where each operation is, and its locals
    lastId,     \* row ids given out
    faults,
    newest,     \* history: the operation started last
    overlapped  \* history: the operations that did not run alone

hub  == <<providers, creds, workers, lastId>>
vars == <<hub, queue, logins, ops, faults, newest, overlapped>>

Row   == [handle : Handles, id : Nat, tools : Tools]

Kinds   == {"none", "add", "signIn", "remove", "deploy"}
Ended   == {"idle", "done", "failed", "gone"}
Steps   == {"provider", "make", "store", "login", "waiting", "read", "discover", "record",
            "undo", "drop", "dropProvider", "benches", "next", "queued", "install"}
Answers == {"ok", "refused", "lost", "never"}
Reads   == {"ok", "refused"}  \* a read that fails changes nothing, however it fails

Op == [kind : Kinds, tab : Tabs \cup {None}, handle : Handles, at : Steps \cup Ended,
       provider : Nat \cup {None},     \* providerId
       cred     : Nat \cup {None},     \* credentialId
       target   : (Nat \X Nat) \cup {None},  \* the row added or to remove
       view     : SUBSET Row,          \* the list an ensure returns
       todo     : SUBSET Benches, bench : Benches \cup {None},
       failed   : SUBSET Benches,      \* the benches the page names as stale
       why      : {"none", "conflict", "unreachable", "fault"},
       heard    : {"all", "some"}]     \* every request was answered, every undo accepted

Fresh(o) == ops[o].kind = "none"
Running(o) == ops[o].at \notin Ended
(* The handle a sequence of add steps is for: the person's server, or the  *)
(* built-in one while a bench's Worker is being deployed.                  *)
Adding(o) == IF ops[o].bench = None THEN ops[o].handle ELSE BuiltIn

(* listMcpServers *)
Catalogue == {[handle |-> h, id |-> creds[h].id, tools |-> creds[h].tools] :
                  h \in {x \in Handles : creds[x] # None /\ creds[x].tools # "bare"}}

-----------------------------------------------------------------------------
(* Requests.  A request is answered, refused by the hub, handled with its  *)
(* answer lost, or never handled.                                          *)

Handled(a) == a \in {"ok", "lost"}
Silent(a)  == a \in {"lost", "never"}

Counts(a) ==
    /\ a # "ok" => faults < MaxFaults
    /\ faults' = IF a = "ok" THEN faults ELSE faults + 1

At(o, at) == [ops[o] EXCEPT !.at = at]

(* The locals of an ensure end with it. *)
Cleared(r) == [r EXCEPT !.provider = None, !.cred = None, !.view = {}]

(* An error: one workbench's failure never stops the rest, any other ends  *)
(* the operation.                                                          *)
Thrown(o, why, silent) ==
    LET r == [ops[o] EXCEPT !.heard = IF silent THEN "some" ELSE @]
    IN  IF r.bench # None /\ r.kind # "deploy"
        THEN [Cleared(r) EXCEPT !.at = "next", !.failed = @ \cup {r.bench}, !.bench = None]
        ELSE [r EXCEPT !.at = "failed", !.why = why, !.provider = None, !.view = {}]

Becomes(o, r) == ops' = [ops EXCEPT ![o] = r]

(* settle: the next ensure of the tab runs whether this one failed or not. *)
Leave(o) == [queue EXCEPT ![ops[o].tab] = IF @ # <<>> /\ Head(@) = o THEN Tail(@) ELSE @]

\* Mutant of Throws: previous.then(run), so that a failed ensure runs nothing
\* behind it.
ThrowsAlone(o, why, silent) ==
    /\ Becomes(o, Thrown(o, why, silent))
    /\ UNCHANGED queue

Throws(o, why, silent) ==
    /\ Becomes(o, Thrown(o, why, silent))
    /\ queue' = Leave(o)

-----------------------------------------------------------------------------
(* Operations a person or a page starts.                                   *)

Begins(o, r) ==
    LET others == {p \in Ops : Running(p)}
    IN  /\ Fresh(o)
        /\ Becomes(o, r)
        /\ newest' = o
        /\ overlapped' = overlapped \cup others \cup (IF others = {} THEN {} ELSE {o})

Blank == [kind |-> "none", tab |-> None, handle |-> BuiltIn, at |-> "idle",
          provider |-> None, cred |-> None, target |-> None, view |-> {}, todo |-> {},
          bench |-> None, failed |-> {}, why |-> "none", heard |-> "all"]

(* addServer, signIn.start: the page offers any handle, its list may be    *)
(* stale.                                                                  *)
StartAdd(o, k, t, h) ==
    /\ k \in {"add", "signIn"}
    /\ Begins(o, [Blank EXCEPT !.kind = k, !.tab = t, !.handle = h, !.at = "provider"])
    /\ UNCHANGED <<hub, queue, logins, faults>>

(* Disconnect, on the row the page shows. *)
StartRemove(o, t, h) ==
    /\ \E r \in Catalogue : r.handle = h
    /\ Begins(o, [Blank EXCEPT !.kind = "remove", !.tab = t, !.handle = h, !.at = "drop",
                               !.target = <<creds[h].id, creds[h].provider>>])
    /\ UNCHANGED <<hub, queue, logins, faults>>

(* deployWorkerSource for a new workbench, a restart or an automatic       *)
(* redeploy: ensureBuiltInMcpServers joins the tab's queue.                *)
StartDeploy(o, t, b) ==
    /\ Begins(o, [Blank EXCEPT !.kind = "deploy", !.tab = t, !.at = "queued", !.bench = b])
    /\ queue' = [queue EXCEPT ![t] = Append(@, o)]
    /\ UNCHANGED <<hub, logins, faults>>

-----------------------------------------------------------------------------
(* Adding a server: addMcpServer, startMcpSignIn, recordCatalog.           *)

StoreStep(o) == IF ops[o].kind = "signIn" /\ ops[o].bench = None THEN "login" ELSE "store"

\* Mutant of FindProvider: the provider is looked for and not made.
FindOnly(o, a) ==
    /\ ops[o].at = "provider"
    /\ Counts(a)
    /\ IF a = "ok"
       THEN /\ Becomes(o, [At(o, StoreStep(o)) EXCEPT !.provider = providers[Adding(o)]])
            /\ UNCHANGED queue
       ELSE Throws(o, "fault", FALSE)
    /\ UNCHANGED <<hub, logins, newest, overlapped>>

(* ensureMcpProvider, its read *)
FindProvider(o, a) ==
    /\ ops[o].at = "provider"
    /\ Counts(a)
    /\ IF a = "ok"
       THEN /\ Becomes(o, IF providers[Adding(o)] = None THEN At(o, "make")
                          ELSE [At(o, StoreStep(o)) EXCEPT !.provider = providers[Adding(o)]])
            /\ UNCHANGED queue
       ELSE Throws(o, "fault", FALSE)
    /\ UNCHANGED <<hub, logins, newest, overlapped>>

(* ensureMcpProvider, its write: the hub refuses a name that is taken. *)
MakeProvider(o, a) ==
    /\ ops[o].at = "make"
    /\ Counts(a)
    /\ LET free == providers[Adding(o)] = None IN
       /\ IF free /\ Handled(a)
          THEN /\ providers' = [providers EXCEPT ![Adding(o)] = lastId + 1]
               /\ lastId' = lastId + 1
          ELSE UNCHANGED <<providers, lastId>>
       /\ IF free /\ a = "ok"
          THEN /\ Becomes(o, [At(o, StoreStep(o)) EXCEPT !.provider = lastId + 1])
               /\ UNCHANGED queue
          ELSE Throws(o, IF a = "ok" THEN "conflict" ELSE "fault", Silent(a))
    /\ UNCHANGED <<creds, workers, logins, newest, overlapped>>

(* A credential is refused when its name is taken or its provider gone. *)
Storable(h, p) == creds[h] = None /\ providers[h] = p

StoreRow(h, p, tools) ==
    /\ creds' = [creds EXCEPT ![h] = [id |-> lastId + 1, provider |-> p, tools |-> tools]]
    /\ lastId' = lastId + 1

\* Mutant of Store: a name that is taken is stored over.
StoreOver(o, a) ==
    /\ ops[o].at = "store"
    /\ Counts(a)
    /\ LET h == Adding(o)
           p == ops[o].provider
       IN  /\ IF Handled(a) THEN StoreRow(h, p, "unlisted") ELSE UNCHANGED <<creds, lastId>>
           /\ IF a = "ok"
              THEN /\ Becomes(o, [At(o, "discover") EXCEPT !.cred = lastId + 1])
                   /\ UNCHANGED queue
              ELSE Throws(o, "fault", Silent(a))
    /\ UNCHANGED <<providers, workers, logins, newest, overlapped>>

(* storeCredential *)
Store(o, a) ==
    /\ ops[o].at = "store"
    /\ Counts(a)
    /\ LET h == Adding(o)
           p == ops[o].provider
       IN  /\ IF Storable(h, p) /\ Handled(a) THEN StoreRow(h, p, "unlisted")
              ELSE UNCHANGED <<creds, lastId>>
           /\ IF Storable(h, p) /\ a = "ok"
              THEN /\ Becomes(o, [At(o, "discover") EXCEPT !.cred = lastId + 1])
                   /\ UNCHANGED queue
              ELSE Throws(o, IF a = "ok" THEN "conflict" ELSE "fault", Silent(a))
    /\ UNCHANGED <<providers, workers, logins, newest, overlapped>>

(* startMcpSignIn, the login *)
OpenLogin(o, a) ==
    /\ ops[o].at = "login"
    /\ Counts(a)
    /\ IF a = "ok"
       THEN /\ Becomes(o, At(o, "waiting"))
            /\ logins' = logins \cup {[op |-> o, provider |-> ops[o].provider]}
            /\ UNCHANGED queue
       ELSE Throws(o, "fault", FALSE) /\ UNCHANGED logins
    /\ UNCHANGED <<hub, newest, overlapped>>

(* The person signs in: the hub stores the token, whether the tab still    *)
(* waits for it or not.                                                    *)
LoginCompletes(l) ==
    /\ Storable(ops[l.op].handle, l.provider)
    /\ StoreRow(ops[l.op].handle, l.provider, "bare")
    /\ logins' = logins \ {l}
    /\ Becomes(l.op, IF Running(l.op) THEN [ops[l.op] EXCEPT !.cred = lastId + 1] ELSE ops[l.op])
    /\ UNCHANGED <<providers, workers, queue, faults, newest, overlapped>>

(* The login is cancelled or fails. *)
LoginFails(l) ==
    /\ logins' = logins \ {l}
    /\ UNCHANGED <<hub, queue, ops, faults, newest, overlapped>>

(* readMcpSignIn, once a second; a poll that fails ends the sign-in. *)
Poll(o, a) ==
    /\ ops[o].at = "waiting"
    /\ Counts(a)
    /\ IF a = "ok"
       THEN /\ \A l \in logins : l.op # o
            /\ IF ops[o].cred # None
               THEN Becomes(o, At(o, "read")) /\ UNCHANGED queue
               ELSE Throws(o, "unreachable", FALSE)
       ELSE Throws(o, "fault", FALSE)
    /\ UNCHANGED <<hub, logins, newest, overlapped>>

(* addSignedInMcpServer reads the login's credential before recordCatalog: *)
(* a read that fails throws past the undo.                                 *)
ReadCredential(o, a) ==
    /\ ops[o].at = "read"
    /\ Counts(a)
    /\ IF a = "ok" THEN Becomes(o, At(o, "discover")) /\ UNCHANGED queue
       ELSE Throws(o, "fault", FALSE)
    /\ UNCHANGED <<hub, logins, newest, overlapped>>

Mine(o) == creds[Adding(o)] # None /\ creds[Adding(o)].id = ops[o].cred

\* Mutant of Discover: recordCatalog without its catch.
DiscoverOrThrow(o, answered) ==
    /\ ops[o].at = "discover"
    /\ answered => Mine(o)
    /\ IF answered THEN Becomes(o, At(o, "record")) /\ UNCHANGED queue
       ELSE Throws(o, "unreachable", FALSE)
    /\ UNCHANGED <<hub, logins, faults, newest, overlapped>>

(* discoverMcpCatalog: the server answers through the hub, or does not. *)
Discover(o, answered) ==
    /\ ops[o].at = "discover"
    /\ answered => Mine(o)
    /\ Becomes(o, At(o, IF answered THEN "record" ELSE "undo"))
    /\ UNCHANGED <<hub, queue, logins, faults, newest, overlapped>>

\* Mutant of Recorded: the ensure returns the servers it listed.
RecordedElsewhere(o) ==
    IF ops[o].bench = None
    THEN [Cleared(At(o, "benches")) EXCEPT !.target = <<ops[o].cred, ops[o].provider>>]
    ELSE At(o, "install")

Recorded(o) ==
    IF ops[o].bench = None
    THEN [Cleared(At(o, "benches")) EXCEPT !.target = <<ops[o].cred, ops[o].provider>>]
    ELSE [At(o, "install") EXCEPT !.view = @ \cup
             {[handle |-> BuiltIn, id |-> ops[o].cred, tools |-> "listed"]}]

(* recordCatalog, its write.  A refusal drops the credential, a request    *)
(* that gets no answer throws past the drop.                               *)
Record(o, a) ==
    /\ ops[o].at = "record"
    /\ Counts(a)
    /\ IF Mine(o) /\ Handled(a)
       THEN creds' = [creds EXCEPT ![Adding(o)].tools = "listed"]
       ELSE UNCHANGED creds
    /\ CASE Silent(a)              -> Throws(o, "fault", TRUE)
         [] a = "ok" /\ Mine(o)    -> Becomes(o, Recorded(o)) /\ queue' = Leave(o)
         [] OTHER                  -> Becomes(o, At(o, "undo")) /\ UNCHANGED queue
    /\ UNCHANGED <<providers, workers, lastId, logins, newest, overlapped>>

(* deleteCredential: whatever the hub answers, the add has failed. *)
Undo(o, a) ==
    /\ ops[o].at = "undo"
    /\ Counts(a)
    /\ IF Mine(o) /\ Handled(a)
       THEN creds' = [creds EXCEPT ![Adding(o)] = None]
       ELSE UNCHANGED creds
    /\ Throws(o, "unreachable", a # "ok")
    /\ UNCHANGED <<providers, workers, lastId, logins, newest, overlapped>>

-----------------------------------------------------------------------------
(* Removing a server: removeMcpServer.                                     *)

Target(o) == creds[ops[o].handle] # None /\ creds[ops[o].handle].id = ops[o].target[1]

DropCredential(o, a) ==
    /\ ops[o].at = "drop"
    /\ Counts(a)
    /\ IF Target(o) /\ Handled(a)
       THEN creds' = [creds EXCEPT ![ops[o].handle] = None]
       ELSE UNCHANGED creds
    /\ IF Target(o) /\ a = "ok"
       THEN Becomes(o, At(o, "dropProvider")) /\ UNCHANGED queue
       ELSE Throws(o, IF a = "ok" THEN "conflict" ELSE "fault", Silent(a))
    /\ UNCHANGED <<providers, workers, lastId, logins, newest, overlapped>>

(* The provider row goes with the credentials on it; a refusal is ignored. *)
DropProvider(o, a) ==
    /\ ops[o].at = "dropProvider"
    /\ Counts(a)
    /\ LET h == ops[o].handle IN
       IF Handled(a) /\ providers[h] = ops[o].target[2]
       THEN /\ providers' = [providers EXCEPT ![h] = None]
            /\ creds' = [creds EXCEPT ![h] = None]
       ELSE UNCHANGED <<providers, creds>>
    /\ IF Silent(a) THEN Throws(o, "fault", TRUE)
       ELSE Becomes(o, At(o, "benches")) /\ UNCHANGED queue
    /\ UNCHANGED <<workers, lastId, logins, newest, overlapped>>

-----------------------------------------------------------------------------
(* Carrying a change to the Workers: redeployWorkspaceWorkers.             *)

ListBenches(o, a) ==
    /\ ops[o].at = "benches"
    /\ Counts(a)
    /\ IF a = "ok"
       THEN Becomes(o, [At(o, "next") EXCEPT !.todo = Benches]) /\ UNCHANGED queue
       ELSE Throws(o, "fault", FALSE)
    /\ UNCHANGED <<hub, logins, newest, overlapped>>

(* redeployWorkerTenants, one workbench: findWorker, then the deploy. *)
NextBench(o, b, a) ==
    /\ ops[o].at = "next"
    /\ b \in ops[o].todo
    /\ Counts(a)
    /\ LET r == [ops[o] EXCEPT !.todo = @ \ {b}] IN
       CASE a # "ok"          -> /\ Becomes(o, [r EXCEPT !.failed = @ \cup {b}])
                                 /\ UNCHANGED queue
         [] workers[b] = None -> Becomes(o, r) /\ UNCHANGED queue
         [] OTHER             -> /\ Becomes(o, [r EXCEPT !.at = "queued", !.bench = b])
                                 /\ queue' = [queue EXCEPT ![r.tab] = Append(@, o)]
    /\ UNCHANGED <<hub, logins, newest, overlapped>>

Finish(o) ==
    /\ ops[o].at = "next"
    /\ ops[o].todo = {}
    /\ Becomes(o, At(o, "done"))
    /\ UNCHANGED <<hub, queue, logins, faults, newest, overlapped>>

\* Mutant of EnsureBuiltIn: every ensure runs at once.
EnsureAtOnce(o, a) ==
    /\ ops[o].at = "queued"
    /\ Counts(a)
    /\ LET r == [ops[o] EXCEPT !.view = Catalogue] IN
       Becomes(o, CASE a # "ok" -> Thrown(o, "fault", FALSE)
                    [] a = "ok" /\ (\E x \in Catalogue : x.handle = BuiltIn) -> [r EXCEPT !.at = "install"]
                    [] OTHER -> [r EXCEPT !.at = "provider"])
    /\ queue' = [queue EXCEPT ![ops[o].tab] = SelectSeq(@, LAMBDA p : p # o)]
    /\ UNCHANGED <<hub, logins, newest, overlapped>>

(* runEnsureBuiltInMcpServers, when the tab's earlier ensures are through. *)
EnsureBuiltIn(o, a) ==
    /\ ops[o].at = "queued"
    /\ Head(queue[ops[o].tab]) = o
    /\ Counts(a)
    /\ LET r == [ops[o] EXCEPT !.view = Catalogue] IN
       CASE a # "ok" -> Throws(o, "fault", FALSE)
         [] a = "ok" /\ (\E x \in Catalogue : x.handle = BuiltIn) ->
                Becomes(o, [r EXCEPT !.at = "install"]) /\ queue' = Leave(o)
         [] OTHER    -> Becomes(o, [r EXCEPT !.at = "provider"]) /\ UNCHANGED queue
    /\ UNCHANGED <<hub, logins, newest, overlapped>>

(* installPackage with the servers the ensure returned. *)
Install(o, a) ==
    /\ ops[o].at = "install"
    /\ Counts(a)
    /\ workers' = IF Handled(a) THEN [workers EXCEPT ![ops[o].bench] = ops[o].view] ELSE workers
    /\ CASE a # "ok"                 -> Throws(o, "fault", Silent(a))
         [] a = "ok" /\ ops[o].kind = "deploy" ->
                Becomes(o, Cleared(At(o, "done"))) /\ UNCHANGED queue
         [] OTHER -> Becomes(o, [Cleared(At(o, "next")) EXCEPT !.bench = None]) /\ UNCHANGED queue
    /\ UNCHANGED <<providers, creds, lastId, logins, newest, overlapped>>

(* A tab is reloaded or closed. *)
Reload(t) ==
    /\ \E o \in Ops : ops[o].tab = t /\ Running(o)
    /\ faults < MaxFaults
    /\ faults' = faults + 1
    /\ ops' = [o \in Ops |-> IF ops[o].tab = t /\ Running(o)
                             THEN [Cleared(ops[o]) EXCEPT !.at = "gone", !.heard = "some"] ELSE ops[o]]
    /\ queue' = [queue EXCEPT ![t] = <<>>]
    /\ UNCHANGED <<hub, logins, newest, overlapped>>

-----------------------------------------------------------------------------
(* A workspace before its first Worker, or with the built-in server and    *)
(* some workbenches whose Workers carry it.                                *)
Init ==
    /\ \E set \in SUBSET Benches :
          LET exa == [id |-> 2, provider |-> 1, tools |-> "listed"]
              has(h) == h = BuiltIn /\ set # {}
          IN  /\ providers = [h \in Handles |-> IF has(h) THEN 1 ELSE None]
              /\ creds = [h \in Handles |-> IF has(h) THEN exa ELSE None]
              /\ workers = [b \in Benches |-> IF b \in set
                               THEN {[handle |-> BuiltIn, id |-> 2, tools |-> "listed"]} ELSE None]
    /\ queue = [t \in Tabs |-> <<>>]
    /\ logins = {}
    /\ ops = [o \in Ops |-> Blank]
    /\ lastId = 2
    /\ faults = 0
    /\ newest = None
    /\ overlapped = {}

Start(o) ==
    \/ \E k \in {"add", "signIn"}, t \in Tabs, h \in Handles : StartAdd(o, k, t, h)
    \/ \E t \in Tabs, h \in Handles : StartRemove(o, t, h)
    \/ \E t \in Tabs, b \in Benches : StartDeploy(o, t, b)

Step(o) ==
    \/ \E a \in Answers :
          \/ MakeProvider(o, a) \/ Store(o, a) \/ Record(o, a) \/ Undo(o, a)
          \/ DropCredential(o, a) \/ DropProvider(o, a) \/ Install(o, a)
    \/ \E a \in Reads :
          \/ FindProvider(o, a) \/ OpenLogin(o, a) \/ Poll(o, a) \/ ReadCredential(o, a)
          \/ ListBenches(o, a) \/ EnsureBuiltIn(o, a)
          \/ \E b \in Benches : NextBench(o, b, a)
    \/ \E answered \in BOOLEAN : Discover(o, answered)
    \/ Finish(o)

Next ==
    \/ \E o \in Ops : Start(o) \/ Step(o)
    \/ \E l \in logins : LoginCompletes(l) \/ LoginFails(l)
    \/ \E t \in Tabs : Reload(t)

Spec == Init /\ [][Next]_vars

-----------------------------------------------------------------------------
TypeOK ==
    /\ providers \in [Handles -> Nat \cup {None}]
    /\ creds \in [Handles -> Cred \cup {None}]
    /\ workers \in [Benches -> (SUBSET Row) \cup {None}]
    /\ queue \in [Tabs -> Seq(Ops)]
    /\ logins \subseteq [op : Ops, provider : Nat]
    /\ ops \in [Ops -> Op]
    /\ lastId \in Nat
    /\ faults \in 0..MaxFaults
    /\ newest \in Ops \cup {None}
    /\ overlapped \subseteq Ops

(* Every operation is of one tab, every request has been answered, and     *)
(* nobody adds or removes the built-in server by hand.                     *)
Calm ==
    /\ \A o, p \in Ops : ~Fresh(o) /\ ~Fresh(p) => ops[o].tab = ops[p].tab
    /\ \A o \in Ops : ops[o].heard = "all"
    /\ \A o \in Ops : ops[o].kind \in {"add", "signIn", "remove"} => ops[o].handle # BuiltIn

(* What ensureQueue is for (mcp-servers.ts, "one after another, so a later *)
(* one sees the Exa an earlier one added instead of adding its own").      *)
(* While only one tab deploys Workers and nobody adds or removes the       *)
(* built-in server by hand, no deploy is refused because another is adding *)
(* it and no Worker carries it before its tools are known, whatever other  *)
(* servers are being added and whichever ensure the server fails to        *)
(* answer.                                                                 *)
BuiltInOnce ==
    Calm => /\ \A o \in Ops : ops[o].kind = "deploy" => ops[o].why # "conflict"
            /\ \A b \in Benches : workers[b] # None =>
                  \A r \in workers[b] : r.handle = BuiltIn => r.tools = "listed"

(* A change of the catalogue that nothing else ran beside is carried by    *)
(* every workbench's Worker once it has finished, or the page has named    *)
(* the workbench as stale (mcp-servers-query.ts, "every write ends in a    *)
(* redeploy", "the names a failed redeploy left stale"), though the        *)
(* redeploys may themselves add the built-in server halfway through.       *)
SettledCatalogue ==
    \A o \in Ops \ overlapped :
        o = newest /\ ops[o].kind # "deploy" /\ ops[o].at = "done" =>
            \A b \in Benches : workers[b] \in {None, Catalogue} \/ b \in ops[o].failed

(* "A failed add leaves nothing behind", as far as it is so: a failed add  *)
(* whose requests were all answered, and whose undo was not refused,       *)
(* leaves no credential, but for a sign-in that has failed on a read, of   *)
(* its login's status or of the credentials: the row the login has stored  *)
(* by then stays, and no catalogue shows it.  (The provider row always     *)
(* stays; a login that completes after its sign-in has failed stores its   *)
(* row for nobody.)                                                        *)
FailedAddGone ==
    \A o \in Ops : ops[o].kind \in {"add", "signIn"} /\ ops[o].at = "failed" /\ ops[o].heard = "all"
                   /\ ops[o].target = None
        => \A h \in Handles : creds[h] # None /\ creds[h].id = ops[o].cred =>
              ops[o].kind = "signIn" /\ ops[o].why = "fault" /\ creds[h].tools = "bare"

(* A server whose add succeeded stays connected, with its tools, until a   *)
(* removal that names its credential or its provider: no other operation's *)
(* undo, retry or redeploy takes it.                                       *)
AddedStays ==
    \A o \in Ops : ops[o].kind \in {"add", "signIn"} /\ ops[o].target # None =>
        \/ /\ creds[ops[o].handle] # None
           /\ creds[ops[o].handle].id = ops[o].target[1]
           /\ creds[ops[o].handle].tools = "listed"
        \/ \E p \in Ops : /\ ops[p].kind = "remove"
                          /\ \/ ops[p].target[1] = ops[o].target[1]
                             \/ ops[p].target[2] = ops[o].target[2]

(* No failed, ended or reloaded ensure keeps the ones behind it in the     *)
(* tab's queue waiting: whoever waits is in the queue, and the head of the *)
(* queue is an operation on its way (previous.then(run, run), settle).     *)
QueueServed ==
    /\ \A t \in Tabs : queue[t] # <<>> => Running(Head(queue[t]))
    /\ \A o \in Ops : ops[o].at = "queued" => \E i \in DOMAIN queue[ops[o].tab] : queue[ops[o].tab][i] = o

=============================================================================
