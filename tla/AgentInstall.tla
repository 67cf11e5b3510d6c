---------------------------- MODULE AgentInstall ----------------------------
(***************************************************************************)
(* Installing one agent from the browser (apps/web/src): installPackage    *)
(* with the source tree deployWorkerSource and deployAgentSource give it,  *)
(* which names the hub credential ensureAgentHubCredential stores.         *)
(* An install is a sequence of requests to the hub with no transaction     *)
(* around them, started by a person, a restart or a retry, in any tab.     *)
(*                                                                         *)
(* Everything an install creates has a fresh id, so the install names it:  *)
(* i is the bearer install i mints, the credential row it stores and the   *)
(* commit it pushes.  Its tree holds the id of a credential just stored,   *)
(* so no two trees are equal: pushSourceTree never finds its tree on main  *)
(* and installPackage never returns an existing deployment.  The push      *)
(* token changes nothing else; its requests are kept, since they can fail. *)
(*                                                                         *)
(* A request may fail without reaching the hub, or be handled after the    *)
(* client has given up on it (a lost answer, a closed tab).  The hub (its  *)
(* routes are vendored) is modelled by what the client relies on: names of *)
(* providers and credentials are unique, a push is a compare-and-swap of   *)
(* main, and a deployment resolves its credential by name.                 *)
(***************************************************************************)
EXTENDS Naturals, Sequences

CONSTANTS
    Installs,   \* the calls of installPackage for one agent
    NoInstall,  \* no row, no commit
    MaxFaults   \* bound on the requests that fail or outlive their client

ASSUME InstallAssumption ==
    /\ NoInstall \notin Installs
    /\ MaxFaults \in Nat

VARIABLES
    hub,         \* what the hub keeps for this agent
    at,          \* the request an install is making, or made last
    found,       \* the credential row it listed
    named,       \* hubCredentialId: the row its tree names
    tip,         \* the commit the hub advertised as main
    broken,      \* the installs that threw on a failed request
    late,        \* those whose failed request may still reach the hub
    refused,     \* the installs that threw on what the hub answered
    overlapped,  \* history: the installs that did not run alone
    newest,      \* history: the install started last
    faults

local == <<found, named, tip>>
vars  == <<hub, at, local, broken, late, refused, overlapped, newest, faults>>

Writes == {"asset", "create", "revoke", "drop", "mint", "store", "push", "deploy"}
Steps  == Writes \cup {"provider", "list", "token", "advertise", "untoken"}
Some   == Installs \cup {NoInstall}
Hubs   == [made       : SUBSET {"asset", "provider"},
           bearers    : SUBSET Installs,  \* agent tokens not revoked
           credential : Some,             \* the row of agentHubCredentialName
           main       : Seq(Installs),    \* the commits of refs/heads/main
           deployed   : SUBSET [by : Installs, commit : Installs, bound : Installs]]

Running == {i \in Installs : at[i] \in Steps} \ (broken \cup refused)
Busy    == Running \cup late

TipOf(main) == IF main = <<>> THEN NoInstall ELSE main[Len(main)]

-----------------------------------------------------------------------------
(* One request *)

\* A client without an answer sends nothing more: the hub handles the request
\* of step s for its client, which goes on to `next', or after it gave up.
Handle(i, s, h, next) ==
    /\ at[i] = s
    /\ hub' = h
    /\ \/ i \in Running /\ at' = [at EXCEPT ![i] = next] /\ UNCHANGED late
       \/ i \in late /\ late' = late \ {i} /\ UNCHANGED at
    /\ UNCHANGED <<broken, refused, overlapped, newest, faults>>

\* The hub answers with a status the client throws on.
Refuse(i, s) ==
    /\ at[i] = s
    /\ \/ i \in Running /\ refused' = refused \cup {i} /\ UNCHANGED late
       \/ i \in late /\ late' = late \ {i} /\ UNCHANGED refused
    /\ UNCHANGED <<hub, at, local, broken, overlapped, newest, faults>>

\* The request fails, or the tab is closed: the install is over, and what it
\* sent may have been lost or not.
Break(i) ==
    /\ i \in Running
    /\ faults < MaxFaults
    /\ faults' = faults + 1
    /\ broken' = broken \cup {i}
    /\ \/ UNCHANGED late
       \/ at[i] \in Writes /\ late' = late \cup {i}
    /\ UNCHANGED <<hub, at, local, refused, overlapped, newest>>

-----------------------------------------------------------------------------
(* installPackage, up to the source tree *)

Start(i) ==
    /\ at[i] = "idle"
    /\ at' = [at EXCEPT ![i] = "asset"]
    /\ newest' = i
    /\ overlapped' = IF Busy = {} THEN overlapped ELSE overlapped \cup Busy \cup {i}
    /\ UNCHANGED <<hub, local, broken, late, refused, faults>>

\* ensureWorkflowAsset: a conflict is answered by the asset that is there.
EnsureAsset(i) ==
    /\ Handle(i, "asset", [hub EXCEPT !.made = @ \cup {"asset"}], "provider")
    /\ UNCHANGED local

(* ensureAgentHubCredential *)

ListProviders(i) ==
    /\ Handle(i, "provider", hub, IF "provider" \in hub.made THEN "list" ELSE "create")
    /\ UNCHANGED local

CreateProvider(i) ==
    \/ /\ "provider" \notin hub.made
       /\ Handle(i, "create", [hub EXCEPT !.made = @ \cup {"provider"}], "list")
       /\ UNCHANGED local
    \/ "provider" \in hub.made /\ Refuse(i, "create")

\* Mutant of ListCredentials: the loop body runs without a row.
ListNoCredentials(i) ==
    /\ Handle(i, "list", hub, "revoke")
    /\ found' = [found EXCEPT ![i] = hub.credential]
    /\ UNCHANGED <<named, tip>>

ListCredentials(i) ==
    /\ Handle(i, "list", hub, IF hub.credential = NoInstall THEN "mint" ELSE "revoke")
    /\ found' = [found EXCEPT ![i] = hub.credential]
    /\ UNCHANGED <<named, tip>>

\* Mutant of Revoke: the answer is not looked at.
RevokeUnchecked(i) ==
    /\ \/ Handle(i, "revoke", [hub EXCEPT !.bearers = @ \ {found[i]}], "drop")
       \/ Handle(i, "revoke", hub, "drop")
    /\ UNCHANGED local

\* Mutant of Revoke: a 404 is an error like any other.
RevokeOnce(i) ==
    \/ /\ found[i] \in hub.bearers
       /\ Handle(i, "revoke", [hub EXCEPT !.bearers = @ \ {found[i]}], "drop")
       /\ UNCHANGED local
    \/ found[i] \notin hub.bearers /\ Refuse(i, "revoke")

\* Revoking a bearer that is revoked already is no error.
Revoke(i) ==
    /\ Handle(i, "revoke", [hub EXCEPT !.bearers = @ \ {found[i]}], "drop")
    /\ UNCHANGED local

Drop(i) ==
    \/ /\ hub.credential = found[i]
       /\ Handle(i, "drop", [hub EXCEPT !.credential = NoInstall], "mint")
       /\ UNCHANGED local
    \/ hub.credential # found[i] /\ Refuse(i, "drop")

Mint(i) ==
    /\ Handle(i, "mint", [hub EXCEPT !.bearers = @ \cup {i}], "store")
    /\ UNCHANGED local

\* Mutant of Store: the id of the row that was replaced is returned.
StoreReturnsOld(i) ==
    \/ /\ hub.credential = NoInstall
       /\ Handle(i, "store", [hub EXCEPT !.credential = i], "token")
       /\ named' = [named EXCEPT ![i] = IF found[i] = NoInstall THEN i ELSE found[i]]
       /\ UNCHANGED <<found, tip>>
    \/ hub.credential # NoInstall /\ Refuse(i, "store")

Store(i) ==
    \/ /\ hub.credential = NoInstall
       /\ Handle(i, "store", [hub EXCEPT !.credential = i], "token")
       /\ named' = [named EXCEPT ![i] = i]
       /\ UNCHANGED <<found, tip>>
    \/ hub.credential # NoInstall /\ Refuse(i, "store")

-----------------------------------------------------------------------------
(* installPackage, with the source tree *)

MintPushToken(i) ==
    /\ Handle(i, "token", hub, "advertise")
    /\ UNCHANGED local

\* advertisedMainSha, and the fetch of that commit.
Advertise(i) ==
    /\ Handle(i, "advertise", hub, "push")
    /\ tip' = [tip EXCEPT ![i] = TipOf(hub.main)]
    /\ UNCHANGED <<found, named>>

\* Mutant of Push: the commit is written over whatever main points at.
PushOver(i) ==
    LET kept == {k \in 0..Len(hub.main) : TipOf(SubSeq(hub.main, 1, k)) = tip[i]} IN
    /\ \E k \in kept :
          Handle(i, "push", [hub EXCEPT !.main = Append(SubSeq(@, 1, k), i)], "untoken")
    /\ UNCHANGED local

\* The hub moves main from the advertised commit to this one, or refuses.
\* The token is deleted whichever it is.
Push(i) ==
    \/ /\ TipOf(hub.main) = tip[i]
       /\ Handle(i, "push", [hub EXCEPT !.main = Append(@, i)], "untoken")
       /\ UNCHANGED local
    \/ TipOf(hub.main) # tip[i] /\ Refuse(i, "push")

\* Whatever is answered; a request that fails throws, the commit being on main.
DeletePushToken(i) ==
    /\ Handle(i, "untoken", hub, "deploy")
    /\ UNCHANGED local

\* Pinned to the commit just pushed, and bound to the credential of that name.
Deploy(i) ==
    \/ /\ hub.credential # NoInstall
       /\ Handle(i, "deploy",
                 [hub EXCEPT !.deployed =
                    @ \cup {[by |-> i, commit |-> i, bound |-> hub.credential]}],
                 "done")
       /\ UNCHANGED local
    \/ hub.credential = NoInstall /\ Refuse(i, "deploy")

-----------------------------------------------------------------------------
Init ==
    /\ hub = [made |-> {}, bearers |-> {}, credential |-> NoInstall,
              main |-> <<>>, deployed |-> {}]
    /\ at = [i \in Installs |-> "idle"]
    /\ found = [i \in Installs |-> NoInstall]
    /\ named = [i \in Installs |-> NoInstall]
    /\ tip = [i \in Installs |-> NoInstall]
    /\ broken = {} /\ late = {} /\ refused = {} /\ overlapped = {}
    /\ newest = NoInstall
    /\ faults = 0

Next ==
    \E i \in Installs :
        \/ Start(i) \/ EnsureAsset(i) \/ ListProviders(i) \/ CreateProvider(i)
        \/ ListCredentials(i) \/ Revoke(i) \/ Drop(i) \/ Mint(i) \/ Store(i)
        \/ MintPushToken(i) \/ Advertise(i) \/ Push(i) \/ DeletePushToken(i)
        \/ Deploy(i) \/ Break(i)

Spec == Init /\ [][Next]_vars

-----------------------------------------------------------------------------
(* Properties *)

\* The types of the variables; an install that revokes or drops a credential
\* has found one.
TypeOK ==
    /\ hub \in Hubs
    /\ at \in [Installs -> Steps \cup {"idle", "done"}]
    /\ found \in [Installs -> Some]
    /\ named \in [Installs -> Some]
    /\ tip \in [Installs -> Some]
    /\ late \subseteq broken
    /\ broken \subseteq Installs
    /\ refused \subseteq Installs
    /\ overlapped \subseteq Installs
    /\ newest \in Some
    /\ faults \in 0..MaxFaults
    /\ \A i \in Installs : at[i] \in {"revoke", "drop"} => found[i] \in Installs

\* A bearer that still opens the hub is the one the stored credential records,
\* so that the next install revokes it, or its own install is between minting
\* and storing it, or ended there: revoking before dropping leaves no other
\* way to lose one, whoever runs at the same time and whatever fails
\* (agent-hub-credential.ts:95-115).
BearersAccounted ==
    \A b \in hub.bearers :
        \/ hub.credential = b
        \/ at[b] = "store"
        \/ at[b] = "mint" /\ b \in broken

\* An install that runs alone is refused nothing, however far earlier ones
\* came: every step takes over what it finds (a conflicting asset, a listed
\* provider, a revoked bearer, a credential to replace, a main to build on).
RetrySucceeds == refused \subseteq overlapped

\* The deployment of install i can call the hub: the credential its tree
\* requires is the one bound to it, is still there, and its bearer is valid.
Serves(i) ==
    \E d \in hub.deployed :
        /\ d.by = i
        /\ d.bound = named[d.commit]
        /\ d.bound = hub.credential
        /\ d.bound \in hub.bearers

\* An install that ran alone and returned leaves an agent that can call the
\* hub, until another install starts (install-package.ts:108-187).
SuccessServes ==
    (newest \in Installs \ overlapped /\ at[newest] = "done") => Serves(newest)

Commits == {hub.main[k] : k \in 1..Len(hub.main)}

\* Once an install's push is reported, no other push takes its commit off main,
\* and every deployment runs the commit its own install pushed, not the one
\* main had moved to by then (git-push.ts:157-185, install-package.ts:162-174).
Published ==
    /\ \A i \in Installs : at[i] \in {"untoken", "deploy", "done"} => i \in Commits
    /\ \A d \in hub.deployed : d.commit = d.by /\ d.commit \in Commits

=============================================================================
