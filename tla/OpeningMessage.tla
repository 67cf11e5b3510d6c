--------------------------- MODULE OpeningMessage ---------------------------
(***************************************************************************)
(* The opening message of a new workbench, from the session storage of one *)
(* browser tab (apps/web/src/opening-message.ts), through the workbench    *)
(* page that sends it once an agent is live                                *)
(* (bench/pending-opening-message.tsx, chat/threads-api.ts), to the hub,   *)
(* which triggers the addressed runs one after the other                   *)
(* (apps/hub/src/mailbox-send.ts).                                         *)
(*                                                                         *)
(* A send outlives the page that started it, the hub goes on after the     *)
(* client has given up.  A change of workbench is a Leave and an Open: the *)
(* page is keyed by its workbench, so the component that sends the message *)
(* starts anew, and syncPendingOpeningMessageSession never has another     *)
(* workbench to turn to.                                                   *)
(*                                                                         *)
(* Abstracted: a message is the workbench it opens; the order of the runs  *)
(* in a send; storage that throws.  People are not addressed by these      *)
(* sends, so deliver ends with the last run.                               *)
(***************************************************************************)
EXTENDS Naturals, FiniteSets

CONSTANTS
    Benches,    \* the workbenches created in this tab
    Agents,     \* agents
    Teams,      \* the agents of each workbench
    None,       \* no bench, no send
    MaxRuns,    \* bound on the runs of one agent
    MaxOpens,   \* bound on exits and reloads of the page
    MaxRetries, \* bound on presses of Retry
    MaxFaults   \* bound on failed triggers, lost answers and runs that end

ASSUME OpeningAssumption ==
    /\ Teams \in [Benches -> SUBSET Agents]
    /\ MaxRuns \in Nat /\ MaxOpens \in Nat /\ MaxRetries \in Nat /\ MaxFaults \in Nat
    /\ None \notin Benches /\ None \notin Nat

(* Each opening allows one automatic send, each press another. *)
Sends   == 1 .. (1 + MaxOpens + MaxRetries)
Address == Agents \X (1 .. MaxRuns)

VARIABLES
    started,   \* per bench and agent, its runs so far
    live,      \* per bench, the addresses of its live runs
    roster,    \* per bench, the addresses the cached participants show
    parked,    \* the benches whose message is in session storage
    page,      \* the bench whose page is mounted, or None
    session,   \* its PendingOpeningMessageSession, and the timer
    attempted, \* attemptedTenantId
    mutation,  \* the send the page's mutation shows, or None
    sends,     \* every send, on its way through the client and the hub
    made,      \* sends made so far
    got,       \* the triggers the hub knows to have reached their run
    opens, retries, faults

bench  == <<started, live, roster>>
client == <<page, session, attempted, mutation>>
bounds == <<opens, retries, faults>>
vars   == <<bench, client, parked, sends, made, got, bounds>>

Send == [bench : Benches \cup {None}, to : SUBSET Address, todo : SUBSET Address,
         hub : {"idle", "open", "accepted", "refused"},
         client : {"idle", "waiting", "landed", "settled", "failed"},
         tab : {"page", "left", "gone"}]  \* its page was left or reloaded before the answer

Session == [text : {"none", "shown"}, timer : {"running", "fired"}, timedOut : {"no", "yes"}]

-----------------------------------------------------------------------------
(* The page *)

(* The addresses sendToWorkbench keeps: an agent without a run has none. *)
Live(b) == roster[b]

Pending == mutation # None /\ sends[mutation].client \in {"waiting", "landed"}
IsError == mutation # None /\ sends[mutation].client = "failed"

\* Mutant of Offered: the cap does not count.
OfferedOnError ==
    /\ page # None
    /\ session.text = "shown"
    /\ IsError

(* failed: the bubble shows Retry. *)
Offered ==
    /\ page # None
    /\ session.text = "shown"
    /\ IsError \/ (session.timedOut = "yes" /\ Live(page) = {})

(* createPendingOpeningMessageSession, and the effect that sets the timer *)
NewSession(b) == [text |-> IF b \in parked THEN "shown" ELSE "none",
                  timer |-> "running", timedOut |-> "no"]

(* The page is left: a send on its way goes on and nobody watches it.  A   *)
(* reload also takes what follows its answer.                              *)
Unwatched(how) ==
    [s \in Sends |-> IF sends[s].client = "waiting" /\ sends[s].tab # "gone"
                     THEN [sends[s] EXCEPT !.tab = how] ELSE sends[s]]

Opening ==
    /\ opens < MaxOpens
    /\ opens' = opens + 1

(* The page is opened from elsewhere in the tab. *)
Open(b) ==
    /\ page = None
    /\ page' = b
    /\ session' = NewSession(b)
    /\ UNCHANGED <<bench, attempted, mutation, parked, sends, made, got, bounds>>

(* Another workbench is shown, or another page, or the workbench's error   *)
(* page: the component is unmounted, its ref, mutation and session go.     *)
Leave ==
    /\ page # None
    /\ Opening
    /\ page' = None
    /\ session' = [text |-> "none", timer |-> "fired", timedOut |-> "no"]
    /\ attempted' = None
    /\ mutation' = None
    /\ sends' = Unwatched("left")
    /\ UNCHANGED <<bench, parked, made, got, retries, faults>>

(* The tab is reloaded on the page; session storage and the cached         *)
(* participants survive.                                                   *)
Reload ==
    /\ page # None
    /\ Opening
    /\ session' = NewSession(page)
    /\ attempted' = None
    /\ mutation' = None
    /\ sends' = Unwatched("gone")
    /\ UNCHANGED <<bench, page, parked, made, got, retries, faults>>

TimerFires ==
    /\ page # None
    /\ session.timer = "running"
    /\ session' = [session EXCEPT !.timer = "fired", !.timedOut = "yes"]
    /\ UNCHANGED <<bench, page, attempted, mutation, parked, sends, made, got, bounds>>

(* send.mutate: dispatchOpeningMessage and sendToWorkbench up to the answer *)
Mutates(b) ==
    /\ made + 1 \in Sends
    /\ made' = made + 1
    /\ mutation' = made + 1
    /\ sends' = [sends EXCEPT ![made + 1] =
                    [bench |-> b, to |-> Live(b), todo |-> Live(b),
                     hub |-> "open", client |-> "waiting", tab |-> "page"]]

EffectDue ==
    /\ page # None
    /\ session.text = "shown"
    /\ Live(page) # {}
    /\ attempted # page
    /\ ~Pending

(* The effect *)
AutoSend ==
    /\ EffectDue
    /\ attempted' = page
    /\ Mutates(page)
    /\ UNCHANGED <<bench, page, session, parked, got, bounds>>

(* The Retry button; the effect of a render runs before the person can     *)
(* press what it shows.                                                    *)
Retry ==
    /\ Offered
    /\ ~EffectDue
    /\ retries < MaxRetries
    /\ retries' = retries + 1
    /\ session' = [session EXCEPT !.timedOut = "no"]
    /\ IF Live(page) # {} THEN Mutates(page) ELSE UNCHANGED <<mutation, sends, made>>
    /\ UNCHANGED <<bench, page, attempted, parked, got, opens, faults>>

-----------------------------------------------------------------------------
(* The hub's deliver *)

Deliverable(s, r) == r \in live[sends[s].bench]

\* Mutant of Trigger: a failed trigger is reported and the rest goes on.
TriggerOn(s, r) ==
    /\ r \in sends[s].todo
    /\ sends[s].hub = "open"
    /\ got' = IF Deliverable(s, r) THEN got \cup {<<s, r>>} ELSE got
    /\ sends' = [sends EXCEPT ![s].todo = @ \ {r},
                              ![s].hub = IF sends[s].todo = {r} THEN "accepted" ELSE @]
    /\ UNCHANGED <<bench, client, parked, made, bounds>>

(* One run is triggered. *)
Trigger(s, r) ==
    /\ r \in sends[s].todo
    /\ sends[s].hub = "open"
    /\ Deliverable(s, r)
    /\ got' = got \cup {<<s, r>>}
    /\ sends' = [sends EXCEPT ![s].todo = @ \ {r},
                              ![s].hub = IF sends[s].todo = {r} THEN "accepted" ELSE @]
    /\ UNCHANGED <<bench, client, parked, made, bounds>>

(* The run is finished (409), or its trigger fails, whether it reached the *)
(* run or not: the rest is not triggered.                                  *)
TriggerFails(s, r) ==
    /\ r \in sends[s].todo
    /\ sends[s].hub = "open"
    /\ IF Deliverable(s, r)
       THEN faults < MaxFaults /\ faults' = faults + 1
       ELSE UNCHANGED faults
    /\ sends' = [sends EXCEPT ![s].hub = "refused", ![s].todo = {}]
    /\ UNCHANGED <<bench, client, parked, made, got, opens, retries>>

-----------------------------------------------------------------------------
(* What follows the answer in the client *)

\* Mutant of Land: the message is not cleared before the caches are refreshed.
LandUncleared(s) ==
    /\ sends[s].client = "waiting"
    /\ sends[s].tab # "gone"
    /\ sends[s].hub = "accepted"
    /\ sends' = [sends EXCEPT ![s].client = "landed"]
    /\ UNCHANGED <<bench, client, parked, made, got, bounds>>

(* clearOpeningMessage, before the caches are refreshed *)
Land(s) ==
    /\ sends[s].client = "waiting"
    /\ sends[s].tab # "gone"
    /\ sends[s].hub = "accepted"
    /\ parked' = parked \ {sends[s].bench}
    /\ sends' = [sends EXCEPT ![s].client = "landed"]
    /\ UNCHANGED <<bench, client, made, got, bounds>>

(* onSuccess: it is the session of the page that made the send it changes. *)
Settle(s) ==
    /\ sends[s].client = "landed"
    /\ sends[s].tab # "gone"
    /\ sends' = [sends EXCEPT ![s].client = "settled"]
    /\ session' = IF mutation = s THEN [session EXCEPT !.text = "none"] ELSE session
    /\ UNCHANGED <<bench, page, attempted, mutation, parked, made, got, bounds>>

\* Mutant of Fail: an error after some run has been triggered goes unanswered.
FailUntouched(s) ==
    /\ sends[s].client = "waiting"
    /\ sends[s].tab # "gone"
    /\ sends[s].hub = "refused"
    /\ \A r \in sends[s].to : <<s, r>> \notin got
    /\ sends' = [sends EXCEPT ![s].client = "failed"]
    /\ UNCHANGED <<bench, client, parked, made, got, bounds>>

(* The hub has answered with an error. *)
Fail(s) ==
    /\ sends[s].client = "waiting"
    /\ sends[s].tab # "gone"
    /\ sends[s].hub = "refused"
    /\ sends' = [sends EXCEPT ![s].client = "failed"]
    /\ UNCHANGED <<bench, client, parked, made, got, bounds>>

(* The answer does not arrive; the hub goes on. *)
LoseAnswer(s) ==
    /\ sends[s].client = "waiting"
    /\ sends[s].tab # "gone"
    /\ faults < MaxFaults
    /\ faults' = faults + 1
    /\ sends' = [sends EXCEPT ![s].client = "failed"]
    /\ UNCHANGED <<bench, client, parked, made, got, opens, retries>>

-----------------------------------------------------------------------------
(* Agents come up and stop; the open page reads the participants again.    *)
(* That an agent has come up shows on its own page only: it comes up then. *)

RunStarts(b, a) ==
    /\ b = page
    /\ a \in Teams[b]
    /\ \A r \in live[b] : r[1] # a
    /\ started[b][a] < MaxRuns
    /\ started' = [started EXCEPT ![b][a] = @ + 1]
    /\ live' = [live EXCEPT ![b] = @ \cup {<<a, started[b][a] + 1>>}]
    /\ UNCHANGED <<roster, client, parked, sends, made, got, bounds>>

RunEnds(b, r) ==
    /\ r \in live[b]
    /\ faults < MaxFaults
    /\ faults' = faults + 1
    /\ live' = [live EXCEPT ![b] = @ \ {r}]
    /\ UNCHANGED <<started, roster, client, parked, sends, made, got, opens, retries>>

\* Mutant of Listed: an agent without a run is listed with the others.
ListedAll(b) == {<<a, started[b][a]>> : a \in Teams[b]}

(* listWorkbenchParticipants, its live agents *)
Listed(b) == live[b]

Refresh ==
    /\ page # None
    /\ roster[page] # Listed(page)
    /\ roster' = [roster EXCEPT ![page] = Listed(page)]
    /\ UNCHANGED <<started, live, client, parked, sends, made, got, bounds>>

-----------------------------------------------------------------------------
NoSend == [bench |-> None, to |-> {}, todo |-> {}, hub |-> "idle", client |-> "idle", tab |-> "page"]

(* Workbenches that /new has created, each with an opening message parked, *)
(* and the page it leads to.                                               *)
Init ==
    /\ started = [b \in Benches |-> [a \in Agents |-> 0]]
    /\ live = [b \in Benches |-> {}]
    /\ roster = [b \in Benches |-> {}]
    /\ parked = Benches
    /\ page \in Benches
    /\ session = NewSession(page)
    /\ attempted = None
    /\ mutation = None
    /\ sends = [s \in Sends |-> NoSend]
    /\ made = 0
    /\ got = {}
    /\ opens = 0
    /\ retries = 0
    /\ faults = 0

Hub(s) == \E r \in sends[s].todo : Trigger(s, r) \/ TriggerFails(s, r)

Answer(s) == Land(s) \/ Settle(s) \/ Fail(s)

Next ==
    \/ \E b \in Benches : Open(b)
    \/ Leave \/ Reload \/ TimerFires \/ AutoSend \/ Retry \/ Refresh
    \/ \E s \in Sends : Hub(s) \/ Answer(s) \/ LoseAnswer(s)
    \/ \E b \in Benches :
          \/ \E a \in Agents : RunStarts(b, a)
          \/ \E r \in live[b] : RunEnds(b, r)

Spec == Init /\ [][Next]_vars

(* The open page runs its effect and its timer; the hub works a send off   *)
(* and answers it, and the client handles the answer.  Nobody need come    *)
(* back, press Retry or start an agent, and the roster may stay stale.     *)
Fairness ==
    /\ WF_vars(AutoSend) /\ WF_vars(TimerFires)
    /\ \A s \in Sends : WF_vars(Hub(s)) /\ WF_vars(Answer(s))

FairSpec == Spec /\ Fairness

-----------------------------------------------------------------------------
TypeOK ==
    /\ started \in [Benches -> [Agents -> 0 .. MaxRuns]]
    /\ live \in [Benches -> SUBSET Address]
    /\ roster \in [Benches -> SUBSET Address]
    /\ parked \subseteq Benches
    /\ page \in Benches \cup {None}
    /\ session \in Session
    /\ attempted \in Benches \cup {None}
    /\ mutation \in Sends \cup {None}
    /\ sends \in [Sends -> Send]
    /\ made \in 0 .. (1 + MaxOpens + MaxRetries)
    /\ got \subseteq Sends \X Address
    /\ opens \in 0 .. MaxOpens
    /\ retries \in 0 .. MaxRetries
    /\ faults \in 0 .. MaxFaults

(* The workbench's message is sent again only after a send that failed in  *)
(* front of its page, or that was unanswered when its page was left or     *)
(* reloaded (the next page sends it by itself): one that was answered is   *)
(* never repeated, whatever renders, is left, reopened or reloaded, and    *)
(* wherever the client is in handling the answer (attemptedTenantId,       *)
(* send.isPending, and a clearOpeningMessage that does not wait for the    *)
(* caches).                                                                *)
Repeatable(s) == sends[s].client = "failed" \/ sends[s].tab # "page"

SentAgainForCause ==
    \A s, t \in Sends :
        s < t /\ t <= made /\ sends[s].bench = sends[t].bench => Repeatable(s)

(* "It is never lost", "it is only cleared once the send succeeds":        *)
(* OpeningMessage implements Outbox.                                       *)
Reached == {b \in Benches : \E s \in Sends :
              /\ sends[s].bench = b
              /\ sends[s].to # {}
              /\ \A r \in sends[s].to : <<s, r>> \in got}

Kept == INSTANCE Outbox WITH Messages <- Benches, kept <- parked, reached <- Reached

KeptUntilReached == Kept!Spec

(* A message shown on an open page never waits for nothing: Retry is       *)
(* offered ("Past the cap it stays here with a retry"), or the cap or the  *)
(* effect is still to come, or a send is on its way whose outcome this     *)
(* page will see, whatever sends of earlier pages did meanwhile.  The      *)
(* exception: Retry pressed with no agent live takes the cap back, whose   *)
(* timer runs only once.                                                   *)
CapTakenBack == session.timer = "fired" /\ session.timedOut = "no" /\ Live(page) = {}

OnItsWay(s) ==
    /\ sends[s].tab = "page"
    /\ \/ sends[s].client = "landed"
       \/ sends[s].client = "waiting" /\ (sends[s].hub = "open" => sends[s].todo # {})

NeverStuck ==
    page # None /\ session.text = "shown" =>
        \/ Offered
        \/ session.timer = "running"
        \/ EffectDue
        \/ Pending /\ OnItsWay(mutation)
        \/ CapTakenBack

(* And it comes to an end: a page that stays open has in time sent the     *)
(* message it shows or offers Retry, whichever triggers fail, answers are  *)
(* lost and runs end, and whatever the sends of earlier pages did.         *)
ShownIsResolved ==
    session.text = "shown" ~> session.text = "none" \/ Offered \/ CapTakenBack

=============================================================================
