------------------------ MODULE WorkerRedeployProofs ------------------------
(***************************************************************************)
(* Proofs about WorkerRedeploy, for any number of redeploys, deaths and    *)
(* faults.                                                                 *)
(***************************************************************************)
EXTENDS WorkerRedeploy, TLAPS

\* What a page read since the latest redeploy ended is still so where it
\* matters: an agent it shows as to be redeployed is dead.
RostersTrue ==
    \A v \in Views :
        /\ roster[v].age = "fresh" /\ roster[v].shows = "auto" => run = "dead" /\ failed = "no"
        /\ fetch[v] # None /\ fetch[v].age = "fresh" /\ fetch[v].run = "dead" => run = "dead"

FailuresKept == last = "failed" => failed = "yes"

ClaimInv  == TypeOK /\ ClaimExclusive
RosterInv == TypeOK /\ RostersTrue /\ FailuresKept

-----------------------------------------------------------------------------
(* Types *)

LEMMA TypeInit == Init => TypeOK
BY RedeployAssumption DEF Init, TypeOK, Shown, Runs, Modes, Ages, Entry, Read, Task, Idle, Views

LEMMA ShownType == ASSUME NEW r \in Runs PROVE Shown(r) \in Modes
BY DEF Shown, Runs, Modes

LEMMA DeployedType == ASSUME NEW ok \in BOOLEAN, TypeOK, Deployed(ok) PROVE run' \in Runs
BY DEF Deployed, TypeOK, Runs

\* A deployment that is made does not leave the agent dead.
LEMMA DeployedLives == ASSUME NEW ok \in BOOLEAN, Deployed(ok) PROVE run' = run \/ run' # "dead"
BY DEF Deployed

LEMMA ReleasedType ==
    ASSUME NEW t \in Tasks, TypeOK, Released(t)
    PROVE  inFlight' \in {"no", "yes"} /\ tasks' \in [Tasks -> Task]
BY DEF Released, TypeOK, Task, Idle

LEMMA AgedType == ASSUME TypeOK PROVE Aged \in [Views -> Entry]
BY DEF Aged, TypeOK, Entry, Ages

LEMMA RefetchedType ==
    ASSUME run' \in Runs, Refetched PROVE fetch' \in [Views -> Read \cup {None}]
BY DEF Refetched, Read, Ages

\* What a redeploy outside useRestartAgent does to the reads under way
LEMMA AgedReads ==
    ASSUME TypeOK,
           fetch' = [v \in Views |-> IF fetch[v] = None THEN None ELSE [fetch[v] EXCEPT !.age = "old"]]
    PROVE  fetch' \in [Views -> Read \cup {None}]
BY DEF TypeOK, Read, Ages

LEMMA BeginsType ==
    ASSUME NEW t \in Tasks, NEW k \in {"auto", "restart", "catalogue"}, TypeOK, Begins(t, k)
    PROVE  tasks' \in [Tasks -> Task]
BY DEF Begins, TypeOK, Task

LEMMA TypeStep == ASSUME TypeOK, [Next]_vars PROVE TypeOK'
<1> USE RedeployAssumption DEF cache, mounts, bounds
<1>1. CASE UNCHANGED vars
  BY <1>1 DEF vars, TypeOK
<1>2. CASE Fire
  <2>1. tasks' \in [Tasks -> Task] /\ inFlight' \in {"no", "yes"}
    BY <1>2, BeginsType DEF Fire, TypeOK
  <2> QED
    BY <1>2, <2>1 DEF Fire, TypeOK
<1>3. CASE Restart
  <2>1. tasks' \in [Tasks -> Task]
    BY <1>3, BeginsType DEF Restart
  <2> QED
    BY <1>3, <2>1 DEF Restart, TypeOK, Asks, Tasks
<1>4. CASE CatalogueChanges
  <2>1. tasks' \in [Tasks -> Task]
    BY <1>4, BeginsType DEF CatalogueChanges
  <2> QED
    BY <1>4, <2>1 DEF CatalogueChanges, TypeOK, Asks
<1>5. ASSUME NEW t \in Tasks, NEW ok \in BOOLEAN, Settles(t, ok) PROVE TypeOK'
  <2>1. run' \in Runs
    BY <1>5, DeployedType DEF Settles
  <2>2. fetch' \in [Views -> Read \cup {None}]
    BY <1>5, <2>1, RefetchedType DEF Settles
  <2>3. inFlight' \in {"no", "yes"} /\ tasks' \in [Tasks -> Task]
    BY <1>5, ReleasedType DEF Settles
  <2>4. roster' \in [Views -> Entry]
    BY <1>5, AgedType DEF Settles
  <2> QED
    BY <1>5, <2>1, <2>2, <2>3, <2>4 DEF Settles, Marked, TypeOK
<1>6. ASSUME NEW t \in Tasks, NEW ok \in BOOLEAN, CatalogueEnds(t, ok) PROVE TypeOK'
  <2>1. run' \in Runs
    BY <1>6, DeployedType DEF CatalogueEnds
  <2>2. fetch' \in [Views -> Read \cup {None}]
    BY <1>6, AgedReads DEF CatalogueEnds
  <2>3. roster' \in [Views -> Entry]
    BY <1>6, AgedType DEF CatalogueEnds
  <2> QED
    BY <1>6, <2>1, <2>2, <2>3 DEF CatalogueEnds, Marked, TypeOK, Task, Idle
<1>7. ASSUME NEW t \in Tasks, NEW ok \in BOOLEAN, OrphanEnds(t, ok) PROVE TypeOK'
  <2>1. run' \in Runs
    BY <1>7, DeployedType DEF OrphanEnds
  <2>2. fetch' \in [Views -> Read \cup {None}]
    BY <1>7, AgedReads DEF OrphanEnds
  <2>3. roster' \in [Views -> Entry]
    BY <1>7, AgedType DEF OrphanEnds
  <2> QED
    BY <1>7, <2>1, <2>2, <2>3 DEF OrphanEnds, TypeOK, Task, Idle
<1>8. ASSUME NEW t \in Tasks, AnswerLost(t) PROVE TypeOK'
  <2>1. run' \in Runs
    BY <1>8, DeployedType DEF AnswerLost
  <2>2. fetch' \in [Views -> Read \cup {None}]
    BY <1>8, <2>1, AgedReads, RefetchedType DEF AnswerLost
  <2>3. roster' \in [Views -> Entry]
    BY <1>8, AgedType DEF AnswerLost
  <2>4. inFlight' \in {"no", "yes"} /\ tasks' \in [Tasks -> Task]
    BY <1>8, ReleasedType DEF AnswerLost, TypeOK, Task, Idle
  <2> QED
    BY <1>8, <2>1, <2>2, <2>3, <2>4 DEF AnswerLost, Marked, Spends, TypeOK
<1>9. ASSUME NEW v \in Views, Poll(v) \/ Reread(v) PROVE TypeOK'
  <2>1. StartsRead(v)
    BY <1>9 DEF Poll, Reread
  <2> QED
    BY <2>1 DEF StartsRead, TypeOK, Read, Ages
<1>10. ASSUME NEW v \in Views, Lands(v) PROVE TypeOK'
  <2>1. fetch[v] \in Read
    BY <1>10 DEF Lands, TypeOK
  <2>2. [shows |-> Shown(fetch[v].run), age |-> fetch[v].age] \in Entry
    BY <2>1, ShownType DEF Read, Entry
  <2>3. roster' \in [Views -> Entry] /\ fetch' \in [Views -> Read \cup {None}]
    BY <1>10, <2>2 DEF Lands, TypeOK
  <2>4. started' \in {"no", "yes"}
    BY <1>10 DEF Lands, TypeOK
  <2> QED
    BY <1>10, <2>3, <2>4 DEF Lands, TypeOK
<1>11. ASSUME NEW v \in Views, ReadFails(v) PROVE TypeOK'
  BY <1>11 DEF ReadFails, Spends, TypeOK
<1>12. ASSUME NEW p \in Views \cup {"other"}, GoTo(p) PROVE TypeOK'
  BY <1>12 DEF GoTo, TypeOK
<1>13. CASE Reload
  <2>1. tasks' \in [Tasks -> Task]
    BY <1>13 DEF Reload, TypeOK, Task, Idle
  <2> QED
    BY <1>13, <2>1 DEF Reload, Spends, TypeOK
<1>14. CASE RunUp
  BY <1>14 DEF RunUp, TypeOK, Runs
<1>15. CASE DiesQuickly
  BY <1>15 DEF DiesQuickly, TypeOK, Runs
<1>16. CASE Dies
  BY <1>16 DEF Dies, TypeOK, Runs
<1> QED
  BY <1>1, <1>2, <1>3, <1>4, <1>5, <1>6, <1>7, <1>8, <1>9, <1>10, <1>11, <1>12, <1>13, <1>14,
     <1>15, <1>16 DEF Next, Ends

\* The state of the redeploys, the claims and the rosters keeps its type.
THEOREM TypeCorrect == Spec => []TypeOK
BY TypeInit, TypeStep, PTL DEF Spec

-----------------------------------------------------------------------------
(* The claim                                                               *)

LEMMA ClaimInit == Init => ClaimExclusive
<1> SUFFICES ASSUME Init PROVE ClaimExclusive
  OBVIOUS
<1>1. \A t \in Tasks : ~Claims(t)
  BY DEF Init, Claims, Idle
<1>2. inFlight = "no"
  BY DEF Init
<1> QED
  BY <1>1, <1>2 DEF ClaimExclusive

\* A redeploy that makes no claim begins, or ends.
LEMMA ClaimsKept ==
    ASSUME ClaimExclusive, inFlight' = inFlight, \A t \in Tasks : Claims(t)' = Claims(t)
    PROVE  ClaimExclusive'
BY DEF ClaimExclusive

LEMMA AskKeepsClaims ==
    ASSUME NEW t \in Tasks, NEW k \in {"restart", "catalogue"}, TypeOK, Begins(t, k)
    PROVE  \A u \in Tasks : Claims(u)' = Claims(u)
BY DEF Begins, TypeOK, Claims, Deploying, Idle

LEMMA ReleaseFrees ==
    ASSUME NEW t \in Tasks, TypeOK, Released(t)
    PROVE  ClaimExclusive'
<1>1. \A u \in Tasks : ~Claims(u)'
  <2> SUFFICES ASSUME NEW u \in Tasks PROVE ~Claims(u)'
    OBVIOUS
  <2>1. CASE u = t
    BY <2>1 DEF Released, Claims, Deploying, Idle
  <2>2. CASE u # t /\ Deploying(u)
    <3>1. tasks'[u] = [tasks[u] EXCEPT !.claim = "released"]
      BY <2>2 DEF Released
    <3>2. tasks[u] \in Task
      BY DEF TypeOK
    <3>3. tasks'[u].claim = "released"
      BY <3>1, <3>2 DEF Task
    <3> QED
      BY <3>3 DEF Claims
  <2>3. CASE u # t /\ ~Deploying(u)
    BY <2>3 DEF Released, Claims, Deploying
  <2> QED
    BY <2>1, <2>2, <2>3
<1>2. inFlight' = "no"
  BY DEF Released
<1> QED
  BY <1>1, <1>2 DEF ClaimExclusive

LEMMA EndKeepsClaims ==
    ASSUME NEW t \in Tasks, TypeOK, ~Claims(t), tasks' = [tasks EXCEPT ![t] = Idle]
    PROVE  \A u \in Tasks : Claims(u)' = Claims(u)
BY DEF TypeOK, Claims, Deploying, Idle

LEMMA ClaimStep == ASSUME ClaimInv, [Next]_vars PROVE ClaimExclusive'
<1> USE DEF ClaimInv, cache, mounts, bounds
<1>1. CASE UNCHANGED <<tasks, inFlight>>
  BY <1>1, ClaimsKept DEF Claims, Deploying
<1>2. CASE Fire
  <2>1. CASE inFlight = "no"
    <3>1. PICK t \in Tasks : Begins(t, "auto")
      BY <1>2, <2>1 DEF Fire
    <3>2. \A u \in Tasks : ~Claims(u)
      BY <2>1 DEF ClaimExclusive
    <3>3. Claims(t)' /\ (\A u \in Tasks \ {t} : ~Claims(u)')
      BY <3>1, <3>2 DEF Begins, TypeOK, Claims, Deploying
    <3>4. inFlight' = "yes"
      BY <1>2, <2>1 DEF Fire
    <3> QED
      BY <3>3, <3>4 DEF ClaimExclusive
  <2>2. CASE inFlight # "no"
    BY <1>1, <1>2, <2>2 DEF Fire
  <2> QED
    BY <2>1, <2>2
<1>3. CASE Restart
  BY <1>3, AskKeepsClaims, ClaimsKept DEF Restart
<1>4. CASE CatalogueChanges
  BY <1>4, AskKeepsClaims, ClaimsKept DEF CatalogueChanges
<1>5. ASSUME NEW t \in Tasks, NEW ok \in BOOLEAN, Settles(t, ok) PROVE ClaimExclusive'
  BY <1>5, ReleaseFrees DEF Settles
<1>6. ASSUME NEW t \in Tasks, NEW ok \in BOOLEAN, CatalogueEnds(t, ok) PROVE ClaimExclusive'
  <2>1. ~Claims(t)
    BY <1>6 DEF CatalogueEnds, Claims
  <2> QED
    BY <1>6, <2>1, EndKeepsClaims, ClaimsKept DEF CatalogueEnds
<1>7. ASSUME NEW t \in Tasks, NEW ok \in BOOLEAN, OrphanEnds(t, ok) PROVE ClaimExclusive'
  <2>1. ~Claims(t)
    BY <1>7 DEF OrphanEnds, Claims, Deploying
  <2> QED
    BY <1>7, <2>1, EndKeepsClaims, ClaimsKept DEF OrphanEnds
<1>8. ASSUME NEW t \in Tasks, AnswerLost(t) PROVE ClaimExclusive'
  <2>1. CASE tasks[t].kind = "catalogue"
    <3>1. ~Claims(t)
      BY <2>1 DEF Claims
    <3> QED
      BY <1>8, <2>1, <3>1, EndKeepsClaims, ClaimsKept DEF AnswerLost
  <2>2. CASE tasks[t].kind # "catalogue"
    BY <1>8, <2>2, ReleaseFrees DEF AnswerLost
  <2> QED
    BY <2>1, <2>2
<1>9. CASE Reload
  <2>1. inFlight' = "no"
    BY <1>9 DEF Reload
  <2>2. \A u \in Tasks : ~Claims(u)'
    BY <1>9 DEF Reload, Claims, Deploying, Idle
  <2> QED
    BY <2>1, <2>2 DEF ClaimExclusive
<1>10. ASSUME NEW v \in Views, Poll(v) \/ Reread(v) \/ Lands(v) \/ ReadFails(v) PROVE ClaimExclusive'
  BY <1>1, <1>10 DEF Poll, Reread, StartsRead, Lands, ReadFails
<1>11. ASSUME NEW p \in Views \cup {"other"}, GoTo(p) PROVE ClaimExclusive'
  BY <1>1, <1>11 DEF GoTo
<1>12. CASE RunUp \/ DiesQuickly \/ Dies
  BY <1>1, <1>12 DEF RunUp, DiesQuickly, Dies
<1>13. CASE UNCHANGED vars
  BY <1>1, <1>13 DEF vars
<1> QED
  BY <1>2, <1>3, <1>4, <1>5, <1>6, <1>7, <1>8, <1>9, <1>10, <1>11, <1>12, <1>13 DEF Next, Ends

\* At most one redeploy holds the claim, and a claim that is held is held by a
\* redeploy under way: none is left behind to refuse every later page.
THEOREM ClaimIsExclusive == Spec => []ClaimExclusive
<1>1. Init => ClaimInv
  BY TypeInit, ClaimInit DEF ClaimInv
<1>2. ClaimInv /\ [Next]_vars => ClaimInv'
  BY TypeStep, ClaimStep DEF ClaimInv
<1>3. ClaimInv => ClaimExclusive
  BY DEF ClaimInv
<1> QED
  BY <1>1, <1>2, <1>3, PTL DEF Spec

-----------------------------------------------------------------------------
(* The rosters                                                             *)

LEMMA RosterInit == Init => RostersTrue /\ FailuresKept
BY DEF Init, RostersTrue, FailuresKept, Shown, Runs

\* Once a redeploy has ended nothing that was read before counts.
LEMMA AgedRostersTrue ==
    ASSUME TypeOK, roster' = Aged,
           \A v \in Views : fetch'[v] # None /\ fetch'[v].age = "fresh" /\ fetch'[v].run = "dead"
                               => run' = "dead"
    PROVE  RostersTrue'
BY DEF RostersTrue, Aged, TypeOK, Entry

LEMMA RefetchedTrue ==
    ASSUME Refetched
    PROVE  \A v \in Views : fetch'[v] # None /\ fetch'[v].age = "fresh" /\ fetch'[v].run = "dead"
                               => run' = "dead"
BY DEF Refetched

LEMMA AgedReadsTrue ==
    ASSUME TypeOK,
           fetch' = [v \in Views |-> IF fetch[v] = None THEN None ELSE [fetch[v] EXCEPT !.age = "old"]]
    PROVE  \A v \in Views : fetch'[v] # None /\ fetch'[v].age = "fresh" /\ fetch'[v].run = "dead"
                               => run' = "dead"
<1> SUFFICES ASSUME NEW v \in Views, fetch'[v] # None PROVE fetch'[v].age # "fresh"
  OBVIOUS
<1>1. fetch[v] # None /\ fetch[v] \in Read
  BY DEF TypeOK
<1>2. fetch'[v] = [fetch[v] EXCEPT !.age = "old"]
  BY <1>1
<1>3. fetch'[v].age = "old"
  BY <1>1, <1>2 DEF Read
<1> QED
  BY <1>3

\* A step that reads nothing and keeps the dead dead.
LEMMA StillTrue ==
    ASSUME RostersTrue, UNCHANGED cache, run = "dead" => run' = "dead",
           failed' = failed \/ failed' = "no"
    PROVE  RostersTrue'
BY DEF RostersTrue, cache

LEMMA RosterStep == ASSUME RosterInv, [Next]_vars PROVE RostersTrue' /\ FailuresKept'
<1> USE DEF RosterInv
<1>1. CASE UNCHANGED <<run, failed, cache, last>>
  BY <1>1, StillTrue DEF FailuresKept
<1>2. CASE Fire \/ Restart \/ CatalogueChanges
  BY <1>1, <1>2 DEF Fire, Restart, CatalogueChanges
<1>3. ASSUME NEW t \in Tasks, NEW ok \in BOOLEAN, Settles(t, ok) PROVE RostersTrue' /\ FailuresKept'
  <2>1. RostersTrue'
    BY <1>3, RefetchedTrue, AgedRostersTrue DEF Settles
  <2>2. FailuresKept'
    BY <1>3 DEF Settles, Marked, FailuresKept
  <2> QED
    BY <2>1, <2>2
<1>4. ASSUME NEW t \in Tasks, NEW ok \in BOOLEAN, CatalogueEnds(t, ok)
      PROVE  RostersTrue' /\ FailuresKept'
  <2>1. RostersTrue'
    BY <1>4, AgedReadsTrue, AgedRostersTrue DEF CatalogueEnds
  <2>2. FailuresKept'
    BY <1>4 DEF CatalogueEnds, Marked, FailuresKept
  <2> QED
    BY <2>1, <2>2
<1>5. ASSUME NEW t \in Tasks, NEW ok \in BOOLEAN, OrphanEnds(t, ok)
      PROVE  RostersTrue' /\ FailuresKept'
  <2>1. RostersTrue'
    BY <1>5, AgedReadsTrue, AgedRostersTrue DEF OrphanEnds
  <2>2. FailuresKept'
    BY <1>5 DEF OrphanEnds, FailuresKept
  <2> QED
    BY <2>1, <2>2
<1>6. ASSUME NEW t \in Tasks, AnswerLost(t) PROVE RostersTrue' /\ FailuresKept'
  <2>1. RostersTrue'
    <3>1. CASE tasks[t].kind = "catalogue"
      BY <1>6, <3>1, AgedReadsTrue, AgedRostersTrue DEF AnswerLost
    <3>2. CASE tasks[t].kind # "catalogue"
      BY <1>6, <3>2, RefetchedTrue, AgedRostersTrue DEF AnswerLost
    <3> QED
      BY <3>1, <3>2
  <2>2. FailuresKept'
    BY <1>6 DEF AnswerLost, Marked, FailuresKept
  <2> QED
    BY <2>1, <2>2
<1>7. ASSUME NEW v \in Views, Poll(v) \/ Reread(v) PROVE RostersTrue' /\ FailuresKept'
  <2>1. StartsRead(v)
    BY <1>7 DEF Poll, Reread
  <2>2. \A w \in Views \ {v} : fetch'[w] = fetch[w]
    BY <2>1 DEF StartsRead, TypeOK
  <2>3. fetch'[v].run = run
    BY <2>1 DEF StartsRead, TypeOK
  <2> QED
    BY <2>1, <2>2, <2>3 DEF StartsRead, RostersTrue, FailuresKept
<1>8. ASSUME NEW v \in Views, Lands(v) PROVE RostersTrue' /\ FailuresKept'
  <2>1. fetch[v] # None /\ fetch[v].run \in Runs
    BY <1>8 DEF Lands, TypeOK, Read
  <2>2. Shown(fetch[v].run) = "auto" => fetch[v].run = "dead" /\ failed = "no"
    BY <2>1 DEF Shown, Runs, TypeOK
  <2>3. /\ roster'[v].shows = Shown(fetch[v].run) /\ roster'[v].age = fetch[v].age
        /\ \A w \in Views \ {v} : roster'[w] = roster[w] /\ fetch'[w] = fetch[w]
        /\ fetch'[v] = None /\ run' = run /\ failed' = failed /\ last' = last
    BY <1>8 DEF Lands, TypeOK
  <2> QED
    BY <2>1, <2>2, <2>3 DEF RostersTrue, FailuresKept
<1>9. ASSUME NEW v \in Views, ReadFails(v) PROVE RostersTrue' /\ FailuresKept'
  <2>1. /\ \A w \in Views \ {v} : fetch'[w] = fetch[w]
        /\ fetch'[v] = None /\ UNCHANGED <<run, failed, roster, last>>
    BY <1>9 DEF ReadFails, TypeOK
  <2> QED
    BY <2>1 DEF RostersTrue, FailuresKept
<1>10. ASSUME NEW p \in Views \cup {"other"}, GoTo(p) PROVE RostersTrue' /\ FailuresKept'
  BY <1>1, <1>10 DEF GoTo
<1>11. CASE Reload
  BY <1>11 DEF Reload, RostersTrue, FailuresKept
<1>12. CASE RunUp \/ DiesQuickly \/ Dies
  <2>1. run = "dead" => run' = "dead"
    BY <1>12 DEF RunUp, DiesQuickly, Dies
  <2>2. UNCHANGED <<failed, cache, last>>
    BY <1>12 DEF RunUp, DiesQuickly, Dies
  <2> QED
    BY <2>1, <2>2, StillTrue DEF FailuresKept
<1>13. CASE UNCHANGED vars
  BY <1>1, <1>13 DEF vars
<1> QED
  BY <1>2, <1>3, <1>4, <1>5, <1>6, <1>7, <1>8, <1>9, <1>10, <1>11, <1>12, <1>13 DEF Next, Ends

\* Only the effect of a page starts a redeploy by itself.
LEMMA OnlyFire ==
    ASSUME TypeOK, [Next]_vars, StartsAuto
    PROVE  Fire
<1> USE DEF cache, mounts, bounds
<1>1. PICK t \in Tasks : ~Deploying(t) /\ tasks'[t].at = "deploying" /\ tasks'[t].kind = "auto"
  BY DEF StartsAuto
<1>2. ~UNCHANGED tasks
  BY <1>1 DEF Deploying
<1>3. ~Restart /\ ~CatalogueChanges
  BY <1>1 DEF Restart, CatalogueChanges, Begins, TypeOK, Deploying
<1>4. ASSUME NEW u \in Tasks PROVE ~Released(u) /\ tasks' # [tasks EXCEPT ![u] = Idle]
  <2>1. tasks[t] \in Task
    BY DEF TypeOK
  <2>2. CASE Released(u)
    <3>1. tasks'[t] \in {Idle, tasks[t]}
      BY <1>1, <2>2 DEF Released
    <3> QED
      BY <1>1, <3>1 DEF Idle, Deploying
  <2>3. CASE tasks' = [tasks EXCEPT ![u] = Idle]
    BY <1>1, <2>3 DEF Idle, Deploying, TypeOK
  <2> QED
    BY <2>2, <2>3
<1>5. \A u \in Tasks, ok \in BOOLEAN : ~Settles(u, ok) /\ ~CatalogueEnds(u, ok) /\ ~OrphanEnds(u, ok)
  BY <1>4 DEF Settles, CatalogueEnds, OrphanEnds
<1>6. \A u \in Tasks : ~AnswerLost(u)
  BY <1>4 DEF AnswerLost
<1>7. ~Reload
  BY <1>1 DEF Reload, Idle, Deploying
<1>8. \A v \in Views : ~Poll(v) /\ ~Reread(v) /\ ~Lands(v) /\ ~ReadFails(v)
  BY <1>2 DEF Poll, Reread, StartsRead, Lands, ReadFails
<1>9. \A p \in Views \cup {"other"} : ~GoTo(p)
  BY <1>2 DEF GoTo
<1>10. ~RunUp /\ ~DiesQuickly /\ ~Dies /\ ~UNCHANGED vars
  BY <1>2 DEF RunUp, DiesQuickly, Dies, vars
<1> QED
  BY <1>3, <1>5, <1>6, <1>7, <1>8, <1>9, <1>10 DEF Next, Ends

\* A page whose roster was read since the latest redeploy ended redeploys by
\* itself only an agent that is dead, and not one whose latest redeploy failed.
THEOREM RedeploysOnlyTheDead == Spec => RedeploysOnce
<1>1. Init => RosterInv
  BY TypeInit, RosterInit DEF RosterInv
<1>2. RosterInv /\ [Next]_vars => RosterInv'
  BY TypeStep, RosterStep DEF RosterInv
<1>3. RosterInv /\ [Next]_vars => [StartsAuto /\ roster[page].age = "fresh" => run = "dead" /\ last # "failed"]_vars
  <2>1. SUFFICES ASSUME RosterInv, [Next]_vars, StartsAuto, roster[page].age = "fresh"
                 PROVE  run = "dead" /\ last # "failed"
    OBVIOUS
  <2>2. Fire
    BY <2>1, OnlyFire DEF RosterInv
  <2>3. page \in Views /\ roster[page].shows = "auto"
    BY <2>2 DEF Fire
  <2>4. run = "dead" /\ failed = "no"
    BY <2>1, <2>3 DEF RosterInv, RostersTrue
  <2> QED
    BY <2>1, <2>4 DEF RosterInv, FailuresKept
<1> QED
  BY <1>1, <1>2, <1>3, PTL DEF Spec, RedeploysOnce

=============================================================================
