------------------------ MODULE OpeningMessageProofs ------------------------
(***************************************************************************)
(* Proofs about OpeningMessage, for any workbenches and agents and any     *)
(* number of runs, openings, retries and faults.                           *)
(***************************************************************************)
EXTENDS OpeningMessage, TLAPS

-----------------------------------------------------------------------------
(* Types *)

LEMMA SendsAreNumbers == None \notin Sends /\ \A s \in Sends : s \in Nat
BY OpeningAssumption DEF Sends

LEMMA NoSendType == NoSend \in Send
BY DEF NoSend, Send

LEMMA NewSessionType == ASSUME NEW b \in Benches PROVE NewSession(b) \in Session
BY DEF NewSession, Session

LEMMA TypeInit == Init => TypeOK
<1> SUFFICES ASSUME Init PROVE TypeOK
  OBVIOUS
<1>1. /\ started \in [Benches -> [Agents -> 0 .. MaxRuns]]
      /\ made \in 0 .. (1 + MaxOpens + MaxRetries)
      /\ opens \in 0 .. MaxOpens /\ retries \in 0 .. MaxRetries /\ faults \in 0 .. MaxFaults
  BY OpeningAssumption DEF Init
<1>2. session \in Session
  BY NewSessionType DEF Init
<1>3. sends \in [Sends -> Send]
  BY NoSendType DEF Init
<1>4. /\ live \in [Benches -> SUBSET Address] /\ roster \in [Benches -> SUBSET Address]
      /\ parked \subseteq Benches /\ page \in Benches \cup {None}
      /\ attempted \in Benches \cup {None} /\ mutation \in Sends \cup {None}
      /\ got \subseteq Sends \X Address
  BY DEF Init
<1> QED
  BY <1>1, <1>2, <1>3, <1>4 DEF TypeOK

LEMMA SendClient ==
    ASSUME NEW x \in Send, NEW c \in {"landed", "settled", "failed"}
    PROVE  [x EXCEPT !.client = c] \in Send
BY DEF Send

\* What the hub has still to do of a send gets less.
LEMMA SendHub ==
    ASSUME NEW x \in Send, NEW h \in {"open", "accepted", "refused"}, NEW d \in SUBSET x.todo
    PROVE  [x EXCEPT !.todo = d, !.hub = h] \in Send
<1>1. x.todo \subseteq Address
  BY DEF Send
<1>2. d \in SUBSET Address
  BY <1>1
<1> QED
  BY <1>2 DEF Send

LEMMA UnwatchedType ==
    ASSUME NEW how \in {"left", "gone"}, TypeOK PROVE Unwatched(how) \in [Sends -> Send]
<1> SUFFICES ASSUME NEW s \in Sends
             PROVE  (IF sends[s].client = "waiting" /\ sends[s].tab # "gone"
                     THEN [sends[s] EXCEPT !.tab = how] ELSE sends[s]) \in Send
  BY DEF Unwatched
<1>1. sends[s] \in Send
  BY DEF TypeOK
<1> QED
  BY <1>1 DEF Send

LEMMA MutatesType ==
    ASSUME NEW b \in Benches, TypeOK, Mutates(b)
    PROVE  /\ sends' \in [Sends -> Send]
           /\ mutation' \in Sends
           /\ made' \in 0 .. (1 + MaxOpens + MaxRetries)
<1>1. [bench |-> b, to |-> Live(b), todo |-> Live(b),
       hub |-> "open", client |-> "waiting", tab |-> "page"] \in Send
  BY DEF TypeOK, Send, Live
<1> QED
  BY <1>1, OpeningAssumption DEF Mutates, TypeOK, Sends

LEMMA TypeStep == ASSUME TypeOK, [Next]_vars PROVE TypeOK'
<1> USE OpeningAssumption DEF bench, client, bounds
<1>1. CASE UNCHANGED vars
  BY <1>1 DEF vars, TypeOK
<1>2. ASSUME NEW b \in Benches, Open(b) PROVE TypeOK'
  <2>1. session' \in Session
    BY <1>2, NewSessionType DEF Open
  <2> QED
    BY <1>2, <2>1 DEF Open, TypeOK
<1>4. CASE Leave
  <2>1. session' \in Session
    BY <1>4 DEF Leave, Session
  <2>2. sends' \in [Sends -> Send]
    BY <1>4, UnwatchedType DEF Leave
  <2> QED
    BY <1>4, <2>1, <2>2 DEF Leave, Opening, TypeOK
<1>5. CASE Reload
  <2>1. session' \in Session
    BY <1>5, NewSessionType DEF Reload, TypeOK
  <2>2. sends' \in [Sends -> Send]
    BY <1>5, UnwatchedType DEF Reload
  <2> QED
    BY <1>5, <2>1, <2>2 DEF Reload, Opening, TypeOK
<1>6. CASE TimerFires
  <2>1. session' \in Session
    BY <1>6 DEF TimerFires, TypeOK, Session
  <2> QED
    BY <1>6, <2>1 DEF TimerFires, TypeOK
<1>7. CASE AutoSend
  <2>1. page \in Benches
    BY <1>7 DEF AutoSend, EffectDue, TypeOK
  <2> QED
    BY <1>7, <2>1, MutatesType DEF AutoSend, TypeOK
<1>8. CASE Retry
  <2>1. page \in Benches
    BY <1>8 DEF Retry, Offered, TypeOK
  <2>2. session' \in Session
    BY <1>8 DEF Retry, TypeOK, Session
  <2>3. /\ sends' \in [Sends -> Send] /\ mutation' \in Sends \cup {None}
        /\ made' \in 0 .. (1 + MaxOpens + MaxRetries)
    BY <1>8, <2>1, MutatesType DEF Retry, TypeOK
  <2> QED
    BY <1>8, <2>2, <2>3 DEF Retry, TypeOK
<1>9. CASE Refresh
  BY <1>9 DEF Refresh, Listed, TypeOK
<1>10. ASSUME NEW s \in Sends, NEW r \in sends[s].todo, Trigger(s, r) PROVE TypeOK'
  <2>1. sends[s] \in Send /\ r \in Address
    BY DEF TypeOK, Send
  <2>2. got' \subseteq Sends \X Address
    BY <1>10, <2>1 DEF Trigger, TypeOK
  <2>3. sends' \in [Sends -> Send]
    <3> DEFINE h == IF sends[s].todo = {r} THEN "accepted" ELSE sends[s].hub
    <3>1. sends' = [sends EXCEPT ![s] = [sends[s] EXCEPT !.todo = sends[s].todo \ {r}, !.hub = h]]
      BY <1>10 DEF Trigger
    <3>2. h \in {"open", "accepted", "refused"}
      BY <1>10 DEF Trigger
    <3>3. [sends[s] EXCEPT !.todo = sends[s].todo \ {r}, !.hub = h] \in Send
      BY <2>1, <3>2, SendHub
    <3> QED
      BY <3>1, <3>3 DEF TypeOK
  <2> QED
    BY <1>10, <2>2, <2>3 DEF Trigger, TypeOK
<1>11. ASSUME NEW s \in Sends, NEW r \in sends[s].todo, TriggerFails(s, r) PROVE TypeOK'
  <2>1. sends' \in [Sends -> Send]
    <3>1. sends' = [sends EXCEPT ![s] = [sends[s] EXCEPT !.todo = {}, !.hub = "refused"]]
      BY <1>11 DEF TriggerFails
    <3>2. [sends[s] EXCEPT !.todo = {}, !.hub = "refused"] \in Send
      BY SendHub DEF TypeOK
    <3> QED
      BY <3>1, <3>2 DEF TypeOK
  <2>2. faults' \in 0 .. MaxFaults
    BY <1>11 DEF TriggerFails, TypeOK
  <2> QED
    BY <1>11, <2>1, <2>2 DEF TriggerFails, TypeOK
<1>12. ASSUME NEW s \in Sends, Land(s) PROVE TypeOK'
  <2>1. sends' \in [Sends -> Send]
    BY <1>12, SendClient DEF Land, TypeOK
  <2> QED
    BY <1>12, <2>1 DEF Land, TypeOK
<1>13. ASSUME NEW s \in Sends, Settle(s) PROVE TypeOK'
  <2>1. sends' \in [Sends -> Send]
    BY <1>13, SendClient DEF Settle, TypeOK
  <2>2. session' \in Session
    BY <1>13 DEF Settle, TypeOK, Session
  <2> QED
    BY <1>13, <2>1, <2>2 DEF Settle, TypeOK
<1>14. ASSUME NEW s \in Sends, Fail(s) \/ LoseAnswer(s) PROVE TypeOK'
  <2>1. sends' = [sends EXCEPT ![s] = [sends[s] EXCEPT !.client = "failed"]]
    BY <1>14 DEF Fail, LoseAnswer
  <2>2. sends' \in [Sends -> Send]
    BY <2>1, SendClient DEF TypeOK
  <2>3. faults' \in 0 .. MaxFaults
    BY <1>14 DEF Fail, LoseAnswer, TypeOK
  <2> QED
    BY <1>14, <2>2, <2>3 DEF Fail, LoseAnswer, TypeOK
<1>15. ASSUME NEW b \in Benches, NEW a \in Agents, RunStarts(b, a) PROVE TypeOK'
  <2>1. started[b][a] \in 0 .. MaxRuns /\ started[b][a] < MaxRuns
    BY <1>15 DEF RunStarts, TypeOK
  <2>2. <<a, started[b][a] + 1>> \in Address
    BY <2>1 DEF Address
  <2>3. live' \in [Benches -> SUBSET Address]
    BY <1>15, <2>2 DEF RunStarts, TypeOK
  <2>4. started' \in [Benches -> [Agents -> 0 .. MaxRuns]]
    BY <1>15, <2>1 DEF RunStarts, TypeOK
  <2> QED
    BY <1>15, <2>3, <2>4 DEF RunStarts, TypeOK
<1>16. ASSUME NEW b \in Benches, NEW r \in live[b], RunEnds(b, r) PROVE TypeOK'
  <2>1. live' \in [Benches -> SUBSET Address]
    BY <1>16 DEF RunEnds, TypeOK
  <2> QED
    BY <1>16, <2>1 DEF RunEnds, TypeOK
<1> QED
  BY <1>1, <1>2, <1>4, <1>5, <1>6, <1>7, <1>8, <1>9, <1>10, <1>11, <1>12, <1>13, <1>14,
     <1>15, <1>16 DEF Next, Hub, Answer

\* The page, the sends and the runs keep their types; in particular no send is
\* addressed to an agent that has no run.
THEOREM TypeCorrect == Spec => []TypeOK
BY TypeInit, TypeStep, PTL DEF Spec

-----------------------------------------------------------------------------
(* The message is kept until it has reached its agents                     *)

\* What the hub has worked off has been triggered, up to the first failure.
SendsDelivered ==
    \A s \in Sends :
        /\ s > made => sends[s].hub = "idle" /\ sends[s].to = {}
        /\ sends[s].hub \in {"open", "accepted"} =>
              sends[s].to # {} /\ \A r \in sends[s].to \ sends[s].todo : <<s, r>> \in got
        /\ sends[s].hub = "accepted" => sends[s].todo = {}

TriggersMade == \A s \in Sends : \A r \in Address : <<s, r>> \in got => s <= made

HubInv == TypeOK /\ SendsDelivered /\ TriggersMade

LEMMA HubInit == Init => SendsDelivered /\ TriggersMade
BY DEF Init, SendsDelivered, TriggersMade, NoSend

\* The fields the hub sees of a send, and those it is known by
SameAtHub(s) ==
    /\ sends'[s].bench = sends[s].bench /\ sends'[s].to = sends[s].to
    /\ sends'[s].hub = sends[s].hub /\ sends'[s].todo = sends[s].todo

LEMMA HubUnmoved ==
    ASSUME HubInv, made' = made, got' = got, \A s \in Sends : SameAtHub(s)
    PROVE  SendsDelivered' /\ TriggersMade' /\ Reached' = Reached
BY DEF HubInv, SendsDelivered, TriggersMade, Reached, SameAtHub

LEMMA ClientMoves ==
    ASSUME TypeOK, NEW s \in Sends, NEW c, sends' = [sends EXCEPT ![s].client = c]
    PROVE  \A u \in Sends : SameAtHub(u)
BY DEF TypeOK, Send, SameAtHub

LEMMA PageMoves ==
    ASSUME TypeOK, NEW how, sends' = Unwatched(how)
    PROVE  \A u \in Sends : SameAtHub(u)
<1> SUFFICES ASSUME NEW u \in Sends PROVE SameAtHub(u)
  OBVIOUS
<1>1. sends[u] \in Send
  BY DEF TypeOK
<1>2. sends'[u] = sends[u] \/ sends'[u] = [sends[u] EXCEPT !.tab = how]
  BY DEF Unwatched
<1> QED
  BY <1>1, <1>2 DEF Send, SameAtHub

\* A new send is not among those that have reached anybody.
LEMMA HubMutates ==
    ASSUME HubInv, NEW b \in Benches, Mutates(b), Live(b) # {}, got' = got
    PROVE  SendsDelivered' /\ TriggersMade' /\ Reached' = Reached
<1> DEFINE n == made + 1
           x == [bench |-> b, to |-> Live(b), todo |-> Live(b),
                 hub |-> "open", client |-> "waiting", tab |-> "page"]
<1>1. n \in Sends /\ made \in Nat /\ made' = n
  BY DEF HubInv, TypeOK, Mutates
<1>2. sends'[n] = x /\ \A s \in Sends \ {n} : sends'[s] = sends[s]
  BY <1>1 DEF HubInv, TypeOK, Mutates
<1>3. sends[n].to = {} /\ Live(b) \subseteq Address /\ \A r \in Address : <<n, r>> \notin got
  BY <1>1 DEF HubInv, TypeOK, SendsDelivered, TriggersMade, Live
<1>4. SendsDelivered'
  <2> SUFFICES ASSUME NEW s \in Sends
               PROVE  /\ s > made' => sends'[s].hub = "idle" /\ sends'[s].to = {}
                      /\ sends'[s].hub \in {"open", "accepted"} =>
                            /\ sends'[s].to # {}
                            /\ \A r \in sends'[s].to \ sends'[s].todo : <<s, r>> \in got'
                      /\ sends'[s].hub = "accepted" => sends'[s].todo = {}
    BY DEF SendsDelivered
  <2>1. CASE s = n
    BY <1>1, <1>2, <2>1
  <2>2. CASE s # n
    <3>1. s > made' => s > made
      BY <1>1, SendsAreNumbers
    <3> QED
      BY <1>2, <2>2, <3>1 DEF HubInv, SendsDelivered
  <2> QED
    BY <2>1, <2>2
<1>5. TriggersMade'
  <2>1. \A s \in Sends : s <= made => s <= n
    BY <1>1, SendsAreNumbers
  <2> QED
    BY <1>1, <2>1 DEF HubInv, TriggersMade
<1>6. \A s \in Sends : \A c \in Benches :
         (sends'[s].bench = c /\ sends'[s].to # {} /\ \A r \in sends'[s].to : <<s, r>> \in got')
         <=> (sends[s].bench = c /\ sends[s].to # {} /\ \A r \in sends[s].to : <<s, r>> \in got)
  <2> SUFFICES ASSUME NEW s \in Sends, NEW c \in Benches
               PROVE  (sends'[s].bench = c /\ sends'[s].to # {}
                          /\ \A r \in sends'[s].to : <<s, r>> \in got')
                      <=> (sends[s].bench = c /\ sends[s].to # {}
                          /\ \A r \in sends[s].to : <<s, r>> \in got)
    OBVIOUS
  <2>1. CASE s = n
    <3>1. PICK r \in Live(b) : TRUE
      OBVIOUS
    <3>2. r \in sends'[s].to /\ <<s, r>> \notin got'
      BY <1>2, <1>3, <2>1
    <3> QED
      BY <1>3, <2>1, <3>2
  <2>2. CASE s # n
    BY <1>2, <2>2
  <2> QED
    BY <2>1, <2>2
<1>7. Reached' = Reached
  BY <1>6 DEF Reached
<1> QED
  BY <1>4, <1>5, <1>7

LEMMA HubTriggers ==
    ASSUME HubInv, NEW s \in Sends, NEW r \in sends[s].todo, Trigger(s, r)
    PROVE  /\ SendsDelivered' /\ TriggersMade'
           /\ Reached' = Reached \/ \E b \in Benches \ Reached : Reached' = Reached \cup {b}
<1>1. sends[s] \in Send /\ sends[s].hub = "open" /\ made' = made /\ got' = got \cup {<<s, r>>}
  BY DEF HubInv, TypeOK, Trigger
<1>2. /\ \A u \in Sends \ {s} : sends'[u] = sends[u]
      /\ sends'[s].bench = sends[s].bench /\ sends'[s].to = sends[s].to
      /\ sends'[s].todo = sends[s].todo \ {r}
      /\ sends'[s].hub = IF sends[s].todo = {r} THEN "accepted" ELSE "open"
  BY <1>1 DEF HubInv, TypeOK, Trigger, Send
<1>3. s <= made
  BY <1>1, SendsAreNumbers DEF HubInv, SendsDelivered, TypeOK
<1>4. SendsDelivered'
  <2> SUFFICES ASSUME NEW u \in Sends
               PROVE  /\ u > made' => sends'[u].hub = "idle" /\ sends'[u].to = {}
                      /\ sends'[u].hub \in {"open", "accepted"} =>
                            /\ sends'[u].to # {}
                            /\ \A q \in sends'[u].to \ sends'[u].todo : <<u, q>> \in got'
                      /\ sends'[u].hub = "accepted" => sends'[u].todo = {}
    BY DEF SendsDelivered
  <2>1. CASE u = s
    <3>1. ~(s > made')
      BY <1>1, <1>3, SendsAreNumbers DEF HubInv, TypeOK
    <3>2. sends[s].to # {} /\ \A q \in sends[s].to \ sends[s].todo : <<s, q>> \in got
      BY <1>1 DEF HubInv, SendsDelivered
    <3>3. \A q \in sends'[s].to \ sends'[s].todo : <<s, q>> \in got'
      BY <1>1, <1>2, <3>2
    <3>4. sends'[s].hub = "accepted" => sends'[s].todo = {}
      BY <1>2
    <3> QED
      BY <1>2, <2>1, <3>1, <3>2, <3>3, <3>4
  <2>2. CASE u # s
    BY <1>1, <1>2, <2>2 DEF HubInv, SendsDelivered
  <2> QED
    BY <2>1, <2>2
<1>5. TriggersMade'
  BY <1>1, <1>3 DEF HubInv, TriggersMade
<1>6. Reached \subseteq Reached' /\ Reached' \subseteq Reached \cup {sends[s].bench}
  <2>1. ASSUME NEW b \in Reached PROVE b \in Reached'
    <3>1. b \in Benches
      BY <2>1 DEF Reached
    <3>2. PICK u \in Sends : /\ sends[u].bench = b /\ sends[u].to # {}
                             /\ \A q \in sends[u].to : <<u, q>> \in got
      BY <2>1 DEF Reached
    <3>3. sends'[u].bench = b /\ sends'[u].to # {} /\ \A q \in sends'[u].to : <<u, q>> \in got'
      BY <1>1, <1>2, <3>2
    <3> QED
      BY <3>1, <3>3 DEF Reached
  <2>2. ASSUME NEW b \in Reached', b # sends[s].bench PROVE b \in Reached
    <3>1. b \in Benches
      BY <2>2 DEF Reached
    <3>2. PICK u \in Sends : /\ sends'[u].bench = b /\ sends'[u].to # {}
                             /\ \A q \in sends'[u].to : <<u, q>> \in got'
      BY <2>2 DEF Reached
    <3>3. u # s
      BY <1>2, <2>2, <3>2
    <3>4. sends[u].bench = b /\ sends[u].to # {} /\ \A q \in sends[u].to : <<u, q>> \in got
      BY <1>1, <1>2, <3>2, <3>3
    <3> QED
      BY <3>1, <3>4 DEF Reached
  <2> QED
    BY <2>1, <2>2
<1>7. Reached' \subseteq Benches
  BY DEF Reached
<1> QED
  BY <1>4, <1>5, <1>6, <1>7

LEMMA HubStep ==
    ASSUME HubInv, [Next]_vars
    PROVE  /\ SendsDelivered' /\ TriggersMade'
           /\ Reached' = Reached \/ \E b \in Benches \ Reached : Reached' = Reached \cup {b}
           /\ parked' = parked \/ \E b \in parked \cap Reached : parked' = parked \ {b}
           /\ Reached' = Reached \/ parked' = parked
<1> USE DEF bench, client, bounds
<1>1. CASE UNCHANGED <<sends, made, got, parked>>
  BY <1>1, HubUnmoved DEF SameAtHub
<1>2. ASSUME NEW b \in Benches, Open(b)
      PROVE  UNCHANGED <<sends, made, got, parked>>
  BY <1>2 DEF Open
<1>3. CASE TimerFires \/ Refresh \/ UNCHANGED vars
  BY <1>1, <1>3 DEF TimerFires, Refresh, vars
<1>4. CASE Leave
  BY <1>4, PageMoves, HubUnmoved DEF Leave, HubInv
<1>5. CASE Reload
  BY <1>5, PageMoves, HubUnmoved DEF Reload, HubInv
<1>6. CASE AutoSend
  <2>1. page \in Benches /\ Live(page) # {}
    BY <1>6 DEF AutoSend, EffectDue, HubInv, TypeOK
  <2> QED
    BY <1>6, <2>1, HubMutates DEF AutoSend
<1>7. CASE Retry
  <2>1. page \in Benches
    BY <1>7 DEF Retry, Offered, HubInv, TypeOK
  <2>2. CASE Live(page) # {}
    BY <1>7, <2>1, <2>2, HubMutates DEF Retry
  <2>3. CASE Live(page) = {}
    BY <1>1, <1>7, <2>3 DEF Retry
  <2> QED
    BY <2>2, <2>3
<1>8. ASSUME NEW s \in Sends, NEW r \in sends[s].todo, Trigger(s, r)
      PROVE  /\ SendsDelivered' /\ TriggersMade' /\ parked' = parked
             /\ Reached' = Reached \/ \E b \in Benches \ Reached : Reached' = Reached \cup {b}
  BY <1>8, HubTriggers DEF Trigger
<1>9. ASSUME NEW s \in Sends, NEW r \in sends[s].todo, TriggerFails(s, r)
      PROVE  SendsDelivered' /\ TriggersMade' /\ parked' = parked /\ Reached' = Reached
  <2>1. /\ \A u \in Sends \ {s} : sends'[u] = sends[u]
        /\ sends'[s].bench = sends[s].bench /\ sends'[s].to = sends[s].to
        /\ sends'[s].hub = "refused"
    BY <1>9 DEF TriggerFails, HubInv, TypeOK, Send
  <2>2. UNCHANGED <<made, got, parked>>
    BY <1>9 DEF TriggerFails
  <2>3. sends[s].hub = "open"
    BY <1>9 DEF TriggerFails
  <2>4. SendsDelivered'
    BY <2>1, <2>2, <2>3 DEF HubInv, SendsDelivered
  <2>5. TriggersMade'
    BY <2>2 DEF HubInv, TriggersMade
  <2>6. \A u \in Sends : sends'[u].bench = sends[u].bench /\ sends'[u].to = sends[u].to
    BY <2>1
  <2>7. Reached' = Reached
    BY <2>2, <2>6 DEF Reached
  <2> QED
    BY <2>2, <2>4, <2>5, <2>7
<1>10. ASSUME NEW s \in Sends, Land(s)
       PROVE  /\ SendsDelivered' /\ TriggersMade' /\ Reached' = Reached
              /\ parked' = parked \/ \E b \in parked \cap Reached : parked' = parked \ {b}
  <2>1. SendsDelivered' /\ TriggersMade' /\ Reached' = Reached
    BY <1>10, ClientMoves, HubUnmoved DEF Land, HubInv
  <2>2. sends[s] \in Send /\ sends[s].hub = "accepted"
    BY <1>10 DEF Land, HubInv, TypeOK
  <2>3. sends[s].to # {} /\ \A r \in sends[s].to : <<s, r>> \in got
    BY <2>2 DEF HubInv, SendsDelivered
  <2>4. sends[s].bench \in Benches => sends[s].bench \in Reached
    BY <2>3 DEF Reached
  <2>5. parked' = parked \ {sends[s].bench} /\ parked \subseteq Benches
    BY <1>10 DEF Land, HubInv, TypeOK
  <2> QED
    BY <2>1, <2>4, <2>5
<1>11. ASSUME NEW s \in Sends, Settle(s) \/ Fail(s) \/ LoseAnswer(s)
       PROVE  SendsDelivered' /\ TriggersMade' /\ Reached' = Reached /\ parked' = parked
  <2>1. PICK c : sends' = [sends EXCEPT ![s].client = c]
    BY <1>11 DEF Settle, Fail, LoseAnswer
  <2>2. UNCHANGED <<made, got, parked>>
    BY <1>11 DEF Settle, Fail, LoseAnswer
  <2> QED
    BY <2>1, <2>2, ClientMoves, HubUnmoved DEF HubInv
<1>12. ASSUME NEW b \in Benches, NEW a \in Agents, RunStarts(b, a)
       PROVE  UNCHANGED <<sends, made, got, parked>>
  BY <1>12 DEF RunStarts
<1>13. ASSUME NEW b \in Benches, NEW r \in live[b], RunEnds(b, r)
       PROVE  UNCHANGED <<sends, made, got, parked>>
  BY <1>13 DEF RunEnds
<1>14. CASE AutoSend \/ Retry
  <2>1. parked' = parked
    BY <1>14 DEF AutoSend, Retry
  <2> QED
    BY <1>6, <1>7, <1>14, <2>1
<1> QED
  BY <1>1, <1>2, <1>3, <1>4, <1>5, <1>8, <1>9, <1>10, <1>11, <1>12, <1>13, <1>14
  DEF Next, Hub, Answer

\* OpeningMessage implements Outbox: session storage gives a message up only
\* after one send of it has reached every agent it was addressed to.
THEOREM ImplementsOutbox == Spec => KeptUntilReached
<1>1. Init => HubInv
  BY TypeInit, HubInit DEF HubInv
<1>2. HubInv /\ [Next]_vars => HubInv'
  BY TypeStep, HubStep DEF HubInv
<1>3. Init => Kept!Init
  BY OpeningAssumption DEF Init, Kept!Init, Reached, NoSend
<1>4. HubInv /\ [Next]_vars => [Kept!Next]_Kept!vars
  <2> SUFFICES ASSUME HubInv, [Next]_vars PROVE [Kept!Next]_Kept!vars
    OBVIOUS
  <2>1. CASE Reached' = Reached /\ parked' = parked
    BY <2>1 DEF Kept!vars
  <2>2. CASE Reached' # Reached
    <3>1. PICK b \in Benches \ Reached : Reached' = Reached \cup {b}
      BY <2>2, HubStep
    <3>2. parked' = parked
      BY <2>2, HubStep
    <3>3. Kept!Reach(b)
      BY <3>1, <3>2 DEF Kept!Reach
    <3> QED
      BY <3>3 DEF Kept!Next
  <2>3. CASE parked' # parked
    <3>1. PICK b \in parked \cap Reached : parked' = parked \ {b}
      BY <2>3, HubStep
    <3>2. Reached' = Reached
      BY <2>3, HubStep
    <3>3. Kept!Forget(b)
      BY <3>1, <3>2 DEF Kept!Forget
    <3>4. b \in Benches
      BY <3>1 DEF Reached
    <3> QED
      BY <3>3, <3>4 DEF Kept!Next
  <2> QED
    BY <2>1, <2>2, <2>3
<1> QED
  BY <1>1, <1>2, <1>3, <1>4, PTL DEF Spec, KeptUntilReached, Kept!Spec

-----------------------------------------------------------------------------
(* The page and its sends                                                  *)

Shows(b) == session.text = "shown" /\ page = b

SessionOfPage ==
    /\ session.text = "shown" => page \in Benches
    /\ page \in parked => session.text = "shown"

\* A send the page still watches is the one its mutation shows, or its message
\* is off the page.
Watched(s) ==
    /\ sends[s].client = "idle" => sends[s].bench = None
    /\ sends[s].client \in {"landed", "settled"} => sends[s].bench \notin parked
    /\ sends[s].tab = "page" /\ sends[s].client = "waiting" => mutation = s
    /\ sends[s].tab = "page" /\ sends[s].client = "landed" => mutation = s \/ ~Shows(sends[s].bench)
    /\ sends[s].tab = "page" /\ sends[s].client = "settled" => ~Shows(sends[s].bench)
    /\ sends[s].hub = "open" => sends[s].todo # {}

\* The ref is set with the first send of the page and the mutation shows one.
MutationOfRef ==
    /\ mutation # None => /\ sends[mutation].tab = "page" /\ sends[mutation].client # "idle"
                          /\ sends[mutation].bench = attempted
    /\ mutation # None <=> attempted # None
    /\ attempted \in {None, page}

\* A send its page has not seen fail, and was not left or reloaded under.
Owned(s, b) ==
    /\ sends[s].bench = b
    /\ sends[s].client \in {"waiting", "landed", "settled"}
    /\ sends[s].tab = "page"

PageInv ==
    TypeOK /\ SessionOfPage /\ (\A s \in Sends : Watched(s)) /\ MutationOfRef /\ SentAgainForCause

LEMMA PageInit ==
    Init => SessionOfPage /\ (\A s \in Sends : Watched(s)) /\ MutationOfRef /\ SentAgainForCause
<1> SUFFICES ASSUME Init
             PROVE  SessionOfPage /\ (\A s \in Sends : Watched(s)) /\ MutationOfRef /\ SentAgainForCause
  OBVIOUS
<1>1. SessionOfPage
  BY DEF Init, SessionOfPage, NewSession
<1>2. \A s \in Sends : sends[s] = NoSend
  BY DEF Init
<1>3. \A s \in Sends : Watched(s)
  BY <1>2 DEF Watched, NoSend
<1>4. MutationOfRef
  BY DEF Init, MutationOfRef
<1>5. SentAgainForCause
  BY SendsAreNumbers DEF Init, SentAgainForCause, Sends
<1> QED
  BY <1>1, <1>3, <1>4, <1>5

\* The page sends only a message it shows and has no send of under way or done.
LEMMA NothingOwned ==
    ASSUME PageInv, page # None, session.text = "shown", ~Pending
    PROVE  /\ \A s \in Sends : ~Owned(s, page)
           /\ \A s \in Sends : sends[s].tab = "page" => sends[s].client # "waiting"
           /\ \A s \in Sends : sends[s].tab = "page" /\ sends[s].client \in {"landed", "settled"}
                                  => ~Shows(sends[s].bench)
<1>1. \A s \in Sends : mutation = s => sends[s].client \notin {"waiting", "landed"}
  BY SendsAreNumbers DEF Pending
<1>2. \A s \in Sends : sends[s].tab = "page" => sends[s].client # "waiting"
  BY <1>1 DEF PageInv, Watched
<1>3. \A s \in Sends : sends[s].tab = "page" /\ sends[s].client \in {"landed", "settled"}
                          => ~Shows(sends[s].bench)
  BY <1>1 DEF PageInv, Watched
<1>4. \A s \in Sends : ~Owned(s, page)
  BY <1>2, <1>3 DEF Owned, Shows
<1> QED
  BY <1>2, <1>3, <1>4

LEMMA PageMutates ==
    ASSUME PageInv, page # None, session.text = "shown", ~Pending, Live(page) # {},
           Mutates(page), attempted' = page, page' = page, parked' = parked,
           session'.text = session.text
    PROVE  SessionOfPage' /\ (\A s \in Sends : Watched(s)') /\ MutationOfRef' /\ SentAgainForCause'
<1>1. PICK n \in Sends :
         /\ n = made + 1 /\ made' = n
         /\ mutation' = n /\ \A s \in Sends \ {n} : sends'[s] = sends[s]
         /\ sends'[n] = [bench |-> page, to |-> Live(page), todo |-> Live(page),
                         hub |-> "open", client |-> "waiting", tab |-> "page"]
  BY DEF Mutates, PageInv, TypeOK
<1>2. SessionOfPage'
  BY DEF PageInv, SessionOfPage
<1>3. \A b : Shows(b)' = Shows(b)
  BY DEF Shows
<1>4. ASSUME NEW s \in Sends PROVE Watched(s)'
  <2>1. CASE s = n
    BY <1>1, <2>1 DEF Watched
  <2>2. CASE s # n
    BY <1>1, <1>3, <2>2, NothingOwned DEF PageInv, Watched
  <2> QED
    BY <2>1, <2>2
<1>5. MutationOfRef'
  BY <1>1, SendsAreNumbers DEF MutationOfRef
<1>6. SentAgainForCause'
  <2> SUFFICES ASSUME NEW s \in Sends, NEW t \in Sends, s < t, t <= made',
                      sends'[s].bench = sends'[t].bench
               PROVE  Repeatable(s)'
    BY DEF SentAgainForCause
  <2>1. s \in Nat /\ t \in Nat /\ made \in Nat /\ page \in Benches
    BY SendsAreNumbers DEF PageInv, TypeOK
  <2>2. s # n /\ sends'[s] = sends[s]
    BY <1>1, <2>1
  <2>3. CASE t = n
    <3>1. sends[s].bench = page /\ ~Owned(s, page)
      BY <1>1, <2>2, <2>3, NothingOwned
    <3>2. sends[s].client # "idle"
      BY <2>1, <3>1, OpeningAssumption DEF PageInv, Watched
    <3>3. sends[s].client \in {"idle", "waiting", "landed", "settled", "failed"}
      BY DEF PageInv, TypeOK, Send
    <3> QED
      BY <2>2, <3>1, <3>2, <3>3 DEF Owned, Repeatable
  <2>4. CASE t # n
    <3>1. t <= made /\ sends'[t] = sends[t]
      BY <1>1, <2>1, <2>4
    <3>2. Repeatable(s)
      BY <2>2, <3>1 DEF PageInv, SentAgainForCause
    <3> QED
      BY <2>2, <3>2 DEF Repeatable
  <2> QED
    BY <2>3, <2>4
<1> QED
  BY <1>2, <1>4, <1>5, <1>6

\* A send that may be repeated may be repeated later.
LEMMA CausesStay ==
    ASSUME PageInv, made' = made,
           \A s \in Sends : sends'[s].bench = sends[s].bench /\ (Repeatable(s) => Repeatable(s)')
    PROVE  SentAgainForCause'
BY DEF PageInv, SentAgainForCause

\* What the client knows of a send stays.
SameAtClient(s) ==
    /\ sends'[s].bench = sends[s].bench /\ sends'[s].client = sends[s].client
    /\ sends'[s].tab = sends[s].tab

LEMMA PageUnmoved ==
    ASSUME PageInv, UNCHANGED <<page, attempted, mutation, parked, made>>,
           session'.text = session.text,
           \A s \in Sends : SameAtClient(s) /\ (sends'[s].hub = "open" => sends'[s].todo # {})
    PROVE  SessionOfPage' /\ (\A s \in Sends : Watched(s)') /\ MutationOfRef' /\ SentAgainForCause'
<1>1. SessionOfPage'
  BY DEF PageInv, SessionOfPage
<1>2. \A s \in Sends : Watched(s)'
  BY DEF PageInv, Watched, SameAtClient, Shows
<1>3. MutationOfRef'
  BY DEF PageInv, MutationOfRef, SameAtClient, TypeOK
<1>5. SentAgainForCause'
  BY CausesStay DEF Repeatable, SameAtClient
<1> QED
  BY <1>1, <1>2, <1>3, <1>5

\* Another session begins.
LEMMA PageOpens ==
    ASSUME PageInv, page = None, NEW b \in Benches, page' = b, session' = NewSession(b),
           UNCHANGED <<attempted, mutation, sends, made, parked>>
    PROVE  SessionOfPage' /\ (\A s \in Sends : Watched(s)') /\ MutationOfRef' /\ SentAgainForCause'
<1>1. session'.text = "shown" <=> b \in parked
  BY DEF NewSession
<1>2. SessionOfPage'
  BY <1>1 DEF SessionOfPage
<1>3. \A s \in Sends : sends[s].bench \notin parked => ~Shows(sends[s].bench)'
  BY <1>1 DEF Shows
<1>4. \A s \in Sends : Watched(s)'
  BY <1>3 DEF PageInv, Watched
<1>5. MutationOfRef'
  BY DEF PageInv, MutationOfRef
<1>6. SentAgainForCause'
  BY CausesStay DEF Repeatable
<1> QED
  BY <1>2, <1>4, <1>5, <1>6

\* The page is left or reloaded: nobody watches what is unanswered.
LEMMA PageCloses ==
    ASSUME PageInv, NEW how \in {"left", "gone"}, sends' = Unwatched(how), parked' = parked,
           made' = made, attempted' = None, mutation' = None, SessionOfPage',
           \A b \in Benches : Shows(b)' => b \in parked
    PROVE  (\A s \in Sends : Watched(s)') /\ MutationOfRef' /\ SentAgainForCause'
<1>1. ASSUME NEW s \in Sends
      PROVE  /\ sends'[s].bench = sends[s].bench /\ sends'[s].client = sends[s].client
             /\ sends'[s].hub = sends[s].hub /\ sends'[s].todo = sends[s].todo
             /\ sends'[s].tab = "page" => sends[s].tab = "page" /\ sends[s].client # "waiting"
             /\ sends[s].tab # "page" => sends'[s].tab # "page"
  <2>1. sends[s] \in Send
    BY DEF PageInv, TypeOK
  <2>2. sends'[s] = IF sends[s].client = "waiting" /\ sends[s].tab # "gone"
                    THEN [sends[s] EXCEPT !.tab = how] ELSE sends[s]
    BY DEF Unwatched
  <2> QED
    BY <2>1, <2>2 DEF Send
<1>2. \A s \in Sends : sends'[s].bench \notin parked => ~(Shows(sends[s].bench))'
  BY <1>1 DEF SessionOfPage, Shows
<1>3. \A s \in Sends : Watched(s)'
  BY <1>1, <1>2 DEF PageInv, Watched
<1>4. MutationOfRef'
  BY DEF MutationOfRef
<1>5. SentAgainForCause'
  BY <1>1, CausesStay DEF Repeatable
<1> QED
  BY <1>3, <1>4, <1>5

\* A send gets its outcome in the client.
LEMMA PageAnswers ==
    ASSUME PageInv, NEW s \in Sends, NEW c \in {"landed", "settled", "failed"},
           sends[s].client \in {"waiting", "landed"},
           sends' = [sends EXCEPT ![s].client = c],
           UNCHANGED <<page, attempted, mutation, made>>, SessionOfPage',
           parked' = IF c = "landed" THEN parked \ {sends[s].bench} ELSE parked,
           c = "landed" => sends[s].client = "waiting",
           c = "settled" => sends[s].client = "landed",
           session'.text = "shown" => session.text = "shown",
           c = "settled" /\ sends[s].tab = "page" => ~Shows(sends[s].bench)'
    PROVE  (\A u \in Sends : Watched(u)') /\ MutationOfRef' /\ SentAgainForCause'
<1>1. /\ \A u \in Sends \ {s} : sends'[u] = sends[u]
      /\ sends'[s].client = c /\ sends'[s].bench = sends[s].bench /\ sends'[s].tab = sends[s].tab
      /\ sends'[s].hub = sends[s].hub /\ sends'[s].todo = sends[s].todo
  <2>1. sends[s] \in Send
    BY DEF PageInv, TypeOK
  <2> QED
    BY <2>1 DEF PageInv, TypeOK, Send
<1>2. parked' \subseteq parked /\ \A b : Shows(b)' => Shows(b)
  BY DEF Shows
<1>3. ASSUME NEW u \in Sends, u # s PROVE Watched(u)'
  BY <1>1, <1>2, <1>3 DEF PageInv, Watched
<1>4. Watched(s)'
  <2>1. c \in {"landed", "settled"} => sends[s].bench \notin parked'
    BY DEF PageInv, Watched
  <2>2. c = "landed" /\ sends[s].tab = "page" => mutation = s
    BY DEF PageInv, Watched
  <2> QED
    BY <1>1, <2>1, <2>2 DEF PageInv, Watched
<1>5. MutationOfRef'
  BY <1>1 DEF PageInv, MutationOfRef, TypeOK
<1>6. \A u \in Sends : sends'[u].bench = sends[u].bench /\ (Repeatable(u) => Repeatable(u)')
  BY <1>1 DEF Repeatable
<1>7. SentAgainForCause'
  BY <1>6, CausesStay
<1> QED
  BY <1>3, <1>4, <1>5, <1>7

LEMMA PageStep ==
    ASSUME PageInv, [Next]_vars
    PROVE  SessionOfPage' /\ (\A s \in Sends : Watched(s)') /\ MutationOfRef' /\ SentAgainForCause'
<1> DEFINE Goal == SessionOfPage' /\ (\A s \in Sends : Watched(s)') /\ MutationOfRef' /\ SentAgainForCause'
<1> USE DEF bench, client, bounds
<1>1. CASE UNCHANGED <<client, parked, sends, made>>
  BY <1>1, PageUnmoved DEF SameAtClient, PageInv, Watched
<1>2. ASSUME NEW b \in Benches, Open(b) PROVE Goal
  BY <1>2, PageOpens DEF Open
<1>3. CASE Leave
  <2>1. SessionOfPage'
    BY <1>3, OpeningAssumption DEF Leave, SessionOfPage, PageInv, TypeOK
  <2>2. \A b \in Benches : ~Shows(b)'
    BY <1>3 DEF Leave, Shows
  <2> QED
    BY <1>3, <2>1, <2>2, PageCloses DEF Leave
<1>4. CASE Reload
  <2>1. session'.text = "shown" <=> page \in parked
    BY <1>4 DEF Reload, NewSession
  <2>2. SessionOfPage'
    BY <1>4, <2>1 DEF Reload, SessionOfPage, PageInv, TypeOK
  <2>3. \A b \in Benches : Shows(b)' => b \in parked
    BY <1>4, <2>1 DEF Reload, Shows
  <2> QED
    BY <1>4, <2>2, <2>3, PageCloses DEF Reload
<1>5. CASE TimerFires
  <2>1. session'.text = session.text
    BY <1>5 DEF TimerFires, PageInv, TypeOK, Session
  <2> QED
    BY <1>5, <2>1, PageUnmoved DEF TimerFires, SameAtClient, PageInv, Watched
<1>6. CASE AutoSend
  BY <1>6, PageMutates DEF AutoSend, EffectDue
<1>7. CASE Retry
  <2>1. session'.text = session.text
    BY <1>7 DEF Retry, PageInv, TypeOK, Session
  <2>2. CASE Live(page) # {}
    <3>1. page # None /\ session.text = "shown" /\ IsError
      BY <1>7, <2>2 DEF Retry, Offered
    <3>2. ~Pending
      BY <3>1 DEF IsError, Pending
    <3>3. attempted = page
      BY <1>7, <2>2, <3>1, <3>2 DEF Retry, EffectDue
    <3> QED
      BY <1>7, <2>1, <2>2, <3>1, <3>2, <3>3, PageMutates DEF Retry
  <2>3. CASE Live(page) = {}
    BY <1>7, <2>1, <2>3, PageUnmoved DEF Retry, SameAtClient, PageInv, Watched
  <2> QED
    BY <2>2, <2>3
<1>8. ASSUME NEW s \in Sends, NEW r \in sends[s].todo, Trigger(s, r) \/ TriggerFails(s, r) PROVE Goal
  <2>1. sends[s] \in Send
    BY DEF PageInv, TypeOK
  <2>2. /\ \A u \in Sends \ {s} : sends'[u] = sends[u]
        /\ SameAtClient(s)
        /\ sends'[s].hub = "open" => sends'[s].todo # {}
    BY <1>8, <2>1 DEF Trigger, TriggerFails, PageInv, TypeOK, Send, SameAtClient
  <2>3. \A u \in Sends : SameAtClient(u) /\ (sends'[u].hub = "open" => sends'[u].todo # {})
    BY <2>2 DEF SameAtClient, PageInv, Watched
  <2> QED
    BY <1>8, <2>3, PageUnmoved DEF Trigger, TriggerFails
<1>9. ASSUME NEW s \in Sends, Land(s) PROVE Goal
  <2>1. SessionOfPage'
    BY <1>9 DEF Land, SessionOfPage, PageInv
  <2> QED
    BY <1>9, <2>1, PageAnswers DEF Land
<1>10. ASSUME NEW s \in Sends, Settle(s) PROVE Goal
  <2>1. /\ session'.text = session.text \/ session'.text = "none"
        /\ mutation = s => session'.text = "none"
        /\ mutation # s => session' = session
    BY <1>10 DEF Settle, PageInv, TypeOK, Session
  <2>2. sends[s].client = "landed" /\ sends[s].bench \notin parked
    BY <1>10 DEF Settle, PageInv, Watched
  <2>3. SessionOfPage'
    <3>1. page' = page /\ parked' = parked
      BY <1>10 DEF Settle
    <3>2. mutation = s /\ page # None => page \notin parked
      BY <2>2, SendsAreNumbers DEF PageInv, MutationOfRef
    <3>3. page \in parked => page \in Benches
      BY DEF PageInv, TypeOK
    <3> QED
      BY <2>1, <3>1, <3>2, <3>3, OpeningAssumption DEF SessionOfPage, PageInv
  <2>4. sends'[s].bench = sends[s].bench
    BY <1>10 DEF Settle, PageInv, TypeOK, Send
  <2>5. sends[s].tab = "page" => ~Shows(sends[s].bench)'
    BY <1>10, <2>1, <2>2, <2>4 DEF Settle, Shows, Watched, PageInv
  <2> QED
    BY <1>10, <2>1, <2>2, <2>3, <2>5, PageAnswers DEF Settle
<1>11. ASSUME NEW s \in Sends, Fail(s) \/ LoseAnswer(s) PROVE Goal
  <2>1. SessionOfPage'
    BY <1>11 DEF Fail, LoseAnswer, SessionOfPage, PageInv
  <2> QED
    BY <1>11, <2>1, PageAnswers DEF Fail, LoseAnswer
<1>12. ASSUME NEW b \in Benches, NEW a \in Agents, RunStarts(b, a) PROVE Goal
  BY <1>1, <1>12 DEF RunStarts
<1>13. ASSUME NEW b \in Benches, NEW r \in live[b], RunEnds(b, r) PROVE Goal
  BY <1>1, <1>13 DEF RunEnds
<1>14. CASE Refresh \/ UNCHANGED vars
  BY <1>1, <1>14 DEF Refresh, vars
<1> QED
  BY <1>2, <1>3, <1>4, <1>5, <1>6, <1>7, <1>8, <1>9, <1>10, <1>11, <1>12, <1>13, <1>14
  DEF Next, Hub, Answer

LEMMA PageInvariant == Spec => []PageInv
<1>1. Init => PageInv
  BY TypeInit, PageInit DEF PageInv
<1>2. PageInv /\ [Next]_vars => PageInv'
  BY TypeStep, PageStep DEF PageInv
<1> QED
  BY <1>1, <1>2, PTL DEF Spec

\* What has been answered is not sent again, by any page of the workbench.
THEOREM RepeatsHaveCauses == Spec => []SentAgainForCause
<1>1. PageInv => SentAgainForCause
  BY DEF PageInv
<1> QED
  BY <1>1, PageInvariant, PTL

\* A message on the page can be sent again, or will be, or is being sent.
THEOREM ShownIsMoving == Spec => []NeverStuck
<1>1. PageInv => NeverStuck
  <2> SUFFICES ASSUME PageInv, page # None, session.text = "shown", session.timer # "running",
                      ~CapTakenBack, ~Offered, ~EffectDue
               PROVE  Pending /\ OnItsWay(mutation)
    BY DEF NeverStuck
  <2>1. session.timer = "fired" /\ session.timedOut \in {"no", "yes"}
    BY DEF PageInv, TypeOK, Session
  <2>2. Live(page) # {}
    BY <2>1 DEF CapTakenBack, Offered
  <2>3. Pending
    <3> SUFFICES ASSUME ~Pending PROVE FALSE
      OBVIOUS
    <3>1. attempted = page
      BY <2>2 DEF EffectDue
    <3>2. mutation \in Sends /\ sends[mutation].tab = "page" /\ sends[mutation].client # "idle"
          /\ sends[mutation].bench = page
      BY <3>1 DEF PageInv, MutationOfRef, TypeOK
    <3>3. sends[mutation].client # "failed"
      BY <3>2, SendsAreNumbers DEF Offered, IsError
    <3>4. sends[mutation].client \in {"landed", "settled", "waiting"}
      BY <3>2, <3>3 DEF PageInv, TypeOK, Send
    <3>5. ~Shows(page)
      BY <3>2, <3>4, NothingOwned DEF Owned
    <3> QED
      BY <3>5 DEF Shows
  <2>4. mutation \in Sends /\ sends[mutation].tab = "page"
    BY <2>3 DEF Pending, PageInv, MutationOfRef, TypeOK
  <2> QED
    BY <2>3, <2>4 DEF Pending, OnItsWay, PageInv, Watched
<1> QED
  BY <1>1, PageInvariant, PTL

=============================================================================
