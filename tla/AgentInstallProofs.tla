-------------------------- MODULE AgentInstallProofs --------------------------
(***************************************************************************)
(* Proofs about AgentInstall, for any number of installs and any number of *)
(* failed requests.                                                        *)
(***************************************************************************)
EXTENDS AgentInstall, TLAPS

Stored == {"store", "token", "advertise", "push", "untoken", "deploy", "done"}

\* A row that is stored, or was listed, records a bearer minted by then.
RowsAreMinted ==
    /\ hub.credential \in Installs => at[hub.credential] \in Stored
    /\ \A i \in Installs : found[i] \in Installs => at[found[i]] \in Stored

\* A row is dropped only once its bearer is revoked, for good.
DropsDead == \A i \in Installs : at[i] = "drop" => found[i] \notin hub.bearers

BearerInv == TypeOK /\ RowsAreMinted /\ DropsDead /\ BearersAccounted

\* What an install that runs alone has learnt of the hub is still so.
Undisturbed(i) ==
    /\ at[i] = "create" => "provider" \notin hub.made
    /\ at[i] \in {"revoke", "drop"} => hub.credential = found[i]
    /\ at[i] \in {"mint", "store"} => hub.credential = NoInstall
    /\ at[i] \in Stored => i \in hub.bearers
    /\ at[i] \in Stored \ {"store"} => hub.credential = i /\ named[i] = i
    /\ at[i] = "push" => tip[i] = TipOf(hub.main)

Solo ==
    \A i \in Installs \ overlapped :
        /\ i \in Running => Busy = {i} /\ Undisturbed(i)
        /\ newest = i /\ at[i] = "done" => Busy = {} /\ Serves(i)

SoloInv == TypeOK /\ Solo /\ RetrySucceeds

PublishInv == TypeOK /\ Published

-----------------------------------------------------------------------------
(* Types *)

LEMMA TypeInit == Init => TypeOK
BY InstallAssumption DEF Init, TypeOK, Hubs, Some

\* What main points at is a commit of some install, or nothing.
LEMMA TipType == ASSUME TypeOK PROVE TipOf(hub.main) \in Some
BY DEF TypeOK, Hubs, Some, TipOf

LEMMA TypeStep == ASSUME TypeOK, [Next]_vars PROVE TypeOK'
<1> USE InstallAssumption DEF TypeOK, Hubs, Some, Writes, Steps
<1>1. CASE UNCHANGED vars
  BY <1>1 DEF vars, local
<1>2. ASSUME NEW i \in Installs, Start(i) PROVE TypeOK'
  BY <1>2 DEF Start, Busy, Running, local
<1>3. ASSUME NEW i \in Installs, EnsureAsset(i) PROVE TypeOK'
  BY <1>3 DEF EnsureAsset, Handle, Running, local
<1>4. ASSUME NEW i \in Installs, ListProviders(i) PROVE TypeOK'
  BY <1>4 DEF ListProviders, Handle, Running, local
<1>5. ASSUME NEW i \in Installs, CreateProvider(i) PROVE TypeOK'
  BY <1>5 DEF CreateProvider, Handle, Refuse, Running, local
<1>6. ASSUME NEW i \in Installs, ListCredentials(i) PROVE TypeOK'
  BY <1>6 DEF ListCredentials, Handle, Running, local
<1>7. ASSUME NEW i \in Installs, Revoke(i) PROVE TypeOK'
  BY <1>7 DEF Revoke, Handle, Running, local
<1>8. ASSUME NEW i \in Installs, Drop(i) PROVE TypeOK'
  BY <1>8 DEF Drop, Handle, Refuse, Running, local
<1>9. ASSUME NEW i \in Installs, Mint(i) PROVE TypeOK'
  BY <1>9 DEF Mint, Handle, Running, local
<1>10. ASSUME NEW i \in Installs, Store(i) PROVE TypeOK'
  BY <1>10 DEF Store, Handle, Refuse, Running, local
<1>11. ASSUME NEW i \in Installs, MintPushToken(i) PROVE TypeOK'
  BY <1>11 DEF MintPushToken, Handle, Running, local
<1>12. ASSUME NEW i \in Installs, Advertise(i) PROVE TypeOK'
  BY <1>12, TipType DEF Advertise, Handle, Running, local
<1>13. ASSUME NEW i \in Installs, Push(i) PROVE TypeOK'
  <2>1. Append(hub.main, i) \in Seq(Installs)
    OBVIOUS
  <2>2. [hub EXCEPT !.main = Append(@, i)] \in Hubs
    BY <2>1
  <2>3. hub' \in Hubs
    BY <1>13, <2>2 DEF Push, Handle, Refuse, local
  <2>4. \/ at' = at
        \/ at' = [at EXCEPT ![i] = "untoken"]
    BY <1>13 DEF Push, Handle, Refuse
  <2>5. /\ late' \subseteq broken' /\ broken' = broken /\ refused' \subseteq Installs
        /\ UNCHANGED <<found, named, tip, overlapped, newest, faults>>
    BY <1>13 DEF Push, Handle, Refuse, Running, local
  <2> QED
    BY <2>3, <2>4, <2>5
<1>14. ASSUME NEW i \in Installs, DeletePushToken(i) PROVE TypeOK'
  BY <1>14 DEF DeletePushToken, Handle, Running, local
<1>15. ASSUME NEW i \in Installs, Deploy(i) PROVE TypeOK'
  BY <1>15 DEF Deploy, Handle, Refuse, Running, local
<1>16. ASSUME NEW i \in Installs, Break(i) PROVE TypeOK'
  BY <1>16 DEF Break, Running, local
<1>17. QED
  BY <1>1, <1>2, <1>3, <1>4, <1>5, <1>6, <1>7, <1>8, <1>9, <1>10, <1>11, <1>12, <1>13, <1>14, <1>15, <1>16 DEF Next

\* Every variable keeps its type, and an install revokes and drops only a
\* credential it has found.
THEOREM TypeCorrect == Spec => []TypeOK
BY TypeInit, TypeStep, PTL DEF Spec

-----------------------------------------------------------------------------
(* Bearers *)

LEMMA BearerInit == Init => BearerInv
BY TypeInit, InstallAssumption
   DEF Init, BearerInv, RowsAreMinted, DropsDead, BearersAccounted

LEMMA BearerStep == ASSUME BearerInv, [Next]_vars PROVE BearerInv'
<1>1. TypeOK /\ TypeOK'
  BY TypeStep DEF BearerInv
<1> SUFFICES (RowsAreMinted /\ DropsDead /\ BearersAccounted)'
  BY <1>1 DEF BearerInv
<1> USE <1>1, InstallAssumption
    DEF BearerInv, TypeOK, Hubs, Some, RowsAreMinted, DropsDead, BearersAccounted, Stored
<1>2. CASE UNCHANGED vars
  BY <1>2 DEF vars, local
<1>3. ASSUME NEW i \in Installs, Start(i)
      PROVE (RowsAreMinted /\ DropsDead /\ BearersAccounted)'
  BY <1>3 DEF Start, local
<1>4. ASSUME NEW i \in Installs, EnsureAsset(i)
      PROVE (RowsAreMinted /\ DropsDead /\ BearersAccounted)'
  <2>1. hub'.credential = hub.credential /\ hub'.bearers = hub.bearers
    BY <1>4 DEF EnsureAsset, Handle, local
  <2>2. /\ at' = at \/ at' = [at EXCEPT ![i] = "provider"]
        /\ UNCHANGED <<found, broken>>
    BY <1>4 DEF EnsureAsset, Handle, local
  <2>3. at[i] = "asset"
    BY <1>4 DEF EnsureAsset, Handle, local
  <2>4. RowsAreMinted'
    BY <2>1, <2>2, <2>3
  <2>5. DropsDead'
    BY <2>1, <2>2, <2>3
  <2>6. BearersAccounted'
    BY <2>1, <2>2, <2>3
  <2> QED
    BY <2>4, <2>5, <2>6
<1>5. ASSUME NEW i \in Installs, ListProviders(i)
      PROVE (RowsAreMinted /\ DropsDead /\ BearersAccounted)'
  BY <1>5 DEF ListProviders, Handle, Running, local
<1>6. ASSUME NEW i \in Installs, CreateProvider(i)
      PROVE (RowsAreMinted /\ DropsDead /\ BearersAccounted)'
  BY <1>6 DEF CreateProvider, Handle, Refuse, Running, local
<1>7. ASSUME NEW i \in Installs, ListCredentials(i)
      PROVE (RowsAreMinted /\ DropsDead /\ BearersAccounted)'
  BY <1>7 DEF ListCredentials, Handle, Running, local
<1>8. ASSUME NEW i \in Installs, Revoke(i)
      PROVE (RowsAreMinted /\ DropsDead /\ BearersAccounted)'
  <2>1. hub'.credential = hub.credential
    BY <1>8 DEF Revoke, Handle
  <2>2. hub'.bearers = hub.bearers \ {found[i]}
    BY <1>8 DEF Revoke, Handle
  <2>3. /\ at' = at \/ at' = [at EXCEPT ![i] = "drop"]
        /\ UNCHANGED <<found, broken>>
    BY <1>8 DEF Revoke, Handle, local
  <2>4. at[i] = "revoke"
    BY <1>8 DEF Revoke, Handle
  <2>5. RowsAreMinted'
    <3>1. ASSUME NEW j \in Installs, at[j] \in Stored PROVE at'[j] = at[j]
      BY <2>3, <2>4, <3>1
    <3> QED
      BY <2>1, <2>3, <3>1
  <2>6. DropsDead'
    BY <2>2, <2>3
  <2>7. BearersAccounted'
    BY <2>1, <2>2, <2>3, <2>4
  <2> QED
    BY <2>5, <2>6, <2>7
<1>9. ASSUME NEW i \in Installs, Drop(i)
      PROVE (RowsAreMinted /\ DropsDead /\ BearersAccounted)'
  BY <1>9 DEF Drop, Handle, Refuse, Running, local
<1>10. ASSUME NEW i \in Installs, Mint(i)
      PROVE (RowsAreMinted /\ DropsDead /\ BearersAccounted)'
  BY <1>10 DEF Mint, Handle, Running, local
<1>11. ASSUME NEW i \in Installs, Store(i)
      PROVE (RowsAreMinted /\ DropsDead /\ BearersAccounted)'
  BY <1>11 DEF Store, Handle, Refuse, Running, local
<1>12. ASSUME NEW i \in Installs, MintPushToken(i)
      PROVE (RowsAreMinted /\ DropsDead /\ BearersAccounted)'
  BY <1>12 DEF MintPushToken, Handle, Running, local
<1>13. ASSUME NEW i \in Installs, Advertise(i)
      PROVE (RowsAreMinted /\ DropsDead /\ BearersAccounted)'
  BY <1>13 DEF Advertise, Handle, Running, local
<1>14. ASSUME NEW i \in Installs, Push(i)
      PROVE (RowsAreMinted /\ DropsDead /\ BearersAccounted)'
  <2>1. hub'.credential = hub.credential /\ hub'.bearers = hub.bearers
    BY <1>14 DEF Push, Handle, Refuse, local
  <2>2. /\ at' = at \/ at' = [at EXCEPT ![i] = "untoken"]
        /\ UNCHANGED <<found, broken>>
    BY <1>14 DEF Push, Handle, Refuse, local
  <2>3. at[i] = "push"
    BY <1>14 DEF Push, Handle, Refuse, local
  <2>4. RowsAreMinted'
    BY <2>1, <2>2, <2>3
  <2>5. DropsDead'
    BY <2>1, <2>2, <2>3
  <2>6. BearersAccounted'
    BY <2>1, <2>2, <2>3
  <2> QED
    BY <2>4, <2>5, <2>6
<1>15. ASSUME NEW i \in Installs, DeletePushToken(i)
      PROVE (RowsAreMinted /\ DropsDead /\ BearersAccounted)'
  BY <1>15 DEF DeletePushToken, Handle, Running, local
<1>16. ASSUME NEW i \in Installs, Deploy(i)
      PROVE (RowsAreMinted /\ DropsDead /\ BearersAccounted)'
  BY <1>16 DEF Deploy, Handle, Refuse, Running, local
<1>17. ASSUME NEW i \in Installs, Break(i)
      PROVE (RowsAreMinted /\ DropsDead /\ BearersAccounted)'
  BY <1>17 DEF Break, local
<1>18. QED
  BY <1>2, <1>3, <1>4, <1>5, <1>6, <1>7, <1>8, <1>9, <1>10, <1>11, <1>12, <1>13, <1>14, <1>15, <1>16, <1>17 DEF Next

\* No bearer is lost but between minting and storing it, whatever fails and
\* however many installs run at the same time.
THEOREM BearersKept == Spec => []BearersAccounted
<1>1. BearerInv => BearersAccounted
  BY DEF BearerInv
<1> QED
  BY BearerInit, BearerStep, <1>1, PTL DEF Spec

-----------------------------------------------------------------------------
(* Running alone *)

\* The request of i is handled: i goes on, or was gone.
Moves(i) ==
    /\ at[i] \in Steps
    /\ \/ i \in Running /\ UNCHANGED late
          /\ \E next \in Steps \cup {"done"} : at' = [at EXCEPT ![i] = next]
       \/ i \in late /\ late' = late \ {i} /\ UNCHANGED at
    /\ UNCHANGED <<broken, refused, overlapped, newest>>

\* Only i itself can be the one that runs alone while i has a request out.
LEMMA MoveKeeps ==
    ASSUME SoloInv, NEW i \in Installs, Moves(i),
           i \in Running \ overlapped /\ Undisturbed(i) =>
               IF at'[i] = "done" THEN Serves(i)' ELSE Undisturbed(i)'
    PROVE  Solo'
<1>1. i \in Busy /\ i \in Running \cup late
  BY DEF Moves, Busy
<1>2. Running' \subseteq Running /\ Busy' \subseteq Busy
  BY DEF Moves, Running, Busy, SoloInv, TypeOK, Steps, Writes
<1>3. ASSUME NEW j \in Installs \ overlapped', j \in Running'
      PROVE  Busy' = {j} /\ Undisturbed(j)'
  <2>1. j \in Running /\ Busy = {j} /\ Undisturbed(j)
    BY <1>2, <1>3 DEF SoloInv, Solo, Moves
  <2>2. i = j /\ at'[i] # "done"
    BY <1>1, <1>3, <2>1 DEF Running, Steps, Writes
  <2> QED
    BY <1>2, <1>3, <2>1, <2>2 DEF Busy, Moves
<1>4. ASSUME NEW j \in Installs \ overlapped', newest' = j, at'[j] = "done"
      PROVE  Busy' = {} /\ Serves(j)'
  <2>1. at[j] # "done"
    BY <1>1, <1>4 DEF SoloInv, Solo, Moves
  <2>2. i = j /\ i \in Running /\ UNCHANGED late
    BY <1>4, <2>1 DEF Moves, SoloInv, TypeOK
  <2>3. Busy = {i} /\ Undisturbed(i) /\ i \notin late
    BY <1>4, <2>2 DEF SoloInv, Solo, Moves, Running, TypeOK
  <2>4. i \notin Running'
    BY <1>4, <2>2 DEF Running, Steps, Writes
  <2> QED
    BY <1>2, <1>4, <2>2, <2>3, <2>4 DEF Busy, Moves
<1> QED
  BY <1>3, <1>4 DEF Solo

\* An install that stops leaves nobody running alone.
LEMMA StopKeeps ==
    ASSUME SoloInv, NEW i \in Installs, i \in Busy,
           UNCHANGED <<at, overlapped, newest>>,
           Running' \subseteq Running \ {i}
    PROVE  Solo'
BY DEF SoloInv, Solo, Busy

\* An install that runs alone is not refused.
LEMMA RefuseKeeps ==
    ASSUME SoloInv, NEW i \in Installs, NEW s \in Steps, Refuse(i, s),
           i \in Running \ overlapped => ~Undisturbed(i)
    PROVE  (Solo /\ RetrySucceeds)'
<1>1. i \in Busy /\ UNCHANGED <<at, overlapped, newest, broken>>
  BY DEF Refuse, Busy
<1>2. Running' \subseteq Running \ {i}
  BY DEF Refuse, Running, SoloInv, TypeOK
<1>3. i \in Running => i \in overlapped
  BY DEF SoloInv, Solo
<1> QED
  BY <1>1, <1>2, <1>3, StopKeeps DEF Refuse, SoloInv, RetrySucceeds

LEMMA SoloInit == Init => SoloInv
BY TypeInit DEF Init, SoloInv, Solo, RetrySucceeds, Running, Steps, Writes

LEMMA SoloStep == ASSUME SoloInv, [Next]_vars PROVE SoloInv'
<1>1. TypeOK /\ TypeOK'
  BY TypeStep DEF SoloInv
<1> SUFFICES (Solo /\ RetrySucceeds)'
  BY <1>1 DEF SoloInv
<1> USE <1>1, InstallAssumption DEF TypeOK, Hubs, Some
<1>2. CASE UNCHANGED vars
  BY <1>2 DEF vars, local, SoloInv, Solo, RetrySucceeds, Running, Busy, Undisturbed, Serves
<1>3. ASSUME NEW i \in Installs, Start(i) PROVE (Solo /\ RetrySucceeds)'
  <2>1. RetrySucceeds'
    BY <1>3 DEF Start, SoloInv, RetrySucceeds
  <2>2. ASSUME NEW j \in Installs \ overlapped', j \in Running'
        PROVE  Busy' = {j} /\ Undisturbed(j)'
    <3>1. Busy = {} /\ j = i
      <4>1. Busy = {}
        BY <1>3, <2>2 DEF Start, Running, Busy
      <4> QED
        BY <1>3, <2>2, <4>1 DEF Start, Running, Busy
    <3>2. Busy' = {i}
      BY <1>3, <2>2, <3>1 DEF Start, Running, Busy
    <3> QED
      BY <1>3, <3>1, <3>2 DEF Start, Undisturbed, Stored
  <2>3. ~(newest' \in Installs /\ at'[newest'] = "done")
    BY <1>3 DEF Start
  <2> QED
    BY <2>1, <2>2, <2>3 DEF Solo
<1>4. ASSUME NEW i \in Installs, EnsureAsset(i) PROVE (Solo /\ RetrySucceeds)'
  <2>1. Moves(i)
    BY <1>4 DEF EnsureAsset, Handle, Moves, Steps, Writes
  <2>2. ASSUME i \in Running, Undisturbed(i)
        PROVE  IF at'[i] = "done" THEN Serves(i)' ELSE Undisturbed(i)'
    BY <1>4, <2>2 DEF EnsureAsset, Handle, Running, local, Undisturbed, Stored, Serves
  <2> QED
    BY <2>1, <2>2, MoveKeeps DEF Moves, SoloInv, RetrySucceeds
<1>5. ASSUME NEW i \in Installs, ListProviders(i) PROVE (Solo /\ RetrySucceeds)'
  <2>1. Moves(i)
    BY <1>5 DEF ListProviders, Handle, Moves, Steps, Writes
  <2>2. ASSUME i \in Running, Undisturbed(i)
        PROVE  IF at'[i] = "done" THEN Serves(i)' ELSE Undisturbed(i)'
    BY <1>5, <2>2 DEF ListProviders, Handle, Running, local, Undisturbed, Stored, Serves
  <2> QED
    BY <2>1, <2>2, MoveKeeps DEF Moves, SoloInv, RetrySucceeds
<1>6. ASSUME NEW i \in Installs, CreateProvider(i) PROVE (Solo /\ RetrySucceeds)'
  <2>1. CASE ~("provider" \notin hub.made)
    <3>1. at[i] = "create" /\ Refuse(i, at[i])
      BY <1>6, <2>1 DEF CreateProvider, Refuse
    <3>2. ~Undisturbed(i)
      BY <2>1, <3>1 DEF Undisturbed, Stored
    <3> QED
      BY <3>1, <3>2, RefuseKeeps DEF Steps, Writes
  <2>2. CASE "provider" \notin hub.made
    <3>1. Moves(i)
      BY <1>6, <2>2 DEF CreateProvider, Handle, Refuse, Moves, Steps, Writes
    <3>2. ASSUME i \in Running, Undisturbed(i)
          PROVE  IF at'[i] = "done" THEN Serves(i)' ELSE Undisturbed(i)'
      BY <1>6, <2>2, <3>2 DEF CreateProvider, Handle, Refuse, Running, local, Undisturbed, Stored, Serves
    <3> QED
      BY <3>1, <3>2, MoveKeeps DEF Moves, SoloInv, RetrySucceeds
  <2> QED
    BY <2>1, <2>2
<1>7. ASSUME NEW i \in Installs, ListCredentials(i) PROVE (Solo /\ RetrySucceeds)'
  <2>1. Moves(i)
    BY <1>7 DEF ListCredentials, Handle, Moves, Steps, Writes
  <2>2. ASSUME i \in Running, Undisturbed(i)
        PROVE  IF at'[i] = "done" THEN Serves(i)' ELSE Undisturbed(i)'
    BY <1>7, <2>2 DEF ListCredentials, Handle, Running, local, Undisturbed, Stored, Serves
  <2> QED
    BY <2>1, <2>2, MoveKeeps DEF Moves, SoloInv, RetrySucceeds
<1>8. ASSUME NEW i \in Installs, Revoke(i) PROVE (Solo /\ RetrySucceeds)'
  <2>1. Moves(i)
    BY <1>8 DEF Revoke, Handle, Moves, Steps, Writes
  <2>2. ASSUME i \in Running, Undisturbed(i)
        PROVE  IF at'[i] = "done" THEN Serves(i)' ELSE Undisturbed(i)'
    BY <1>8, <2>2 DEF Revoke, Handle, Running, local, Undisturbed, Stored, Serves
  <2> QED
    BY <2>1, <2>2, MoveKeeps DEF Moves, SoloInv, RetrySucceeds
<1>9. ASSUME NEW i \in Installs, Drop(i) PROVE (Solo /\ RetrySucceeds)'
  <2>1. CASE ~(hub.credential = found[i])
    <3>1. at[i] = "drop" /\ Refuse(i, at[i])
      BY <1>9, <2>1 DEF Drop, Refuse
    <3>2. ~Undisturbed(i)
      BY <2>1, <3>1 DEF Undisturbed, Stored
    <3> QED
      BY <3>1, <3>2, RefuseKeeps DEF Steps, Writes
  <2>2. CASE hub.credential = found[i]
    <3>1. Moves(i)
      BY <1>9, <2>2 DEF Drop, Handle, Refuse, Moves, Steps, Writes
    <3>2. ASSUME i \in Running, Undisturbed(i)
          PROVE  IF at'[i] = "done" THEN Serves(i)' ELSE Undisturbed(i)'
      BY <1>9, <2>2, <3>2 DEF Drop, Handle, Refuse, Running, local, Undisturbed, Stored, Serves
    <3> QED
      BY <3>1, <3>2, MoveKeeps DEF Moves, SoloInv, RetrySucceeds
  <2> QED
    BY <2>1, <2>2
<1>10. ASSUME NEW i \in Installs, Mint(i) PROVE (Solo /\ RetrySucceeds)'
  <2>1. Moves(i)
    BY <1>10 DEF Mint, Handle, Moves, Steps, Writes
  <2>2. ASSUME i \in Running, Undisturbed(i)
        PROVE  IF at'[i] = "done" THEN Serves(i)' ELSE Undisturbed(i)'
    BY <1>10, <2>2 DEF Mint, Handle, Running, local, Undisturbed, Stored, Serves
  <2> QED
    BY <2>1, <2>2, MoveKeeps DEF Moves, SoloInv, RetrySucceeds
<1>11. ASSUME NEW i \in Installs, Store(i) PROVE (Solo /\ RetrySucceeds)'
  <2>1. CASE ~(hub.credential = NoInstall)
    <3>1. at[i] = "store" /\ Refuse(i, at[i])
      BY <1>11, <2>1 DEF Store, Refuse
    <3>2. ~Undisturbed(i)
      BY <2>1, <3>1 DEF Undisturbed, Stored
    <3> QED
      BY <3>1, <3>2, RefuseKeeps DEF Steps, Writes
  <2>2. CASE hub.credential = NoInstall
    <3>1. Moves(i)
      BY <1>11, <2>2 DEF Store, Handle, Refuse, Moves, Steps, Writes
    <3>2. ASSUME i \in Running, Undisturbed(i)
          PROVE  IF at'[i] = "done" THEN Serves(i)' ELSE Undisturbed(i)'
      BY <1>11, <2>2, <3>2 DEF Store, Handle, Refuse, Running, local, Undisturbed, Stored, Serves
    <3> QED
      BY <3>1, <3>2, MoveKeeps DEF Moves, SoloInv, RetrySucceeds
  <2> QED
    BY <2>1, <2>2
<1>12. ASSUME NEW i \in Installs, MintPushToken(i) PROVE (Solo /\ RetrySucceeds)'
  <2>1. Moves(i)
    BY <1>12 DEF MintPushToken, Handle, Moves, Steps, Writes
  <2>2. ASSUME i \in Running, Undisturbed(i)
        PROVE  IF at'[i] = "done" THEN Serves(i)' ELSE Undisturbed(i)'
    BY <1>12, <2>2 DEF MintPushToken, Handle, Running, local, Undisturbed, Stored, Serves
  <2> QED
    BY <2>1, <2>2, MoveKeeps DEF Moves, SoloInv, RetrySucceeds
<1>13. ASSUME NEW i \in Installs, Advertise(i) PROVE (Solo /\ RetrySucceeds)'
  <2>1. Moves(i)
    BY <1>13 DEF Advertise, Handle, Moves, Steps, Writes
  <2>2. ASSUME i \in Running, Undisturbed(i)
        PROVE  IF at'[i] = "done" THEN Serves(i)' ELSE Undisturbed(i)'
    BY <1>13, <2>2 DEF Advertise, Handle, Running, local, Undisturbed, Stored, Serves
  <2> QED
    BY <2>1, <2>2, MoveKeeps DEF Moves, SoloInv, RetrySucceeds
<1>14. ASSUME NEW i \in Installs, Push(i) PROVE (Solo /\ RetrySucceeds)'
  <2>1. CASE ~(TipOf(hub.main) = tip[i])
    <3>1. at[i] = "push" /\ Refuse(i, at[i])
      BY <1>14, <2>1 DEF Push, Refuse
    <3>2. ~Undisturbed(i)
      BY <2>1, <3>1 DEF Undisturbed, Stored
    <3> QED
      BY <3>1, <3>2, RefuseKeeps DEF Steps, Writes
  <2>2. CASE TipOf(hub.main) = tip[i]
    <3>1. Moves(i)
      BY <1>14, <2>2 DEF Push, Handle, Refuse, Moves, Steps, Writes
    <3>2. ASSUME i \in Running, Undisturbed(i)
          PROVE  IF at'[i] = "done" THEN Serves(i)' ELSE Undisturbed(i)'
      BY <1>14, <2>2, <3>2 DEF Push, Handle, Refuse, Running, local, Undisturbed, Stored, Serves
    <3> QED
      BY <3>1, <3>2, MoveKeeps DEF Moves, SoloInv, RetrySucceeds
  <2> QED
    BY <2>1, <2>2
<1>15. ASSUME NEW i \in Installs, DeletePushToken(i) PROVE (Solo /\ RetrySucceeds)'
  <2>1. Moves(i)
    BY <1>15 DEF DeletePushToken, Handle, Moves, Steps, Writes
  <2>2. ASSUME i \in Running, Undisturbed(i)
        PROVE  IF at'[i] = "done" THEN Serves(i)' ELSE Undisturbed(i)'
    BY <1>15, <2>2 DEF DeletePushToken, Handle, Running, local, Undisturbed, Stored, Serves
  <2> QED
    BY <2>1, <2>2, MoveKeeps DEF Moves, SoloInv, RetrySucceeds
<1>16. ASSUME NEW i \in Installs, Deploy(i) PROVE (Solo /\ RetrySucceeds)'
  <2>1. CASE ~(hub.credential # NoInstall)
    <3>1. at[i] = "deploy" /\ Refuse(i, at[i])
      BY <1>16, <2>1 DEF Deploy, Refuse
    <3>2. ~Undisturbed(i)
      BY <2>1, <3>1 DEF Undisturbed, Stored
    <3> QED
      BY <3>1, <3>2, RefuseKeeps DEF Steps, Writes
  <2>2. CASE hub.credential # NoInstall
    <3>1. Moves(i)
      BY <1>16, <2>2 DEF Deploy, Handle, Refuse, Moves, Steps, Writes
    <3>2. ASSUME i \in Running, Undisturbed(i)
          PROVE  IF at'[i] = "done" THEN Serves(i)' ELSE Undisturbed(i)'
      <4> DEFINE d == [by |-> i, commit |-> i, bound |-> i]
      <4>1. at[i] = "deploy" /\ i \notin late
        BY <1>16, <3>2 DEF Deploy, Handle, Refuse, Running
      <4>2. hub.credential = i /\ named[i] = i /\ i \in hub.bearers
        BY <3>2, <4>1 DEF Undisturbed, Stored
      <4>3. hub' = [hub EXCEPT !.deployed = @ \cup {d}]
        BY <1>16, <2>2, <4>2 DEF Deploy, Handle, Refuse
      <4>4. at'[i] = "done" /\ UNCHANGED named
        BY <1>16, <2>2, <4>1 DEF Deploy, Handle, Refuse, local
      <4>5. d \in hub'.deployed /\ hub'.credential = i /\ i \in hub'.bearers
        BY <4>2, <4>3
      <4> QED
        BY <4>2, <4>4, <4>5 DEF Serves
    <3> QED
      BY <3>1, <3>2, MoveKeeps DEF Moves, SoloInv, RetrySucceeds
  <2> QED
    BY <2>1, <2>2
<1>17. ASSUME NEW i \in Installs, Break(i) PROVE (Solo /\ RetrySucceeds)'
  <2>1. i \in Busy /\ UNCHANGED <<at, overlapped, newest, refused>>
    BY <1>17 DEF Break, Busy
  <2>2. Running' \subseteq Running \ {i}
    BY <1>17 DEF Break, Running
  <2> QED
    BY <2>1, <2>2, StopKeeps DEF SoloInv, RetrySucceeds
<1>18. QED
  BY <1>2, <1>3, <1>4, <1>5, <1>6, <1>7, <1>8, <1>9, <1>10, <1>11, <1>12, <1>13, <1>14, <1>15, <1>16, <1>17 DEF Next

\* A retry succeeds: an install that runs alone and whose requests all get an
\* answer is refused by none of them, whatever earlier installs left.
THEOREM RetriesSucceed == Spec => []RetrySucceeds
<1>1. SoloInv => RetrySucceeds
  BY DEF SoloInv
<1> QED
  BY SoloInit, SoloStep, <1>1, PTL DEF Spec

\* The agent of an install that ran alone and returned can call the hub until
\* another install starts.
THEOREM SuccessIsServed == Spec => []SuccessServes
<1>1. SoloInv => SuccessServes
  BY DEF SoloInv, Solo, SuccessServes
<1> QED
  BY SoloInit, SoloStep, <1>1, PTL DEF Spec

-----------------------------------------------------------------------------
(* What is published *)

Pushed == {"untoken", "deploy", "done"}

\* A step that neither pushes nor deploys.
LEMMA QuietKeeps ==
    ASSUME Published, hub'.main = hub.main, hub'.deployed = hub.deployed,
           \A j \in Installs : at'[j] \in Pushed => at[j] \in Pushed
    PROVE  Published'
BY DEF Published, Commits, Pushed

\* A push takes no commit off main.
LEMMA PushAppends ==
    ASSUME TypeOK, NEW i \in Installs, hub' = [hub EXCEPT !.main = Append(@, i)]
    PROVE  Commits' = Commits \cup {i} /\ hub'.deployed = hub.deployed
<1> DEFINE main == hub.main
<1>1. main \in Seq(Installs) /\ hub'.main = Append(main, i) /\ hub'.deployed = hub.deployed
  BY DEF TypeOK, Hubs
<1>2. /\ Len(hub'.main) = Len(main) + 1
      /\ hub'.main[Len(main) + 1] = i
      /\ \A k \in 1..Len(main) : hub'.main[k] = main[k]
  BY <1>1
<1>3. Len(main) \in Nat
  BY <1>1
<1> QED
  BY <1>1, <1>2, <1>3 DEF Commits

LEMMA PublishInit == Init => PublishInv
BY TypeInit DEF Init, PublishInv, Published

LEMMA PublishStep == ASSUME PublishInv, [Next]_vars PROVE PublishInv'
<1>1. TypeOK /\ TypeOK' /\ Published
  BY TypeStep DEF PublishInv
<1> SUFFICES Published'
  BY <1>1 DEF PublishInv
<1> USE <1>1 DEF TypeOK, Hubs, Pushed
<1>2. CASE UNCHANGED vars
  BY <1>2, QuietKeeps DEF vars
<1>3. ASSUME NEW i \in Installs, Start(i) PROVE Published'
  BY <1>3, QuietKeeps DEF Start
<1>4. ASSUME NEW i \in Installs, EnsureAsset(i) PROVE Published'
  BY <1>4, QuietKeeps DEF EnsureAsset, Handle
<1>5. ASSUME NEW i \in Installs, ListProviders(i) PROVE Published'
  BY <1>5, QuietKeeps DEF ListProviders, Handle
<1>6. ASSUME NEW i \in Installs, CreateProvider(i) PROVE Published'
  BY <1>6, QuietKeeps DEF CreateProvider, Handle, Refuse
<1>7. ASSUME NEW i \in Installs, ListCredentials(i) PROVE Published'
  BY <1>7, QuietKeeps DEF ListCredentials, Handle
<1>8. ASSUME NEW i \in Installs, Revoke(i) PROVE Published'
  BY <1>8, QuietKeeps DEF Revoke, Handle
<1>9. ASSUME NEW i \in Installs, Drop(i) PROVE Published'
  BY <1>9, QuietKeeps DEF Drop, Handle, Refuse
<1>10. ASSUME NEW i \in Installs, Mint(i) PROVE Published'
  BY <1>10, QuietKeeps DEF Mint, Handle
<1>11. ASSUME NEW i \in Installs, Store(i) PROVE Published'
  BY <1>11, QuietKeeps DEF Store, Handle, Refuse
<1>12. ASSUME NEW i \in Installs, MintPushToken(i) PROVE Published'
  BY <1>12, QuietKeeps DEF MintPushToken, Handle
<1>13. ASSUME NEW i \in Installs, Advertise(i) PROVE Published'
  BY <1>13, QuietKeeps DEF Advertise, Handle
<1>14. ASSUME NEW i \in Installs, Push(i) PROVE Published'
  <2>1. CASE Refuse(i, "push")
    BY <2>1, QuietKeeps DEF Refuse
  <2>2. CASE ~Refuse(i, "push")
    <3>1. hub' = [hub EXCEPT !.main = Append(@, i)]
      BY <1>14, <2>2 DEF Push, Handle
    <3>2. Commits' = Commits \cup {i} /\ hub'.deployed = hub.deployed
      BY <3>1, PushAppends
    <3>3. \A j \in Installs \ {i} : at'[j] = at[j]
      BY <1>14, <2>2 DEF Push, Handle
    <3> QED
      BY <3>2, <3>3 DEF Published
  <2> QED
    BY <2>1, <2>2
<1>15. ASSUME NEW i \in Installs, DeletePushToken(i) PROVE Published'
  BY <1>15, QuietKeeps DEF DeletePushToken, Handle
<1>16. ASSUME NEW i \in Installs, Deploy(i) PROVE Published'
  <2>1. CASE Refuse(i, "deploy")
    BY <2>1, QuietKeeps DEF Refuse
  <2>2. CASE ~Refuse(i, "deploy")
    <3> DEFINE d == [by |-> i, commit |-> i, bound |-> hub.credential]
    <3>1. at[i] = "deploy" /\ hub' = [hub EXCEPT !.deployed = @ \cup {d}]
      BY <1>16, <2>2 DEF Deploy, Handle
    <3>2. hub'.deployed = hub.deployed \cup {d} /\ Commits' = Commits
      BY <3>1 DEF Commits
    <3>3. i \in Commits
      BY <3>1 DEF Published
    <3>4. \A j \in Installs : at'[j] \in Pushed => at[j] \in Pushed
      BY <1>16, <2>2, <3>1 DEF Deploy, Handle
    <3> QED
      BY <3>2, <3>3, <3>4 DEF Published
  <2> QED
    BY <2>1, <2>2
<1>17. ASSUME NEW i \in Installs, Break(i) PROVE Published'
  BY <1>17, QuietKeeps DEF Break
<1>18. QED
  BY <1>2, <1>3, <1>4, <1>5, <1>6, <1>7, <1>8, <1>9, <1>10, <1>11, <1>12, <1>13, <1>14, <1>15, <1>16, <1>17 DEF Next

\* Whatever is reported as pushed stays on main, and every deployment runs the
\* commit its own install pushed.
THEOREM PublishedStays == Spec => []Published
<1>1. PublishInv => Published
  BY DEF PublishInv
<1> QED
  BY PublishInit, PublishStep, <1>1, PTL DEF Spec

=============================================================================
