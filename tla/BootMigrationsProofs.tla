------------------------- MODULE BootMigrationsProofs -------------------------
(***************************************************************************)
(* Proofs about the boot migrations, for any number of hubs, releases,     *)
(* packages, boots and faults.                                             *)
(***************************************************************************)
EXTENDS BootMigrations, TLAPS

-----------------------------------------------------------------------------
(* The inductive invariant *)

\* Past the platform SQL.
PlatformDone == {"packages", "unlock", "up"}

\* Whoever migrates holds the lock.
LockHeld == \A h \in Hubs : pc[h] \in Migrating => lock = h

\* A hub inside the platform SQL has applied every statement so far itself.
InStep ==
    \A h \in Hubs : pc[h] = "platform" =>
        platform + 1 = next[h] /\ next[h] <= Statements(h) + 1

\* Outside the platform SQL the schema is absent or whole.
WholeOrNone ==
    \/ platform = 0
    \/ platform \in Releases
    \/ \E h \in Hubs : pc[h] = "platform"

\* Once a hub has passed the platform SQL the schema is whole, and nobody is in it.
DoneIsWhole ==
    \A h \in Hubs : pc[h] \in PlatformDone =>
        platform \in Releases /\ \A g \in Hubs : pc[g] # "platform"

\* A hub applies the packages one after the other and leaves none out.
PackagesInOrder ==
    \A h \in Hubs :
        /\ pc[h] = "packages" => \A k \in 1..Packages : k < next[h] => k \in packages
        /\ pc[h] \in {"unlock", "up"} => packages = 1..Packages

Untorn ==
    LockHeld /\ InStep /\ WholeOrNone /\ DoneIsWhole /\ \A h \in Hubs : pc[h] # "refused"

BootInv == TypeOK /\ PackagesInOrder /\ (torn \/ Untorn)

-----------------------------------------------------------------------------
(* Type correctness *)

\* A database without any table and no hub running is well-typed.
LEMMA InitType == Init => TypeOK
  <1> SUFFICES ASSUME Init PROVE TypeOK
    OBVIOUS
  <1>1. Latest \in Releases
    BY BootAssumption DEF BootAssumption, Latest
  <1>2. \E r \in Releases : 0 \in 0..r
    BY <1>1, BootAssumption DEF BootAssumption
  <1>3. boots \in 0..MaxBoots /\ faults \in 0..MaxFaults
    BY BootAssumption DEF BootAssumption, Init
  <1>4. next \in [Hubs -> Nat \ {0}] /\ pc \in [Hubs -> PCs] /\ release \in [Hubs -> Releases]
    BY <1>1 DEF Init, PCs
  <1> QED BY <1>2, <1>3, <1>4 DEF Init, TypeOK

\* The values a hub compares are numbers (runMigrations).
LEMMA Numbers ==
    ASSUME TypeOK, NEW h \in Hubs
    PROVE  platform \in Nat /\ next[h] \in Nat \ {0} /\ release[h] \in Releases
           /\ release[h] \in Nat
  <1>1. PICK r \in Releases : platform \in 0..r
    BY DEF TypeOK
  <1>2. \A s \in Releases : s \in Nat
    BY BootAssumption DEF BootAssumption
  <1>3. platform \in Nat
    BY <1>1
  <1>4. next[h] \in Nat \ {0} /\ release[h] \in Releases
    BY DEF TypeOK
  <1> QED BY <1>2, <1>3, <1>4

\* Every step of every hub keeps the types (migrateHub).
LEMMA NextType == TypeOK /\ [Next]_vars => TypeOK'
  <1> SUFFICES ASSUME TypeOK, [Next]_vars PROVE TypeOK'
    OBVIOUS
  <1> USE BootAssumption DEF BootAssumption, TypeOK, PCs, Goto
  <1>1. ASSUME NEW h \in Hubs, Boot(h) PROVE TypeOK'
    BY <1>1 DEF Boot
  <1>2. ASSUME NEW h \in Hubs, AcquireLock(h) PROVE TypeOK'
    BY <1>2 DEF AcquireLock
  <1>3. ASSUME NEW h \in Hubs, CheckPlatform(h) PROVE TypeOK'
    BY <1>3 DEF CheckPlatform, AfterCheck
  <1>4. ASSUME NEW h \in Hubs, ApplyStatement(h) PROVE TypeOK'
    <2>1. release[h] \in Releases /\ next[h] \in Nat \ {0} /\ release[h] \in Nat
      OBVIOUS
    <2>5. next' \in [Hubs -> Nat \ {0}]
      BY <1>4 DEF ApplyStatement
    <2>6. pc' \in [Hubs -> PCs] /\ lock' \in Hubs \cup {Nobody}
      BY <1>4 DEF ApplyStatement, Released
    <2>2. CASE next[h] = platform + 1
      <3>1. platform' = next[h] /\ next[h] <= release[h]
        BY <1>4, <2>2 DEF ApplyStatement, Statements
      <3>2. \E r \in Releases : platform' \in 0..r
        BY <2>1, <3>1
      <3> QED BY <1>4, <2>5, <2>6, <3>2 DEF ApplyStatement
    <2>3. CASE next[h] # platform + 1
      BY <1>4, <2>3, <2>5, <2>6 DEF ApplyStatement
    <2> QED BY <2>2, <2>3
  <1>5. ASSUME NEW h \in Hubs, EndPlatform(h) PROVE TypeOK'
    BY <1>5 DEF EndPlatform
  <1>6. ASSUME NEW h \in Hubs, ApplyPackage(h) PROVE TypeOK'
    <2>1. next[h] \in Nat \ {0}
      OBVIOUS
    <2>2. CASE next[h] <= Packages
      <3>1. packages' = packages \cup {next[h]} /\ next' = [next EXCEPT ![h] = @ + 1] /\ pc' = pc
            /\ UNCHANGED <<lock, platform, release, torn, boots, faults>>
        BY <1>6, <2>2 DEF ApplyPackage
      <3>2. next[h] \in 1..Packages
        BY <2>1, <2>2
      <3>3. packages' \subseteq 1..Packages
        BY <3>1, <3>2
      <3>4. next' \in [Hubs -> Nat \ {0}]
        BY <2>1, <3>1
      <3> QED BY <3>1, <3>3, <3>4
    <2>3. CASE ~(next[h] <= Packages)
      BY <1>6, <2>3 DEF ApplyPackage
    <2> QED BY <2>2, <2>3
  <1>7. ASSUME NEW h \in Hubs, Unlock(h) PROVE TypeOK'
    BY <1>7 DEF Unlock, Released
  <1>8. ASSUME NEW h \in Hubs, Fails(h) PROVE TypeOK'
    <2>1. release[h] \in Releases /\ next[h] \in Nat \ {0} /\ release[h] \in Nat
      OBVIOUS
    <2>2. platform' = platform \/ (platform' = next[h] /\ next[h] <= release[h])
      BY <1>8 DEF Fails, Statements
    <2>3. \E r \in Releases : platform' \in 0..r
      BY <2>1, <2>2
    <2>4. torn' \in BOOLEAN
      BY <1>8 DEF Fails
    <2>5. faults' \in 0..MaxFaults
      BY <1>8 DEF Fails, Fault
    <2>6. pc' \in [Hubs -> PCs] /\ lock' \in Hubs \cup {Nobody}
      BY <1>8 DEF Fails, Released
    <2> QED BY <1>8, <2>3, <2>4, <2>5, <2>6 DEF Fails
  <1>9. ASSUME NEW h \in Hubs, LosesLock(h) PROVE TypeOK'
    BY <1>9 DEF LosesLock, Fault
  <1>10. CASE UNCHANGED vars
    BY <1>10 DEF vars
  <1> QED BY <1>1, <1>2, <1>3, <1>4, <1>5, <1>6, <1>7, <1>8, <1>9, <1>10 DEF Next, Step

\* The database and the hubs keep their types; platform never exceeds what some
\* release has.
THEOREM TypeCorrect == Spec => []TypeOK
  BY InitType, NextType, PTL DEF Spec

-----------------------------------------------------------------------------
(* Safety *)

\* The packages' migrations are applied in order, whatever else happens
\* (applyMigrations).
LEMMA NextPackages == TypeOK /\ PackagesInOrder /\ [Next]_vars => PackagesInOrder'
  <1> SUFFICES ASSUME TypeOK, PackagesInOrder, [Next]_vars PROVE PackagesInOrder'
    OBVIOUS
  <1> USE BootAssumption DEF BootAssumption, TypeOK, PCs, Goto, PackagesInOrder
  <1>1. ASSUME NEW h \in Hubs, Boot(h) PROVE PackagesInOrder'
    BY <1>1 DEF Boot
  <1>2. ASSUME NEW h \in Hubs, AcquireLock(h) PROVE PackagesInOrder'
    BY <1>2 DEF AcquireLock
  <1>3. ASSUME NEW h \in Hubs, CheckPlatform(h) PROVE PackagesInOrder'
    BY <1>3 DEF CheckPlatform, AfterCheck
  <1>4. ASSUME NEW h \in Hubs, ApplyStatement(h) PROVE PackagesInOrder'
    BY <1>4 DEF ApplyStatement
  <1>5. ASSUME NEW h \in Hubs, EndPlatform(h) PROVE PackagesInOrder'
    BY <1>5 DEF EndPlatform
  <1>6. ASSUME NEW h \in Hubs, ApplyPackage(h) PROVE PackagesInOrder'
    <2>1. next[h] \in Nat \ {0} /\ pc[h] = "packages"
      BY <1>6 DEF ApplyPackage
    <2>2. CASE next[h] <= Packages
      <3>1. packages' = packages \cup {next[h]} /\ next' = [next EXCEPT ![h] = @ + 1] /\ pc' = pc
        BY <1>6, <2>2 DEF ApplyPackage
      <3>2. packages' \subseteq 1..Packages
        <4>1. next[h] \in 1..Packages
          BY <2>1, <2>2
        <4> QED BY <3>1, <4>1
      <3>3. ASSUME NEW g \in Hubs, pc'[g] = "packages", NEW k \in 1..Packages, k < next'[g]
            PROVE  k \in packages'
        <4>1. CASE g = h
          <5>1. next'[h] = next[h] + 1
            BY <3>1
          <5>2. k < next[h] \/ k = next[h]
            BY <2>1, <3>3, <4>1, <5>1
          <5> QED BY <2>1, <3>1, <5>2
        <4>2. CASE g # h
          BY <3>1, <3>3, <4>2
        <4> QED BY <4>1, <4>2
      <3>4. ASSUME NEW g \in Hubs, pc'[g] \in {"unlock", "up"} PROVE packages' = 1..Packages
        <4>1. packages = 1..Packages
          BY <3>1, <3>4
        <4> QED BY <3>1, <3>2, <4>1
      <3> QED BY <3>1, <3>3, <3>4
    <2>3. CASE ~(next[h] <= Packages)
      <3>1. packages' = packages /\ next' = next /\ pc' = [pc EXCEPT ![h] = "unlock"]
        BY <1>6, <2>3 DEF ApplyPackage
      <3>2. \A k \in 1..Packages : k \in packages
        <4>1. \A k \in 1..Packages : k < next[h]
          BY <2>1, <2>3
        <4> QED BY <2>1, <4>1
      <3>3. packages = 1..Packages
        BY <3>2
      <3> QED BY <2>1, <3>1, <3>3
    <2> QED BY <2>2, <2>3
  <1>7. ASSUME NEW h \in Hubs, Unlock(h) PROVE PackagesInOrder'
    BY <1>7 DEF Unlock
  <1>8. ASSUME NEW h \in Hubs, Fails(h) PROVE PackagesInOrder'
    BY <1>8 DEF Fails
  <1>9. ASSUME NEW h \in Hubs, LosesLock(h) PROVE PackagesInOrder'
    BY <1>9 DEF LosesLock
  <1>10. CASE UNCHANGED vars
    BY <1>10 DEF vars
  <1> QED BY <1>1, <1>2, <1>3, <1>4, <1>5, <1>6, <1>7, <1>8, <1>9, <1>10 DEF Next, Step

\* While the platform SQL has not been cut short nor the lock lost, the lock
\* keeps every other hub out of it, and it is applied as a whole or not at all.
LEMMA NextUntorn == TypeOK /\ (torn \/ Untorn) /\ [Next]_vars => (torn \/ Untorn)'
  <1> SUFFICES ASSUME TypeOK, torn \/ Untorn, [Next]_vars, ~torn' PROVE Untorn'
    BY DEF TypeOK
  <1>0. ~torn /\ Untorn
    <2>1. ~torn
      BY DEF TypeOK, Next, vars, Step, Boot, AcquireLock, CheckPlatform, ApplyStatement, EndPlatform,
             ApplyPackage, Unlock, Fails, LosesLock
    <2> QED BY <2>1
  <1> USE BootAssumption, <1>0
      DEF BootAssumption, TypeOK, PCs, Goto, Untorn, LockHeld, InStep, WholeOrNone, DoneIsWhole,
          Migrating, PlatformDone, Statements
  <1>1. ASSUME NEW h \in Hubs, Boot(h) PROVE Untorn'
    BY <1>1 DEF Boot
  <1>2. ASSUME NEW h \in Hubs, AcquireLock(h) PROVE Untorn'
    BY <1>2 DEF AcquireLock
  <1>3. ASSUME NEW h \in Hubs, CheckPlatform(h) PROVE Untorn'
    <2>1. lock = h /\ (\A g \in Hubs \ {h} : pc[g] \notin Migrating)
      BY <1>3 DEF CheckPlatform
    <2>2. \A g \in Hubs : pc[g] # "platform"
      BY <1>3, <2>1 DEF CheckPlatform
    <2>3. CASE PlatformPresent
      <3>1. platform \in Releases
        BY <2>2, <2>3 DEF PlatformPresent
      <3> QED BY <1>3, <2>1, <2>2, <2>3, <3>1 DEF CheckPlatform, AfterCheck
    <2>4. CASE ~PlatformPresent
      <3>1. platform = 0
        BY <2>2, <2>4 DEF PlatformPresent
      <3>2. \A g \in Hubs : pc[g] \notin PlatformDone
        BY <3>1
      <3>3. pc' = [pc EXCEPT ![h] = "platform"] /\ next' = [next EXCEPT ![h] = 1]
            /\ platform' = platform /\ lock' = lock /\ release' = release
        BY <1>3, <2>4 DEF CheckPlatform, AfterCheck
      <3>4. release[h] \in Nat /\ next'[h] = 1 /\ pc'[h] = "platform"
        BY <3>3, Numbers
      <3>5. \A g \in Hubs \ {h} : pc'[g] = pc[g] /\ pc'[g] # "platform" /\ pc'[g] \notin PlatformDone
        BY <2>2, <3>2, <3>3
      <3>6. InStep'
        BY <3>1, <3>3, <3>4, <3>5
      <3>7. LockHeld' /\ WholeOrNone' /\ DoneIsWhole'
        BY <2>1, <3>3, <3>4, <3>5
      <3> QED BY <3>3, <3>6, <3>7
    <2> QED BY <2>3, <2>4
  <1>4. ASSUME NEW h \in Hubs, ApplyStatement(h) PROVE Untorn'
    <2>1. pc[h] = "platform" /\ next[h] = platform + 1 /\ next[h] <= release[h]
      BY <1>4 DEF ApplyStatement
    <2>2. platform' = next[h] /\ next' = [next EXCEPT ![h] = @ + 1] /\ lock' = lock /\ pc' = pc
          /\ release' = release
      BY <1>4, <2>1 DEF ApplyStatement
    <2>3. \A g \in Hubs \ {h} : pc[g] # "platform"
      BY <2>1
    <2>4. next[h] \in Nat /\ release[h] \in Nat
      OBVIOUS
    <2> QED BY <2>1, <2>2, <2>3, <2>4
  <1>5. ASSUME NEW h \in Hubs, EndPlatform(h) PROVE Untorn'
    <2>1. pc[h] = "platform" /\ next[h] > release[h]
      BY <1>5 DEF EndPlatform
    <2>2. platform = release[h]
      <3>1. next[h] \in Nat /\ release[h] \in Nat /\ platform \in Nat
        BY Numbers
      <3>2. platform + 1 = next[h] /\ next[h] <= release[h] + 1
        BY <2>1
      <3> QED BY <2>1, <3>1, <3>2
    <2>3. \A g \in Hubs \ {h} : pc[g] # "platform"
      BY <2>1
    <2> QED BY <1>5, <2>1, <2>2, <2>3 DEF EndPlatform
  <1>6. ASSUME NEW h \in Hubs, ApplyPackage(h) PROVE Untorn'
    BY <1>6 DEF ApplyPackage
  <1>7. ASSUME NEW h \in Hubs, Unlock(h) PROVE Untorn'
    BY <1>7 DEF Unlock, Released
  <1>8. ASSUME NEW h \in Hubs, Fails(h) PROVE Untorn'
    <2>1. pc' = [pc EXCEPT ![h] = "off"] /\ lock' = Released(h) /\ next' = next /\ release' = release
      BY <1>8 DEF Fails
    <2>2. \A g \in Hubs \ {h} : pc[g] \in Migrating => lock' = g
      BY <2>1 DEF Released
    <2>3. CASE pc[h] # "platform"
      BY <1>8, <2>1, <2>2, <2>3 DEF Fails
    <2>4. CASE pc[h] = "platform"
      <3>1. \A g \in Hubs : pc'[g] # "platform"
        BY <2>1, <2>4
      <3>2. \A g \in Hubs : pc'[g] \notin PlatformDone
        BY <2>1, <2>4
      <3>3. platform' = 0 \/ platform' = release[h]
        <4>1. CASE next[h] <= release[h]
          <5>1. platform' \in Nat /\ ~(platform' > 0)
            BY <1>8, <2>4, <4>1, Numbers DEF Fails
          <5> QED BY <5>1
        <4>2. CASE ~(next[h] <= release[h])
          <5>1. platform' = platform
            BY <1>8, <4>2 DEF Fails
          <5>2. next[h] \in Nat /\ release[h] \in Nat /\ platform \in Nat
            BY Numbers
          <5>3. platform + 1 = next[h] /\ next[h] <= release[h] + 1
            BY <2>4
          <5> QED BY <4>2, <5>1, <5>2, <5>3
        <4> QED BY <4>1, <4>2
      <3> QED BY <2>1, <2>2, <3>1, <3>2, <3>3
    <2> QED BY <2>3, <2>4
  <1>9. ASSUME NEW h \in Hubs, LosesLock(h) PROVE Untorn'
    BY <1>9 DEF LosesLock
  <1>10. CASE UNCHANGED vars
    BY <1>10 DEF vars
  <1> QED BY <1>1, <1>2, <1>3, <1>4, <1>5, <1>6, <1>7, <1>8, <1>9, <1>10 DEF Next, Step

\* The inductive invariant holds (migrateHub).
LEMMA BootInvariant == Spec => []BootInv
  <1>1. Init => BootInv
    <2> SUFFICES ASSUME Init PROVE BootInv
      OBVIOUS
    <2>1. TypeOK
      BY InitType
    <2> QED BY <2>1 DEF Init, BootInv, PackagesInOrder, Untorn, LockHeld, InStep, WholeOrNone,
                        DoneIsWhole, Migrating, PlatformDone
  <1>2. BootInv /\ [Next]_vars => BootInv'
    BY NextType, NextPackages, NextUntorn DEF BootInv
  <1> QED BY <1>1, <1>2, PTL DEF Spec

\* No boot is refused because a table already exists, unless the platform SQL
\* was cut short or the lock lost: for any number of hubs and of failures
\* anywhere else (migrateHub).
THEOREM BootsRepeat == Spec => []BootsAreRepeatable
  <1>1. BootInv => BootsAreRepeatable
    BY DEF BootInv, Untorn, BootsAreRepeatable
  <1> QED BY <1>1, BootInvariant, PTL

\* A hub that serves finds every package's tables and, with the same exception,
\* the whole platform schema of some release (migrateHub, applyMigrations).
THEOREM ServedWhole == Spec => []ServesWhole
  <1>1. BootInv => ServesWhole
    BY DEF BootInv, PackagesInOrder, Untorn, DoneIsWhole, PlatformDone, ServesWhole
  <1> QED BY <1>1, BootInvariant, PTL

=============================================================================
