---------------------------- MODULE BootMigrations ----------------------------
(***************************************************************************)
(* migrateHub (apps/hub/src/migrate.ts): hubs, and scripts/db-setup.ts,    *)
(* that boot against one database bring its schema up under a Postgres     *)
(* advisory lock before they serve.                                        *)
(*                                                                         *)
(* The platform SQL (vendored runMigrations) is a list of statements that  *)
(* are executed one by one, in no transaction, and cannot be repeated; a   *)
(* later release appends to the list.  Each @corbits package has one       *)
(* migration that can be repeated.  What a statement does is abstracted to *)
(* "applied"; statement number UserTable creates the table by which        *)
(* migrateHub recognises a database that has the platform schema.          *)
(*                                                                         *)
(* The lock belongs to a connection of its own: Postgres releases it when  *)
(* that connection ends, whether the hub unlocks, fails, dies, or loses    *)
(* only this connection and goes on migrating over the others.             *)
(***************************************************************************)
EXTENDS Naturals

CONSTANTS
    Hubs,         \* processes that call migrateHub
    Releases,     \* the number of platform statements of each release
    UserTable,    \* the statement that creates the "user" table
    Packages,     \* how many @corbits packages have a migration
    Nobody,       \* the lock is free
    MaxBoots, MaxFaults  \* bounds on boots, and on failures, deaths and lost connections

ASSUME BootAssumption ==
    /\ Releases \subseteq Nat
    /\ UserTable \in Nat \ {0}
    /\ \A r \in Releases : UserTable <= r
    /\ \E r \in Releases : \A s \in Releases : s <= r
    /\ Packages \in Nat
    /\ Nobody \notin Hubs
    /\ MaxBoots \in Nat /\ MaxFaults \in Nat

VARIABLES
    \* the database
    lock,       \* the hub whose connection holds the advisory lock
    platform,   \* how many platform statements have been applied
    packages,   \* the packages whose migration has been applied
    \* the hubs
    pc,         \* where each one's boot is
    release,    \* the release it runs
    next,       \* the statement or package it applies next
    \* history
    torn,       \* the platform SQL was cut short, or the lock lost
    boots, faults

vars == <<lock, platform, packages, pc, release, next, torn, boots, faults>>

Latest == CHOOSE r \in Releases : \A s \in Releases : s <= r

PCs == {"off", "locking", "check", "platform", "packages", "unlock", "up", "refused"}

\* The stretch of migrateHub that runs under the lock.
Migrating == {"check", "platform", "packages", "unlock"}

-----------------------------------------------------------------------------
(* migrateHub *)

Goto(h, l) == pc' = [pc EXCEPT ![h] = l]

\* Mutant of Released: the lock outlives the connection of its holder.
StillLocked(h) == lock

\* pg_advisory_unlock, or the end of the connection.
Released(h) == IF lock = h THEN Nobody ELSE lock

\* A hub, of whichever release, is started or restarted.
Boot(h) ==
    /\ pc[h] \in {"off", "refused", "up"}
    /\ boots < MaxBoots
    /\ boots' = boots + 1
    /\ release' \in {[release EXCEPT ![h] = r] : r \in Releases}
    /\ Goto(h, "locking")
    /\ UNCHANGED <<lock, platform, packages, next, torn, faults>>

\* Mutant of AcquireLock: boots are not serialised.
SkipLock(h) ==
    /\ pc[h] = "locking"
    /\ Goto(h, "check")
    /\ UNCHANGED <<lock, platform, packages, release, next, torn, boots, faults>>

\* pg_advisory_lock.
AcquireLock(h) ==
    /\ pc[h] = "locking"
    /\ lock = Nobody
    /\ lock' = h
    /\ Goto(h, "check")
    /\ UNCHANGED <<platform, packages, release, next, torn, boots, faults>>

\* platformSchemaPresent.
PlatformPresent == platform >= UserTable

\* Mutant of AfterCheck: a database with the platform schema needs nothing.
NothingToDo == IF PlatformPresent THEN "unlock" ELSE "platform"

\* applyMigrations: the platform SQL only where there is none.
AfterCheck == IF PlatformPresent THEN "packages" ELSE "platform"

CheckPlatform(h) ==
    /\ pc[h] = "check"
    /\ next' = [next EXCEPT ![h] = 1]
    /\ Goto(h, AfterCheck)
    /\ UNCHANGED <<lock, platform, packages, release, torn, boots, faults>>

\* Mutant of Statements: one more than the release has.
OneMore(h) == release[h] + 1

\* The platform SQL of the release the hub runs.
Statements(h) == release[h]

\* One statement of runMigrations; one that was applied before is an error.
ApplyStatement(h) ==
    /\ pc[h] = "platform"
    /\ next[h] <= Statements(h)
    /\ IF next[h] = platform + 1
       THEN /\ platform' = next[h]
            /\ next' = [next EXCEPT ![h] = @ + 1]
            /\ UNCHANGED <<lock, pc>>
       ELSE /\ Goto(h, "refused")
            /\ lock' = Released(h)
            /\ UNCHANGED <<platform, next>>
    /\ UNCHANGED <<packages, release, torn, boots, faults>>

EndPlatform(h) ==
    /\ pc[h] = "platform"
    /\ next[h] > Statements(h)
    /\ next' = [next EXCEPT ![h] = 1]
    /\ Goto(h, "packages")
    /\ UNCHANGED <<lock, platform, packages, release, torn, boots, faults>>

\* The migration of one package, in the hub's order.
ApplyPackage(h) ==
    /\ pc[h] = "packages"
    /\ IF next[h] <= Packages
       THEN /\ packages' = packages \cup {next[h]}
            /\ next' = [next EXCEPT ![h] = @ + 1]
            /\ UNCHANGED pc
       ELSE Goto(h, "unlock") /\ UNCHANGED <<packages, next>>
    /\ UNCHANGED <<lock, platform, release, torn, boots, faults>>

\* pg_advisory_unlock and lockClient.end(); the hub goes on to serve.
Unlock(h) ==
    /\ pc[h] = "unlock"
    /\ lock' = Released(h)
    /\ Goto(h, "up")
    /\ UNCHANGED <<platform, packages, release, next, torn, boots, faults>>

-----------------------------------------------------------------------------
(* What can go wrong *)

Fault == faults < MaxFaults /\ faults' = faults + 1

\* A query fails, or the hub dies, at any point of its boot or while it serves.
\* A statement whose answer is lost may have been applied.
Fails(h) ==
    /\ pc[h] \notin {"off", "refused"}
    /\ Fault
    /\ lock' = Released(h)
    /\ Goto(h, "off")
    /\ IF pc[h] = "platform" /\ next[h] <= Statements(h)
       THEN /\ platform' \in {platform} \cup {n \in {next[h]} : n = platform + 1}
            /\ torn' = (torn \/ platform' > 0)
       ELSE UNCHANGED <<platform, torn>>
    /\ UNCHANGED <<packages, release, next, boots>>

\* The connection that holds the lock ends; the hub notices nothing.
LosesLock(h) ==
    /\ lock = h
    /\ pc[h] \in Migrating
    /\ Fault
    /\ lock' = Nobody
    /\ torn' = TRUE
    /\ UNCHANGED <<platform, packages, pc, release, next, boots>>

-----------------------------------------------------------------------------

Init ==
    /\ lock = Nobody /\ platform = 0 /\ packages = {}
    /\ pc = [h \in Hubs |-> "off"]
    /\ release = [h \in Hubs |-> Latest]
    /\ next = [h \in Hubs |-> 1]
    /\ torn = FALSE /\ boots = 0 /\ faults = 0

\* What a boot does once it holds the lock.
Step(h) ==
    \/ CheckPlatform(h)
    \/ ApplyStatement(h)
    \/ EndPlatform(h)
    \/ ApplyPackage(h)
    \/ Unlock(h)

Next == \E h \in Hubs :
    \/ Boot(h)
    \/ AcquireLock(h)
    \/ Step(h)
    \/ Fails(h)
    \/ LosesLock(h)

\* A boot goes on by itself, and Postgres hands the lock to its waiters in turn.
Fairness == \A h \in Hubs : WF_vars(Step(h)) /\ SF_vars(AcquireLock(h))

Spec     == Init /\ [][Next]_vars
FairSpec == Spec /\ Fairness

-----------------------------------------------------------------------------
(* Properties *)

TypeOK ==
    /\ lock \in Hubs \cup {Nobody}
    /\ \E r \in Releases : platform \in 0..r
    /\ packages \subseteq 1..Packages
    /\ pc \in [Hubs -> PCs]
    /\ release \in [Hubs -> Releases]
    /\ next \in [Hubs -> Nat \ {0}]
    /\ torn \in BOOLEAN
    /\ boots \in 0..MaxBoots /\ faults \in 0..MaxFaults

\* However boots overlap, fail and are repeated, none is refused because a
\* table already exists, unless the platform SQL itself was cut short or the
\* lock was lost: a boot that fails anywhere else can be repeated
\* (migrateHub's lock, applyMigrations' check).
BootsAreRepeatable == torn \/ \A h \in Hubs : pc[h] # "refused"

\* A hub that serves finds every package's tables, even if an earlier boot
\* failed half-way; and with the same exception the platform schema is that of
\* some release as a whole, never a part of it (migrateHub, applyMigrations).
ServesWhole ==
    \A h \in Hubs : pc[h] = "up" =>
        /\ packages = 1..Packages
        /\ torn \/ platform \in Releases

\* Every boot comes to an end: no hub waits for ever for a lock whose holder
\* has failed or died (migrateHub).
BootsEnd ==
    \A h \in Hubs : pc[h] = "locking" ~> pc[h] \in {"up", "refused", "off"}

=============================================================================
