-------------------------- MODULE McpServersProofs --------------------------
(***************************************************************************)
(* Proofs about McpServers, for any number of operations, tabs, servers,   *)
(* benches and faults.                                                     *)
(***************************************************************************)
EXTENDS McpServers, TLAPS

(* The parts of the invariant *)

Adds(o) == ops[o].kind \in {"add", "signIn"}
Added(o) == Adds(o) /\ ops[o].target # None
Removes(o) == ops[o].kind = "remove"

\* Where an operation adds a server: the person's, or the built-in one.
AddSteps == {"provider", "make", "store", "login", "waiting", "read", "discover", "record", "undo"}
\* Where it has a provider, and where it has a credential.
WithProvider == {"store", "login", "waiting", "read", "discover", "record", "undo"}
WithCred == {"read", "discover", "record", "undo"}
\* Where its credential is as its login has stored it.
LoginSteps == {"waiting", "read"}

\* An operation is only ever where its kind leads, with the locals it needs there.
Placed(r) ==
    /\ r.at = "idle" <=> r = Blank
    /\ r.kind = "none" => r.at = "idle"
    /\ r.at \in WithProvider => r.provider \in Nat
    /\ r.at \in WithCred => r.cred \in Nat
    /\ r.cred # None => r.at \in {"waiting", "failed", "install"} \cup WithCred
    /\ r.at \in AddSteps \cup {"install", "queued"} /\ r.bench = None
         => r.kind \in {"add", "signIn"} /\ r.target = None
    /\ r.at \in {"queued", "install"} => r.bench # None
    /\ r.at \in {"login"} \cup LoginSteps => r.kind = "signIn" /\ r.bench = None
    /\ r.at \in {"drop", "dropProvider"} => r.kind = "remove" /\ r.bench = None
    /\ r.at \in {"benches", "next"} => r.kind \in {"add", "signIn", "remove"} /\ r.bench = None
    /\ r.kind = "remove" => r.target # None
    /\ r.kind \in {"add", "signIn"} /\ (r.at \in {"benches", "next"} \/ r.bench # None)
         => r.target # None
    /\ r.at \notin {"idle"} => r.tab # None

Places == \A o \in Ops : Placed(ops[o])

TypeInv == TypeOK /\ Places

\* Ids are given out once, and a credential is on its server's provider.
Rows ==
    /\ \A h \in Handles : providers[h] # None => providers[h] <= lastId
    /\ \A h \in Handles : creds[h] # None =>
          creds[h].id <= lastId /\ creds[h].provider = providers[h]
    /\ \A h, k \in Handles :
          creds[h] # None /\ creds[k] # None /\ creds[h].id = creds[k].id => h = k

\* A credential belongs to the one operation that has stored it.
Owned ==
    \A o \in Ops :
        /\ ops[o].cred # None => ops[o].cred <= lastId
        /\ Added(o) => ops[o].target[1] <= lastId
        /\ \A p \in Ops : ops[p].cred # None =>
              /\ p # o => ops[o].cred # ops[p].cred
              /\ Added(o) => ops[o].target[1] # ops[p].cred

\* It is the credential of the server the operation adds, on its provider.
InPlace ==
    \A o \in Ops, h \in Handles :
        creds[h] # None /\ ops[o].cred # None /\ creds[h].id = ops[o].cred =>
            /\ h = Adding(o)
            /\ ops[o].at \in WithProvider => creds[h].provider = ops[o].provider

\* A login the hub has open is of a sign-in that waits for it or has ended.
LoginsWait ==
    \A l \in logins :
        /\ ops[l.op].kind = "signIn"
        /\ ops[l.op].at \in {"waiting", "failed", "gone"}
        /\ ops[l.op].at = "waiting" => ops[l.op].cred = None /\ ops[l.op].provider = l.provider

\* Until its catalogue is recorded a sign-in's credential is the login's own row.
LoginRows ==
    \A o \in Ops, h \in Handles :
        /\ creds[h] # None /\ ops[o].cred # None /\ creds[h].id = ops[o].cred
        /\ ops[o].at \in LoginSteps
        => creds[h].tools = "bare"

RowInv == TypeInv /\ Rows /\ Owned /\ InPlace /\ LoginsWait /\ LoginRows

\* An added server stays on its provider, or a removal names it.
Kept ==
    \A o \in Ops : Added(o) =>
        \/ /\ creds[ops[o].handle] # None
           /\ creds[ops[o].handle].id = ops[o].target[1]
           /\ creds[ops[o].handle].provider = ops[o].target[2]
           /\ creds[ops[o].handle].tools = "listed"
        \/ \E p \in Ops : /\ Removes(p)
                          /\ \/ ops[p].target[1] = ops[o].target[1]
                             \/ ops[p].target[2] = ops[o].target[2]

CatalogueInv == RowInv /\ Kept /\ FailedAddGone

\* The queue of a tab holds its ensures, each once; all but the first wait.
InQueue(o) == \E i \in DOMAIN queue[ops[o].tab] : queue[ops[o].tab][i] = o
Queued ==
    /\ \A t \in Tabs : \A i \in DOMAIN queue[t] :
          LET o == queue[t][i] IN
          /\ ops[o].tab = t
          /\ ops[o].bench # None
          /\ ops[o].at = "queued" \/ (i = 1 /\ ops[o].at \in AddSteps)
          /\ \A j \in DOMAIN queue[t] : queue[t][j] = o => j = i
    /\ \A o \in Ops :
          /\ ops[o].at = "queued" => InQueue(o)
          /\ ops[o].at \in AddSteps /\ ops[o].bench # None =>
                queue[ops[o].tab] # <<>> /\ Head(queue[ops[o].tab]) = o

-----------------------------------------------------------------------------
(* Types *)

LEMMA BlankTyped == Blank \in Op /\ Placed(Blank)
  BY McpAssumption DEF McpAssumption, Blank, Op, Kinds, Ended, Steps, Placed, WithProvider,
     WithCred, AddSteps, LoginSteps

\* What an error leaves of an operation.
LEMMA ThrownFields ==
    ASSUME TypeInv, NEW o \in Ops, NEW why, NEW silent
    PROVE  LET r == Thrown(o, why, silent) IN
           /\ \A f \in {"kind", "tab", "handle", "target", "todo"} : r[f] = ops[o][f]
           /\ IF ops[o].bench # None /\ ops[o].kind # "deploy"
              THEN /\ r.at = "next" /\ r.bench = None /\ r.cred = None
                   /\ r.failed = ops[o].failed \cup {ops[o].bench}
              ELSE /\ r.at = "failed" /\ r.bench = ops[o].bench /\ r.cred = ops[o].cred
                   /\ r.failed = ops[o].failed /\ r.why = why
           /\ r.heard = IF silent THEN "some" ELSE ops[o].heard
           /\ r.view = {} /\ r.why \in {ops[o].why, why}
  BY DEF Thrown, Cleared, TypeInv, TypeOK, Op

Whys == {"none", "conflict", "unreachable", "fault"}

LEMMA ThrownTyped ==
    ASSUME TypeInv, NEW o \in Ops, Running(o), NEW why \in Whys, NEW silent
    PROVE  Thrown(o, why, silent) \in Op /\ Placed(Thrown(o, why, silent))
  <1>1. ops[o] \in Op /\ Placed(ops[o])
    BY DEF TypeInv, TypeOK, Places
  <1>2. Thrown(o, why, silent) \in Op
    <2> DEFINE r == [ops[o] EXCEPT !.heard = IF silent THEN "some" ELSE @]
    <2>1. r \in Op
      BY <1>1 DEF Op
    <2> HIDE DEF r
    <2>2. CASE r.bench # None /\ r.kind # "deploy"
      <3> DEFINE c == Cleared(r)
      <3>1. c \in Op /\ r.bench \in Benches
        BY <2>1, <2>2 DEF Cleared, Op
      <3> HIDE DEF c
      <3>2. [c EXCEPT !.at = "next", !.failed = @ \cup {r.bench}, !.bench = None] \in Op
        BY <3>1 DEF Op, Steps
      <3> QED BY <2>2, <3>2 DEF Thrown, r, c
    <2>3. CASE ~(r.bench # None /\ r.kind # "deploy")
      <3>1. [r EXCEPT !.at = "failed", !.why = why, !.provider = None, !.view = {}] \in Op
        BY <2>1 DEF Op, Ended, Whys
      <3> QED BY <2>3, <3>1 DEF Thrown, r
    <2> QED BY <2>2, <2>3
  <1>3. ops[o].kind # "none" /\ ops[o].tab # None
    BY <1>1 DEF Placed, Running, Ended
  <1>4. Thrown(o, why, silent) # Blank
    BY <1>1, <1>3, ThrownFields DEF Blank
  <1>5. CASE ops[o].bench # None /\ ops[o].kind # "deploy"
    BY <1>1, <1>2, <1>3, <1>4, <1>5, ThrownFields
       DEF Placed, Running, Ended, WithProvider, WithCred, AddSteps, LoginSteps, Op, Kinds
  <1>6. CASE ~(ops[o].bench # None /\ ops[o].kind # "deploy")
    BY <1>1, <1>2, <1>3, <1>4, <1>6, ThrownFields
       DEF Placed, Running, Ended, WithProvider, WithCred, AddSteps, LoginSteps, Op, Kinds
  <1> QED BY <1>2, <1>5, <1>6

LEMMA BecomesTyped ==
    ASSUME TypeInv, NEW o \in Ops, NEW r \in Op, Placed(r), Becomes(o, r)
    PROVE  ops' \in [Ops -> Op] /\ Places'
  BY DEF TypeInv, TypeOK, Places, Becomes, Placed

LEMMA LeaveTyped ==
    ASSUME TypeInv, NEW o \in Ops
    PROVE  Leave(o) \in [Tabs -> Seq(Ops)]
  <1>1. \A s \in Seq(Ops) : s # <<>> => Tail(s) \in Seq(Ops)
    OBVIOUS
  <1>2. \A t \in Tabs : queue[t] \in Seq(Ops)
    BY DEF TypeInv, TypeOK
  <1> QED BY <1>1, <1>2 DEF TypeInv, TypeOK, Leave

LEMMA CatalogueTyped == TypeInv => Catalogue \subseteq Row
  BY McpAssumption DEF McpAssumption, TypeInv, TypeOK, Catalogue, Row, Cred

\* An operation moves on to a record of its type, or throws.
Outcome(o) ==
    \/ /\ \E r \in Op : Placed(r) /\ Becomes(o, r)
       /\ queue' = queue \/ queue' = Leave(o)
    \/ \E why \in Whys : \E silent : Throws(o, why, silent)

LEMMA ThrowsOutcome ==
    ASSUME NEW o, NEW why \in Whys, NEW silent, Throws(o, why, silent)
    PROVE  Outcome(o)
  BY Zenon DEF Outcome

LEMMA OutcomeTyped ==
    ASSUME TypeInv, NEW o \in Ops, Running(o), Outcome(o)
    PROVE  ops' \in [Ops -> Op] /\ Places' /\ queue' \in [Tabs -> Seq(Ops)]
  <1>1. CASE \E why \in Whys : \E silent : Throws(o, why, silent)
    BY <1>1, ThrownTyped, BecomesTyped, LeaveTyped DEF Throws
  <1>2. CASE /\ \E r \in Op : Placed(r) /\ Becomes(o, r)
             /\ queue' = queue \/ queue' = Leave(o)
    BY <1>2, BecomesTyped, LeaveTyped DEF TypeInv, TypeOK
  <1> QED BY <1>1, <1>2 DEF Outcome

\* Moving on to another step changes the step alone.
LEMMA AtFields ==
    ASSUME TypeInv, NEW o \in Ops, NEW s \in Steps \cup Ended
    PROVE  /\ At(o, s) \in Op
           /\ At(o, s).at = s
           /\ \A f \in {"kind", "tab", "handle", "provider", "cred", "target", "view", "todo",
                        "bench", "failed", "why", "heard"} : At(o, s)[f] = ops[o][f]
  <1>1. ops[o] \in Op
    BY DEF TypeInv, TypeOK
  <1>2. At(o, s) \in Op
    BY <1>1 DEF At, Op
  <1> QED BY <1>1, <1>2 DEF At, Op

LEMMA CountsTyped ==
    ASSUME TypeInv, NEW a, Counts(a)
    PROVE  faults' \in 0..MaxFaults
  BY McpAssumption DEF McpAssumption, TypeInv, TypeOK, Counts

LEMMA FindProviderTyped ==
    ASSUME TypeInv, NEW o \in Ops, NEW a \in Reads, FindProvider(o, a)
    PROVE  TypeInv'
  <1>1. ops[o] \in Op /\ Placed(ops[o]) /\ ops[o].at = "provider" /\ Running(o)
    BY DEF TypeInv, TypeOK, Places, FindProvider, Running, Ended
  <1>2. Outcome(o)
    <2>1. CASE a # "ok"
      BY <2>1 DEF FindProvider, Outcome, Whys
    <2>2. CASE a = "ok" /\ providers[Adding(o)] = None
      <3>1. At(o, "make") \in Op /\ Placed(At(o, "make"))
        BY <1>1, AtFields DEF Placed, Steps, WithProvider, WithCred, AddSteps, LoginSteps, Blank
      <3> QED BY <2>2, <3>1 DEF FindProvider, Outcome
    <2>3. CASE a = "ok" /\ providers[Adding(o)] # None
      <3> DEFINE r == At(o, StoreStep(o))
                 s == [r EXCEPT !.provider = providers[Adding(o)]]
      <3>1. providers[Adding(o)] \in Nat
        BY <1>1, <2>3, McpAssumption DEF McpAssumption, TypeInv, TypeOK, Adding, Op
      <3>2. /\ r \in Op
            /\ s \in Op /\ s.at = StoreStep(o) /\ s.provider \in Nat
            /\ \A f \in {"kind", "tab", "cred", "target", "bench"} : s[f] = ops[o][f]
        <4>1. StoreStep(o) \in Steps
          BY DEF StoreStep, Steps
        <4>2. r \in Op /\ r.at = StoreStep(o)
              /\ \A f \in {"kind", "tab", "cred", "target", "bench"} : r[f] = ops[o][f]
          BY <4>1, AtFields
        <4> HIDE DEF r
        <4> QED BY <3>1, <4>2 DEF Op
      <3> HIDE DEF r, s
      <3>3. Placed(s)
        BY <1>1, <3>2 DEF StoreStep, Placed, Steps, WithProvider, WithCred, AddSteps, LoginSteps, Blank
      <3> QED BY <2>3, <3>2, <3>3 DEF FindProvider, Outcome, r, s
    <2> QED BY <2>1, <2>2, <2>3
  <1> QED
    BY <1>1, <1>2, OutcomeTyped, CountsTyped DEF FindProvider, TypeInv, TypeOK, hub

\* A record of an operation that has only moved on to step s.
LEMMA MovedTyped ==
    ASSUME TypeInv, NEW o \in Ops, NEW s \in Steps \cup Ended, Running(o), s # "idle",
           \/ s \in {"undo", "record"} /\ ops[o].at \in WithCred
           \/ s = "read" /\ ops[o].at = "waiting" /\ ops[o].cred \in Nat
           \/ s = "discover" /\ ops[o].at = "read"
           \/ s = "waiting" /\ ops[o].at = "login"
           \/ s = "make" /\ ops[o].at = "provider"
           \/ s = "dropProvider" /\ ops[o].at = "drop"
           \/ s = "benches" /\ ops[o].at = "dropProvider"
           \/ s = "done" /\ ops[o].at = "next"
    PROVE  At(o, s) \in Op /\ Placed(At(o, s))
  <1>1. ops[o] \in Op /\ Placed(ops[o])
    BY DEF TypeInv, TypeOK, Places
  <1>2. ops[o] # Blank
    BY <1>1 DEF Running, Ended, Blank
  <1> QED
    BY <1>1, <1>2, AtFields
       DEF Placed, Steps, Ended, WithProvider, WithCred, AddSteps, LoginSteps, Blank, Running

\* What each request reads and writes is of its type.
LEMMA MakeProviderTyped ==
    ASSUME TypeInv, NEW o \in Ops, NEW a \in Answers, MakeProvider(o, a)
    PROVE  TypeInv'
  <1>1. ops[o] \in Op /\ Placed(ops[o]) /\ ops[o].at = "make" /\ Running(o) /\ lastId \in Nat
    BY DEF TypeInv, TypeOK, Places, MakeProvider, Running, Ended
  <1>2. providers' \in [Handles -> Nat \cup {None}] /\ lastId' \in Nat
    BY <1>1 DEF MakeProvider, TypeInv, TypeOK
  <1>3. Outcome(o)
    <2>1. CASE providers[Adding(o)] = None /\ a = "ok"
      <3> DEFINE r == At(o, StoreStep(o))
                 s == [r EXCEPT !.provider = lastId + 1]
      <3>1. StoreStep(o) \in Steps
        BY DEF StoreStep, Steps
      <3>2. r \in Op /\ r.at = StoreStep(o)
            /\ \A f \in {"kind", "tab", "cred", "target", "bench"} : r[f] = ops[o][f]
        BY <3>1, AtFields
      <3>3. /\ s \in Op /\ s.at = StoreStep(o) /\ s.provider \in Nat
            /\ \A f \in {"kind", "tab", "cred", "target", "bench"} : s[f] = ops[o][f]
        <4> HIDE DEF r
        <4> QED BY <1>1, <3>2 DEF Op
      <3> HIDE DEF r, s
      <3>4. Placed(s)
        BY <1>1, <3>3 DEF StoreStep, Placed, Steps, WithProvider, WithCred, AddSteps, LoginSteps, Blank
      <3> QED BY <2>1, <3>3, <3>4 DEF MakeProvider, Outcome, r, s
    <2>2. CASE ~(providers[Adding(o)] = None /\ a = "ok")
      <3>1. Throws(o, IF a = "ok" THEN "conflict" ELSE "fault", Silent(a))
        BY <2>2 DEF MakeProvider
      <3> QED BY <3>1, ThrowsOutcome DEF Whys
    <2> QED BY <2>1, <2>2
  <1> QED
    BY <1>1, <1>2, <1>3, OutcomeTyped, CountsTyped DEF MakeProvider, TypeInv, TypeOK

LEMMA StoreRowTyped ==
    ASSUME TypeInv, NEW h \in Handles, NEW p \in Nat, NEW t \in Tools, StoreRow(h, p, t)
    PROVE  creds' \in [Handles -> Cred \cup {None}] /\ lastId' \in Nat
  BY DEF StoreRow, TypeInv, TypeOK, Cred

LEMMA StoreTyped ==
    ASSUME TypeInv, NEW o \in Ops, NEW a \in Answers, Store(o, a)
    PROVE  TypeInv'
  <1>1. ops[o] \in Op /\ Placed(ops[o]) /\ ops[o].at = "store" /\ Running(o) /\ lastId \in Nat
    BY DEF TypeInv, TypeOK, Places, Store, Running, Ended
  <1>2. Adding(o) \in Handles /\ ops[o].provider \in Nat
    BY <1>1, McpAssumption DEF McpAssumption, Adding, Op, Placed, WithProvider
  <1>3. creds' \in [Handles -> Cred \cup {None}] /\ lastId' \in Nat
    BY <1>1, <1>2, StoreRowTyped DEF Store, TypeInv, TypeOK, Tools
  <1>4. Outcome(o)
    <2> DEFINE ok == Storable(Adding(o), ops[o].provider) /\ a = "ok"
    <2>1. CASE ok
      <3> DEFINE r == At(o, "discover")
                 s == [r EXCEPT !.cred = lastId + 1]
      <3>1. r \in Op /\ r.at = "discover"
            /\ \A f \in {"kind", "tab", "provider", "target", "bench"} : r[f] = ops[o][f]
        BY AtFields DEF Steps
      <3>2. /\ s \in Op /\ s.at = "discover" /\ s.cred \in Nat
            /\ \A f \in {"kind", "tab", "provider", "target", "bench"} : s[f] = ops[o][f]
        <4> HIDE DEF r
        <4> QED BY <1>1, <3>1 DEF Op
      <3> HIDE DEF r, s
      <3>3. Placed(s)
        BY <1>1, <3>2 DEF Placed, WithProvider, WithCred, AddSteps, LoginSteps, Blank
      <3> QED BY <2>1, <3>2, <3>3 DEF Store, Outcome, r, s
    <2>2. CASE ~ok
      <3>1. Throws(o, IF a = "ok" THEN "conflict" ELSE "fault", Silent(a))
        BY <2>2 DEF Store
      <3> QED BY <3>1, ThrowsOutcome DEF Whys
    <2> QED BY <2>1, <2>2
  <1> QED
    BY <1>1, <1>3, <1>4, OutcomeTyped, CountsTyped DEF Store, TypeInv, TypeOK

LEMMA OpenLoginTyped ==
    ASSUME TypeInv, NEW o \in Ops, NEW a \in Reads, OpenLogin(o, a)
    PROVE  TypeInv'
  <1>1. ops[o] \in Op /\ Placed(ops[o]) /\ ops[o].at = "login" /\ Running(o)
    BY DEF TypeInv, TypeOK, Places, OpenLogin, Running, Ended
  <1>2. logins' \subseteq [op : Ops, provider : Nat]
    <2>1. [op |-> o, provider |-> ops[o].provider] \in [op : Ops, provider : Nat]
      BY <1>1 DEF Placed, WithProvider
    <2> QED BY <2>1 DEF OpenLogin, TypeInv, TypeOK
  <1>3. Outcome(o)
    BY <1>1, MovedTyped DEF OpenLogin, Outcome, Whys, Steps
  <1> QED
    BY <1>1, <1>2, <1>3, OutcomeTyped, CountsTyped DEF OpenLogin, TypeInv, TypeOK, hub

LEMMA LoginCompletesTyped ==
    ASSUME TypeInv, NEW l \in logins, LoginCompletes(l),
           ops[l.op].at \in {"waiting", "failed", "gone"}
    PROVE  TypeInv'
  <1>1. l.op \in Ops /\ l.provider \in Nat /\ lastId \in Nat
    BY DEF TypeInv, TypeOK
  <1>2. ops[l.op] \in Op /\ Placed(ops[l.op])
    BY <1>1 DEF TypeInv, TypeOK, Places
  <1>3. creds' \in [Handles -> Cred \cup {None}] /\ lastId' \in Nat
    BY <1>1, <1>2, StoreRowTyped DEF LoginCompletes, Op, Tools
  <1>4. PICK r : Becomes(l.op, r) /\
                 r = IF Running(l.op) THEN [ops[l.op] EXCEPT !.cred = lastId + 1] ELSE ops[l.op]
    BY DEF LoginCompletes
  <1>5. r \in Op
    BY <1>1, <1>2, <1>4 DEF Op
  <1>6. Placed(r)
    <2>1. CASE Running(l.op)
      <3>1. /\ r.cred = lastId + 1 /\ ops[l.op].at = "waiting"
            /\ \A f \in {"kind", "tab", "at", "provider", "target", "bench"} : r[f] = ops[l.op][f]
        BY <1>2, <1>4, <2>1 DEF Op, Running, Ended
      <3> QED BY <1>1, <1>2, <3>1 DEF Placed, WithProvider, WithCred, AddSteps, LoginSteps, Blank
    <2> QED BY <1>2, <1>4, <2>1
  <1> QED
    BY <1>1, <1>3, <1>4, <1>5, <1>6, BecomesTyped DEF LoginCompletes, TypeInv, TypeOK

LEMMA PollTyped ==
    ASSUME TypeInv, NEW o \in Ops, NEW a \in Reads, Poll(o, a)
    PROVE  TypeInv'
  <1>1. ops[o] \in Op /\ Placed(ops[o]) /\ ops[o].at = "waiting" /\ Running(o)
    BY DEF TypeInv, TypeOK, Places, Poll, Running, Ended
  <1>2. Outcome(o)
    <2>1. ops[o].cred # None => ops[o].cred \in Nat
      BY <1>1 DEF Op
    <2>2. CASE a = "ok" /\ ops[o].cred # None
      BY <1>1, <2>1, <2>2, MovedTyped DEF Poll, Outcome, Steps
    <2>3. CASE ~(a = "ok" /\ ops[o].cred # None)
      BY <2>3 DEF Poll, Outcome, Whys
    <2> QED BY <2>2, <2>3
  <1> QED
    BY <1>1, <1>2, OutcomeTyped, CountsTyped DEF Poll, TypeInv, TypeOK, hub

LEMMA ReadCredentialTyped ==
    ASSUME TypeInv, NEW o \in Ops, NEW a \in Reads, ReadCredential(o, a)
    PROVE  TypeInv'
  <1>1. ops[o] \in Op /\ Placed(ops[o]) /\ ops[o].at = "read" /\ Running(o)
    BY DEF TypeInv, TypeOK, Places, ReadCredential, Running, Ended
  <1>2. Outcome(o)
    <2>1. CASE a = "ok"
      BY <1>1, <2>1, MovedTyped DEF ReadCredential, Outcome, Steps
    <2>2. CASE a # "ok"
      BY <2>2 DEF ReadCredential, Outcome, Whys
    <2> QED BY <2>1, <2>2
  <1> QED
    BY <1>1, <1>2, OutcomeTyped, CountsTyped DEF ReadCredential, TypeInv, TypeOK, hub

LEMMA DiscoverTyped ==
    ASSUME TypeInv, NEW o \in Ops, NEW answered, Discover(o, answered)
    PROVE  TypeInv'
  <1>1. ops[o] \in Op /\ ops[o].at = "discover" /\ Running(o)
    BY DEF TypeInv, TypeOK, Places, Discover, Running, Ended
  <1>2. Outcome(o)
    BY <1>1, MovedTyped DEF Discover, Outcome, Steps, WithCred
  <1> QED
    BY <1>1, <1>2, OutcomeTyped DEF Discover, TypeInv, TypeOK, hub

\* What a record of the tools leaves alone.
Told == {"kind", "tab", "handle", "bench", "heard", "failed", "why", "todo"}

LEMMA RecordedTyped ==
    ASSUME TypeInv, NEW o \in Ops, ops[o].at = "record"
    PROVE  LET r == Recorded(o) IN
           /\ r \in Op /\ Placed(r)
           /\ \A f \in Told : r[f] = ops[o][f]
           /\ IF ops[o].bench = None
              THEN /\ r.at = "benches" /\ r.cred = None /\ r.view = {}
                   /\ r.target = <<ops[o].cred, ops[o].provider>>
              ELSE /\ r.at = "install" /\ r.cred = ops[o].cred /\ r.target = ops[o].target
                   /\ r.view = ops[o].view \cup
                          {[handle |-> BuiltIn, id |-> ops[o].cred, tools |-> "listed"]}
  <1> USE DEF Told
  <1>1. ops[o] \in Op /\ Placed(ops[o])
    BY DEF TypeInv, TypeOK, Places
  <1>2. ops[o].cred \in Nat /\ ops[o].provider \in Nat /\ ops[o].tab # None
    BY <1>1 DEF Placed, WithCred, WithProvider
  <1>3. CASE ops[o].bench = None
    <2> DEFINE r == At(o, "benches")
               c == Cleared(r)
               s == [c EXCEPT !.target = <<ops[o].cred, ops[o].provider>>]
    <2>1. r \in Op /\ r.at = "benches"
          /\ \A f \in Told : r[f] = ops[o][f]
      BY AtFields DEF Steps
    <2> HIDE DEF r
    <2>2. c \in Op /\ c.at = "benches" /\ c.cred = None /\ c.view = {}
          /\ \A f \in Told : c[f] = ops[o][f]
      BY <2>1 DEF Cleared, Op
    <2> HIDE DEF c
    <2>3. s \in Op /\ s.at = "benches" /\ s.cred = None /\ s.view = {}
          /\ s.target = <<ops[o].cred, ops[o].provider>> /\ s.target \in Nat \X Nat
          /\ \A f \in Told : s[f] = ops[o][f]
      BY <1>2, <2>2 DEF Op
    <2> HIDE DEF s
    <2>4. Placed(s)
      BY <1>1, <1>2, <1>3, <2>3, McpAssumption
         DEF McpAssumption, Placed, WithProvider, WithCred, AddSteps, LoginSteps, Blank
    <2> QED BY <1>3, <2>3, <2>4 DEF Recorded, r, c, s
  <1>4. CASE ops[o].bench # None
    <2> DEFINE r == At(o, "install")
               s == [r EXCEPT !.view = @ \cup
                       {[handle |-> BuiltIn, id |-> ops[o].cred, tools |-> "listed"]}]
    <2>1. r \in Op /\ r.at = "install" /\ r.view = ops[o].view
          /\ \A f \in Told \cup {"cred", "target"} : r[f] = ops[o][f]
      BY AtFields DEF Steps
    <2>2. [handle |-> BuiltIn, id |-> ops[o].cred, tools |-> "listed"] \in Row
      BY <1>2, McpAssumption DEF McpAssumption, Row, Tools
    <2> HIDE DEF r
    <2>3. s \in Op /\ s.at = "install"
          /\ s.view = ops[o].view \cup
                {[handle |-> BuiltIn, id |-> ops[o].cred, tools |-> "listed"]}
          /\ \A f \in Told \cup {"cred", "target"} : s[f] = ops[o][f]
      BY <2>1, <2>2 DEF Op
    <2> HIDE DEF s
    <2>4. Placed(s)
      BY <1>1, <1>2, <1>4, <2>3 DEF Placed, WithProvider, WithCred, AddSteps, LoginSteps, Blank
    <2> QED BY <1>4, <2>3, <2>4 DEF Recorded, r, s
  <1> QED BY <1>3, <1>4

LEMMA RecordTyped ==
    ASSUME TypeInv, NEW o \in Ops, NEW a \in Answers, Record(o, a)
    PROVE  TypeInv'
  <1>1. ops[o] \in Op /\ Placed(ops[o]) /\ ops[o].at = "record" /\ Running(o)
    BY DEF TypeInv, TypeOK, Places, Record, Running, Ended
  <1>2. creds' \in [Handles -> Cred \cup {None}]
    <2>1. CASE Mine(o) /\ Handled(a)
      <3>1. creds[Adding(o)] # None /\ creds' = [creds EXCEPT ![Adding(o)].tools = "listed"]
        BY <2>1 DEF Record, Mine
      <3>2. \A h \in Handles : creds[h] # None => [creds[h] EXCEPT !.tools = "listed"] \in Cred
        BY DEF TypeInv, TypeOK, Cred, Tools
      <3> QED BY <3>1, <3>2 DEF TypeInv, TypeOK
    <2> QED BY <2>1 DEF Record, TypeInv, TypeOK
  <1>3. Outcome(o)
    <2>1. CASE Silent(a)
      <3>1. Throws(o, "fault", TRUE)
        BY <2>1 DEF Record, Silent
      <3> QED BY <3>1, ThrowsOutcome DEF Whys
    <2>2. CASE ~Silent(a) /\ a = "ok" /\ Mine(o)
      <3>1. Becomes(o, Recorded(o)) /\ queue' = Leave(o)
        BY <2>2 DEF Record
      <3>2. Recorded(o) \in Op /\ Placed(Recorded(o))
        BY <1>1, RecordedTyped
      <3> QED BY <3>1, <3>2 DEF Outcome
    <2>3. CASE ~Silent(a) /\ ~(a = "ok" /\ Mine(o))
      BY <1>1, <2>3, MovedTyped DEF Record, Outcome, WithCred, Steps
    <2> QED BY <2>1, <2>2, <2>3
  <1> QED
    BY <1>1, <1>2, <1>3, OutcomeTyped, CountsTyped DEF Record, TypeInv, TypeOK

LEMMA UndoTyped ==
    ASSUME TypeInv, NEW o \in Ops, NEW a \in Answers, Undo(o, a)
    PROVE  TypeInv'
  <1>1. ops[o].at = "undo" /\ Running(o)
    BY DEF Undo, Running, Ended
  <1>2. creds' \in [Handles -> Cred \cup {None}]
    BY DEF Undo, TypeInv, TypeOK
  <1>3. Outcome(o)
    <2>1. Throws(o, "unreachable", a # "ok")
      BY DEF Undo
    <2> QED BY <2>1, ThrowsOutcome DEF Whys
  <1> QED
    BY <1>1, <1>2, <1>3, OutcomeTyped, CountsTyped DEF Undo, TypeInv, TypeOK

LEMMA DropTyped ==
    ASSUME TypeInv, NEW o \in Ops, NEW a \in Answers, DropCredential(o, a) \/ DropProvider(o, a)
    PROVE  TypeInv'
  <1>1. CASE DropCredential(o, a)
    <2>1. ops[o].at = "drop" /\ Running(o) /\ creds' \in [Handles -> Cred \cup {None}]
      BY <1>1 DEF DropCredential, Running, Ended, TypeInv, TypeOK
    <2>2. Outcome(o)
      <3>1. CASE Target(o) /\ a = "ok"
        BY <1>1, <2>1, <3>1, MovedTyped DEF DropCredential, Outcome, Steps
      <3>2. CASE ~(Target(o) /\ a = "ok")
        <4>1. Throws(o, IF a = "ok" THEN "conflict" ELSE "fault", Silent(a))
          BY <1>1, <3>2 DEF DropCredential
        <4> QED BY <4>1, ThrowsOutcome DEF Whys
      <3> QED BY <3>1, <3>2
    <2> QED
      BY <1>1, <2>1, <2>2, OutcomeTyped, CountsTyped DEF DropCredential, TypeInv, TypeOK
  <1>2. CASE DropProvider(o, a)
    <2>1. ops[o].at = "dropProvider" /\ Running(o)
      BY <1>2 DEF DropProvider, Running, Ended
    <2>2. creds' \in [Handles -> Cred \cup {None}] /\ providers' \in [Handles -> Nat \cup {None}]
      BY <1>2 DEF DropProvider, TypeInv, TypeOK
    <2>3. Outcome(o)
      <3>1. CASE Silent(a)
        <4>1. Throws(o, "fault", TRUE)
          BY <1>2, <3>1 DEF DropProvider
        <4> QED BY <4>1, ThrowsOutcome DEF Whys
      <3>2. CASE ~Silent(a)
        BY <1>2, <2>1, <3>2, MovedTyped DEF DropProvider, Outcome, Steps
      <3> QED BY <3>1, <3>2
    <2> QED
      BY <1>2, <2>1, <2>2, <2>3, OutcomeTyped, CountsTyped DEF DropProvider, TypeInv, TypeOK
  <1> QED BY <1>1, <1>2

LEMMA ListBenchesTyped ==
    ASSUME TypeInv, NEW o \in Ops, NEW a \in Reads, ListBenches(o, a)
    PROVE  TypeInv'
  <1>1. ops[o] \in Op /\ Placed(ops[o]) /\ ops[o].at = "benches" /\ Running(o)
    BY DEF TypeInv, TypeOK, Places, ListBenches, Running, Ended
  <1>2. Outcome(o)
    <2>1. CASE a = "ok"
      <3> DEFINE r == At(o, "next")
                 s == [r EXCEPT !.todo = Benches]
      <3>1. r \in Op /\ r.at = "next"
            /\ \A f \in {"kind", "tab", "provider", "cred", "target", "bench"} : r[f] = ops[o][f]
        BY AtFields DEF Steps
      <3> HIDE DEF r
      <3>2. s \in Op /\ s.at = "next"
            /\ \A f \in {"kind", "tab", "provider", "cred", "target", "bench"} : s[f] = ops[o][f]
        BY <3>1 DEF Op
      <3> HIDE DEF s
      <3>3. Placed(s)
        BY <1>1, <3>2 DEF Placed, WithProvider, WithCred, AddSteps, LoginSteps, Blank
      <3> QED BY <2>1, <3>2, <3>3 DEF ListBenches, Outcome, r, s
    <2>2. CASE a # "ok"
      BY <2>2, ThrowsOutcome DEF ListBenches, Whys
    <2> QED BY <2>1, <2>2
  <1> QED
    BY <1>1, <1>2, OutcomeTyped, CountsTyped DEF ListBenches, TypeInv, TypeOK, hub

\* An operation joins its tab's queue.
LEMMA JoinTyped ==
    ASSUME TypeInv, NEW o \in Ops, NEW t, queue' = [queue EXCEPT ![t] = Append(@, o)]
    PROVE  queue' \in [Tabs -> Seq(Ops)]
  <1>1. \A u \in Tabs : queue[u] \in Seq(Ops) /\ Append(queue[u], o) \in Seq(Ops)
    BY DEF TypeInv, TypeOK
  <1> QED BY <1>1 DEF TypeInv, TypeOK

LEMMA NextBenchTyped ==
    ASSUME TypeInv, NEW o \in Ops, NEW b \in Benches, NEW a \in Reads, NextBench(o, b, a)
    PROVE  TypeInv'
  <1> DEFINE r == [ops[o] EXCEPT !.todo = @ \ {b}]
  <1>1. ops[o] \in Op /\ Placed(ops[o]) /\ ops[o].at = "next" /\ ops[o] # Blank
    BY DEF TypeInv, TypeOK, Places, NextBench, Placed
  <1>2. r \in Op /\ \A f \in {"kind", "tab", "at", "provider", "cred", "target", "bench", "failed"} :
                       r[f] = ops[o][f]
    BY <1>1 DEF Op
  <1>3. \/ Becomes(o, [r EXCEPT !.failed = @ \cup {b}]) /\ UNCHANGED queue
        \/ Becomes(o, r) /\ UNCHANGED queue
        \/ /\ Becomes(o, [r EXCEPT !.at = "queued", !.bench = b])
           /\ queue' = [queue EXCEPT ![r.tab] = Append(@, o)]
    BY DEF NextBench
  <1> HIDE DEF r
  <1>4. /\ [r EXCEPT !.failed = @ \cup {b}] \in Op /\ Placed([r EXCEPT !.failed = @ \cup {b}])
        /\ Placed(r)
    <2> DEFINE s == [r EXCEPT !.failed = @ \cup {b}]
    <2>1. s \in Op /\ \A f \in {"kind", "tab", "at", "provider", "cred", "target", "bench"} :
                       s[f] = ops[o][f]
      BY <1>2 DEF Op
    <2>2. Placed(r)
      BY <1>1, <1>2 DEF Placed, WithProvider, WithCred, AddSteps, LoginSteps, Blank
    <2> HIDE DEF s
    <2>3. Placed(s)
      BY <1>1, <2>1 DEF Placed, WithProvider, WithCred, AddSteps, LoginSteps, Blank
    <2> QED BY <2>1, <2>2, <2>3 DEF s
  <1>5. LET s == [r EXCEPT !.at = "queued", !.bench = b] IN s \in Op /\ Placed(s)
    <2> DEFINE s == [r EXCEPT !.at = "queued", !.bench = b]
    <2>1. s \in Op /\ s.at = "queued" /\ s.bench = b
          /\ \A f \in {"kind", "tab", "provider", "cred", "target"} : s[f] = ops[o][f]
      BY <1>2 DEF Op, Steps
    <2> HIDE DEF s
    <2>2. Placed(s)
      BY <1>1, <2>1, McpAssumption
         DEF McpAssumption, Placed, WithProvider, WithCred, AddSteps, LoginSteps, Blank
    <2> QED BY <2>1, <2>2 DEF s
  <1>6. ops' \in [Ops -> Op] /\ Places'
    BY <1>2, <1>3, <1>4, <1>5, BecomesTyped
  <1>7. queue' \in [Tabs -> Seq(Ops)]
    BY <1>3, JoinTyped DEF TypeInv, TypeOK
  <1> QED
    BY <1>6, <1>7, CountsTyped DEF NextBench, TypeInv, TypeOK, hub

LEMMA FinishTyped ==
    ASSUME TypeInv, NEW o \in Ops, Finish(o)
    PROVE  TypeInv'
  <1>1. ops[o].at = "next" /\ Running(o)
    BY DEF Finish, Running, Ended
  <1>2. Outcome(o)
    BY <1>1, MovedTyped DEF Finish, Outcome, Ended
  <1> QED
    BY <1>1, <1>2, OutcomeTyped DEF Finish, TypeInv, TypeOK, hub

LEMMA EnsureBuiltInTyped ==
    ASSUME TypeInv, NEW o \in Ops, NEW a \in Reads, EnsureBuiltIn(o, a)
    PROVE  TypeInv'
  <1> DEFINE r == [ops[o] EXCEPT !.view = Catalogue]
  <1>1. ops[o] \in Op /\ Placed(ops[o]) /\ ops[o].at = "queued" /\ Running(o)
    BY DEF TypeInv, TypeOK, Places, EnsureBuiltIn, Running, Ended
  <1>2. r \in Op /\ \A f \in {"kind", "tab", "provider", "cred", "target", "bench"} :
                       r[f] = ops[o][f]
    BY <1>1, CatalogueTyped DEF Op
  <1>3. \/ Throws(o, "fault", FALSE)
        \/ Becomes(o, [r EXCEPT !.at = "install"]) /\ queue' = Leave(o)
        \/ Becomes(o, [r EXCEPT !.at = "provider"]) /\ UNCHANGED queue
    BY DEF EnsureBuiltIn
  <1> HIDE DEF r
  <1>4. ASSUME NEW s \in {"install", "provider"}
        PROVE  [r EXCEPT !.at = s] \in Op /\ Placed([r EXCEPT !.at = s])
    <2> DEFINE q == [r EXCEPT !.at = s]
    <2>1. q \in Op /\ q.at = s
          /\ \A f \in {"kind", "tab", "provider", "cred", "target", "bench"} : q[f] = ops[o][f]
      BY <1>2 DEF Op, Steps
    <2> HIDE DEF q
    <2>2. Placed(q)
      BY <1>1, <2>1 DEF Placed, WithProvider, WithCred, AddSteps, LoginSteps, Blank
    <2> QED BY <2>1, <2>2 DEF q
  <1>5. Outcome(o)
    <2>1. CASE Throws(o, "fault", FALSE)
      BY <2>1, ThrowsOutcome DEF Whys
    <2>2. CASE Becomes(o, [r EXCEPT !.at = "install"]) /\ queue' = Leave(o)
      BY <1>4, <2>2 DEF Outcome
    <2>3. CASE Becomes(o, [r EXCEPT !.at = "provider"]) /\ UNCHANGED queue
      BY <1>4, <2>3 DEF Outcome
    <2> QED BY <1>3, <2>1, <2>2, <2>3
  <1> QED
    BY <1>1, <1>5, OutcomeTyped, CountsTyped DEF EnsureBuiltIn, TypeInv, TypeOK, hub

LEMMA InstallTyped ==
    ASSUME TypeInv, NEW o \in Ops, NEW a \in Answers, Install(o, a)
    PROVE  TypeInv'
  <1>1. ops[o] \in Op /\ Placed(ops[o]) /\ ops[o].at = "install" /\ Running(o)
    BY DEF TypeInv, TypeOK, Places, Install, Running, Ended
  <1>2. workers' \in [Benches -> (SUBSET Row) \cup {None}]
    BY <1>1 DEF Install, TypeInv, TypeOK, Op
  <1>3. ASSUME NEW s \in {"done", "next"}
        PROVE  LET c == Cleared(At(o, s)) IN
               /\ c \in Op /\ c.at = s /\ c.cred = None
               /\ \A f \in {"kind", "tab", "target", "bench"} : c[f] = ops[o][f]
    <2> DEFINE r == At(o, s)
    <2>1. r \in Op /\ r.at = s
          /\ \A f \in {"kind", "tab", "target", "bench"} : r[f] = ops[o][f]
      BY AtFields DEF Steps, Ended
    <2> HIDE DEF r
    <2>2. LET c == Cleared(r) IN
          /\ c \in Op /\ c.at = s /\ c.cred = None
          /\ \A f \in {"kind", "tab", "target", "bench"} : c[f] = ops[o][f]
      BY <2>1 DEF Cleared, Op
    <2> QED BY <2>2 DEF r
  <1>4. Outcome(o)
    <2>1. CASE a # "ok"
      <3>1. Throws(o, "fault", Silent(a))
        BY <2>1 DEF Install
      <3> QED BY <3>1, ThrowsOutcome DEF Whys
    <2>2. CASE a = "ok" /\ ops[o].kind = "deploy"
      <3> DEFINE c == Cleared(At(o, "done"))
      <3>1. c \in Op /\ c.at = "done" /\ c.cred = None
            /\ \A f \in {"kind", "tab", "target", "bench"} : c[f] = ops[o][f]
        BY <1>3
      <3>2. Becomes(o, c) /\ queue' = queue
        BY <2>2 DEF Install
      <3> HIDE DEF c
      <3>3. Placed(c)
        BY <1>1, <2>2, <3>1 DEF Placed, WithProvider, WithCred, AddSteps, LoginSteps, Blank
      <3> QED BY <3>1, <3>2, <3>3 DEF Outcome
    <2>3. CASE a = "ok" /\ ops[o].kind # "deploy"
      <3> DEFINE c == Cleared(At(o, "next"))
                 s == [c EXCEPT !.bench = None]
      <3>1. c \in Op /\ c.at = "next" /\ c.cred = None
            /\ \A f \in {"kind", "tab", "target", "bench"} : c[f] = ops[o][f]
        BY <1>3
      <3>2. Becomes(o, s) /\ queue' = queue
        BY <2>3 DEF Install
      <3> HIDE DEF c
      <3>3. s \in Op /\ s.at = "next" /\ s.cred = None /\ s.bench = None
            /\ \A f \in {"kind", "tab", "target"} : s[f] = ops[o][f]
        BY <3>1 DEF Op
      <3> HIDE DEF s
      <3>4. s.kind \in {"add", "signIn", "remove"}
        BY <1>1, <2>3, <3>3 DEF Op, Kinds, Placed
      <3>5. Placed(s)
        BY <1>1, <2>3, <3>3, <3>4 DEF Placed, WithProvider, WithCred, AddSteps, LoginSteps, Blank
      <3> QED BY <3>2, <3>3, <3>5 DEF Outcome
    <2> QED BY <2>1, <2>2, <2>3
  <1> QED
    BY <1>1, <1>2, <1>4, OutcomeTyped, CountsTyped DEF Install, TypeInv, TypeOK

\* An operation of the tab that is reloaded ends where it is.
Stopped(o) == [Cleared(ops[o]) EXCEPT !.at = "gone", !.heard = "some"]

LEMMA StoppedTyped ==
    ASSUME TypeInv, NEW o \in Ops, Running(o)
    PROVE  /\ Stopped(o) \in Op /\ Placed(Stopped(o))
           /\ Stopped(o).at = "gone" /\ Stopped(o).cred = None /\ Stopped(o).heard = "some"
           /\ \A f \in {"kind", "tab", "handle", "target", "bench", "failed"} :
                 Stopped(o)[f] = ops[o][f]
  <1> DEFINE c == Cleared(ops[o])
             s == [c EXCEPT !.at = "gone", !.heard = "some"]
  <1>1. ops[o] \in Op /\ Placed(ops[o]) /\ ops[o].at \notin Ended
    BY DEF TypeInv, TypeOK, Places, Running
  <1>2. c \in Op /\ c.cred = None
        /\ \A f \in {"kind", "tab", "handle", "target", "bench", "failed"} : c[f] = ops[o][f]
    BY <1>1 DEF Cleared, Op
  <1> HIDE DEF c
  <1>3. s \in Op /\ s.cred = None /\ s.at = "gone" /\ s.heard = "some"
        /\ \A f \in {"kind", "tab", "handle", "target", "bench", "failed"} : s[f] = ops[o][f]
    BY <1>2 DEF Op, Ended
  <1> HIDE DEF s
  <1>4. Placed(s)
    BY <1>1, <1>3 DEF Placed, Ended, WithProvider, WithCred, AddSteps, LoginSteps, Blank
  <1> QED BY <1>3, <1>4 DEF s, c, Stopped

LEMMA ReloadTyped ==
    ASSUME TypeInv, NEW t \in Tabs, Reload(t)
    PROVE  TypeInv'
  <1>1. ops' = [o \in Ops |-> IF ops[o].tab = t /\ Running(o) THEN Stopped(o) ELSE ops[o]]
    BY DEF Reload, Stopped
  <1>2. ops' \in [Ops -> Op] /\ Places'
    BY <1>1, StoppedTyped DEF TypeInv, TypeOK, Places, Placed
  <1>3. queue' \in [Tabs -> Seq(Ops)]
    <2>1. <<>> \in Seq(Ops)
      OBVIOUS
    <2> QED BY <2>1 DEF Reload, TypeInv, TypeOK
  <1>4. faults' \in 0..MaxFaults
    <2>1. faults \in 0..MaxFaults /\ faults < MaxFaults /\ faults' = faults + 1
      BY DEF Reload, TypeInv, TypeOK
    <2> QED BY <2>1, McpAssumption DEF McpAssumption
  <1> QED BY <1>2, <1>3, <1>4 DEF Reload, TypeInv, TypeOK, hub

\* What begins is an operation of its kind that has done nothing yet.
Begun(r) ==
    /\ r \in Op /\ r.tab # None /\ r.cred = None /\ r.heard = "all"
    /\ r.view = {} /\ r.why = "none"
    /\ \/ r.kind \in {"add", "signIn"} /\ r.at = "provider" /\ r.target = None /\ r.bench = None
       \/ r.kind = "remove" /\ r.at = "drop" /\ r.target # None /\ r.bench = None
       \/ r.kind = "deploy" /\ r.at = "queued" /\ r.bench # None

LEMMA StartBegins ==
    ASSUME TypeInv, NEW o \in Ops, Start(o)
    PROVE  \E r : Begun(r) /\ Begins(o, r)
  <1>1. Blank \in Op
    BY BlankTyped
  <1>2. ASSUME NEW k \in {"add", "signIn"}, NEW t \in Tabs, NEW h \in Handles,
               StartAdd(o, k, t, h)
        PROVE  \E r : Begun(r) /\ Begins(o, r)
    <2> DEFINE r == [Blank EXCEPT !.kind = k, !.tab = t, !.handle = h, !.at = "provider"]
    <2>1. Begun(r)
      BY <1>1, McpAssumption DEF McpAssumption, Blank, Begun, Op, Kinds, Steps
    <2>2. Begins(o, r)
      BY <1>2 DEF StartAdd
    <2> QED BY <2>1, <2>2
  <1>3. ASSUME NEW t \in Tabs, NEW h \in Handles, StartRemove(o, t, h)
        PROVE  \E r : Begun(r) /\ Begins(o, r)
    <2> DEFINE r == [Blank EXCEPT !.kind = "remove", !.tab = t, !.handle = h, !.at = "drop",
                               !.target = <<creds[h].id, creds[h].provider>>]
    <2>1. creds[h] \in Cred
      BY <1>3 DEF StartRemove, Catalogue, TypeInv, TypeOK
    <2>2. <<creds[h].id, creds[h].provider>> \in Nat \X Nat
      BY <2>1 DEF Cred
    <2>3. Begun(r)
      BY <1>1, <2>2, McpAssumption DEF McpAssumption, Blank, Begun, Op, Kinds, Steps
    <2>4. Begins(o, r)
      BY <1>3 DEF StartRemove
    <2> QED BY <2>3, <2>4
  <1>4. ASSUME NEW t \in Tabs, NEW b \in Benches, StartDeploy(o, t, b)
        PROVE  \E r : Begun(r) /\ Begins(o, r)
    <2> DEFINE r == [Blank EXCEPT !.kind = "deploy", !.tab = t, !.at = "queued", !.bench = b]
    <2>1. Begun(r)
      BY <1>1, McpAssumption DEF McpAssumption, Blank, Begun, Op, Kinds, Steps
    <2>2. Begins(o, r)
      BY <1>4 DEF StartDeploy
    <2> QED BY <2>1, <2>2
  <1> QED BY <1>2, <1>3, <1>4 DEF Start

LEMMA StartTyped ==
    ASSUME TypeInv, NEW o \in Ops, Start(o)
    PROVE  TypeInv'
  <1>1. PICK r : Begun(r) /\ Begins(o, r)
    BY StartBegins
  <1>2. Placed(r)
    BY <1>1 DEF Begun, Placed, WithProvider, WithCred, AddSteps, LoginSteps, Blank
  <1>3. ops' \in [Ops -> Op] /\ Places'
    BY <1>1, <1>2, BecomesTyped DEF Begun, Begins
  <1>4. newest' \in Ops \cup {None} /\ overlapped' \subseteq Ops
    BY <1>1 DEF Begins, TypeInv, TypeOK
  <1>5. queue' \in [Tabs -> Seq(Ops)]
    BY JoinTyped DEF Start, StartAdd, StartRemove, StartDeploy, TypeInv, TypeOK
  <1> QED
    BY <1>3, <1>4, <1>5 DEF Start, StartAdd, StartRemove, StartDeploy, TypeInv, TypeOK, hub

-----------------------------------------------------------------------------
(* What a step may do to the rows, and to the operations they belong to *)

\* The row of the hub a request changes, if any.
Makes(h)  == /\ providers[h] = None
             /\ providers' = [providers EXCEPT ![h] = lastId + 1]
             /\ lastId' = lastId + 1
             /\ UNCHANGED creds
Stores(h) == \E p \in Nat, t \in Tools :
                Storable(h, p) /\ StoreRow(h, p, t) /\ UNCHANGED providers
Lists(h)  == /\ creds[h] # None
             /\ creds' = [creds EXCEPT ![h].tools = "listed"]
             /\ UNCHANGED <<providers, lastId>>
Drops(h)  == /\ creds' = [creds EXCEPT ![h] = None]
             /\ providers' \in {providers, [providers EXCEPT ![h] = None]}
             /\ UNCHANGED lastId
HubMoves  == \/ UNCHANGED <<providers, creds, lastId>>
             \/ \E h \in Handles : Makes(h) \/ Stores(h) \/ Lists(h) \/ Drops(h)

\* Where the rows after a step come from.
SameRow(h) == /\ creds[h] # None
              /\ creds'[h].id = creds[h].id /\ creds'[h].provider = creds[h].provider
              /\ creds'[h].tools \in {creds[h].tools, "listed"}
NewRow(h)  == creds'[h].id = lastId + 1
RowsCome   == /\ lastId' \in Nat /\ lastId <= lastId'
              /\ \A h \in Handles : creds'[h] # None =>
                    SameRow(h) \/ (creds[h] = None /\ NewRow(h) /\ lastId' = lastId + 1)

LEMMA HubKeepsRows ==
    ASSUME TypeInv, Rows, HubMoves
    PROVE  Rows' /\ RowsCome
  <1> USE McpAssumption DEF McpAssumption
  <1>1. /\ lastId \in Nat
        /\ \A h \in Handles : creds[h] \in Cred \cup {None} /\ providers[h] \in Nat \cup {None}
    BY DEF TypeInv, TypeOK
  <1>2. CASE UNCHANGED <<providers, creds, lastId>>
    BY <1>1, <1>2 DEF Rows, RowsCome, SameRow
  <1>3. ASSUME NEW h \in Handles, Makes(h) PROVE Rows' /\ RowsCome
    <2>1. creds[h] = None
      BY <1>1, <1>3 DEF Makes, Rows, Cred
    <2> QED BY <1>1, <1>3, <2>1 DEF Makes, Rows, RowsCome, SameRow, TypeInv, TypeOK, Cred
  <1>4. ASSUME NEW h \in Handles, Stores(h) PROVE Rows' /\ RowsCome
    <2>1. PICK p \in Nat, t \in Tools :
             Storable(h, p) /\ StoreRow(h, p, t) /\ UNCHANGED providers
      BY <1>4 DEF Stores
    <2>2. /\ creds[h] = None /\ providers[h] = p /\ lastId' = lastId + 1
          /\ creds'[h] = [id |-> lastId + 1, provider |-> p, tools |-> t]
          /\ \A k \in Handles : k # h => creds'[k] = creds[k]
      BY <2>1 DEF Storable, StoreRow, TypeInv, TypeOK
    <2>3. creds'[h].id = lastId + 1 /\ creds'[h].provider = p
      BY <2>2
    <2>4. \A k \in Handles : creds[k] # None => creds[k].id \in Nat
      BY <1>1 DEF Cred
    <2> QED BY <1>1, <2>1, <2>2, <2>3, <2>4 DEF Rows, RowsCome, SameRow, NewRow
  <1>5. ASSUME NEW h \in Handles, Lists(h) PROVE Rows' /\ RowsCome
    <2>1. \A k \in Handles :
             /\ creds'[k] # None => creds[k] # None
             /\ creds[k] # None => /\ creds'[k].id = creds[k].id
                                   /\ creds'[k].provider = creds[k].provider
                                   /\ creds'[k].tools \in {creds[k].tools, "listed"}
      BY <1>1, <1>5 DEF Lists, TypeInv, TypeOK, Cred
    <2> QED BY <1>1, <1>5, <2>1 DEF Lists, Rows, RowsCome, SameRow
  <1>6. ASSUME NEW h \in Handles, Drops(h) PROVE Rows' /\ RowsCome
    BY <1>1, <1>6 DEF Drops, Rows, RowsCome, SameRow, TypeInv, TypeOK
  <1> QED BY <1>2, <1>3, <1>4, <1>5, <1>6 DEF HubMoves

\* What becomes of an operation's credential and target.
SameJob(o) == /\ ops'[o].kind = ops[o].kind /\ ops'[o].handle = ops[o].handle
              /\ ops'[o].tab = ops[o].tab /\ (ops'[o].heard = "all" => ops[o].heard = "all")
Keeps(o) == /\ SameJob(o) /\ ops'[o].target = ops[o].target
            /\ \/ ops'[o].cred = None
               \/ /\ ops'[o].cred = ops[o].cred /\ ops'[o].bench = ops[o].bench
                  /\ ops'[o].at \in WithProvider =>
                        ops[o].at \in WithProvider /\ ops'[o].provider = ops[o].provider
                  /\ ops'[o].at \in LoginSteps =>
                        ops[o].at \in LoginSteps \/ ops[o].cred = None
Takes(o) == /\ SameJob(o) /\ ops'[o].target = ops[o].target
            /\ ops'[o].bench = ops[o].bench /\ ops'[o].provider = ops[o].provider
            /\ ops'[o].cred = lastId + 1 /\ lastId' = lastId + 1
            /\ \A h \in Handles : creds'[h] # None /\ NewRow(h) =>
                  /\ h = Adding(o) /\ creds'[h].provider = ops[o].provider
                  /\ ops'[o].at \in LoginSteps => creds'[h].tools = "bare"
Settles(o) == /\ SameJob(o) /\ ops'[o].target = <<ops[o].cred, ops[o].provider>>
              /\ ops[o].at = "record" /\ ops[o].bench = None /\ Mine(o)
              /\ ops'[o].cred = None
              /\ creds' = [creds EXCEPT ![Adding(o)].tools = "listed"]
              /\ UNCHANGED lastId
Enters(o) == Fresh(o) /\ Begun(ops'[o])

Fails(o) == Adds(o)' /\ ops'[o].at = "failed" /\ ops'[o].heard = "all" =>
               \/ ops'[o] = ops[o]
               \/ ops'[o].cred = None
               \/ \A h \in Handles : creds'[h] # None => creds'[h].id # ops'[o].cred
               \/ /\ ops'[o].kind = "signIn" /\ ops'[o].why = "fault"
                  /\ \A h \in Handles : creds'[h] # None /\ creds'[h].id = ops'[o].cred =>
                        creds'[h].tools = "bare"

Moves(o) == /\ Keeps(o) \/ Takes(o) \/ Settles(o) \/ Enters(o)
            /\ Fails(o)
            /\ \A p \in Ops \ {o} : Keeps(p) /\ Fails(p)

\* A row only goes with its own operation, or with a removal that names it.
Losses ==
    \A h \in Handles : creds[h] # None /\ creds'[h] = None =>
        \E p \in Ops : \/ ops[p].cred = creds[h].id
                       \/ /\ Removes(p)
                          /\ \/ ops[p].target[1] = creds[h].id
                             \/ ops[p].target[2] = creds[h].provider

\* The tools of a row are recorded by the operation it belongs to.
Listing ==
    \A h \in Handles :
        creds[h] # None /\ creds'[h] # None /\ creds'[h].tools # creds[h].tools =>
            \E p \in Ops : ops[p].at = "record" /\ ops[p].cred = creds[h].id

LEMMA MovesOwned ==
    ASSUME TypeInv, TypeInv', Owned, RowsCome, NEW o \in Ops, Moves(o)
    PROVE  Owned'
  <1> USE McpAssumption DEF McpAssumption
  <1>1. lastId \in Nat /\ lastId' \in Nat /\ lastId <= lastId'
    BY DEF RowsCome, TypeInv, TypeOK
  <1>2. \A p \in Ops : /\ ops[p].cred \in Nat \cup {None} /\ ops'[p].cred \in Nat \cup {None}
                       /\ ops[p].target \in (Nat \X Nat) \cup {None}
    BY DEF TypeInv, TypeOK, Op
  <1>3. \A p \in Ops : /\ ops'[p].cred # None => ops'[p].cred \in {ops[p].cred, lastId + 1}
                       /\ ops'[p].cred = lastId + 1 /\ ops'[p].cred # ops[p].cred =>
                            p = o /\ lastId' = lastId + 1
    BY <1>1 DEF Moves, Keeps, Takes, Settles, Enters, Begun
  <1>4. \A p \in Ops : Added(p)' => \/ Added(p) /\ ops'[p].target = ops[p].target
                                    \/ /\ p = o /\ ops'[p].target[1] = ops[p].cred
                                       /\ ops[p].cred \in Nat /\ ops'[p].cred = None
    <2>1. ASSUME Settles(o) PROVE ops'[o].target[1] = ops[o].cred /\ ops[o].cred \in Nat
                                  /\ ops'[o].cred = None
      <3>1. ops[o].cred \in Nat
        BY <2>1 DEF Settles, TypeInv, Places, Placed, WithCred
      <3> QED BY <2>1, <3>1 DEF Settles
    <2>2. ASSUME Enters(o) PROVE ~Added(o)'
      BY <2>2 DEF Enters, Begun, Added, Adds
    <2> QED BY <2>1, <2>2 DEF Moves, Keeps, Takes, Settles, SameJob, Added, Adds
  <1> SUFFICES ASSUME NEW p \in Ops
               PROVE  /\ ops'[p].cred # None => ops'[p].cred <= lastId'
                      /\ Added(p)' => ops'[p].target[1] <= lastId'
                      /\ \A q \in Ops : ops'[q].cred # None =>
                            /\ q # p => ops'[p].cred # ops'[q].cred
                            /\ Added(p)' => ops'[p].target[1] # ops'[q].cred
    BY DEF Owned
  <1>5. ops'[p].cred # None => ops'[p].cred <= lastId'
    BY <1>1, <1>2, <1>3 DEF Owned
  <1>6. Added(p)' => ops'[p].target[1] <= lastId'
    BY <1>1, <1>2, <1>4 DEF Owned, Added
  <1>7. ASSUME NEW q \in Ops, ops'[q].cred # None, q # p
        PROVE  ops'[p].cred # ops'[q].cred
    BY <1>1, <1>2, <1>3, <1>7 DEF Owned
  <1>8. ASSUME NEW q \in Ops, ops'[q].cred # None, Added(p)'
        PROVE  ops'[p].target[1] # ops'[q].cred
    <2>1. CASE Added(p) /\ ops'[p].target = ops[p].target
      BY <1>1, <1>2, <1>3, <1>8, <2>1 DEF Owned, Added
    <2>2. CASE /\ p = o /\ ops'[p].target[1] = ops[p].cred
               /\ ops[p].cred \in Nat /\ ops'[p].cred = None
      BY <1>1, <1>2, <1>3, <1>8, <2>2 DEF Owned
    <2> QED BY <1>4, <1>8, <2>1, <2>2
  <1> QED BY <1>5, <1>6, <1>7, <1>8

LEMMA MovesInPlace ==
    ASSUME TypeInv, TypeInv', Owned, Rows, InPlace, RowsCome, NEW o \in Ops, Moves(o)
    PROVE  InPlace'
  <1> USE McpAssumption DEF McpAssumption
  <1> SUFFICES ASSUME NEW p \in Ops, NEW h \in Handles,
                      creds'[h] # None, ops'[p].cred # None, creds'[h].id = ops'[p].cred
               PROVE  /\ h = Adding(p)'
                      /\ ops'[p].at \in WithProvider => creds'[h].provider = ops'[p].provider
    BY DEF InPlace
  <1>1. lastId \in Nat /\ creds'[h].id \in Nat /\ ops[p].cred \in Nat \cup {None}
    BY DEF TypeInv, TypeOK, Cred, Op
  <1>2. CASE Keeps(p)
    <2>1. /\ ops'[p].cred = ops[p].cred /\ Adding(p)' = Adding(p)
          /\ ops'[p].at \in WithProvider =>
                ops[p].at \in WithProvider /\ ops'[p].provider = ops[p].provider
      BY <1>2 DEF Keeps, SameJob, Adding
    <2>2. ops[p].cred <= lastId
      BY <2>1 DEF Owned
    <2>3. SameRow(h)
      BY <1>1, <2>1, <2>2 DEF RowsCome, NewRow
    <2> QED BY <2>1, <2>3 DEF InPlace, SameRow
  <1>3. CASE Takes(p)
    <2>1. NewRow(h)
      BY <1>3 DEF Takes, NewRow
    <2> QED BY <1>3, <2>1 DEF Takes, SameJob, Adding
  <1>4. ~Settles(p) /\ ~Enters(p)
    BY DEF Settles, Enters, Begun
  <1> QED BY <1>2, <1>3, <1>4 DEF Moves

LEMMA MovesKept ==
    ASSUME TypeInv, TypeInv', Owned, InPlace, Kept, RowsCome, Losses, NEW o \in Ops, Moves(o)
    PROVE  Kept'
  <1> USE McpAssumption DEF McpAssumption
  <1> SUFFICES ASSUME NEW p \in Ops, Added(p)'
               PROVE  \/ /\ creds'[ops'[p].handle] # None
                         /\ creds'[ops'[p].handle].id = ops'[p].target[1]
                         /\ creds'[ops'[p].handle].provider = ops'[p].target[2]
                         /\ creds'[ops'[p].handle].tools = "listed"
                      \/ \E q \in Ops : /\ Removes(q)'
                                        /\ \/ ops'[q].target[1] = ops'[p].target[1]
                                           \/ ops'[q].target[2] = ops'[p].target[2]
    BY DEF Kept
  <1>1. /\ lastId \in Nat /\ ops[p] \in Op /\ ops[p].handle \in Handles
        /\ creds \in [Handles -> Cred \cup {None}]
    BY DEF TypeInv, TypeOK, Op
  <1>2. \A q \in Ops : Removes(q) => Removes(q)' /\ ops'[q].target = ops[q].target
    <2>1. \A q \in Ops : Removes(q) => ~Settles(q) /\ ~Enters(q)
      BY DEF Removes, Settles, Enters, Fresh, TypeInv, Places, Placed, AddSteps
    <2> QED BY <2>1 DEF Moves, Keeps, Takes, SameJob, Removes
  <1>3. CASE Settles(p)
    <2>1. /\ Adding(p) = ops[p].handle /\ creds[ops[p].handle] # None
          /\ creds[ops[p].handle].id = ops[p].cred /\ ops[p].at = "record"
      BY <1>3 DEF Settles, Mine, Adding
    <2>2. ops[p].cred # None /\ ops[p].cred \in Nat
      BY <2>1 DEF TypeInv, Places, Placed, WithCred
    <2>3. creds[ops[p].handle].provider = ops[p].provider
      BY <1>1, <2>1, <2>2 DEF InPlace, WithProvider
    <2>4. /\ creds'[ops[p].handle] # None
          /\ creds'[ops[p].handle].id = ops[p].cred
          /\ creds'[ops[p].handle].provider = ops[p].provider
          /\ creds'[ops[p].handle].tools = "listed"
      <3>1. creds'[ops[p].handle] = [creds[ops[p].handle] EXCEPT !.tools = "listed"]
        BY <1>1, <1>3, <2>1 DEF Settles
      <3>2. creds[ops[p].handle] \in Cred
        BY <1>1, <2>1
      <3>3. creds'[ops[p].handle] \in Cred
        BY <3>1, <3>2 DEF Cred, Tools
      <3> QED BY <2>1, <2>3, <3>1, <3>2, <3>3 DEF Cred
    <2>5. ops'[p].target[1] = ops[p].cred /\ ops'[p].target[2] = ops[p].provider
          /\ ops'[p].handle = ops[p].handle
      BY <1>3 DEF Settles, SameJob
    <2> QED BY <2>4, <2>5
  <1>4. CASE Keeps(p) \/ Takes(p)
    <2>1. /\ Added(p) /\ ops'[p].target = ops[p].target /\ ops'[p].handle = ops[p].handle
          /\ ops[p].target # None
      BY <1>4 DEF Keeps, Takes, SameJob, Added, Adds
    <2>2. CASE \E q \in Ops : /\ Removes(q)
                              /\ \/ ops[q].target[1] = ops[p].target[1]
                                 \/ ops[q].target[2] = ops[p].target[2]
      BY <1>2, <2>1, <2>2
    <2> DEFINE h == ops[p].handle
    <2>3. CASE /\ creds[h] # None /\ creds[h].id = ops[p].target[1]
               /\ creds[h].provider = ops[p].target[2] /\ creds[h].tools = "listed"
      <3>1. CASE creds'[h] = None
        <4>1. PICK q \in Ops : \/ ops[q].cred = creds[h].id
                               \/ /\ Removes(q)
                                  /\ \/ ops[q].target[1] = creds[h].id
                                     \/ ops[q].target[2] = creds[h].provider
          BY <1>1, <2>3, <3>1 DEF Losses
        <4>2. ops[q].cred # creds[h].id
          <5>1. creds[h].id # None
            BY <1>1, <2>3 DEF Cred
          <5> QED BY <2>1, <2>3, <5>1 DEF Owned
        <4> QED BY <1>2, <2>1, <2>3, <4>1, <4>2
      <3>2. CASE creds'[h] # None
        <4>1. SameRow(h)
          BY <1>1, <2>3, <3>2 DEF RowsCome
        <4> QED BY <2>1, <2>3, <3>2, <4>1 DEF SameRow
      <3> QED BY <3>1, <3>2
    <2> QED BY <2>1, <2>2, <2>3 DEF Kept
  <1>5. ~Enters(p)
    BY DEF Enters, Begun, Added, Adds
  <1> QED BY <1>3, <1>4, <1>5 DEF Moves

\* The row of an operation whose record stays keeps its tools, but for that of
\* the recording operation itself.
LEMMA RowsStay ==
    ASSUME TypeInv, Owned, RowsCome, Listing, NEW p \in Ops, ops[p].cred # None,
           ops[p].at # "record", NEW h \in Handles, creds'[h] # None, creds'[h].id = ops[p].cred
    PROVE  creds[h] # None /\ creds[h].id = ops[p].cred /\ creds'[h].tools = creds[h].tools
  <1>1. lastId \in Nat /\ ops[p].cred \in Nat /\ ops[p].cred <= lastId
    BY DEF Owned, TypeInv, TypeOK, Op
  <1>2. SameRow(h)
    BY <1>1 DEF RowsCome, NewRow
  <1>3. \A q \in Ops : ops[q].at = "record" => ops[q].cred # creds[h].id
    BY <1>2 DEF SameRow, Owned
  <1> QED BY <1>2, <1>3 DEF SameRow, Listing

LEMMA MovesLogin ==
    ASSUME TypeInv, TypeInv', Owned, LoginRows, RowsCome, Listing, NEW o \in Ops, Moves(o)
    PROVE  LoginRows'
  <1> SUFFICES ASSUME NEW p \in Ops, NEW h \in Handles, creds'[h] # None, ops'[p].cred # None,
                      creds'[h].id = ops'[p].cred, ops'[p].at \in LoginSteps
               PROVE  creds'[h].tools = "bare"
    BY DEF LoginRows
  <1>1. CASE Keeps(p)
    <2>1. ops'[p].cred = ops[p].cred /\ ops[p].at \in LoginSteps
      BY <1>1 DEF Keeps
    <2>2. creds[h] # None /\ creds[h].id = ops[p].cred /\ creds'[h].tools = creds[h].tools
      BY <2>1, RowsStay DEF LoginSteps
    <2> QED BY <2>1, <2>2 DEF LoginRows
  <1>2. CASE Takes(p)
    BY <1>2 DEF Takes, NewRow
  <1>3. ~Settles(p) /\ ~Enters(p)
    BY DEF Settles, Enters, Begun
  <1> QED BY <1>1, <1>2, <1>3 DEF Moves

LEMMA MovesFail ==
    ASSUME TypeInv, TypeInv', Owned, FailedAddGone, RowsCome, Listing, NEW o \in Ops, Moves(o)
    PROVE  FailedAddGone'
  <1> USE McpAssumption DEF McpAssumption
  <1> SUFFICES ASSUME NEW p \in Ops, Adds(p)', ops'[p].at = "failed", ops'[p].heard = "all",
                      ops'[p].target = None,
                      NEW h \in Handles, creds'[h] # None, creds'[h].id = ops'[p].cred
               PROVE  ops'[p].kind = "signIn" /\ ops'[p].why = "fault" /\ creds'[h].tools = "bare"
    BY DEF FailedAddGone, Adds
  <1>1. creds'[h].id \in Nat
    BY DEF TypeInv, TypeOK, Cred
  <1>2. CASE ops'[p] = ops[p]
    <2>1. creds[h] # None /\ creds[h].id = ops[p].cred /\ creds'[h].tools = creds[h].tools
      BY <1>1, <1>2, RowsStay
    <2> QED BY <1>2, <2>1 DEF FailedAddGone, Adds
  <1>3. CASE ops'[p] # ops[p]
    BY <1>1, <1>3 DEF Moves, Fails
  <1> QED BY <1>2, <1>3

-----------------------------------------------------------------------------
(* Every step is one of those *)

LEMMA OthersMove ==
    ASSUME TypeInv, NEW o \in Ops, NEW r, Becomes(o, r)
    PROVE  ops'[o] = r /\ \A p \in Ops \ {o} : Keeps(p) /\ Fails(p)
  BY DEF Becomes, TypeInv, TypeOK, Keeps, Fails, SameJob

LEMMA ThrowsMoves ==
    ASSUME TypeInv, NEW o \in Ops, NEW why, NEW silent, Throws(o, why, silent),
           ops'[o].heard = "some" \/ ops[o].cred = None
    PROVE  Moves(o)
  <1>1. ops'[o] = Thrown(o, why, silent) /\ \A p \in Ops \ {o} : Keeps(p) /\ Fails(p)
    BY OthersMove DEF Throws
  <1>2. Keeps(o)
    BY <1>1, ThrownFields DEF Keeps, SameJob, WithProvider, LoginSteps
  <1>3. Fails(o)
    BY <1>1, ThrownFields DEF Fails
  <1> QED BY <1>1, <1>2, <1>3 DEF Moves

\* What an unanswered request leaves of an operation.
LEMMA ThrowsHeard ==
    ASSUME TypeInv, NEW o \in Ops, NEW why, NEW silent, Throws(o, why, silent)
    PROVE  /\ silent => ops'[o].heard = "some"
           /\ ops'[o].at = IF ops[o].bench # None /\ ops[o].kind # "deploy" THEN "next" ELSE "failed"
           /\ ops'[o].kind = ops[o].kind
           /\ \A p \in Ops \ {o} : ops'[p] = ops[p]
  <1>1. ops'[o] = Thrown(o, why, silent) /\ \A p \in Ops \ {o} : ops'[p] = ops[p]
    BY DEF Throws, Becomes, TypeInv, TypeOK
  <1> QED BY <1>1, ThrownFields

\* A change that leaves kind, server, target and credential alone.
LEMMA QuietMoves ==
    ASSUME TypeInv, NEW o \in Ops, NEW r, Becomes(o, r), r.at # "failed",
           r.kind = ops[o].kind, r.tab = ops[o].tab, r.handle = ops[o].handle,
           r.target = ops[o].target, r.heard = ops[o].heard,
           \/ r.cred = None
           \/ /\ r.cred = ops[o].cred /\ r.bench = ops[o].bench
              /\ r.at \in WithProvider => ops[o].at \in WithProvider /\ r.provider = ops[o].provider
              /\ r.at \in LoginSteps => ops[o].at \in LoginSteps \/ ops[o].cred = None
    PROVE  Moves(o)
  BY OthersMove DEF Moves, Keeps, Fails, SameJob

LEMMA AtMoves ==
    ASSUME TypeInv, NEW o \in Ops, NEW s \in Steps \cup {"done"}, Becomes(o, At(o, s)),
           s \in WithProvider => ops[o].at \in WithProvider,
           s \in LoginSteps => ops[o].at \in LoginSteps \/ ops[o].cred = None
    PROVE  Moves(o)
  <1>1. /\ At(o, s).at = s
        /\ \A f \in {"kind", "tab", "handle", "heard", "provider", "cred", "target", "bench"} :
              At(o, s)[f] = ops[o][f]
    BY AtFields DEF Ended
  <1> QED BY <1>1, QuietMoves DEF Steps

\* A step on a row: it moves the hub, the operations, and takes no row unduly.
RowStep == HubMoves /\ Losses /\ \E o \in Ops : Moves(o)

LEMMA FindProviderMoves ==
    ASSUME RowInv, NEW o \in Ops, NEW a \in Reads, FindProvider(o, a)
    PROVE  RowStep
  <1> USE DEF RowInv
  <1>1. HubMoves /\ Losses /\ ops[o] \in Op
    BY DEF FindProvider, hub, HubMoves, Losses, TypeInv, TypeOK
  <1>2. ops[o].cred = None /\ ops[o].at = "provider"
    BY DEF FindProvider, TypeInv, Places, Placed, WithCred
  <1>3. CASE a = "ok" /\ providers[Adding(o)] = None
    BY <1>1, <1>2, <1>3, AtMoves DEF FindProvider, RowStep, WithProvider, LoginSteps, Steps
  <1>4. CASE a = "ok" /\ providers[Adding(o)] # None
    <2> DEFINE r == At(o, StoreStep(o))
               s == [r EXCEPT !.provider = providers[Adding(o)]]
    <2>1. Becomes(o, s)
      BY <1>4 DEF FindProvider
    <2>2. r \in Op /\ r.at = StoreStep(o)
          /\ \A f \in {"kind", "tab", "handle", "heard", "cred", "target", "bench"} : r[f] = ops[o][f]
      BY AtFields DEF StoreStep, Steps
    <2> HIDE DEF r
    <2>3. s.cred = None /\ s.at = StoreStep(o)
          /\ \A f \in {"kind", "tab", "handle", "heard", "target"} : s[f] = ops[o][f]
      BY <1>2, <2>2 DEF Op
    <2> HIDE DEF s
    <2> QED BY <1>1, <2>1, <2>3, QuietMoves DEF StoreStep, RowStep
  <1>5. CASE a # "ok"
    BY <1>1, <1>2, <1>5, ThrowsMoves DEF FindProvider, RowStep
  <1> QED BY <1>3, <1>4, <1>5

LEMMA MakeProviderMoves ==
    ASSUME RowInv, NEW o \in Ops, NEW a \in Answers, MakeProvider(o, a)
    PROVE  RowStep
  <1> USE DEF RowInv
  <1> DEFINE free == providers[Adding(o)] = None
  <1>1. ops[o] \in Op /\ Adding(o) \in Handles /\ Losses
    BY McpAssumption DEF McpAssumption, MakeProvider, Losses, Adding, Op, TypeInv, TypeOK
  <1>2. ops[o].cred = None /\ ops[o].at = "make"
    BY DEF MakeProvider, TypeInv, Places, Placed, WithCred
  <1>3. HubMoves
    BY <1>1 DEF MakeProvider, HubMoves, Makes
  <1>4. CASE free /\ a = "ok"
    <2> DEFINE r == At(o, StoreStep(o))
               s == [r EXCEPT !.provider = lastId + 1]
    <2>1. Becomes(o, s)
      BY <1>4 DEF MakeProvider
    <2>2. r \in Op /\ r.at = StoreStep(o)
          /\ \A f \in {"kind", "tab", "handle", "heard", "cred", "target", "bench"} : r[f] = ops[o][f]
      BY AtFields DEF StoreStep, Steps
    <2> HIDE DEF r
    <2>3. s.cred = None /\ s.at = StoreStep(o)
          /\ \A f \in {"kind", "tab", "handle", "heard", "target"} : s[f] = ops[o][f]
      BY <1>2, <2>2 DEF Op
    <2> HIDE DEF s
    <2> QED BY <1>1, <1>3, <2>1, <2>3, QuietMoves DEF StoreStep, RowStep
  <1>5. CASE ~(free /\ a = "ok")
    <2>1. Throws(o, IF a = "ok" THEN "conflict" ELSE "fault", Silent(a))
      BY <1>5 DEF MakeProvider
    <2>2. Moves(o)
      BY <1>2, <2>1, ThrowsMoves
    <2> QED BY <1>1, <1>3, <2>2 DEF RowStep
  <1> QED BY <1>4, <1>5

LEMMA StoreMoves ==
    ASSUME RowInv, NEW o \in Ops, NEW a \in Answers, Store(o, a)
    PROVE  RowStep
  <1> USE DEF RowInv
  <1> DEFINE h == Adding(o)
             p == ops[o].provider
  <1>1. ops[o] \in Op /\ h \in Handles /\ lastId \in Nat /\ creds \in [Handles -> Cred \cup {None}]
    BY McpAssumption DEF McpAssumption, Adding, Op, TypeInv, TypeOK
  <1>2. ops[o].cred = None /\ ops[o].at = "store" /\ p \in Nat
    BY DEF Store, TypeInv, Places, Placed, WithCred, WithProvider
  <1>3. HubMoves
    <2>1. CASE Storable(h, p) /\ Handled(a)
      <3>1. Storable(h, p) /\ StoreRow(h, p, "unlisted") /\ UNCHANGED providers
        BY <2>1 DEF Store
      <3>2. Stores(h)
        BY <1>2, <3>1 DEF Stores, Tools
      <3> QED BY <1>1, <3>2 DEF HubMoves
    <2> QED BY <2>1 DEF Store, HubMoves
  <1>4. Losses
    BY <1>1 DEF Store, StoreRow, Storable, Losses
  <1>5. CASE Storable(h, p) /\ a = "ok"
    <2> DEFINE r == At(o, "discover")
               s == [r EXCEPT !.cred = lastId + 1]
    <2>1. Becomes(o, s) /\ StoreRow(h, p, "unlisted")
      BY <1>5 DEF Store, Handled
    <2>2. r \in Op /\ r.at = "discover"
          /\ \A f \in {"kind", "tab", "handle", "heard", "provider", "target", "bench"} : r[f] = ops[o][f]
      BY AtFields DEF Steps
    <2> HIDE DEF r
    <2>3. s.cred = lastId + 1 /\ s.at = "discover"
          /\ \A f \in {"kind", "tab", "handle", "heard", "provider", "target", "bench"} : s[f] = ops[o][f]
      BY <2>2 DEF Op
    <2> HIDE DEF s
    <2>4. lastId' = lastId + 1 /\ \A k \in Handles : creds'[k] # None /\ NewRow(k) =>
             k = h /\ creds'[k].provider = p
      <3>1. \A k \in Handles : k # h => creds'[k] = creds[k]
        BY <1>1, <2>1 DEF StoreRow
      <3>2. creds'[h].provider = p /\ lastId' = lastId + 1
        BY <1>1, <2>1 DEF StoreRow
      <3>3. \A k \in Handles : creds[k] # None => creds[k].id <= lastId /\ creds[k].id \in Nat
        BY <1>1 DEF Rows, Cred
      <3> QED BY <1>1, <3>1, <3>2, <3>3 DEF NewRow
    <2>5. ops'[o] = s /\ \A q \in Ops \ {o} : Keeps(q) /\ Fails(q)
      BY <2>1, OthersMove
    <2>6. Takes(o) /\ Fails(o)
      BY <2>3, <2>4, <2>5 DEF Takes, SameJob, Fails, LoginSteps
    <2> QED BY <1>3, <1>4, <2>5, <2>6 DEF RowStep, Moves
  <1>6. CASE ~(Storable(h, p) /\ a = "ok")
    <2>1. Throws(o, IF a = "ok" THEN "conflict" ELSE "fault", Silent(a))
      BY <1>6 DEF Store
    <2>2. Moves(o)
      BY <1>2, <2>1, ThrowsMoves
    <2> QED BY <1>3, <1>4, <2>2 DEF RowStep
  <1> QED BY <1>5, <1>6

LEMMA OpenLoginMoves ==
    ASSUME RowInv, NEW o \in Ops, NEW a \in Reads, OpenLogin(o, a)
    PROVE  RowStep
  <1> USE DEF RowInv
  <1>1. HubMoves /\ Losses
    BY DEF OpenLogin, hub, HubMoves, Losses
  <1>2. ops[o].cred = None /\ ops[o].at = "login"
    BY DEF OpenLogin, TypeInv, Places, Placed, WithCred
  <1>3. CASE a = "ok"
    BY <1>1, <1>2, <1>3, AtMoves DEF OpenLogin, RowStep, WithProvider, LoginSteps, Steps
  <1>4. CASE a # "ok"
    BY <1>1, <1>2, <1>4, ThrowsMoves DEF OpenLogin, RowStep
  <1> QED BY <1>3, <1>4

LEMMA LoginCompletesMoves ==
    ASSUME RowInv, NEW l \in logins, LoginCompletes(l)
    PROVE  RowStep
  <1> USE DEF RowInv
  <1> DEFINE o == l.op
             h == ops[o].handle
             p == l.provider
  <1>1. /\ o \in Ops /\ ops[o] \in Op /\ h \in Handles /\ p \in Nat
        /\ lastId \in Nat /\ creds \in [Handles -> Cred \cup {None}]
    BY DEF TypeInv, TypeOK, Op
  <1>2. Storable(h, p) /\ StoreRow(h, p, "bare") /\ UNCHANGED providers
    BY DEF LoginCompletes
  <1>3. HubMoves
    <2>1. Stores(h)
      BY <1>1, <1>2 DEF Stores, Tools
    <2> QED BY <1>1, <2>1 DEF HubMoves
  <1>4. Losses
    BY <1>1, <1>2 DEF StoreRow, Storable, Losses
  <1>5. ops[o].at \in {"waiting", "failed", "gone"}
    BY DEF LoginsWait
  <1>6. CASE Running(o)
    <2> DEFINE s == [ops[o] EXCEPT !.cred = lastId + 1]
    <2>1. Becomes(o, s)
      BY <1>6 DEF LoginCompletes
    <2>2. /\ ops[o].at = "waiting" /\ ops[o].provider = p /\ ops[o].bench = None
      BY <1>1, <1>5, <1>6 DEF Running, Ended, LoginsWait, TypeInv, Places, Placed, LoginSteps
    <2>3. s.cred = lastId + 1
          /\ \A f \in {"kind", "tab", "at", "handle", "heard", "provider", "target", "bench"} : s[f] = ops[o][f]
      BY <1>1 DEF Op
    <2> HIDE DEF s
    <2>4. lastId' = lastId + 1 /\ \A k \in Handles : creds'[k] # None /\ NewRow(k) =>
             k = h /\ creds'[k].provider = p /\ creds'[k].tools = "bare"
      <3>1. \A k \in Handles : k # h => creds'[k] = creds[k]
        BY <1>1, <1>2 DEF StoreRow
      <3>2. creds'[h].provider = p /\ lastId' = lastId + 1 /\ creds'[h].tools = "bare"
        BY <1>1, <1>2 DEF StoreRow
      <3>3. \A k \in Handles : creds[k] # None => creds[k].id <= lastId /\ creds[k].id \in Nat
        BY <1>1 DEF Rows, Cred
      <3> QED BY <1>1, <3>1, <3>2, <3>3 DEF NewRow
    <2>5. ops'[o] = s /\ \A q \in Ops \ {o} : Keeps(q) /\ Fails(q)
      BY <1>1, <2>1, OthersMove
    <2>6. Takes(o) /\ Fails(o)
      BY <2>2, <2>3, <2>4, <2>5 DEF Takes, SameJob, Fails, Adding
    <2> QED BY <1>1, <1>3, <1>4, <2>5, <2>6 DEF RowStep, Moves
  <1>7. CASE ~Running(o)
    <2>1. Becomes(o, ops[o])
      BY <1>7 DEF LoginCompletes
    <2>2. ops'[o] = ops[o] /\ \A q \in Ops \ {o} : Keeps(q) /\ Fails(q)
      BY <1>1, <2>1, OthersMove
    <2> QED BY <1>1, <1>3, <1>4, <2>2 DEF RowStep, Moves, Keeps, Fails, SameJob
  <1> QED BY <1>6, <1>7

\* A sign-in that fails on a read leaves at most the login's own row.
LEMMA LoginThrows ==
    ASSUME RowInv, NEW o \in Ops, ops[o].at \in LoginSteps, Throws(o, "fault", FALSE), UNCHANGED creds
    PROVE  Moves(o)
  <1> DEFINE r == Thrown(o, "fault", FALSE)
  <1>1. Becomes(o, r)
    BY DEF Throws
  <1>2. ops[o].kind = "signIn" /\ ops[o].bench = None
    BY DEF RowInv, TypeInv, Places, Placed
  <1>3. /\ r.kind = "signIn" /\ r.why = "fault" /\ r.at = "failed"
        /\ \A f \in {"handle", "tab", "target", "heard", "bench", "cred"} : r[f] = ops[o][f]
    BY <1>2 DEF Thrown, RowInv, TypeInv, TypeOK, Op
  <1> HIDE DEF r
  <1>4. ops'[o] = r /\ \A p \in Ops \ {o} : Keeps(p) /\ Fails(p)
    BY <1>1, OthersMove DEF RowInv
  <1>5. Fails(o)
    <2>1. ops'[o].kind = "signIn" /\ ops'[o].why = "fault" /\ ops'[o].cred = ops[o].cred
      BY <1>3, <1>4
    <2>2. CASE ops[o].cred # None
      <3>1. \A h \in Handles : creds'[h] # None /\ creds'[h].id = ops'[o].cred => creds'[h].tools = "bare"
        BY <2>1, <2>2 DEF RowInv, LoginRows
      <3> QED BY <2>1, <3>1 DEF Fails
    <2> QED BY <2>1, <2>2 DEF Fails
  <1>6. Keeps(o)
    BY <1>2, <1>3, <1>4 DEF Keeps, SameJob, WithProvider, LoginSteps
  <1> QED BY <1>4, <1>5, <1>6 DEF Moves

LEMMA PollMoves ==
    ASSUME RowInv, NEW o \in Ops, NEW a \in Reads, Poll(o, a)
    PROVE  RowStep
  <1> USE DEF RowInv
  <1>1. HubMoves /\ Losses
    BY DEF Poll, hub, HubMoves, Losses
  <1>2. CASE a = "ok" /\ ops[o].cred # None
    BY <1>1, <1>2, AtMoves DEF Poll, RowStep, WithProvider, LoginSteps, Steps
  <1>3. CASE a = "ok" /\ ops[o].cred = None
    BY <1>1, <1>3, ThrowsMoves DEF Poll, RowStep
  <1>4. CASE a # "ok"
    <2>1. Throws(o, "fault", FALSE) /\ ops[o].at \in LoginSteps /\ UNCHANGED creds
      BY <1>4 DEF Poll, LoginSteps, hub
    <2> QED BY <1>1, <2>1, LoginThrows DEF RowStep
  <1> QED BY <1>2, <1>3, <1>4

LEMMA ReadCredentialMoves ==
    ASSUME RowInv, NEW o \in Ops, NEW a \in Reads, ReadCredential(o, a)
    PROVE  RowStep
  <1> USE DEF RowInv
  <1>1. HubMoves /\ Losses
    BY DEF ReadCredential, hub, HubMoves, Losses
  <1>2. CASE a = "ok"
    BY <1>1, <1>2, AtMoves DEF ReadCredential, RowStep, WithProvider, LoginSteps, Steps
  <1>3. CASE a # "ok"
    <2>1. Throws(o, "fault", FALSE) /\ ops[o].at \in LoginSteps /\ UNCHANGED creds
      BY <1>3 DEF ReadCredential, LoginSteps, hub
    <2> QED BY <1>1, <2>1, LoginThrows DEF RowStep
  <1> QED BY <1>2, <1>3

LEMMA DiscoverMoves ==
    ASSUME RowInv, NEW o \in Ops, NEW answered, Discover(o, answered)
    PROVE  RowStep
  BY AtMoves DEF RowInv, Discover, hub, HubMoves, Losses, RowStep, WithProvider, LoginSteps, Steps

LEMMA RecordMoves ==
    ASSUME RowInv, NEW o \in Ops, NEW a \in Answers, Record(o, a)
    PROVE  RowStep
  <1> USE DEF RowInv
  <1>1. ops[o] \in Op /\ Adding(o) \in Handles /\ creds \in [Handles -> Cred \cup {None}]
        /\ ops[o].at = "record"
    BY McpAssumption DEF McpAssumption, Adding, Record, Op, TypeInv, TypeOK
  <1>2. HubMoves
    <2>1. CASE Mine(o) /\ Handled(a)
      <3>1. Lists(Adding(o))
        BY <2>1 DEF Record, Lists, Mine
      <3> QED BY <1>1, <3>1 DEF HubMoves
    <2> QED BY <2>1 DEF Record, HubMoves
  <1>3. Losses
    <2>1. \A c \in Cred : [c EXCEPT !.tools = "listed"] # None
      <3>1. \A c \in Cred : [c EXCEPT !.tools = "listed"] \in Cred
        BY DEF Cred, Tools
      <3> QED BY <3>1, McpAssumption DEF McpAssumption
    <2>2. CASE Mine(o) /\ Handled(a)
      BY <1>1, <2>1, <2>2 DEF Record, Losses
    <2> QED BY <2>2 DEF Record, Losses
  <1>4. CASE Silent(a)
    <2>1. Throws(o, "fault", TRUE)
      BY <1>4 DEF Record, Silent
    <2> QED BY <1>2, <1>3, <2>1, ThrowsHeard, ThrowsMoves DEF RowStep
  <1>5. CASE ~Silent(a) /\ a = "ok" /\ Mine(o)
    <2>1. Becomes(o, Recorded(o)) /\ creds' = [creds EXCEPT ![Adding(o)].tools = "listed"]
      BY <1>5 DEF Record, Handled
    <2>2. ops'[o] = Recorded(o) /\ \A q \in Ops \ {o} : Keeps(q) /\ Fails(q)
      BY <2>1, OthersMove
    <2>3. CASE ops[o].bench = None
      <3>1. ops'[o].at = "benches" /\ ops'[o].cred = None
            /\ ops'[o].target = <<ops[o].cred, ops[o].provider>> /\ SameJob(o)
        BY <1>1, <2>2, <2>3, RecordedTyped DEF SameJob, Told
      <3>2. Settles(o) /\ Fails(o)
        BY <1>1, <1>5, <2>1, <2>3, <3>1 DEF Record, Settles, Fails
      <3> QED BY <1>2, <1>3, <2>2, <3>2 DEF RowStep, Moves
    <2>4. CASE ops[o].bench # None
      <3>1. ops'[o].at = "install" /\ ops'[o].cred = ops[o].cred /\ ops'[o].bench = ops[o].bench
            /\ ops'[o].target = ops[o].target /\ SameJob(o)
        BY <1>1, <2>2, <2>4, RecordedTyped DEF SameJob, Told
      <3>2. Keeps(o) /\ Fails(o)
        BY <3>1 DEF Keeps, Fails, WithProvider, LoginSteps
      <3> QED BY <1>2, <1>3, <2>2, <3>2 DEF RowStep, Moves
    <2> QED BY <2>3, <2>4
  <1>6. CASE ~Silent(a) /\ ~(a = "ok" /\ Mine(o))
    <2>1. Becomes(o, At(o, "undo"))
      BY <1>6 DEF Record
    <2>2. Moves(o)
      BY <1>1, <2>1, AtMoves DEF WithProvider, LoginSteps, Steps
    <2> QED BY <1>2, <1>3, <2>2 DEF RowStep
  <1> QED BY <1>4, <1>5, <1>6

\* A refused or unanswered undo shows; an accepted one leaves no row.
LEMMA UndoMoves ==
    ASSUME RowInv, NEW o \in Ops, NEW a \in Answers, Undo(o, a)
    PROVE  RowStep
  <1> USE DEF RowInv
  <1>1. ops[o] \in Op /\ Adding(o) \in Handles /\ creds \in [Handles -> Cred \cup {None}]
        /\ ops[o].at = "undo"
    BY McpAssumption DEF McpAssumption, Adding, Undo, Op, TypeInv, TypeOK
  <1>2. HubMoves
    <2>1. CASE Mine(o) /\ Handled(a)
      <3>1. Drops(Adding(o))
        BY <2>1 DEF Undo, Drops
      <3> QED BY <1>1, <3>1 DEF HubMoves
    <2> QED BY <2>1 DEF Undo, HubMoves
  <1>3. Losses
    <2>1. CASE Mine(o) /\ Handled(a)
      <3>1. creds[Adding(o)].id = ops[o].cred /\ creds' = [creds EXCEPT ![Adding(o)] = None]
        BY <2>1 DEF Undo, Mine
      <3> QED BY <1>1, <3>1 DEF Losses
    <2> QED BY <2>1 DEF Undo, Losses
  <1>4. Throws(o, "unreachable", a # "ok")
    BY DEF Undo
  <1>5. ops'[o] = Thrown(o, "unreachable", a # "ok") /\ \A q \in Ops \ {o} : Keeps(q) /\ Fails(q)
    BY <1>4, OthersMove DEF Throws
  <1>6. Keeps(o)
    BY <1>5, ThrownFields DEF Keeps, SameJob, WithProvider, LoginSteps
  <1>7. Fails(o)
    <2>1. CASE a = "ok"
      <3>1. \A h \in Handles : creds'[h] # None => creds'[h].id # ops[o].cred
        <4>1. ops[o].cred # None
          BY <1>1, McpAssumption DEF McpAssumption, TypeInv, Places, Placed, WithCred
        <4>2. \A h \in Handles : creds[h] # None /\ creds[h].id = ops[o].cred => h = Adding(o)
          BY <4>1 DEF InPlace
        <4> QED BY <1>1, <2>1, <4>2 DEF Undo, Mine, Handled
      <3>2. ops'[o].cred = ops[o].cred \/ ops'[o].cred = None
        BY <1>5, ThrownFields
      <3> QED BY <3>1, <3>2 DEF Fails
    <2>2. CASE a # "ok"
      <3>1. ops'[o].heard = "some"
        BY <2>2, <1>4, ThrowsHeard
      <3> QED BY <3>1 DEF Fails
    <2> QED BY <2>1, <2>2
  <1> QED BY <1>2, <1>3, <1>5, <1>6, <1>7 DEF RowStep, Moves

LEMMA DropCredentialMoves ==
    ASSUME RowInv, NEW o \in Ops, NEW a \in Answers, DropCredential(o, a)
    PROVE  RowStep
  <1> USE DEF RowInv
  <1>1. /\ ops[o] \in Op /\ ops[o].handle \in Handles /\ ops[o].at = "drop"
        /\ creds \in [Handles -> Cred \cup {None}]
    BY DEF DropCredential, Op, TypeInv, TypeOK
  <1>2. ops[o].cred = None /\ Removes(o)
    BY <1>1 DEF TypeInv, Places, Placed, WithCred, Removes
  <1>3. HubMoves
    <2>1. CASE Target(o) /\ Handled(a)
      <3>1. Drops(ops[o].handle)
        BY <2>1 DEF DropCredential, Drops
      <3> QED BY <1>1, <3>1 DEF HubMoves
    <2> QED BY <2>1 DEF DropCredential, HubMoves
  <1>4. Losses
    <2>1. CASE Target(o) /\ Handled(a)
      <3>1. creds[ops[o].handle].id = ops[o].target[1]
            /\ creds' = [creds EXCEPT ![ops[o].handle] = None]
        BY <2>1 DEF DropCredential, Target
      <3> QED BY <1>1, <1>2, <3>1 DEF Losses
    <2> QED BY <2>1 DEF DropCredential, Losses
  <1>5. CASE Target(o) /\ a = "ok"
    BY <1>1, <1>3, <1>4, <1>5, AtMoves DEF DropCredential, RowStep, WithProvider, LoginSteps, Steps
  <1>6. CASE ~(Target(o) /\ a = "ok")
    <2>1. Throws(o, IF a = "ok" THEN "conflict" ELSE "fault", Silent(a))
      BY <1>6 DEF DropCredential
    <2> QED BY <1>2, <1>3, <1>4, <2>1, ThrowsMoves DEF RowStep
  <1> QED BY <1>5, <1>6

LEMMA DropProviderMoves ==
    ASSUME RowInv, NEW o \in Ops, NEW a \in Answers, DropProvider(o, a)
    PROVE  RowStep
  <1> USE DEF RowInv
  <1> DEFINE h == ops[o].handle
  <1>1. /\ ops[o] \in Op /\ h \in Handles /\ ops[o].at = "dropProvider"
        /\ creds \in [Handles -> Cred \cup {None}]
    BY DEF DropProvider, Op, TypeInv, TypeOK
  <1>2. ops[o].cred = None /\ Removes(o)
    BY <1>1 DEF TypeInv, Places, Placed, WithCred, Removes
  <1>3. HubMoves /\ Losses
    <2>1. CASE Handled(a) /\ providers[h] = ops[o].target[2]
      <3>1. /\ providers' = [providers EXCEPT ![h] = None]
            /\ creds' = [creds EXCEPT ![h] = None] /\ UNCHANGED lastId
        BY <2>1 DEF DropProvider
      <3>2. Drops(h)
        BY <3>1 DEF Drops
      <3>3. creds[h] # None => creds[h].provider = ops[o].target[2]
        BY <1>1, <2>1 DEF Rows
      <3> QED BY <1>1, <1>2, <3>1, <3>2, <3>3 DEF HubMoves, Losses
    <2>2. CASE ~(Handled(a) /\ providers[h] = ops[o].target[2])
      BY <2>2 DEF DropProvider, HubMoves, Losses
    <2> QED BY <2>1, <2>2
  <1>4. CASE Silent(a)
    <2>1. Throws(o, "fault", TRUE)
      BY <1>4 DEF DropProvider
    <2> QED BY <1>2, <1>3, <2>1, ThrowsMoves DEF RowStep
  <1>5. CASE ~Silent(a)
    BY <1>1, <1>3, <1>5, AtMoves DEF DropProvider, RowStep, WithProvider, LoginSteps, Steps
  <1> QED BY <1>4, <1>5

LEMMA ListBenchesMoves ==
    ASSUME RowInv, NEW o \in Ops, NEW a \in Reads, ListBenches(o, a)
    PROVE  RowStep
  <1> USE DEF RowInv
  <1>1. HubMoves /\ Losses
    BY DEF ListBenches, hub, HubMoves, Losses
  <1>2. ops[o].cred = None /\ ops[o].at = "benches"
    BY DEF ListBenches, TypeInv, Places, Placed, WithCred
  <1>3. CASE a = "ok"
    <2> DEFINE r == At(o, "next")
               s == [r EXCEPT !.todo = Benches]
    <2>1. Becomes(o, s)
      BY <1>3 DEF ListBenches
    <2>2. r \in Op /\ r.at = "next"
          /\ \A f \in {"kind", "tab", "handle", "heard", "cred", "target", "bench"} : r[f] = ops[o][f]
      BY AtFields DEF Steps
    <2> HIDE DEF r
    <2>3. s.cred = None /\ s.at = "next"
          /\ \A f \in {"kind", "tab", "handle", "heard", "target"} : s[f] = ops[o][f]
      BY <1>2, <2>2 DEF Op
    <2> HIDE DEF s
    <2> QED BY <1>1, <2>1, <2>3, QuietMoves DEF RowStep
  <1>4. CASE a # "ok"
    BY <1>1, <1>2, <1>4, ThrowsMoves DEF ListBenches, RowStep
  <1> QED BY <1>3, <1>4

LEMMA NextBenchMoves ==
    ASSUME RowInv, NEW o \in Ops, NEW b \in Benches, NEW a \in Reads, NextBench(o, b, a)
    PROVE  RowStep
  <1> USE DEF RowInv
  <1> DEFINE r == [ops[o] EXCEPT !.todo = @ \ {b}]
             s == [r EXCEPT !.failed = @ \cup {b}]
             q == [r EXCEPT !.at = "queued", !.bench = b]
  <1>1. HubMoves /\ Losses
    BY DEF NextBench, hub, HubMoves, Losses
  <1>2. ops[o].cred = None /\ ops[o].at = "next" /\ ops[o] \in Op
    BY DEF NextBench, TypeInv, TypeOK, Places, Placed, WithCred
  <1>3. Becomes(o, s) \/ Becomes(o, r) \/ Becomes(o, q)
    BY DEF NextBench
  <1>4. r \in Op /\ r.cred = None /\ r.at = "next"
        /\ \A f \in {"kind", "tab", "handle", "heard", "target"} : r[f] = ops[o][f]
    BY <1>2 DEF Op
  <1> HIDE DEF r
  <1>5. /\ s.cred = None /\ s.at = "next"
        /\ \A f \in {"kind", "tab", "handle", "heard", "target"} : s[f] = ops[o][f]
    BY <1>4 DEF Op
  <1>6. /\ q.cred = None /\ q.at = "queued"
        /\ \A f \in {"kind", "tab", "handle", "heard", "target"} : q[f] = ops[o][f]
    BY <1>4 DEF Op
  <1> HIDE DEF s, q
  <1>7. Moves(o)
    BY <1>3, <1>4, <1>5, <1>6, QuietMoves
  <1> QED BY <1>1, <1>7 DEF RowStep

LEMMA FinishMoves ==
    ASSUME RowInv, NEW o \in Ops, Finish(o)
    PROVE  RowStep
  BY AtMoves DEF RowInv, Finish, hub, HubMoves, Losses, RowStep, WithProvider, LoginSteps, Steps

LEMMA EnsureBuiltInMoves ==
    ASSUME RowInv, NEW o \in Ops, NEW a \in Reads, EnsureBuiltIn(o, a)
    PROVE  RowStep
  <1> USE DEF RowInv
  <1> DEFINE r == [ops[o] EXCEPT !.view = Catalogue]
  <1>1. HubMoves /\ Losses
    BY DEF EnsureBuiltIn, hub, HubMoves, Losses
  <1>2. ops[o].cred = None /\ ops[o].at = "queued" /\ ops[o] \in Op
    BY DEF EnsureBuiltIn, TypeInv, TypeOK, Places, Placed, WithCred
  <1>3. \/ Throws(o, "fault", FALSE)
        \/ \E s \in {"install", "provider"} : Becomes(o, [r EXCEPT !.at = s])
    BY DEF EnsureBuiltIn
  <1>4. r \in Op /\ r.cred = None
        /\ \A f \in {"kind", "tab", "handle", "heard", "target"} : r[f] = ops[o][f]
    BY <1>2, CatalogueTyped DEF Op
  <1> HIDE DEF r
  <1>5. ASSUME NEW s \in {"install", "provider"}, Becomes(o, [r EXCEPT !.at = s])
        PROVE  Moves(o)
    <2> DEFINE q == [r EXCEPT !.at = s]
    <2>1. q.cred = None /\ q.at = s /\ \A f \in {"kind", "tab", "handle", "heard", "target"} : q[f] = ops[o][f]
      BY <1>4 DEF Op
    <2>2. Becomes(o, q)
      BY <1>5
    <2> HIDE DEF q
    <2> QED BY <2>1, <2>2, QuietMoves
  <1>6. Moves(o)
    BY <1>2, <1>3, <1>5, ThrowsMoves
  <1> QED BY <1>1, <1>6 DEF RowStep

LEMMA InstallMoves ==
    ASSUME RowInv, NEW o \in Ops, NEW a \in Answers, Install(o, a)
    PROVE  RowStep
  <1> USE DEF RowInv
  <1>1. HubMoves /\ Losses
    BY DEF Install, HubMoves, Losses
  <1>2. ops[o].at = "install" /\ ops[o] \in Op /\ Placed(ops[o])
    BY DEF Install, TypeInv, TypeOK, Places
  <1>3. ASSUME NEW s \in {"done", "next"}
        PROVE  LET c == Cleared(At(o, s)) IN
               /\ c \in Op /\ c.at = s /\ c.cred = None
               /\ \A f \in {"kind", "tab", "handle", "heard", "target"} : c[f] = ops[o][f]
    <2> DEFINE r == At(o, s)
    <2>1. r \in Op /\ r.at = s
          /\ \A f \in {"kind", "tab", "handle", "heard", "target"} : r[f] = ops[o][f]
      BY AtFields DEF Steps, Ended
    <2> HIDE DEF r
    <2>2. LET c == Cleared(r) IN
          /\ c \in Op /\ c.at = s /\ c.cred = None
          /\ \A f \in {"kind", "tab", "handle", "heard", "target"} : c[f] = ops[o][f]
      BY <2>1 DEF Cleared, Op
    <2> QED BY <2>2 DEF r
  <1>4. CASE a = "ok" /\ ops[o].kind = "deploy"
    BY <1>1, <1>3, <1>4, QuietMoves DEF Install, RowStep
  <1>5. CASE a = "ok" /\ ops[o].kind # "deploy"
    <2> DEFINE c == Cleared(At(o, "next"))
               s == [c EXCEPT !.bench = None]
    <2>1. Becomes(o, s)
      BY <1>5 DEF Install
    <2>2. c \in Op /\ c.at = "next" /\ c.cred = None
          /\ \A f \in {"kind", "tab", "handle", "heard", "target"} : c[f] = ops[o][f]
      BY <1>3
    <2> HIDE DEF c
    <2>3. s.at = "next" /\ s.cred = None
          /\ \A f \in {"kind", "tab", "handle", "heard", "target"} : s[f] = ops[o][f]
      BY <2>2 DEF Op
    <2> HIDE DEF s
    <2> QED BY <1>1, <2>1, <2>3, QuietMoves DEF RowStep
  <1>6. CASE a # "ok"
    <2>1. Throws(o, "fault", Silent(a))
      BY <1>6 DEF Install
    <2>2. Keeps(o) /\ \A p \in Ops \ {o} : Keeps(p) /\ Fails(p)
      BY <2>1, OthersMove, ThrownFields DEF Throws, Keeps, SameJob, WithProvider, LoginSteps
    <2>3. Fails(o)
      <3>1. ops[o].bench # None
        BY <1>2 DEF Placed
      <3> QED BY <2>1, <3>1, ThrowsHeard DEF Fails, Adds
    <2> QED BY <1>1, <2>2, <2>3 DEF RowStep, Moves
  <1> QED BY <1>4, <1>5, <1>6

LEMMA LoginFailsMoves ==
    ASSUME RowInv, NEW l \in logins, LoginFails(l)
    PROVE  RowStep
  <1>1. l.op \in Ops
    BY DEF RowInv, TypeInv, TypeOK
  <1>2. \A p \in Ops : Keeps(p) /\ Fails(p)
    BY DEF LoginFails, Keeps, Fails, SameJob
  <1> QED BY <1>1, <1>2 DEF LoginFails, hub, HubMoves, Losses, RowStep, Moves

LEMMA ReloadMoves ==
    ASSUME RowInv, NEW t \in Tabs, Reload(t)
    PROVE  RowStep
  <1>1. ops' = [o \in Ops |-> IF ops[o].tab = t /\ Running(o) THEN Stopped(o) ELSE ops[o]]
    BY DEF Reload, Stopped
  <1>2. ASSUME NEW p \in Ops PROVE Keeps(p) /\ Fails(p)
    <2>1. CASE ops[p].tab = t /\ Running(p)
      BY <1>1, <2>1, StoppedTyped DEF RowInv, Keeps, Fails, SameJob
    <2>2. CASE ~(ops[p].tab = t /\ Running(p))
      BY <1>1, <2>2 DEF Keeps, Fails, SameJob
    <2> QED BY <2>1, <2>2
  <1>3. \E o \in Ops : TRUE
    BY DEF Reload
  <1> QED BY <1>2, <1>3 DEF Reload, hub, HubMoves, Losses, RowStep, Moves

LEMMA StartMoves ==
    ASSUME RowInv, NEW o \in Ops, Start(o)
    PROVE  RowStep
  <1>1. PICK r : Begun(r) /\ Begins(o, r)
    BY StartBegins DEF RowInv
  <1>2. ops'[o] = r /\ \A p \in Ops \ {o} : Keeps(p) /\ Fails(p)
    BY <1>1, OthersMove DEF RowInv, Begins
  <1>3. Enters(o) /\ Fails(o)
    BY <1>1, <1>2 DEF Enters, Begins, Begun, Fails
  <1>4. HubMoves /\ Losses
    BY DEF Start, StartAdd, StartRemove, StartDeploy, hub, HubMoves, Losses
  <1> QED BY <1>2, <1>3, <1>4 DEF RowStep, Moves

LEMMA NextRows ==
    ASSUME RowInv, Next
    PROVE  TypeInv' /\ RowStep
  <1>1. ASSUME NEW o \in Ops, Start(o) PROVE TypeInv' /\ RowStep
    BY <1>1, StartTyped, StartMoves DEF RowInv
  <1>2. ASSUME NEW o \in Ops, Step(o) PROVE TypeInv' /\ RowStep
    <2>1. ASSUME NEW a \in Answers, MakeProvider(o, a) \/ Store(o, a) \/ Record(o, a) \/ Undo(o, a)
          PROVE  TypeInv' /\ RowStep
      BY <2>1, MakeProviderTyped, StoreTyped, RecordTyped, UndoTyped,
         MakeProviderMoves, StoreMoves, RecordMoves, UndoMoves DEF RowInv
    <2>2. ASSUME NEW a \in Answers, DropCredential(o, a) \/ DropProvider(o, a) \/ Install(o, a)
          PROVE  TypeInv' /\ RowStep
      BY <2>2, DropTyped, InstallTyped, DropCredentialMoves, DropProviderMoves, InstallMoves
         DEF RowInv
    <2>3. ASSUME NEW a \in Reads,
                 FindProvider(o, a) \/ OpenLogin(o, a) \/ Poll(o, a) \/ ReadCredential(o, a)
          PROVE  TypeInv' /\ RowStep
      BY <2>3, FindProviderTyped, OpenLoginTyped, PollTyped, ReadCredentialTyped,
         FindProviderMoves, OpenLoginMoves, PollMoves, ReadCredentialMoves DEF RowInv
    <2>4. ASSUME NEW a \in Reads,
                 ListBenches(o, a) \/ EnsureBuiltIn(o, a) \/ \E b \in Benches : NextBench(o, b, a)
          PROVE  TypeInv' /\ RowStep
      BY <2>4, ListBenchesTyped, EnsureBuiltInTyped, NextBenchTyped,
         ListBenchesMoves, EnsureBuiltInMoves, NextBenchMoves DEF RowInv
    <2>5. ASSUME (\E answered \in BOOLEAN : Discover(o, answered)) \/ Finish(o)
          PROVE  TypeInv' /\ RowStep
      BY <2>5, DiscoverTyped, FinishTyped, DiscoverMoves, FinishMoves DEF RowInv
    <2> QED BY <1>2, <2>1, <2>2, <2>3, <2>4, <2>5 DEF Step
  <1>3. ASSUME NEW l \in logins, LoginCompletes(l) PROVE TypeInv' /\ RowStep
    BY <1>3, LoginCompletesTyped, LoginCompletesMoves DEF RowInv, LoginsWait
  <1>4. ASSUME NEW l \in logins, LoginFails(l) PROVE TypeInv' /\ RowStep
    <2>1. TypeInv'
      BY <1>4 DEF LoginFails, RowInv, TypeInv, TypeOK, Places, hub
    <2> QED BY <1>4, <2>1, LoginFailsMoves
  <1>5. ASSUME NEW t \in Tabs, Reload(t) PROVE TypeInv' /\ RowStep
    BY <1>5, ReloadTyped, ReloadMoves DEF RowInv
  <1> QED BY <1>1, <1>2, <1>3, <1>4, <1>5 DEF Next

\* Only a recording operation changes the tools of a row.
LEMMA StepLists ==
    ASSUME RowInv, NEW o \in Ops, Step(o)
    PROVE  Listing
  <1> USE DEF RowInv
  <1>1. creds \in [Handles -> Cred \cup {None}] /\ Adding(o) \in Handles /\ ops[o].handle \in Handles
    BY McpAssumption DEF McpAssumption, TypeInv, TypeOK, Op, Adding
  <1>2. CASE creds' = creds
    BY <1>2 DEF Listing
  <1>3. ASSUME NEW a \in Answers, Store(o, a) PROVE Listing
    BY <1>1, <1>3 DEF Store, Storable, StoreRow, Listing
  <1>4. ASSUME NEW a \in Answers, Record(o, a) PROVE Listing
    <2>1. CASE Mine(o) /\ Handled(a)
      BY <1>1, <1>4, <2>1 DEF Record, Mine, Listing
    <2>2. CASE ~(Mine(o) /\ Handled(a))
      BY <1>2, <1>4, <2>2 DEF Record
    <2> QED BY <2>1, <2>2
  <1>5. ASSUME NEW a \in Answers, Undo(o, a) \/ DropCredential(o, a) \/ DropProvider(o, a)
        PROVE  Listing
    BY <1>1, <1>5 DEF Undo, DropCredential, DropProvider, Listing
  <1>6. \/ creds' = creds
        \/ \E a \in Answers : \/ Store(o, a) \/ Record(o, a) \/ Undo(o, a)
                              \/ DropCredential(o, a) \/ DropProvider(o, a)
    BY DEF Step, MakeProvider, Install, FindProvider, OpenLogin, Poll, ReadCredential, ListBenches,
           EnsureBuiltIn, NextBench, Discover, Finish, hub
  <1> QED BY <1>2, <1>3, <1>4, <1>5, <1>6

LEMMA NextLists ==
    ASSUME RowInv, Next
    PROVE  Listing
  <1> USE DEF RowInv
  <1>1. ASSUME NEW l \in logins, LoginCompletes(l) PROVE Listing
    BY <1>1 DEF LoginCompletes, Storable, StoreRow, Listing, TypeInv, TypeOK
  <1>2. CASE (\E o \in Ops : Start(o)) \/ (\E l \in logins : LoginFails(l)) \/ (\E t \in Tabs : Reload(t))
    BY <1>2 DEF Start, StartAdd, StartRemove, StartDeploy, LoginFails, Reload, hub, Listing
  <1> QED BY <1>1, <1>2, StepLists DEF Next

-----------------------------------------------------------------------------
(* Logins *)

\* Steps at other places leave the waiting sign-ins and the logins alone.
LEMMA NoWaiting ==
    ASSUME RowInv, UNCHANGED logins, NEW o \in Ops, ops[o].at \notin {"waiting", "failed", "gone"},
           \A p \in Ops \ {o} : ops'[p] = ops[p]
    PROVE  LoginsWait'
  <1>1. \A l \in logins : l.op \in Ops /\ l.op # o
    BY DEF RowInv, LoginsWait, TypeInv, TypeOK
  <1> QED BY <1>1 DEF RowInv, LoginsWait

LEMMA BecomesOthers ==
    ASSUME TypeInv, NEW o \in Ops, (\E r : Becomes(o, r))
           \/ (\E why, silent : Throws(o, why, silent))
    PROVE  \A p \in Ops \ {o} : ops'[p] = ops[p]
  BY DEF Throws, Becomes, TypeInv, TypeOK

LEMMA StepOthers ==
    ASSUME TypeInv, NEW o \in Ops, Step(o)
    PROVE  /\ Running(o)
           /\ ops[o].at \notin {"login", "waiting"} => UNCHANGED logins
           /\ \A p \in Ops \ {o} : ops'[p] = ops[p]
  <1>1. (\E r : Becomes(o, r)) \/ (\E why, silent : Throws(o, why, silent))
    BY Zenon DEF Step, MakeProvider, Store, Record, Undo, DropCredential, DropProvider, Install,
           FindProvider, OpenLogin, Poll, ReadCredential, ListBenches, EnsureBuiltIn, NextBench, Discover, Finish
  <1>2. /\ Running(o)
        /\ ops[o].at \notin {"login", "waiting"} => UNCHANGED logins
    BY DEF Step, MakeProvider, Store, Record, Undo, DropCredential, DropProvider, Install,
           FindProvider, OpenLogin, Poll, ReadCredential, ListBenches, EnsureBuiltIn, NextBench, Discover, Finish,
           Running, Ended
  <1> QED BY <1>1, <1>2, BecomesOthers

LEMMA OpenLoginWaits ==
    ASSUME RowInv, NEW o \in Ops, NEW a \in Reads, OpenLogin(o, a)
    PROVE  LoginsWait'
  <1> USE DEF RowInv
  <1>1. /\ ops[o].at = "login" /\ ops[o].kind = "signIn" /\ ops[o].cred = None
        /\ ops[o] \in Op /\ logins \subseteq [op : Ops, provider : Nat]
    BY DEF OpenLogin, TypeInv, TypeOK, Places, Placed, WithCred
  <1>2. \A p \in Ops \ {o} : ops'[p] = ops[p]
    BY StepOthers DEF Step
  <1>3. CASE a = "ok"
    <2>1. ops'[o] = At(o, "waiting")
      BY <1>3, OthersMove DEF OpenLogin
    <2>2. ops'[o].kind = "signIn" /\ ops'[o].at = "waiting" /\ ops'[o].cred = None
          /\ ops'[o].provider = ops[o].provider
      BY <1>1, <2>1, AtFields DEF Steps
    <2>3. \A l \in logins : l.op \in Ops /\ l.op # o
      BY <1>1 DEF LoginsWait
    <2>4. logins' = logins \cup {[op |-> o, provider |-> ops[o].provider]}
      BY <1>3 DEF OpenLogin
    <2> QED BY <1>2, <2>2, <2>3, <2>4 DEF LoginsWait
  <1>4. CASE a # "ok"
    BY <1>1, <1>2, <1>4, NoWaiting DEF OpenLogin
  <1> QED BY <1>3, <1>4

LEMMA PollWaits ==
    ASSUME RowInv, NEW o \in Ops, NEW a \in Reads, Poll(o, a)
    PROVE  LoginsWait'
  <1> USE DEF RowInv
  <1>1. ops[o].at = "waiting" /\ ops[o].kind = "signIn" /\ ops[o].bench = None
        /\ UNCHANGED logins /\ logins \subseteq [op : Ops, provider : Nat]
    BY DEF Poll, TypeInv, TypeOK, Places, Placed, LoginSteps
  <1>2. \A p \in Ops \ {o} : ops'[p] = ops[p]
    BY StepOthers DEF Step
  <1>3. CASE \A l \in logins : l.op # o
    BY <1>1, <1>2, <1>3 DEF LoginsWait
  <1>4. CASE ~\A l \in logins : l.op # o
    <2>1. Throws(o, "fault", FALSE)
      BY <1>4 DEF Poll
    <2>2. ops'[o].at = "failed" /\ ops'[o].kind = "signIn"
      BY <1>1, <2>1, ThrowsHeard
    <2> QED BY <1>1, <1>2, <2>2 DEF LoginsWait
  <1> QED BY <1>3, <1>4

LEMMA LoginCompletesWaits ==
    ASSUME RowInv, NEW l \in logins, LoginCompletes(l)
    PROVE  LoginsWait'
  <1> USE DEF RowInv
  <1>1. l.op \in Ops /\ ops[l.op] \in Op /\ logins \subseteq [op : Ops, provider : Nat]
    BY DEF TypeInv, TypeOK
  <1>2. \A p \in Ops \ {l.op} : ops'[p] = ops[p]
    BY <1>1, BecomesOthers DEF LoginCompletes
  <1>3. SUFFICES ASSUME NEW m \in logins, m # l, m.op = l.op
                 PROVE  /\ ops'[m.op].kind = "signIn"
                        /\ ops'[m.op].at \in {"waiting", "failed", "gone"}
                        /\ ops'[m.op].at # "waiting"
    BY <1>1, <1>2 DEF LoginsWait, LoginCompletes
  <1>4. ops[l.op].at # "waiting"
    <2>1. l.provider # m.provider
      <3>1. l \in [op : Ops, provider : Nat] /\ m \in [op : Ops, provider : Nat]
        BY <1>1
      <3> QED BY <1>3, <3>1
    <2> QED BY <1>3, <2>1 DEF LoginsWait
  <1>5. ops'[l.op] = ops[l.op]
    <2>1. ~Running(l.op)
      BY <1>4 DEF LoginsWait, Running, Ended
    <2> QED BY <1>1, <2>1, OthersMove DEF LoginCompletes
  <1> QED BY <1>3, <1>4, <1>5 DEF LoginsWait

LEMMA NextWaits ==
    ASSUME RowInv, Next
    PROVE  LoginsWait'
  <1> USE DEF RowInv
  <1>1. ASSUME NEW o \in Ops, Start(o) PROVE LoginsWait'
    <2>1. PICK r : Begun(r) /\ Begins(o, r)
      BY <1>1, StartBegins
    <2>2. ops[o].at = "idle" /\ \A p \in Ops \ {o} : ops'[p] = ops[p]
      BY <2>1, BecomesOthers DEF Begins, Fresh, TypeInv, Places, Placed
    <2>3. UNCHANGED logins
      BY <1>1 DEF Start, StartAdd, StartRemove, StartDeploy
    <2> QED BY <2>2, <2>3, NoWaiting
  <1>2. ASSUME NEW o \in Ops, Step(o) PROVE LoginsWait'
    <2>1. CASE ops[o].at \notin {"login", "waiting"}
      BY <1>2, <2>1, StepOthers, NoWaiting DEF Running, Ended
    <2>2. CASE ops[o].at = "login"
      <3>1. PICK a \in Reads : OpenLogin(o, a)
        BY <1>2, <2>2 DEF Step, MakeProvider, Store, Record, Undo, DropCredential, DropProvider,
               Install, FindProvider, Poll, ReadCredential, ListBenches, EnsureBuiltIn, NextBench, Discover, Finish
      <3> QED BY <3>1, OpenLoginWaits
    <2>3. CASE ops[o].at = "waiting"
      <3>1. PICK a \in Reads : Poll(o, a)
        BY <1>2, <2>3 DEF Step, MakeProvider, Store, Record, Undo, DropCredential, DropProvider,
               Install, FindProvider, OpenLogin, ReadCredential, ListBenches, EnsureBuiltIn, NextBench, Discover,
               Finish
      <3> QED BY <3>1, PollWaits
    <2> QED BY <2>1, <2>2, <2>3
  <1>3. ASSUME NEW l \in logins, LoginFails(l) PROVE LoginsWait'
    BY <1>3 DEF LoginFails, LoginsWait
  <1>4. ASSUME NEW t \in Tabs, Reload(t) PROVE LoginsWait'
    <2>1. ops' = [o \in Ops |-> IF ops[o].tab = t /\ Running(o) THEN Stopped(o) ELSE ops[o]]
      BY <1>4 DEF Reload, Stopped
    <2>2. \A o \in Ops : ops'[o] = ops[o]
                         \/ (ops'[o].at = "gone" /\ ops'[o].kind = ops[o].kind)
      BY <2>1, StoppedTyped
    <2>3. UNCHANGED logins /\ logins \subseteq [op : Ops, provider : Nat]
      BY <1>4 DEF Reload, TypeInv, TypeOK
    <2> QED BY <2>2, <2>3 DEF LoginsWait
  <1> QED BY <1>1, <1>2, <1>3, <1>4, LoginCompletesWaits DEF Next

-----------------------------------------------------------------------------
(* The theorems about the catalogue *)

LEMMA CatalogueInit == Init => CatalogueInv
  <1> SUFFICES ASSUME Init PROVE CatalogueInv
    OBVIOUS
  <1> USE McpAssumption DEF McpAssumption
  <1>1. \A o \in Ops : ops[o] = Blank
    BY DEF Init
  <1>2. TypeInv
    <2>1. PICK set \in SUBSET Benches :
             LET exa == [id |-> 2, provider |-> 1, tools |-> "listed"]
                 has(h) == h = BuiltIn /\ set # {}
             IN  /\ providers = [h \in Handles |-> IF has(h) THEN 1 ELSE None]
                 /\ creds = [h \in Handles |-> IF has(h) THEN exa ELSE None]
                 /\ workers = [b \in Benches |-> IF b \in set
                               THEN {[handle |-> BuiltIn, id |-> 2, tools |-> "listed"]} ELSE None]
      BY DEF Init
    <2>2. /\ [id |-> 2, provider |-> 1, tools |-> "listed"] \in Cred
          /\ [handle |-> BuiltIn, id |-> 2, tools |-> "listed"] \in Row
      BY DEF Cred, Row, Tools
    <2>3. /\ providers \in [Handles -> Nat \cup {None}]
          /\ creds \in [Handles -> Cred \cup {None}]
          /\ workers \in [Benches -> (SUBSET Row) \cup {None}]
      BY <2>1, <2>2
    <2>4. <<>> \in Seq(Ops)
      OBVIOUS
    <2> QED BY <2>3, <2>4, BlankTyped DEF Init, TypeInv, TypeOK, Places
  <1>3. Rows
    BY DEF Init, Rows
  <1>4. \A o \in Ops : ops[o].cred = None /\ ops[o].kind = "none"
    BY <1>1 DEF Blank
  <1> QED
    BY <1>2, <1>3, <1>4
       DEF CatalogueInv, RowInv, Owned, InPlace, LoginsWait, LoginRows, Kept, FailedAddGone, Added, Adds, Init

LEMMA CatalogueNext == CatalogueInv /\ [Next]_vars => CatalogueInv'
  <1> SUFFICES ASSUME CatalogueInv, [Next]_vars PROVE CatalogueInv'
    OBVIOUS
  <1> USE DEF CatalogueInv, RowInv
  <1>1. CASE Next
    <2>1. TypeInv' /\ RowStep /\ LoginsWait'
      BY <1>1, NextRows, NextWaits
    <2>2. Rows' /\ RowsCome /\ Losses
      BY <2>1, HubKeepsRows DEF RowStep
    <2>3. PICK o \in Ops : Moves(o)
      BY <2>1 DEF RowStep
    <2>4. Listing
      BY <1>1, NextLists
    <2> QED
      BY <2>1, <2>2, <2>3, <2>4, MovesOwned, MovesInPlace, MovesLogin, MovesKept, MovesFail
  <1>2. CASE UNCHANGED vars
    BY <1>2 DEF vars, hub, TypeInv, TypeOK, Places, Rows, Owned, InPlace, LoginsWait, LoginRows, Kept,
           FailedAddGone, Added, Adds, Adding, Removes
  <1> QED BY <1>1, <1>2

LEMMA CatalogueAlways == Spec => []CatalogueInv
  BY CatalogueInit, CatalogueNext, PTL DEF Spec

\* The hub's rows, the tabs' queues and the operations keep their types; each
\* operation has the locals its next request needs (mcp-servers.ts).
THEOREM TypeCorrect == Spec => []TypeOK
  <1>1. CatalogueInv => TypeOK
    BY DEF CatalogueInv, RowInv, TypeInv
  <1> QED BY <1>1, CatalogueAlways, PTL

\* A failed add whose requests were answered leaves at most the row of a login
\* that its sign-in could not read (addMcpServer, addSignedInMcpServer,
\* recordCatalog), whatever runs beside it.
THEOREM FailedAddsGo == Spec => []FailedAddGone
  <1>1. CatalogueInv => FailedAddGone
    BY DEF CatalogueInv
  <1> QED BY <1>1, CatalogueAlways, PTL

\* An added server stays, with its tools, until a removal names its credential
\* or its provider: no undo, retry or redeploy of another operation takes it
\* (deleteCredential, removeMcpServer).
THEOREM AddedServersStay == Spec => []AddedStays
  <1>1. CatalogueInv => AddedStays
    BY DEF CatalogueInv, Kept, AddedStays, Added, Adds, Removes
  <1> QED BY <1>1, CatalogueAlways, PTL

-----------------------------------------------------------------------------
(* The queues *)

\* An operation that neither waits for its ensure nor runs it.
Off(r) == r.at # "queued" /\ ~(r.at \in AddSteps /\ r.bench # None)
AtHead(o) == queue[ops[o].tab] # <<>> /\ Head(queue[ops[o].tab]) = o

LEMMA OffIsOut ==
    ASSUME Queued, NEW o \in Ops, Off(ops[o]), NEW t \in Tabs, NEW i \in DOMAIN queue[t]
    PROVE  queue[t][i] # o
  BY DEF Queued, Off

\* An operation that ends its ensure leaves the next one at the head (settle).
LEMMA QueueLeft ==
    ASSUME TypeInv, Queued, NEW o \in Ops, \A p \in Ops \ {o} : ops'[p] = ops[p],
           Off(ops'[o]), ops[o].at = "queued" => AtHead(o),
           queue' = Leave(o) \/ (queue' = queue /\ Off(ops[o]))
    PROVE  Queued'
  <1>1. \A t \in Tabs : queue[t] \in Seq(Ops)
    BY DEF TypeInv, TypeOK
  <1>2. CASE Off(ops[o])
    <2>1. queue' = queue
      <3>1. ASSUME queue[ops[o].tab] # <<>>, ops[o].tab \in Tabs
            PROVE  Head(queue[ops[o].tab]) # o
        <4>1. 1 \in DOMAIN queue[ops[o].tab]
              /\ Head(queue[ops[o].tab]) = queue[ops[o].tab][1]
          BY <1>1, <3>1
        <4> QED BY <1>2, <3>1, <4>1, OffIsOut
      <3> QED BY <3>1 DEF Leave, TypeInv, TypeOK
    <2> SUFFICES /\ \A t \in Tabs : \A i \in DOMAIN queue[t] : queue[t][i] \in Ops \ {o}
                 /\ \A p \in Ops \ {o} : InQueue(p)' = InQueue(p)
      BY <1>2, <2>1 DEF Queued, Off
    <2>2. \A t \in Tabs : \A i \in DOMAIN queue[t] : queue[t][i] \in Ops \ {o}
      BY <1>1, <1>2, OffIsOut
    <2> QED BY <2>1, <2>2 DEF InQueue
  <1>3. CASE ~Off(ops[o])
    <2> DEFINE t == ops[o].tab
               s == queue[t]
    <2>1. t \in Tabs /\ s \in Seq(Ops) /\ s # <<>> /\ Head(s) = o
      <3>1. t \in Tabs
        BY <1>3 DEF Off, AddSteps, TypeInv, TypeOK, Places, Placed, Op
      <3> QED BY <1>1, <1>3, <3>1 DEF Off, Queued, AtHead
    <2>2. queue' = [queue EXCEPT ![t] = Tail(s)]
      BY <1>3, <2>1 DEF Leave
    <2>3. queue'[t] = Tail(s) /\ \A u \in Tabs : u # t => queue'[u] = queue[u]
      BY <2>1, <2>2 DEF TypeInv, TypeOK
    <2>4. /\ DOMAIN Tail(s) = 1..(Len(s) - 1)
          /\ \A i \in 1..(Len(s) - 1) : Tail(s)[i] = s[i + 1]
          /\ DOMAIN s = 1..Len(s) /\ Len(s) \in Nat \ {0} /\ s[1] = o
      BY <2>1
    <2>5. \A i \in DOMAIN s : i # 1 => s[i] # o /\ s[i] \in Ops /\ ops[s[i]].at = "queued"
      BY <2>1, <2>4 DEF Queued
    <2>6. \A u \in Tabs : u # t => \A i \in DOMAIN queue[u] : queue[u][i] \in Ops \ {o}
      BY <1>1 DEF Queued
    <2>7. ASSUME NEW u \in Tabs, NEW i \in DOMAIN queue'[u]
          PROVE  LET p == queue'[u][i] IN
                 /\ ops'[p].tab = u
                 /\ ops'[p].bench # None
                 /\ ops'[p].at = "queued" \/ (i = 1 /\ ops'[p].at \in AddSteps)
                 /\ \A j \in DOMAIN queue'[u] : queue'[u][j] = p => j = i
      <3>1. CASE u # t
        BY <2>3, <2>6, <2>7, <3>1 DEF Queued
      <3>2. CASE u = t
        <4>0. /\ DOMAIN queue'[u] = 1..(Len(s) - 1)
              /\ \A j \in 1..(Len(s) - 1) : queue'[u][j] = s[j + 1]
          BY <2>3, <2>4, <3>2
        <4>4. \A j \in 1..(Len(s) - 1) : j \in Nat /\ j + 1 \in DOMAIN s /\ j + 1 # 1
          BY <2>4
        <4>1. i \in 1..(Len(s) - 1) /\ queue'[u][i] = s[i + 1] /\ i + 1 \in DOMAIN s /\ i + 1 # 1
          BY <2>7, <4>0, <4>4
        <4>2. ops'[s[i + 1]] = ops[s[i + 1]] /\ ops[s[i + 1]].at = "queued"
          BY <2>5, <4>1
        <4>3. ops[s[i + 1]].tab = t /\ ops[s[i + 1]].bench # None
              /\ \A j \in DOMAIN s : s[j] = s[i + 1] => j = i + 1
          BY <2>1, <4>1 DEF Queued
        <4>5. \A j \in DOMAIN queue'[u] : queue'[u][j] = s[i + 1] => j = i
          BY <4>0, <4>1, <4>3, <4>4
        <4> QED BY <3>2, <4>1, <4>2, <4>3, <4>5
      <3> QED BY <3>1, <3>2
    <2>8. ASSUME NEW p \in Ops
          PROVE  /\ ops'[p].at = "queued" => InQueue(p)'
                 /\ ops'[p].at \in AddSteps /\ ops'[p].bench # None =>
                       queue'[ops'[p].tab] # <<>> /\ Head(queue'[ops'[p].tab]) = p
      <3>1. CASE p = o
        BY <3>1 DEF Off
      <3>2. CASE p # o /\ ops[p].tab = t
        <4>1. ops'[p] = ops[p]
          BY <3>2
        <4>2. ASSUME ops[p].at = "queued" PROVE InQueue(p)'
          <5>1. PICK i \in DOMAIN s : s[i] = p
            BY <3>2, <4>2 DEF Queued, InQueue
          <5>2. i # 1 /\ i - 1 \in 1..(Len(s) - 1) /\ Tail(s)[i - 1] = p
            BY <2>4, <3>2, <5>1
          <5> QED BY <2>3, <2>4, <3>2, <4>1, <5>2 DEF InQueue
        <4>3. ~(ops[p].at \in AddSteps /\ ops[p].bench # None)
          BY <2>1, <3>2 DEF Queued
        <4> QED BY <4>1, <4>2, <4>3
      <3>3. CASE p # o /\ ops[p].tab # t
        <4>1. ops'[p] = ops[p]
          BY <3>3
        <4>2. ops[p].at \in {"queued"} \cup AddSteps => ops[p].tab \in Tabs
          BY DEF AddSteps, TypeInv, TypeOK, Places, Placed, Op
        <4> QED BY <2>3, <3>3, <4>1, <4>2 DEF Queued, InQueue
      <3> QED BY <3>1, <3>2, <3>3
    <2> QED BY <2>7, <2>8 DEF Queued
  <1> QED BY <1>2, <1>3

\* The operation at the head goes on with its ensure.
LEMMA QueueKept ==
    ASSUME TypeInv, Queued, NEW o \in Ops, \A p \in Ops \ {o} : ops'[p] = ops[p],
           queue' = queue, AtHead(o), ~Off(ops[o]),
           ops'[o].tab = ops[o].tab, ops'[o].bench = ops[o].bench, ops'[o].at \in AddSteps
    PROVE  Queued'
  <1>1. /\ ops[o].tab \in Tabs /\ ops[o].bench # None
        /\ \A t \in Tabs : queue[t] \in Seq(Ops)
    BY DEF Off, AddSteps, TypeInv, TypeOK, Places, Placed, Op
  <1>2. queue[ops[o].tab][1] = o /\ 1 \in DOMAIN queue[ops[o].tab]
    BY <1>1 DEF AtHead
  <1>3. \A t \in Tabs : \A i \in DOMAIN queue[t] :
           queue[t][i] \in Ops /\ (queue[t][i] = o => t = ops[o].tab /\ i = 1)
    BY <1>1, <1>2 DEF Queued
  <1>4. ASSUME NEW t \in Tabs, NEW i \in DOMAIN queue[t]
        PROVE  LET p == queue[t][i] IN
               /\ ops'[p].tab = t
               /\ ops'[p].bench # None
               /\ ops'[p].at = "queued" \/ (i = 1 /\ ops'[p].at \in AddSteps)
               /\ \A j \in DOMAIN queue[t] : queue[t][j] = p => j = i
    BY <1>1, <1>3 DEF Queued
  <1>5. ASSUME NEW p \in Ops
        PROVE  /\ ops'[p].at = "queued" => InQueue(p)'
               /\ ops'[p].at \in AddSteps /\ ops'[p].bench # None =>
                     queue[ops'[p].tab] # <<>> /\ Head(queue[ops'[p].tab]) = p
    BY DEF Queued, InQueue, AtHead, AddSteps
  <1> QED BY <1>4, <1>5 DEF Queued

\* An operation joins the end of its tab's queue.
LEMMA QueueJoined ==
    ASSUME TypeInv, Queued, NEW o \in Ops, \A p \in Ops \ {o} : ops'[p] = ops[p],
           Off(ops[o]), NEW t \in Tabs, queue' = [queue EXCEPT ![t] = Append(@, o)],
           ops'[o].tab = t, ops'[o].bench # None, ops'[o].at = "queued"
    PROVE  Queued'
  <1> DEFINE s == queue[t]
  <1>1. s \in Seq(Ops) /\ queue'[t] = Append(s, o)
        /\ \A u \in Tabs : u # t => queue'[u] = queue[u]
    BY DEF TypeInv, TypeOK
  <1>2. /\ DOMAIN s = 1..Len(s) /\ Len(s) \in Nat
        /\ DOMAIN Append(s, o) = 1..(Len(s) + 1)
        /\ Append(s, o)[Len(s) + 1] = o
        /\ \A i \in DOMAIN s : Append(s, o)[i] = s[i]
    BY <1>1
  <1>3. \A u \in Tabs : \A i \in DOMAIN queue[u] : queue[u][i] \in Ops \ {o}
    BY OffIsOut DEF TypeInv, TypeOK
  <1>4. ASSUME NEW u \in Tabs, NEW i \in DOMAIN queue'[u]
        PROVE  LET p == queue'[u][i] IN
               /\ ops'[p].tab = u
               /\ ops'[p].bench # None
               /\ ops'[p].at = "queued" \/ (i = 1 /\ ops'[p].at \in AddSteps)
               /\ \A j \in DOMAIN queue'[u] : queue'[u][j] = p => j = i
    <2>1. CASE u # t
      BY <1>1, <1>3, <1>4, <2>1 DEF Queued
    <2>2. CASE u = t /\ i \in DOMAIN s
      <3>1. queue'[u][i] = s[i] /\ s[i] \in Ops \ {o}
        BY <1>1, <1>2, <1>3, <2>2
      <3>2. /\ ops[s[i]].tab = t /\ ops[s[i]].bench # None
            /\ ops[s[i]].at = "queued" \/ (i = 1 /\ ops[s[i]].at \in AddSteps)
            /\ \A j \in DOMAIN s : s[j] = s[i] => j = i
        BY <2>2 DEF Queued
      <3>3. \A j \in DOMAIN queue'[u] : queue'[u][j] = s[i] => j = i
        BY <1>1, <1>2, <2>2, <3>1, <3>2
      <3> QED BY <2>2, <3>1, <3>2, <3>3
    <2>3. CASE u = t /\ i = Len(s) + 1
      <3>1. queue'[u][i] = o
        BY <1>1, <1>2, <2>3
      <3>2. \A j \in DOMAIN queue'[u] : queue'[u][j] = o => j = i
        BY <1>1, <1>2, <1>3, <2>3
      <3> QED BY <2>3, <3>1, <3>2
    <2> QED BY <1>1, <1>2, <1>4, <2>1, <2>2, <2>3
  <1>5. ASSUME NEW p \in Ops
        PROVE  /\ ops'[p].at = "queued" => InQueue(p)'
               /\ ops'[p].at \in AddSteps /\ ops'[p].bench # None =>
                     queue'[ops'[p].tab] # <<>> /\ Head(queue'[ops'[p].tab]) = p
    <2>1. CASE p = o
      <3>1. Len(s) + 1 \in DOMAIN queue'[t] /\ queue'[t][Len(s) + 1] = o
        BY <1>1, <1>2
      <3> QED BY <2>1, <3>1 DEF InQueue, AddSteps
    <2>2. CASE p # o /\ ops[p].tab = t
      <3>1. ops'[p] = ops[p]
        BY <2>2
      <3>2. ops[p].at = "queued" => InQueue(p)'
        BY <1>1, <1>2, <2>2, <3>1 DEF Queued, InQueue
      <3>3. s # <<>> => Append(s, o) # <<>> /\ Head(Append(s, o)) = Head(s)
        BY <1>1
      <3> QED BY <1>1, <2>2, <3>1, <3>2, <3>3 DEF Queued
    <2>3. CASE p # o /\ ops[p].tab # t
      <3>1. ops'[p] = ops[p]
        BY <2>3
      <3>2. ops[p].at \in {"queued"} \cup AddSteps => ops[p].tab \in Tabs
        BY DEF AddSteps, TypeInv, TypeOK, Places, Placed, Op
      <3> QED BY <1>1, <2>3, <3>1, <3>2 DEF Queued, InQueue
    <2> QED BY <2>1, <2>2, <2>3
  <1> QED BY <1>4, <1>5 DEF Queued

\* An error ends the ensure, if there is one.
LEMMA ThrowsQueued ==
    ASSUME TypeInv, Queued, NEW o \in Ops, NEW why, NEW silent, Throws(o, why, silent),
           ops[o].at = "queued" => AtHead(o)
    PROVE  Queued'
  <1>1. ops'[o].at \in {"next", "failed"} /\ queue' = Leave(o)
        /\ \A p \in Ops \ {o} : ops'[p] = ops[p]
    BY ThrowsHeard DEF Throws
  <1> QED BY <1>1, QueueLeft DEF Off, AddSteps

\* An operation goes on adding a server.
LEMMA AddsOnQueued ==
    ASSUME TypeInv, Queued, NEW o \in Ops, NEW r, Becomes(o, r), queue' = queue,
           ops[o].at \in AddSteps, r.at \in AddSteps, r.tab = ops[o].tab, r.bench = ops[o].bench
    PROVE  Queued'
  <1>1. ops'[o] = r /\ \A p \in Ops \ {o} : ops'[p] = ops[p]
    BY OthersMove, BecomesOthers
  <1>2. CASE ops[o].bench = None
    BY <1>1, <1>2, QueueLeft DEF Off, AddSteps
  <1>3. CASE ops[o].bench # None
    BY <1>1, <1>3, QueueKept DEF Off, AtHead, Queued, AddSteps
  <1> QED BY <1>2, <1>3

\* An operation outside its ensure does not touch the queue.
LEMMA OutsideQueued ==
    ASSUME TypeInv, Queued, NEW o \in Ops, NEW r, Becomes(o, r), queue' = queue,
           Off(ops[o]), Off(r)
    PROVE  Queued'
  <1>1. ops'[o] = r /\ \A p \in Ops \ {o} : ops'[p] = ops[p]
    BY OthersMove, BecomesOthers
  <1> QED BY <1>1, QueueLeft DEF Off

LEMMA AddStepQueued ==
    ASSUME TypeInv, Queued, NEW o \in Ops,
           \/ \E a \in Answers : MakeProvider(o, a) \/ Store(o, a) \/ Undo(o, a)
           \/ \E a \in Reads : FindProvider(o, a) \/ OpenLogin(o, a) \/ Poll(o, a) \/ ReadCredential(o, a)
           \/ \E answered \in BOOLEAN : Discover(o, answered)
    PROVE  Queued'
  <1>1. ops[o].at \in AddSteps /\ ops[o].at # "queued" /\ ops[o] \in Op
    BY DEF MakeProvider, Store, Undo, FindProvider, OpenLogin, Poll, ReadCredential, Discover, AddSteps,
           TypeInv, TypeOK
  <1>2. ASSUME NEW s \in AddSteps, Becomes(o, At(o, s)), queue' = queue
        PROVE  Queued'
    <2>1. At(o, s).at = s /\ At(o, s).tab = ops[o].tab /\ At(o, s).bench = ops[o].bench
      BY AtFields DEF AddSteps, Steps
    <2> QED BY <1>1, <1>2, <2>1, AddsOnQueued
  <1>3. ASSUME NEW s \in AddSteps, NEW v, queue' = queue,
               \/ Becomes(o, [At(o, s) EXCEPT !.provider = v])
               \/ Becomes(o, [At(o, s) EXCEPT !.cred = v])
        PROVE  Queued'
    <2> DEFINE r == At(o, s)
               q == [r EXCEPT !.provider = v]
               c == [r EXCEPT !.cred = v]
    <2>1. r \in Op /\ r.at = s /\ r.tab = ops[o].tab /\ r.bench = ops[o].bench
      BY AtFields DEF AddSteps, Steps
    <2>2. Becomes(o, q) \/ Becomes(o, c)
      BY <1>3
    <2> HIDE DEF r
    <2>3. /\ q.at = s /\ q.tab = ops[o].tab /\ q.bench = ops[o].bench
          /\ c.at = s /\ c.tab = ops[o].tab /\ c.bench = ops[o].bench
      BY <2>1 DEF Op
    <2> HIDE DEF q, c
    <2> QED BY <1>1, <1>3, <2>2, <2>3, AddsOnQueued
  <1>4. ASSUME NEW why, NEW silent, Throws(o, why, silent) PROVE Queued'
    BY <1>1, <1>4, ThrowsQueued
  <1>5. StoreStep(o) \in AddSteps
    BY DEF StoreStep, AddSteps
  <1>6. ASSUME NEW a \in Answers, MakeProvider(o, a) \/ Store(o, a) PROVE Queued'
    <2>1. \/ Becomes(o, [At(o, StoreStep(o)) EXCEPT !.provider = lastId + 1]) /\ queue' = queue
          \/ Becomes(o, [At(o, "discover") EXCEPT !.cred = lastId + 1]) /\ queue' = queue
          \/ Throws(o, IF a = "ok" THEN "conflict" ELSE "fault", Silent(a))
      BY <1>6 DEF MakeProvider, Store
    <2> QED BY <1>3, <1>4, <1>5, <2>1 DEF AddSteps
  <1>7. ASSUME NEW a \in Answers, Undo(o, a) PROVE Queued'
    <2>1. Throws(o, "unreachable", a # "ok")
      BY <1>7 DEF Undo
    <2> QED BY <1>1, <2>1, ThrowsQueued
  <1>8. ASSUME NEW a \in Reads, FindProvider(o, a) PROVE Queued'
    <2>1. \/ Becomes(o, At(o, "make")) /\ queue' = queue
          \/ Becomes(o, [At(o, StoreStep(o)) EXCEPT !.provider = providers[Adding(o)]])
             /\ queue' = queue
          \/ Throws(o, "fault", FALSE)
      BY <1>8 DEF FindProvider
    <2> QED BY <1>2, <1>3, <1>4, <1>5, <2>1 DEF AddSteps
  <1>9. ASSUME NEW a \in Reads, OpenLogin(o, a) PROVE Queued'
    <2>1. \/ Becomes(o, At(o, "waiting")) /\ queue' = queue
          \/ Throws(o, "fault", FALSE)
      BY <1>9 DEF OpenLogin
    <2> QED BY <1>2, <1>4, <2>1 DEF AddSteps
  <1>10. ASSUME NEW a \in Reads, Poll(o, a) PROVE Queued'
    <2>1. \/ Becomes(o, At(o, "read")) /\ queue' = queue
          \/ \E why : Throws(o, why, FALSE)
      BY <1>10 DEF Poll
    <2> QED BY <1>2, <1>4, <2>1 DEF AddSteps
  <1>12. ASSUME NEW a \in Reads, ReadCredential(o, a) PROVE Queued'
    <2>1. \/ Becomes(o, At(o, "discover")) /\ queue' = queue
          \/ Throws(o, "fault", FALSE)
      BY <1>12 DEF ReadCredential
    <2> QED BY <1>2, <1>4, <2>1 DEF AddSteps
  <1>11. ASSUME NEW answered \in BOOLEAN, Discover(o, answered) PROVE Queued'
    <2>1. \E s \in {"record", "undo"} : Becomes(o, At(o, s)) /\ queue' = queue
      BY <1>11 DEF Discover
    <2> QED BY <1>2, <2>1 DEF AddSteps
  <1> QED BY <1>6, <1>7, <1>8, <1>9, <1>10, <1>11, <1>12

LEMMA RecordQueued ==
    ASSUME TypeInv, Queued, NEW o \in Ops, NEW a \in Answers, Record(o, a)
    PROVE  Queued'
  <1>1. ops[o].at = "record"
    BY DEF Record
  <1>2. CASE Silent(a)
    <2>1. Throws(o, "fault", TRUE)
      BY <1>2 DEF Record, Silent
    <2> QED BY <1>1, <2>1, ThrowsQueued
  <1>3. CASE ~Silent(a) /\ a = "ok" /\ Mine(o)
    <2>1. Becomes(o, Recorded(o)) /\ queue' = Leave(o)
      BY <1>3 DEF Record
    <2>2. ops'[o] = Recorded(o) /\ \A p \in Ops \ {o} : ops'[p] = ops[p]
      BY <2>1, OthersMove, BecomesOthers
    <2>3. Recorded(o).at \in {"benches", "install"}
      BY <1>1, RecordedTyped
    <2> QED BY <1>1, <2>1, <2>2, <2>3, QueueLeft DEF Off, AddSteps
  <1>4. CASE ~Silent(a) /\ ~(a = "ok" /\ Mine(o))
    <2>1. Becomes(o, At(o, "undo")) /\ queue' = queue
      BY <1>4 DEF Record
    <2>2. LET r == At(o, "undo") IN
          r.at = "undo" /\ r.tab = ops[o].tab /\ r.bench = ops[o].bench
      BY AtFields DEF Steps
    <2> QED BY <1>1, <2>1, <2>2, AddsOnQueued DEF AddSteps
  <1> QED BY <1>2, <1>3, <1>4

LEMMA EnsureBuiltInQueued ==
    ASSUME TypeInv, Queued, NEW o \in Ops, NEW a \in Reads, EnsureBuiltIn(o, a)
    PROVE  Queued'
  <1> DEFINE r == [ops[o] EXCEPT !.view = Catalogue]
             i == [r EXCEPT !.at = "install"]
             p == [r EXCEPT !.at = "provider"]
  <1>1. ops[o] \in Op /\ ops[o].at = "queued" /\ Head(queue[ops[o].tab]) = o
    BY DEF EnsureBuiltIn, TypeInv, TypeOK
  <1>2. AtHead(o) /\ ops[o].bench # None
    <2>1. InQueue(o) /\ ops[o].tab \in Tabs /\ ops[o].bench # None
      BY <1>1 DEF Queued, TypeInv, Places, Placed, Op
    <2> QED BY <1>1, <2>1 DEF InQueue, AtHead
  <1>3. \/ Throws(o, "fault", FALSE)
        \/ Becomes(o, i) /\ queue' = Leave(o)
        \/ Becomes(o, p) /\ queue' = queue
    BY DEF EnsureBuiltIn
  <1>4. r \in Op /\ r.tab = ops[o].tab /\ r.bench = ops[o].bench
    BY <1>1, CatalogueTyped DEF Op
  <1> HIDE DEF r
  <1>5. i.at = "install" /\ p.at = "provider" /\ p.tab = ops[o].tab /\ p.bench = ops[o].bench
    BY <1>4 DEF Op
  <1> HIDE DEF i, p
  <1>6. CASE Becomes(o, i) /\ queue' = Leave(o)
    <2>1. ops'[o] = i /\ \A q \in Ops \ {o} : ops'[q] = ops[q]
      BY <1>6, OthersMove, BecomesOthers
    <2> QED BY <1>2, <1>5, <1>6, <2>1, QueueLeft DEF Off, AddSteps
  <1>7. CASE Becomes(o, p) /\ queue' = queue
    <2>1. ops'[o] = p /\ \A q \in Ops \ {o} : ops'[q] = ops[q]
      BY <1>7, OthersMove, BecomesOthers
    <2> QED BY <1>1, <1>2, <1>5, <1>7, <2>1, QueueKept DEF Off, AddSteps
  <1> QED BY <1>2, <1>3, <1>6, <1>7, ThrowsQueued

LEMMA NextBenchQueued ==
    ASSUME TypeInv, Queued, NEW o \in Ops, NEW b \in Benches, NEW a \in Reads,
           NextBench(o, b, a)
    PROVE  Queued'
  <1> DEFINE r == [ops[o] EXCEPT !.todo = @ \ {b}]
             s == [r EXCEPT !.failed = @ \cup {b}]
             q == [r EXCEPT !.at = "queued", !.bench = b]
  <1>1. ops[o].at = "next" /\ ops[o] \in Op /\ ops[o].tab \in Tabs
    BY DEF NextBench, TypeInv, TypeOK, Places, Placed, Op
  <1>2. \/ (Becomes(o, s) \/ Becomes(o, r)) /\ queue' = queue
        \/ Becomes(o, q) /\ queue' = [queue EXCEPT ![r.tab] = Append(@, o)]
    BY DEF NextBench
  <1>3. r \in Op /\ r.at = "next" /\ r.tab = ops[o].tab
    BY <1>1 DEF Op
  <1> HIDE DEF r
  <1>4. s.at = "next" /\ q.at = "queued" /\ q.bench = b /\ q.tab = ops[o].tab
    BY <1>3 DEF Op
  <1> HIDE DEF s, q
  <1>5. CASE (Becomes(o, s) \/ Becomes(o, r)) /\ queue' = queue
    BY <1>1, <1>3, <1>4, <1>5, OutsideQueued DEF Off, AddSteps
  <1>6. CASE Becomes(o, q) /\ queue' = [queue EXCEPT ![r.tab] = Append(@, o)]
    <2>1. ops'[o] = q /\ \A p \in Ops \ {o} : ops'[p] = ops[p]
      BY <1>6, OthersMove, BecomesOthers
    <2>2. b # None
      BY McpAssumption DEF McpAssumption
    <2> QED BY <1>1, <1>3, <1>4, <1>6, <2>1, <2>2, QueueJoined DEF Off, AddSteps
  <1> QED BY <1>2, <1>5, <1>6

\* The steps of a removal, of a redeploy's list, and of a deploy.
LEMMA OtherStepQueued ==
    ASSUME TypeInv, Queued, NEW o \in Ops,
           \/ \E a \in Answers : DropCredential(o, a) \/ DropProvider(o, a) \/ Install(o, a)
           \/ \E a \in Reads : ListBenches(o, a)
           \/ Finish(o)
    PROVE  Queued'
  <1>1. Off(ops[o]) /\ ops[o].at # "queued"
    BY DEF DropCredential, DropProvider, Install, ListBenches, Finish, Off, AddSteps
  <1>2. ASSUME NEW s \in {"dropProvider", "benches", "next", "done"}
        PROVE  LET r == At(o, s) IN
               /\ r.at = s /\ Cleared(r).at = s
               /\ [r EXCEPT !.todo = Benches].at = s
               /\ [Cleared(r) EXCEPT !.bench = None].at = s
    <2> DEFINE r == At(o, s)
    <2>1. r \in Op /\ r.at = s
      BY AtFields DEF Steps, Ended
    <2> HIDE DEF r
    <2>2. Cleared(r).at = s /\ [r EXCEPT !.todo = Benches].at = s /\ Cleared(r) \in Op
      BY <2>1 DEF Cleared, Op
    <2> DEFINE c == Cleared(r)
    <2> HIDE DEF c
    <2>3. [c EXCEPT !.bench = None].at = s
      BY <2>2 DEF c, Op
    <2> QED BY <2>1, <2>2, <2>3 DEF r, c
  <1>3. \/ \E why, silent : Throws(o, why, silent)
        \/ /\ queue' = queue
           /\ \E s \in {"dropProvider", "benches", "next", "done"} :
                 \/ Becomes(o, At(o, s)) \/ Becomes(o, Cleared(At(o, s)))
                 \/ Becomes(o, [At(o, s) EXCEPT !.todo = Benches])
                 \/ Becomes(o, [Cleared(At(o, s)) EXCEPT !.bench = None])
    BY Zenon DEF DropCredential, DropProvider, Install, ListBenches, Finish
  <1>4. CASE \E why, silent : Throws(o, why, silent)
    BY <1>1, <1>4, ThrowsQueued
  <1>5. ASSUME NEW s \in {"dropProvider", "benches", "next", "done"}, NEW r, Becomes(o, r),
               r.at = s, queue' = queue
        PROVE  Queued'
    BY <1>1, <1>5, OutsideQueued DEF Off, AddSteps
  <1> QED BY <1>2, <1>3, <1>4, <1>5

LEMMA StartQueued ==
    ASSUME TypeInv, Queued, NEW o \in Ops, Start(o)
    PROVE  Queued'
  <1>1. PICK r : Begun(r) /\ Begins(o, r)
    BY StartBegins
  <1>2. Off(ops[o]) /\ Becomes(o, r) /\ \A p \in Ops \ {o} : ops'[p] = ops[p]
    BY <1>1, BecomesOthers DEF Begins, Fresh, Off, AddSteps, TypeInv, Places, Placed
  <1>3. ASSUME NEW t \in Tabs, NEW b \in Benches, StartDeploy(o, t, b) PROVE Queued'
    <2> DEFINE d == [Blank EXCEPT !.kind = "deploy", !.tab = t, !.at = "queued", !.bench = b]
    <2>1. Becomes(o, d) /\ queue' = [queue EXCEPT ![t] = Append(@, o)]
      BY <1>3 DEF StartDeploy, Begins
    <2>2. d.tab = t /\ d.bench = b /\ d.at = "queued" /\ b # None
      BY McpAssumption DEF McpAssumption, Blank
    <2>3. ops'[o] = d
      BY <2>1, OthersMove
    <2> QED BY <1>2, <2>1, <2>2, <2>3, QueueJoined
  <1>4. ASSUME NEW t \in Tabs, NEW h \in Handles, NEW k \in {"add", "signIn"},
               StartAdd(o, k, t, h) \/ StartRemove(o, t, h)
        PROVE  Queued'
    <2> DEFINE a == [Blank EXCEPT !.kind = k, !.tab = t, !.handle = h, !.at = "provider"]
               d == [Blank EXCEPT !.kind = "remove", !.tab = t, !.handle = h, !.at = "drop",
                               !.target = <<creds[h].id, creds[h].provider>>]
    <2>1. (Becomes(o, a) \/ Becomes(o, d)) /\ queue' = queue
      BY <1>4 DEF StartAdd, StartRemove, Begins
    <2>2. Off(a) /\ Off(d)
      BY DEF Blank, Off, AddSteps
    <2> QED BY <1>2, <2>1, <2>2, OutsideQueued
  <1> QED BY <1>3, <1>4 DEF Start

LEMMA LoginCompletesQueued ==
    ASSUME RowInv, Queued, NEW l \in logins, LoginCompletes(l)
    PROVE  Queued'
  <1> DEFINE o == l.op
             s == [ops[o] EXCEPT !.cred = lastId + 1]
  <1>1. o \in Ops /\ ops[o] \in Op /\ TypeInv
    BY DEF RowInv, TypeInv, TypeOK
  <1>2. ops[o].at \in {"waiting", "failed", "gone"} /\ Off(ops[o])
    BY <1>1 DEF RowInv, LoginsWait, Off, AddSteps, TypeInv, Places, Placed, LoginSteps
  <1>3. s.at = ops[o].at /\ s.bench = ops[o].bench
    BY <1>1 DEF Op
  <1>4. (Becomes(o, s) \/ Becomes(o, ops[o])) /\ queue' = queue
    BY DEF LoginCompletes
  <1> QED BY <1>1, <1>2, <1>3, <1>4, OutsideQueued DEF Off

LEMMA ReloadQueued ==
    ASSUME TypeInv, Queued, NEW t \in Tabs, Reload(t)
    PROVE  Queued'
  <1>1. ops' = [o \in Ops |-> IF ops[o].tab = t /\ Running(o) THEN Stopped(o) ELSE ops[o]]
    BY DEF Reload, Stopped
  <1>2. \A o \in Ops : IF ops[o].tab = t /\ Running(o)
                       THEN ops'[o].at = "gone" /\ ops'[o].tab = t ELSE ops'[o] = ops[o]
    BY <1>1, StoppedTyped
  <1>3. queue'[t] = <<>> /\ \A u \in Tabs : u # t => queue'[u] = queue[u]
    BY DEF Reload, TypeInv, TypeOK
  <1>4. \A u \in Tabs : queue[u] \in Seq(Ops)
    BY DEF TypeInv, TypeOK
  <1>5. ASSUME NEW u \in Tabs, NEW i \in DOMAIN queue'[u]
        PROVE  LET p == queue'[u][i] IN
               /\ ops'[p].tab = u
               /\ ops'[p].bench # None
               /\ ops'[p].at = "queued" \/ (i = 1 /\ ops'[p].at \in AddSteps)
               /\ \A j \in DOMAIN queue'[u] : queue'[u][j] = p => j = i
    <2>1. u # t
      BY <1>3, <1>5
    <2>2. queue[u][i] \in Ops /\ ops[queue[u][i]].tab = u
      BY <1>3, <1>4, <1>5, <2>1 DEF Queued
    <2>3. ops'[queue[u][i]] = ops[queue[u][i]]
      BY <1>2, <2>1, <2>2
    <2> QED BY <1>3, <1>5, <2>1, <2>3 DEF Queued
  <1>6. ASSUME NEW p \in Ops, ops'[p].at = "queued" \/ ops'[p].at \in AddSteps
        PROVE  ops'[p] = ops[p] /\ ops[p].tab \in Tabs /\ ops[p].tab # t
    <2>1. ops'[p] = ops[p]
      BY <1>2, <1>6 DEF AddSteps
    <2>2. Running(p) /\ ops[p].tab \in Tabs
      BY <1>6, <2>1 DEF AddSteps, Running, Ended, TypeInv, TypeOK, Places, Placed, Op
    <2> QED BY <1>2, <1>6, <2>1, <2>2 DEF AddSteps
  <1>7. ASSUME NEW p \in Ops
        PROVE  /\ ops'[p].at = "queued" => InQueue(p)'
               /\ ops'[p].at \in AddSteps /\ ops'[p].bench # None =>
                     queue'[ops'[p].tab] # <<>> /\ Head(queue'[ops'[p].tab]) = p
    BY <1>3, <1>6 DEF Queued, InQueue
  <1> QED BY <1>5, <1>7 DEF Queued

LEMMA NextQueued ==
    ASSUME RowInv, Queued, Next
    PROVE  Queued'
  <1> USE DEF RowInv
  <1>1. ASSUME NEW o \in Ops, Step(o) PROVE Queued'
    BY <1>1, AddStepQueued, RecordQueued, EnsureBuiltInQueued, NextBenchQueued, OtherStepQueued
       DEF Step
  <1>2. ASSUME NEW l \in logins, LoginFails(l) PROVE Queued'
    BY <1>2 DEF LoginFails, Queued, InQueue
  <1> QED BY <1>1, <1>2, StartQueued, LoginCompletesQueued, ReloadQueued DEF Next

LEMMA QueuedAlways == Spec => [](CatalogueInv /\ Queued)
  <1>1. Init => Queued
    <2> SUFFICES ASSUME Init PROVE Queued
      OBVIOUS
    <2>1. \A o \in Ops : ops[o].at = "idle"
      BY DEF Init, Blank
    <2> QED BY <2>1 DEF Init, Queued, AddSteps
  <1>2. CatalogueInv /\ Queued /\ [Next]_vars => Queued'
    <2> SUFFICES ASSUME CatalogueInv, Queued, [Next]_vars PROVE Queued'
      OBVIOUS
    <2>1. CASE Next
      BY <2>1, NextQueued DEF CatalogueInv
    <2>2. CASE UNCHANGED vars
      BY <2>2 DEF vars, Queued, InQueue
    <2> QED BY <2>1, <2>2
  <1> QED BY <1>1, <1>2, CatalogueInit, CatalogueNext, PTL DEF Spec

\* Nobody waits behind an ensure that has ended: the head of a tab's queue is an
\* operation on its way, and whoever waits is in the queue (ensureQueue, settle).
THEOREM QueueMoves == Spec => []QueueServed
  <1>1. CatalogueInv /\ Queued => QueueServed
    <2> SUFFICES ASSUME CatalogueInv, Queued PROVE QueueServed
      OBVIOUS
    <2>1. ASSUME NEW t \in Tabs, queue[t] # <<>> PROVE Running(Head(queue[t]))
      <3>1. queue[t] \in Seq(Ops)
        BY DEF CatalogueInv, RowInv, TypeInv, TypeOK
      <3>2. 1 \in DOMAIN queue[t] /\ Head(queue[t]) = queue[t][1]
        BY <2>1, <3>1
      <3> QED BY <3>2 DEF Queued, Running, Ended, AddSteps
    <2> QED BY <2>1 DEF QueueServed, Queued, InQueue
  <1> QED BY <1>1, QueuedAlways, PTL

-----------------------------------------------------------------------------
(* The built-in server, while Calm *)

Ensuring(o) == ops[o].at \in AddSteps /\ ops[o].bench # None

\* What an ensure knows of the rows it adds.
Knows(o) ==
    /\ ops[o].at \in {"provider", "make", "store"} => creds[BuiltIn] = None
    /\ ops[o].at = "make" => providers[BuiltIn] = None
    /\ ops[o].at = "store" => providers[BuiltIn] = ops[o].provider
    /\ ops[o].at \in WithCred => creds[BuiltIn] # None /\ creds[BuiltIn].id = ops[o].cred
AllKnow == \A o \in Ops : Ensuring(o) => Knows(o)

\* The server's tools are listed unless an ensure is at it.
RowListed ==
    creds[BuiltIn] # None /\ creds[BuiltIn].tools # "listed" =>
        \E o \in Ops : Ensuring(o) /\ ops[o].at \in WithCred

Listed(v) == \A r \in v : r.handle = BuiltIn => r.tools = "listed"
ViewsListed ==
    /\ \A o \in Ops : Listed(ops[o].view)
    /\ \A b \in Benches : workers[b] # None => Listed(workers[b])
Unrefused == \A o \in Ops : ops[o].kind = "deploy" => ops[o].why # "conflict"

Ensured == AllKnow /\ RowListed /\ ViewsListed /\ Unrefused
CalmInv == Calm => Ensured

\* Once disturbed, always disturbed.
LEMMA CalmBefore ==
    ASSUME TypeInv, NEW o \in Ops, Moves(o), Calm'
    PROVE  Calm
  <1>1. \A p \in Ops : \/ SameJob(p)
                       \/ Enters(p)
    BY DEF Moves, Keeps, Takes, Settles
  <1>2. \A p \in Ops : Enters(p) => ops[p].heard = "all" /\ ops[p].kind = "none"
    BY DEF Enters, Fresh, TypeInv, Places, Placed, Blank
  <1> QED BY <1>1, <1>2 DEF Calm, SameJob, Fresh

\* One tab has one ensure at a time.
LEMMA OneEnsure ==
    ASSUME TypeInv, Queued, Calm, NEW o \in Ops, Ensuring(o) \/ (ops[o].at = "queued" /\ AtHead(o)),
           NEW p \in Ops, Ensuring(p)
    PROVE  p = o
  <1>1. ~Fresh(o) /\ ~Fresh(p)
    BY DEF Ensuring, AddSteps, Fresh, TypeInv, Places, Placed
  <1>2. ops[o].tab = ops[p].tab
    BY <1>1 DEF Calm
  <1>3. Head(queue[ops[p].tab]) = p /\ Head(queue[ops[o].tab]) = o
    BY DEF Ensuring, Queued, AtHead
  <1> QED BY <1>2, <1>3

SameRows == creds'[BuiltIn] = creds[BuiltIn] /\ providers'[BuiltIn] = providers[BuiltIn]

\* A step of one operation that keeps what the ensures know.
LEMMA StepEnsured ==
    ASSUME TypeInv, Ensured, NEW o \in Ops, \A p \in Ops \ {o} : ops'[p] = ops[p],
           SameRows \/ \A p \in Ops \ {o} : ~Ensuring(p),
           Ensuring(o)' => Knows(o)', RowListed', Listed(ops'[o].view),
           \A b \in Benches : workers'[b] \in {workers[b], ops[o].view},
           ops'[o].kind = "deploy" => ops'[o].why # "conflict"
    PROVE  Ensured'
  <1>1. AllKnow'
    BY DEF Ensured, AllKnow, Ensuring, Knows, SameRows
  <1>2. ViewsListed'
    BY DEF Ensured, ViewsListed, Listed
  <1>3. Unrefused'
    BY DEF Ensured, Unrefused
  <1> QED BY <1>1, <1>2, <1>3 DEF Ensured

\* A step outside an ensure that leaves the built-in server's rows alone.
LEMMA OutsideEnsured ==
    ASSUME TypeInv, Ensured, NEW o \in Ops, \A p \in Ops \ {o} : ops'[p] = ops[p],
           SameRows, ~Ensuring(o), ~Ensuring(o)', Listed(ops'[o].view),
           \A b \in Benches : workers'[b] \in {workers[b], ops[o].view},
           ops'[o].kind = "deploy" => ops'[o].why # "conflict"
    PROVE  Ensured'
  <1>1. RowListed'
    BY DEF Ensured, RowListed, SameRows, Ensuring
  <1> QED BY <1>1, StepEnsured

\* What a step makes of the view and the reason.
Plain(o) == /\ ops'[o].view \in {ops[o].view, {}}
            /\ ops'[o].why = ops[o].why
            /\ ops'[o].kind = ops[o].kind
            /\ ops'[o].bench \in {ops[o].bench, None}

LEMMA PlainForms ==
    ASSUME TypeInv, NEW o \in Ops, NEW s \in Steps \cup Ended, NEW v,
           \/ Becomes(o, At(o, s)) \/ Becomes(o, Cleared(At(o, s)))
           \/ Becomes(o, [At(o, s) EXCEPT !.todo = v])
           \/ Becomes(o, [At(o, s) EXCEPT !.provider = v])
           \/ Becomes(o, [At(o, s) EXCEPT !.cred = v])
           \/ Becomes(o, [Cleared(At(o, s)) EXCEPT !.bench = None])
    PROVE  Plain(o) /\ ops'[o].at = s
  <1> DEFINE r == At(o, s)
             c == Cleared(r)
  <1>1. r \in Op /\ r.at = s /\ r.view = ops[o].view /\ r.why = ops[o].why /\ r.kind = ops[o].kind
        /\ r.bench = ops[o].bench
    BY AtFields
  <1>2. PICK q : /\ Becomes(o, q)
                 /\ \/ q = r \/ q = c \/ q = [r EXCEPT !.todo = v] \/ q = [r EXCEPT !.provider = v]
                    \/ q = [r EXCEPT !.cred = v] \/ q = [c EXCEPT !.bench = None]
    OBVIOUS
  <1> HIDE DEF r
  <1>3. c \in Op /\ c.at = s /\ c.view = {} /\ c.why = ops[o].why /\ c.kind = ops[o].kind
        /\ c.bench = ops[o].bench
    BY <1>1 DEF Cleared, Op
  <1> HIDE DEF c
  <1>4. q.at = s /\ q.view \in {ops[o].view, {}} /\ q.why = ops[o].why /\ q.kind = ops[o].kind
        /\ q.bench \in {ops[o].bench, None}
    BY <1>1, <1>2, <1>3 DEF Op
  <1>5. ops'[o] = q
    BY <1>2, OthersMove
  <1> QED BY <1>4, <1>5 DEF Plain

\* What an error makes of them.
LEMMA ThrowsPlain ==
    ASSUME TypeInv, NEW o \in Ops, NEW why, NEW silent, Throws(o, why, silent)
    PROVE  /\ ops'[o].view = {} /\ ops'[o].why \in {ops[o].why, why}
           /\ ops'[o].kind = ops[o].kind
           /\ ~Ensuring(o)'
           /\ \A p \in Ops \ {o} : ops'[p] = ops[p]
  <1>1. ops'[o] = Thrown(o, why, silent)
    BY OthersMove DEF Throws
  <1> QED BY <1>1, ThrownFields, ThrowsHeard DEF Ensuring, AddSteps

\* Outside an ensure nobody adds or removes the built-in server.
LEMMA OutsideRows ==
    ASSUME TypeInv, Calm, NEW o \in Ops, Step(o), ~Ensuring(o)
    PROVE  SameRows
  <1>1. ops[o] \in Op /\ Placed(ops[o])
    BY DEF TypeInv, TypeOK, Places
  <1>2. ops[o].at \in AddSteps => Adding(o) # BuiltIn
    BY <1>1 DEF Ensuring, Placed, Calm, Adding
  <1>3. ops[o].at \in {"drop", "dropProvider"} => ops[o].handle # BuiltIn
    BY <1>1 DEF Placed, Calm
  <1>4. ASSUME NEW a \in Answers, MakeProvider(o, a) \/ Store(o, a) \/ Record(o, a) \/ Undo(o, a)
        PROVE  SameRows
    BY <1>2, <1>4, McpAssumption
       DEF McpAssumption, MakeProvider, Store, StoreRow, Record, Undo, SameRows, AddSteps,
           TypeInv, TypeOK
  <1>5. ASSUME NEW a \in Answers, DropCredential(o, a) \/ DropProvider(o, a) \/ Install(o, a)
        PROVE  SameRows
    BY <1>3, <1>5, McpAssumption
       DEF McpAssumption, DropCredential, DropProvider, Install, SameRows, TypeInv, TypeOK
  <1> QED
    BY <1>4, <1>5
       DEF Step, FindProvider, OpenLogin, Poll, ReadCredential, ListBenches, EnsureBuiltIn, NextBench, Discover,
           Finish, hub, SameRows

LEMMA OutsideAddEnsured ==
    ASSUME RowInv, Calm, Ensured, NEW o \in Ops, Step(o), ~Ensuring(o), ops[o].at \in AddSteps
    PROVE  Ensured'
  <1> USE DEF RowInv
  <1>1. SameRows /\ ops[o].kind # "deploy" /\ ops[o].bench = None
        /\ \A p \in Ops \ {o} : ops'[p] = ops[p]
    BY OutsideRows, StepOthers DEF Ensuring, TypeInv, Places, Placed
  <1>2. /\ ops'[o].view \in {ops[o].view, {}} /\ ops'[o].kind = ops[o].kind
        /\ ~Ensuring(o)'
    <2>1. CASE \E why, silent : Throws(o, why, silent)
      BY <2>1, ThrowsPlain
    <2>2. CASE Becomes(o, Recorded(o)) /\ ops[o].at = "record"
      BY <1>1, <2>2, RecordedTyped, OthersMove DEF Ensuring, AddSteps, Told
    <2>3. CASE \E s \in AddSteps : \E v :
                  \/ Becomes(o, At(o, s)) \/ Becomes(o, [At(o, s) EXCEPT !.provider = v])
                  \/ Becomes(o, [At(o, s) EXCEPT !.cred = v])
      <3>1. Plain(o)
        BY <2>3, PlainForms DEF AddSteps, Steps
      <3> QED BY <1>1, <3>1 DEF Plain, Ensuring
    <2>4. /\ StoreStep(o) \in AddSteps
          /\ {"make", "read", "discover", "waiting", "record", "undo"} \subseteq AddSteps
      BY DEF StoreStep, AddSteps
    <2>5. ASSUME NEW a \in Answers, MakeProvider(o, a) \/ Store(o, a) \/ Undo(o, a)
          PROVE  \/ \E why, silent : Throws(o, why, silent)
                 \/ Becomes(o, [At(o, StoreStep(o)) EXCEPT !.provider = lastId + 1])
                 \/ Becomes(o, [At(o, "discover") EXCEPT !.cred = lastId + 1])
      BY <2>5, Zenon DEF MakeProvider, Store, Undo
    <2>6. ASSUME NEW a \in Answers, Record(o, a)
          PROVE  \/ \E why, silent : Throws(o, why, silent)
                 \/ Becomes(o, Recorded(o)) /\ ops[o].at = "record"
                 \/ Becomes(o, At(o, "undo"))
      BY <2>6, Zenon DEF Record
    <2>7. ASSUME NEW a \in Reads, FindProvider(o, a) \/ OpenLogin(o, a) \/ Poll(o, a) \/ ReadCredential(o, a)
          PROVE  \/ \E why, silent : Throws(o, why, silent)
                 \/ Becomes(o, At(o, "make")) \/ Becomes(o, At(o, "waiting"))
                 \/ Becomes(o, At(o, "read")) \/ Becomes(o, At(o, "discover"))
                 \/ Becomes(o, [At(o, StoreStep(o)) EXCEPT !.provider = providers[Adding(o)]])
      BY <2>7, Zenon DEF FindProvider, OpenLogin, Poll, ReadCredential
    <2>8. ASSUME NEW answered \in BOOLEAN, Discover(o, answered)
          PROVE  Becomes(o, At(o, "record")) \/ Becomes(o, At(o, "undo"))
      BY <2>8 DEF Discover
    <2>9. \/ \E a \in Answers : MakeProvider(o, a) \/ Store(o, a) \/ Undo(o, a) \/ Record(o, a)
          \/ \E a \in Reads : FindProvider(o, a) \/ OpenLogin(o, a) \/ Poll(o, a) \/ ReadCredential(o, a)
          \/ \E answered \in BOOLEAN : Discover(o, answered)
      BY DEF Step, DropCredential, DropProvider, Install, ListBenches, EnsureBuiltIn, NextBench,
             Finish, AddSteps
    <2> QED BY <2>1, <2>2, <2>3, <2>4, <2>5, <2>6, <2>7, <2>8, <2>9
  <1>3. workers' = workers
    BY DEF Step, MakeProvider, Store, Record, Undo, DropCredential, DropProvider, Install,
           FindProvider, OpenLogin, Poll, ReadCredential, ListBenches, EnsureBuiltIn, NextBench, Discover, Finish,
           hub, AddSteps
  <1>4. Listed(ops'[o].view)
    BY <1>2 DEF Ensured, ViewsListed, Listed
  <1> QED BY <1>1, <1>2, <1>3, <1>4, OutsideEnsured

\* A step that ends, or stays out of, an ensure.
Outside(o) == /\ ops'[o].view \in {ops[o].view, {}} /\ ~Ensuring(o)'
              /\ ops'[o].kind = "deploy" => ops'[o].why # "conflict"

LEMMA ThrowsOutside ==
    ASSUME TypeInv, Unrefused, NEW o \in Ops, NEW why, NEW silent, Throws(o, why, silent),
           ops[o].kind = "deploy" => why # "conflict"
    PROVE  Outside(o)
  BY ThrowsPlain DEF Outside, Unrefused

LEMMA NextBenchOutside ==
    ASSUME TypeInv, Unrefused, NEW o \in Ops, NEW b \in Benches, NEW a \in Reads, NextBench(o, b, a)
    PROVE  Outside(o)
  <1> DEFINE r == [ops[o] EXCEPT !.todo = @ \ {b}]
             s == [r EXCEPT !.failed = @ \cup {b}]
             q == [r EXCEPT !.at = "queued", !.bench = b]
  <1>1. ops[o] \in Op /\ ops[o].at = "next"
    BY DEF NextBench, TypeInv, TypeOK
  <1>2. Becomes(o, r) \/ Becomes(o, s) \/ Becomes(o, q)
    BY DEF NextBench
  <1>3. r \in Op /\ r.at = "next" /\ r.view = ops[o].view /\ r.kind = ops[o].kind
        /\ r.why = ops[o].why
    BY <1>1 DEF Op
  <1> HIDE DEF r
  <1>4. \A z \in {r, s, q} : /\ z.view = ops[o].view /\ z.kind = ops[o].kind /\ z.why = ops[o].why
                             /\ z.at \in {"next", "queued"}
    BY <1>3 DEF Op
  <1>5. ops'[o] \in {r, s, q}
    BY <1>2, OthersMove
  <1> HIDE DEF s, q
  <1> QED BY <1>4, <1>5 DEF Outside, Unrefused, Ensuring, AddSteps

\* The steps of a removal, of a redeploy's list, and of a deploy.
LEMMA OtherEnsured ==
    ASSUME RowInv, Calm, Ensured, NEW o \in Ops, Step(o), ops[o].at \notin AddSteps \cup {"queued"}
    PROVE  Ensured'
  <1> USE DEF RowInv
  <1>1. SameRows /\ ~Ensuring(o) /\ \A p \in Ops \ {o} : ops'[p] = ops[p]
    BY OutsideRows, StepOthers DEF Ensuring
  <1>2. ops[o] \in Op /\ Placed(ops[o]) /\ Unrefused
    BY DEF TypeInv, TypeOK, Places, Ensured
  <1>3. ASSUME NEW s \in {"dropProvider", "benches", "next", "done"},
               \/ Becomes(o, At(o, s)) \/ Becomes(o, Cleared(At(o, s)))
               \/ Becomes(o, [At(o, s) EXCEPT !.todo = Benches])
               \/ Becomes(o, [Cleared(At(o, s)) EXCEPT !.bench = None])
        PROVE  Outside(o)
    <2>1. Plain(o) /\ ops'[o].at = s
      BY <1>3, PlainForms DEF Steps, Ended
    <2> QED BY <1>2, <2>1 DEF Plain, Outside, Ensuring, AddSteps, Unrefused
  <1>4. ASSUME NEW a \in Answers, DropCredential(o, a) \/ DropProvider(o, a) \/ Install(o, a)
        PROVE  Outside(o)
    <2>1. DropCredential(o, a) => ops[o].kind # "deploy"
      BY <1>2 DEF DropCredential, Placed
    <2>2. \/ \E why, silent : Throws(o, why, silent) /\ (ops[o].kind = "deploy" => why # "conflict")
          \/ \E s \in {"dropProvider", "benches", "next", "done"} :
                \/ Becomes(o, At(o, s)) \/ Becomes(o, Cleared(At(o, s)))
                \/ Becomes(o, [Cleared(At(o, s)) EXCEPT !.bench = None])
      <3>1. CASE DropCredential(o, a)
        BY <2>1, <3>1, Zenon DEF DropCredential
      <3>2. CASE DropProvider(o, a) \/ Install(o, a)
        <4>1. "fault" # "conflict"
          OBVIOUS
        <4> QED BY <3>2, <4>1, Zenon DEF DropProvider, Install
      <3> QED BY <1>4, <3>1, <3>2
    <2> QED BY <1>2, <1>3, <2>2, ThrowsOutside
  <1>5. ASSUME NEW a \in Reads, ListBenches(o, a)
        PROVE  Outside(o)
    <2>1. \/ Throws(o, "fault", FALSE)
          \/ Becomes(o, [At(o, "next") EXCEPT !.todo = Benches])
      BY <1>5 DEF ListBenches
    <2> QED BY <1>2, <1>3, <2>1, ThrowsOutside
  <1>6. ASSUME Finish(o) PROVE Outside(o)
    BY <1>3, <1>6 DEF Finish
  <1>7. Outside(o)
    BY <1>2, <1>4, <1>5, <1>6, NextBenchOutside
       DEF Step, MakeProvider, Store, Record, Undo, FindProvider, OpenLogin, Poll, ReadCredential, EnsureBuiltIn,
           Discover, AddSteps
  <1>8. \A b \in Benches : workers'[b] \in {workers[b], ops[o].view}
    BY DEF Step, MakeProvider, Store, Record, Undo, DropCredential, DropProvider, Install,
           FindProvider, OpenLogin, Poll, ReadCredential, ListBenches, EnsureBuiltIn, NextBench, Discover, Finish,
           hub, TypeInv, TypeOK
  <1>9. Listed(ops'[o].view)
    BY <1>7 DEF Outside, Ensured, ViewsListed, Listed
  <1> QED BY <1>1, <1>7, <1>8, <1>9, OutsideEnsured DEF Outside

\* What a step inside an ensure leaves.
Inside(o) == /\ Ensuring(o)' => Knows(o)'
             /\ RowListed' /\ Listed(ops'[o].view)
             /\ ops'[o].kind = "deploy" => ops'[o].why # "conflict"

\* What an ensure starts a step with.
InEnsure(o) == TypeInv /\ o \in Ops /\ Ensuring(o) /\ Knows(o) /\ Unrefused /\ Listed(ops[o].view)

LEMMA EnsureFields ==
    ASSUME NEW o, InEnsure(o)
    PROVE  /\ Adding(o) = BuiltIn /\ StoreStep(o) = "store"
           /\ ops[o].at \notin {"login", "waiting", "read"}
           /\ ops[o] \in Op /\ BuiltIn \in Handles
           /\ providers \in [Handles -> Nat \cup {None}] /\ creds \in [Handles -> Cred \cup {None}]
           /\ lastId \in Nat
  BY McpAssumption DEF McpAssumption, InEnsure, Ensuring, Adding, StoreStep, TypeInv, TypeOK,
     Places, Placed, LoginSteps

\* A request that is refused ends the ensure and leaves no row of it.
LEMMA ThrowsInside ==
    ASSUME NEW o, InEnsure(o), NEW why \in {"fault", "unreachable"}, NEW silent,
           Throws(o, why, silent), creds'[BuiltIn] = None
    PROVE  Inside(o)
  <1>1. RowListed'
    BY DEF RowListed
  <1>2. o \in Ops /\ TypeInv /\ Unrefused
    BY DEF InEnsure
  <1>3. ops'[o].view = {} /\ ops'[o].why \in {ops[o].why, why} /\ ops'[o].kind = ops[o].kind
        /\ ~Ensuring(o)'
    BY <1>2, ThrowsPlain
  <1> QED BY <1>1, <1>2, <1>3 DEF Inside, Listed, Unrefused

\* The ensure goes on.
LEMMA PlainInside ==
    ASSUME NEW o, InEnsure(o), Plain(o), Knows(o)',
           \/ creds'[BuiltIn] = None
           \/ ops'[o].at \in WithCred /\ ops'[o].bench # None
    PROVE  Inside(o)
  <1>1. RowListed'
    BY DEF RowListed, Ensuring, AddSteps, WithCred, InEnsure
  <1> QED BY <1>1 DEF Inside, InEnsure, Plain, Unrefused, Listed

LEMMA FindProviderInside ==
    ASSUME NEW o, InEnsure(o), NEW a \in Reads, FindProvider(o, a)
    PROVE  Inside(o)
  <1>1. Adding(o) = BuiltIn /\ StoreStep(o) = "store" /\ o \in Ops /\ TypeInv
    BY EnsureFields DEF InEnsure
  <1>2. ops[o].at = "provider" /\ creds' = creds /\ providers' = providers /\ creds[BuiltIn] = None
    BY DEF FindProvider, hub, InEnsure, Knows
  <1>3. CASE Throws(o, "fault", FALSE)
    BY <1>2, <1>3, ThrowsInside
  <1>4. CASE Becomes(o, At(o, "make")) /\ providers[BuiltIn] = None
    <2>1. Plain(o) /\ ops'[o].at = "make"
      BY <1>1, <1>4, PlainForms DEF Steps
    <2> QED BY <1>2, <1>4, <2>1, PlainInside DEF Knows, WithCred
  <1>5. CASE Becomes(o, [At(o, "store") EXCEPT !.provider = providers[BuiltIn]])
    <2>1. Plain(o) /\ ops'[o].at = "store"
      BY <1>1, <1>5, PlainForms DEF Steps
    <2>2. ops'[o].provider = providers[BuiltIn]
      BY <1>1, <1>5, AtFields, OthersMove DEF Steps, Op
    <2> QED BY <1>2, <2>1, <2>2, PlainInside DEF Knows, WithCred
  <1> QED BY <1>1, <1>3, <1>4, <1>5 DEF FindProvider

LEMMA MakeProviderInside ==
    ASSUME NEW o, InEnsure(o), NEW a \in Answers, MakeProvider(o, a), ops'[o].heard = "all"
    PROVE  Inside(o)
  <1>1. Adding(o) = BuiltIn /\ StoreStep(o) = "store" /\ o \in Ops /\ TypeInv /\ BuiltIn \in Handles
        /\ providers \in [Handles -> Nat \cup {None}]
    BY EnsureFields DEF InEnsure
  <1>2. ops[o].at = "make" /\ creds' = creds /\ creds[BuiltIn] = None /\ providers[BuiltIn] = None
    BY DEF MakeProvider, InEnsure, Knows
  <1>3. CASE a = "ok"
    <2>1. Becomes(o, [At(o, "store") EXCEPT !.provider = lastId + 1])
          /\ providers'[BuiltIn] = lastId + 1
      BY <1>1, <1>2, <1>3 DEF MakeProvider, Handled
    <2>2. Plain(o) /\ ops'[o].at = "store"
      BY <1>1, <2>1, PlainForms DEF Steps
    <2>3. ops'[o].provider = lastId + 1
      BY <1>1, <2>1, AtFields, OthersMove DEF Steps, Op
    <2> QED BY <1>2, <2>1, <2>2, <2>3, PlainInside DEF Knows, WithCred
  <1>4. CASE a # "ok"
    <2>1. Throws(o, "fault", Silent(a))
      BY <1>4 DEF MakeProvider
    <2> QED BY <1>2, <2>1, ThrowsInside
  <1> QED BY <1>3, <1>4

LEMMA StoreInside ==
    ASSUME NEW o, InEnsure(o), NEW a \in Answers, Store(o, a), ops'[o].heard = "all"
    PROVE  Inside(o)
  <1>1. Adding(o) = BuiltIn /\ o \in Ops /\ TypeInv /\ BuiltIn \in Handles /\ lastId \in Nat
        /\ creds \in [Handles -> Cred \cup {None}]
    BY EnsureFields DEF InEnsure
  <1>2. ops[o].at = "store" /\ Storable(BuiltIn, ops[o].provider) /\ creds[BuiltIn] = None
        /\ ops[o].bench # None
    BY DEF Store, Storable, InEnsure, Knows, Ensuring
  <1>3. CASE a = "ok"
    <2>1. Becomes(o, [At(o, "discover") EXCEPT !.cred = lastId + 1])
      BY <1>1, <1>2, <1>3 DEF Store
    <2>2. creds'[BuiltIn] = [id |-> lastId + 1, provider |-> ops[o].provider, tools |-> "unlisted"]
      BY <1>1, <1>2, <1>3 DEF Store, StoreRow, Handled
    <2>3. creds'[BuiltIn] # None /\ creds'[BuiltIn].id = lastId + 1
      <3>1. ops[o].provider \in Nat
        BY <1>1, <1>2 DEF TypeInv, Places, Placed, WithProvider
      <3>2. creds'[BuiltIn] \in Cred
        BY <1>1, <2>2, <3>1 DEF Cred, Tools
      <3> QED BY <2>2, <3>2, McpAssumption DEF McpAssumption
    <2>4. Plain(o) /\ ops'[o].at = "discover"
      BY <1>1, <2>1, PlainForms DEF Steps
    <2>5. ops'[o].cred = lastId + 1 /\ ops'[o].bench = ops[o].bench
      BY <1>1, <2>1, AtFields, OthersMove DEF Steps, Op
    <2> QED BY <1>2, <2>3, <2>4, <2>5, PlainInside DEF Knows, WithCred
  <1>4. CASE a # "ok"
    <2>1. Throws(o, "fault", Silent(a))
      BY <1>4 DEF Store
    <2>2. ~Silent(a)
      BY <1>1, <2>1, ThrowsHeard
    <2>3. creds' = creds
      BY <1>4, <2>2 DEF Store, Handled, Silent, Answers
    <2> QED BY <1>2, <2>1, <2>3, ThrowsInside
  <1> QED BY <1>3, <1>4

LEMMA DiscoverInside ==
    ASSUME NEW o, InEnsure(o), NEW answered \in BOOLEAN, Discover(o, answered)
    PROVE  Inside(o)
  <1>1. o \in Ops /\ TypeInv /\ creds' = creds /\ ops[o].at = "discover" /\ ops[o].bench # None
    BY DEF InEnsure, Discover, hub, Ensuring
  <1>2. PICK s \in {"record", "undo"} : Becomes(o, At(o, s))
    BY DEF Discover
  <1>3. Plain(o) /\ ops'[o].at = s
    BY <1>1, <1>2, PlainForms DEF Steps
  <1>4. ops'[o].cred = ops[o].cred /\ ops'[o].bench = ops[o].bench
    BY <1>1, <1>2, AtFields, OthersMove DEF Steps
  <1> QED BY <1>1, <1>3, <1>4, PlainInside DEF InEnsure, Knows, WithCred

LEMMA RecordInside ==
    ASSUME NEW o, InEnsure(o), NEW a \in Answers, Record(o, a), ops'[o].heard = "all"
    PROVE  Inside(o)
  <1>1. Adding(o) = BuiltIn /\ o \in Ops /\ TypeInv /\ BuiltIn \in Handles
        /\ creds \in [Handles -> Cred \cup {None}] /\ ops[o].bench # None /\ ops[o].at = "record"
    BY EnsureFields DEF InEnsure, Ensuring, Record
  <1>2. creds[BuiltIn] # None /\ creds[BuiltIn].id = ops[o].cred /\ Mine(o)
    BY <1>1 DEF InEnsure, Knows, WithCred, Mine
  <1>3. ~Silent(a)
    <2>1. Silent(a) => Throws(o, "fault", TRUE)
      BY DEF Record, Silent
    <2> QED BY <1>1, <2>1, ThrowsHeard
  <1>4. CASE a = "ok"
    <2>1. Becomes(o, Recorded(o)) /\ creds' = [creds EXCEPT ![BuiltIn].tools = "listed"]
      BY <1>1, <1>2, <1>3, <1>4 DEF Record, Handled
    <2>2. creds'[BuiltIn].tools = "listed"
      BY <1>1, <1>2, <2>1 DEF Cred
    <2>3. ops'[o] = Recorded(o)
      BY <1>1, <2>1, OthersMove
    <2>4. /\ ops'[o].at = "install" /\ ops'[o].kind = ops[o].kind /\ ops'[o].why = ops[o].why
          /\ ops'[o].view = ops[o].view \cup
                {[handle |-> BuiltIn, id |-> ops[o].cred, tools |-> "listed"]}
      BY <1>1, <2>3, RecordedTyped DEF Told
    <2>5. RowListed'
      BY <2>2 DEF RowListed
    <2>6. Listed(ops'[o].view)
      BY <2>4 DEF Listed, InEnsure
    <2> QED BY <1>1, <2>4, <2>5, <2>6 DEF Inside, Ensuring, AddSteps, InEnsure, Unrefused
  <1>5. CASE a # "ok"
    <2>1. Becomes(o, At(o, "undo")) /\ creds' = creds
      BY <1>3, <1>5 DEF Record, Handled, Silent, Answers
    <2>2. Plain(o) /\ ops'[o].at = "undo"
      BY <1>1, <2>1, PlainForms DEF Steps
    <2>3. ops'[o].cred = ops[o].cred /\ ops'[o].bench = ops[o].bench
      BY <1>1, <2>1, AtFields, OthersMove DEF Steps
    <2> QED BY <1>1, <1>2, <2>1, <2>2, <2>3, PlainInside DEF Knows, WithCred
  <1> QED BY <1>4, <1>5

LEMMA UndoInside ==
    ASSUME NEW o, InEnsure(o), NEW a \in Answers, Undo(o, a), ops'[o].heard = "all"
    PROVE  Inside(o)
  <1>1. Adding(o) = BuiltIn /\ o \in Ops /\ TypeInv /\ BuiltIn \in Handles
        /\ creds \in [Handles -> Cred \cup {None}] /\ Mine(o)
    BY EnsureFields DEF InEnsure, Ensuring, Undo, Knows, WithCred, Mine
  <1>2. Throws(o, "unreachable", a # "ok")
    BY DEF Undo
  <1>3. a = "ok"
    BY <1>1, <1>2, ThrowsHeard
  <1>4. creds'[BuiltIn] = None
    BY <1>1, <1>3 DEF Undo, Handled
  <1> QED BY <1>2, <1>4, ThrowsInside

\* A step of an ensure.
LEMMA InsideEnsured ==
    ASSUME RowInv, Queued, Calm, Calm', Ensured, NEW o \in Ops, Step(o), Ensuring(o)
    PROVE  Ensured'
  <1> USE DEF RowInv
  <1>1. InEnsure(o) /\ ops'[o].heard = "all"
    BY DEF InEnsure, Ensured, AllKnow, ViewsListed, Calm
  <1>2. ops[o].at \in AddSteps /\ ops[o].at \notin {"login", "waiting", "read"}
    BY <1>1, EnsureFields DEF Ensuring
  <1>3. Inside(o)
    BY <1>1, <1>2, FindProviderInside, MakeProviderInside, StoreInside, DiscoverInside,
       RecordInside, UndoInside
       DEF Step, DropCredential, DropProvider, Install, OpenLogin, Poll, ReadCredential, ListBenches,
           EnsureBuiltIn, NextBench, Finish, AddSteps
  <1>4. workers' = workers
    BY <1>2 DEF Step, MakeProvider, Store, Record, Undo, DropCredential, DropProvider, Install,
           FindProvider, OpenLogin, Poll, ReadCredential, ListBenches, EnsureBuiltIn, NextBench, Discover, Finish,
           hub, AddSteps
  <1>5. \A p \in Ops \ {o} : ops'[p] = ops[p] /\ ~Ensuring(p)
    BY StepOthers, OneEnsure
  <1> QED BY <1>3, <1>4, <1>5, StepEnsured DEF Inside

\* An ensure begins when no other is under way in the tab.
LEMMA EnsureBuiltInEnsured ==
    ASSUME RowInv, Queued, Calm, Ensured, NEW o \in Ops, NEW a \in Reads, EnsureBuiltIn(o, a)
    PROVE  Ensured'
  <1> USE DEF RowInv
  <1> DEFINE r == [ops[o] EXCEPT !.view = Catalogue]
             i == [r EXCEPT !.at = "install"]
             p == [r EXCEPT !.at = "provider"]
             listed == \E x \in Catalogue : x.handle = BuiltIn
  <1>1. ops[o] \in Op /\ ops[o].at = "queued" /\ Head(queue[ops[o].tab]) = o /\ ~Ensuring(o)
        /\ SameRows /\ workers' = workers
    BY DEF EnsureBuiltIn, TypeInv, TypeOK, Ensuring, AddSteps, hub, SameRows
  <1>2. AtHead(o)
    <2>1. InQueue(o) /\ ops[o].tab \in Tabs
      BY <1>1 DEF Queued, TypeInv, Places, Placed, Op
    <2> QED BY <1>1, <2>1 DEF InQueue, AtHead
  <1>3. \A q \in Ops \ {o} : ops'[q] = ops[q]
    BY StepOthers DEF Step
  <1>4. \A q \in Ops : ~Ensuring(q)
    BY <1>1, <1>2, OneEnsure
  <1>5. creds[BuiltIn] # None => creds[BuiltIn].tools = "listed"
    BY <1>4 DEF Ensured, RowListed
  <1>6. Listed(Catalogue) /\ (~listed => creds[BuiltIn] = None)
    <2>1. Listed(Catalogue)
      BY <1>5 DEF Listed, Catalogue
    <2>2. ASSUME creds[BuiltIn] # None PROVE listed
      <3>1. [handle |-> BuiltIn, id |-> creds[BuiltIn].id, tools |-> creds[BuiltIn].tools]
              \in Catalogue
        BY <1>5, <2>2, McpAssumption DEF McpAssumption, Catalogue
      <3> QED BY <3>1
    <2> QED BY <2>1, <2>2
  <1>7. r \in Op /\ r.view = Catalogue /\ r.kind = ops[o].kind /\ r.why = ops[o].why
        /\ r.bench = ops[o].bench
    BY <1>1, CatalogueTyped DEF Op
  <1>8. \/ Throws(o, "fault", FALSE)
        \/ Becomes(o, i)
        \/ Becomes(o, p) /\ ~listed
    BY DEF EnsureBuiltIn
  <1> HIDE DEF r, listed
  <1>9. /\ i.at = "install" /\ p.at = "provider"
        /\ i.view = Catalogue /\ i.kind = ops[o].kind /\ i.why = ops[o].why
        /\ p.view = Catalogue /\ p.kind = ops[o].kind /\ p.why = ops[o].why
    BY <1>7 DEF Op
  <1> HIDE DEF i, p
  <1>10. ops[o].kind = "deploy" => ops[o].why # "conflict"
    BY DEF Ensured, Unrefused
  <1>11. CASE Throws(o, "fault", FALSE)
    <2>1. Outside(o)
      BY <1>11, ThrowsOutside DEF Ensured
    <2>2. Listed(ops'[o].view)
      BY <2>1 DEF Outside, Ensured, ViewsListed, Listed
    <2> QED BY <1>1, <1>3, <2>1, <2>2, OutsideEnsured DEF Outside
  <1>12. CASE Becomes(o, i)
    <2>1. ops'[o] = i
      BY <1>12, OthersMove
    <2> QED BY <1>1, <1>3, <1>6, <1>9, <1>10, <2>1, OutsideEnsured DEF Ensuring, AddSteps
  <1>13. CASE Becomes(o, p) /\ ~listed
    <2>1. ops'[o] = p
      BY <1>13, OthersMove
    <2>2. Knows(o)' /\ RowListed'
      BY <1>1, <1>6, <1>9, <1>13, <2>1 DEF Knows, WithCred, RowListed, SameRows
    <2> QED BY <1>1, <1>3, <1>6, <1>9, <1>10, <2>1, <2>2, StepEnsured
  <1> QED BY <1>8, <1>11, <1>12, <1>13

\* Nothing of the built-in server moves.
LEMMA StillEnsured ==
    ASSUME Ensured, NEW o \in Ops, \A p \in Ops \ {o} : ops'[p] = ops[p],
           SameRows, UNCHANGED workers, ~Ensuring(o), ~Ensuring(o)',
           ops'[o].view \in {ops[o].view, {}},
           ops'[o].why \in {ops[o].why, "none"}, ops'[o].kind = ops[o].kind \/ ops'[o].why = "none"
    PROVE  Ensured'
  <1>1. AllKnow'
    BY DEF Ensured, AllKnow, Ensuring, Knows, SameRows
  <1>2. RowListed'
    BY DEF Ensured, RowListed, SameRows, Ensuring
  <1>3. ViewsListed'
    BY DEF Ensured, ViewsListed, Listed
  <1>4. Unrefused'
    BY DEF Ensured, Unrefused
  <1> QED BY <1>1, <1>2, <1>3, <1>4 DEF Ensured

LEMMA StartEnsured ==
    ASSUME TypeInv, Ensured, NEW o \in Ops, Start(o)
    PROVE  Ensured'
  <1>1. PICK r : Begun(r) /\ Begins(o, r)
    BY StartBegins
  <1>2. ops'[o] = r /\ ~Ensuring(o) /\ \A p \in Ops \ {o} : ops'[p] = ops[p]
    BY <1>1, OthersMove, BecomesOthers
       DEF Begins, Fresh, Ensuring, AddSteps, TypeInv, Places, Placed
  <1>3. ~Ensuring(o)'
    BY <1>1, <1>2 DEF Begun, Ensuring, AddSteps
  <1>4. ops'[o].view = {} /\ ops'[o].why = "none"
    BY <1>1, <1>2 DEF Begun
  <1>5. SameRows /\ UNCHANGED workers
    BY DEF Start, StartAdd, StartRemove, StartDeploy, hub, SameRows
  <1> QED BY <1>2, <1>3, <1>4, <1>5, StillEnsured

LEMMA LoginCompletesEnsured ==
    ASSUME RowInv, Calm, Ensured, NEW l \in logins, LoginCompletes(l)
    PROVE  Ensured'
  <1> USE DEF RowInv
  <1> DEFINE o == l.op
             s == [ops[o] EXCEPT !.cred = lastId + 1]
  <1>1. o \in Ops /\ ops[o] \in Op
    BY DEF TypeInv, TypeOK
  <1>2. ops[o].kind = "signIn" /\ ops[o].at \in {"waiting", "failed", "gone"} /\ ~Ensuring(o)
    BY <1>1 DEF LoginsWait, Ensuring, AddSteps, TypeInv, Places, Placed, LoginSteps
  <1>3. SameRows /\ UNCHANGED workers
    BY <1>1, <1>2, McpAssumption
       DEF McpAssumption, LoginCompletes, StoreRow, SameRows, Calm, TypeInv, TypeOK
  <1>4. ops'[o] \in {s, ops[o]} /\ \A p \in Ops \ {o} : ops'[p] = ops[p]
    BY <1>1, OthersMove, BecomesOthers DEF LoginCompletes
  <1>5. s.at = ops[o].at /\ s.bench = ops[o].bench /\ s.view = ops[o].view /\ s.why = ops[o].why
        /\ s.kind = ops[o].kind
    BY <1>1 DEF Op
  <1> HIDE DEF s
  <1> QED BY <1>1, <1>2, <1>3, <1>4, <1>5, StillEnsured DEF Ensuring

LEMMA NextEnsured ==
    ASSUME RowInv, Queued, CalmInv, Next
    PROVE  CalmInv'
  <1> USE DEF RowInv
  <1> SUFFICES ASSUME Calm' PROVE Ensured'
    BY DEF CalmInv
  <1>1. PICK p \in Ops : Moves(p)
    BY NextRows DEF RowStep
  <1>2. Calm /\ Ensured
    BY <1>1, CalmBefore DEF CalmInv
  <1>3. ASSUME NEW o \in Ops, Step(o) PROVE Ensured'
    <2>1. CASE Ensuring(o)
      BY <1>2, <1>3, <2>1, InsideEnsured
    <2>2. CASE ~Ensuring(o) /\ ops[o].at \in AddSteps
      BY <1>2, <1>3, <2>2, OutsideAddEnsured
    <2>3. CASE ops[o].at = "queued"
      <3>1. PICK a \in Reads : EnsureBuiltIn(o, a)
        BY <1>3, <2>3 DEF Step, MakeProvider, Store, Record, Undo, DropCredential, DropProvider,
               Install, FindProvider, OpenLogin, Poll, ReadCredential, ListBenches, NextBench, Discover, Finish
      <3> QED BY <1>2, <3>1, EnsureBuiltInEnsured
    <2>4. CASE ops[o].at \notin AddSteps \cup {"queued"}
      BY <1>2, <1>3, <2>4, OtherEnsured
    <2> QED BY <2>1, <2>2, <2>3, <2>4
  <1>4. ASSUME NEW l \in logins, LoginFails(l) PROVE Ensured'
    BY <1>2, <1>4 DEF LoginFails, hub, Ensured, AllKnow, Ensuring, Knows, RowListed, ViewsListed,
           Listed, Unrefused
  <1>5. ASSUME NEW t \in Tabs, Reload(t) PROVE FALSE
    <2>1. PICK o \in Ops : ops[o].tab = t /\ Running(o)
      BY <1>5 DEF Reload
    <2>2. ops'[o] = Stopped(o)
      BY <1>5, <2>1 DEF Reload, Stopped
    <2> QED BY <2>1, <2>2, StoppedTyped DEF Calm
  <1> QED BY <1>2, <1>3, <1>4, <1>5, StartEnsured, LoginCompletesEnsured DEF Next

\* Of the ensures of one tab, each sees the built-in server the one before it has
\* added: no deploy is refused because another is adding it, and no Worker carries it
\* without its tools, while nobody adds or removes it by hand and every request is
\* answered (ensureQueue, runEnsureBuiltInMcpServers).
THEOREM EnsuresInTurn == Spec => []BuiltInOnce
  <1>1. Init => CalmInv
    <2> SUFFICES ASSUME Init PROVE Ensured
      BY DEF CalmInv
    <2>1. \A o \in Ops : ops[o] = Blank
      BY DEF Init
    <2>2. AllKnow /\ Unrefused /\ \A o \in Ops : Listed(ops[o].view)
      BY <2>1 DEF AllKnow, Ensuring, AddSteps, LoginSteps, Blank, Unrefused, Listed
    <2>3. RowListed
      BY McpAssumption DEF McpAssumption, Init, RowListed
    <2>4. \A b \in Benches : workers[b] # None => Listed(workers[b])
      BY DEF Init, Listed
    <2> QED BY <2>2, <2>3, <2>4 DEF Ensured, ViewsListed
  <1>2. CatalogueInv /\ Queued /\ CalmInv /\ [Next]_vars => CalmInv'
    <2> SUFFICES ASSUME CatalogueInv, Queued, CalmInv, [Next]_vars PROVE CalmInv'
      OBVIOUS
    <2>1. CASE Next
      BY <2>1, NextEnsured DEF CatalogueInv
    <2>2. CASE UNCHANGED vars
      BY <2>2 DEF vars, hub, CalmInv, Calm, Fresh, Ensured, AllKnow, Ensuring, Knows, RowListed,
             ViewsListed, Listed, Unrefused
    <2> QED BY <2>1, <2>2
  <1>3. CalmInv => BuiltInOnce
    BY DEF CalmInv, Ensured, ViewsListed, Listed, Unrefused, BuiltInOnce
  <1> QED BY <1>1, <1>2, <1>3, QueuedAlways, PTL DEF Spec

-----------------------------------------------------------------------------
(* Redeploys that nothing else ran beside *)

Solo(o) == o = newest /\ o \notin overlapped
Alone   == \A o \in Ops : Solo(o) => \A p \in Ops \ {o} : ~Running(p)

HasBuiltIn == \E x \in Catalogue : x.handle = BuiltIn
Others     == {x \in Catalogue : x.handle # BuiltIn}

\* Where an operation carries its change to the benches, and those it is through with.
Redeploying(o) == ops[o].at \in {"next", "queued", "install", "done"} \/ Ensuring(o)
Through(o) == Benches \ (ops[o].todo \cup {ops[o].bench})

Named(o, b) == workers[b] = None \/ b \in ops[o].failed
Served(o, b) == Named(o, b) \/ (workers[b] = Catalogue /\ HasBuiltIn)

\* While an ensure adds the built-in server no Worker can have been deployed: the
\* benches before it are without one or named as stale.
Carries(o) ==
    /\ Redeploying(o) => \A b \in Through(o) : Served(o, b)
    /\ Ensuring(o) => ops[o].view = Others /\ \A b \in Through(o) : Named(o, b)
    /\ ops[o].at = "install" => ops[o].view = Catalogue /\ HasBuiltIn
    /\ ops[o].at = "done" => ops[o].todo = {} /\ ops[o].bench = None

Changes(o) == ops[o].kind \in {"add", "signIn", "remove"}
SoloInv == Alone /\ \A o \in Ops : Solo(o) /\ Changes(o) => Carries(o)

\* The list without the built-in server does not see what happens to its row.
LEMMA OthersStay ==
    ASSUME \A h \in Handles \ {BuiltIn} : creds'[h] = creds[h]
    PROVE  Others' = Others
  <1>1. \A x : x \in Others <=>
           \E h \in Handles \ {BuiltIn} :
              /\ creds[h] # None /\ creds[h].tools # "bare"
              /\ x = [handle |-> h, id |-> creds[h].id, tools |-> creds[h].tools]
    BY DEF Others, Catalogue
  <1>2. \A x : x \in Others' <=>
           \E h \in Handles \ {BuiltIn} :
              /\ creds'[h] # None /\ creds'[h].tools # "bare"
              /\ x = [handle |-> h, id |-> creds'[h].id, tools |-> creds'[h].tools]
    BY DEF Others, Catalogue
  <1> QED BY <1>1, <1>2

\* A login's own row is not listed.
LEMMA BareUnlisted ==
    ASSUME NEW h \in Handles, creds[h] = None, creds' \in [Handles -> Cred \cup {None}],
           creds'[h].tools = "bare", \A k \in Handles \ {h} : creds'[k] = creds[k]
    PROVE  Catalogue' = Catalogue
  <1>1. {k \in Handles : creds'[k] # None /\ creds'[k].tools # "bare"}
        = {k \in Handles : creds[k] # None /\ creds[k].tools # "bare"}
    OBVIOUS
  <1>2. \A k \in Handles : creds[k] # None /\ creds[k].tools # "bare" => creds'[k] = creds[k]
    OBVIOUS
  <1> QED BY <1>1, <1>2 DEF Catalogue

\* An operation goes on to the step s and changes at most its provider or credential.
GoesOn(o, s) ==
    /\ ops'[o].at = s
    /\ \A f \in {"kind", "view", "todo", "bench", "failed"} : ops'[o][f] = ops[o][f]

LEMMA AtGoesOn ==
    ASSUME TypeInv, NEW o \in Ops, NEW s \in Steps \cup Ended, NEW v,
           \/ Becomes(o, At(o, s))
           \/ Becomes(o, [At(o, s) EXCEPT !.provider = v])
           \/ Becomes(o, [At(o, s) EXCEPT !.cred = v])
    PROVE  GoesOn(o, s)
  <1> DEFINE r == At(o, s)
  <1>1. /\ r \in Op /\ r.at = s
        /\ \A f \in {"kind", "view", "todo", "bench", "failed"} : r[f] = ops[o][f]
    BY AtFields
  <1>2. ops'[o] \in {r, [r EXCEPT !.provider = v], [r EXCEPT !.cred = v]}
    BY OthersMove
  <1> HIDE DEF r
  <1> QED BY <1>1, <1>2 DEF GoesOn, Op

\* One bench's failure names it and goes on to the next.
LEMMA ThrowsCarries ==
    ASSUME TypeInv, NEW o \in Ops, NEW why, NEW silent, Throws(o, why, silent),
           Changes(o), ops[o].bench # None,
           \A b \in Benches \ {ops[o].bench} : workers'[b] = workers[b],
           \A b \in Through(o) : Named(o, b) \/ (workers[b] = Catalogue' /\ HasBuiltIn')
    PROVE  Carries(o)'
  <1>1. /\ ops'[o].at = "next" /\ ops'[o].bench = None /\ ops'[o].todo = ops[o].todo
        /\ ops'[o].failed = ops[o].failed \cup {ops[o].bench}
    BY ThrownFields, OthersMove DEF Throws, Changes
  <1>2. \A b \in Through(o)' : b \in Through(o) \/ b = ops[o].bench
    BY <1>1 DEF Through
  <1>3. \A b \in Through(o)' : Served(o, b)'
    BY <1>1, <1>2 DEF Served, Named, Through
  <1> QED BY <1>1, <1>3 DEF Carries, Ensuring, AddSteps

\* Before the redeploy there is nothing to carry yet.
LEMMA BeforeCarries ==
    ASSUME RowInv, NEW o \in Ops, Step(o), Changes(o), ~Redeploying(o), ops[o].at # "benches"
    PROVE  Carries(o)'
  <1> USE DEF RowInv
  <1>1. ops[o] \in Op /\ Placed(ops[o]) /\ Running(o)
    BY StepOthers DEF TypeInv, TypeOK, Places
  <1>2. ops[o].at \in AddSteps \cup {"drop", "dropProvider"} /\ ops[o].bench = None
    BY <1>1 DEF Redeploying, Ensuring, Running, Placed, Op, Steps, AddSteps
  <1>3. /\ ops'[o].at \in AddSteps \cup {"dropProvider", "benches", "failed"}
        /\ ops'[o].bench = None
    <2> DEFINE Ok == /\ ops'[o].at \in AddSteps \cup {"dropProvider", "benches", "failed"}
                     /\ ops'[o].bench = None
    <2>1. ASSUME NEW why, NEW silent, Throws(o, why, silent) PROVE Ok
      BY <1>2, <2>1, ThrownFields, OthersMove DEF Throws
    <2>2. ASSUME NEW s \in AddSteps \cup {"dropProvider", "benches"}, NEW v,
                 \/ Becomes(o, At(o, s)) \/ Becomes(o, [At(o, s) EXCEPT !.provider = v])
                 \/ Becomes(o, [At(o, s) EXCEPT !.cred = v])
          PROVE  Ok
      <3>1. GoesOn(o, s)
        BY <2>2, AtGoesOn DEF AddSteps, Steps
      <3> QED BY <1>2, <3>1 DEF GoesOn
    <2>3. ASSUME Becomes(o, Recorded(o)), ops[o].at = "record" PROVE Ok
      BY <1>2, <2>3, RecordedTyped, OthersMove DEF Told
    <2> HIDE DEF Ok
    <2>4. /\ StoreStep(o) \in AddSteps
          /\ {"make", "read", "discover", "waiting", "record", "undo"} \subseteq AddSteps
      BY DEF StoreStep, AddSteps
    <2>5. ASSUME NEW a \in Answers, MakeProvider(o, a) \/ Store(o, a) \/ Undo(o, a)
          PROVE  Ok
      <3>1. \/ \E why, silent : Throws(o, why, silent)
            \/ Becomes(o, [At(o, StoreStep(o)) EXCEPT !.provider = lastId + 1])
            \/ Becomes(o, [At(o, "discover") EXCEPT !.cred = lastId + 1])
        BY <2>5, Zenon DEF MakeProvider, Store, Undo
      <3> QED BY <2>1, <2>2, <2>4, <3>1
    <2>6. ASSUME NEW a \in Answers, Record(o, a) PROVE Ok
      <3>1. \/ \E why, silent : Throws(o, why, silent)
            \/ Becomes(o, Recorded(o)) /\ ops[o].at = "record"
            \/ Becomes(o, At(o, "undo"))
        BY <2>6, Zenon DEF Record
      <3> QED BY <2>1, <2>2, <2>3, <2>4, <3>1
    <2>7. ASSUME NEW a \in Reads, FindProvider(o, a) \/ OpenLogin(o, a) \/ Poll(o, a) \/ ReadCredential(o, a) PROVE Ok
      <3>1. \/ \E why, silent : Throws(o, why, silent)
            \/ Becomes(o, At(o, "make")) \/ Becomes(o, At(o, "waiting"))
            \/ Becomes(o, At(o, "read")) \/ Becomes(o, At(o, "discover"))
            \/ Becomes(o, [At(o, StoreStep(o)) EXCEPT !.provider = providers[Adding(o)]])
        BY <2>7, Zenon DEF FindProvider, OpenLogin, Poll, ReadCredential
      <3> QED BY <2>1, <2>2, <2>4, <3>1
    <2>8. ASSUME NEW answered \in BOOLEAN, Discover(o, answered) PROVE Ok
      <3>1. Becomes(o, At(o, "record")) \/ Becomes(o, At(o, "undo"))
        BY <2>8 DEF Discover
      <3> QED BY <2>2, <2>4, <3>1
    <2>9. ASSUME NEW a \in Answers, DropCredential(o, a) \/ DropProvider(o, a) PROVE Ok
      <3>1. \/ \E why, silent : Throws(o, why, silent)
            \/ Becomes(o, At(o, "dropProvider")) \/ Becomes(o, At(o, "benches"))
        BY <2>9, Zenon DEF DropCredential, DropProvider
      <3> QED BY <2>1, <2>2, <3>1
    <2>10. Ok
      BY <1>2, <2>5, <2>6, <2>7, <2>8, <2>9
         DEF Step, Install, ListBenches, EnsureBuiltIn, NextBench, Finish, AddSteps
    <2> QED BY <2>10 DEF Ok
  <1> QED BY <1>3 DEF Carries, Redeploying, Ensuring, AddSteps

\* The list of benches, and one bench after the other.
LEMMA ListBenchesCarries ==
    ASSUME TypeInv, NEW o \in Ops, NEW a \in Reads, ListBenches(o, a)
    PROVE  Carries(o)'
  <1>1. ops[o] \in Op /\ ops[o].bench = None
    BY DEF ListBenches, TypeInv, TypeOK, Places, Placed
  <1>2. CASE Throws(o, "fault", FALSE)
    <2>1. ops'[o].at = "failed"
      BY <1>1, <1>2, ThrowsHeard
    <2> QED BY <2>1 DEF Carries, Redeploying, Ensuring, AddSteps
  <1>3. CASE Becomes(o, [At(o, "next") EXCEPT !.todo = Benches])
    <2>1. ops'[o].at = "next" /\ ops'[o].todo = Benches
      <3> DEFINE r == At(o, "next")
      <3>1. r \in Op /\ r.at = "next"
        BY AtFields DEF Steps
      <3>2. ops'[o] = [r EXCEPT !.todo = Benches]
        BY <1>3, OthersMove
      <3> HIDE DEF r
      <3> QED BY <3>1, <3>2 DEF Op
    <2> QED BY <2>1 DEF Carries, Through, Ensuring, AddSteps
  <1> QED BY <1>2, <1>3 DEF ListBenches

LEMMA NextBenchCarries ==
    ASSUME TypeInv, NEW o \in Ops, Carries(o), NEW b \in Benches, NEW a \in Reads,
           NextBench(o, b, a)
    PROVE  Carries(o)'
  <1> DEFINE r == [ops[o] EXCEPT !.todo = @ \ {b}]
             s == [r EXCEPT !.failed = @ \cup {b}]
             q == [r EXCEPT !.at = "queued", !.bench = b]
  <1>1. ops[o] \in Op /\ ops[o].at = "next" /\ ops[o].bench = None
        /\ workers' = workers /\ Catalogue' = Catalogue
    BY DEF NextBench, TypeInv, TypeOK, Places, Placed, hub, Catalogue
  <1>2. \/ Becomes(o, s)
        \/ Becomes(o, r) /\ workers[b] = None
        \/ Becomes(o, q)
    BY DEF NextBench
  <1>3. r \in Op /\ r.at = "next" /\ r.todo = ops[o].todo \ {b} /\ r.bench = None
        /\ r.failed = ops[o].failed
    BY <1>1 DEF Op
  <1> HIDE DEF r
  <1>4. /\ s.at = "next" /\ s.todo = r.todo /\ s.bench = None /\ s.failed = r.failed \cup {b}
        /\ q.at = "queued" /\ q.todo = r.todo /\ q.bench = b /\ q.failed = r.failed
    BY <1>3 DEF Op
  <1> HIDE DEF s, q
  <1>5. \A c \in Benches \ (ops[o].todo) : Served(o, c)
    BY <1>1, McpAssumption DEF McpAssumption, Carries, Redeploying, Through
  <1>6. \A c \in Through(o)' : Served(o, c)'
    <2>1. CASE Becomes(o, s)
      BY <1>1, <1>3, <1>4, <1>5, <2>1, OthersMove DEF Through, Served, Named, HasBuiltIn
    <2>2. CASE Becomes(o, r) /\ workers[b] = None
      BY <1>1, <1>3, <1>5, <2>2, OthersMove DEF Through, Served, Named, HasBuiltIn
    <2>3. CASE Becomes(o, q)
      BY <1>1, <1>3, <1>4, <1>5, <2>3, OthersMove DEF Through, Served, Named, HasBuiltIn
    <2> QED BY <1>2, <2>1, <2>2, <2>3
  <1>7. ops'[o].at \in {"next", "queued"}
    BY <1>2, <1>3, <1>4, OthersMove
  <1> QED BY <1>6, <1>7 DEF Carries, Ensuring, AddSteps

LEMMA FinishCarries ==
    ASSUME TypeInv, NEW o \in Ops, Carries(o), Finish(o)
    PROVE  Carries(o)'
  <1>1. ops[o] \in Op /\ ops[o].at = "next" /\ ops[o].bench = None /\ ops[o].todo = {}
        /\ workers' = workers /\ Catalogue' = Catalogue
    BY DEF Finish, TypeInv, TypeOK, Places, Placed, hub, Catalogue
  <1>2. GoesOn(o, "done")
    BY AtGoesOn DEF Finish, Ended
  <1> QED BY <1>1, <1>2 DEF GoesOn, Carries, Redeploying, Ensuring, AddSteps, Through, Served, Named,
         HasBuiltIn

\* The ensure reads the list.
LEMMA EnsureBuiltInCarries ==
    ASSUME TypeInv, NEW o \in Ops, Changes(o), Carries(o), NEW a \in Reads, EnsureBuiltIn(o, a)
    PROVE  Carries(o)'
  <1> DEFINE r == [ops[o] EXCEPT !.view = Catalogue]
             i == [r EXCEPT !.at = "install"]
             p == [r EXCEPT !.at = "provider"]
  <1>1. /\ ops[o] \in Op /\ ops[o].at = "queued" /\ ops[o].bench # None
        /\ workers' = workers /\ Catalogue' = Catalogue /\ Others' = Others
    BY DEF EnsureBuiltIn, TypeInv, TypeOK, Places, Placed, hub, Catalogue, Others
  <1>2. \A b \in Through(o) : Served(o, b)
    BY <1>1 DEF Carries, Redeploying
  <1>3. \/ Throws(o, "fault", FALSE)
        \/ Becomes(o, i) /\ HasBuiltIn
        \/ Becomes(o, p) /\ ~HasBuiltIn
    BY DEF EnsureBuiltIn, HasBuiltIn
  <1>4. r \in Op /\ r.view = Catalogue /\ r.todo = ops[o].todo /\ r.bench = ops[o].bench
        /\ r.failed = ops[o].failed
    BY <1>1, CatalogueTyped DEF Op
  <1> HIDE DEF r
  <1>5. /\ i.at = "install" /\ p.at = "provider"
        /\ \A z \in {i, p} : /\ z.view = Catalogue /\ z.todo = ops[o].todo
                             /\ z.bench = ops[o].bench /\ z.failed = ops[o].failed
    BY <1>4 DEF Op
  <1> HIDE DEF i, p
  <1>6. CASE Throws(o, "fault", FALSE)
    BY <1>1, <1>2, <1>6, ThrowsCarries DEF Served, HasBuiltIn
  <1>7. ASSUME Becomes(o, i) \/ Becomes(o, p)
        PROVE  /\ ops'[o].view = Catalogue' /\ \A b \in Through(o)' : b \in Through(o)
               /\ \A b \in Benches : (Named(o, b) => Named(o, b)') /\ (Served(o, b) => Served(o, b)')
    <2>1. ops'[o] \in {i, p}
      BY <1>7, OthersMove
    <2> QED BY <1>1, <1>5, <2>1 DEF Through, Named, Served, HasBuiltIn
  <1>8. CASE Becomes(o, i) /\ HasBuiltIn
    <2>1. ops'[o].at = "install" /\ HasBuiltIn'
      BY <1>1, <1>5, <1>8, OthersMove DEF HasBuiltIn
    <2> QED BY <1>2, <1>7, <1>8, <2>1 DEF Carries, Ensuring, AddSteps, Through
  <1>9. CASE Becomes(o, p) /\ ~HasBuiltIn
    <2>1. ops'[o].at = "provider"
      BY <1>5, <1>9, OthersMove
    <2>2. Others' = Catalogue'
      BY <1>1, <1>9 DEF HasBuiltIn, Others
    <2>3. \A b \in Through(o)' : Named(o, b)'
      BY <1>2, <1>7, <1>9 DEF Served, Through
    <2> QED BY <1>7, <1>9, <2>1, <2>2, <2>3 DEF Carries, Served
  <1> QED BY <1>3, <1>6, <1>8, <1>9

\* A step inside the ensure.
LEMMA EnsureCarries ==
    ASSUME RowInv, NEW o \in Ops, Changes(o), Carries(o), Step(o), Ensuring(o)
    PROVE  Carries(o)'
  <1> USE DEF RowInv
  <1>1. /\ ops[o] \in Op /\ ops[o].bench # None /\ ops[o].at \in AddSteps
        /\ ops[o].at \notin {"login", "waiting", "read"}
        /\ Adding(o) = BuiltIn /\ StoreStep(o) = "store" /\ BuiltIn \in Handles
        /\ creds \in [Handles -> Cred \cup {None}]
    BY McpAssumption DEF McpAssumption, Ensuring, TypeInv, TypeOK, Places, Placed, LoginSteps, Adding, StoreStep
  <1>2. ops[o].view = Others /\ \A b \in Through(o) : Named(o, b)
    BY DEF Carries
  <1>3. UNCHANGED workers /\ \A h \in Handles \ {BuiltIn} : creds'[h] = creds[h]
    BY <1>1 DEF Step, MakeProvider, Store, StoreRow, Record, Undo, DropCredential, DropProvider,
           Install, FindProvider, OpenLogin, Poll, ReadCredential, ListBenches, EnsureBuiltIn, NextBench, Discover,
           Finish, hub, AddSteps
  <1>4. Others' = Others
    BY <1>3, OthersStay
  <1>5. ASSUME NEW why, NEW silent, Throws(o, why, silent) PROVE Carries(o)'
    BY <1>1, <1>2, <1>3, <1>5, ThrowsCarries
  <1>6. ASSUME NEW s \in AddSteps, NEW v,
               \/ Becomes(o, At(o, s)) \/ Becomes(o, [At(o, s) EXCEPT !.provider = v])
               \/ Becomes(o, [At(o, s) EXCEPT !.cred = v])
        PROVE  Carries(o)'
    <2>1. GoesOn(o, s)
      BY <1>6, AtGoesOn DEF AddSteps, Steps
    <2>2. ops'[o].view = Others' /\ ops'[o].at = s
          /\ \A b \in Through(o)' : Named(o, b)'
      BY <1>2, <1>3, <1>4, <2>1 DEF GoesOn, Through, Named
    <2> QED BY <1>6, <2>2 DEF Carries, Served, AddSteps
  <1>7. ASSUME Becomes(o, Recorded(o)), ops[o].at = "record", Mine(o),
               creds' = [creds EXCEPT ![BuiltIn].tools = "listed"]
        PROVE  Carries(o)'
    <2>1. /\ ops'[o].at = "install" /\ ops'[o].bench = ops[o].bench
          /\ ops'[o].failed = ops[o].failed
          /\ ops'[o].view = Others \cup
                {[handle |-> BuiltIn, id |-> ops[o].cred, tools |-> "listed"]}
      BY <1>1, <1>2, <1>7, RecordedTyped, OthersMove DEF Told
    <2>2. ops'[o].todo = ops[o].todo
      BY <1>1, <1>7, RecordedTyped, OthersMove DEF Told
    <2>3. creds'[BuiltIn] # None /\ creds'[BuiltIn].id = ops[o].cred
          /\ creds'[BuiltIn].tools = "listed"
      BY <1>1, <1>7, McpAssumption DEF McpAssumption, Mine, Cred, Tools
    <2>4. Catalogue' = Others' \cup
             {[handle |-> BuiltIn, id |-> creds'[BuiltIn].id, tools |-> creds'[BuiltIn].tools]}
      <3> DEFINE row(h) == [handle |-> h, id |-> creds'[h].id, tools |-> creds'[h].tools]
                 shown == {h \in Handles : creds'[h] # None /\ creds'[h].tools # "bare"}
      <3>1. Catalogue' = {row(h) : h \in shown}
        BY DEF Catalogue
      <3>2. Others' = {x \in Catalogue' : x.handle # BuiltIn}
        BY DEF Others
      <3>3. BuiltIn \in shown /\ \A h : row(h).handle = h
        BY <1>1, <2>3
      <3>4. Catalogue' = {x \in Catalogue' : x.handle # BuiltIn} \cup {row(BuiltIn)}
        <4> HIDE DEF row, shown
        <4> QED BY <3>1, <3>3
      <3> QED BY <3>2, <3>4
    <2>5. ops'[o].view = Catalogue' /\ HasBuiltIn'
      <3> DEFINE row == [handle |-> BuiltIn, id |-> ops[o].cred, tools |-> "listed"]
      <3>1. row.handle = BuiltIn
        OBVIOUS
      <3>2. Catalogue' = Others \cup {row} /\ ops'[o].view = Others \cup {row}
        BY <1>4, <2>1, <2>3, <2>4
      <3> HIDE DEF row
      <3> QED BY <3>1, <3>2 DEF HasBuiltIn
    <2>6. \A b \in Through(o)' : Named(o, b)'
      BY <1>2, <1>3, <2>1, <2>2 DEF Through, Named
    <2> QED BY <2>1, <2>5, <2>6 DEF Carries, Served, Ensuring, AddSteps
  <1>8. {"store", "make", "discover", "record", "undo"} \subseteq AddSteps
    BY DEF AddSteps
  <1>9. ASSUME NEW a \in Answers, MakeProvider(o, a) \/ Store(o, a) \/ Undo(o, a)
        PROVE  Carries(o)'
    <2>1. \/ \E why, silent : Throws(o, why, silent)
          \/ Becomes(o, [At(o, "store") EXCEPT !.provider = lastId + 1])
          \/ Becomes(o, [At(o, "discover") EXCEPT !.cred = lastId + 1])
      BY <1>1, <1>9, Zenon DEF MakeProvider, Store, Undo
    <2> QED BY <1>5, <1>6, <1>8, <2>1
  <1>10. ASSUME NEW a \in Answers, Record(o, a) PROVE Carries(o)'
    <2>1. CASE Silent(a)
      <3>1. Throws(o, "fault", TRUE)
        BY <1>10, <2>1 DEF Record, Silent
      <3> QED BY <1>5, <3>1
    <2>2. CASE ~Silent(a) /\ a = "ok" /\ Mine(o)
      BY <1>1, <1>7, <1>10, <2>2 DEF Record, Handled
    <2>3. CASE ~Silent(a) /\ ~(a = "ok" /\ Mine(o))
      <3>1. Becomes(o, At(o, "undo"))
        BY <1>10, <2>3 DEF Record
      <3> QED BY <1>6, <1>8, <3>1
    <2> QED BY <2>1, <2>2, <2>3
  <1>11. ASSUME NEW a \in Reads, FindProvider(o, a) PROVE Carries(o)'
    <2>1. \/ Throws(o, "fault", FALSE)
          \/ Becomes(o, At(o, "make"))
          \/ Becomes(o, [At(o, "store") EXCEPT !.provider = providers[BuiltIn]])
      BY <1>1, <1>11 DEF FindProvider
    <2> QED BY <1>5, <1>6, <1>8, <2>1
  <1>12. ASSUME NEW answered \in BOOLEAN, Discover(o, answered) PROVE Carries(o)'
    <2>1. Becomes(o, At(o, "record")) \/ Becomes(o, At(o, "undo"))
      BY <1>12 DEF Discover
    <2> QED BY <1>6, <1>8, <2>1
  <1> QED
    BY <1>1, <1>9, <1>10, <1>11, <1>12
       DEF Step, DropCredential, DropProvider, Install, OpenLogin, Poll, ReadCredential, ListBenches,
           EnsureBuiltIn, NextBench, Finish, AddSteps

\* The bench's Worker gets the list, or is named.
LEMMA InstallCarries ==
    ASSUME TypeInv, NEW o \in Ops, Changes(o), Carries(o), NEW a \in Answers, Install(o, a)
    PROVE  Carries(o)'
  <1>1. /\ ops[o] \in Op /\ ops[o].bench \in Benches /\ ops[o].bench # None
        /\ workers \in [Benches -> (SUBSET Row) \cup {None}]
        /\ Catalogue' = Catalogue /\ ops[o].at = "install"
    BY DEF Install, TypeInv, TypeOK, Places, Placed, Op, Catalogue
  <1>2. /\ ops[o].view = Catalogue /\ HasBuiltIn /\ HasBuiltIn'
        /\ \A b \in Through(o) : Served(o, b)
    BY <1>1 DEF Carries, Redeploying, HasBuiltIn
  <1>3. \A b \in Benches \ {ops[o].bench} : workers'[b] = workers[b]
    BY <1>1 DEF Install
  <1>4. CASE a # "ok"
    <2>1. Throws(o, "fault", Silent(a))
      BY <1>4 DEF Install
    <2> QED BY <1>1, <1>2, <1>3, <2>1, ThrowsCarries DEF Served
  <1>5. CASE a = "ok"
    <2>1. workers'[ops[o].bench] = Catalogue'
      BY <1>1, <1>2, <1>5 DEF Install, Handled
    <2>2. Becomes(o, [Cleared(At(o, "next")) EXCEPT !.bench = None])
      BY <1>5 DEF Install, Changes
    <2>3. /\ ops'[o].at = "next" /\ ops'[o].bench = None /\ ops'[o].todo = ops[o].todo
          /\ ops'[o].failed = ops[o].failed
      <3> DEFINE r == At(o, "next")
                 c == Cleared(r)
      <3>1. r \in Op /\ r.at = "next" /\ r.todo = ops[o].todo /\ r.failed = ops[o].failed
        BY AtFields DEF Steps
      <3> HIDE DEF r
      <3>2. c \in Op /\ c.at = "next" /\ c.todo = ops[o].todo /\ c.failed = ops[o].failed
        BY <3>1 DEF Cleared, Op
      <3>3. ops'[o] = [c EXCEPT !.bench = None]
        BY <2>2, OthersMove DEF r
      <3> HIDE DEF c
      <3> QED BY <3>2, <3>3 DEF Op
    <2>4. \A b \in Through(o)' : Served(o, b)'
      BY <1>1, <1>2, <1>3, <2>1, <2>3 DEF Through, Served, Named
    <2> QED BY <2>3, <2>4 DEF Carries, Ensuring, AddSteps
  <1> QED BY <1>4, <1>5

LEMMA StepCarries ==
    ASSUME RowInv, NEW o \in Ops, Step(o), Changes(o), Carries(o)
    PROVE  Carries(o)'
  <1> USE DEF RowInv
  <1>1. CASE ~Redeploying(o) /\ ops[o].at # "benches"
    BY <1>1, BeforeCarries
  <1>2. CASE Ensuring(o)
    BY <1>2, EnsureCarries
  <1>3. CASE ops[o].at \in {"next", "queued", "install", "done", "benches"}
    BY <1>3, ListBenchesCarries, NextBenchCarries, FinishCarries, EnsureBuiltInCarries,
       InstallCarries
       DEF Step, MakeProvider, Store, Record, Undo, DropCredential, DropProvider,
           FindProvider, OpenLogin, Poll, ReadCredential, Discover
  <1> QED BY <1>1, <1>2, <1>3 DEF Redeploying

\* Whoever runs beside another is marked, and stays so.
LEMMA AloneStays ==
    ASSUME TypeInv, Alone, Next
    PROVE  Alone'
  <1>1. ASSUME NEW o \in Ops, Start(o) PROVE Alone'
    <2>1. PICK r : Begins(o, r)
      BY <1>1, StartBegins
    <2>2. newest' = o /\ \A p \in Ops \ {o} : ops'[p] = ops[p]
      BY <2>1, BecomesOthers DEF Begins
    <2>3. ASSUME o \notin overlapped' PROVE \A p \in Ops : ~Running(p)
      BY <2>1, <2>3 DEF Begins
    <2> QED BY <2>2, <2>3 DEF Alone, Solo, Running
  <1>2. ASSUME NEW o \in Ops, Step(o) PROVE Alone'
    <2>1. Running(o) /\ \A p \in Ops \ {o} : ops'[p] = ops[p]
      BY <1>2, StepOthers
    <2>2. UNCHANGED <<newest, overlapped>>
      BY <1>2 DEF Step, MakeProvider, Store, Record, Undo, DropCredential, DropProvider,
             Install, FindProvider, OpenLogin, Poll, ReadCredential, ListBenches, EnsureBuiltIn, NextBench,
             Discover, Finish
    <2> QED BY <2>1, <2>2 DEF Alone, Solo, Running
  <1>3. ASSUME NEW l \in logins, LoginCompletes(l) \/ LoginFails(l) PROVE Alone'
    <2>1. \A p \in Ops : ops'[p].at = ops[p].at
      BY <1>3 DEF LoginCompletes, LoginFails, Becomes, TypeInv, TypeOK, Op
    <2> QED BY <1>3, <2>1 DEF LoginCompletes, LoginFails, Alone, Solo, Running
  <1>4. ASSUME NEW t \in Tabs, Reload(t) PROVE Alone'
    <2>1. \A p \in Ops : ops'[p] = ops[p] \/ ops'[p].at = "gone"
      BY <1>4, StoppedTyped DEF Reload, Stopped
    <2> QED BY <1>4, <2>1 DEF Reload, Alone, Solo, Running, Ended
  <1> QED BY <1>1, <1>2, <1>3, <1>4 DEF Next

\* Another's login and a reload leave what an operation carries.
LEMMA AsideCarries ==
    ASSUME NEW o \in Ops, Carries(o), Catalogue' = Catalogue, UNCHANGED workers,
           \/ ops'[o].at \in {"waiting", "failed", "gone"} /\ ~Ensuring(o)'
           \/ ops'[o] = ops[o]
    PROVE  Carries(o)'
  <1>1. Others' = Others /\ HasBuiltIn' = HasBuiltIn
    BY DEF Others, HasBuiltIn
  <1> QED BY <1>1 DEF Carries, Redeploying, Ensuring, Through, Served, Named

LEMMA LoginCompletesCarries ==
    ASSUME RowInv, NEW l \in logins, LoginCompletes(l), NEW o \in Ops, Carries(o)
    PROVE  Carries(o)'
  <1> USE DEF RowInv
  <1>1. l.op \in Ops /\ ops[l.op] \in Op /\ ops[l.op].handle \in Handles
    BY DEF TypeInv, TypeOK, Op
  <1>2. creds' \in [Handles -> Cred \cup {None}]
    BY LoginCompletesTyped DEF TypeInv, TypeOK, LoginsWait
  <1>3. Catalogue' = Catalogue /\ UNCHANGED workers
    BY <1>1, <1>2, BareUnlisted DEF LoginCompletes, Storable, StoreRow, TypeInv, TypeOK
  <1>4. \A p \in Ops \ {l.op} : ops'[p] = ops[p]
    BY <1>1, BecomesOthers DEF LoginCompletes
  <1>5. ops[l.op].at \in {"waiting", "failed", "gone"} /\ ~Ensuring(l.op)
    BY <1>1 DEF LoginsWait, Ensuring, AddSteps, TypeInv, Places, Placed, LoginSteps
  <1>6. ops'[l.op].at = ops[l.op].at /\ ops'[l.op].bench = ops[l.op].bench
    BY <1>1 DEF LoginCompletes, Becomes, TypeInv, TypeOK, Op
  <1> QED BY <1>1, <1>3, <1>4, <1>5, <1>6, AsideCarries DEF Ensuring

LEMMA NextSolo ==
    ASSUME RowInv, SoloInv, Next
    PROVE  SoloInv'
  <1> USE DEF RowInv
  <1>1. Alone'
    BY AloneStays DEF SoloInv
  <1> SUFFICES ASSUME NEW o \in Ops, Solo(o)', Changes(o)'
               PROVE  Carries(o)'
    BY <1>1 DEF SoloInv
  <1>2. ASSUME NEW p \in Ops, Start(p) PROVE Carries(o)'
    <2>1. PICK r : Begun(r) /\ Begins(p, r)
      BY <1>2, StartBegins
    <2>2. o = p /\ ops'[o] = r
      BY <2>1, OthersMove DEF Solo, Begins
    <2> QED BY <2>1, <2>2 DEF Begun, Carries, Redeploying, Ensuring, AddSteps, Changes
  <1>3. ASSUME NEW p \in Ops, Step(p) PROVE Carries(o)'
    <2>1. Running(p) /\ \A q \in Ops \ {p} : ops'[q] = ops[q]
      BY <1>3, StepOthers
    <2>2. UNCHANGED <<newest, overlapped>>
      BY <1>3 DEF Step, MakeProvider, Store, Record, Undo, DropCredential, DropProvider,
             Install, FindProvider, OpenLogin, Poll, ReadCredential, ListBenches, EnsureBuiltIn, NextBench,
             Discover, Finish
    <2>3. Solo(o)
      BY <2>2 DEF Solo
    <2>4. o = p
      BY <2>1, <2>3 DEF SoloInv, Alone
    <2>5. Changes(o)
      <3>1. PICK q \in Ops : Moves(q)
        BY NextRows DEF RowStep
      <3>2. Running(o) => ~Fresh(o)
        BY DEF Running, Ended, Fresh, TypeInv, Places, Placed
      <3> QED BY <2>1, <2>4, <3>1, <3>2 DEF Moves, Keeps, Takes, Settles, Enters, SameJob, Changes
    <2> QED BY <1>3, <2>3, <2>4, <2>5, StepCarries DEF SoloInv
  <1>4. ASSUME NEW l \in logins, LoginCompletes(l) \/ LoginFails(l) PROVE Carries(o)'
    <2>1. Solo(o)
      BY <1>4 DEF LoginCompletes, LoginFails, Solo
    <2>2. Changes(o)
      BY <1>4 DEF LoginCompletes, LoginFails, Becomes, TypeInv, TypeOK, Op, Changes
    <2>3. Carries(o)
      BY <2>1, <2>2 DEF SoloInv
    <2>4. CASE LoginFails(l)
      <3>1. Catalogue' = Catalogue
        BY <2>4 DEF LoginFails, hub, Catalogue
      <3> QED BY <2>3, <2>4, <3>1, AsideCarries DEF LoginFails, hub
    <2> QED BY <1>4, <2>3, <2>4, LoginCompletesCarries
  <1>5. ASSUME NEW t \in Tabs, Reload(t) PROVE Carries(o)'
    <2>1. ops'[o] = ops[o] \/ (ops'[o].at = "gone" /\ ops'[o].kind = ops[o].kind)
      BY <1>5, StoppedTyped DEF Reload, Stopped
    <2>2. Solo(o) /\ Changes(o)
      BY <1>5, <2>1 DEF Reload, Solo, Changes
    <2>3. Catalogue' = Catalogue /\ UNCHANGED workers
      BY <1>5 DEF Reload, hub, Catalogue
    <2> QED BY <2>1, <2>2, <2>3, AsideCarries DEF SoloInv, Ensuring, AddSteps
  <1> QED BY <1>2, <1>3, <1>4, <1>5 DEF Next

\* A change of the catalogue that nothing ran beside has reached every workbench's
\* Worker once it is done, or names the workbench as stale, though its redeploys may
\* add the built-in server on the way (redeployWorkspaceWorkers).
THEOREM ChangesAreCarried == Spec => []SettledCatalogue
  <1>1. Init => SoloInv
    <2> SUFFICES ASSUME Init PROVE SoloInv
      OBVIOUS
    <2>1. \A o \in Ops : ops[o].at = "idle" /\ ops[o].kind = "none"
      BY DEF Init, Blank
    <2> QED BY <2>1 DEF SoloInv, Alone, Running, Ended, Changes
  <1>2. CatalogueInv /\ SoloInv /\ [Next]_vars => SoloInv'
    <2> SUFFICES ASSUME CatalogueInv, SoloInv, [Next]_vars PROVE SoloInv'
      OBVIOUS
    <2>1. CASE Next
      BY <2>1, NextSolo DEF CatalogueInv
    <2>2. CASE UNCHANGED vars
      BY <2>2 DEF vars, hub, SoloInv, Alone, Solo, Running, Changes, Carries, Redeploying,
             Ensuring, Through, Served, Named, HasBuiltIn, Others, Catalogue
    <2> QED BY <2>1, <2>2
  <1>3. CatalogueInv /\ SoloInv => SettledCatalogue
    <2> SUFFICES ASSUME CatalogueInv, SoloInv,
                        NEW o \in Ops \ overlapped, o = newest, ops[o].kind # "deploy",
                        ops[o].at = "done", NEW b \in Benches
                 PROVE  workers[b] \in {None, Catalogue} \/ b \in ops[o].failed
      BY DEF SettledCatalogue
    <2>1. Solo(o) /\ Changes(o)
      BY DEF Solo, Changes, CatalogueInv, RowInv, TypeInv, TypeOK, Places, Placed, Op, Kinds
    <2>2. ops[o].todo = {} /\ ops[o].bench = None /\ b # None
      BY <2>1, McpAssumption DEF McpAssumption, SoloInv, Carries
    <2>3. Served(o, b)
      BY <2>1, <2>2 DEF SoloInv, Carries, Redeploying, Through
    <2> QED BY <2>3 DEF Served, Named
  <1> QED BY <1>1, <1>2, <1>3, CatalogueAlways, PTL DEF Spec

=============================================================================
