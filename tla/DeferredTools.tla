---------------------------- MODULE DeferredTools ----------------------------
(***************************************************************************)
(* The deferred-tools director and the tool_search tool                    *)
(* (packages/deferred-tools): which tools each inference of one durable    *)
(* conversation is sent.                                                   *)
(*                                                                         *)
(* The worker is a single-step workflow, so one warm agent serves the      *)
(* conversation; the conversation outlives the run child, the director     *)
(* does not.  Names, glob patterns and token matching are data: which      *)
(* names the config defers, the namespace of a name and what a query       *)
(* matches are CONSTANTS.  The stock director and the reactor (vendored)   *)
(* are modelled by when they infer: on a message, when the calls of a turn *)
(* are done, and when a parked call is decided.  One event, and what       *)
(* follows from it, is handled at a time.                                  *)
(***************************************************************************)
EXTENDS Naturals, Sequences, FiniteSets, SequencesExt

CONSTANTS
    Definitions,   \* the agent's tool names, in catalogue order
    DeferredNames, \* those the config's deferred patterns match
    NamespaceOf,   \* the namespace of each name, toolNamespace
    ToolSearch,    \* TOOL_SEARCH_NAME
    Queries,       \* tool_search queries with at least one token
    Hits,          \* the names whose name or description holds every token of a query
    EmptyQuery,    \* a query without tokens, which matches everything
    NotAQuery,     \* tool_search arguments whose query is no string
    OtherCall,     \* a call of another tool
    MaxTurns, MaxCalls, MaxRespawns, MaxParked  \* bounds

Names  == Range(Definitions)
Blocks == Queries \cup {EmptyQuery, NotAQuery, OtherCall}

\* No name is defined twice: building the agent throws on a repeated one
\* (resolveTools).  tool_search is not deferred: the worker's patterns are the
\* names of other tools and <server>.* (workerDirectorRef).
ASSUME ToolsAssumption ==
    /\ Definitions \in Seq(Names) /\ IsInjective(Definitions)
    /\ DeferredNames \subseteq Names \ {ToolSearch}
    /\ DOMAIN NamespaceOf = Names
    /\ Hits \in [Queries -> SUBSET Names]
    /\ {MaxTurns, MaxCalls, MaxRespawns, MaxParked} \subseteq Nat

VARIABLES
    phase,     \* "down" | "waiting" | "inferring" | "executing"
    catalog,   \* the globalThis cell the director and tool_search meet in
    surfaced,  \* DeferredToolSelection.surfaced, in insertion order
    sent,      \* the tools of the last inference call
    calls,     \* the tool calls of the turn being executed
    parked,    \* calls waiting for a person, <<turn, index, call>>
    found,     \* history: what tool_search has presented of this child's searches
    born,      \* history: the turns taken when this child started
    turns, respawns

vars == <<phase, catalog, surfaced, sent, calls, parked, found, born, turns, respawns>>

-----------------------------------------------------------------------------
(* DeferredToolSelection *)

\* The definitions named in S, in catalogue order: what each filter keeps.
InOrder(S) ==
    LET upTo[n \in 0..Len(Definitions)] ==
            IF n = 0 THEN <<>>
            ELSE IF Definitions[n] \in S THEN Append(upTo[n - 1], Definitions[n])
            ELSE upTo[n - 1]
    IN  upTo[Len(Definitions)]

\* Mutant of Deferred: the patterns are ignored.
AllDeferred == Definitions

\* selectByPatterns(definitions, config.deferred).
Deferred == InOrder(DeferredNames)

\* Mutant of Always: the agent's own tool_search definition is kept as well.
AlwaysTwice == Append(InOrder(Names \ DeferredNames), ToolSearch)

\* The fixed block: every tool that is not deferred, then tool_search.
Always == Append(InOrder(Names \ (DeferredNames \cup {ToolSearch})), ToolSearch)

\* searchDefinitions over the deferred definitions.
Matches(q) ==
    {t \in Range(Deferred) : q = EmptyQuery \/ (q \in Queries /\ t \in Hits[q])}

\* Mutant of Surface: the matched tools themselves, in catalogue order.
SurfaceInOrder(s, q) == InOrder(Range(s) \cup Matches(q))

\* surface(): the whole namespace of every match, appended in catalogue order.
Surface(s, q) ==
    LET hit == {NamespaceOf[t] : t \in Matches(q)}
    IN  s \o InOrder({t \in Range(Deferred) \ Range(s) : NamespaceOf[t] \in hit})

\* The query surfaceFromEvent takes out of a tool_search call.
QueryOf(block) == IF block = NotAQuery THEN EmptyQuery ELSE block

\* Mutant of SurfaceTurn: only the first block of a turn is looked at.
SurfaceFirst(s, blocks) ==
    IF blocks = <<>> \/ blocks[1] = OtherCall THEN s ELSE Surface(s, QueryOf(blocks[1]))

\* surfaceFromEvent: every tool_search call of the turn, in order.
SurfaceTurn(s, blocks) ==
    LET after[n \in 0..Len(blocks)] ==
            IF n = 0 THEN s
            ELSE IF blocks[n] = OtherCall THEN after[n - 1]
            ELSE Surface(after[n - 1], QueryOf(blocks[n]))
    IN  after[Len(blocks)]

\* tools(): what the next inference is sent.
Tools == Always \o surfaced

-----------------------------------------------------------------------------
(* The run child *)

\* The child builds the agent; the director starts afresh and publishes its catalog.
StartDirector ==
    /\ phase = "down"
    /\ phase' = "waiting"
    /\ surfaced' = <<>>
    /\ catalog' = Deferred
    /\ UNCHANGED <<sent, calls, parked, found, born, turns, respawns>>

\* The stock director infers, with the tool list swapped (decide).
Infer == phase' = "inferring" /\ sent' = Tools

\* message.received, also while calls of an earlier turn are parked.
Message ==
    /\ phase = "waiting"
    /\ Infer
    /\ UNCHANGED <<catalog, surfaced, calls, parked, found, born, turns, respawns>>

\* inference.done: the director surfaces what the turn searches for; the turn's
\* calls are executed, a turn without calls is a reply.
InferenceDone(blocks) ==
    /\ phase = "inferring"
    /\ turns < MaxTurns
    /\ turns' = turns + 1
    /\ surfaced' = SurfaceTurn(surfaced, blocks)
    /\ calls' = blocks
    /\ phase' = IF blocks = <<>> THEN "waiting" ELSE "executing"
    /\ UNCHANGED <<catalog, sent, parked, found, born, respawns>>

\* inference.error: an error reply.
InferenceFails ==
    /\ phase = "inferring"
    /\ phase' = "waiting"
    /\ UNCHANGED <<catalog, surfaced, sent, calls, parked, found, born, turns, respawns>>

\* What tool_search presents: matches from the cell, or an error when the query
\* is no string.
Presented(block) ==
    IF block \in {NotAQuery, OtherCall} THEN {} ELSE Range(catalog) \cap Matches(block)

\* The reactor runs a turn's calls.  Those gated on a person are parked; when
\* there is none, all results are in and the director infers again.
ExecuteTools(gated) ==
    /\ phase = "executing"
    /\ parked' = parked \cup {<<turns, i, calls[i]>> : i \in gated}
    /\ Cardinality(parked') <= MaxParked
    /\ found' = found \cup UNION {Presented(calls[i]) : i \in DOMAIN calls \ gated}
    /\ calls' = <<>>
    /\ IF gated = {} THEN Infer ELSE phase' = "waiting" /\ UNCHANGED sent
    /\ UNCHANGED <<catalog, surfaced, born, turns, respawns>>

\* The person approves a parked call: it runs, and its result makes the
\* director infer, whatever else is parked (resume.execute_tools, tool.done).
Approve(p) ==
    /\ phase = "waiting"
    /\ p \in parked
    /\ parked' = parked \ {p}
    /\ found' = found \cup IF p[1] > born THEN Presented(p[3]) ELSE {}
    /\ Infer
    /\ UNCHANGED <<catalog, surfaced, calls, born, turns, respawns>>

\* The person denies it, or nobody answers in time: an error result, and no
\* search (resume.tool_result).
Deny(p) ==
    /\ phase = "waiting"
    /\ p \in parked
    /\ parked' = parked \ {p}
    /\ Infer
    /\ UNCHANGED <<catalog, surfaced, calls, found, born, turns, respawns>>

\* Between two messages the run child is replaced (sidecar restart, eviction of
\* the warm agent, redeploy); the conversation, and the calls parked in it, are
\* restored from their durable store.
Respawn ==
    /\ phase = "waiting"
    /\ respawns < MaxRespawns
    /\ respawns' = respawns + 1
    /\ phase' = "down"
    /\ catalog' = <<>>
    /\ surfaced' = <<>>
    /\ found' = {} /\ born' = turns
    /\ UNCHANGED <<sent, calls, parked, turns>>

Init ==
    /\ phase = "down"
    /\ catalog = <<>> /\ surfaced = <<>> /\ sent = <<>>
    /\ calls = <<>> /\ parked = {} /\ found = {}
    /\ born = 0 /\ turns = 0 /\ respawns = 0

Next ==
    \/ StartDirector
    \/ Message
    \/ \E n \in 0..MaxCalls : \E blocks \in [1..n -> Blocks] : InferenceDone(blocks)
    \/ InferenceFails
    \/ \E gated \in SUBSET DOMAIN calls : ExecuteTools(gated)
    \/ \E p \in parked : Approve(p) \/ Deny(p)
    \/ Respawn

Spec == Init /\ [][Next]_vars

-----------------------------------------------------------------------------
(* Properties *)

TypeOK ==
    /\ phase \in {"down", "waiting", "inferring", "executing"}
    /\ Range(catalog) \subseteq DeferredNames
    /\ Range(surfaced) \subseteq DeferredNames
    /\ Range(sent) \subseteq Names \cup {ToolSearch}
    /\ calls \in UNION {[1..n -> Blocks] : n \in 0..MaxCalls}
    /\ parked \subseteq (1..MaxTurns) \X (1..MaxCalls) \X Blocks
    /\ Cardinality(parked) <= MaxParked
    /\ found \subseteq DeferredNames
    /\ born \in 0..turns /\ turns \in 0..MaxTurns /\ respawns \in 0..MaxRespawns

\* While one run child lives, the block the next inference would be sent only
\* grows, however searches overlap in the catalogue and in their turn (surface, tools).
GrowsWhileUp == [][phase' # "down" => IsPrefix(surfaced, surfaced')]_vars

\* What tool_search has told the model it may call since the child started is
\* among the tools each inference is sent, whichever calls of a turn were
\* parked, approved or denied ("These tools are now available; call one
\* directly", renderMatches); a call parked in one child and approved in the
\* next is the exception.
FoundIsOffered == phase = "inferring" => found \subseteq Range(sent)

\* No tool is sent twice; providers reject a request with a repeated name (tools).
SentOnce == \A i, j \in DOMAIN sent : sent[i] = sent[j] => i = j

=============================================================================
