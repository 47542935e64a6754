-------------------------------- MODULE Turns --------------------------------
(***************************************************************************)
(* The life of the turns of one session: the proxy handler of              *)
(* src/proxy.rs from the request to the answer, the tasks it leaves        *)
(* behind, the extraction of the turn (the abstract JobQueue, which        *)
(* ExtractionOutbox implements) and what it stores, and the recall of that *)
(* by later turns (src/memory/retrieval.rs).                               *)
(*                                                                         *)
(* A turn stands for the fact its extraction stores.  A chunk of an answer *)
(* is one that carries text, so an answer of no chunks has no content.     *)
(***************************************************************************)
EXTENDS Integers, FiniteSets

CONSTANTS Turns,
          NoTurn,
          Chunks,   \* bound: the chunks of an answer
          Buffer,   \* capacity of the forward channel (128)
          Budget,   \* EXTRACTION_MAX_ATTEMPTS
          Crashes,  \* bound: crashes of the process
          Edits     \* bound: deletions, and facts hidden, by administrators

ASSUME TurnsAssumption ==
  /\ NoTurn \notin Turns /\ Chunks \in Nat /\ Buffer \in Nat \ {0}
  /\ Budget \in Nat \ {0} /\ Crashes \in Nat /\ Edits \in Nat

VARIABLES provider,  \* state.provider: "Anthropic" or "OpenAI" (which Gemini follows)
          outbox,    \* EXTRACTION_OUTBOX_ENABLED
          handler,   \* where the handler of each turn is
          injected,  \* facts injected into the prompt of a turn
          context,   \* the turn whose summary is injected with them
          stream,    \* a streamed answer: chunks to come, captured and in the channel
          forwarder, \* the task that forwards a streamed answer
          client,    \* "here" or "gone"
          capture,   \* the task that turns the answer into an extraction
          state, tries, done, \* the extraction jobs, one per turn
          facts,     \* label of the fact of each turn
          linked,    \* facts linked to the entities of their turn
          summary,   \* working_memory: the turn the session's summary is of
          crashes, edits,
          settledBefore, \* history: the turns settled when a turn was submitted
          hiddenBefore,  \* history: the facts not to be injected since before a turn arrived
          forgotten      \* history: the turns that had arrived when the agent was deleted

jobs == <<state, tries, done>>
config == <<provider, outbox>>
history == <<settledBefore, hiddenBefore, forgotten>>
answers == <<stream, forwarder, capture>>
vars == <<config, handler, injected, context, answers, client, jobs, facts, linked, summary,
          crashes, edits, history>>

Queue == INSTANCE JobQueue WITH Jobs <- Turns, Effects <- {"fact", "summary"}

Final == {"done", "failed", "lost"}
Ended == {"refused", "failed", "answered", "left", "crashed"}

Silence == [left |-> 0, captured |-> 0, queued |-> 0]

Init ==
  /\ provider \in {"Anthropic", "OpenAI"} /\ outbox \in BOOLEAN
  /\ handler = [t \in Turns |-> "new"]
  /\ injected = [t \in Turns |-> {}] /\ context = [t \in Turns |-> NoTurn]
  /\ stream = [t \in Turns |-> Silence]
  /\ forwarder = [t \in Turns |-> "none"] /\ client = [t \in Turns |-> "here"]
  /\ capture = [t \in Turns |-> "none"]
  /\ Queue!Init
  /\ facts = [t \in Turns |-> "absent"] /\ linked = {} /\ summary = NoTurn /\ crashes = 0 /\ edits = 0
  /\ settledBefore = [t \in Turns |-> {}] /\ hiddenBefore = [t \in Turns |-> {}]
  /\ forgotten = {}

Goto(t, from, to) == handler[t] = from /\ handler' = [handler EXCEPT ![t] = to]

\* What the handlers of S held, and what was noted of them, goes with them.
Forget(S) ==
  /\ injected' = [t \in Turns |-> IF t \in S THEN {} ELSE injected[t]]
  /\ context' = [t \in Turns |-> IF t \in S THEN NoTurn ELSE context[t]]
  /\ hiddenBefore' = [t \in Turns |-> IF t \in S THEN {} ELSE hiddenBefore[t]]

Hidden == {m \in Turns : facts[m] = "hidden"}

\* The rate limiter answers 429 or lets the turn through; RateLimiter says when.
Arrive(t) ==
  /\ \/ Goto(t, "new", "searching")
     \/ Goto(t, "new", "refused")
  /\ hiddenBefore' = [hiddenBefore EXCEPT ![t] = IF handler'[t] = "refused" THEN {} ELSE Hidden]
  /\ UNCHANGED <<config, injected, context, answers, client, jobs, facts, linked, summary,
                 crashes, edits, settledBefore, forgotten>>

\* Mutation: the search of the management API, which shows every label.
EveryFact == {m \in Turns : facts[m] # "absent"}

\* archived_at IS NULL AND NOT soft_evicted AND status = 'active'
\* AND sensitivity NOT IN ('private', 'secret')
Injectable == {m \in Turns : facts[m] = "open"}

\* Any of the injectable facts may be near enough.
Hits == SUBSET Injectable

\* A search that fails injects nothing.
Search(t) ==
  /\ Goto(t, "searching", "walking")
  /\ \E hits \in Hits : injected' = [injected EXCEPT ![t] = hits]
  /\ UNCHANGED <<config, context, answers, client, jobs, facts, linked, summary, crashes, edits, history>>

Selected == {"id", "agent_id", "session_id", "content", "memory_type", "confidence",
             "provenance", "created_at", "source_turn", "importance_score",
             "importance_source"}

\* Columns of Memory that carry no #[sqlx(default)].
Required == Selected \cup {"updated_at"}

\* Rows of the facts linked to the entities: a row that lacks a required column
\* fails the query, and unwrap_or_default makes that no facts.
LinkedFacts(rows) == IF rows = {} \/ Required \subseteq Selected THEN rows ELSE {}

\* Any others may be linked to entities of the query or one relation away.
Linked(found) == SUBSET ((Injectable \cap linked) \ found)

\* The graph walk may be configured away, and the query may name no entity.
WalkGraph(t) ==
  /\ Goto(t, "walking", "injecting")
  /\ \E rows \in Linked(injected[t]) :
        injected' = [injected EXCEPT ![t] = @ \cup LinkedFacts(rows)]
  /\ UNCHANGED <<config, context, answers, client, jobs, facts, linked, summary, crashes, edits, history>>

\* The summary is read only when facts were found: without them there is no injection.
Context(found) == IF found = {} THEN NoTurn ELSE summary

BuildInjection(t) ==
  /\ Goto(t, "injecting", "sending")
  /\ context' = [context EXCEPT ![t] = Context(injected[t])]
  /\ UNCHANGED <<config, injected, answers, client, jobs, facts, linked, summary, crashes, edits,
                 history>>

Answer(t, n) ==
  stream' = [stream EXCEPT ![t].captured = n]

\* proxy_streaming answers at once and leaves a forwarder and a capture task.
ProxyStreaming(t) ==
  /\ provider # "Anthropic"
  /\ Goto(t, "sending", "answered")
  /\ \E n \in 0..Chunks : stream' = [stream EXCEPT ![t].left = n]
  /\ forwarder' = [forwarder EXCEPT ![t] = "receiving"]
  /\ capture' = [capture EXCEPT ![t] = "waiting"]

\* req_builder.send(): unreachable, or the headers of an answer arrive.
Send(t) ==
  /\ \/ Goto(t, "sending", "failed") /\ UNCHANGED answers
     \/ Goto(t, "sending", "reading") /\ UNCHANGED answers
     \/ ProxyStreaming(t)
  /\ Forget({t})
  /\ UNCHANGED <<config, client, jobs, facts, linked, summary, crashes, edits, settledBefore, forgotten>>

ProxyBuffered(t) ==
  /\ provider # "Anthropic"
  /\ \/ Goto(t, "reading", "failed") /\ UNCHANGED answers
     \/ /\ Goto(t, "reading", "answered")
        /\ \E n \in 0..Chunks : Answer(t, n)
        /\ capture' = [capture EXCEPT ![t] = "parsing"]
        /\ UNCHANGED forwarder
  /\ UNCHANGED <<config, injected, context, client, jobs, facts, linked, summary, crashes, edits, history>>

\* An answer that is no success is passed on and one without content leaves no task.
ProxyAnthropic(t) ==
  /\ provider = "Anthropic"
  /\ \/ Goto(t, "reading", "failed") /\ UNCHANGED answers
     \/ /\ Goto(t, "reading", "answered")
        /\ \E n \in 0..Chunks :
             /\ Answer(t, n)
             /\ capture' = [capture EXCEPT ![t] = IF n = 0 THEN "empty" ELSE "parsing"]
        /\ UNCHANGED forwarder
  /\ UNCHANGED <<config, injected, context, client, jobs, facts, linked, summary, crashes, edits, history>>

Streamed == UNCHANGED <<config, handler, injected, context, client, jobs, facts, linked, summary,
                        crashes, edits, history>>

\* byte_stream.next(): a chunk is captured before it is forwarded.
Receive(t) ==
  /\ forwarder[t] = "receiving" /\ stream[t].left > 0
  /\ stream' = [stream EXCEPT ![t].left = @ - 1, ![t].captured = @ + 1]
  /\ forwarder' = [forwarder EXCEPT ![t] = "sending"]
  /\ UNCHANGED capture /\ Streamed

\* forward_tx.send(bytes) waits while the channel is full.
Forward(t) ==
  /\ forwarder[t] = "sending" /\ client[t] = "here" /\ stream[t].queued < Buffer
  /\ stream' = [stream EXCEPT ![t].queued = @ + 1]
  /\ forwarder' = [forwarder EXCEPT ![t] = "receiving"]
  /\ UNCHANGED capture /\ Streamed

\* Mutation: the forwarder returns when the client is gone, without capture_tx.send.
DropCapture(t) ==
  /\ forwarder[t] = "sending" /\ client[t] = "gone"
  /\ forwarder' = [forwarder EXCEPT ![t] = "none"]
  /\ capture' = [capture EXCEPT ![t] = "none"]
  /\ UNCHANGED stream /\ Streamed

\* capture_tx.send(captured); what is still in the channel concerns only the client.
SendCapture(t) ==
  /\ forwarder' = [forwarder EXCEPT ![t] = "none"]
  /\ stream' = [stream EXCEPT ![t] = [Silence EXCEPT !.captured = stream[t].captured]]
  /\ capture' = [capture EXCEPT ![t] = "parsing"]

ClientGone(t) ==
  /\ forwarder[t] = "sending" /\ client[t] = "gone"
  /\ SendCapture(t) /\ Streamed

\* The answer ends, or breaks off with an error of the upstream connection.
EndOfStream(t) ==
  /\ forwarder[t] = "receiving"
  /\ SendCapture(t) /\ Streamed

ClientReads(t) ==
  /\ client[t] = "here" /\ stream[t].queued > 0
  /\ stream' = [stream EXCEPT ![t].queued = @ - 1]
  /\ UNCHANGED <<forwarder, capture>> /\ Streamed

\* The connection closes: a handler that still runs is dropped where it waits.
ClientLeaves(t) ==
  /\ handler[t] # "new" /\ client[t] = "here"
  /\ handler[t] \notin Ended \/ forwarder[t] # "none"
  /\ client' = [client EXCEPT ![t] = "gone"]
  /\ handler' = [handler EXCEPT ![t] = IF @ \in Ended THEN @ ELSE "left"]
  /\ Forget({t})
  /\ UNCHANGED <<config, answers, jobs, facts, linked, summary, crashes, edits, settledBefore, forgotten>>

Submitted(t) ==
  /\ capture' = [capture EXCEPT ![t] = "submitted"]
  /\ settledBefore' = [settledBefore EXCEPT ![t] = {u \in Turns : state[u] \in Final}]

NotSubmitted(t, why) ==
  /\ capture' = [capture EXCEPT ![t] = why]
  /\ UNCHANGED <<jobs, settledBefore>>

\* Without the outbox the task runs the extraction itself, and only once.
ExtractAndStore(t) ==
  /\ Queue!Move({t}, "new", "running")
  /\ tries' = [tries EXCEPT ![t] = Budget]
  /\ UNCHANGED done

\* parse_streaming, parse_buffered: content # ""
HasContent(t) == stream[t].captured > 0

\* The INSERT of the job may fail, and is only logged.
EnqueueOrExtract(t) ==
  /\ capture[t] = "parsing"
  /\ \/ ~HasContent(t) /\ NotSubmitted(t, "empty")
     \/ /\ HasContent(t)
        /\ \/ outbox /\ Queue!Submit(t) /\ Submitted(t)
           \/ outbox /\ NotSubmitted(t, "dropped")
           \/ ~outbox /\ ExtractAndStore(t) /\ Submitted(t)
  /\ stream' = [stream EXCEPT ![t] = Silence]
  /\ UNCHANGED <<config, handler, injected, context, forwarder, client, facts, linked, summary,
                 crashes, edits, hiddenBefore, forgotten>>

Extraction == UNCHANGED <<config, handler, injected, context, answers, client, crashes, edits, history>>

StartJob(t) == outbox /\ Queue!Start({t}) /\ UNCHANGED <<facts, linked, summary>> /\ Extraction

\* store_memory, for a session whose agent may be gone by now
StoreFact(t) ==
  /\ "summary" \notin done[t] /\ Queue!Perform(t, "fact")
  /\ facts' = [facts EXCEPT ![t] = "open"]
  /\ UNCHANGED <<linked, summary>> /\ Extraction

\* upsert_entity and link_memory_entity; a failure is only logged
LinkFact(t) ==
  /\ state[t] = "running" /\ "fact" \in done[t] /\ "summary" \notin done[t]
  /\ facts[t] # "absent" /\ t \notin linked
  /\ linked' = linked \cup {t}
  /\ UNCHANGED <<jobs, facts, summary>> /\ Extraction

\* Mutation: ON CONFLICT DO NOTHING.
KeepSummary(t) == summary' = IF summary = NoTurn THEN t ELSE summary

\* ON CONFLICT (agent_id, session_id) DO UPDATE SET summary = EXCLUDED.summary
UpsertWorkingMemory(t) == summary' = t

StoreSummary(t) ==
  /\ Queue!Perform(t, "summary")
  /\ UpsertWorkingMemory(t)
  /\ UNCHANGED <<facts, linked>> /\ Extraction

FinishJob(t) ==
  /\ Queue!Complete(t) \/ Queue!Retry(t) \/ Queue!GiveUp(t)
  /\ UNCHANGED <<facts, linked, summary>> /\ Extraction

Administered ==
  /\ edits < Edits /\ edits' = edits + 1
  /\ UNCHANGED <<config, handler, injected, context, answers, client, jobs, crashes,
                 settledBefore>>

\* A fact is labelled private, suppressed, archived or evicted,
Hide(m) ==
  /\ facts[m] = "open"
  /\ facts' = [facts EXCEPT ![m] = "hidden"]
  /\ UNCHANGED <<linked, summary, hiddenBefore, forgotten>> /\ Administered

\* or made injectable again.
Show(m) ==
  /\ facts[m] = "hidden"
  /\ facts' = [facts EXCEPT ![m] = "open"]
  /\ hiddenBefore' = [t \in Turns |-> hiddenBefore[t] \ {m}]
  /\ UNCHANGED <<config, handler, injected, context, answers, client, jobs, linked, summary,
                 crashes, edits, settledBefore, forgotten>>

DeleteSession ==
  /\ summary # NoTurn
  /\ summary' = NoTurn
  /\ UNCHANGED <<facts, linked, hiddenBefore, forgotten>> /\ Administered

\* delete_agent empties memories and working_memory; the jobs are left.
DeleteAgent ==
  /\ facts' = [m \in Turns |-> "absent"]
  /\ linked' = {} /\ summary' = NoTurn
  /\ forgotten' = {t \in Turns : handler[t] # "new"}
  /\ UNCHANGED hiddenBefore /\ Administered

\* The handlers, tasks and runs of the process are gone; the tables stay.
Crash ==
  /\ crashes < Crashes /\ crashes' = crashes + 1
  /\ handler' = [t \in Turns |-> IF handler[t] \in Ended \cup {"new"} THEN handler[t]
                                 ELSE "crashed"]
  /\ Forget(Turns)
  /\ forwarder' = [t \in Turns |-> "none"]
  /\ stream' = [t \in Turns |-> Silence]
  /\ capture' = [t \in Turns |-> IF capture[t] \in {"waiting", "parsing"} THEN "dropped"
                                 ELSE capture[t]]
  /\ Queue!Lose({t \in Turns : state[t] = "running"})
  /\ UNCHANGED <<config, client, facts, linked, summary, edits, settledBefore, forgotten>>

Handle(t) == Search(t) \/ WalkGraph(t) \/ BuildInjection(t) \/ Send(t)
             \/ ProxyBuffered(t) \/ ProxyAnthropic(t)
ForwardAnswer(t) == Receive(t) \/ Forward(t) \/ ClientGone(t) \/ EndOfStream(t)
RunJob(t) == StoreFact(t) \/ LinkFact(t) \/ StoreSummary(t) \/ FinishJob(t)

Next ==
  \/ \E t \in Turns : Arrive(t) \/ Handle(t) \/ ForwardAnswer(t) \/ EnqueueOrExtract(t)
  \/ \E t \in Turns : ClientReads(t) \/ ClientLeaves(t)
  \/ \E t \in Turns : StartJob(t) \/ RunJob(t)
  \/ \E m \in Turns : Hide(m) \/ Show(m)
  \/ DeleteSession \/ DeleteAgent \/ Crash

\* tokio polls every task, the HTTP client has a timeout, the worker keeps
\* polling; nothing is assumed of clients and administrators.
Fairness ==
  \A t \in Turns : /\ WF_vars(Handle(t)) /\ WF_vars(ForwardAnswer(t))
                   /\ WF_vars(EnqueueOrExtract(t))
                   /\ WF_vars(StartJob(t)) /\ WF_vars(RunJob(t))

Spec == Init /\ [][Next]_vars /\ Fairness

TypeOK ==
  /\ provider \in {"Anthropic", "OpenAI"} /\ outbox \in BOOLEAN
  /\ handler \in [Turns -> Ended \cup {"new", "searching", "walking", "injecting",
                                       "sending", "reading"}]
  /\ injected \in [Turns -> SUBSET Turns] /\ context \in [Turns -> Turns \cup {NoTurn}]
  /\ stream \in [Turns -> [left : 0..Chunks, captured : 0..Chunks, queued : 0..Buffer]]
  /\ forwarder \in [Turns -> {"none", "receiving", "sending"}]
  /\ client \in [Turns -> {"here", "gone"}]
  /\ capture \in [Turns -> {"none", "waiting", "parsing", "submitted", "empty", "dropped"}]
  /\ state \in [Turns -> Queue!States] /\ tries \in [Turns -> 0..Budget]
  /\ done \in [Turns -> SUBSET {"fact", "summary"}]
  /\ facts \in [Turns -> {"absent", "open", "hidden"}]
  /\ linked \in SUBSET Turns /\ summary \in Turns \cup {NoTurn} /\ crashes \in 0..Crashes /\ edits \in 0..Edits
  /\ settledBefore \in [Turns -> SUBSET Turns] /\ hiddenBefore \in [Turns -> SUBSET Turns]
  /\ forgotten \in SUBSET Turns

Answering(t) == handler[t] \in {"sending", "reading", "answered"}

Stalled(t) == forwarder[t] = "sending" /\ client[t] = "here" /\ stream[t].queued = Buffer

\* The extraction of the turn has ended, or one of the named losses happened:
\* no text, a failed INSERT, an upstream failure, a client that left before
\* the answer, a crash.
Accounted(t) == \/ state[t] \in Final
                \/ capture[t] \in {"empty", "dropped"}
                \/ handler[t] \in {"failed", "left", "crashed"}

\* If no client stops reading for ever without leaving, every turn sent
\* upstream is extracted or lost to a named cause: the proxy's tasks, channels
\* and early returns lose none, also when the client leaves a streamed answer.
AnswersAreRemembered ==
  (\A t \in Turns : []<>~Stalled(t)) => \A t \in Turns : Answering(t) ~> Accounted(t)

\* Once turn u has stored its summary, the session's is never again the one of
\* a turn whose extraction had settled before u was submitted: late runs,
\* retries and crashes do not turn it back.
QuietTurnsWin ==
  \A u \in Turns : "summary" \in done[u] => summary \notin settledBefore[u]

\* No prompt holds a fact that has been private, suppressed, archived or
\* evicted ever since its turn arrived, by either way facts are found.
NothingHiddenIsSent == \A t \in Turns : injected[t] \cap hiddenBefore[t] = {}

\* store.rs:77 "Delete an agent and all associated data": nothing of a turn
\* that had arrived is stored after the deletion.
NothingReturns == \A t \in forgotten : facts[t] = "absent" /\ summary # t

\* retrieval.rs:18 "memories linked to those entities via `memory_entity_links` are
\* merged in": the facts the walk finds reach the prompt.
LinkedFactsAreMerged == \A rows \in Linked({}) : LinkedFacts(rows) = rows
=============================================================================
