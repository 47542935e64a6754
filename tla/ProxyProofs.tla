------------------------------ MODULE ProxyProofs ------------------------------
(***************************************************************************)
(* Proofs about what a turn meets on its way through the proxy: the life   *)
(* of turns (Turns), for all turns, chunks, buffers, budgets and crashes,  *)
(* and the rate limiter before it (RateLimiter), for all agents, threads,  *)
(* bursts, lifetimes of idle buckets and horizons.                         *)
(***************************************************************************)
EXTENDS Turns, RateLimiter, TLAPS

-----------------------------------------------------------------------------
(***************************************************************************)
(* Turns: the inductive invariant.                                         *)
(***************************************************************************)

\* Where the handler of a turn is before anything was sent upstream.
Unsent == {"new", "searching", "walking", "injecting", "sending", "reading"}

\* A stream carries no more than its answer, and nothing before there is one.
StreamsInv ==
    \A t \in Turns :
        /\ stream[t].left + stream[t].captured <= Chunks
        /\ handler[t] \in Unsent => stream[t] = Silence /\ forwarder[t] = "none"

\* A turn that has not arrived was given no facts.
ArrivalsInv == \A t \in Turns : handler[t] = "new" => injected[t] = {}

\* A job has no effects before it is submitted.
JobsInv == \A t \in Turns : state[t] = "new" => done[t] = {}

\* A fact that is there was stored, which happens once.
FactsInv == \A m \in Turns : facts[m] # "absent" => "fact" \in done[m]

\* What a turn must not be given was stored before it arrived, and is hidden
\* or deleted: neither makes it injectable again.
HiddenInv == \A t \in Turns : \A m \in hiddenBefore[t] : "fact" \in done[m] /\ facts[m] # "open"

\* What was settled when a turn was submitted is settled for good.
SettledInv == \A t \in Turns : \A u \in settledBefore[t] : state[u] \in Final

TurnsInv ==
    /\ TypeOK
    /\ StreamsInv
    /\ ArrivalsInv
    /\ JobsInv
    /\ FactsInv
    /\ HiddenInv
    /\ SettledInv
    /\ NothingHiddenIsSent
    /\ QuietTurnsWin

-----------------------------------------------------------------------------
StreamState == [left : 0..Chunks, captured : 0..Chunks, queued : 0..Buffer]

Handlers == Ended \cup Unsent

\* The variables that the handlers and tasks of the proxy change.
ProxyTypes ==
    /\ handler \in [Turns -> Handlers]
    /\ injected \in [Turns -> SUBSET Turns] /\ context \in [Turns -> Turns \cup {NoTurn}]
    /\ stream \in [Turns -> StreamState]
    /\ forwarder \in [Turns -> {"none", "receiving", "sending"}]
    /\ client \in [Turns -> {"here", "gone"}]
    /\ capture \in [Turns -> {"none", "waiting", "parsing", "submitted", "empty", "dropped"}]
    /\ hiddenBefore \in [Turns -> SUBSET Turns]

\* Those that the extraction and the administrators change.
MemoryTypes ==
    /\ state \in [Turns -> Queue!States] /\ tries \in [Turns -> 0..Budget]
    /\ done \in [Turns -> SUBSET {"fact", "summary"}]
    /\ facts \in [Turns -> {"absent", "open", "hidden"}]
    /\ linked \in SUBSET Turns /\ summary \in Turns \cup {NoTurn}
    /\ crashes \in 0..Crashes /\ edits \in 0..Edits
    /\ settledBefore \in [Turns -> SUBSET Turns] /\ forgotten \in SUBSET Turns

ConfigTypes == provider \in {"Anthropic", "OpenAI"} /\ outbox \in BOOLEAN

\* The types of Turns, in three parts.
LEMMA TurnTypes == TypeOK <=> ConfigTypes /\ ProxyTypes /\ MemoryTypes
BY DEF TypeOK, ConfigTypes, ProxyTypes, MemoryTypes, StreamState, Handlers, Unsent

\* The same of the next state.
LEMMA TurnTypesNext == TypeOK' <=> ConfigTypes' /\ ProxyTypes' /\ MemoryTypes'
BY DEF TypeOK, ConfigTypes, ProxyTypes, MemoryTypes, StreamState, Handlers, Unsent

\* A stream to be is silent, and what a stream captured fits in it.
LEMMA SilenceTypes ==
    ASSUME NEW n \in 0..Chunks
    PROVE  /\ Silence \in StreamState
           /\ [Silence EXCEPT !.left = n] = [left |-> n, captured |-> 0, queued |-> 0]
           /\ [Silence EXCEPT !.captured = n] = [left |-> 0, captured |-> n, queued |-> 0]
           /\ [left |-> n, captured |-> 0, queued |-> 0] \in StreamState
           /\ [left |-> 0, captured |-> n, queued |-> 0] \in StreamState
BY TurnsAssumption DEF Silence, StreamState

\* The stream of a turn, after a step that concerns it.
LEMMA StreamMoves ==
    ASSUME TypeOK, StreamsInv, NEW t \in Turns, ForwardAnswer(t) \/ ClientReads(t)
    PROVE  /\ stream'[t] \in StreamState
           /\ stream'[t].left + stream'[t].captured <= Chunks
           /\ \E s : stream' = [stream EXCEPT ![t] = s]
<1>t. /\ stream \in [Turns -> StreamState]
      /\ stream[t].left \in 0..Chunks /\ stream[t].captured \in 0..Chunks /\ stream[t].queued \in 0..Buffer
      /\ stream[t].left + stream[t].captured <= Chunks
      /\ Chunks \in Nat /\ Buffer \in Nat
    BY TurnTypes, TurnsAssumption DEF ProxyTypes, StreamState, StreamsInv
<1>1. CASE Receive(t)
    <2> DEFINE next == [left |-> stream[t].left - 1, captured |-> stream[t].captured + 1,
                        queued |-> stream[t].queued]
    <2>1. stream[t].left > 0
        BY <1>1 DEF Receive
    <2>2. stream' = [stream EXCEPT ![t] = [[stream[t] EXCEPT !.left = stream[t].left - 1]
                                               EXCEPT !.captured = stream[t].captured + 1]]
        <3>1. stream' = [stream EXCEPT ![t].left = @ - 1, ![t].captured = @ + 1]
            BY <1>1 DEF Receive
        <3> QED BY <3>1, <1>t DEF StreamState
    <2>3. [[stream[t] EXCEPT !.left = stream[t].left - 1] EXCEPT !.captured = stream[t].captured + 1] = next
        <3>1. [stream[t] EXCEPT !.left = stream[t].left - 1]
                = [left |-> stream[t].left - 1, captured |-> stream[t].captured, queued |-> stream[t].queued]
            BY <1>t DEF StreamState
        <3>2. [[left |-> stream[t].left - 1, captured |-> stream[t].captured, queued |-> stream[t].queued]
                 EXCEPT !.captured = stream[t].captured + 1] = next
            OBVIOUS
        <3> QED BY <3>1, <3>2
    <2>4. next \in StreamState /\ next.left + next.captured <= Chunks
        BY <1>t, <2>1 DEF StreamState
    <2> HIDE DEF next
    <2> QED BY <1>t, <2>2, <2>3, <2>4
<1>2. CASE Forward(t) \/ ClientReads(t)
    <2> DEFINE next(q) == [left |-> stream[t].left, captured |-> stream[t].captured, queued |-> q]
    <2>1. \E q \in 0..Buffer : stream' = [stream EXCEPT ![t] = [stream[t] EXCEPT !.queued = q]]
        <3>1. CASE Forward(t)
            <4>1. stream[t].queued + 1 \in 0..Buffer
                BY <1>t, <3>1 DEF Forward
            <4> QED BY <3>1, <4>1 DEF Forward
        <3>2. CASE ClientReads(t)
            <4>1. stream[t].queued - 1 \in 0..Buffer
                BY <1>t, <3>2 DEF ClientReads
            <4> QED BY <3>2, <4>1 DEF ClientReads
        <3> QED BY <1>2, <3>1, <3>2
    <2>2. ASSUME NEW q \in 0..Buffer
          PROVE  /\ [stream[t] EXCEPT !.queued = q] = next(q)
                 /\ next(q) \in StreamState /\ next(q).left + next(q).captured <= Chunks
        BY <1>t DEF StreamState
    <2>3. PICK q \in 0..Buffer : stream' = [stream EXCEPT ![t] = [stream[t] EXCEPT !.queued = q]]
        BY <2>1
    <2>4. stream' = [stream EXCEPT ![t] = next(q)]
        <3>1. [stream[t] EXCEPT !.queued = q] = next(q)
            BY <2>2
        <3> HIDE DEF next
        <3> QED BY <2>3, <3>1
    <2>5. next(q) \in StreamState /\ next(q).left + next(q).captured <= Chunks
        BY <2>2
    <2> HIDE DEF next
    <2> QED BY <1>t, <2>4, <2>5
<1>3. CASE ClientGone(t) \/ EndOfStream(t)
    <2> DEFINE next == [left |-> 0, captured |-> stream[t].captured, queued |-> 0]
    <2>1. stream' = [stream EXCEPT ![t] = [Silence EXCEPT !.captured = stream[t].captured]]
        BY <1>3 DEF ClientGone, EndOfStream, SendCapture
    <2>2. [Silence EXCEPT !.captured = stream[t].captured] = next
        BY <1>t, SilenceTypes
    <2>3. next \in StreamState /\ next.left + next.captured <= Chunks
        BY <1>t DEF StreamState
    <2> HIDE DEF next
    <2> QED BY <1>t, <2>1, <2>2, <2>3
<1> QED BY <1>1, <1>2, <1>3 DEF ForwardAnswer

\* An answer that comes in one piece, or begins to stream, fills a silent stream.
LEMMA AnswerMoves ==
    ASSUME TypeOK, StreamsInv, NEW t \in Turns, handler[t] \in {"sending", "reading"}, NEW n \in 0..Chunks,
           Answer(t, n) \/ stream' = [stream EXCEPT ![t].left = n]
    PROVE  /\ stream'[t] \in StreamState
           /\ stream'[t].left + stream'[t].captured <= Chunks
           /\ \E s : stream' = [stream EXCEPT ![t] = s]
<1>1. stream \in [Turns -> StreamState] /\ stream[t] = Silence /\ Chunks \in Nat
    BY TurnTypes, TurnsAssumption DEF ProxyTypes, StreamsInv, Unsent
<1> DEFINE l == [left |-> n, captured |-> 0, queued |-> 0]
           c == [left |-> 0, captured |-> n, queued |-> 0]
<1>2. /\ l \in StreamState /\ l.left + l.captured <= Chunks
      /\ c \in StreamState /\ c.left + c.captured <= Chunks
    <2>1. n + 0 <= Chunks /\ 0 + n <= Chunks
        BY <1>1
    <2> QED BY <2>1, SilenceTypes
<1>3. CASE Answer(t, n)
    <2>1. stream' = [stream EXCEPT ![t] = [Silence EXCEPT !.captured = n]]
        BY <1>1, <1>3 DEF Answer
    <2>2. [Silence EXCEPT !.captured = n] = c
        BY SilenceTypes
    <2> HIDE DEF c
    <2> QED BY <1>1, <1>2, <2>1, <2>2
<1>4. CASE stream' = [stream EXCEPT ![t].left = n]
    <2>1. stream' = [stream EXCEPT ![t] = [Silence EXCEPT !.left = n]]
        BY <1>1, <1>4
    <2>2. [Silence EXCEPT !.left = n] = l
        BY SilenceTypes
    <2> HIDE DEF l
    <2> QED BY <1>1, <1>2, <2>1, <2>2
<1> QED BY <1>3, <1>4

\* A handler that goes on is at a place of handlers.
LEMMA HandlerMoves ==
    ASSUME TypeOK, NEW t \in Turns, NEW from, NEW to \in Handlers, Goto(t, from, to)
    PROVE  /\ handler' \in [Turns -> Handlers]
           /\ handler[t] = from /\ handler'[t] = to
           /\ \A u \in Turns \ {t} : handler'[u] = handler[u]
BY TurnTypes DEF ProxyTypes, Goto

\* A handler that ends keeps nothing of its prompt.
LEMMA ForgetTypes ==
    ASSUME ProxyTypes, NEW S, Forget(S)
    PROVE  /\ injected' \in [Turns -> SUBSET Turns] /\ context' \in [Turns -> Turns \cup {NoTurn}]
           /\ hiddenBefore' \in [Turns -> SUBSET Turns]
           /\ \A t \in Turns : injected'[t] \subseteq injected[t] /\ hiddenBefore'[t] \subseteq hiddenBefore[t]
BY DEF ProxyTypes, Forget

\* A prompt is given facts that may be injected.
LEMMA PromptTypes ==
    ASSUME ProxyTypes, NEW t \in Turns, Search(t) \/ WalkGraph(t)
    PROVE  /\ injected' \in [Turns -> SUBSET Turns]
           /\ injected'[t] \subseteq injected[t] \cup Injectable
           /\ \A u \in Turns \ {t} : injected'[u] = injected[u]
<1>1. CASE Search(t)
    <2>1. PICK hits \in Hits : injected' = [injected EXCEPT ![t] = hits]
        BY <1>1 DEF Search
    <2> QED BY <2>1 DEF Hits, Injectable, ProxyTypes
<1>2. CASE WalkGraph(t)
    <2>1. PICK rows \in Linked(injected[t]) : injected' = [injected EXCEPT ![t] = @ \cup LinkedFacts(rows)]
        BY <1>2 DEF WalkGraph
    <2>2. LinkedFacts(rows) \subseteq rows /\ rows \subseteq Injectable
        BY <2>1 DEF LinkedFacts, Linked
    <2> QED BY <2>1, <2>2 DEF Injectable, ProxyTypes
<1> QED BY <1>1, <1>2

\* The handlers of turns keep the types.
LEMMA HandleTypes ==
    ASSUME TypeOK, StreamsInv, NEW t \in Turns, Arrive(t) \/ Handle(t) \/ ClientLeaves(t)
    PROVE  TypeOK'
<1>t. ConfigTypes /\ ProxyTypes /\ MemoryTypes
    BY TurnTypes
<1>h. Unsent \subseteq Handlers /\ {"refused", "failed", "answered", "left"} \subseteq Handlers
    BY DEF Handlers, Unsent, Ended
<1>s. {"searching", "walking", "injecting", "sending", "reading"} \subseteq Handlers
    BY DEF Handlers, Unsent
<1>1. ASSUME UNCHANGED <<state, tries, done, facts, linked, summary, crashes, edits, settledBefore, forgotten>>
      PROVE  MemoryTypes'
    BY <1>1, <1>t DEF MemoryTypes
<1>2. ASSUME UNCHANGED config PROVE ConfigTypes'
    BY <1>2, <1>t DEF ConfigTypes, config
<1>3. CASE Arrive(t)
    <2>1. handler' \in [Turns -> Handlers]
        BY <1>3, <1>h, <1>s, HandlerMoves DEF Arrive
    <2>2. hiddenBefore' \in [Turns -> SUBSET Turns]
        BY <1>3, <1>t DEF Arrive, Hidden, ProxyTypes
    <2>3. ProxyTypes'
        BY <1>3, <1>t, <2>1, <2>2 DEF Arrive, ProxyTypes, answers
    <2> QED BY <1>1, <1>2, <1>3, <2>3, TurnTypesNext DEF Arrive, jobs
<1>4. CASE Search(t) \/ WalkGraph(t)
    <2>1. handler' \in [Turns -> Handlers]
        BY <1>4, <1>s, HandlerMoves DEF Search, WalkGraph
    <2>2. ProxyTypes'
        BY <1>4, <1>t, <2>1, PromptTypes DEF Search, WalkGraph, ProxyTypes, answers, history
    <2> QED BY <1>1, <1>2, <1>4, <2>2, TurnTypesNext DEF Search, WalkGraph, jobs, history
<1>5. CASE BuildInjection(t)
    <2>1. handler' \in [Turns -> Handlers]
        BY <1>5, <1>s, HandlerMoves DEF BuildInjection
    <2>2. Context(injected[t]) \in Turns \cup {NoTurn}
        BY <1>t DEF Context, MemoryTypes
    <2>3. ProxyTypes'
        BY <1>5, <1>t, <2>1, <2>2 DEF BuildInjection, ProxyTypes, answers, history
    <2> QED BY <1>1, <1>2, <1>5, <2>3, TurnTypesNext DEF BuildInjection, jobs, history
<1>6. CASE Send(t)
    <2>1. /\ handler' \in [Turns -> Handlers]
          /\ stream' \in [Turns -> StreamState]
          /\ forwarder' \in [Turns -> {"none", "receiving", "sending"}]
          /\ capture' \in [Turns -> {"none", "waiting", "parsing", "submitted", "empty", "dropped"}]
        <3>1. CASE Goto(t, "sending", "failed") \/ Goto(t, "sending", "reading")
            <4>1. handler' \in [Turns -> Handlers]
                BY <1>h, <1>s, <3>1, HandlerMoves
            <4>2. UNCHANGED answers
                BY <1>6, <1>t, <3>1 DEF Send, ProxyStreaming, Goto, ProxyTypes
            <4> QED BY <1>t, <4>1, <4>2 DEF answers, ProxyTypes
        <3>2. CASE ProxyStreaming(t)
            <4>1. handler[t] = "sending" /\ handler' \in [Turns -> Handlers]
                BY <1>h, <3>2, HandlerMoves DEF ProxyStreaming
            <4>2. stream'[t] \in StreamState /\ \E s : stream' = [stream EXCEPT ![t] = s]
                BY <3>2, <4>1, AnswerMoves DEF ProxyStreaming
            <4> QED BY <1>t, <3>2, <4>1, <4>2 DEF ProxyStreaming, ProxyTypes
        <3> QED BY <1>6, <3>1, <3>2 DEF Send
    <2>2. ProxyTypes'
        BY <1>6, <1>t, <2>1, ForgetTypes DEF Send, ProxyTypes
    <2> QED BY <1>1, <1>2, <1>6, <2>2, TurnTypesNext DEF Send, jobs
<1>7. CASE ProxyBuffered(t) \/ ProxyAnthropic(t)
    <2>1. /\ handler' \in [Turns -> Handlers]
          /\ stream' \in [Turns -> StreamState]
          /\ capture' \in [Turns -> {"none", "waiting", "parsing", "submitted", "empty", "dropped"}]
          /\ forwarder' = forwarder
        <3>1. CASE Goto(t, "reading", "failed") /\ UNCHANGED answers
            <4>1. handler' \in [Turns -> Handlers]
                BY <1>h, <3>1, HandlerMoves
            <4> QED BY <1>t, <3>1, <4>1 DEF answers, ProxyTypes
        <3>2. CASE /\ Goto(t, "reading", "answered")
                   /\ \E n \in 0..Chunks : Answer(t, n)
                   /\ \E c \in {"empty", "parsing"} : capture' = [capture EXCEPT ![t] = c]
                   /\ UNCHANGED forwarder
            <4>1. handler[t] = "reading" /\ handler' \in [Turns -> Handlers]
                BY <1>h, <3>2, HandlerMoves
            <4>2. stream'[t] \in StreamState /\ \E s : stream' = [stream EXCEPT ![t] = s]
                BY <3>2, <4>1, AnswerMoves
            <4> QED BY <1>t, <3>2, <4>1, <4>2 DEF ProxyTypes
        <3> QED BY <1>7, <3>1, <3>2 DEF ProxyBuffered, ProxyAnthropic
    <2>2. ProxyTypes'
        BY <1>7, <1>t, <2>1 DEF ProxyBuffered, ProxyAnthropic, ProxyTypes, history
    <2> QED BY <1>1, <1>2, <1>7, <2>2, TurnTypesNext DEF ProxyBuffered, ProxyAnthropic, jobs, history
<1>8. CASE ClientLeaves(t)
    <2>1. handler' \in [Turns -> Handlers] /\ client' \in [Turns -> {"here", "gone"}]
        BY <1>8, <1>t, <1>h DEF ClientLeaves, ProxyTypes
    <2>2. ProxyTypes'
        BY <1>8, <1>t, <2>1, ForgetTypes DEF ClientLeaves, ProxyTypes, answers
    <2> QED BY <1>1, <1>2, <1>8, <2>2, TurnTypesNext DEF ClientLeaves, jobs
<1> QED BY <1>3, <1>4, <1>5, <1>6, <1>7, <1>8 DEF Handle

\* So do the tasks that pass an answer on, and the client that reads it.
LEMMA AnswerTypes ==
    ASSUME TypeOK, StreamsInv, NEW t \in Turns, ForwardAnswer(t) \/ ClientReads(t)
    PROVE  TypeOK'
<1>t. ConfigTypes /\ ProxyTypes /\ MemoryTypes
    BY TurnTypes
<1>1. Streamed
    BY DEF ForwardAnswer, Receive, Forward, ClientGone, EndOfStream, ClientReads
<1>2. /\ stream' \in [Turns -> StreamState]
      /\ forwarder' \in [Turns -> {"none", "receiving", "sending"}]
      /\ capture' \in [Turns -> {"none", "waiting", "parsing", "submitted", "empty", "dropped"}]
    <2>1. stream' \in [Turns -> StreamState]
        BY <1>t, StreamMoves DEF ProxyTypes
    <2>2. /\ forwarder' = forwarder \/ \E f \in {"none", "receiving", "sending"} : forwarder' = [forwarder EXCEPT ![t] = f]
          /\ capture' = capture \/ capture' = [capture EXCEPT ![t] = "parsing"]
        BY DEF ForwardAnswer, Receive, Forward, ClientGone, EndOfStream, SendCapture, ClientReads
    <2> QED BY <1>t, <2>1, <2>2 DEF ProxyTypes
<1>3. ProxyTypes'
    BY <1>t, <1>1, <1>2 DEF ProxyTypes, Streamed, history
<1>4. MemoryTypes' /\ ConfigTypes'
    BY <1>t, <1>1 DEF MemoryTypes, ConfigTypes, Streamed, jobs, config, history
<1> QED BY <1>3, <1>4, TurnTypesNext

-----------------------------------------------------------------------------
(***************************************************************************)
(* The jobs, as JobQueue promises them.                                    *)
(***************************************************************************)

\* What a step may do to the jobs of the turns.
JobStep ==
    \/ \E t \in Turns : Queue!Submit(t) \/ ExtractAndStore(t)
    \/ \E t \in Turns : Queue!Start({t})
    \/ \E t \in Turns, e \in {"fact", "summary"} : Queue!Perform(t, e)
    \/ \E t \in Turns : Queue!Complete(t) \/ Queue!Retry(t) \/ Queue!GiveUp(t)
    \/ Queue!Lose({t \in Turns : state[t] = "running"})
    \/ UNCHANGED jobs

\* Every step of the system is one of the queue, one without the outbox that
\* runs a job at once, or leaves the jobs alone.
LEMMA JobSteps == [Next]_vars => JobStep
BY DEF Next, vars, jobs, history, JobStep, Arrive, Handle, Search, WalkGraph, BuildInjection, Send,
       ProxyBuffered, ProxyAnthropic, ForwardAnswer, Receive, Forward, ClientGone, EndOfStream, Streamed,
       EnqueueOrExtract, NotSubmitted, ClientReads, ClientLeaves, StartJob, RunJob, StoreFact, LinkFact,
       StoreSummary, FinishJob, Hide, Show, Administered, DeleteSession, DeleteAgent, Crash

\* A job's state moves, its tries are counted and its effects are added up; a
\* settled job is settled for good, and one that is new has done nothing.
LEMMA JobFacts ==
    ASSUME MemoryTypes, JobStep
    PROVE  /\ state' \in [Turns -> Queue!States] /\ tries' \in [Turns -> 0..Budget]
           /\ done' \in [Turns -> SUBSET {"fact", "summary"}]
           /\ \A u \in Turns : state[u] \in Final => state'[u] = state[u]
           /\ \A u \in Turns : done[u] \subseteq done'[u]
           /\ \A u \in Turns : state'[u] = "new" => state[u] = "new" /\ done'[u] = done[u]
<1>t. /\ state \in [Turns -> Queue!States] /\ tries \in [Turns -> 0..Budget]
      /\ done \in [Turns -> SUBSET {"fact", "summary"}] /\ Budget \in Nat \ {0}
    BY TurnsAssumption DEF MemoryTypes
<1>1. ASSUME NEW t \in Turns, Queue!Submit(t) \/ ExtractAndStore(t)
      PROVE  /\ state' \in [Turns -> Queue!States] /\ tries' \in [Turns -> 0..Budget] /\ done' = done
             /\ \A u \in Turns : state[u] \in Final => state'[u] = state[u]
             /\ \A u \in Turns : state'[u] = "new" => state[u] = "new"
    <2>1. \E to \in {"waiting", "running"} : Queue!Move({t}, "new", to)
        BY <1>1 DEF Queue!Submit, ExtractAndStore
    <2>2. tries' = tries \/ tries' = [tries EXCEPT ![t] = Budget]
        BY <1>1 DEF Queue!Submit, ExtractAndStore
    <2>3. tries' \in [Turns -> 0..Budget]
        BY <1>t, <2>2
    <2> QED BY <1>1, <1>t, <2>1, <2>3 DEF Queue!Submit, ExtractAndStore, Queue!Move, Queue!States, Final
<1>2. ASSUME NEW t \in Turns, Queue!Start({t})
      PROVE  /\ state' \in [Turns -> Queue!States] /\ tries' \in [Turns -> 0..Budget] /\ done' = done
             /\ \A u \in Turns : state[u] \in Final => state'[u] = state[u]
             /\ \A u \in Turns : state'[u] = "new" => state[u] = "new"
    BY <1>2, <1>t DEF Queue!Start, Queue!Move, Queue!States, Final
<1>3. ASSUME NEW t \in Turns, NEW e \in {"fact", "summary"}, Queue!Perform(t, e)
      PROVE  /\ state' = state /\ tries' = tries /\ done' \in [Turns -> SUBSET {"fact", "summary"}]
             /\ \A u \in Turns : done[u] \subseteq done'[u]
             /\ \A u \in Turns : state'[u] = "new" => done'[u] = done[u]
    BY <1>3, <1>t DEF Queue!Perform
<1>4. ASSUME \/ \E t \in Turns : Queue!Complete(t) \/ Queue!Retry(t) \/ Queue!GiveUp(t)
             \/ Queue!Lose({t \in Turns : state[t] = "running"})
      PROVE  /\ state' \in [Turns -> Queue!States] /\ tries' = tries /\ done' = done
             /\ \A u \in Turns : state[u] \in Final => state'[u] = state[u]
             /\ \A u \in Turns : state'[u] = "new" => state[u] = "new"
    BY <1>4, <1>t DEF Queue!Complete, Queue!Retry, Queue!GiveUp, Queue!Lose, Queue!Move, Queue!States, Final
<1>5. CASE UNCHANGED jobs
    BY <1>5, <1>t DEF jobs
<1> QED BY <1>t, <1>1, <1>2, <1>3, <1>4, <1>5 DEF JobStep

\* The extraction of a turn keeps the types.
LEMMA ExtractionTypes ==
    ASSUME TypeOK, [Next]_vars, NEW t \in Turns, EnqueueOrExtract(t) \/ StartJob(t) \/ RunJob(t)
    PROVE  TypeOK'
<1>t. ConfigTypes /\ ProxyTypes /\ MemoryTypes /\ JobStep
    BY TurnTypes, JobSteps
<1>j. /\ state' \in [Turns -> Queue!States] /\ tries' \in [Turns -> 0..Budget]
      /\ done' \in [Turns -> SUBSET {"fact", "summary"}]
    BY <1>t, JobFacts
<1>1. CASE EnqueueOrExtract(t)
    <2>1. capture' \in [Turns -> {"none", "waiting", "parsing", "submitted", "empty", "dropped"}]
        BY <1>t, <1>1 DEF EnqueueOrExtract, Submitted, NotSubmitted, ProxyTypes
    <2>2. settledBefore' \in [Turns -> SUBSET Turns]
        BY <1>t, <1>1 DEF EnqueueOrExtract, Submitted, NotSubmitted, MemoryTypes
    <2>3. stream' \in [Turns -> StreamState]
        <3>1. Silence \in StreamState
            BY TurnsAssumption DEF Silence, StreamState
        <3> QED BY <1>t, <1>1, <3>1 DEF EnqueueOrExtract, ProxyTypes
    <2>4. ProxyTypes'
        BY <1>t, <1>1, <2>1, <2>3 DEF EnqueueOrExtract, ProxyTypes
    <2>5. MemoryTypes' /\ ConfigTypes'
        BY <1>t, <1>j, <1>1, <2>2 DEF EnqueueOrExtract, MemoryTypes, ConfigTypes, config
    <2> QED BY <2>4, <2>5, TurnTypesNext
<1>2. CASE StartJob(t) \/ RunJob(t)
    <2>1. Extraction
        BY <1>2 DEF StartJob, RunJob, StoreFact, LinkFact, StoreSummary, FinishJob
    <2>2. /\ facts' \in [Turns -> {"absent", "open", "hidden"}]
          /\ linked' \in SUBSET Turns /\ summary' \in Turns \cup {NoTurn}
        BY <1>t, <1>2 DEF StartJob, RunJob, StoreFact, LinkFact, StoreSummary, UpsertWorkingMemory, FinishJob,
                          MemoryTypes
    <2>3. ProxyTypes' /\ ConfigTypes'
        BY <1>t, <2>1 DEF Extraction, ProxyTypes, ConfigTypes, config, answers, history
    <2>4. MemoryTypes'
        BY <1>t, <1>j, <2>1, <2>2 DEF Extraction, MemoryTypes, history
    <2> QED BY <2>3, <2>4, TurnTypesNext
<1> QED BY <1>1, <1>2

\* So do administrators,
LEMMA AdministratorTypes ==
    ASSUME TypeOK, (\E m \in Turns : Hide(m) \/ Show(m)) \/ DeleteSession \/ DeleteAgent
    PROVE  TypeOK'
<1>t. ConfigTypes /\ ProxyTypes /\ MemoryTypes
    BY TurnTypes
<1>1. CASE (\E m \in Turns : Hide(m)) \/ DeleteSession \/ DeleteAgent
    <2>1. Administered /\ hiddenBefore' = hiddenBefore
        BY <1>1 DEF Hide, DeleteSession, DeleteAgent
    <2>2. edits' \in 0..Edits
        BY <1>t, <2>1, TurnsAssumption DEF Administered, MemoryTypes
    <2>3. /\ facts' \in [Turns -> {"absent", "open", "hidden"}] /\ forgotten' \in SUBSET Turns
          /\ linked' \in SUBSET Turns /\ summary' \in Turns \cup {NoTurn}
        BY <1>t, <1>1 DEF Hide, DeleteSession, DeleteAgent, MemoryTypes
    <2>4. ProxyTypes' /\ ConfigTypes'
        BY <1>t, <2>1 DEF Administered, ProxyTypes, ConfigTypes, config, answers
    <2>5. MemoryTypes'
        BY <1>t, <2>1, <2>2, <2>3 DEF Administered, MemoryTypes, jobs
    <2> QED BY <2>4, <2>5, TurnTypesNext
<1>2. ASSUME NEW m \in Turns, Show(m) PROVE TypeOK'
    <2>1. facts' \in [Turns -> {"absent", "open", "hidden"}] /\ hiddenBefore' \in [Turns -> SUBSET Turns]
        BY <1>t, <1>2 DEF Show, MemoryTypes, ProxyTypes
    <2>2. ProxyTypes' /\ ConfigTypes' /\ MemoryTypes'
        BY <1>t, <1>2, <2>1 DEF Show, ProxyTypes, ConfigTypes, MemoryTypes, config, answers, jobs
    <2> QED BY <2>2, TurnTypesNext
<1> QED BY <1>1, <1>2

\* and a crash.
LEMMA CrashTypes ==
    ASSUME TypeOK, [Next]_vars, Crash
    PROVE  TypeOK'
<1>t. ConfigTypes /\ ProxyTypes /\ MemoryTypes /\ JobStep
    BY TurnTypes, JobSteps
<1>1. handler' \in [Turns -> Handlers]
    BY <1>t DEF Crash, ProxyTypes, Handlers, Ended
<1>2. stream' \in [Turns -> StreamState]
    <2>1. Silence \in StreamState
        BY TurnsAssumption DEF Silence, StreamState
    <2> QED BY <2>1 DEF Crash
<1>3. /\ forwarder' \in [Turns -> {"none", "receiving", "sending"}]
      /\ capture' \in [Turns -> {"none", "waiting", "parsing", "submitted", "empty", "dropped"}]
    BY <1>t DEF Crash, ProxyTypes
<1>4. ProxyTypes' /\ ConfigTypes'
    BY <1>t, <1>1, <1>2, <1>3, ForgetTypes DEF Crash, ProxyTypes, ConfigTypes, config
<1>5. crashes' \in 0..Crashes
    BY <1>t, TurnsAssumption DEF Crash, MemoryTypes
<1>6. MemoryTypes'
    BY <1>t, <1>5, JobFacts DEF Crash, MemoryTypes
<1> QED BY <1>4, <1>6, TurnTypesNext

\* Every step keeps the types.
LEMMA TurnTypeStep == TurnsInv /\ [Next]_vars => TypeOK'
<1> SUFFICES ASSUME TypeOK, StreamsInv, [Next]_vars PROVE TypeOK'
    BY DEF TurnsInv
<1>1. CASE UNCHANGED vars
    BY <1>1, TurnTypes, TurnTypesNext DEF vars, config, answers, jobs, history, ConfigTypes, ProxyTypes, MemoryTypes
<1> QED BY <1>1, HandleTypes, AnswerTypes, ExtractionTypes, AdministratorTypes, CrashTypes DEF Next

-----------------------------------------------------------------------------
(***************************************************************************)
(* Who changes what.                                                       *)
(***************************************************************************)

\* A turn is given facts by its search and its walk, and loses them all at once.
LEMMA InjectedChanges ==
    ASSUME TypeOK, [Next]_vars, NEW t \in Turns
    PROVE  \/ injected'[t] \subseteq injected[t]
           \/ /\ Search(t) \/ WalkGraph(t)
              /\ injected'[t] \subseteq injected[t] \cup Injectable
<1>t. ProxyTypes
    BY TurnTypes
<1>1. CASE injected' = injected
    BY <1>1
<1>2. ASSUME NEW S, Forget(S) PROVE injected'[t] \subseteq injected[t]
    BY <1>2, <1>t, ForgetTypes
<1>3. ASSUME NEW u \in Turns, Search(u) \/ WalkGraph(u), u # t PROVE injected'[t] = injected[t]
    BY <1>3, <1>t, PromptTypes
<1>4. CASE Search(t) \/ WalkGraph(t)
    BY <1>4, <1>t, PromptTypes
<1>5. \/ injected' = injected
      \/ \E S : Forget(S)
      \/ \E u \in Turns : Search(u) \/ WalkGraph(u)
    BY DEF Next, vars, Arrive, Handle, BuildInjection, Send, ProxyBuffered, ProxyAnthropic, ForwardAnswer,
           Receive, Forward, ClientGone, EndOfStream, Streamed, EnqueueOrExtract, ClientReads, ClientLeaves,
           StartJob, RunJob, StoreFact, LinkFact, StoreSummary, FinishJob, Extraction, Hide, Show,
           Administered, DeleteSession, DeleteAgent, Crash
<1> QED BY <1>1, <1>2, <1>3, <1>4, <1>5

\* A fact is stored once, by the run of its turn; administrators hide it, show
\* it again and delete it.
LEMMA FactChanges ==
    ASSUME TypeOK, [Next]_vars, NEW m \in Turns, facts'[m] # facts[m]
    PROVE  \/ StoreFact(m) /\ facts'[m] = "open" /\ injected' = injected /\ hiddenBefore' = hiddenBefore
           \/ Hide(m) /\ facts'[m] = "hidden"
           \/ Show(m)
           \/ DeleteAgent /\ facts'[m] = "absent"
<1>t. facts \in [Turns -> {"absent", "open", "hidden"}]
    BY TurnTypes DEF MemoryTypes
<1>1. ASSUME NEW u \in Turns, StoreFact(u) PROVE u = m /\ facts'[m] = "open"
    BY <1>1, <1>t DEF StoreFact
<1>2. ASSUME NEW u \in Turns, Hide(u) PROVE u = m /\ facts'[m] = "hidden"
    BY <1>2, <1>t DEF Hide
<1>3. ASSUME NEW u \in Turns, Show(u) PROVE u = m
    BY <1>3, <1>t DEF Show
<1>4. ASSUME DeleteAgent PROVE facts'[m] = "absent"
    BY <1>4 DEF DeleteAgent
<1>5. (\E u \in Turns : StoreFact(u) \/ Hide(u) \/ Show(u)) \/ DeleteAgent
    BY DEF Next, vars, Arrive, Handle, Search, WalkGraph, BuildInjection, Send, ProxyBuffered, ProxyAnthropic,
           ForwardAnswer, Receive, Forward, ClientGone, EndOfStream, Streamed, EnqueueOrExtract, ClientReads,
           ClientLeaves, StartJob, RunJob, LinkFact, StoreSummary, FinishJob, DeleteSession, Crash
<1>6. ASSUME StoreFact(m) PROVE injected' = injected /\ hiddenBefore' = hiddenBefore
    BY <1>6 DEF StoreFact, Extraction, history
<1> QED BY <1>1, <1>2, <1>3, <1>4, <1>5, <1>6

\* What a turn must not be given is noted when it arrives; a fact that is
\* shown again is struck off every turn's note.
LEMMA HiddenChanges ==
    ASSUME TypeOK, [Next]_vars, NEW t \in Turns
    PROVE  \/ hiddenBefore'[t] \subseteq hiddenBefore[t]
           \/ /\ handler[t] = "new" /\ hiddenBefore'[t] \subseteq Hidden
              /\ UNCHANGED <<injected, jobs, facts>>
<1>t. ProxyTypes
    BY TurnTypes
<1>1. CASE hiddenBefore' = hiddenBefore
    BY <1>1
<1>2. ASSUME NEW S, Forget(S) PROVE hiddenBefore'[t] \subseteq hiddenBefore[t]
    BY <1>2, <1>t, ForgetTypes
<1>3. ASSUME NEW m \in Turns, Show(m) PROVE hiddenBefore'[t] \subseteq hiddenBefore[t]
    BY <1>3, <1>t DEF Show
<1>4. ASSUME NEW u \in Turns, Arrive(u), u # t PROVE hiddenBefore'[t] = hiddenBefore[t]
    BY <1>4, <1>t DEF Arrive, ProxyTypes
<1>5. ASSUME Arrive(t)
      PROVE  handler[t] = "new" /\ hiddenBefore'[t] \subseteq Hidden /\ UNCHANGED <<injected, jobs, facts>>
    BY <1>5, <1>t DEF Arrive, Goto, ProxyTypes
<1>6. \/ hiddenBefore' = hiddenBefore
      \/ \E S : Forget(S)
      \/ \E u \in Turns : Show(u) \/ Arrive(u)
    BY DEF Next, vars, Handle, Search, WalkGraph, BuildInjection, Send, ProxyBuffered, ProxyAnthropic,
           ForwardAnswer, Receive, Forward, ClientGone, EndOfStream, Streamed, EnqueueOrExtract, ClientReads,
           ClientLeaves, StartJob, RunJob, StoreFact, LinkFact, StoreSummary, FinishJob, Extraction, Hide,
           DeleteSession, DeleteAgent, Crash, history
<1> QED BY <1>1, <1>2, <1>3, <1>4, <1>5, <1>6

\* What was settled is noted when a job is submitted, which does nothing yet.
LEMMA SettledChanges ==
    ASSUME TypeOK, [Next]_vars, NEW t \in Turns
    PROVE  \/ settledBefore'[t] = settledBefore[t]
           \/ /\ state[t] = "new" /\ done' = done /\ summary' = summary
              /\ settledBefore'[t] = {u \in Turns : state[u] \in Final}
<1>t. settledBefore \in [Turns -> SUBSET Turns]
    BY TurnTypes DEF MemoryTypes
<1>1. CASE settledBefore' = settledBefore
    BY <1>1
<1>2. ASSUME NEW u \in Turns, EnqueueOrExtract(u), Submitted(u), u # t
      PROVE  settledBefore'[t] = settledBefore[t]
    BY <1>2, <1>t DEF Submitted
<1>3. ASSUME EnqueueOrExtract(t), Submitted(t), Queue!Submit(t) \/ ExtractAndStore(t)
      PROVE  /\ state[t] = "new" /\ done' = done /\ summary' = summary
             /\ settledBefore'[t] = {u \in Turns : state[u] \in Final}
    BY <1>3, <1>t DEF Submitted, EnqueueOrExtract, Queue!Submit, ExtractAndStore, Queue!Move
<1>4. ASSUME NEW u \in Turns, EnqueueOrExtract(u)
      PROVE  \/ settledBefore' = settledBefore
             \/ Submitted(u) /\ (Queue!Submit(u) \/ ExtractAndStore(u))
    BY <1>4 DEF EnqueueOrExtract, NotSubmitted
<1>5. settledBefore' = settledBefore \/ \E u \in Turns : EnqueueOrExtract(u)
    BY DEF Next, vars, Arrive, Handle, Search, WalkGraph, BuildInjection, Send, ProxyBuffered, ProxyAnthropic,
           ForwardAnswer, Receive, Forward, ClientGone, EndOfStream, Streamed, ClientReads,
           ClientLeaves, StartJob, RunJob, StoreFact, LinkFact, StoreSummary, FinishJob, Extraction, Hide, Show,
           Administered, DeleteSession, DeleteAgent, Crash, history
<1> QED BY <1>1, <1>2, <1>3, <1>4, <1>5

\* The summary of a session is written by a run, and deleted.
LEMMA SummaryChanges ==
    ASSUME TypeOK, [Next]_vars
    PROVE  \/ summary' = summary /\ \A u \in Turns : "summary" \in done'[u] => "summary" \in done[u]
           \/ summary' = NoTurn /\ done' = done
           \/ \E t \in Turns : state[t] = "running" /\ summary' = t
<1>t. done \in [Turns -> SUBSET {"fact", "summary"}]
    BY TurnTypes DEF MemoryTypes
<1>1. ASSUME NEW t \in Turns, StoreSummary(t) PROVE state[t] = "running" /\ summary' = t
    BY <1>1 DEF StoreSummary, Queue!Perform, UpsertWorkingMemory
<1>2. ASSUME NEW t \in Turns, StoreFact(t)
      PROVE  summary' = summary /\ \A u \in Turns : "summary" \in done'[u] => "summary" \in done[u]
    BY <1>2, <1>t DEF StoreFact, Queue!Perform
<1>3. ASSUME NEW t \in Turns, EnqueueOrExtract(t) \/ StartJob(t) \/ LinkFact(t) \/ FinishJob(t)
      PROVE  summary' = summary /\ done' = done
    BY <1>3 DEF EnqueueOrExtract, NotSubmitted, Queue!Submit, ExtractAndStore, StartJob, Queue!Start, LinkFact,
                FinishJob, Queue!Complete, Queue!Retry, Queue!GiveUp, jobs
<1>4. ASSUME Crash PROVE summary' = summary /\ done' = done
    BY <1>4 DEF Crash, Queue!Lose
<1>5. ASSUME DeleteAgent \/ DeleteSession PROVE summary' = NoTurn /\ done' = done
    BY <1>5 DEF DeleteAgent, DeleteSession, Administered, jobs
<1>6. \/ summary' = summary /\ done' = done
      \/ \E t \in Turns : StoreSummary(t) \/ StoreFact(t) \/ EnqueueOrExtract(t) \/ StartJob(t) \/ LinkFact(t) \/ FinishJob(t)
      \/ Crash \/ DeleteAgent \/ DeleteSession
    BY DEF Next, vars, Arrive, Handle, Search, WalkGraph, BuildInjection, Send, ProxyBuffered, ProxyAnthropic,
           ForwardAnswer, Receive, Forward, ClientGone, EndOfStream, Streamed, ClientReads,
           ClientLeaves, RunJob, Hide, Show, Administered, jobs
<1> QED BY <1>1, <1>2, <1>3, <1>4, <1>5, <1>6

-----------------------------------------------------------------------------
(***************************************************************************)
(* The invariant, conjunct by conjunct.                                    *)
(***************************************************************************)

\* A handler goes from one place before the answer to the next, or ends.
LEMMA HandlerChanges ==
    ASSUME TypeOK, [Next]_vars, NEW t \in Turns, handler'[t] # handler[t]
    PROVE  handler'[t] # "new" /\ (handler[t] \in Unsent \/ handler'[t] \notin Unsent)
<1>t. ProxyTypes
    BY TurnTypes
<1>g. ASSUME NEW u \in Turns, NEW from \in Unsent, NEW to \in Handlers \ {"new"}, Goto(u, from, to)
      PROVE  handler'[t] # "new" /\ (handler[t] \in Unsent \/ handler'[t] \notin Unsent)
    BY <1>g, HandlerMoves
<1>h. /\ {"new", "searching", "walking", "injecting", "sending", "reading"} \subseteq Unsent
      /\ {"searching", "walking", "injecting", "sending", "reading", "refused", "failed", "answered"}
            \subseteq Handlers \ {"new"}
    BY DEF Handlers, Unsent, Ended
<1>1. ASSUME NEW u \in Turns, Arrive(u) \/ Handle(u)
      PROVE  \E from \in Unsent, to \in Handlers \ {"new"} : Goto(u, from, to)
    <2>1. CASE Arrive(u)
        BY <1>h, <2>1 DEF Arrive
    <2>2. CASE Search(u) \/ WalkGraph(u) \/ BuildInjection(u)
        BY <1>h, <2>2 DEF Search, WalkGraph, BuildInjection
    <2>3. CASE Send(u)
        BY <1>h, <2>3 DEF Send, ProxyStreaming
    <2>4. CASE ProxyBuffered(u) \/ ProxyAnthropic(u)
        BY <1>h, <2>4 DEF ProxyBuffered, ProxyAnthropic
    <2> QED BY <1>1, <2>1, <2>2, <2>3, <2>4 DEF Handle
<1>2. ASSUME NEW u \in Turns, ClientLeaves(u)
      PROVE  handler'[t] # "new" /\ (handler[t] \in Unsent \/ handler'[t] \notin Unsent)
    BY <1>2, <1>t DEF ClientLeaves, ProxyTypes, Unsent, Ended
<1>3. ASSUME Crash
      PROVE  handler'[t] # "new" /\ (handler[t] \in Unsent \/ handler'[t] \notin Unsent)
    BY <1>3, <1>t DEF Crash, ProxyTypes, Unsent
<1>4. \E u \in Turns : Arrive(u) \/ Handle(u) \/ ClientLeaves(u) \/ Crash
    BY DEF Next, vars, ForwardAnswer, Receive, Forward, ClientGone, EndOfStream, Streamed,
           EnqueueOrExtract, ClientReads, StartJob, RunJob, StoreFact, LinkFact, StoreSummary, FinishJob,
           Extraction, Hide, Show, Administered, DeleteSession, DeleteAgent
<1> QED BY <1>g, <1>1, <1>2, <1>3, <1>4

\* A stream carries its turn's answer, or is silent.
LEMMA StreamsStep == TurnsInv /\ [Next]_vars => StreamsInv'
<1> SUFFICES ASSUME TurnsInv, [Next]_vars, NEW t \in Turns
             PROVE  /\ stream'[t].left + stream'[t].captured <= Chunks
                    /\ handler'[t] \in Unsent => stream'[t] = Silence /\ forwarder'[t] = "none"
    BY DEF StreamsInv
<1>t. TypeOK /\ ProxyTypes /\ StreamsInv
    BY TurnTypes DEF TurnsInv
<1>s. Silence.left + Silence.captured <= Chunks
    BY TurnsAssumption DEF Silence
<1>1. CASE stream'[t] = stream[t] /\ forwarder'[t] = forwarder[t]
    BY <1>1, <1>t, HandlerChanges DEF StreamsInv
<1>2. CASE stream'[t] = Silence /\ forwarder'[t] \in {forwarder[t], "none"}
    BY <1>2, <1>s, <1>t, HandlerChanges DEF StreamsInv
<1>3. CASE Send(t) \/ ProxyBuffered(t) \/ ProxyAnthropic(t)
    <2>1. CASE UNCHANGED answers
        BY <1>1, <2>1 DEF answers
    <2>2. ASSUME NEW n \in 0..Chunks, handler[t] \in {"sending", "reading"}, Goto(t, handler[t], "answered"),
                 Answer(t, n) \/ stream' = [stream EXCEPT ![t].left = n]
          PROVE  stream'[t].left + stream'[t].captured <= Chunks /\ handler'[t] \notin Unsent
        BY <1>t, <2>2, AnswerMoves DEF Goto, ProxyTypes, Unsent
    <2>3. CASE ProxyStreaming(t)
        BY <2>2, <2>3 DEF ProxyStreaming, Goto
    <2>4. CASE /\ Goto(t, "reading", "answered")
               /\ \E n \in 0..Chunks : Answer(t, n)
        BY <2>2, <2>4 DEF Goto
    <2> QED BY <1>3, <2>1, <2>3, <2>4 DEF Send, ProxyBuffered, ProxyAnthropic
<1>4. CASE ForwardAnswer(t) \/ ClientReads(t)
    <2>1. handler' = handler
        BY <1>4 DEF ForwardAnswer, Receive, Forward, ClientGone, EndOfStream, ClientReads, Streamed
    <2>2. handler[t] \notin Unsent
        <3>1. forwarder[t] # "none" \/ stream[t].queued > 0
            BY <1>4 DEF ForwardAnswer, Receive, Forward, ClientGone, EndOfStream, ClientReads
        <3>2. ~(Silence.queued > 0)
            BY DEF Silence
        <3> QED BY <3>1, <3>2, <1>t DEF StreamsInv
    <2> QED BY <2>1, <2>2, <1>t, <1>4, StreamMoves
<1>5. ASSUME NEW u \in Turns, Send(u) \/ ProxyBuffered(u) \/ ProxyAnthropic(u), u # t
      PROVE  stream'[t] = stream[t] /\ forwarder'[t] = forwarder[t]
    BY <1>5, <1>t DEF Send, ProxyStreaming, ProxyBuffered, ProxyAnthropic, Answer, answers, ProxyTypes
<1>6. ASSUME NEW u \in Turns, ForwardAnswer(u) \/ ClientReads(u), u # t
      PROVE  stream'[t] = stream[t] /\ forwarder'[t] = forwarder[t]
    BY <1>6, <1>t DEF ForwardAnswer, Receive, Forward, ClientGone, EndOfStream, SendCapture, ClientReads, ProxyTypes
<1>7. ASSUME NEW u \in Turns, EnqueueOrExtract(u)
      PROVE  (stream'[t] = stream[t] \/ stream'[t] = Silence) /\ forwarder'[t] = forwarder[t]
    BY <1>7, <1>t DEF EnqueueOrExtract, ProxyTypes
<1>8. CASE Crash
    BY <1>2, <1>8 DEF Crash
<1>9. \/ UNCHANGED <<stream, forwarder>>
      \/ \E u \in Turns : \/ Send(u) \/ ProxyBuffered(u) \/ ProxyAnthropic(u)
                          \/ ForwardAnswer(u) \/ ClientReads(u) \/ EnqueueOrExtract(u)
      \/ Crash
    BY DEF Next, vars, answers, Arrive, Handle, Search, WalkGraph, BuildInjection, ClientLeaves, StartJob, RunJob,
           StoreFact, LinkFact, StoreSummary, FinishJob, Extraction, Hide, Show, Administered, DeleteSession, DeleteAgent
<1> QED BY <1>1, <1>2, <1>3, <1>4, <1>5, <1>6, <1>7, <1>8, <1>9

\* Facts are given to turns that arrived.
LEMMA ArrivalsStep == TurnsInv /\ [Next]_vars => ArrivalsInv'
<1> SUFFICES ASSUME TurnsInv, [Next]_vars, NEW t \in Turns, handler'[t] = "new" PROVE injected'[t] = {}
    BY DEF ArrivalsInv
<1>t. TypeOK /\ ProxyTypes
    BY TurnTypes DEF TurnsInv
<1>1. handler[t] = "new"
    BY <1>t, HandlerChanges
<1>2. ~Search(t) /\ ~WalkGraph(t)
    BY <1>1 DEF Search, WalkGraph, Goto
<1> QED BY <1>1, <1>2, <1>t, InjectedChanges DEF TurnsInv, ArrivalsInv

\* The jobs and the facts they stored.
LEMMA JobsStep == TurnsInv /\ [Next]_vars => JobsInv' /\ FactsInv' /\ SettledInv'
<1> SUFFICES ASSUME TurnsInv, [Next]_vars PROVE JobsInv' /\ FactsInv' /\ SettledInv'
    OBVIOUS
<1>t. TypeOK /\ MemoryTypes
    BY TurnTypes DEF TurnsInv
<1>j. /\ \A u \in Turns : state[u] \in Final => state'[u] = state[u]
      /\ \A u \in Turns : done[u] \subseteq done'[u]
      /\ \A u \in Turns : state'[u] = "new" => state[u] = "new" /\ done'[u] = done[u]
    BY <1>t, JobSteps, JobFacts
<1>1. JobsInv'
    BY <1>j DEF TurnsInv, JobsInv
<1>2. ASSUME NEW m \in Turns, facts'[m] # "absent" PROVE "fact" \in done'[m]
    <2>1. CASE facts[m] # "absent"
        BY <1>j, <2>1 DEF TurnsInv, FactsInv
    <2>2. CASE facts[m] = "absent"
        <3>1. StoreFact(m)
            BY <1>2, <1>t, <2>2, FactChanges DEF Hide, Show
        <3> QED BY <1>t, <3>1 DEF StoreFact, Queue!Perform, MemoryTypes
    <2> QED BY <2>1, <2>2
<1>3. ASSUME NEW t \in Turns, NEW u \in settledBefore'[t] PROVE state'[u] \in Final
    <2>1. state[u] \in Final /\ u \in Turns
        BY <1>3, <1>t, SettledChanges DEF TurnsInv, SettledInv, MemoryTypes
    <2> QED BY <1>j, <2>1
<1> QED BY <1>1, <1>2, <1>3 DEF FactsInv, SettledInv

\* What a turn must not be given stays out of reach: a fact is stored once.
LEMMA HiddenStep == TurnsInv /\ [Next]_vars => HiddenInv'
<1> SUFFICES ASSUME TurnsInv, [Next]_vars, NEW t \in Turns, NEW m \in hiddenBefore'[t]
             PROVE  "fact" \in done'[m] /\ facts'[m] # "open"
    BY DEF HiddenInv
<1>t. TypeOK /\ ProxyTypes /\ MemoryTypes
    BY TurnTypes DEF TurnsInv
<1>j. \A u \in Turns : done[u] \subseteq done'[u]
    BY <1>t, JobSteps, JobFacts
<1>1. m \in Turns /\ "fact" \in done[m] /\ facts[m] # "open"
    <2>1. CASE hiddenBefore'[t] \subseteq hiddenBefore[t]
        BY <1>t, <2>1 DEF TurnsInv, HiddenInv, ProxyTypes
    <2>2. CASE hiddenBefore'[t] \subseteq Hidden
        BY <2>2 DEF TurnsInv, FactsInv, Hidden
    <2> QED BY <1>t, <2>1, <2>2, HiddenChanges
<1>2. facts'[m] # "open"
    <2>1. ~StoreFact(m)
        BY <1>1 DEF StoreFact, Queue!Perform
    <2>2. ~Show(m)
        BY <1>t DEF Show, ProxyTypes
    <2> QED BY <1>1, <1>t, <2>1, <2>2, FactChanges
<1> QED BY <1>1, <1>2, <1>j

\* A prompt is given open facts only, and none of the turn's noted ones is.
LEMMA SentStep == TurnsInv /\ [Next]_vars => NothingHiddenIsSent'
<1> SUFFICES ASSUME TurnsInv, [Next]_vars, NEW t \in Turns, NEW m \in injected'[t], m \in hiddenBefore'[t]
             PROVE  FALSE
    BY DEF NothingHiddenIsSent
<1>t. TypeOK /\ ProxyTypes
    BY TurnTypes DEF TurnsInv
<1>1. CASE hiddenBefore'[t] \subseteq hiddenBefore[t]
    <2>1. m \notin injected[t]
        BY <1>1 DEF TurnsInv, NothingHiddenIsSent
    <2>2. m \notin Injectable
        BY <1>1 DEF TurnsInv, HiddenInv, Injectable
    <2> QED BY <1>t, <2>1, <2>2, InjectedChanges
<1>2. CASE handler[t] = "new" /\ UNCHANGED <<injected, jobs, facts>>
    BY <1>2 DEF TurnsInv, ArrivalsInv
<1> QED BY <1>1, <1>2, <1>t, HiddenChanges

\* The session's summary is written by a turn that runs, which no turn found
\* settled; a turn that is submitted has not written one yet.
LEMMA QuietStep == TurnsInv /\ [Next]_vars => QuietTurnsWin'
<1> SUFFICES ASSUME TurnsInv, [Next]_vars, NEW u \in Turns, "summary" \in done'[u], summary' \in settledBefore'[u]
             PROVE  FALSE
    BY DEF QuietTurnsWin
<1>t. TypeOK /\ MemoryTypes
    BY TurnTypes DEF TurnsInv
<1>1. CASE settledBefore'[u] = settledBefore[u]
    <2>1. CASE summary' = summary /\ "summary" \in done[u]
        BY <1>1, <2>1 DEF TurnsInv, QuietTurnsWin
    <2>2. CASE summary' = NoTurn
        BY <1>1, <1>t, <2>2, TurnsAssumption DEF MemoryTypes
    <2>3. CASE \E t \in Turns : state[t] = "running" /\ summary' = t
        BY <1>1, <2>3 DEF TurnsInv, SettledInv, Final
    <2> QED BY <1>t, <2>1, <2>2, <2>3, SummaryChanges
<1>2. CASE state[u] = "new" /\ done' = done
    BY <1>2 DEF TurnsInv, JobsInv
<1> QED BY <1>1, <1>2, <1>t, SettledChanges

\* No turn has arrived yet.
LEMMA TurnsInit == Init => TurnsInv
<1> SUFFICES ASSUME Init PROVE TurnsInv
    OBVIOUS
<1>1. Silence \in StreamState /\ Silence.left + Silence.captured <= Chunks
    BY TurnsAssumption DEF Silence, StreamState
<1>2. ProxyTypes
    BY <1>1 DEF Init, ProxyTypes, Handlers, Unsent
<1>3. MemoryTypes
    BY TurnsAssumption DEF Init, MemoryTypes, Queue!Init, Queue!States
<1>4. TypeOK
    BY <1>2, <1>3, TurnTypes DEF Init, ConfigTypes
<1>5. StreamsInv /\ ArrivalsInv
    BY <1>1 DEF Init, StreamsInv, ArrivalsInv
<1>6. JobsInv /\ FactsInv /\ HiddenInv /\ SettledInv /\ NothingHiddenIsSent /\ QuietTurnsWin
    BY DEF Init, Queue!Init, JobsInv, FactsInv, HiddenInv, SettledInv, NothingHiddenIsSent, QuietTurnsWin
<1> QED BY <1>4, <1>5, <1>6 DEF TurnsInv

\* The conjuncts of the invariant hold at every step of any run.
THEOREM TurnsInvariance == Spec => []TurnsInv
<1>1. TurnsInv /\ [Next]_vars => TurnsInv'
    BY TurnTypeStep, StreamsStep, ArrivalsStep, JobsStep, HiddenStep, SentStep, QuietStep DEF TurnsInv
<1> QED BY <1>1, TurnsInit, PTL DEF Spec

\* Every variable of the turns keeps its type.
THEOREM TurnsTypeCorrect == Spec => []TypeOK
<1>1. TurnsInv => TypeOK
    BY DEF TurnsInv
<1> QED BY <1>1, TurnsInvariance, PTL

\* No prompt holds a fact that has been hidden ever since its turn arrived.
THEOREM HiddenFactsStayOut == Spec => []NothingHiddenIsSent
<1>1. TurnsInv => NothingHiddenIsSent
    BY DEF TurnsInv
<1> QED BY <1>1, TurnsInvariance, PTL

\* A turn that was submitted after others had settled keeps the session's
\* summary from them.
THEOREM SummariesGoForward == Spec => []QuietTurnsWin
<1>1. TurnsInv => QuietTurnsWin
    BY DEF TurnsInv
<1> QED BY <1>1, TurnsInvariance, PTL

\* With the outbox, whatever handlers, clients, administrators and crashes do
\* is for the jobs a step of the abstract queue, or none.
THEOREM TurnsUseTheQueue == Spec => (outbox => Queue!Spec)
<1>1. Init => Queue!Init
    BY DEF Init
<1>2. TurnsInv /\ outbox /\ [Next]_vars => [Queue!Next]_(Queue!jvars) /\ outbox'
    <2> SUFFICES ASSUME TurnsInv, outbox, [Next]_vars PROVE [Queue!Next]_(Queue!jvars) /\ outbox'
        OBVIOUS
    <2>1. outbox' = outbox
        BY DEF Next, vars, config, Arrive, Handle, Search, WalkGraph, BuildInjection, Send, ProxyBuffered,
               ProxyAnthropic, ForwardAnswer, Receive, Forward, ClientGone, EndOfStream, Streamed, EnqueueOrExtract,
               ClientReads, ClientLeaves, StartJob, RunJob, StoreFact, LinkFact, StoreSummary, FinishJob, Extraction,
               Hide, Show, Administered, DeleteSession, DeleteAgent, Crash
    <2>2. \/ \E t \in Turns : Queue!Submit(t)
          \/ \E t \in Turns : Queue!Start({t})
          \/ \E t \in Turns, e \in {"fact", "summary"} : Queue!Perform(t, e)
          \/ \E t \in Turns : Queue!Complete(t) \/ Queue!Retry(t) \/ Queue!GiveUp(t)
          \/ Queue!Lose({t \in Turns : state[t] = "running"})
          \/ UNCHANGED jobs
        BY DEF Next, vars, jobs, history, Arrive, Handle, Search, WalkGraph, BuildInjection, Send,
               ProxyBuffered, ProxyAnthropic, ForwardAnswer, Receive, Forward, ClientGone, EndOfStream, Streamed,
               EnqueueOrExtract, NotSubmitted, ClientReads, ClientLeaves, StartJob, RunJob, StoreFact, LinkFact,
               StoreSummary, FinishJob, Hide, Show, Administered, DeleteSession, DeleteAgent, Crash
    <2>3. {t \in Turns : state[t] = "running"} \in SUBSET Turns /\ \A t \in Turns : {t} \in SUBSET Turns
        OBVIOUS
    <2> QED BY <2>1, <2>2, <2>3 DEF Queue!Next, Queue!jvars, jobs
<1> QED BY <1>1, <1>2, TurnsInvariance, PTL DEF Spec, Queue!Spec

-----------------------------------------------------------------------------
(***************************************************************************)
(* The inductive invariant: what a bucket holds is bounded from both sides *)
(* by what its agent has been admitted.                                    *)
(***************************************************************************)

\* The tokens of a bucket and those already spent were in the first burst, were
\* refilled up to its last reading, were credited again after a wait or forgiven;
\* an agent without a bucket has a burst of its own to come.
TokensAreAccounted ==
  \A a \in Agents :
    IF a \in Live
    THEN admitted[a] + buckets[a].tokens <= Burst + buckets[a].last + late[a] + forgiven[a]
    ELSE admitted[a] <= time + late[a] + forgiven[a]

\* No step takes a token that it does not admit a call for.
TokensAreSpent ==
  \A a \in Live : buckets[a].tokens + admitted[a] >= Burst

LimiterInv == LimiterTypeOK /\ TokensAreAccounted /\ TokensAreSpent /\ NobodyRefusedEarly

-----------------------------------------------------------------------------

\* The parts of a call that stands for a running check_and_consume.
LEMMA CallParts ==
  ASSUME LimiterTypeOK, NEW t \in Threads, calls[t] # Idle
  PROVE  /\ calls[t].agent \in Agents /\ calls[t].now \in Nat /\ calls[t].now <= time
         /\ calls[t].pc \in {"read", "swept", "sweeping"}
         /\ calls[t].pc = "sweeping" => calls[t].stale \subseteq Agents
<1>1. calls[t] \in Call /\ calls[t].now <= time
  BY DEF LimiterTypeOK
<1>2. CASE calls[t] \in [pc : {"read", "swept"}, agent : Agents, now : Nat]
  BY <1>1, <1>2
<1>3. CASE calls[t] \in [pc : {"sweeping"}, agent : Agents, now : Nat, stale : SUBSET Agents]
  BY <1>1, <1>3
<1>. QED BY <1>1, <1>2, <1>3 DEF Call

\* A refill keeps a bucket within the burst, never takes a token, and adds no more
\* than the time since the last reading.
LEMMA RefillBounds ==
  ASSUME NEW b \in Bucket, NEW now \in Nat
  PROVE  /\ Refill(b, now) \in Bucket
         /\ Refill(b, now).last = now
         /\ Refill(b, now).tokens >= b.tokens
         /\ Refill(b, now).tokens <= b.tokens + Since(now, b.last)
<1>. DEFINE sum == b.tokens + Since(now, b.last)
<1>1. Since(now, b.last) \in Nat /\ b.tokens \in 0..Burst /\ Burst \in Nat
  BY LimiterAssumption DEF Since, Bucket
<1>2. Refill(b, now) = [tokens |-> IF sum < Burst THEN sum ELSE Burst, last |-> now]
  BY DEF Refill
<1>. HIDE DEF sum
<1>3. sum \in Nat /\ sum = b.tokens + Since(now, b.last)
  BY <1>1 DEF sum
<1>. QED BY <1>1, <1>2, <1>3 DEF Bucket

-----------------------------------------------------------------------------
(***************************************************************************)
(* The step that uses a bucket.                                            *)
(***************************************************************************)

\* What Consume does to the bucket it takes, the one of its agent or a new one.
LEMMA ConsumeStep ==
  ASSUME LimiterInv, NEW t \in Threads, Consume(t)
  PROVE  /\ LimiterTypeOK' /\ TokensAreAccounted' /\ TokensAreSpent' /\ NobodyRefusedEarly'
<1>. DEFINE a == calls[t].agent
            now == calls[t].now
            old == IF buckets[a] = NoBucket THEN Create(now) ELSE buckets[a]
            entry == Refill(old, now)
            ok == entry.tokens >= 1
            new == [tokens |-> IF ok THEN entry.tokens - 1 ELSE entry.tokens, last |-> now]
<1>1. /\ a \in Agents /\ now \in Nat /\ now <= time /\ time \in Nat
      /\ buckets \in [Agents -> Bucket \cup {NoBucket}]
      /\ Burst \in Nat \ {0}
      /\ admitted \in [Agents -> Nat] /\ late \in [Agents -> Nat] /\ forgiven \in [Agents -> Nat]
  BY CallParts, LimiterAssumption DEF LimiterInv, LimiterTypeOK, Consume, Idle
<1>2. old \in Bucket /\ old.last <= time
  <2>1. CASE buckets[a] = NoBucket
    BY <1>1, <2>1 DEF Create, NewBucket, Bucket
  <2>2. CASE buckets[a] # NoBucket
    BY <1>1, <2>2 DEF LimiterInv, LimiterTypeOK, Live, Bucket
  <2>. QED BY <2>1, <2>2
<1>3. /\ entry \in Bucket /\ entry.last = now
      /\ entry.tokens >= old.tokens /\ entry.tokens <= old.tokens + Since(now, old.last)
  BY <1>1, <1>2, RefillBounds
<1>4. /\ buckets' = [buckets EXCEPT ![a] = new]
      /\ admitted' = [admitted EXCEPT ![a] = IF ok THEN @ + 1 ELSE @]
      /\ refused' = IF ok THEN refused ELSE refused \cup {a}
      /\ late' = [late EXCEPT ![a] = @ + (time - now)]
      /\ calls' = [calls EXCEPT ![t] = Idle]
      /\ UNCHANGED <<time, lastSweep, forgiven>>
  BY DEF Consume
<1>5. admitted[a] + old.tokens + Since(now, old.last)
        <= Burst + now + late[a] + (time - now) + forgiven[a]
  <2>1. CASE buckets[a] = NoBucket
    <3>1. old.tokens = Burst /\ old.last = now
      BY <2>1 DEF Create, NewBucket
    <3>2. admitted[a] <= time + late[a] + forgiven[a]
      BY <1>1, <2>1 DEF LimiterInv, TokensAreAccounted, Live
    <3>. QED BY <1>1, <3>1, <3>2 DEF Since
  <2>2. CASE buckets[a] # NoBucket
    <3>1. old = buckets[a] /\ admitted[a] + old.tokens <= Burst + old.last + late[a] + forgiven[a]
      BY <1>1, <2>2 DEF LimiterInv, TokensAreAccounted, Live
    <3>. QED BY <1>1, <1>2, <3>1 DEF Since, Bucket
  <2>. QED BY <2>1, <2>2
<1>6. old.tokens + admitted[a] >= Burst
  <2>1. CASE buckets[a] = NoBucket
    BY <1>1, <2>1 DEF Create, NewBucket
  <2>2. CASE buckets[a] # NoBucket
    BY <1>1, <2>2 DEF LimiterInv, TokensAreSpent, Live
  <2>. QED BY <2>1, <2>2
<1>7. new \in Bucket /\ new.last = now /\ new.tokens = (IF ok THEN entry.tokens - 1 ELSE entry.tokens)
  BY <1>1, <1>3 DEF Bucket
<1>8. NoBucket \notin Bucket
  BY LimiterAssumption DEF Bucket
<1>. HIDE DEF a, now, old, entry, new
<1>9. /\ late[a] + (time - now) \in Nat
      /\ old.tokens \in Nat /\ entry.tokens \in Nat /\ Since(now, old.last) \in Nat
  BY <1>1, <1>2, <1>3 DEF Bucket, Since
<1>10. LimiterTypeOK'
  <2>1. buckets' \in [Agents -> Bucket \cup {NoBucket}]
    BY <1>1, <1>4, <1>7
  <2>2. \A b \in Live' : buckets'[b].last <= time'
    BY <1>1, <1>4, <1>7 DEF LimiterInv, LimiterTypeOK, Live
  <2>3. calls' \in [Threads -> Call]
    BY <1>4 DEF LimiterInv, LimiterTypeOK, Call
  <2>4. \A u \in Threads : calls'[u] # Idle => calls'[u].now <= time'
    BY <1>4 DEF LimiterInv, LimiterTypeOK
  <2>5. \A u, v \in Threads : calls'[u].pc = "sweeping" /\ calls'[v].pc = "sweeping" => u = v
    BY <1>4 DEF LimiterInv, LimiterTypeOK, Idle
  <2>6. admitted' \in [Agents -> Nat] /\ refused' \subseteq Agents
    BY <1>1, <1>4 DEF LimiterInv, LimiterTypeOK
  <2>7. late' \in [Agents -> Nat] /\ forgiven' \in [Agents -> Nat]
    BY <1>1, <1>4, <1>9
  <2>8. time' \in Nat /\ lastSweep' \in 0..time'
    BY <1>4 DEF LimiterInv, LimiterTypeOK
  <2>. QED BY <2>1, <2>2, <2>3, <2>4, <2>5, <2>6, <2>7, <2>8 DEF LimiterTypeOK
<1>11. TokensAreAccounted'
  <2>1. SUFFICES ASSUME NEW b \in Agents
        PROVE  IF b \in Live'
               THEN admitted'[b] + buckets'[b].tokens
                      <= Burst + buckets'[b].last + late'[b] + forgiven'[b]
               ELSE admitted'[b] <= time' + late'[b] + forgiven'[b]
    BY DEF TokensAreAccounted
  <2>2. CASE b = a
    <3>1. b \in Live' /\ buckets'[b] = new
      BY <1>1, <1>4, <1>7, <1>8, <2>2 DEF Live
    <3>2. /\ admitted'[b] = IF ok THEN admitted[a] + 1 ELSE admitted[a]
          /\ late'[b] = late[a] + (time - now) /\ forgiven'[b] = forgiven[a]
      BY <1>1, <1>4, <2>2
    <3>3. admitted'[b] + new.tokens = admitted[a] + entry.tokens
      BY <1>1, <1>7, <1>9, <3>2
    <3>. QED BY <1>1, <1>3, <1>5, <1>7, <1>9, <3>1, <3>2, <3>3
  <2>3. CASE b # a
    BY <1>1, <1>4, <2>3 DEF LimiterInv, TokensAreAccounted, Live
  <2>. QED BY <2>2, <2>3
<1>12. TokensAreSpent'
  <2>1. SUFFICES ASSUME NEW b \in Live'
        PROVE  buckets'[b].tokens + admitted'[b] >= Burst
    BY DEF TokensAreSpent
  <2>2. b \in Agents
    BY DEF Live
  <2>3. CASE b = a
    BY <1>1, <1>3, <1>4, <1>6, <1>7, <1>9, <2>3
  <2>4. CASE b # a
    BY <1>1, <1>4, <2>2, <2>4 DEF LimiterInv, TokensAreSpent, Live
  <2>. QED BY <2>3, <2>4
<1>13. NobodyRefusedEarly'
  <2>1. SUFFICES ASSUME NEW b \in refused'
        PROVE  admitted'[b] >= Burst
    BY DEF NobodyRefusedEarly
  <2>2. CASE b \in refused
    BY <1>1, <1>4, <2>2 DEF LimiterInv, LimiterTypeOK, NobodyRefusedEarly
  <2>3. CASE b \notin refused
    BY <1>1, <1>3, <1>4, <1>6, <1>9, <2>3
  <2>. QED BY <2>2, <2>3
<1>. QED BY <1>10, <1>11, <1>12, <1>13

-----------------------------------------------------------------------------
(***************************************************************************)
(* The steps of the sweep.                                                 *)
(***************************************************************************)

\* The bucket that a sweep removes has refilled for IdleTTL ticks, so what its agent
\* loses of the account is forgiven.
LEMMA EvictStep ==
  ASSUME LimiterInv, NEW t \in Threads, EvictBucket(t)
  PROVE  LimiterTypeOK' /\ TokensAreAccounted' /\ TokensAreSpent' /\ NobodyRefusedEarly'
<1>. DEFINE now == calls[t].now
<1>1. PICK a \in calls[t].stale :
        LET removed == RemoveIf(now, a)
        IN /\ calls' = [calls EXCEPT ![t].stale = @ \ {a}]
           /\ buckets' = [buckets EXCEPT ![a] = IF removed THEN NoBucket ELSE @]
           /\ forgiven' = [forgiven EXCEPT ![a] = IF removed THEN @ + Forgiveness ELSE @]
  BY DEF EvictBucket
<1>2. /\ calls[t].pc = "sweeping" /\ calls[t] # Idle
      /\ a \in Agents /\ now \in Nat /\ now <= time
      /\ UNCHANGED <<time, lastSweep, admitted, refused, late>>
  BY CallParts DEF LimiterInv, EvictBucket, Idle
<1>3. /\ time \in Nat /\ buckets \in [Agents -> Bucket \cup {NoBucket}]
      /\ admitted \in [Agents -> Nat] /\ late \in [Agents -> Nat] /\ forgiven \in [Agents -> Nat]
      /\ Burst \in Nat \ {0} /\ IdleTTL \in Nat /\ Forgiveness \in Nat
      /\ Forgiveness >= Burst - IdleTTL
  BY LimiterAssumption DEF LimiterInv, LimiterTypeOK, Forgiveness
<1>4. RemoveIf(now, a) =>
        a \in Live /\ buckets[a] \in Bucket /\ Burst + buckets[a].last <= time + Forgiveness
  <2>1. SUFFICES ASSUME RemoveIf(now, a)
        PROVE  a \in Live /\ buckets[a] \in Bucket /\ Burst + buckets[a].last <= time + Forgiveness
    OBVIOUS
  <2>2. a \in Live /\ buckets[a] \in Bucket /\ buckets[a].last <= time
    BY <1>2, <1>3, <2>1 DEF RemoveIf, StillStale, Live, LimiterInv, LimiterTypeOK
  <2>3. Since(now, buckets[a].last) >= IdleTTL
    BY <2>1 DEF RemoveIf, StillStale, IsStale
  <2>. QED BY <1>2, <1>3, <2>2, <2>3 DEF Since, Bucket
<1>5. NoBucket \notin Bucket
  BY LimiterAssumption DEF Bucket
<1>6. LimiterTypeOK'
  <2>1. buckets' \in [Agents -> Bucket \cup {NoBucket}] /\ forgiven' \in [Agents -> Nat]
    BY <1>1, <1>2, <1>3
  <2>2. \A b \in Live' : b \in Live /\ buckets'[b] = buckets[b]
    BY <1>1, <1>2, <1>3 DEF Live
  <2>3. calls[t] \in [pc : {"sweeping"}, agent : Agents, now : Nat, stale : SUBSET Agents]
    BY <1>2 DEF LimiterInv, LimiterTypeOK, Call, Idle
  <2>4. calls' = [calls EXCEPT ![t] = [calls[t] EXCEPT !.stale = @ \ {a}]]
    BY <1>1
  <2>5. [calls[t] EXCEPT !.stale = @ \ {a}] \in Call
    BY <2>3 DEF Call
  <2>6. calls' \in [Threads -> Call]
    BY <2>4, <2>5 DEF LimiterInv, LimiterTypeOK
  <2>7. \A u \in Threads : calls'[u].pc = calls[u].pc /\ (calls[u] # Idle => calls'[u].now = calls[u].now)
    BY <1>2, <2>3, <2>4 DEF LimiterInv, LimiterTypeOK
  <2>8. \A u \in Threads : calls'[u] # Idle => calls[u] # Idle
    BY <1>2, <2>3, <2>4 DEF LimiterInv, LimiterTypeOK
  <2>. QED BY <1>2, <2>1, <2>2, <2>6, <2>7, <2>8 DEF LimiterInv, LimiterTypeOK
<1>7. TokensAreAccounted'
  <2>1. SUFFICES ASSUME NEW b \in Agents
        PROVE  IF b \in Live'
               THEN admitted[b] + buckets'[b].tokens
                      <= Burst + buckets'[b].last + late[b] + forgiven'[b]
               ELSE admitted[b] <= time + late[b] + forgiven'[b]
    BY <1>2 DEF TokensAreAccounted
  <2>2. CASE b = a /\ RemoveIf(now, a)
    <3>1. b \notin Live' /\ forgiven'[b] = forgiven[b] + Forgiveness
      BY <1>1, <1>2, <1>3, <2>2 DEF Live
    <3>2. admitted[b] + buckets[b].tokens <= Burst + buckets[b].last + late[b] + forgiven[b]
      BY <1>4, <2>2 DEF LimiterInv, TokensAreAccounted
    <3>. QED BY <1>3, <1>4, <2>2, <3>1, <3>2 DEF Bucket
  <2>3. CASE ~(b = a /\ RemoveIf(now, a))
    <3>1. buckets'[b] = buckets[b] /\ forgiven'[b] = forgiven[b] /\ (b \in Live' <=> b \in Live)
      BY <1>1, <1>2, <1>3, <2>3 DEF Live
    <3>. QED BY <1>2, <3>1 DEF LimiterInv, TokensAreAccounted
  <2>. QED BY <2>2, <2>3
<1>8. TokensAreSpent'
  BY <1>1, <1>2, <1>3 DEF LimiterInv, TokensAreSpent, Live
<1>9. NobodyRefusedEarly'
  BY <1>2 DEF LimiterInv, NobodyRefusedEarly
<1>. QED BY <1>6, <1>7, <1>8, <1>9

-----------------------------------------------------------------------------
(***************************************************************************)
(* The other steps touch neither buckets nor histories.                    *)
(***************************************************************************)

\* Time passes, a call reads the clock, or a sweep is skipped, begun or ended.
Elsewhere ==
  /\ UNCHANGED <<buckets, admitted, refused, late, forgiven>>
  /\ time' >= time

\* Such a step keeps the accounts.
LEMMA ElsewhereKeepsAccounts ==
  ASSUME LimiterInv, LimiterTypeOK', Elsewhere
  PROVE  TokensAreAccounted' /\ TokensAreSpent' /\ NobodyRefusedEarly'
<1>1. Live' = Live
  BY DEF Elsewhere, Live
<1>2. TokensAreAccounted'
  <2>1. SUFFICES ASSUME NEW a \in Agents, a \notin Live
        PROVE  admitted[a] <= time' + late[a] + forgiven[a]
    BY <1>1 DEF Elsewhere, LimiterInv, TokensAreAccounted
  <2>2. admitted[a] <= time + late[a] + forgiven[a]
    BY <2>1 DEF LimiterInv, TokensAreAccounted
  <2>3. /\ admitted[a] \in Nat /\ late[a] \in Nat /\ forgiven[a] \in Nat
        /\ time \in Nat /\ time' \in Nat
    BY DEF LimiterInv, LimiterTypeOK
  <2>. QED BY <2>2, <2>3 DEF Elsewhere
<1>. QED BY <1>1, <1>2 DEF Elsewhere, LimiterInv, TokensAreSpent, NobodyRefusedEarly

\* A thread that does not begin to sweep keeps the sweeps apart.
LEMMA CallChanges ==
  ASSUME LimiterTypeOK, NEW t \in Threads, NEW c \in Call, c # Idle, c.now <= time,
         c.pc = "sweeping" => \A u \in Threads \ {t} : calls[u].pc # "sweeping",
         calls' = [calls EXCEPT ![t] = c],
         time' = time, lastSweep' \in 0..time,
         UNCHANGED <<buckets, admitted, refused, late, forgiven>>
  PROVE  LimiterTypeOK'
<1>1. calls' \in [Threads -> Call]
  BY DEF LimiterTypeOK
<1>2. \A u \in Threads : calls'[u] # Idle => calls'[u].now <= time'
  BY DEF LimiterTypeOK
<1>3. \A u, v \in Threads : calls'[u].pc = "sweeping" /\ calls'[v].pc = "sweeping" => u = v
  BY DEF LimiterTypeOK
<1>. QED BY <1>1, <1>2, <1>3 DEF LimiterTypeOK, Live

\* The steps of a call before it takes its bucket, other than an eviction.
LEMMA SweepStep ==
  ASSUME LimiterInv, NEW t \in Threads,
         ReadClock(t) \/ SkipSweep(t) \/ CollectStale(t) \/ EndSweep(t)
  PROVE  LimiterTypeOK' /\ Elsewhere
<1>0. LimiterTypeOK /\ time \in Nat /\ lastSweep \in 0..time
  BY DEF LimiterInv, LimiterTypeOK
<1>1. CASE ReadClock(t)
  <2>1. PICK a \in Agents : calls' = [calls EXCEPT ![t] = [pc |-> "read", agent |-> a, now |-> time]]
    BY <1>1 DEF ReadClock
  <2>. DEFINE c == [pc |-> "read", agent |-> a, now |-> time]
  <2>2. c \in Call /\ c # Idle /\ c.now <= time /\ c.pc # "sweeping"
    BY <1>0 DEF Call, Idle
  <2>3. LimiterTypeOK'
    BY <1>0, <1>1, <2>1, <2>2, CallChanges DEF ReadClock
  <2>. QED BY <1>0, <1>1, <2>3 DEF ReadClock, Elsewhere
<1>2. CASE SkipSweep(t)
  <2>1. calls[t].pc = "read" /\ calls[t] # Idle
    BY <1>2 DEF SkipSweep, Idle
  <2>2. calls[t] \in [pc : {"read", "swept"}, agent : Agents, now : Nat] /\ calls[t].now <= time
    BY <1>0, <2>1 DEF LimiterTypeOK, Call
  <2>. DEFINE c == [calls[t] EXCEPT !.pc = "swept"]
  <2>3. calls' = [calls EXCEPT ![t] = c]
    BY <1>2 DEF SkipSweep
  <2>4. c \in Call /\ c # Idle /\ c.now <= time /\ c.pc # "sweeping"
    BY <2>2 DEF Call, Idle
  <2>5. LimiterTypeOK'
    BY <1>0, <1>2, <2>3, <2>4, CallChanges DEF SkipSweep
  <2>. QED BY <1>0, <1>2, <2>5 DEF SkipSweep, Elsewhere
<1>3. CASE CollectStale(t)
  <2>1. calls[t].pc = "read" /\ calls[t] # Idle /\ ~LockHeld
    BY <1>3 DEF CollectStale, SweepDue, Idle
  <2>2. calls[t].agent \in Agents /\ calls[t].now \in Nat /\ calls[t].now <= time
    BY <1>0, <2>1, CallParts
  <2>3. PICK scanned \in SUBSET Live : calls' = [calls EXCEPT ![t] =
            [pc |-> "sweeping", agent |-> calls[t].agent, now |-> calls[t].now,
             stale |-> {a \in scanned : IsStale(calls[t].now, buckets[a])}]]
    BY <1>3 DEF CollectStale
  <2>. DEFINE S == {a \in scanned : IsStale(calls[t].now, buckets[a])}
              c == [pc |-> "sweeping", agent |-> calls[t].agent, now |-> calls[t].now, stale |-> S]
  <2>4. S \subseteq Agents
    BY DEF Live
  <2>. HIDE DEF S
  <2>5. c \in Call /\ c # Idle /\ c.now <= time /\ c.pc = "sweeping"
    BY <2>2, <2>4 DEF Call, Idle
  <2>6. calls' = [calls EXCEPT ![t] = c]
    BY <2>3 DEF S
  <2>7. LimiterTypeOK'
    BY <1>0, <1>3, <2>1, <2>2, <2>5, <2>6, CallChanges DEF CollectStale, LockHeld
  <2>. QED BY <1>0, <1>3, <2>7 DEF CollectStale, Elsewhere
<1>4. CASE EndSweep(t)
  <2>1. calls[t].pc = "sweeping" /\ calls[t] # Idle
    BY <1>4 DEF EndSweep, Idle
  <2>2. calls[t].agent \in Agents /\ calls[t].now \in Nat /\ calls[t].now <= time
    BY <1>0, <2>1, CallParts
  <2>. DEFINE c == [pc |-> "swept", agent |-> calls[t].agent, now |-> calls[t].now]
  <2>3. c \in Call /\ c # Idle /\ c.now <= time /\ c.pc # "sweeping"
    BY <2>2 DEF Call, Idle
  <2>4. LimiterTypeOK'
    BY <1>0, <1>4, <2>3, CallChanges DEF EndSweep
  <2>. QED BY <1>0, <1>4, <2>4 DEF EndSweep, Elsewhere
<1>. QED BY <1>1, <1>2, <1>3, <1>4

-----------------------------------------------------------------------------
(***************************************************************************)
(* The invariant.                                                          *)
(***************************************************************************)

LEMMA LimiterInvInit == LimiterInit => LimiterInv
<1>. SUFFICES ASSUME LimiterInit PROVE LimiterInv
  OBVIOUS
<1>1. Live = {}
  BY DEF LimiterInit, Live
<1>2. LimiterTypeOK
  BY <1>1, LimiterAssumption DEF LimiterInit, LimiterTypeOK, Call, Idle
<1>. QED BY <1>1, <1>2, LimiterAssumption
         DEF LimiterInit, LimiterInv, TokensAreAccounted, TokensAreSpent, NobodyRefusedEarly

LEMMA LimiterInvNext == LimiterInv /\ [LimiterNext]_limiterVars => LimiterInv'
<1>. SUFFICES ASSUME LimiterInv, [LimiterNext]_limiterVars PROVE LimiterInv'
  OBVIOUS
<1>1. CASE Tick
  <2>1. /\ time \in Nat /\ time' = time + 1 /\ Live' = Live
        /\ \A a \in Live : buckets[a] \in Bucket /\ buckets[a].last <= time
        /\ \A t \in Threads : calls[t] # Idle => calls[t].now \in Nat /\ calls[t].now <= time
    BY <1>1, CallParts DEF Tick, LimiterInv, LimiterTypeOK, Live
  <2>2. \A a \in Live' : buckets'[a].last <= time'
    BY <1>1, <2>1 DEF Tick, Bucket
  <2>3. \A t \in Threads : calls'[t] # Idle => calls'[t].now <= time'
    BY <1>1, <2>1 DEF Tick
  <2>4. LimiterTypeOK'
    BY <1>1, <2>1, <2>2, <2>3 DEF Tick, LimiterInv, LimiterTypeOK
  <2>5. Elsewhere
    BY <1>1, <2>1 DEF Tick, Elsewhere
  <2>. QED BY <2>4, <2>5, ElsewhereKeepsAccounts DEF LimiterInv
<1>2. ASSUME NEW t \in Threads, ReadClock(t) \/ SkipSweep(t) \/ CollectStale(t) \/ EndSweep(t)
      PROVE  LimiterInv'
  BY <1>2, SweepStep, ElsewhereKeepsAccounts DEF LimiterInv
<1>3. ASSUME NEW t \in Threads, EvictBucket(t)
      PROVE  LimiterInv'
  BY <1>3, EvictStep DEF LimiterInv
<1>4. ASSUME NEW t \in Threads, Consume(t)
      PROVE  LimiterInv'
  BY <1>4, ConsumeStep DEF LimiterInv
<1>5. CASE UNCHANGED limiterVars
  BY <1>5 DEF limiterVars, LimiterInv, LimiterTypeOK, Live, TokensAreAccounted, TokensAreSpent, NobodyRefusedEarly
<1>. QED BY <1>1, <1>2, <1>3, <1>4, <1>5 DEF LimiterNext, CheckAndConsume

\* The invariant holds of every behaviour.
THEOREM LimiterInvariance == LimiterSpec => []LimiterInv
<1>. QED BY LimiterInvInit, LimiterInvNext, PTL DEF LimiterSpec

\* Buckets stay within the burst, no reading is from the future and one thread sweeps
\* at a time, whatever the threads do.
THEOREM LimiterTypeCorrect == LimiterSpec => []LimiterTypeOK
<1>1. LimiterInv => LimiterTypeOK
  BY DEF LimiterInv
<1>. QED BY <1>1, LimiterInvariance, PTL

\* check_and_consume admits an agent no more often than its burst, the time since the
\* start, the waits of its own calls and what sweeps forgave it allow.
THEOREM QuotaHolds == LimiterSpec => []WithinQuota
<1>1. LimiterInv => WithinQuota
  <2>. SUFFICES ASSUME LimiterInv, NEW a \in Agents
       PROVE  admitted[a] <= Burst + time + late[a] + forgiven[a]
    BY DEF WithinQuota
  <2>1. /\ time \in Nat /\ Burst \in Nat
        /\ admitted[a] \in Nat /\ late[a] \in Nat /\ forgiven[a] \in Nat
    BY LimiterAssumption DEF LimiterInv, LimiterTypeOK
  <2>2. CASE a \in Live
    <3>1. buckets[a] \in Bucket /\ buckets[a].last <= time
      BY <2>2 DEF LimiterInv, LimiterTypeOK, Live
    <3>2. admitted[a] + buckets[a].tokens <= Burst + buckets[a].last + late[a] + forgiven[a]
      BY <2>2 DEF LimiterInv, TokensAreAccounted
    <3>. QED BY <2>1, <3>1, <3>2 DEF Bucket
  <2>3. CASE a \notin Live
    <3>1. admitted[a] <= time + late[a] + forgiven[a]
      BY <2>3 DEF LimiterInv, TokensAreAccounted
    <3>. QED BY <2>1, <3>1
  <2>. QED BY <2>2, <2>3
<1>. QED BY <1>1, LimiterInvariance, PTL

\* check_and_consume answers false to no agent that has not had its burst, whichever
\* sweeps and calls come between.
THEOREM BurstIsGranted == LimiterSpec => []NobodyRefusedEarly
<1>1. LimiterInv => NobodyRefusedEarly
  BY DEF LimiterInv
<1>. QED BY <1>1, LimiterInvariance, PTL
=============================================================================
