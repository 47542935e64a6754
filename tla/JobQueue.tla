------------------------------- MODULE JobQueue -------------------------------
(***************************************************************************)
(* What the extraction outbox promises, without workers, batches, clocks   *)
(* or database calls: each job is run a bounded number of times, its       *)
(* effects happen at most once and only while it runs, it is retried only  *)
(* if a run left no effects, and done, failed and lost are final.          *)
(***************************************************************************)
EXTENDS Integers

CONSTANTS Jobs, Budget, Effects

VARIABLES state, tries, done

jvars == <<state, tries, done>>

States == {"new", "waiting", "running", "done", "failed", "lost"}

Init ==
  /\ state = [j \in Jobs |-> "new"]
  /\ tries = [j \in Jobs |-> 0]
  /\ done = [j \in Jobs |-> {}]

Move(S, from, to) ==
  /\ \A j \in S : state[j] = from
  /\ state' = [j \in Jobs |-> IF j \in S THEN to ELSE state[j]]

Submit(j) == Move({j}, "new", "waiting") /\ UNCHANGED <<tries, done>>

\* Several waiting jobs may be started by one step, and lost by one step.
Start(S) ==
  /\ Move(S, "waiting", "running")
  /\ \A j \in S : tries[j] < Budget
  /\ tries' = [j \in Jobs |-> IF j \in S THEN tries[j] + 1 ELSE tries[j]]
  /\ UNCHANGED done

StartAndLose(S) ==
  /\ Move(S, "waiting", "lost")
  /\ tries' = [j \in Jobs |-> IF j \in S THEN tries[j] + 1 ELSE tries[j]]
  /\ UNCHANGED done

Perform(j, e) ==
  /\ state[j] = "running"
  /\ e \notin done[j]
  /\ done' = [done EXCEPT ![j] = @ \cup {e}]
  /\ UNCHANGED <<state, tries>>

Complete(j) == Move({j}, "running", "done") /\ UNCHANGED <<tries, done>>

Retry(j) ==
  /\ Move({j}, "running", "waiting")
  /\ tries[j] < Budget /\ done[j] = {}
  /\ UNCHANGED <<tries, done>>

GiveUp(j) ==
  /\ Move({j}, "running", "failed")
  /\ tries[j] = Budget /\ done[j] = {}
  /\ UNCHANGED <<tries, done>>

Lose(S) == Move(S, "running", "lost") /\ UNCHANGED <<tries, done>>

Next ==
  \/ \E j \in Jobs : Submit(j) \/ Complete(j) \/ Retry(j) \/ GiveUp(j)
  \/ \E j \in Jobs, e \in Effects : Perform(j, e)
  \/ \E S \in SUBSET Jobs : Start(S) \/ StartAndLose(S) \/ Lose(S)

Spec == Init /\ [][Next]_jvars
=============================================================================
