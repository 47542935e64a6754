----------------------------- MODULE PressureSweep -----------------------------
(***************************************************************************)
(* The AMP pressure sweep of one agent.  A sweep counts the agent's active *)
(* memories, feeds the count to a PI controller whose state is a row of    *)
(* amp_controller_state, soft-evicts the memories above one threshold and  *)
(* brings back those below another.  It runs in one transaction under an   *)
(* advisory lock of the agent, from a timer of every process and from an   *)
(* endpoint.  Whoever else writes memories does not take the lock, and     *)
(* under READ COMMITTED each statement of the sweep sees what they did.    *)
(*                                                                         *)
(* A pressure is a number up to One (1.0); errors and the integral are     *)
(* counted in memories, i.e. scaled by the target, so that the instances   *)
(* compute exactly what the code computes in floating point.               *)
(***************************************************************************)
EXTENDS Integers, FiniteSets

CONSTANTS
  Mems,            \* ids of the agent's memories
  Sweepers,        \* the timer of each process, and requests to sweep
  Free,            \* nobody holds the lock
  Target,          \* target_active_count
  One,             \* 1.0 in the model's unit
  Kp, Ki,          \* gains, in that unit
  Deadband, Hysteresis, MaxChange,  \* ControllerParams, in that unit
  Levels,          \* pressures a memory may have
  MaxTouches,      \* bound: writes by others
  MaxRollbacks     \* bound: sweeps that roll back

ASSUME MemsAssumption == IsFiniteSet(Mems)
ASSUME FreeAssumption == Free \notin Sweepers
ASSUME TargetAssumption == Target \in Nat
ASSUME UnitAssumption == One \in Nat \ {0} /\ Levels \subseteq 0..One
ASSUME ParamsAssumption ==
  /\ Kp \in Nat /\ Ki \in Nat
  /\ Deadband \in Nat /\ Hysteresis \in Nat /\ MaxChange \in Nat
ASSUME SweepBoundsAssumption == MaxTouches \in Nat /\ MaxRollbacks \in Nat

VARIABLES
  life,       \* per memory: none, live, archived or deleted
  soft,       \* memories.soft_evicted
  old,        \* memories at least min_age_seconds old
  pressure,   \* per memory: what compute_pressure would return now
  ctl,        \* amp_controller_state of the agent; no row reads as zeroes
  lock,       \* who holds the advisory lock
  statement,  \* per sweeper: the statement it runs next
  counted,    \* per sweeper: current_count
  state,      \* per sweeper: the controller after its update
  evict, restore,  \* per sweeper: to_evict, to_restore
  touches, rollbacks,
  disturbed   \* history: sweepers during whose sweep somebody wrote memories

memories == <<life, soft, old, pressure>>
sweep == <<lock, statement, counted, state, evict, restore>>
limits == <<touches, rollbacks>>
sweepVars == <<memories, ctl, sweep, limits, disturbed>>

Lives == {"none", "live", "archived", "deleted"}
Statements == {"lock", "count", "control", "fetch", "write"}

Clamp(x, lo, hi) == IF x < lo THEN lo ELSE IF x > hi THEN hi ELSE x

Goal == IF Target = 0 THEN 1 ELSE Target      \* target_active_count.max(1)
IntegralBound == 10 * Goal
ControllerState == [aggressiveness : 0..One, integral : -IntegralBound..IntegralBound]
Zero == [aggressiveness |-> 0, integral |-> 0]

(***************************************************************************)
(* PIController.                                                           *)
(***************************************************************************)

\* Mutation: only an agent over its target moves the controller.
OutsideAbove(error) == error * One >= Deadband * Goal

Outside(error) == error * One >= Deadband * Goal \/ -error * One >= Deadband * Goal

\* Saturated in the direction of the error.
Saturated(c, error) ==
  \/ c.aggressiveness >= One /\ error > 0
  \/ c.aggressiveness <= 0 /\ error < 0

Accumulate(c, error) ==
  IF Saturated(c, error) THEN c.integral
  ELSE Clamp(c.integral + error, -IntegralBound, IntegralBound)

\* Mutation: the new aggressiveness is not clamped.
UpdateUnclamped(c, count) ==
  LET error == count - Target
      i == Accumulate(c, error)
      change == Clamp((Kp * error + Ki * i) \div Goal, -MaxChange, MaxChange)
  IN IF Outside(error)
     THEN [aggressiveness |-> c.aggressiveness + change, integral |-> i]
     ELSE c

\* PIController::update with dt = 1.
Update(c, count) ==
  LET error == count - Target
      i == Accumulate(c, error)
      change == Clamp((Kp * error + Ki * i) \div Goal, -MaxChange, MaxChange)
  IN IF Outside(error)
     THEN [aggressiveness |-> Clamp(c.aggressiveness + change, 0, One), integral |-> i]
     ELSE c

ThresholdHigh(c) == One - c.aggressiveness
ThresholdLow(c) == Clamp(ThresholdHigh(c) - Hysteresis, 0, One)

SweepInit ==
  /\ life \in [Mems -> {"none", "live"}]
  /\ soft = [m \in Mems |-> FALSE]
  /\ old = {m \in Mems : life[m] = "live"}
  /\ pressure \in [Mems -> Levels]
  /\ ctl = Zero
  /\ lock = Free
  /\ statement = [s \in Sweepers |-> "lock"]
  /\ counted = [s \in Sweepers |-> 0]
  /\ state = [s \in Sweepers |-> Zero]
  /\ evict = [s \in Sweepers |-> {}]
  /\ restore = [s \in Sweepers |-> {}]
  /\ touches = 0
  /\ rollbacks = 0
  /\ disturbed = {}

(***************************************************************************)
(* run_pressure_sweep_for_agent.                                           *)
(***************************************************************************)

Live == {m \in Mems : life[m] = "live"}
Active == {m \in Live : ~soft[m]}

MoveTo(s, from, to) ==
  /\ statement[s] = from
  /\ statement' = [statement EXCEPT ![s] = to]

\* Mutation: no advisory lock.
LockNothing(s) ==
  /\ MoveTo(s, "lock", "count")
  /\ lock' = s
  /\ disturbed' = disturbed \ {s}
  /\ UNCHANGED <<memories, ctl, counted, state, evict, restore, limits>>

Lock(s) ==
  /\ MoveTo(s, "lock", "count")
  /\ lock = Free
  /\ lock' = s
  /\ disturbed' = disturbed \ {s}
  /\ UNCHANGED <<memories, ctl, counted, state, evict, restore, limits>>

CountActive(s) ==
  /\ MoveTo(s, "count", "control")
  /\ counted' = [counted EXCEPT ![s] = Cardinality(Active)]
  /\ UNCHANGED <<memories, ctl, lock, state, evict, restore, limits, disturbed>>

\* The state is read, updated and upserted; with_state clamps what it reads.
UpdateController(s) ==
  /\ MoveTo(s, "control", "fetch")
  /\ state' = [state EXCEPT ![s] =
       Update([aggressiveness |-> Clamp(ctl.aggressiveness, 0, One),
               integral |-> Clamp(ctl.integral, -IntegralBound, IntegralBound)], counted[s])]
  /\ UNCHANGED <<memories, ctl, lock, counted, evict, restore, limits, disturbed>>

FetchAndDecide(s) ==
  /\ MoveTo(s, "fetch", "write")
  /\ evict' = [evict EXCEPT ![s] =
       {m \in Active \cap old : pressure[m] > ThresholdHigh(state[s])}]
  /\ restore' = [restore EXCEPT ![s] =
       {m \in Live : soft[m] /\ pressure[m] < ThresholdLow(state[s])}]
  /\ UNCHANGED <<memories, ctl, lock, counted, state, limits, disturbed>>

EndSweep(s) ==
  /\ MoveTo(s, "write", "lock")
  /\ lock' = Free
  /\ counted' = [counted EXCEPT ![s] = 0]
  /\ state' = [state EXCEPT ![s] = Zero]
  /\ evict' = [evict EXCEPT ![s] = {}]
  /\ restore' = [restore EXCEPT ![s] = {}]

\* The UPDATEs by id and the commit.  The first UPDATE locks every row that was
\* fetched, so nobody writes one of them between it and the commit.
Commit(s) ==
  /\ EndSweep(s)
  /\ ctl' = state[s]
  /\ soft' = [m \in Mems |-> (soft[m] \/ m \in evict[s]) /\ m \notin restore[s]]
  /\ UNCHANGED <<life, old, pressure, limits, disturbed>>

\* A statement fails or the process dies: the transaction is rolled back.
RollBack(s) ==
  /\ statement[s] # "lock"
  /\ rollbacks < MaxRollbacks
  /\ rollbacks' = rollbacks + 1
  /\ statement' = [statement EXCEPT ![s] = "lock"]
  /\ lock' = Free
  /\ counted' = [counted EXCEPT ![s] = 0]
  /\ state' = [state EXCEPT ![s] = Zero]
  /\ evict' = [evict EXCEPT ![s] = {}]
  /\ restore' = [restore EXCEPT ![s] = {}]
  /\ UNCHANGED <<memories, ctl, touches, disturbed>>

\* SweepReport.active_count
Report(s) == counted[s] - Cardinality(evict[s]) + Cardinality(restore[s])

(***************************************************************************)
(* Everybody else who writes memories.                                     *)
(***************************************************************************)

Touch ==
  /\ touches < MaxTouches
  /\ touches' = touches + 1
  /\ disturbed' = Sweepers
  /\ UNCHANGED <<ctl, sweep, rollbacks>>

SetLife(m, to) == life' = [life EXCEPT ![m] = to] /\ UNCHANGED <<soft, old, pressure>>

StoreMemory(m) == life[m] = "none" /\ Touch /\ SetLife(m, "live")
Archive(m) == life[m] = "live" /\ Touch /\ SetLife(m, "archived")
RestoreMemory(m) == life[m] = "archived" /\ Touch /\ SetLife(m, "live")
DeleteMemory(m) == life[m] \in {"live", "archived"} /\ Touch /\ SetLife(m, "deleted")

\* A retrieval refreshes the row, age makes it stale.
ChangePressure(m) ==
  /\ life[m] = "live"
  /\ Touch
  /\ \E p \in Levels : pressure' = [pressure EXCEPT ![m] = p]
  /\ UNCHANGED <<life, soft, old>>

GrowOld(m) ==
  /\ life[m] # "none"
  /\ m \notin old
  /\ Touch
  /\ old' = old \cup {m}
  /\ UNCHANGED <<life, soft, pressure>>

-----------------------------------------------------------------------------

Sweep(s) ==
  Lock(s) \/ CountActive(s) \/ UpdateController(s) \/ FetchAndDecide(s) \/ Commit(s)

Others(m) ==
  \/ StoreMemory(m) \/ Archive(m) \/ RestoreMemory(m) \/ DeleteMemory(m)
  \/ ChangePressure(m) \/ GrowOld(m)

SweepNext ==
  \/ \E s \in Sweepers : Sweep(s) \/ RollBack(s)
  \/ \E m \in Mems : Others(m)

SweepSpec == SweepInit /\ [][SweepNext]_sweepVars

\* run_pressure_sweep_job sweeps every five minutes for ever, and the statements
\* of a sweep end or fail; which sweeper gets the lock next is not promised.
Fairness == WF_sweepVars(\E s \in Sweepers : Sweep(s))

FairSpec == SweepSpec /\ Fairness

-----------------------------------------------------------------------------
(***************************************************************************)
(* Properties.                                                             *)
(***************************************************************************)

\* Every variable keeps its type; the stored and the computed aggressiveness
\* and integral stay in their ranges, whatever gains a policy sets.
SweepTypeOK ==
  /\ life \in [Mems -> Lives]
  /\ soft \in [Mems -> BOOLEAN]
  /\ old \subseteq Mems
  /\ pressure \in [Mems -> Levels]
  /\ ctl \in ControllerState
  /\ lock \in Sweepers \cup {Free}
  /\ statement \in [Sweepers -> Statements]
  /\ counted \in [Sweepers -> Nat]
  /\ state \in [Sweepers -> ControllerState]
  /\ evict \in [Sweepers -> SUBSET Mems]
  /\ restore \in [Sweepers -> SUBSET Mems]
  /\ touches \in Nat /\ rollbacks \in Nat
  /\ disturbed \subseteq Sweepers

\* No sweep's controller update is lost: what a sweep stores is one update of
\* what the last sweep stored, although it was read several statements before
\* (pg_advisory_xact_lock spans read, decide and write).
UpdatesAreSerial ==
  [][\A s \in Sweepers : Commit(s) => ctl' = Update(ctl, counted[s])]_sweepVars

\* A sweep during which nobody else wrote memories reports the number of active
\* memories there are when it commits (SweepReport, which callers poll to see
\* whether sweeps converged).
ReportIsExact ==
  [][\A s \in Sweepers \ disturbed : Commit(s) => Report(s) = Cardinality(Active')]_sweepVars

\* Nothing is held back that is not under extreme pressure, or too little is
\* missing for the controller to move.
RecoveredOrAtRest ==
  \/ {m \in Live : soft[m] /\ pressure[m] < One - Hysteresis} = {}
  \/ (Target - Cardinality(Active)) * One < Deadband * Goal

\* An agent that stays at or below its target gets back everything that is not under
\* extreme pressure, however far the controller had wound up before, unless so little
\* is missing that the controller rests in its deadband: there it stops, and what is
\* soft-evicted by then stays so (amp_controller_state, anti-windup, hysteresis).
SmallAgentsRecover ==
  <>[](Cardinality(Live) <= Target) =>
    <>[]RecoveredOrAtRest
=============================================================================
