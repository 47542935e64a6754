----------------------------- MODULE MCTenancy -----------------------------
(* Instances of Tenancy for TLC.                                           *)
EXTENDS Tenancy

CONSTANTS ag1, t1, t2

Env(mode, tenant, map, enabled) ==
    [mode |-> mode, tenant |-> tenant, map |-> map, enabled |-> enabled, key |-> FALSE, open |-> FALSE]

\* One agent: single tenant, two maps that contradict each other, a plan
\* that lacks its tenant, and no plan.
OneAgent ==
    {Env("single_tenant", t1, None, TRUE), Env("mapped", None, [x \in Agents |-> t1], FALSE),
     Env("mapped", None, [x \in Agents |-> t2], FALSE), Env("single_tenant", None, None, FALSE),
     Env(None, None, None, FALSE)}
=============================================================================
