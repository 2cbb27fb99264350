----------------------------- MODULE MCLogItems -----------------------------
EXTENDS LogItems, TLC

\* Messages no run of which is merged keep their own record each.
Alone == {"cancel", "vacuumCut", "slow", "slowB", "slowNoDb", "plan", "slowPlan", "waited"}
Event(k, n, t) == [kind |-> k, n |-> n, t |-> t]

\* Three series of at most two kinds, the first of two events.
MCLogs ==
    {{Event(f[t], IF t = 1 /\ f[1] \notin Alone THEN 2 ELSE 1, t) : t \in 1..3} :
        f \in {g \in [1..3 -> DOMAIN Messages] : Cardinality({g[t] : t \in 1..3}) <= 2}}

\* Every item alone, and neighbours of the section that share kinds of messages.
MCPlans ==
    {<<i>> : i \in DOMAIN ItemRecall} \union
    {<<"error_chronology", "top_errors", "deadlock_events">>,
     <<"query_termination_events", "error_chronology">>,
     <<"replication_events", "top_warnings">>}

=============================================================================
