------------------------- MODULE MCAnalyticsSummary -------------------------
(* An instance of AnalyticsSummary for TLC.                                *)
EXTENDS AnalyticsSummary, Functions

MCUser == "u1"
MCOthers == {"u2"}

\* Both ends of the periods of a week and of 30 days, a day before all of
\* them, and the moment of the summary itself.
MCTimes == {-61, -60, -30, -14, -7, -1, 0}
MCRecent == {-1, 0}

\* A half is exact only where the denominator is a power of two times a
\* divisor of 100, and then Python's round goes to the even neighbour.
MCTieUp(n, d) == ((100 * n) \div d) % 2 = 1

J(u, s, t) == [owner |-> u, status |-> s, created |-> t]
Holding(pairs) ==
    [j \in Jobs |-> SumFunctionOnSet([i \in DOMAIN pairs |-> pairs[i][2]],
                                    {i \in DOMAIN pairs : pairs[i][1] = j})]

\* No jobs; thirds; eighths, whose per cents end in a half; boundaries of the
\* periods; a job dated after `now` and jobs of somebody else.
MCTables ==
    { Holding(<<>>),
      Holding(<< <<J("u1", "interview", -1), 1>>, <<J("u1", "rejected", -7), 1>>,
                 <<J("u1", "applied", -1), 1>>, <<J("u2", "offer", -1), 1>> >>),
      Holding(<< <<J("u1", "applied", -1), 5>>, <<J("u1", "interview", -7), 1>>,
                 <<J("u1", "offer", -7), 1>>, <<J("u1", "rejected", -1), 1>> >>),
      Holding(<< <<J("u1", "offer", -60), 1>>, <<J("u1", "applied", -30), 1>>,
                 <<J("u1", "interview", -61), 1>>, <<J("u1", "applied", -14), 1>>,
                 <<J("u1", "rejected", 0), 1>>, <<J("u2", "applied", -14), 1>> >>) }

=============================================================================
