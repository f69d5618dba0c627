----------------------------- MODULE MCService -------------------------------
(* The service on a small instance: environments with the values that the    *)
(* code tells apart, for each variable, and .env files that set a variable   *)
(* again, or one the environment leaves open.                                *)
EXTENDS Service

Defaults == [POOL_SIZE |-> 1, TABS_PER_BROWSER |-> 1, BROWSER_MAX_AGE_MIN |-> 30,
             BROWSER_MAX_SOLVES |-> 50, SOLVE_TIMEOUT_SEC |-> 2]

Processes ==
  [POOL_SIZE : {Unset, Blank, Junk, 0, 2, 99}, TABS_PER_BROWSER : {Unset, 0, 2, 99},
   BROWSER_MAX_AGE_MIN : {Unset, 10, 40}, BROWSER_MAX_SOLVES : {Unset, 7},
   SOLVE_TIMEOUT_SEC : {Unset, 1, 2050}]

Line(k, v) == [key |-> k, value |-> v]

Files ==
  {<<>>, <<Noise, Line("POOL_SIZE", 2)>>, <<Line("TABS_PER_BROWSER", 2)>>,
   <<Line("SOLVE_TIMEOUT_SEC", 1), Line("SOLVE_TIMEOUT_SEC", 2)>>}

MCEnvirons == [process : Processes, file : Files]

=============================================================================
