--------------------------- MODULE Service_proofs ----------------------------
(***************************************************************************)
(* Theorems about Service, for any number of requests, any timeouts and any *)
(* environment.                                                            *)
(***************************************************************************)
EXTENDS Service, Induction

-----------------------------------------------------------------------------
(* Handlers only run once the configuration is there. *)
ServedOnly ==
  \A r \in Requests : req[r].at # "none" => main \notin {"load", "display", "pool", "listen"}

(* What lies past the drain follows a Shutdown that found no handler, and    *)
(* none starts after it.                                                     *)
ShutAfterLast ==
  /\ main \in {"close", "stop", "exited"} => shutdown = "ok"
  /\ shutdown = "ok" => Active = {}

(* The part of SOLVE_TIMEOUT_SEC that can pass. *)
Allowed == IF conf.solveTimeout > 0 THEN conf.solveTimeout ELSE 0

(* What age and since can be at each place of the handler. *)
ClocksOK(r) ==
  /\ req[r].at = "body" => req[r].age <= ReadTimeout /\ req[r].since = 0
  /\ req[r].at = "lookup" =>
       req[r].age <= ReadTimeout + req[r].since /\ req[r].since <= LookupTimeout
  /\ (req[r].at = "acquire" \/ (req[r].at = "solve" /\ req[r].ctx = "live")) =>
       /\ req[r].age <= ReadTimeout + LookupTimeout + req[r].since
       /\ req[r].since <= Allowed

(* Why a context has ended. *)
CtxOK(r) ==
  /\ req[r].ctx = "cancelled" => ~req[r].here
  /\ req[r].ctx = "expired" =>
       req[r].at \in Submitted \cup {"reply"} /\ req[r].since >= conf.solveTimeout

StatusOK(r) ==
  req[r].at = "reply" =>
    /\ req[r].status = 504 => req[r].since >= conf.solveTimeout
    /\ req[r].status = 408 => ~req[r].here

ServiceInv ==
  /\ TypeOK
  /\ ServedOnly
  /\ ShutAfterLast
  /\ \A r \in Requests : ClocksOK(r) /\ CtxOK(r) /\ StatusOK(r)

-----------------------------------------------------------------------------
(* Whatever the environment and the file hold, the configuration is one the  *)
(* pool can work with.                                                       *)
THEOREM LoadUsable ==
  ASSUME NEW process, NEW file
  PROVE  Usable(Load(process, file))
<1> DEFINE env == LoadDotEnv(process, file)
           c == Load(process, file)
<1>1. ASSUME NEW key \in Names PROVE GetenvInt(env, key) \in Nat \ {0}
  BY SettingsAssumption DEF GetenvInt, Positive
<1>2. ASSUME NEW v \in Nat
      PROVE  ClampInt(v, 1, 16) \in 1 .. 16 /\ ClampInt(v, 1, 4) \in 1 .. 4
  BY DEF ClampInt
<1>3. /\ GetenvInt(env, "POOL_SIZE") \in Nat /\ GetenvInt(env, "TABS_PER_BROWSER") \in Nat
      /\ GetenvInt(env, "BROWSER_MAX_SOLVES") \in Nat \ {0}
  BY <1>1 DEF Names
<1>4. c.poolSize \in 1 .. 16 /\ c.tabsPerBrowser \in 1 .. 4
  <2> HIDE DEF env
  <2>1. CASE env["POOL_SIZE"] \in {Unset, Blank}
    BY <2>1, SettingsAssumption DEF Load, DetectConcurrency, env
  <2>2. CASE env["POOL_SIZE"] \notin {Unset, Blank}
    <3>1. /\ ClampInt(GetenvInt(env, "POOL_SIZE"), 1, 16) \in 1 .. 16
          /\ ClampInt(GetenvInt(env, "TABS_PER_BROWSER"), 1, 4) \in 1 .. 4
      BY <1>2, <1>3
    <3> QED BY <2>2, <3>1 DEF Load, DetectConcurrency, env
  <2> QED BY <2>1, <2>2
<1>5. c.browserMaxSolves \in Nat \ {0}
  BY <1>3 DEF Load
<1> QED BY <1>4, <1>5 DEF Usable

(* A timeout is a number, if not always the one that is meant. *)
LEMMA TimeoutIsInt ==
  ASSUME NEW process, NEW file
  PROVE  Load(process, file).solveTimeout \in Int
<1>1. ASSUME NEW env PROVE GetenvInt(env, "SOLVE_TIMEOUT_SEC") \in Nat
  BY SettingsAssumption DEF GetenvInt, Positive, Names
<1>2. ASSUME NEW n \in Nat PROVE Duration(n, Second) \in Int
  BY SettingsAssumption DEF Duration, Second
<1> QED BY <1>1, <1>2 DEF Load

-----------------------------------------------------------------------------
(* A line keeps an environment an environment. *)
LEMMA SetFromLineTyped ==
  ASSUME NEW env \in Environments, NEW line \in Lines
  PROVE  SetFromLine(env, line) \in Environments
<1>1. CASE line = Noise
  BY <1>1 DEF SetFromLine
<1>2. CASE line # Noise
  <2>1. line.key \in Names /\ line.value \in Values
    BY <1>2 DEF Lines
  <2>2. QED
    BY <1>2, <2>1 DEF SetFromLine, Environments
<1>3. QED
  BY <1>1, <1>2

(* The environment after each line of .env: LoadDotEnv's loop. *)
LEMMA LoopOfLoadDotEnv ==
  ASSUME NEW process \in Environments, NEW file \in Seq(Lines)
  PROVE  \E after \in [0 .. Len(file) -> Environments] :
           /\ after[0] = process
           /\ \A n \in 1 .. Len(file) : after[n] = SetFromLine(after[n - 1], file[n])
           /\ LoadDotEnv(process, file) = after[Len(file)]
<1> DEFINE N == Len(file)
           step == [n \in 1 .. N |-> [env \in Environments |-> SetFromLine(env, file[n])]]
           Unfolded(g) == [n \in 0 .. N |->
                             IF n = 0 THEN process ELSE SetFromLine(g[n - 1], file[n])]
           after == CHOOSE g : g = Unfolded(g)
<1>1. N \in Nat /\ \A n \in 1 .. N : file[n] \in Lines
  OBVIOUS
<1>2. \A n \in 1 .. N, env \in Environments : step[n][env] \in Environments
  BY <1>1, SetFromLineTyped
<1>3. PICK f \in [0 .. N -> Environments] : Follows(f, N, process, step)
  <2> HIDE DEF N, step
  <2>1. QED
    BY <1>1, <1>2, RecursionExists
<1>4. f = Unfolded(f)
  <2>1. \A n \in 1 .. N : n - 1 \in 0 .. N
    BY <1>1
  <2>2. f[0] = process /\ \A n \in 1 .. N : f[n] = SetFromLine(f[n - 1], file[n])
    BY <1>3, <2>1 DEF Follows
  <2>3. QED
    BY <2>2
<1>5. after = Unfolded(after)
  <2> HIDE DEF Unfolded
  <2>1. QED
    BY <1>4, Zenon
<1>6. after[0] = process
  <2> HIDE DEF after
  <2>1. QED
    BY <1>1, <1>5
<1>7. \A n \in 1 .. N : after[n] = SetFromLine(after[n - 1], file[n])
  <2> HIDE DEF after
  <2>1. \A n \in 1 .. N : n \in 0 .. N /\ n # 0
    BY <1>1
  <2>2. QED
    BY <1>5, <2>1
<1>8. after \in [0 .. N -> Environments]
  <2> DEFINE S == {n \in 0 .. N : after[n] \in Environments}
  <2> HIDE DEF after
  <2>1. 0 \in S
    BY <1>1, <1>6
  <2>2. \A n \in 0 .. N - 1 : n \in S => n + 1 \in S
    <3>1. SUFFICES ASSUME NEW n \in 0 .. N - 1, after[n] \in Environments
                   PROVE  after[n + 1] \in Environments /\ n + 1 \in 0 .. N
      OBVIOUS
    <3>2. n + 1 \in 1 .. N /\ (n + 1) - 1 = n
      BY <1>1
    <3>3. after[n + 1] = SetFromLine(after[n], file[n + 1])
      BY <1>7, <3>2
    <3>4. QED
      BY <1>1, <3>1, <3>2, <3>3, SetFromLineTyped
  <2>3. 0 .. N \subseteq S
    <3> HIDE DEF S, N
    <3>1. QED
      BY <1>1, <2>1, <2>2, InductionUpTo
  <2>4. \A n \in 0 .. N : after[n] \in Environments
    BY <2>3
  <2>5. after = [n \in 0 .. N |-> after[n]]
    BY <1>5
  <2>6. QED
    BY <2>4, <2>5
<1>9. LoadDotEnv(process, file) = after[N]
  BY DEF LoadDotEnv
<1>10. QED
  <2> HIDE DEF after
  <2>1. QED
    BY <1>6, <1>7, <1>8, <1>9

(* A line changes nothing of a variable but its own, and of that only when it *)
(* is not set.                                                                *)
LEMMA LineSetsOwn ==
  ASSUME NEW env \in Environments, NEW line \in Lines, NEW key \in Names
  PROVE  SetFromLine(env, line)[key] =
           IF line # Noise /\ line.key = key /\ env[key] = Unset THEN line.value
           ELSE env[key]
<1>1. CASE line = Noise
  BY <1>1 DEF SetFromLine
<1>2. CASE line # Noise
  <2>1. line.key \in Names
    BY <1>2 DEF Lines
  <2>2. CASE env[line.key] # Unset
    BY <1>2, <2>2 DEF SetFromLine
  <2>3. CASE env[line.key] = Unset
    BY <1>2, <2>1, <2>3 DEF SetFromLine, Environments
  <2>4. QED
    BY <2>2, <2>3
<1>3. QED
  BY <1>1, <1>2

(* loadDotEnv sets a variable to what the environment has, or else to what   *)
(* the first line that names it says.                                        *)
LEMMA DotEnvRight ==
  ASSUME NEW process \in Environments, NEW file \in Seq(Lines), NEW key \in Names
  PROVE  LoadDotEnv(process, file)[key] = SetTo(process, file, key)
<1> DEFINE N == Len(file)
<1>1. PICK after \in [0 .. N -> Environments] :
        /\ after[0] = process
        /\ \A n \in 1 .. N : after[n] = SetFromLine(after[n - 1], file[n])
        /\ LoadDotEnv(process, file) = after[N]
  BY LoopOfLoadDotEnv
<1>2. N \in Nat /\ DOMAIN file = 1 .. N /\ \A n \in 1 .. N : file[n] \in Lines
  OBVIOUS
<1> DEFINE sets(i) == file[i] # Noise /\ file[i].key = key
<1>3. ASSUME NEW n \in 0 .. N - 1
      PROVE  after[n + 1][key] = IF sets(n + 1) /\ after[n][key] = Unset
                                 THEN file[n + 1].value ELSE after[n][key]
  <2>1. n + 1 \in 1 .. N /\ (n + 1) - 1 = n /\ n \in 0 .. N
    BY <1>2
  <2>2. after[n + 1] = SetFromLine(after[n], file[n + 1])
    BY <1>1, <2>1
  <2>3. after[n] \in Environments /\ file[n + 1] \in Lines
    BY <1>1, <1>2, <2>1
  <2>4. QED
    BY <2>2, <2>3, LineSetsOwn
<1>4. ASSUME NEW i \in 1 .. N, sets(i)
      PROVE  file[i].value # Unset
  BY <1>2, <1>4, SettingsAssumption DEF Lines
<1>5. CASE process[key] # Unset
  <2> DEFINE S == {n \in 0 .. N : after[n][key] = process[key]}
  <2>1. 0 \in S
    BY <1>1, <1>2
  <2>2. \A n \in 0 .. N - 1 : n \in S => n + 1 \in S
    BY <1>2, <1>3, <1>5
  <2>3. 0 .. N \subseteq S
    <3> HIDE DEF S, N
    <3>1. QED
      BY <1>2, <2>1, <2>2, InductionUpTo
  <2>4. QED
    BY <1>1, <1>2, <1>5, <2>3 DEF SetTo
<1>6. CASE process[key] = Unset
  <2> DEFINE lines(n) == {i \in 1 .. n : sets(i)}
             Least(i, n) == i \in lines(n) /\ \A j \in lines(n) : i <= j
             S == {n \in 0 .. N : IF lines(n) = {} THEN after[n][key] = Unset
                                  ELSE \E i \in lines(n) :
                                         Least(i, n) /\ after[n][key] = file[i].value}
  <2>1. 0 \in S
    BY <1>1, <1>2, <1>6
  <2>2. ASSUME NEW n \in 0 .. N - 1, n \in S
        PROVE  n + 1 \in S
    <3>1. n + 1 \in 1 .. N /\ n + 1 \in 0 .. N /\ n \in Nat
      BY <1>2
    <3>2. lines(n + 1) = IF sets(n + 1) THEN lines(n) \cup {n + 1} ELSE lines(n)
      BY <3>1
    <3> HIDE DEF sets
    <3>3. CASE ~sets(n + 1)
      <4>1. after[n + 1][key] = after[n][key]
        BY <1>3, <3>3
      <4>2. lines(n + 1) = lines(n)
        BY <3>2, <3>3
      <4>3. QED
        BY <2>2, <3>1, <4>1, <4>2
    <3>4. CASE sets(n + 1) /\ lines(n) = {}
      <4>1. after[n][key] = Unset
        BY <2>2, <3>4
      <4>2. after[n + 1][key] = file[n + 1].value
        BY <1>3, <3>4, <4>1
      <4>3. lines(n + 1) = {n + 1}
        BY <3>2, <3>4
      <4>4. QED
        BY <3>1, <4>2, <4>3
    <3>5. CASE sets(n + 1) /\ lines(n) # {}
      <4>1. PICK i \in lines(n) : Least(i, n) /\ after[n][key] = file[i].value
        BY <2>2, <3>5
      <4>2. i \in 1 .. N /\ sets(i) /\ i <= n
        BY <1>2, <4>1
      <4>3. after[n + 1][key] = file[i].value
        BY <1>3, <1>4, <4>1, <4>2
      <4>4. Least(i, n + 1)
        BY <3>2, <3>5, <4>1, <4>2
      <4>5. QED
        BY <3>1, <4>3, <4>4
    <3>6. QED
      BY <3>3, <3>4, <3>5
  <2>3. 0 .. N \subseteq S
    <3> HIDE DEF S, N
    <3>1. QED
      BY <1>2, <2>1, <2>2, InductionUpTo
  <2>4. {i \in DOMAIN file : file[i] # Noise /\ file[i].key = key} = lines(N)
    BY <1>2
  <2>5. N \in S
    BY <1>2, <2>3
  <2>6. CASE lines(N) = {}
    BY <1>1, <1>6, <2>4, <2>5, <2>6 DEF SetTo
  <2>7. CASE lines(N) # {}
    <3>1. PICK i \in lines(N) : Least(i, N) /\ after[N][key] = file[i].value
      BY <2>5, <2>7
    <3>2. \A j \in lines(N) : (\A k \in lines(N) : j <= k) => j = i
      BY <1>2, <3>1
    <3>3. (CHOOSE j \in lines(N) : \A k \in lines(N) : j <= k) = i
      <4> HIDE DEF lines, N
      <4>1. QED
        BY <3>1, <3>2
    <3>4. SetTo(process, file, key) =
            file[CHOOSE j \in lines(N) : \A k \in lines(N) : j <= k].value
      <4> HIDE DEF lines
      <4>1. QED
        BY <1>6, <2>4, <2>7 DEF SetTo
    <3>5. QED
      BY <1>1, <3>1, <3>3, <3>4
  <2>8. QED
    BY <2>6, <2>7
<1>7. QED
  BY <1>5, <1>6

(* A duration that fits is not changed by the conversion. *)
LEMMA DurationFits ==
  ASSUME NEW v \in Nat \ {0}, NEW unit \in Nat \ {0}, v * unit < DurationRange
  PROVE  Duration(v, unit) = v * unit
<1> DEFINE d == v * unit
           w == 2 * DurationRange
<1>1. d \in Nat /\ d < DurationRange
  OBVIOUS
<1>2. w \in Nat \ {0} /\ d + DurationRange \in 0 .. w - 1
  <2> HIDE DEF d
  <2>1. QED
    BY <1>1, SettingsAssumption
<1>3. (d + DurationRange) % w = d + DurationRange
  <2>1. ASSUME NEW a \in Nat, NEW b \in Nat \ {0}, a < b
        PROVE  a % b = a
    BY <2>1
  <2> HIDE DEF d, w
  <2>2. QED
    BY <1>1, <1>2, <2>1, SettingsAssumption
<1>4. Duration(v, unit) = ((d + DurationRange) % w) - DurationRange
  BY DEF Duration
<1>5. QED
  <2> HIDE DEF d, w
  <2>1. Duration(v, unit) = d
    BY <1>1, <1>3, <1>4, SettingsAssumption
  <2>2. QED
    BY <2>1 DEF d

(* What Load makes of the variables, each of them as SetTo has it. *)
LEMMA LoadRight ==
  ASSUME NEW process \in Environments, NEW file \in Seq(Lines)
  PROVE  LET c == Load(process, file)
             set(key) == SetTo(process, file, key)
         IN /\ Meant(set("POOL_SIZE"), 1) =>
                 c.poolSize = ClampInt(set("POOL_SIZE"), 1, 16)
            /\ Meant(set("TABS_PER_BROWSER"), 1) /\ set("POOL_SIZE") \notin {Unset, Blank} =>
                 c.tabsPerBrowser = ClampInt(set("TABS_PER_BROWSER"), 1, 4)
            /\ Meant(set("SOLVE_TIMEOUT_SEC"), Second) =>
                 c.solveTimeout = set("SOLVE_TIMEOUT_SEC") * Second
            /\ Meant(set("BROWSER_MAX_AGE_MIN"), Minute) =>
                 c.browserMaxAge = set("BROWSER_MAX_AGE_MIN") * Minute
            /\ Meant(set("BROWSER_MAX_SOLVES"), 1) =>
                 c.browserMaxSolves = set("BROWSER_MAX_SOLVES")
<1> DEFINE env == LoadDotEnv(process, file)
           c == Load(process, file)
           set(key) == SetTo(process, file, key)
<1>1. \A key \in Names : env[key] = set(key)
  BY DotEnvRight
<1>2. \A key \in Names : Positive(set(key)) => GetenvInt(env, key) = set(key)
  <2> HIDE DEF env, set
  <2>1. QED
    BY <1>1 DEF GetenvInt
<1>3. {"POOL_SIZE", "TABS_PER_BROWSER", "BROWSER_MAX_AGE_MIN",
        "BROWSER_MAX_SOLVES", "SOLVE_TIMEOUT_SEC"} \subseteq Names
  BY DEF Names
<1>4. /\ c.poolSize = DetectConcurrency(env).poolSize
      /\ c.tabsPerBrowser = DetectConcurrency(env).tabsPerBrowser
      /\ c.solveTimeout = Duration(GetenvInt(env, "SOLVE_TIMEOUT_SEC"), Second)
      /\ c.browserMaxAge = Duration(GetenvInt(env, "BROWSER_MAX_AGE_MIN"), Minute)
      /\ c.browserMaxSolves = GetenvInt(env, "BROWSER_MAX_SOLVES")
  BY DEF Load
<1> HIDE DEF env, c, set
<1>5. ASSUME Meant(set("POOL_SIZE"), 1)
      PROVE  c.poolSize = ClampInt(set("POOL_SIZE"), 1, 16)
  <2>1. Positive(set("POOL_SIZE")) /\ set("POOL_SIZE") \notin {Unset, Blank}
    BY <1>5, SettingsAssumption DEF Meant, Positive, Values
  <2>2. env["POOL_SIZE"] = set("POOL_SIZE") /\ GetenvInt(env, "POOL_SIZE") = set("POOL_SIZE")
    BY <1>1, <1>2, <1>3, <2>1
  <2>3. QED
    BY <1>4, <2>1, <2>2 DEF DetectConcurrency
<1>6. ASSUME Meant(set("TABS_PER_BROWSER"), 1), set("POOL_SIZE") \notin {Unset, Blank}
      PROVE  c.tabsPerBrowser = ClampInt(set("TABS_PER_BROWSER"), 1, 4)
  <2>1. /\ env["POOL_SIZE"] = set("POOL_SIZE")
        /\ GetenvInt(env, "TABS_PER_BROWSER") = set("TABS_PER_BROWSER")
    BY <1>1, <1>2, <1>3, <1>6 DEF Meant
  <2>2. QED
    BY <1>4, <1>6, <2>1 DEF DetectConcurrency
<1>7. ASSUME Meant(set("SOLVE_TIMEOUT_SEC"), Second)
      PROVE  c.solveTimeout = set("SOLVE_TIMEOUT_SEC") * Second
  <2>1. GetenvInt(env, "SOLVE_TIMEOUT_SEC") = set("SOLVE_TIMEOUT_SEC")
    BY <1>2, <1>3, <1>7 DEF Meant
  <2>2. Second \in Nat \ {0}
    BY DEF Second
  <2>3. QED
    BY <1>4, <1>7, <2>1, <2>2, DurationFits DEF Meant, Positive
<1>8. ASSUME Meant(set("BROWSER_MAX_AGE_MIN"), Minute)
      PROVE  c.browserMaxAge = set("BROWSER_MAX_AGE_MIN") * Minute
  <2>1. GetenvInt(env, "BROWSER_MAX_AGE_MIN") = set("BROWSER_MAX_AGE_MIN")
    BY <1>2, <1>3, <1>8 DEF Meant
  <2>2. Minute \in Nat \ {0}
    BY DEF Minute
  <2>3. QED
    BY <1>4, <1>8, <2>1, <2>2, DurationFits DEF Meant, Positive
<1>9. ASSUME Meant(set("BROWSER_MAX_SOLVES"), 1)
      PROVE  c.browserMaxSolves = set("BROWSER_MAX_SOLVES")
  BY <1>2, <1>3, <1>4, <1>9 DEF Meant
<1>10. QED
  BY <1>5, <1>6, <1>7, <1>8, <1>9 DEF c, set
-----------------------------------------------------------------------------
(* What each of the handler's steps does to its record. *)
LEMMA RequestEffects ==
  ASSUME TypeOK, NEW r \in Requests, RequestStep(r) \/ RequestMet(r)
  PROVE  /\ req'[r] \in Handler
         /\ req' = [req EXCEPT ![r] = req'[r]]
         /\ UNCHANGED mainVars
<1> DEFINE fits(rec) == Step(r, rec) /\ rec \in Handler
<1>1. ASSUME NEW rec, fits(rec)
      PROVE  /\ req'[r] \in Handler
             /\ req' = [req EXCEPT ![r] = req'[r]]
             /\ UNCHANGED mainVars
  BY <1>1 DEF TypeOK, Step
<1> HIDE DEF fits
<1>2. req[r] \in Handler
  BY DEF TypeOK
<1>0. ASSUME NEW h \in Handler, NEW status \in {200, 400, 401, 408, 500, 504}
      PROVE  Answered(h, status) \in Handler
  BY ZenonT(150) DEF Handler, Answered
<1>3. ASSUME NEW status \in {200, 400, 401, 408, 500, 504}, Answer(r, status)
      PROVE  fits(Answered(req[r], status))
  <2>1. Answered(req[r], status) \in Handler
    BY <1>0, <1>2
  <2> QED BY <1>3, <2>1 DEF Answer, fits
<1>13. Idle \in Handler
  BY DEF Idle, Handler
<1>4. CASE Arrive(r)
  <2>1. /\ [Idle EXCEPT !.at = "body"] \in Handler
        /\ Answered(Idle, 401) \in Handler
    <3>1. [Idle EXCEPT !.at = "body"] \in Handler
      BY <1>13 DEF Handler
    <3>2. Answered(Idle, 401) \in Handler
      BY <1>0, <1>13
    <3> QED BY <3>1, <3>2
  <2> QED BY <1>1, <1>4, <1>13, <2>1 DEF Arrive, fits
<1>5. CASE Bind(r)
  <2>1. [req[r] EXCEPT !.at = "lookup"] \in Handler
    BY <1>2 DEF Handler
  <2> QED BY <1>1, <1>3, <1>5, <2>1 DEF Bind, fits
<1>6. CASE Validate(r)
  <2>1. [req[r] EXCEPT !.at = "acquire", !.since = 0] \in Handler
    <3>1. 0 \in Nat
      OBVIOUS
    <3> QED BY <1>2, <3>1, ZenonT(150) DEF Handler
  <2> QED BY <1>1, <1>3, <1>6, <2>1 DEF Validate, fits
<1>7. CASE Acquire(r)
  <2>1. [req[r] EXCEPT !.at = "solve", !.since = ClockAtSolve(r)] \in Handler
    <3>1. ClockAtSolve(r) \in Nat
      BY <1>2 DEF Handler, ClockAtSolve
    <3> QED BY <1>2, <3>1, ZenonT(150) DEF Handler
  <2> QED BY <1>1, <1>7, <2>1 DEF Acquire, fits
<1>8. CASE Expire(r)
  <2>1. [req[r] EXCEPT !.ctx = "expired"] \in Handler
    BY <1>2 DEF Handler
  <2> QED BY <1>1, <1>8, <2>1 DEF Expire, fits
<1>9. CASE SubmitFails(r)
  <2>1. StatusOf(req[r].ctx) \in {200, 400, 401, 408, 500, 504}
    BY <1>2 DEF StatusOf, Handler
  <2> QED BY <1>1, <1>3, <1>9, <2>1 DEF SubmitFails
<1>10. CASE Solved(r)
  BY <1>1, <1>3, <1>10 DEF Solved
<1>11. CASE Reply(r)
  BY <1>1, <1>11, <1>13 DEF Reply, fits
<1>12. CASE ClientLeaves(r)
  <2>1. [req[r] EXCEPT !.here = FALSE,
                       !.ctx = IF @ = "live" THEN "cancelled" ELSE @] \in Handler
    <3> DEFINE c == IF req[r].ctx = "live" THEN "cancelled" ELSE req[r].ctx
    <3>1. c \in {"live", "cancelled", "expired"}
      BY <1>2 DEF Handler
    <3> HIDE DEF c
    <3>2. [req[r] EXCEPT !.here = FALSE, !.ctx = c] \in Handler
      BY <1>2, <3>1, ZenonT(150) DEF Handler
    <3> QED BY <3>2 DEF c
  <2> QED BY <1>1, <1>12, <2>1 DEF ClientLeaves, fits
<1>14. CASE Accept(r)
  <2>1. [Idle EXCEPT !.at = "headers"] \in Handler
    BY <1>13 DEF Handler
  <2> QED BY <1>1, <1>14, <2>1 DEF Accept, fits
<1>15. CASE Hang(r)
  <2>1. [Idle EXCEPT !.at = "stuck"] \in Handler
    BY <1>13 DEF Handler
  <2> QED BY <1>1, <1>15, <2>1 DEF Hang, fits
<1> QED BY <1>4, <1>5, <1>6, <1>7, <1>8, <1>9, <1>10, <1>11, <1>12, <1>14, <1>15
        DEF RequestStep, RequestMet

-----------------------------------------------------------------------------
(* Every step keeps the types. *)
LEMMA TypeInductive == TypeOK /\ [Next]_vars => TypeOK'
<1> SUFFICES ASSUME TypeOK, [Next]_vars PROVE TypeOK'
  OBVIOUS
<1>1. CASE LoadConfig
  <2> DEFINE c == Load(conf.process, conf.file)
  <2>1. c.solveTimeout \in Int
    BY TimeoutIsInt
  <2> HIDE DEF c
  <2>2. conf' \in [solveTimeout : Int]
    BY <1>1, <2>1 DEF LoadConfig, c
  <2> QED BY <1>1, <2>2 DEF LoadConfig, TypeOK
<1>2. CASE \/ StartDisplay \/ NewPool \/ Serve \/ ServerClosed \/ Drained
           \/ ClosePool \/ StopDisplay
  BY <1>2 DEF StartDisplay, NewPool, Serve, ServerClosed, Drained, ClosePool,
              StopDisplay, Goto, TypeOK
<1>3. CASE Signal
  BY <1>3 DEF Signal, TypeOK
<1>4. CASE ShutdownStep
  BY <1>4 DEF ShutdownStep, BeginShutdown, ShutdownDone, ShutdownLate,
              ShutdownReturns, Sent, TypeOK
<1>5. ASSUME NEW r \in Requests, RequestStep(r) \/ RequestMet(r)
      PROVE  TypeOK'
  BY <1>5, RequestEffects DEF TypeOK, mainVars
<1>6. CASE Tick
  <2>1. grace' \in 0 .. DrainTimeout
    <3>1. DrainTimeout \in Nat
      BY ServiceAssumption
    <3>2. grace' = IF shutdown = "waiting" THEN grace + 1 ELSE grace
      BY <1>6 DEF Tick
    <3>3. shutdown = "waiting" => grace < DrainTimeout
      BY <1>6 DEF Tick
    <3>4. grace \in 0 .. DrainTimeout
      BY DEF TypeOK
    <3> QED BY <3>1, <3>2, <3>3, <3>4
  <2>2. ASSUME NEW r \in Requests PROVE req'[r] \in Handler
    <3> DEFINE since == IF req[r].at = "body" THEN req[r].since ELSE req[r].since + 1
    <3>1. req[r] \in Handler
      BY DEF TypeOK
    <3>2. req[r].age + 1 \in Nat /\ since \in Nat
      BY <3>1 DEF Handler
    <3>3. req'[r] = IF ~Counted(req[r]) THEN req[r]
                    ELSE [req[r] EXCEPT !.age = req[r].age + 1, !.since = since]
      BY <1>6 DEF Tick
    <3> HIDE DEF since
    <3>4. [req[r] EXCEPT !.age = req[r].age + 1, !.since = since] \in Handler
      BY <3>1, <3>2, ZenonT(150) DEF Handler
    <3> QED BY <3>1, <3>3, <3>4
  <2>3. req' \in [Requests -> Handler]
    BY <1>6, <2>2 DEF Tick
  <2> QED BY <1>6, <2>1, <2>3 DEF Tick, TypeOK
<1>7. CASE Terminated \/ UNCHANGED vars
  BY <1>7 DEF Terminated, vars, TypeOK
<1> QED BY <1>1, <1>2, <1>3, <1>4, <1>5, <1>6, <1>7 DEF Next, MainStep

-----------------------------------------------------------------------------
(* The process starts with no handler. *)
LEMMA ServiceInit == Init => ServiceInv
<1> SUFFICES ASSUME Init PROVE ServiceInv
  OBVIOUS
<1>1. TypeOK
  <2>1. Idle \in Handler /\ 0 \in 0 .. DrainTimeout
    BY ServiceAssumption DEF Idle, Handler
  <2> QED BY <2>1 DEF Init, TypeOK
<1>2. ServedOnly /\ ShutAfterLast
  BY DEF Init, ServedOnly, ShutAfterLast, Idle
<1>3. ASSUME NEW r \in Requests PROVE ClocksOK(r) /\ CtxOK(r) /\ StatusOK(r)
  BY DEF Init, ClocksOK, CtxOK, StatusOK, Idle, Submitted
<1> QED BY <1>1, <1>2, <1>3 DEF ServiceInv

(* A handler's step starts from a process that serves or drains. *)
LEMMA ServedOnlyStep == ServiceInv /\ [Next]_vars => ServedOnly'
<1> SUFFICES ASSUME ServiceInv, [Next]_vars, NEW s \in Requests, req'[s].at # "none"
             PROVE  main' \notin {"load", "display", "pool", "listen"}
  BY DEF ServedOnly
<1> USE DEF ServiceInv, ServedOnly
<1>1. CASE MainStep
  BY <1>1 DEF MainStep, LoadConfig, StartDisplay, NewPool, Serve, ServerClosed, Drained,
              ClosePool, StopDisplay, Goto, CleanShutdown
<1>2. CASE Signal \/ ShutdownStep
  BY <1>2 DEF Signal, ShutdownStep, BeginShutdown, ShutdownDone, ShutdownLate, ShutdownReturns
<1>3. ASSUME NEW r \in Requests, RequestStep(r) \/ RequestMet(r)
      PROVE  main' \notin {"load", "display", "pool", "listen"}
  <2>1. main' = main /\ req' = [req EXCEPT ![r] = req'[r]]
    BY <1>3, RequestEffects DEF mainVars
  <2>2. main = "serving" \/ req[r].at # "none"
    BY <1>3 DEF RequestStep, RequestMet, Accept, Arrive, Bind, Validate, Acquire, Expire,
                SubmitFails, Solved, Hang, Reply, ClientLeaves, Submitted
  <2> QED BY <2>1, <2>2
<1>4. CASE Tick
  BY <1>4 DEF Tick
<1>5. CASE Terminated \/ UNCHANGED vars
  BY <1>5 DEF Terminated, vars
<1> QED BY <1>1, <1>2, <1>3, <1>4, <1>5 DEF Next

LEMMA ShutAfterLastStep == ServiceInv /\ [Next]_vars => ShutAfterLast'
<1> SUFFICES ASSUME ServiceInv, [Next]_vars PROVE ShutAfterLast'
  OBVIOUS
<1> USE DEF ServiceInv, ShutAfterLast, Active
<1>1. CASE MainStep
  BY <1>1 DEF MainStep, LoadConfig, StartDisplay, NewPool, Serve, ServerClosed, Drained,
              ClosePool, StopDisplay, Goto, CleanShutdown
<1>2. CASE Signal
  BY <1>2 DEF Signal
<1>3. CASE ShutdownStep
  BY <1>3 DEF ShutdownStep, BeginShutdown, ShutdownDone, ShutdownLate, ShutdownReturns, Sent
<1>4. ASSUME NEW r \in Requests, RequestStep(r) \/ RequestMet(r)
      PROVE  ShutAfterLast'
  <2>1. UNCHANGED mainVars
    BY <1>4, RequestEffects
  <2>2. shutdown = "none" \/ req[r].at # "none"
    BY <1>4 DEF RequestStep, RequestMet, Accept, Arrive, Bind, Validate, Acquire, Expire,
                SubmitFails, Solved, Hang, Reply, ClientLeaves, Submitted
  <2> QED BY <2>1, <2>2 DEF mainVars
<1>5. CASE Tick
  <2>1. ASSUME NEW s \in Requests PROVE req[s].at = "none" => req'[s].at = "none"
    BY <1>5 DEF Tick, Counted
  <2> QED BY <1>5, <2>1 DEF Tick
<1>6. CASE Terminated \/ UNCHANGED vars
  BY <1>6 DEF Terminated, vars
<1> QED BY <1>1, <1>2, <1>3, <1>4, <1>5, <1>6 DEF Next

-----------------------------------------------------------------------------
HandlerOK(r) == ClocksOK(r) /\ CtxOK(r) /\ StatusOK(r)

LEMMA AllowedTyped ==
  ASSUME TypeOK, main # "load"
  PROVE  /\ conf.solveTimeout \in Int
         /\ Allowed \in Nat /\ conf.solveTimeout <= Allowed
         /\ ReadTimeout \in Nat /\ LookupTimeout \in Nat
<1>1. conf.solveTimeout \in Int
  BY DEF TypeOK
<1> QED BY <1>1, ServiceAssumption DEF Allowed

(* The record a step leaves behind, for a handler that was fine before. *)
LEMMA OwnHandlerStep ==
  ASSUME ServiceInv, NEW r \in Requests, RequestStep(r) \/ RequestMet(r)
  PROVE  HandlerOK(r)'
<1> DEFINE h == req[r]
           g == req'[r]
<1>1. h \in Handler /\ g \in Handler /\ conf' = conf /\ main # "load"
  <2>1. main # "load"
    BY DEF ServiceInv, ServedOnly, RequestStep, RequestMet, Accept, Arrive, Bind, Validate,
           Acquire, Expire, SubmitFails, Solved, Hang, Reply, ClientLeaves, Submitted
  <2> QED BY <2>1, RequestEffects DEF ServiceInv, TypeOK, mainVars
<1>2. /\ h.age \in Nat /\ h.since \in Nat
      /\ h.here \in BOOLEAN /\ h.ctx \in {"live", "cancelled", "expired"}
  BY <1>1 DEF Handler
<1>3. HandlerOK(r)
  BY DEF ServiceInv, HandlerOK
<1>4. /\ conf.solveTimeout \in Int
      /\ Allowed \in Nat /\ conf.solveTimeout <= Allowed
      /\ ReadTimeout \in Nat /\ LookupTimeout \in Nat
  BY <1>1, AllowedTyped DEF ServiceInv
<1>5. Allowed' = Allowed
  BY <1>1 DEF Allowed
<1>6. ASSUME NEW rec, Step(r, rec) PROVE g = rec
  BY <1>6 DEF Step, ServiceInv, TypeOK
<1>7. ASSUME NEW status, Answer(r, status)
      PROVE  /\ g.at = "reply" /\ g.status = status
             /\ g.age = h.age /\ g.since = h.since /\ g.ctx = h.ctx /\ g.here = h.here
  <2>1. g = Answered(h, status)
    BY <1>6, <1>7 DEF Answer
  <2> QED BY <1>1, <2>1 DEF Answered, Handler
<1> USE DEF HandlerOK, ClocksOK, CtxOK, StatusOK, Submitted
<1>8. CASE Arrive(r)
  <2>1. g = [Idle EXCEPT !.at = "body"] \/ g = Answered(Idle, 401) \/ g = Idle
    BY <1>6, <1>8 DEF Arrive
  <2>2. /\ g.at \in {"none", "body", "reply"} /\ g.age = 0 /\ g.since = 0
        /\ g.ctx = "live" /\ g.status \in {0, 401}
    <3>1. CASE g = [Idle EXCEPT !.at = "body"]
      BY <3>1 DEF Idle
    <3>2. CASE g = Answered(Idle, 401)
      BY <3>2 DEF Idle, Answered
    <3>3. CASE g = Idle
      BY <3>3 DEF Idle
    <3> QED BY <2>1, <3>1, <3>2, <3>3
  <2>3. g.status # 504 /\ g.status # 408
    BY <2>2
  <2> QED BY <1>4, <1>5, <2>2, <2>3
<1>9. CASE Bind(r)
  <2>1. h.at = "body" /\ (g = [h EXCEPT !.at = "lookup"] \/ Answer(r, 400))
    BY <1>6, <1>9 DEF Bind
  <2>2. CASE g = [h EXCEPT !.at = "lookup"]
    <3>1. /\ g.at = "lookup" /\ g.age = h.age /\ g.since = h.since /\ g.ctx = h.ctx
          /\ g.here = h.here
      BY <1>1, <2>2 DEF Handler
    <3> QED BY <1>1, <1>2, <1>3, <1>4, <1>5, <2>1, <3>1
  <2>3. CASE Answer(r, 400)
    BY <1>1, <1>2, <1>3, <1>4, <1>5, <1>7, <2>1, <2>3
  <2> QED BY <2>1, <2>2, <2>3
<1>10. CASE Validate(r)
  <2>1. h.at = "lookup" /\ (g = [h EXCEPT !.at = "acquire", !.since = 0] \/ Answer(r, 400))
    BY <1>6, <1>10 DEF Validate
  <2>2. CASE g = [h EXCEPT !.at = "acquire", !.since = 0]
    <3>1. /\ g.at = "acquire" /\ g.age = h.age /\ g.since = 0 /\ g.ctx = h.ctx
          /\ g.here = h.here
      BY <1>1, <2>2 DEF Handler
    <3> QED BY <1>1, <1>2, <1>3, <1>4, <1>5, <2>1, <3>1
  <2>3. CASE Answer(r, 400)
    BY <1>1, <1>2, <1>3, <1>4, <1>5, <1>7, <2>1, <2>3
  <2> QED BY <2>1, <2>2, <2>3
<1>11. CASE Acquire(r)
  <2>1. h.at = "acquire" /\ g = [h EXCEPT !.at = "solve", !.since = h.since]
    BY <1>6, <1>11 DEF Acquire, ClockAtSolve
  <2>2. /\ g.at = "solve" /\ g.age = h.age /\ g.since = h.since /\ g.ctx = h.ctx
        /\ g.here = h.here
    BY <1>1, <2>1 DEF Handler
  <2> QED BY <1>1, <1>2, <1>3, <1>4, <1>5, <2>1, <2>2
<1>12. CASE Expire(r)
  <2>1. /\ h.at \in Submitted /\ h.since >= conf.solveTimeout
        /\ g = [h EXCEPT !.ctx = "expired"]
    BY <1>6, <1>12 DEF Expire
  <2>2. /\ g.at = h.at /\ g.age = h.age /\ g.since = h.since /\ g.ctx = "expired"
        /\ g.here = h.here
    BY <1>1, <2>1 DEF Handler
  <2> QED BY <1>1, <1>2, <1>3, <1>4, <1>5, <2>1, <2>2
<1>13. CASE SubmitFails(r)
  <2>1. h.at \in Submitted /\ \E status \in {StatusOf(h.ctx), 500} : Answer(r, status)
    BY <1>13 DEF SubmitFails, Submitted
  <2>2. /\ StatusOf(h.ctx) = 504 => h.ctx = "expired"
        /\ StatusOf(h.ctx) = 408 => h.ctx = "cancelled"
    BY <1>2 DEF StatusOf
  <2> QED BY <1>1, <1>2, <1>3, <1>4, <1>5, <1>7, <2>1, <2>2
<1>14. CASE Solved(r)
  <2>1. h.at = "solve" /\ Answer(r, 200)
    BY <1>14 DEF Solved
  <2> QED BY <1>1, <1>2, <1>3, <1>4, <1>5, <1>7, <2>1
<1>15. CASE Reply(r)
  <2>1. g = Idle
    BY <1>6, <1>15 DEF Reply
  <2> QED BY <1>4, <1>5, <2>1 DEF Idle
<1>16. CASE ClientLeaves(r)
  <2>1. /\ h.at \in {"body", "lookup"} \cup Submitted
        /\ g = [h EXCEPT !.here = FALSE,
                         !.ctx = IF h.ctx = "live" THEN "cancelled" ELSE h.ctx]
    BY <1>6, <1>16 DEF ClientLeaves
  <2>2. /\ g.at = h.at /\ g.age = h.age /\ g.since = h.since /\ g.here = FALSE
        /\ g.ctx = IF h.ctx = "live" THEN "cancelled" ELSE h.ctx
    BY <1>1, <2>1 DEF Handler
  <2> QED BY <1>1, <1>2, <1>3, <1>4, <1>5, <2>1, <2>2
<1>17. CASE Accept(r) \/ Hang(r)
  <2>1. g = [Idle EXCEPT !.at = "headers"] \/ g = [Idle EXCEPT !.at = "stuck"]
    BY <1>6, <1>17 DEF Accept, Hang
  <2>2. g.at \in {"headers", "stuck"} /\ g.ctx = "live"
    BY <2>1 DEF Idle
  <2> QED BY <2>2
<1> QED BY <1>8, <1>9, <1>10, <1>11, <1>12, <1>13, <1>14, <1>15, <1>16, <1>17
        DEF RequestStep, RequestMet

LEMMA HandlersStep ==
  ServiceInv /\ [Next]_vars => \A r \in Requests : HandlerOK(r)'
<1> SUFFICES ASSUME ServiceInv, [Next]_vars, NEW s \in Requests PROVE HandlerOK(s)'
  OBVIOUS
<1>1. HandlerOK(s)
  BY DEF ServiceInv, HandlerOK
<1>2. ASSUME req' = req, conf' = conf PROVE HandlerOK(s)'
  BY <1>1, <1>2 DEF HandlerOK, ClocksOK, CtxOK, StatusOK, Allowed
<1>3. CASE LoadConfig
  <2>1. req'[s].at = "none" /\ req'[s].ctx # "expired" /\ req' = req
    BY <1>1, <1>3 DEF LoadConfig, ServiceInv, ServedOnly, HandlerOK, CtxOK, Submitted
  <2> QED BY <1>1, <2>1 DEF HandlerOK, ClocksOK, CtxOK, StatusOK, Submitted
<1>4. CASE \/ StartDisplay \/ NewPool \/ Serve \/ ServerClosed \/ Drained
           \/ ClosePool \/ StopDisplay
  BY <1>2, <1>4 DEF StartDisplay, NewPool, Serve, ServerClosed, Drained, ClosePool,
                    StopDisplay, Goto
<1>5. CASE Signal \/ ShutdownStep
  BY <1>2, <1>5 DEF Signal, ShutdownStep, BeginShutdown, ShutdownDone, ShutdownLate,
                    ShutdownReturns
<1>6. ASSUME NEW r \in Requests, RequestStep(r) \/ RequestMet(r)
      PROVE  HandlerOK(s)'
  <2>1. CASE s = r
    BY <1>6, <2>1, OwnHandlerStep
  <2>2. CASE s # r
    <3>1. req'[s] = req[s] /\ conf' = conf
      BY <1>6, <2>2, RequestEffects DEF ServiceInv, TypeOK, mainVars
    <3> QED BY <1>1, <3>1 DEF HandlerOK, ClocksOK, CtxOK, StatusOK, Allowed
  <2> QED BY <2>1, <2>2
<1>7. CASE Tick
  <2> DEFINE h == req[s]
             g == req'[s]
  <2>1. /\ h \in Handler /\ conf' = conf /\ main # "load" /\ ~Due(s)
        /\ g = IF ~Counted(h) THEN h
               ELSE [h EXCEPT !.age = h.age + 1,
                              !.since = IF h.at = "body" THEN h.since ELSE h.since + 1]
    BY <1>7 DEF Tick, ServiceInv, TypeOK
  <2>2. CASE ~Counted(h)
    <3>1. g = h
      BY <2>1, <2>2
    <3>2. conf' = conf
      BY <2>1
    <3> QED BY <1>1, <3>1, <3>2 DEF HandlerOK, ClocksOK, CtxOK, StatusOK, Allowed
  <2>3. CASE Counted(h)
    <3>1. /\ g.at = h.at /\ g.age = h.age + 1 /\ g.ctx = h.ctx /\ g.here = h.here
          /\ g.since = (IF h.at = "body" THEN h.since ELSE h.since + 1)
          /\ h.age \in Nat /\ h.since \in Nat
      BY <2>1, <2>3 DEF Handler
    <3>2. /\ conf.solveTimeout \in Int
          /\ Allowed \in Nat /\ conf.solveTimeout <= Allowed
          /\ ReadTimeout \in Nat /\ LookupTimeout \in Nat
      BY <2>1, AllowedTyped DEF ServiceInv
    <3>3. Allowed' = Allowed
      BY <2>1 DEF Allowed
    <3>4. /\ h.at \in {"body", "lookup"} \/ (h.at \in Submitted /\ h.ctx = "live")
          /\ h.at = "body" => h.age < ReadTimeout
          /\ h.at = "lookup" => h.since < LookupTimeout
          /\ h.at \in Submitted => h.since < conf.solveTimeout
      BY <2>1, <2>3, <3>1, <3>2 DEF Due, Counted, Submitted
    <3> QED BY <1>1, <2>1, <3>1, <3>2, <3>3, <3>4
            DEF HandlerOK, ClocksOK, CtxOK, StatusOK, Submitted
  <2> QED BY <2>2, <2>3
<1>8. CASE Terminated \/ UNCHANGED vars
  BY <1>2, <1>8 DEF Terminated, vars
<1> QED BY <1>3, <1>4, <1>5, <1>6, <1>7, <1>8 DEF Next, MainStep

-----------------------------------------------------------------------------
(* The inductive invariant of the service. *)
THEOREM ServiceInvHolds == Spec => []ServiceInv
<1>1. ServiceInv /\ [Next]_vars => ServiceInv'
  BY TypeInductive, ServedOnlyStep, ShutAfterLastStep, HandlersStep
  DEF ServiceInv, HandlerOK
<1> QED BY <1>1, ServiceInit, PTL DEF Spec

(* The types of the service. *)
THEOREM ServiceTypeCorrect == Spec => []TypeOK
<1>1. ServiceInv => TypeOK
  BY DEF ServiceInv
<1> QED BY <1>1, ServiceInvHolds, PTL

(* SettingsRight, for any environment and any .env file: Load gives the pool  *)
(* usable sizes, and a number that is meant is the one that is used.  For     *)
(* TABS_PER_BROWSER the theorem needs POOL_SIZE to be set too (config.go:158); *)
(* of TABS_PER_BROWSER alone, which README.md:115 documents, it says nothing. *)
THEOREM SettingsAreRight == Spec => []SettingsRight
<1>1. TypeOK => SettingsRight
  <2>1. SUFFICES ASSUME TypeOK, main = "load"
                 PROVE  SettingsRight
    BY DEF SettingsRight
  <2>2. conf.process \in Environments /\ conf.file \in Seq(Lines)
    BY <2>1, ServiceAssumption DEF TypeOK
  <2>3. QED
    BY <2>2, LoadUsable, LoadRight DEF SettingsRight
<1>2. QED
  BY <1>1, ServiceTypeCorrect, PTL

(* main closes the pool and the display after the last handler (main.go:42,  *)
(* 35, the deferred calls).                                                  *)
THEOREM ClosedAfterLast == Spec => []CloseMeetsNoRequest
<1>1. ServiceInv => CloseMeetsNoRequest
  BY DEF ServiceInv, ShutAfterLast, CloseMeetsNoRequest
<1> QED BY <1>1, ServiceInvHolds, PTL

(* One deadline covers the wait for a worker and the solve (pool.go:106-109): *)
(* whenever a worker comes, the context of a request that waits or solves has *)
(* ended within the three timeouts from its headers on.                       *)
THEOREM WaitIsCovered == Spec => []DeadlineCoversWait
<1>1. ServiceInv => DeadlineCoversWait
  <2>1. SUFFICES ASSUME ServiceInv, NEW r \in Requests,
                        req[r].at = "acquire" \/ (req[r].at = "solve" /\ req[r].ctx = "live")
                 PROVE  req[r].age <= ReadTimeout + LookupTimeout + Allowed
    BY DEF DeadlineCoversWait, Allowed
  <2>2. TypeOK /\ main # "load"
    BY <2>1 DEF ServiceInv, ServedOnly
  <2>3. req[r].age \in Nat /\ req[r].since \in Nat
    BY <2>2 DEF TypeOK, Handler
  <2>4. QED
    BY <2>1, <2>2, <2>3, AllowedTyped DEF ServiceInv, ClocksOK
<1> QED BY <1>1, ServiceInvHolds, PTL

(* The statuses 504 and 408 say what has happened (server.go:60-66). *)
THEOREM StatusesTell == Spec => []StatusTells
<1>1. ServiceInv => StatusTells
  BY DEF ServiceInv, StatusOK, StatusTells
<1> QED BY <1>1, ServiceInvHolds, PTL

=============================================================================
