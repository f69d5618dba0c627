------------------------------ MODULE Settings -------------------------------
(***************************************************************************)
(* config.Load, internal/config/config.go: the numbers of the configuration *)
(* from the process's environment and the file .env.  The value of a        *)
(* variable is a number, blank or something else; a line of the file is a   *)
(* key with its value, or noise (empty, a comment, no "=").                 *)
(***************************************************************************)
EXTENDS Integers, Sequences

CONSTANTS
  Unset, Blank, Junk,
  Noise,          (* a line of .env without a key and a value             *)
  DurationRange,  (* durations are from -DurationRange to DurationRange-1 *)
  Default         (* the defaults of the variables                        *)

Names == {"POOL_SIZE", "TABS_PER_BROWSER", "BROWSER_MAX_AGE_MIN",
          "BROWSER_MAX_SOLVES", "SOLVE_TIMEOUT_SEC"}

(* What a variable that is set can hold, for Load: a number, or a text that *)
(* strconv.Atoi refuses.                                                    *)
Values == Int \cup {Blank, Junk}

Environments == [Names -> Values \cup {Unset}]
Lines == {Noise} \cup [key : Names, value : Values]

ASSUME SettingsAssumption ==
  /\ {Blank, Junk} \cap Int = {}
  /\ Unset \notin Values
  /\ Noise \notin [key : Names, value : Values]
  /\ DurationRange \in Nat \ {0}
  /\ Default \in [Names -> Nat \ {0}]
  /\ Default["POOL_SIZE"] \in 1 .. 16 /\ Default["TABS_PER_BROWSER"] \in 1 .. 4

Second == 1
Minute == 60

-----------------------------------------------------------------------------
(* Slips the code could contain, each a variant of an operator below.      *)

FileWins(env, line) ==
  IF line = Noise THEN env ELSE [env EXCEPT ![line.key] = line.value]

-----------------------------------------------------------------------------
(* One line of loadDotEnv: a variable that is set, even to nothing, stays.  *)
SetFromLine(env, line) ==
  IF line = Noise THEN env
  ELSE IF env[line.key] # Unset THEN env
  ELSE [env EXCEPT ![line.key] = line.value]

LoadDotEnv(env, file) ==
  LET after[n \in 0 .. Len(file)] ==
        IF n = 0 THEN env ELSE SetFromLine(after[n - 1], file[n])
  IN  after[Len(file)]

(* strconv.Atoi succeeds, with a positive number. *)
Positive(v) == v \in Nat \ {0}

GetenvInt(env, key) == IF Positive(env[key]) THEN env[key] ELSE Default[key]

ClampInt(v, lo, hi) == IF v < lo THEN lo ELSE IF v > hi THEN hi ELSE v

(* time.Duration(n) * unit wraps around. *)
Duration(n, unit) == ((n * unit + DurationRange) % (2 * DurationRange)) - DurationRange

(* TABS_PER_BROWSER counts only where POOL_SIZE is set. *)
DetectConcurrency(env) ==
  IF env["POOL_SIZE"] \in {Unset, Blank}
  THEN [poolSize |-> Default["POOL_SIZE"], tabsPerBrowser |-> Default["TABS_PER_BROWSER"]]
  ELSE [poolSize |-> ClampInt(GetenvInt(env, "POOL_SIZE"), 1, 16),
        tabsPerBrowser |-> ClampInt(GetenvInt(env, "TABS_PER_BROWSER"), 1, 4)]

Load(process, file) ==
  LET env == LoadDotEnv(process, file)
      concurrency == DetectConcurrency(env)
  IN [poolSize |-> concurrency.poolSize,
      tabsPerBrowser |-> concurrency.tabsPerBrowser,
      browserMaxAge |-> Duration(GetenvInt(env, "BROWSER_MAX_AGE_MIN"), Minute),
      browserMaxSolves |-> GetenvInt(env, "BROWSER_MAX_SOLVES"),
      solveTimeout |-> Duration(GetenvInt(env, "SOLVE_TIMEOUT_SEC"), Second)]

-----------------------------------------------------------------------------
(* What a variable is set to, as README.md and the compose file have it: the *)
(* container's environment, or else the first line of .env that sets it.     *)
SetTo(process, file, key) ==
  LET lines == {i \in DOMAIN file : file[i] # Noise /\ file[i].key = key}
  IN IF process[key] # Unset THEN process[key]
     ELSE IF lines = {} THEN Unset
     ELSE file[CHOOSE i \in lines : \A j \in lines : i <= j].value

(* A number that is meant: positive, and its duration fits. *)
Meant(v, unit) == Positive(v) /\ v * unit < DurationRange

=============================================================================
