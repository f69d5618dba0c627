----------------------------- MODULE SolveSlots ------------------------------
(***************************************************************************)
(* What requests can rely on in the pool: a number of slots that never      *)
(* changes, each used by one request at a time.  BrowserPool implements it  *)
(* with its workers, tabs and tokens.                                       *)
(***************************************************************************)
EXTENDS Naturals, FiniteSets

CONSTANT Requests

VARIABLES
  slots,     \* how many requests can solve at once
  solving    \* those that do

slotVars == <<slots, solving>>

SlotsInit == slots \in Nat /\ solving = {}

Take(r) ==
  /\ r \notin solving
  /\ Cardinality(solving) < slots
  /\ solving' = solving \cup {r}
  /\ UNCHANGED slots

Give(r) ==
  /\ r \in solving
  /\ solving' = solving \ {r}
  /\ UNCHANGED slots

SlotsNext == \E r \in Requests : Take(r) \/ Give(r)

SlotsSpec == SlotsInit /\ [][SlotsNext]_slotVars

=============================================================================
