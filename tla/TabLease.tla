------------------------------ MODULE TabLease ------------------------------
(***************************************************************************)
(* What the browser pool promises to the requests it serves, without the   *)
(* channel, the flags and the goroutines that keep the promise.            *)
(*                                                                         *)
(* A worker has a browser of its own or none.  A request leases a tab of a *)
(* worker that has a browser, and as long as a worker has tabs out on      *)
(* lease its browser is neither taken away nor exchanged.                  *)
(***************************************************************************)
EXTENDS Naturals, FiniteSets

CONSTANTS
  Workers,
  TabCap,     (* the tabs of a worker that can be leased at once *)
  Jobs,
  Inst,       (* the browsers *)
  NoWorker,   (* a request without a tab *)
  NoInst      (* a worker without a browser *)

VARIABLES
  lease,      \* the worker whose tab a request uses
  instance,   \* the browser of a worker
  shut        \* the worker is shut down

leaseVars == <<lease, instance, shut>>

Holders(w) == {j \in Jobs : lease[j] = w}

(* The worker's browser can be put out of service. *)
Idle(w) == Holders(w) = {}

LeaseInit ==
  /\ lease = [j \in Jobs |-> NoWorker]
  /\ instance = [w \in Workers |-> NoInst]
  /\ shut = [w \in Workers |-> FALSE]

(* A request is given a tab. *)
Acquire(j, w) ==
  /\ lease[j] = NoWorker
  /\ ~shut[w]
  /\ instance[w] # NoInst
  /\ Cardinality(Holders(w)) < TabCap
  /\ lease' = [lease EXCEPT ![j] = w]
  /\ UNCHANGED <<instance, shut>>

(* A request gives its tab back; the last one may take the browser out of  *)
(* service as it leaves.                                                   *)
GiveBackTab(j, w) ==
  /\ lease[j] = w
  /\ lease' = [lease EXCEPT ![j] = NoWorker]
  /\ \/ UNCHANGED instance
     \/ /\ Holders(w) = {j}
        /\ ~shut[w]
        /\ instance' = [instance EXCEPT ![w] = NoInst]
  /\ UNCHANGED shut

(* A browser that nobody uses is taken out of service. *)
Retire(w) ==
  /\ Idle(w)
  /\ ~shut[w]
  /\ instance[w] # NoInst
  /\ instance' = [instance EXCEPT ![w] = NoInst]
  /\ UNCHANGED <<lease, shut>>

(* A worker gets a browser that no other worker has. *)
Revive(w) ==
  /\ instance[w] = NoInst
  /\ ~shut[w]
  /\ \E i \in Inst :
       /\ \A v \in Workers : instance[v] # i
       /\ instance' = [instance EXCEPT ![w] = i]
  /\ UNCHANGED <<lease, shut>>

(* A worker is shut down.  Requests that hold its tabs keep the browser. *)
Shut(w) ==
  /\ ~shut[w]
  /\ shut' = [shut EXCEPT ![w] = TRUE]
  /\ instance' = IF Idle(w) THEN [instance EXCEPT ![w] = NoInst] ELSE instance
  /\ UNCHANGED lease

LeaseNext ==
  \E w \in Workers :
    \/ \E j \in Jobs : Acquire(j, w) \/ GiveBackTab(j, w)
    \/ Retire(w) \/ Revive(w) \/ Shut(w)

LeaseSpec == LeaseInit /\ [][LeaseNext]_leaseVars

=============================================================================
