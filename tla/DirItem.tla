-------------------------------- MODULE DirItem ------------------------------
(****************************************************************************)
(* A directory's highest access score (core/types.go), raised by goroutines *)
(* without a lock: UpdateFrecencyIfLarger loads it and, if its own score is *)
(* higher, swaps it in unless another goroutine was faster; then it starts  *)
(* over.                                                                    *)
(****************************************************************************)
EXTENDS Integers, Sequences, SequencesExt

CONSTANTS Raisers,    \* the goroutines
          Scores,
          MaxRaises   \* bound: updates by one goroutine

ASSUME ScoresAssumption == Scores \subseteq Int /\ MaxRaises \in Nat

VARIABLES
  maxAccessFrecency,   \* DirItem.MaxAccessFrecency
  stage,               \* stage[g]: where goroutine g is
  offer,               \* offer[g]: its argument
  loaded,              \* loaded[g]: what it has loaded
  raised               \* raised[g]: the arguments of its calls that returned

dirVars == <<maxAccessFrecency, stage, offer, loaded, raised>>

DirInit ==
  /\ maxAccessFrecency = 0
  /\ stage = [g \in Raisers |-> "idle"]
  /\ offer = [g \in Raisers |-> 0] /\ loaded = [g \in Raisers |-> 0]
  /\ raised = [g \in Raisers |-> <<>>]

At(g, here, there) == stage[g] = here /\ stage' = [stage EXCEPT ![g] = there]
Finish(g) == raised' = [raised EXCEPT ![g] = Append(@, offer[g])]

UpdateFrecencyIfLarger(g, v) ==
  /\ Len(raised[g]) < MaxRaises
  /\ At(g, "idle", "load")
  /\ offer' = [offer EXCEPT ![g] = v]
  /\ UNCHANGED <<maxAccessFrecency, loaded, raised>>

Load(g) ==
  /\ loaded' = [loaded EXCEPT ![g] = maxAccessFrecency]
  /\ IF offer[g] <= maxAccessFrecency THEN At(g, "load", "idle") /\ Finish(g)
     ELSE At(g, "load", "swap") /\ UNCHANGED raised
  /\ UNCHANGED <<maxAccessFrecency, offer>>

\* Slip: the score is stored whatever came in between.
SwapAlways(g) ==
  /\ At(g, "swap", "idle") /\ Finish(g)
  /\ maxAccessFrecency' = offer[g]
  /\ UNCHANGED <<offer, loaded>>

CompareAndSwap(g) ==
  /\ IF maxAccessFrecency = loaded[g]
     THEN At(g, "swap", "idle") /\ Finish(g) /\ maxAccessFrecency' = offer[g]
     ELSE At(g, "swap", "load") /\ UNCHANGED <<maxAccessFrecency, raised>>
  /\ UNCHANGED <<offer, loaded>>

DirNext == \E g \in Raisers : \/ Load(g) \/ CompareAndSwap(g)
                              \/ \E v \in Scores : UpdateFrecencyIfLarger(g, v)

DirSpec == DirInit /\ [][DirNext]_dirVars

------------------------------------------------------------------------------
\* No update is lost: the maximum is at least every score whose call has
\* returned, and it is one that was offered or the zero it started with.
Highest ==
  /\ \A g \in Raisers : \A i \in DOMAIN raised[g] : raised[g][i] <= maxAccessFrecency
  /\ maxAccessFrecency \in {0} \cup {offer[g] : g \in Raisers} \cup UNION {Range(raised[g]) : g \in Raisers}
==============================================================================
