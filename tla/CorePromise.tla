----------------------------- MODULE CorePromise -----------------------------
(***************************************************************************)
(* What core::manager promises to those who only look at the Running Mode  *)
(* and at Core readiness (the frontend, the system proxy, PAC): one owner  *)
(* runs the Core; it is replaced only by way of NotRunning; and readiness, *)
(* once it is lost, does not come back until the owner has let go.         *)
(***************************************************************************)

VARIABLES
  owner,  \* who runs the Core
  ready   \* whether the Core is known to be ready

vars == <<owner, ready>>

Owners == {"Sidecar", "Service"}

Init == owner = "NotRunning" /\ ready = FALSE

\* A Core is being brought up; it may be known ready before it has an owner.
BecomesReady == owner = "NotRunning" /\ ready' = TRUE /\ UNCHANGED owner

TakesOver ==
  /\ owner = "NotRunning"
  /\ owner' \in Owners
  /\ ready' \in {ready, TRUE}

LosesReadiness == ready' = FALSE /\ UNCHANGED owner

Stops == owner' = "NotRunning" /\ ready' = FALSE

Next == BecomesReady \/ TakesOver \/ LosesReadiness \/ Stops

Spec == Init /\ [][Next]_vars
=============================================================================
