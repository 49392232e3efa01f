------------------------------- MODULE Runner -------------------------------
(***************************************************************************)
(* What callers rely on in a Start method that is given a context: it      *)
(* blocks, it returns nil only after the context was cancelled, it may     *)
(* return an error at any time, and after a cancellation it returns.       *)
(* core.App.Start and p2p.Node.Start are shown to implement it.            *)
(***************************************************************************)
VARIABLES cancelled, state

runnerVars == <<cancelled, state>>

RunnerInit == cancelled = FALSE /\ state = "blocked"

CancelContext == ~cancelled /\ cancelled' = TRUE /\ UNCHANGED state
ReturnNil == state = "blocked" /\ cancelled /\ state' = "nil" /\ UNCHANGED cancelled
ReturnError == state = "blocked" /\ state' = "error" /\ UNCHANGED cancelled

\* Start is called once more: by the next process, when one has ended.
StartAgain == cancelled' = FALSE /\ state' = "blocked"

RunnerNext == CancelContext \/ ReturnNil \/ ReturnError \/ StartAgain

\* What a Start method may do; what it must do in the end is added below.
RunnerSteps == RunnerInit /\ [][RunnerNext]_runnerVars

\* The context is cancelled by someone else: no fairness for CancelContext.
RunnerSpec == RunnerSteps /\ []<>(~cancelled \/ state # "blocked")
=============================================================================
