--------------------------- MODULE ChatCompletion ---------------------------
(***************************************************************************)
(* What a caller of OpenRouterClient.chat_completion may rely on, whatever *)
(* the network does: calls are served one at a time on the client, each    *)
(* call sends between one and Budget requests, and each call ends in       *)
(* exactly one outcome (a response, or one exception).  RetryClient is the *)
(* implementation; BenchRun uses this promise and nothing else about the   *)
(* client.                                                                 *)
(***************************************************************************)
EXTENDS Naturals, Sequences

CONSTANTS Budget,     \* the largest number of requests of one call
          Results     \* the outcomes a call can have

VARIABLES busy,       \* a call is in flight
          tries,      \* requests the current (or the last) call has sent
          outcomes,   \* one outcome per finished call, in call order
          closed      \* aclose() has run

vars == <<busy, tries, outcomes, closed>>

Init == /\ busy = FALSE
        /\ tries = 0
        /\ outcomes = <<>>
        /\ closed = FALSE

Begin == /\ ~busy
         /\ ~closed
         /\ busy' = TRUE
         /\ tries' = 1
         /\ UNCHANGED <<outcomes, closed>>

TryAgain == /\ busy
            /\ tries < Budget
            /\ tries' = tries + 1
            /\ UNCHANGED <<busy, outcomes, closed>>

Finish == /\ busy
          /\ busy' = FALSE
          /\ \E r \in Results : outcomes' = Append(outcomes, r)
          /\ UNCHANGED <<tries, closed>>

Close == /\ ~busy
         /\ ~closed
         /\ closed' = TRUE
         /\ UNCHANGED <<busy, tries, outcomes>>

Next == Begin \/ TryAgain \/ Finish \/ Close

\* The safety part of the promise, and the whole of it: a call does end.
SafeSpec == Init /\ [][Next]_vars
Spec == SafeSpec /\ (busy ~> ~busy)
=============================================================================
