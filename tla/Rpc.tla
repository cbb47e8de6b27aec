-------------------------------- MODULE Rpc ---------------------------------
(***************************************************************************)
(* What a remote procedure call over an unreliable connection promises its *)
(* caller, for calls that read and calls that write orders.  The caller    *)
(* may repeat a call that ended "retryable"; it has to reconcile one that  *)
(* ended "unknown".                                                        *)
(***************************************************************************)
CONSTANTS
  Reads,   \* calls without effect on an order
  Writes   \* calls that place, cancel or modify an order

VARIABLES
  call,    \* where each call stands, as its caller sees it
  effect   \* the calls the exchange has executed

vars == <<call, effect>>

Calls == Reads \union Writes

Outcomes == {"ok", "error", "refused", "retryable", "unknown"}
Statuses == {"new", "running"} \union Outcomes

Init ==
  /\ call = [c \in Calls |-> "new"]
  /\ effect = {}

\* What call c may have come to, given what has been executed.
MayEnd(c, outcome) ==
  CASE outcome = "ok" -> c \in effect
    [] outcome = "unknown" -> c \in Writes
    [] outcome = "retryable" -> c \in Reads \/ c \notin effect
    [] OTHER -> c \notin effect

\* Any number of calls begin or end at once: a lost connection ends them all.
\* A call that has ended never changes its outcome.
Progress ==
  /\ call' \in [Calls -> Statuses]
  /\ \A c \in Calls :
       \/ call'[c] = call[c]
       \/ call[c] = "new" /\ call'[c] \in {"running", "refused"}
       \/ call[c] = "running" /\ call'[c] \in Outcomes /\ MayEnd(c, call'[c])
  /\ UNCHANGED effect

\* A frame is executed once at most, perhaps after its call has ended, but
\* not after an outcome that told the caller it had no effect.
Execute(c) ==
  /\ c \notin effect
  /\ \/ call[c] \in {"running", "unknown"}
     \/ call[c] = "retryable" /\ c \in Reads
  /\ effect' = effect \union {c}
  /\ UNCHANGED call

Next == Progress \/ \E c \in Calls : Execute(c)

Spec == Init /\ [][Next]_vars

\* Every call ends: a caller never waits for ever.
EveryCallEnds == \A c \in Calls : call[c] = "running" ~> call[c] \in Outcomes
=============================================================================
