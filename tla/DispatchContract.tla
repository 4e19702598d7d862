-------------------------- MODULE DispatchContract --------------------------
(***************************************************************************)
(* What dispatch_alert promises its caller (notifiers.py, docstring of     *)
(* dispatch_alert): True only if a channel accepted the alert, so that a   *)
(* human will see it; False whenever the caller has to arrange a retry;    *)
(* and an answer every time.  AlertLifecycle's Dispatch is one such call;  *)
(* Notifiers implements it.                                                *)
(***************************************************************************)
CONSTANT Caller                \* the coroutines that dispatch alerts

VARIABLES
    call,      \* each caller's current call: not made, open, or its answer
    reached    \* the callers whose open call's alert some channel accepted

Answer == {"delivered", "undelivered"}

Init ==
    /\ call = [k \in Caller |-> "none"]
    /\ reached = {}

Call(k) ==
    /\ call[k] # "open"
    /\ call' = [call EXCEPT ![k] = "open"]
    /\ UNCHANGED reached

\* No channel is configured: the answer is known at once.
Refuse(k) ==
    /\ call[k] # "open"
    /\ call' = [call EXCEPT ![k] = "undelivered"]
    /\ UNCHANGED reached

Reach(k) ==
    /\ call[k] = "open"
    /\ k \notin reached
    /\ reached' = reached \union {k}
    /\ UNCHANGED call

\* A channel may have accepted the alert and its answer been lost: False may
\* be wrong about that, True never is.
Return(k) ==
    /\ call[k] = "open"
    /\ \E answer \in Answer :
          /\ answer = "delivered" => k \in reached
          /\ call' = [call EXCEPT ![k] = answer]
    /\ reached' = reached \ {k}

\* The run is over: all that is left of it is what was written down.
Restart ==
    /\ \A k \in Caller : call[k] # "open"
    /\ call' = [k \in Caller |-> "none"]
    /\ UNCHANGED reached

Next == Restart \/ \E k \in Caller : Call(k) \/ Refuse(k) \/ Reach(k) \/ Return(k)

Spec == Init /\ [][Next]_<<call, reached>>
             /\ \A k \in Caller : WF_<<call, reached>>(Return(k))

=============================================================================
