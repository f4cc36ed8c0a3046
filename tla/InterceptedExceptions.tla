----------------------- MODULE InterceptedExceptions -----------------------
(***************************************************************************)
(* What a user of CPPTRACE_TRY and CPPTRACE_CATCH is promised, without the *)
(* stack, the two phases or the switch: the origin of the last exception   *)
(* intercepted, and the place it was last rethrown from.                   *)
(***************************************************************************)
CONSTANTS Exceptions, None
VARIABLES origin, rethrown
vars == <<origin, rethrown>>

Init == origin = None /\ rethrown = None

\* A throw is intercepted: a new origin, and no rethrow of it yet.
Throw(e, kind) ==
  /\ origin' = [exc |-> e, kind |-> kind]
  /\ rethrown' = None

\* cpptrace::rethrow is intercepted: the origin is preserved.
Rethrow(e) ==
  /\ rethrown' = [exc |-> e, kind |-> "rethrow"]
  /\ UNCHANGED origin

\* A trace is dropped: cleared by the user, or it could not be resolved.
Forget ==
  /\ origin' \in {origin, None}
  /\ rethrown' \in {rethrown, None}

Next ==
  \/ \E e \in Exceptions : Throw(e, "throw") \/ Throw(e, "again") \/ Rethrow(e)
  \/ Forget

Spec == Init /\ [][Next]_vars
=============================================================================
