-------------------------------- MODULE Domain --------------------------------
(***************************************************************************)
(* The life of a location request as internal/domain/request.go declares   *)
(* it: the states of a row of location_requests and the transitions        *)
(* between them; and the errors of the network clients as handleError      *)
(* (internal/orchestrator) tells them apart.                               *)
(***************************************************************************)

TerminalStates == {"completed", "failed", "cancelled", "expired", "indeterminate"}

States == {"queued", "resolving", "locating"} \cup TerminalStates

(* The states a row is in while the worker holds it. *)
InFlight == {"resolving", "locating"}

(* State.Terminal *)
Terminal(s) == s \in TerminalStates

(* domain.CanTransition *)
CanTransition(from, to) ==
    /\ from # to
    /\ ~Terminal(from)
    /\ \/ /\ from = "queued"
          /\ to \in {"resolving", "cancelled", "expired", "failed", "indeterminate"}
       \/ /\ from = "resolving"
          /\ to \in {"locating", "queued", "cancelled", "expired", "failed", "indeterminate"}
       \/ /\ from = "locating"
          /\ to \in {"completed", "queued", "cancelled", "expired", "failed", "indeterminate"}

(* What errors.Is sees.  The SLh resolver turns its own timeout into       *)
(* slh.ErrTimeout, so a deadline reaches handleError only from SLg.        *)
Transient == {"ErrUnavailable", "ErrConnectionLost", "DeadlineExceeded"}

ResolverErrors == {"ErrUnavailable", "ErrConnectionLost", "permanent"}

ProviderErrors == ResolverErrors \cup {"DeadlineExceeded"}
===============================================================================
