--------------------------- MODULE RequestLifecycle ---------------------------
(***************************************************************************)
(* What the request store promises about one row per idempotency key,      *)
(* whatever the worker, the clients, the retention sweep and the crashes   *)
(* do: the row moves only along domain.CanTransition, a result appears     *)
(* exactly when the row completes, at most one callback delivery is        *)
(* enqueued and only for an outcome the worker drove, and only terminal    *)
(* rows are forgotten.                                                     *)
(***************************************************************************)
EXTENDS Domain, Naturals

CONSTANT Keys

VARIABLE life  \* life[k] = [state, result, outbox] of the row with key k

NoLife == [state |-> "absent", result |-> "none", outbox |-> 0]

Init == life = [k \in Keys |-> NoLife]

(* A row is accepted. *)
Accept(k) ==
    /\ life[k].state = "absent"
    /\ life'[k] = [state |-> "queued", result |-> "none", outbox |-> 0]

(* A row moves to another state; completing it stores its result. *)
Move(k) ==
    /\ CanTransition(life[k].state, life'[k].state)
    /\ life'[k].result = IF life'[k].state = "completed" THEN "stored" ELSE life[k].result
    /\ life'[k].outbox = life[k].outbox

(* The outcome of a row is pushed, once. *)
Push(k) ==
    /\ life[k].state \in {"completed", "failed"}
    /\ life[k].outbox = 0
    /\ life'[k] = [state |-> life[k].state, result |-> life[k].result, outbox |-> 1]

(* Retention: the result of a row first, the row itself later or with it. *)
ExpireResult(k) ==
    /\ life[k].result = "stored"
    /\ life'[k] = [state |-> life[k].state, result |-> "purged", outbox |-> life[k].outbox]

Forget(k) ==
    /\ Terminal(life[k].state)
    /\ life'[k] = NoLife

(* One transaction may touch several rows (Recover, Purge). *)
Next ==
    \A k \in Keys :
        \/ life'[k] = life[k]
        \/ Accept(k) \/ Move(k) \/ Push(k) \/ ExpireResult(k) \/ Forget(k)

Spec == Init /\ [][Next]_life
===============================================================================
