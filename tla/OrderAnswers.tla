------------------------------ MODULE OrderAnswers ------------------------------
(***************************************************************************)
(* problem_details.py beside the service: the HTTP status a client is      *)
(* given, and a history of the tables each request in flight has written,  *)
(* so that an answer can be compared with what the request really did.     *)
(***************************************************************************)
EXTENDS OrderProperties

VARIABLE wrote  \* observer: the tables a request in flight has changed

answerVars == <<vars, wrote>>

\* status_map, 201 or 200 for success, and 500 for what nobody maps.
HttpStatus(kind) ==
    CASE kind = "ok" -> 200
      [] kind \in {"order_not_found", "item_not_found", "payment_not_found"} -> 404
      [] kind \in {"customer_validation_error", "catalog_validation_error"} -> 422
      [] kind \in {"invalid_order_state", "active_order_exists",
                   "concurrency_conflict", "idempotency_conflict"} -> 409
      [] kind = "payment_gateway_error" -> 503
      [] OTHER -> 500

IsClientError(kind) == HttpStatus(kind) \in 400 .. 499

Written ==
    {table \in {"orders", "items", "payments", "idem", "saga", "outbox"} :
        CASE table = "orders"   -> orders' # orders
          [] table = "items"    -> items' # items
          [] table = "payments" -> payments' # payments
          [] table = "idem"     -> idem' # idem
          [] table = "saga"     -> saga' # saga
          [] OTHER              -> outbox' # outbox}

\* Every step that writes moves the request that takes it.
NoteWrites ==
    wrote' = [r \in Requests |->
        CASE pc'[r] = "idle"  -> {}
          [] pc'[r] = pc[r]   -> wrote[r]
          [] OTHER            -> wrote[r] \cup Written]

AnswerSpec ==
    /\ Init /\ wrote = [r \in Requests |-> {}]
    /\ [][Next /\ NoteWrites]_answerVars

\* One request at a time, a client that is told it made an error (404, 409 or
\* 422) finds the order, its items, its payment, the keys and the outbox as they
\* were: the handlers make several commits, and no check that ends in such an
\* answer comes after the first of them.  The saga row of a confirm is the
\* exception: it is committed before the checks, so a second confirm sets a
\* COMPLETED saga back to RUNNING and is then answered 409.
ClientErrorLeavesSagaOnly ==
    \A r \in Requests : pc[r] = "done" /\ IsClientError(reply[r]) =>
        wrote[r] \subseteq IF req[r].op = "confirm" THEN {"saga"} ELSE {}

\* A payment that the gateway refused (503) is retried by the client against
\* the tables it found: nothing but the order row was touched, no payment was
\* opened, and no event or key tells of the attempt, though the gateway may hold
\* a charge behind its error.
RefusalOpensNothing ==
    \A r \in Requests : pc[r] = "done" /\ HttpStatus(reply[r]) = 503 => wrote[r] \subseteq {"orders"}
================================================================================
