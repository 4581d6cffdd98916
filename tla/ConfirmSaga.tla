------------------------------ MODULE ConfirmSaga ------------------------------
(***************************************************************************)
(* ConfirmOrderUseCase and OrderSagaOrchestrator: confirmation as a saga   *)
(* whose progress is kept in saga_instances.                               *)
(***************************************************************************)
EXTENDS EventPublisher

ReceiveConfirm(r, o, k) ==
    Receive(r, [NoRequest EXCEPT !.op = "confirm", !.order = o, !.key = k],
            IF k = Nil THEN "load" ELSE "idem_get", "customer")

(***************************************************************************)
(* The saga row.  stage says which record is written next, and the record  *)
(* says where the saga goes on.                                            *)
(***************************************************************************)
\* A compensation recorded as a success.
SagaRecord_Optimistic(s) ==
    CASE s = "customer" -> [step |-> "VALIDATE_CUSTOMER", status |-> "RUNNING"]
      [] s = "catalog"  -> [step |-> "VALIDATE_CATALOG", status |-> "RUNNING"]
      [] OTHER          -> [step |-> "PERSIST_CONFIRMED", status |-> "COMPLETED"]

SagaRecord(s) ==
    CASE s = "customer"        -> [step |-> "VALIDATE_CUSTOMER", status |-> "RUNNING"]
      [] s = "customer_failed" -> [step |-> "VALIDATE_CUSTOMER", status |-> "FAILED"]
      [] s = "catalog"         -> [step |-> "VALIDATE_CATALOG", status |-> "RUNNING"]
      [] s = "catalog_failed"  -> [step |-> "VALIDATE_CATALOG", status |-> "COMPENSATED"]
      [] OTHER                 -> [step |-> "PERSIST_CONFIRMED", status |-> "COMPLETED"]

\* A compensation after which the error is not raised again.
AfterSagaSave_NoRaise(s) ==
    CASE s = "customer" -> "validate_customer"
      [] s = "catalog"  -> "prices"
      [] OTHER          -> "send"

\* A failed validation that is tried again until it succeeds.
AfterSagaSave_Retry(s) ==
    CASE s \in {"customer", "customer_failed"} -> "validate_customer"
      [] s \in {"catalog", "catalog_failed"}   -> "prices"
      [] OTHER                                 -> "send"

\* A failed phase ends in compensations.py, after which the error is raised again.
AfterSagaSave(s) ==
    CASE s = "customer" -> "validate_customer"
      [] s = "catalog"  -> "prices"
      [] s \in {"customer_failed", "catalog_failed"} -> "done"
      [] OTHER          -> "send"

\* SqlAlchemySagaRepository.save_instance: SELECT by order id ...
SagaSelect(r) ==
    /\ pc[r] = "saga_select"
    /\ sagaRow' = [sagaRow EXCEPT ![r] = saga[req[r].order]]
    /\ Goto(r, "saga_commit")
    /\ UNCHANGED <<dbVars, worldVars, req, orderLocal, pay, stage, tries, prev, boundVars, ghostVars>>

\* ... then an UPDATE of the changed columns of the row found.
WrittenSaga(current, found, record) ==
    IF found = NoSaga THEN record
    ELSE [step   |-> IF record.step # found.step THEN record.step ELSE current.step,
          status |-> IF record.status # found.status THEN record.status ELSE current.status]

\* An INSERT, when none was found, fails if another confirm inserted its row since.
SagaInsertFails(r) == sagaRow[r] = NoSaga /\ saga[req[r].order] # NoSaga

SagaCommit(r) ==
    /\ pc[r] = "saga_commit"
    /\ \/ /\ ~SagaInsertFails(r)
          /\ saga' = [saga EXCEPT ![req[r].order] = WrittenSaga(@, sagaRow[r], SagaRecord(stage[r]))]
          /\ Goto(r, AfterSagaSave(stage[r]))
       \/ /\ SagaInsertFails(r)
          /\ Finish(r, "error")
          /\ UNCHANGED saga
    /\ UNCHANGED <<orders, items, payments, idem, outbox, worldVars, req, orderLocal, pay,
                   flowLocal, boundVars, ghostVars>>

(***************************************************************************)
(* The steps of the saga.  A phase that fails records its compensation and *)
(* then tells the client why.                                              *)
(***************************************************************************)
FailPhase(r, failedStage, kind) ==
    /\ stage' = [stage EXCEPT ![r] = failedStage]
    /\ pc' = [pc EXCEPT ![r] = "saga_select"]
    /\ reply' = [reply EXCEPT ![r] = kind]

\* validate_customer
ValidateCustomer(r) ==
    /\ pc[r] = "validate_customer"
    /\ \/ stage' = [stage EXCEPT ![r] = "catalog"] /\ Goto(r, "saga_select")
       \/ FailPhase(r, "customer_failed", "customer_validation_error")
       \/ Finish(r, "error") /\ UNCHANGED stage
    /\ UNCHANGED <<dbVars, worldVars, req, orderLocal, pay, sagaRow, tries, prev, boundVars, ghostVars>>

ProductsOf(o) == {i.product : i \in o.items}

\* fetch_catalog_prices asks for one product after the other, touching nothing
\* shared in between; persist_confirmed_order then prices the order in memory.
\* An order that cannot be confirmed, or a negative amount (Money raises a
\* ValueError), leaves the saga as it is.
FetchPrices(r) ==
    /\ pc[r] = "prices"
    /\ \/ \E prices \in [ProductsOf(ord[r]) -> Prices] :
             LET confirmed == ConfirmWithPrices(NextVersion(ord[r]), prices)
                 valid     == (\A p \in DOMAIN prices : prices[p] \in Nat) /\ confirmed.total \in Nat
             IN  \/ /\ CanConfirm(ord[r]) /\ valid
                    /\ ord' = [ord EXCEPT ![r] = confirmed]
                    /\ stage' = [stage EXCEPT ![r] = "persisted"]
                    /\ Goto(r, "select")
                 \/ CanConfirm(ord[r]) /\ ~valid /\ Finish(r, "error") /\ UNCHANGED <<ord, stage>>
                 \/ ~CanConfirm(ord[r]) /\ Finish(r, "invalid_order_state") /\ UNCHANGED <<ord, stage>>
       \/ ord[r].items # {} /\ FailPhase(r, "catalog_failed", "catalog_validation_error") /\ UNCHANGED ord
       \/ ord[r].items # {} /\ Finish(r, "error") /\ UNCHANGED <<ord, stage>>
    /\ UNCHANGED <<dbVars, worldVars, req, base, cached, pay, sagaRow, tries, prev, boundVars, ghostVars>>
================================================================================
