---------------------------- MODULE EventPublisher ----------------------------
(***************************************************************************)
(* OutboxEventPublisher.publish, called after the order (or payment) has   *)
(* been committed: the message is sent to SQS, an exception of the send is *)
(* swallowed, and the outbox row is committed afterwards in a transaction  *)
(* of its own.  Nothing reads the table again.                             *)
(***************************************************************************)
EXTENDS IdempotencyStore

\* Confirm and callback notify the customer next; initiate records its key.
AfterPublish(r) ==
    CASE req[r].op \in {"confirm", "callback"} -> "notify"
      [] req[r].op = "initiate"                -> Conclude(r)
      [] OTHER                                 -> "done"

\* A failed send that leaves no outbox row.
Send_OrForget(r) ==
    /\ pc[r] = "send"
    /\ \/ /\ queue' = Bump(queue, r)
          /\ stage' = [stage EXCEPT ![r] = "sent"]
          /\ Goto(r, "outbox_commit")
       \/ /\ stage' = [stage EXCEPT ![r] = "unsent"]
          /\ UNCHANGED queue
          /\ Goto(r, AfterPublish(r))
    /\ UNCHANGED <<dbVars, charges, req, orderLocal, pay, sagaRow, tries, prev, boundVars, ghostVars>>

\* SqsEventPublisher.publish: the message is in the queue, or it is not and the
\* send raised, or it is and only the answer was lost.  Repetitions inside boto3
\* or SQS count as one message.  send_message blocks the event loop, so within
\* one process only a crash comes between this step and the next.
Send(r) ==
    /\ pc[r] = "send"
    /\ \/ /\ queue' = Bump(queue, r)
          /\ \E outcome \in {"sent", "unsent"} : stage' = [stage EXCEPT ![r] = outcome]
       \/ /\ stage' = [stage EXCEPT ![r] = "unsent"]
          /\ UNCHANGED queue
    /\ Goto(r, "outbox_commit")
    /\ UNCHANGED <<dbVars, charges, req, orderLocal, pay, sagaRow, tries, prev, boundVars, ghostVars>>

OutboxCommit(r) ==
    /\ pc[r] = "outbox_commit"
    /\ outbox' = outbox \cup {[order |-> req[r].order, type |-> EventOf(r), published |-> stage[r] = "sent"]}
    /\ Goto(r, AfterPublish(r))
    /\ UNCHANGED <<orders, items, payments, idem, saga, worldVars, req, orderLocal, pay,
                   flowLocal, boundVars, ghostVars>>

\* HttpNotificationGateway: any answer will do, an exception is not handled.
Notify(r) ==
    /\ pc[r] = "notify"
    /\ \/ Goto(r, Conclude(r))
       \/ Finish(r, "error")
    /\ UNCHANGED <<dbVars, worldVars, req, orderLocal, pay, flowLocal, boundVars, ghostVars>>
================================================================================
