--------------------------- MODULE IdempotencyStore ---------------------------
(***************************************************************************)
(* SqlAlchemyIdempotencyStore: a lookup at the start of confirm, initiate  *)
(* and callback, and an INSERT as their very last step, in a transaction   *)
(* of its own.                                                             *)
(***************************************************************************)
EXTENDS OrderStore

Recorded(r) == {k \in idem : k.key = req[r].key /\ k.op = req[r].op}

\* A key that is recorded before the work is done.
AfterLookup_SaveFirst(r) == "idem_save"

\* Where a keyed handler goes when its lookup does not end it.
AfterLookup(r) == IF req[r].op = "callback" THEN "pay_load" ELSE "load"

\* A hit with the same hash: confirm and callback answer with the current order
\* or payment; initiate only compared the hash and goes on.
StageOnHit(r) == IF req[r].op = "initiate" THEN stage[r] ELSE "replay"

IdemGet(r) ==
    /\ pc[r] = "idem_get"
    /\ \/ /\ Recorded(r) = {}
          /\ Goto(r, AfterLookup(r))
          /\ UNCHANGED stage
       \/ /\ \E k \in Recorded(r) : k.hash = RequestHash(r)
          /\ stage' = [stage EXCEPT ![r] = StageOnHit(r)]
          /\ Goto(r, AfterLookup(r))
       \/ /\ \E k \in Recorded(r) : k.hash # RequestHash(r)
          /\ Finish(r, "idempotency_conflict")
          /\ UNCHANGED stage
    /\ UNCHANGED <<dbVars, worldVars, req, orderLocal, pay, sagaRow, tries, prev, boundVars, ghostVars>>

\* (key, operation) is unique: the loser of a race gets an IntegrityError.
IdemSave(r) ==
    /\ pc[r] = "idem_save"
    /\ \/ /\ Recorded(r) = {}
          /\ idem' = idem \cup {[key |-> req[r].key, op |-> req[r].op, hash |-> RequestHash(r)]}
          /\ Finish(r, "ok")
       \/ /\ Recorded(r) # {}
          /\ Finish(r, "error")
          /\ UNCHANGED idem
    /\ UNCHANGED <<orders, items, payments, saga, outbox, worldVars, req, orderLocal, pay,
                   flowLocal, boundVars, ghostVars>>

\* The handler is over, but for the key when the client sent one.
Conclude(r) ==
    IF req[r].key = Nil THEN "done" ELSE "idem_save"
================================================================================
