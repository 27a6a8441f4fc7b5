----------------------------- MODULE BrokerLedger -----------------------------
(***************************************************************************)
(* The broker's store calls on record.  Broker keeps of the ledger what    *)
(* decides the next step; here two history variables add what a call also  *)
(* leaves behind in its transaction, the attempt rows and the trail of     *)
(* events, and the broker's ledger is shown to be the one of EffectLedger, *)
(* which the stores implement.  They restrict no step: Recorded defines    *)
(* them for whatever a step of Broker does.                                *)
(***************************************************************************)
EXTENDS Broker

CONSTANT NoRow      \* no row of that effect

ASSUME NoRowAssumption ==
    NoRow \notin [key : Ids, digest : Contracts, status : EffectStatus,
                  version : Nat, lease : Nat]

VARIABLES
    rows,       \* attempt rows of each effect
    trail       \* events of each effect

history == <<rows, trail>>

\* The row of i.  Its identity is the key; what a reservation pins and no later
\* call changes stands for the request's digest.
RowOf(i) ==
    IF status[i] = "absent" THEN NoRow
    ELSE [key |-> i, digest |-> contract[i], status |-> status[i],
          version |-> version[i], lease |-> lease[i]]

Intents == [i \in Ids |-> RowOf(i)]

Ledger == INSTANCE EffectLedger
              WITH Effects <- Ids, Keys <- Ids, Digests <- Contracts,
                   Times <- 0..MaxTime,
                   intents <- Intents, attempts <- rows, events <- trail

LInit ==
    /\ Init
    /\ rows = [i \in Ids |-> {}]
    /\ trail = [i \in Ids |-> {}]

\* The event that the call on i leaves, if there is one.
EventsOf(i) ==
    LET Append(type, v, data) ==
            {[sequence |-> Cardinality(trail[i]) + 1, type |-> type,
              version |-> v, data |-> data]}
    IN  CASE status[i] = "absent" /\ status'[i] # "absent" ->
                 Append("reserved", version'[i], <<status'[i]>>)
          [] status[i] # "absent" /\ status'[i] # status[i] ->
                 Append("transition", version'[i], <<status[i], status'[i]>>)
          [] status'[i] = status[i] /\ version'[i] # version[i] ->
                 Append("claimed", version'[i], <<>>)
          [] /\ status'[i] = status[i] /\ version'[i] = version[i]
             /\ attempts'[i] # attempts[i] ->
                 Append("attempt_started", version[i], <<>>)
          [] OTHER -> {}

Recorded ==
    /\ rows' = [i \in Ids |->
           IF attempts'[i] = attempts[i] THEN rows[i]
           ELSE rows[i] \cup {[ordinal |-> attempts'[i], version |-> version[i]]}]
    /\ trail' = [i \in Ids |-> trail[i] \cup EventsOf(i)]

LNext == Next /\ Recorded

LSpec == LInit /\ [][LNext]_<<vars, history>>

-----------------------------------------------------------------------------
(* Properties *)

\* Every attempt has a DISPATCHING edge to itself: start_attempt is called with
\* the version that edge returned, and no second attempt, of a zombie or of a
\* process that repeats itself, is ever recorded for it.
OwnDispatch ==
    \A i \in Ids : \A r \in rows[i] :
        /\ \E ev \in Ledger!Moves(trail[i]) :
              ev.version = r.version /\ ev.data[2] = "dispatching"
        /\ \A s \in rows[i] : s.version = r.version => s = r

\* "Terminal receipts are immutable": a receipt is the last word on its effect,
\* so there is one at most, and it is true.
ReceiptStands ==
    \A i \in Ids : \A ev \in Ledger!Moves(trail[i]) :
        ev.data[2] = "succeeded" =>
            /\ status[i] = "succeeded" /\ version[i] = ev.version
            /\ count[i] > 0 \/ i \in resolved

\* Every step of workers, reconcilers, API sessions, callers and operators is
\* one call of the abstract store, or none: Broker assumes no more of a store
\* than PostgresStore is shown to give.
IsLedger == Ledger!LedgerSpec
=============================================================================
