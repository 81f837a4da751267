---------------------------- MODULE LedgerAtomic ----------------------------
(***************************************************************************)
(* What the ledger promises its callers: a journal is posted under its key *)
(* at most once, in one step, with its effect on every balance and with    *)
(* the outbox row that announces it; an announced row was delivered first. *)
(* No caller, lock, read or retry appears here.                            *)
(***************************************************************************)
EXTENDS JournalPayload

VARIABLES
    journal,    \* ledger_journals by idempotency key, with their entries
    balance,    \* ledger_accounts.balance_usdt
    outbox,     \* keys whose journal has a ledger_outbox_events row
    delivered,  \* outbox rows emitted on the in-process bus at least once
    published   \* outbox rows with published_at set

vars == <<journal, balance, outbox, delivered, published>>

Init ==
    /\ journal = InitialJournal
    /\ balance = Opening
    /\ outbox = {}
    /\ delivered = {}
    /\ published = {}

\* A well-formed payload that overdraws no user bucket becomes the journal of a fresh key.
Post(k, p) ==
    /\ journal[k] = NoJournal
    /\ Wellformed(p)
    /\ \A a \in Touched(p) \cap UserBucket : balance[a] + Effect(p, a) >= 0
    /\ journal' = [journal EXCEPT ![k] = p]
    /\ balance' = [a \in Account |->
                     IF a \in Touched(p) THEN balance[a] + Effect(p, a) ELSE balance[a]]
    /\ outbox' = outbox \cup {k}
    /\ UNCHANGED <<delivered, published>>

\* Delivery is at least once: a row may be emitted again.
Deliver(k) ==
    /\ k \in outbox
    /\ delivered' = delivered \cup {k}
    /\ UNCHANGED <<journal, balance, outbox, published>>

Publish(k) ==
    /\ k \in delivered
    /\ published' = published \cup {k}
    /\ UNCHANGED <<journal, balance, outbox, delivered>>

Next ==
    \E k \in Key :
        \/ \E p \in Payload : Post(k, p)
        \/ Deliver(k)
        \/ Publish(k)

Spec == Init /\ [][Next]_vars

=============================================================================
