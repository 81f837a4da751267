------------------------------ MODULE MCLedger ------------------------------
(***************************************************************************)
(* A small ledger for TLC: one user with principal, locked and practice    *)
(* buckets, and the treasury.  Opening principal is 1, so that the second  *)
(* of two locks overdraws unless a deposit comes first.                    *)
(***************************************************************************)
EXTENDS Ledger, TLC

CONSTANTS c1, c2, c3, k1, k2, k3, old

principal == 1
locked == 2
treasury == 3
practice == 4

MCAccount == {principal, locked, treasury, practice}

Line(type, from, to, debit, credit) ==
    [type |-> type,
     line |-> [a \in MCAccount |->
                 CASE a = from -> -debit [] a = to -> credit [] OTHER -> 0]]

DepositOne == Line("deposit_usdt", treasury, principal, 1, 1)
LockOne == Line("participate_lock", principal, locked, 1, 1)
Lopsided == Line("admin_adjust", treasury, principal, 1, 2)
LockPractice == Line("participate_lock", practice, locked, 1, 1)

MCJournalType == {"deposit_usdt", "participate_lock", "participate_unlock", "admin_adjust"}
MCPracticeForbidden == MCJournalType \ {"admin_adjust"}
MCOpening == [a \in MCAccount |-> IF a = principal THEN 1 ELSE 0]

MCPayload == {DepositOne, LockOne, Lopsided, LockPractice}
PlainPayload == {DepositOne, LockOne}

CallerSymmetry == Permutations(Caller)

\* An action constraint, where symmetry is unsound.  Callers do not differ and a call that
\* has only begun may wait, so the n-th call is the n-th caller's; keys do not differ, so the
\* n-th call takes one of the first n, the last also the legacy key.  The first is a deposit,
\* the others are locks.
InTurn ==
    calls' > calls =>
        LET c == <<c1, c2, c3>>[calls'] IN
        /\ pc'[c] # "idle"
        /\ call'[c].key \in CASE c = c1 -> {k1} [] c = c2 -> {k1, k2} [] c = c3 -> Key
        /\ call'[c].payload = IF c = c1 THEN DepositOne ELSE LockOne

=============================================================================
