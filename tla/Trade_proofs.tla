---------------------------- MODULE Trade_proofs ----------------------------
(***************************************************************************)
(* The safety properties of Trade, for any trades, capitals, payouts, caps *)
(* and calls.  The inductive invariant adds what a call knows at each of   *)
(* its steps: the post it made before is in the books.  Books only grow,   *)
(* so that stays true whatever other calls do.                             *)
(*                                                                         *)
(* That the posts are ones the ledger accepts rests on the sums the user's *)
(* buckets are: a post moves each sum by one term, which is its line.      *)
(*                                                                         *)
(* SettlementReachesRow is left to TLC: it needs fairness.                 *)
(***************************************************************************)
EXTENDS Trade, SumLemmas

CallsAreBooked ==
    \A c \in Caller :
        /\ pc[c] = "insert" => call[c].trade \in locks
        /\ pc[c] = "settle" => call[c].payout \in Payout
        /\ pc[c] = "succeed" => /\ call[c].payout \in Payout
                                /\ payout[call[c].trade] = call[c].payout
        /\ pc[c] = "stop" => call[c].trade \in unlocks

IInv ==
    /\ TypeOK
    /\ CallsAreBooked
    /\ RowsFollowJournals
    /\ LockReachesTrade

\* What no step undoes: journals, and the outcome of a trade.
BooksGrow ==
    /\ locks \subseteq locks'
    /\ unlocks \subseteq unlocks'
    /\ \A t \in Trade : payout[t] # NoPayout => payout'[t] = payout[t]
OutcomesStand ==
    \A t \in Trade : status[t] \in Terminal =>
        status'[t] = status[t] /\ settled'[t] = settled[t]

Label == {"idle", "check", "lock", "insert", "settle", "succeed", "requeue", "unlock", "stop"}
Memory == [trade : Trade, fresh : BOOLEAN, spends : BOOLEAN, code : Code,
           payout : Payout \cup {NoPayout}, rematch : Nat]

USE TradeAssumption DEF Live, Terminal, NoPayout

-----------------------------------------------------------------------------

LEMMA NoPayoutIsNone == NoPayout \notin Payout
  OBVIOUS

LEMMA IdleType == Idle \in Memory
  <1>1. (CHOOSE t \in Trade : TRUE) \in Trade
    OBVIOUS
  <1> QED
    BY <1>1 DEF Idle, Memory, Code

\* The state before the first call satisfies the invariant.
LEMMA InitIInv ==
  ASSUME Init
  PROVE  IInv
  <1>1. TypeOK
    BY IdleType DEF Init, TypeOK, Memory
  <1>2. CallsAreBooked /\ RowsFollowJournals /\ LockReachesTrade
    BY DEF Init, CallsAreBooked, RowsFollowJournals, LockReachesTrade
  <1> QED
    BY <1>1, <1>2 DEF IInv

(* What is left to show of a step of one call that opens no trade: where   *)
(* it goes is backed by the books, and the rows it writes follow them.     *)
LEMMA Assemble ==
  ASSUME IInv, NEW c \in Caller, NEW label \in Label, NEW what \in Memory,
         pc' = [pc EXCEPT ![c] = label],
         call' = [call EXCEPT ![c] = what],
         BooksGrow,
         TypeOK',
         label = "insert" => what.trade \in locks',
         label = "settle" => what.payout \in Payout,
         label = "succeed" => what.payout \in Payout /\ payout'[what.trade] = what.payout,
         label = "stop" => what.trade \in unlocks'
  PROVE  CallsAreBooked'
  <1> SUFFICES ASSUME NEW d \in Caller
               PROVE  /\ pc'[d] = "insert" => call'[d].trade \in locks'
                      /\ pc'[d] = "settle" => call'[d].payout \in Payout
                      /\ pc'[d] = "succeed" => /\ call'[d].payout \in Payout
                                               /\ payout'[call'[d].trade] = call'[d].payout
                      /\ pc'[d] = "stop" => call'[d].trade \in unlocks'
    BY DEF CallsAreBooked
  <1> USE DEF IInv, TypeOK
  <1>1. CASE d = c
    BY <1>1
  <1>2. CASE d # c
    <2>1. pc'[d] = pc[d] /\ call'[d] = call[d] /\ call[d].trade \in Trade
      BY <1>2
    <2> QED
      BY <2>1 DEF CallsAreBooked, BooksGrow
  <1> QED
    BY <1>1, <1>2

(* A step of one call that writes neither row nor journal.                 *)
LEMMA QuietStep ==
  ASSUME IInv, NEW c \in Caller, NEW label \in Label, NEW what \in Memory,
         pc' = [pc EXCEPT ![c] = label],
         call' = [call EXCEPT ![c] = what],
         UNCHANGED <<status, rematch, settled, overdue, locks, unlocks, payout, bonusUsed>>,
         calls' \in 0..MaxCalls, faults' \in 0..MaxFaults, faults' >= faults,
         label \notin {"insert", "succeed", "stop"},
         label = "settle" => what.payout \in Payout,
         pc[c] = "insert" => faults' > 0
  PROVE  IInv' /\ OutcomesStand
  <1>1. BooksGrow /\ OutcomesStand
    BY DEF BooksGrow, OutcomesStand
  <1>2. TypeOK'
    BY DEF IInv, TypeOK, Label, Memory
  <1>3. CallsAreBooked'
    BY <1>1, <1>2, Assemble
  <1>4. RowsFollowJournals'
    BY DEF IInv, RowsFollowJournals
  <1>5. LockReachesTrade'
    <2> SUFFICES ASSUME NEW t \in locks \ Accepted,
                        faults' = 0, bonusUsed # Bonus
                 PROVE  \E d \in Caller : pc'[d] = "insert" /\ call'[d].trade = t
      BY DEF LockReachesTrade, Accepted, IInv, TypeOK
    <2>1. faults = 0
      BY DEF IInv, TypeOK
    <2>2. PICK d \in Caller : pc[d] = "insert" /\ call[d].trade = t
      BY <2>1 DEF IInv, LockReachesTrade
    <2>3. d # c
      BY <2>2
    <2> QED
      BY <2>2, <2>3 DEF IInv, TypeOK
  <1> QED
    BY <1>1, <1>2, <1>3, <1>4, <1>5 DEF IInv

\* A call that ends, with nothing written.
LEMMA FinishStep ==
  ASSUME IInv, NEW c \in Caller, Finish(c),
         UNCHANGED <<status, rematch, settled, overdue, locks, unlocks, payout, bonusUsed>>,
         calls' \in 0..MaxCalls, faults' \in 0..MaxFaults, faults' >= faults,
         pc[c] = "insert" => faults' > 0
  PROVE  IInv' /\ OutcomesStand
  <1>1. "idle" \in Label
    BY DEF Label
  <1> QED
    BY <1>1, IdleType, QuietStep DEF Finish, Goto

\* A call that starts.
LEMMA StartStep ==
  ASSUME IInv, NEW c \in Caller, NEW label \in Label, NEW what \in Memory,
         Start(c, label, what),
         label \notin {"insert", "succeed", "stop"},
         label = "settle" => what.payout \in Payout
  PROVE  IInv' /\ OutcomesStand
  <1>1. calls' \in 0..MaxCalls /\ faults' \in 0..MaxFaults /\ faults' >= faults
    BY DEF Start, IInv, TypeOK
  <1> QED
    BY <1>1, QuietStep DEF Start, Goto, trades, journals

-----------------------------------------------------------------------------
(* participate *)

LEMMA ParticipateStep ==
  ASSUME IInv, NEW c \in Caller, NEW t \in Trade, Participate(c, t)
  PROVE  IInv' /\ OutcomesStand
  <1> DEFINE what == [Idle EXCEPT !.trade = t]
  <1>1. what \in Memory
    BY IdleType DEF Memory
  <1>2. "check" \in Label /\ Start(c, "check", what)
    BY DEF Label, Participate
  <1> HIDE DEF what
  <1> QED
    BY <1>1, <1>2, StartStep

LEMMA RefuseStep ==
  ASSUME IInv, NEW c \in Caller, Refuse(c)
  PROVE  IInv' /\ OutcomesStand
  <1>1. calls' \in 0..MaxCalls /\ faults' \in 0..MaxFaults /\ faults' >= faults
    BY DEF Refuse, counters, IInv, TypeOK
  <1> QED
    BY <1>1, FinishStep DEF Refuse, trades, journals

LEMMA AdmitStep ==
  ASSUME IInv, NEW c \in Caller, Admit(c)
  PROVE  IInv' /\ OutcomesStand
  <1> DEFINE what == [call[c] EXCEPT !.spends = Cardinality(Accepted) >= DailyCap]
  <1>1. call[c] \in Memory
    BY DEF IInv, TypeOK, Memory
  <1>2. what \in Memory
    <2>1. (Cardinality(Accepted) >= DailyCap) \in BOOLEAN
      OBVIOUS
    <2> QED
      BY <1>1, <2>1 DEF Memory
  <1>3. call' = [call EXCEPT ![c] = what]
    BY DEF Admit
  <1>4. calls' \in 0..MaxCalls /\ faults' \in 0..MaxFaults /\ faults' >= faults
    BY DEF Admit, counters, IInv, TypeOK
  <1>5. "lock" \in Label
    BY DEF Label
  <1> HIDE DEF what
  <1> QED
    BY <1>2, <1>3, <1>4, <1>5, QuietStep DEF Admit, Goto, trades, journals

LEMMA PostLockStep ==
  ASSUME IInv, NEW c \in Caller, PostLock(c)
  PROVE  IInv' /\ OutcomesStand
  <1> DEFINE t == call[c].trade
  <1> USE DEF IInv
  <1>1. /\ t \in Trade
        /\ pc[c] = "lock"
        /\ UNCHANGED <<status, rematch, settled, overdue, unlocks, payout, bonusUsed, calls, faults>>
    BY DEF PostLock, TypeOK, trades, counters
  <1>2. CASE t \in locks \/ Principal >= Capital[t]
    <2> DEFINE what == [call[c] EXCEPT !.fresh = t \notin locks]
    <2>1. /\ locks' = locks \cup {t}
          /\ call' = [call EXCEPT ![c] = what]
          /\ pc' = [pc EXCEPT ![c] = "insert"]
      BY <1>2 DEF PostLock, Goto
    <2>2. what \in Memory /\ what.trade = t /\ "insert" \in Label
      BY DEF Memory, Label, TypeOK
    <2> HIDE DEF what, t
    <2>3. BooksGrow /\ OutcomesStand
      BY <1>1, <2>1 DEF BooksGrow, OutcomesStand
    <2>4. TypeOK'
      BY <1>1, <2>1, <2>2 DEF TypeOK, Memory
    <2>5. CallsAreBooked'
      BY <2>1, <2>2, <2>3, <2>4, Assemble
    <2>6. RowsFollowJournals'
      BY <1>1, <2>1 DEF RowsFollowJournals
    <2>7. LockReachesTrade'
      <3> SUFFICES ASSUME NEW u \in locks' \ Accepted, faults = 0, bonusUsed # Bonus
                   PROVE  \E d \in Caller : pc'[d] = "insert" /\ call'[d].trade = u
        BY <1>1 DEF LockReachesTrade, Accepted, TypeOK
      <3>1. CASE u = t
        BY <2>1, <2>2, <3>1 DEF TypeOK
      <3>2. CASE u # t
        <4>1. PICK d \in Caller : pc[d] = "insert" /\ call[d].trade = u
          BY <2>1, <3>2 DEF LockReachesTrade, TypeOK
        <4>2. d # c
          BY <1>1, <4>1
        <4> QED
          BY <2>1, <4>1, <4>2 DEF TypeOK
      <3> QED
        BY <3>1, <3>2
    <2> QED
      BY <2>3, <2>4, <2>5, <2>6, <2>7
  <1>3. CASE ~(t \in locks \/ Principal >= Capital[t])
    <2>1. locks' = locks /\ Finish(c)
      BY <1>3 DEF PostLock
    <2>2. calls' \in 0..MaxCalls /\ faults' \in 0..MaxFaults /\ faults' >= faults
      BY <1>1 DEF TypeOK
    <2> QED
      BY <1>1, <2>1, <2>2, FinishStep
  <1> QED
    BY <1>2, <1>3

LEMMA OpenTradeStep ==
  ASSUME IInv, NEW c \in Caller, OpenTrade(c)
  PROVE  IInv' /\ OutcomesStand
  <1> DEFINE t == call[c].trade
  <1> USE DEF IInv
  <1>1. /\ t \in Trade
        /\ t \in locks
        /\ pc[c] = "insert"
        /\ pc' = [pc EXCEPT ![c] = "idle"]
        /\ call' = [call EXCEPT ![c] = Idle]
        /\ UNCHANGED <<rematch, settled, overdue, locks, unlocks, payout, calls, faults>>
    BY DEF OpenTrade, Finish, Goto, TypeOK, CallsAreBooked, journals, counters
  <1>2. status[t] # "absent" => status' = status /\ bonusUsed' = bonusUsed
    BY DEF OpenTrade
  <1>3. /\ \/ status' = status
           \/ status[t] = "absent" /\ status' = [status EXCEPT ![t] = "running"]
        /\ bonusUsed' \in 0..Bonus /\ bonusUsed' >= bonusUsed
        /\ status'[t] # "absent" \/ bonusUsed' = Bonus
    <2> DEFINE full == Consumes(c) /\ bonusUsed = Bonus
    <2>1. IF status[t] # "absent" \/ full
            THEN UNCHANGED <<status, bonusUsed>>
            ELSE /\ status' = [status EXCEPT ![t] = "running"]
                 /\ bonusUsed' = IF Consumes(c) THEN bonusUsed + 1 ELSE bonusUsed
      BY DEF OpenTrade
    <2>2. bonusUsed \in 0..Bonus /\ status \in [Trade -> {"absent"} \cup Live \cup Terminal]
      BY DEF TypeOK
    <2> HIDE DEF t
    <2> QED
      BY <1>1, <2>1, <2>2
  <1> HIDE DEF t
  <1>4. BooksGrow /\ OutcomesStand
    BY <1>1, <1>3 DEF BooksGrow, OutcomesStand, TypeOK
  <1>5. TypeOK'
    BY <1>1, <1>3, IdleType DEF TypeOK, Memory
  <1>6. CallsAreBooked'
    <2>1. "idle" \in Label
      BY DEF Label
    <2> QED
      BY <1>1, <1>4, <1>5, <2>1, IdleType, Assemble
  <1>7. RowsFollowJournals'
    BY <1>1, <1>3 DEF RowsFollowJournals, TypeOK
  <1>8. LockReachesTrade'
    <2> SUFFICES ASSUME NEW u \in locks, status'[u] = "absent", faults = 0, bonusUsed' # Bonus
                 PROVE  \E d \in Caller : pc'[d] = "insert" /\ call'[d].trade = u
      BY <1>1 DEF LockReachesTrade, Accepted, TypeOK
    <2>1. u # t
      BY <1>3
    <2>2. u \in Trade /\ status[u] = "absent" /\ bonusUsed # Bonus
      <3>1. u \in Trade /\ bonusUsed \in 0..Bonus /\ status \in [Trade -> {"absent"} \cup Live \cup Terminal]
        BY DEF TypeOK
      <3>2. status[u] = "absent"
        BY <1>3, <2>1, <3>1
      <3>3. bonusUsed # Bonus
        BY <1>3, <3>1
      <3> QED
        BY <3>1, <3>2, <3>3
    <2>3. PICK d \in Caller : pc[d] = "insert" /\ call[d].trade = u
      BY <2>2 DEF LockReachesTrade, Accepted
    <2>4. d # c
      BY <2>1, <2>3 DEF t
    <2> QED
      BY <1>1, <2>3, <2>4 DEF TypeOK
  <1> QED
    BY <1>4, <1>5, <1>6, <1>7, <1>8

-----------------------------------------------------------------------------
(* executeTick *)

LEMMA AfterVerdictLeads ==
  ASSUME NEW code \in Code
  PROVE  /\ AfterVerdict(code) \in {"settle", "requeue", "unlock"}
         /\ AfterVerdict(code) = "settle" => code = "MATCH_SUCCESS"
  <1>1. CASE code = "MATCH_SUCCESS"
    BY <1>1 DEF AfterVerdict
  <1>2. CASE code = "REQUEUE"
    BY <1>2 DEF AfterVerdict
  <1>3. CASE code \notin {"MATCH_SUCCESS", "REQUEUE"}
    BY <1>3 DEF AfterVerdict
  <1> QED
    BY <1>1, <1>2, <1>3

LEMMA EvaluateStep ==
  ASSUME IInv, NEW c \in Caller, NEW t \in Trade, NEW code \in Code,
         NEW p \in Payout \cup {NoPayout}, Evaluate(c, t, code, p)
  PROVE  IInv' /\ OutcomesStand
  <1> DEFINE count == IF code = "REQUEUE" THEN NextRematch(t) ELSE rematch[t]
             what == [Idle EXCEPT !.trade = t, !.code = code, !.payout = p, !.rematch = count]
  <1>1. count \in Nat
    BY DEF IInv, TypeOK, NextRematch
  <1> HIDE DEF count
  <1>2. what \in Memory /\ what.payout = p
    BY <1>1, IdleType DEF Memory
  <1>3. AfterVerdict(code) \in Label
    BY AfterVerdictLeads DEF Label
  <1>4. Start(c, AfterVerdict(code), what)
    BY DEF Evaluate, count
  <1>5. AfterVerdict(code) = "settle" => p \in Payout
    BY AfterVerdictLeads DEF Evaluate
  <1>6. AfterVerdict(code) \notin {"insert", "succeed", "stop"}
    BY AfterVerdictLeads
  <1> HIDE DEF what
  <1> QED
    BY <1>2, <1>3, <1>4, <1>5, <1>6, StartStep

(* A post of a call that opens no trade: the books grow by one journal of  *)
(* the call's trade, and the call goes on to write the row.                *)
LEMMA PostStep ==
  ASSUME IInv, NEW c \in Caller, NEW label \in {"succeed", "stop"},
         pc[c] # "insert",
         pc' = [pc EXCEPT ![c] = label],
         UNCHANGED <<status, rematch, settled, overdue, locks, bonusUsed, call, calls, faults>>,
         BooksGrow,
         unlocks' \subseteq Trade,
         payout' \in [Trade -> Payout \cup {NoPayout}],
         label = "succeed" => /\ call[c].payout \in Payout
                              /\ payout'[call[c].trade] = call[c].payout,
         label = "stop" => call[c].trade \in unlocks'
  PROVE  IInv' /\ OutcomesStand
  <1> USE DEF IInv
  <1>1. OutcomesStand
    BY DEF OutcomesStand
  <1>2. TypeOK'
    BY DEF TypeOK, Label
  <1>3. call' = [call EXCEPT ![c] = call[c]] /\ call[c] \in Memory /\ label \in Label
    BY DEF TypeOK, Memory, Label
  <1>4. CallsAreBooked'
    BY <1>2, <1>3, Assemble
  <1>5. RowsFollowJournals'
    BY DEF RowsFollowJournals, BooksGrow, TypeOK
  <1>6. LockReachesTrade'
    <2> SUFFICES ASSUME NEW u \in locks \ Accepted, faults = 0, bonusUsed # Bonus
                 PROVE  \E d \in Caller : pc'[d] = "insert" /\ call'[d].trade = u
      BY DEF LockReachesTrade, Accepted, TypeOK
    <2>1. PICK d \in Caller : pc[d] = "insert" /\ call[d].trade = u
      BY DEF LockReachesTrade
    <2> QED
      BY <2>1 DEF TypeOK
  <1> QED
    BY <1>1, <1>2, <1>4, <1>5, <1>6

LEMMA PostSettlementStep ==
  ASSUME IInv, NEW c \in Caller, PostSettlement(c)
  PROVE  IInv' /\ OutcomesStand
  <1> DEFINE t == call[c].trade
             paid == payout[t] = call[c].payout \/ (t \notin Paid /\ Locked >= Capital[t])
  <1>1. /\ t \in Trade
        /\ pc[c] = "settle"
        /\ call[c].payout \in Payout
        /\ UNCHANGED <<status, rematch, settled, overdue, locks, unlocks, bonusUsed, calls, faults>>
    BY DEF PostSettlement, IInv, TypeOK, CallsAreBooked, trades, counters
  <1>2. CASE paid
    <2>1. /\ payout' = [payout EXCEPT ![t] = call[c].payout]
          /\ pc' = [pc EXCEPT ![c] = "succeed"]
          /\ call' = call
      BY <1>2 DEF PostSettlement, Goto
    <2>2. payout[t] \in {NoPayout, call[c].payout}
      BY <1>1, <1>2 DEF Paid
    <2> HIDE DEF t, paid
    <2>3. payout \in [Trade -> Payout \cup {NoPayout}] /\ unlocks \subseteq Trade
      BY DEF IInv, TypeOK
    <2>4. BooksGrow
      BY <1>1, <2>1, <2>2, <2>3 DEF BooksGrow
    <2>5. payout' \in [Trade -> Payout \cup {NoPayout}] /\ payout'[t] = call[c].payout
      BY <1>1, <2>1, <2>3
    <2> QED
      BY <1>1, <2>1, <2>3, <2>4, <2>5, PostStep DEF t
  <1>3. CASE ~paid
    <2>1. payout' = payout /\ Finish(c)
      BY <1>3 DEF PostSettlement
    <2>2. calls' \in 0..MaxCalls /\ faults' \in 0..MaxFaults /\ faults' >= faults
      BY <1>1 DEF IInv, TypeOK
    <2> QED
      BY <1>1, <2>1, <2>2, FinishStep
  <1> QED
    BY <1>2, <1>3

LEMMA PostUnlockStep ==
  ASSUME IInv, NEW c \in Caller, PostUnlock(c)
  PROVE  IInv' /\ OutcomesStand
  <1> DEFINE t == call[c].trade
             fits == t \in unlocks \/ Locked >= Capital[t]
  <1>1. /\ t \in Trade
        /\ pc[c] = "unlock"
        /\ UNCHANGED <<status, rematch, settled, overdue, locks, payout, bonusUsed, calls, faults>>
    BY DEF PostUnlock, IInv, TypeOK, trades, counters
  <1>2. CASE fits
    <2>1. /\ unlocks' = unlocks \cup {t}
          /\ pc' = [pc EXCEPT ![c] = "stop"]
          /\ call' = call
      BY <1>2 DEF PostUnlock, Goto
    <2> HIDE DEF t, fits
    <2>2. BooksGrow
      BY <1>1, <2>1 DEF BooksGrow
    <2>3. unlocks' \subseteq Trade /\ payout' \in [Trade -> Payout \cup {NoPayout}]
      BY <1>1, <2>1 DEF IInv, TypeOK
    <2> QED
      BY <1>1, <2>1, <2>2, <2>3, PostStep DEF t
  <1>3. CASE ~fits
    <2>1. unlocks' = unlocks /\ Finish(c)
      BY <1>3 DEF PostUnlock
    <2>2. calls' \in 0..MaxCalls /\ faults' \in 0..MaxFaults /\ faults' >= faults
      BY <1>1 DEF IInv, TypeOK
    <2> QED
      BY <1>1, <2>1, <2>2, FinishStep
  <1> QED
    BY <1>2, <1>3

(* An UPDATE of the row of a live trade, by a call that then ends: what it *)
(* writes is what the books say.                                           *)
LEMMA RowStep ==
  ASSUME IInv, NEW c \in Caller, NEW t \in Trade,
         NEW new \in Live \cup Terminal, NEW pay \in Payout \cup {NoPayout},
         status[t] \in Live,
         pc[c] # "insert",
         Finish(c),
         UNCHANGED <<overdue, locks, unlocks, payout, bonusUsed, calls, faults>>,
         status' = [status EXCEPT ![t] = new],
         settled' = [settled EXCEPT ![t] = pay],
         rematch' \in [Trade -> Nat],
         new = "success" <=> pay # NoPayout,
         pay \in {NoPayout, payout[t]},
         new \in {"safe_stop", "failed"} => t \in unlocks
  PROVE  IInv' /\ OutcomesStand
  <1> USE DEF IInv
  <1>1. /\ pc' = [pc EXCEPT ![c] = "idle"]
        /\ call' = [call EXCEPT ![c] = Idle]
        /\ "idle" \in Label
    BY DEF Finish, Goto, Label
  <1>2. BooksGrow /\ OutcomesStand
    BY DEF BooksGrow, OutcomesStand, TypeOK
  <1>3. TypeOK'
    BY <1>1, IdleType DEF TypeOK, Memory
  <1>4. CallsAreBooked'
    BY <1>1, <1>2, <1>3, IdleType, Assemble
  <1>5. RowsFollowJournals'
    BY DEF RowsFollowJournals, TypeOK
  <1>6. LockReachesTrade'
    <2> SUFFICES ASSUME NEW u \in locks, status'[u] = "absent", faults = 0, bonusUsed # Bonus
                 PROVE  \E d \in Caller : pc'[d] = "insert" /\ call'[d].trade = u
      BY DEF LockReachesTrade, Accepted, TypeOK
    <2>1. u \in Trade /\ status[u] = "absent"
      BY DEF TypeOK
    <2>2. PICK d \in Caller : pc[d] = "insert" /\ call[d].trade = u
      BY <2>1 DEF LockReachesTrade, Accepted
    <2> QED
      BY <1>1, <2>2 DEF TypeOK
  <1> QED
    BY <1>2, <1>3, <1>4, <1>5, <1>6

\* An UPDATE that found the trade decided: the call ends.
LEMMA NoRowStep ==
  ASSUME IInv, NEW c \in Caller, pc[c] # "insert", Finish(c),
         UNCHANGED <<status, rematch, settled, overdue, locks, unlocks, payout, bonusUsed,
                     calls, faults>>
  PROVE  IInv' /\ OutcomesStand
  <1>1. calls' \in 0..MaxCalls /\ faults' \in 0..MaxFaults /\ faults' >= faults
    BY DEF IInv, TypeOK
  <1> QED
    BY <1>1, FinishStep

LEMMA SucceedStep ==
  ASSUME IInv, NEW c \in Caller, Succeed(c)
  PROVE  IInv' /\ OutcomesStand
  <1> DEFINE t == call[c].trade
             pay == call[c].payout
  <1>1. /\ t \in Trade
        /\ pay \in Payout
        /\ payout[t] = pay
        /\ call[c].rematch \in Nat
        /\ pc[c] # "insert"
        /\ Finish(c)
        /\ UNCHANGED <<overdue, locks, unlocks, payout, bonusUsed, calls, faults>>
    BY DEF Succeed, IInv, TypeOK, CallsAreBooked, journals, counters
  <1>2. CASE status[t] \in Live
    <2>1. /\ status' = [status EXCEPT ![t] = "success"]
          /\ settled' = [settled EXCEPT ![t] = pay]
          /\ rematch' = [rematch EXCEPT ![t] = call[c].rematch]
      BY <1>2 DEF Succeed
    <2> HIDE DEF t, pay
    <2>2. rematch' \in [Trade -> Nat]
      BY <1>1, <2>1 DEF IInv, TypeOK
    <2>3. pay # NoPayout
      BY <1>1
    <2> QED
      BY <1>1, <1>2, <2>1, <2>2, <2>3, RowStep
  <1>3. CASE status[t] \notin Live
    <2>1. UNCHANGED <<status, rematch, settled>>
      BY <1>3 DEF Succeed, trades
    <2> QED
      BY <1>1, <2>1, NoRowStep
  <1> QED
    BY <1>2, <1>3

LEMMA RequeueStep ==
  ASSUME IInv, NEW c \in Caller, Requeue(c)
  PROVE  IInv' /\ OutcomesStand
  <1> DEFINE t == call[c].trade
  <1>1. /\ t \in Trade
        /\ call[c].rematch \in Nat
        /\ pc[c] # "insert"
        /\ Finish(c)
        /\ UNCHANGED <<settled, overdue, locks, unlocks, payout, bonusUsed, calls, faults>>
    BY DEF Requeue, IInv, TypeOK, journals, counters
  <1>2. CASE status[t] \in Live
    <2>1. /\ status' = [status EXCEPT ![t] = "requeue"]
          /\ rematch' = [rematch EXCEPT ![t] = call[c].rematch]
      BY <1>2 DEF Requeue
    <2> HIDE DEF t
    <2>2. rematch' \in [Trade -> Nat]
      BY <1>1, <2>1 DEF IInv, TypeOK
    <2>3. settled[t] = NoPayout
      BY <1>1, <1>2 DEF IInv, RowsFollowJournals
    <2>4. settled' = [settled EXCEPT ![t] = NoPayout]
      BY <1>1, <2>3 DEF IInv, TypeOK
    <2> QED
      BY <1>1, <1>2, <2>1, <2>2, <2>4, RowStep
  <1>3. CASE status[t] \notin Live
    <2>1. UNCHANGED <<status, rematch>>
      BY <1>3 DEF Requeue
    <2> QED
      BY <1>1, <2>1, NoRowStep
  <1> QED
    BY <1>2, <1>3

LEMMA StopStep ==
  ASSUME IInv, NEW c \in Caller, Stop(c)
  PROVE  IInv' /\ OutcomesStand
  <1> DEFINE t == call[c].trade
             new == StoppedStatus(call[c].code)
  <1>1. /\ t \in Trade
        /\ t \in unlocks
        /\ new \in {"safe_stop", "failed"}
        /\ pc[c] # "insert"
        /\ Finish(c)
        /\ UNCHANGED <<rematch, settled, overdue, locks, unlocks, payout, bonusUsed, calls, faults>>
    BY DEF Stop, IInv, TypeOK, CallsAreBooked, StoppedStatus, journals, counters
  <1>2. CASE status[t] \in Live
    <2>1. status' = [status EXCEPT ![t] = new]
      BY <1>2 DEF Stop
    <2> HIDE DEF t, new
    <2>2. settled[t] = NoPayout
      BY <1>1, <1>2 DEF IInv, RowsFollowJournals
    <2>3. settled' = [settled EXCEPT ![t] = NoPayout] /\ rematch' \in [Trade -> Nat]
      BY <1>1, <2>2 DEF IInv, TypeOK
    <2> QED
      BY <1>1, <1>2, <2>1, <2>3, RowStep
  <1>3. CASE status[t] \notin Live
    <2>1. status' = status
      BY <1>3 DEF Stop, IInv, TypeOK
    <2> QED
      BY <1>1, <2>1, NoRowStep
  <1> QED
    BY <1>2, <1>3

-----------------------------------------------------------------------------

LEMMA FaultStep ==
  ASSUME IInv, NEW c \in Caller, Fault(c)
  PROVE  IInv' /\ OutcomesStand
  <1>1. calls' \in 0..MaxCalls /\ faults' \in 0..MaxFaults /\ faults' >= faults /\ faults' > 0
    BY DEF Fault, IInv, TypeOK
  <1> QED
    BY <1>1, FinishStep DEF Fault, trades, journals

\* Time passes without a caller.
LEMMA EnvironmentStep ==
  ASSUME IInv, (\E t \in Trade : DeadlinePasses(t)) \/ UNCHANGED vars
  PROVE  IInv' /\ OutcomesStand
  <1> USE DEF IInv
  <1>1. /\ UNCHANGED <<status, rematch, settled, locks, unlocks, payout, bonusUsed, pc, call,
                       calls, faults>>
        /\ overdue' \subseteq Trade
    BY DEF DeadlinePasses, vars, trades, journals, counters, TypeOK
  <1>2. OutcomesStand
    BY <1>1 DEF OutcomesStand
  <1>3. TypeOK'
    BY <1>1 DEF TypeOK
  <1>4. CallsAreBooked' /\ RowsFollowJournals' /\ LockReachesTrade'
    BY <1>1 DEF CallsAreBooked, RowsFollowJournals, LockReachesTrade, Accepted
  <1> QED
    BY <1>2, <1>3, <1>4

LEMMA StepIInv ==
  ASSUME IInv, [Next]_vars
  PROVE  IInv' /\ OutcomesStand
  <1>1. CASE \E c \in Caller, t \in Trade : Participate(c, t)
    BY <1>1, ParticipateStep
  <1>2. CASE \E c \in Caller, t \in Trade, code \in Code, p \in Payout \cup {NoPayout} :
               Evaluate(c, t, code, p)
    BY <1>2, EvaluateStep
  <1>3. CASE \E c \in Caller : Step(c)
    BY <1>3, RefuseStep, AdmitStep, PostLockStep, OpenTradeStep, PostSettlementStep,
       SucceedStep, RequeueStep, PostUnlockStep, StopStep DEF Step
  <1>4. CASE \E c \in Caller : Fault(c)
    BY <1>4, FaultStep
  <1>5. CASE (\E t \in Trade : DeadlinePasses(t)) \/ UNCHANGED vars
    BY <1>5, EnvironmentStep
  <1> QED
    BY <1>1, <1>2, <1>3, <1>4, <1>5 DEF Next

-----------------------------------------------------------------------------
(* Posts are posts of the ledger.  l, u and pay stand for locks, unlocks   *)
(* and payout, before or after a step.                                     *)

PaidOf(pay) == {t \in Trade : pay[t] # NoPayout}
PrincipalOf(l, u, pay) == Opening - Total(l) + Total(u) + Total(PaidOf(pay))
LockedOf(l, u, pay) == Pledged + Total(l) - Total(u) - Total(PaidOf(pay))
ProfitOf(pay) == SumFunction(pay)

BookOf(l, u, pay) ==
    [k \in BookKey |->
       CASE k[1] = "lock" /\ k[2] \in l -> LockLine(k[2])
         [] k[1] = "unlock" /\ k[2] \in u -> UnlockLine(k[2])
         [] k[1] = "settlement" /\ k[2] \in PaidOf(pay) -> SettlementLine(k[2], pay[k[2]])
         [] OTHER -> NoEntry]

\* No bucket of the user is below zero: a post that takes from one has looked.
BucketsHold == Principal \in Nat /\ Locked \in Nat /\ Profit \in Nat

LEMMA TotalType ==
  ASSUME NEW S \in SUBSET Trade
  PROVE  IsFiniteSet(S) /\ Total(S) \in Nat
  <1>1. IsFiniteSet(S)
    BY FS_Subset
  <1>2. \A t \in S : Capital[t] \in Nat
    OBVIOUS
  <1> QED
    BY <1>1, <1>2, SumNat DEF Total

LEMMA TotalAdd ==
  ASSUME NEW S \in SUBSET Trade, NEW t \in Trade, t \notin S
  PROVE  Total(S \cup {t}) = Total(S) + Capital[t]
  <1>1. IsFiniteSet(S) /\ Total(S) \in Nat
    BY TotalType
  <1>2. \A x \in S \cup {t} : Capital[x] \in Int
    OBVIOUS
  <1>3. Total(S \cup {t}) = Capital[t] + Total(S)
    BY <1>1, <1>2, SumAdd DEF Total
  <1> QED
    BY <1>1, <1>3

LEMMA PayoutsAreNat == \A p \in Payout \cup {NoPayout} : p \in Nat
  OBVIOUS

LEMMA ProfitType ==
  ASSUME NEW pay \in [Trade -> Payout \cup {NoPayout}]
  PROVE  ProfitOf(pay) \in Nat
  <1>1. DOMAIN pay = Trade /\ \A t \in Trade : pay[t] \in Nat
    BY PayoutsAreNat
  <1> QED
    BY <1>1, SumNat DEF ProfitOf, SumFunction

LEMMA ProfitAdd ==
  ASSUME NEW pay \in [Trade -> Payout \cup {NoPayout}], NEW t \in Trade, pay[t] = NoPayout,
         NEW p \in Payout
  PROVE  ProfitOf([pay EXCEPT ![t] = p]) = ProfitOf(pay) + p
  <1> DEFINE after == [pay EXCEPT ![t] = p]
  <1>1. /\ \A x \in Trade : pay[x] \in Int /\ after[x] \in Int
        /\ \A x \in Trade \ {t} : pay[x] = after[x]
        /\ after[t] = p /\ DOMAIN after = Trade /\ DOMAIN pay = Trade
        /\ pay[t] = 0 /\ p \in Int
    <2>1. DOMAIN after = Trade /\ DOMAIN pay = Trade
      OBVIOUS
    <2>2. p \in Int /\ \A x \in Trade : pay[x] \in Int
      <3>1. p \in Nat /\ \A x \in Trade : pay[x] \in Nat
        BY PayoutsAreNat
      <3>2. \A n \in Nat : n \in Int
        OBVIOUS
      <3> QED
        BY <3>1, <3>2, Zenon
    <2>3. after[t] = p /\ \A x \in Trade \ {t} : pay[x] = after[x]
      BY <2>1
    <2> QED
      BY <2>1, <2>2, <2>3
  <1>2. ProfitOf(after) = SumFunctionOnSet(after, Trade) /\ ProfitOf(pay) = SumFunctionOnSet(pay, Trade)
    BY <1>1 DEF ProfitOf, SumFunction
  <1> HIDE DEF after
  <1>3. SumFunctionOnSet(after, Trade) = SumFunctionOnSet(pay, Trade) - pay[t] + after[t]
    BY <1>1, SumUpdate
  <1>4. ProfitOf(pay) \in Nat
    BY ProfitType
  <1>5. ProfitOf(after) = ProfitOf(pay) + p
    BY <1>1, <1>2, <1>3, <1>4
  <1> QED
    BY <1>5 DEF after

\* The sum of a payload's four lines, which is what the ledger balances.
LEMMA FourSum ==
  ASSUME NEW a \in Int, NEW b \in Int, NEW c \in Int, NEW d \in Int
  PROVE  SumFunction(<<a, b, c, d>>) = a + b + c + d
  <1> DEFINE f == <<a, b, c, d>>
  <1>1. /\ DOMAIN f = 1..4 /\ f[1] = a /\ f[2] = b /\ f[3] = c /\ f[4] = d
    OBVIOUS
  <1>2. /\ \A i \in 1..4 : f[i] \in Int
        /\ (1..4) \ {1} = {2, 3, 4} /\ {2, 3, 4} \ {2} = {3, 4} /\ {3, 4} \ {3} = {4} /\ {4} \ {4} = {}
    <2>1. 1..4 = {1, 2, 3, 4}
      OBVIOUS
    <2> QED
      BY <1>1, <2>1
  <1>3. IsFiniteSet(1..4) /\ IsFiniteSet({2, 3, 4}) /\ IsFiniteSet({3, 4}) /\ IsFiniteSet({4})
    <2>1. 1 \in Int /\ 4 \in Int /\ {2, 3, 4} \subseteq 1..4 /\ {3, 4} \subseteq 1..4 /\ {4} \subseteq 1..4
      OBVIOUS
    <2>2. IsFiniteSet(1..4)
      BY <2>1, FS_Interval
    <2> QED
      BY <2>1, <2>2, FS_Subset
  <1>4. SumFunctionOnSet(f, {}) = 0
    BY SumEmpty
  <1> HIDE DEF f
  <1>5. SumFunctionOnSet(f, 1..4) = f[1] + SumFunctionOnSet(f, {2, 3, 4})
    <2>1. SumFunctionOnSet(f, 1..4) = f[1] + SumFunctionOnSet(f, (1..4) \ {1})
      BY <1>2, <1>3, SumPeel
    <2> QED
      BY <1>2, <2>1
  <1>6. SumFunctionOnSet(f, {2, 3, 4}) = f[2] + SumFunctionOnSet(f, {3, 4})
    <2>1. SumFunctionOnSet(f, {2, 3, 4}) = f[2] + SumFunctionOnSet(f, {2, 3, 4} \ {2})
      BY <1>2, <1>3, SumPeel
    <2> QED
      BY <1>2, <2>1
  <1>7. SumFunctionOnSet(f, {3, 4}) = f[3] + SumFunctionOnSet(f, {4})
    <2>1. SumFunctionOnSet(f, {3, 4}) = f[3] + SumFunctionOnSet(f, {3, 4} \ {3})
      BY <1>2, <1>3, SumPeel
    <2> QED
      BY <1>2, <2>1
  <1>8. SumFunctionOnSet(f, {4}) = f[4] + 0
    <2>1. SumFunctionOnSet(f, {4}) = f[4] + SumFunctionOnSet(f, {4} \ {4})
      BY <1>2, <1>3, SumPeel
    <2> QED
      BY <1>2, <1>4, <2>1
  <1>9. SumFunctionOnSet(f, 1..4) = a + b + c + d
    BY <1>1, <1>5, <1>6, <1>7, <1>8
  <1> QED
    BY <1>1, <1>9 DEF SumFunction, f

\* What the buckets and the book are, before a step and after it.
LEMMA Sums ==
  /\ Principal = PrincipalOf(locks, unlocks, payout)
  /\ Locked = LockedOf(locks, unlocks, payout)
  /\ Profit = ProfitOf(payout)
  /\ Book = BookOf(locks, unlocks, payout)
  /\ Principal' = PrincipalOf(locks', unlocks', payout')
  /\ Locked' = LockedOf(locks', unlocks', payout')
  /\ Profit' = ProfitOf(payout')
  /\ Book' = BookOf(locks', unlocks', payout')
  BY DEF Principal, Locked, Profit, Book, Paid, PrincipalOf, LockedOf, ProfitOf, BookOf, PaidOf

\* A balanced line under a fresh key that leaves no bucket below zero is a post.
LEMMA LineIsPost ==
  ASSUME NEW k \in BookKey, NEW p \in BookPayload, NEW type,
         NEW d1 \in Int, NEW d2 \in Int, NEW d3 \in Int, NEW d4 \in Int,
         p = Line(type, d1, d2, d3, d4), d1 + d2 + d3 + d4 = 0, type # "none",
         Book[k] = NoEntry, Book' = [Book EXCEPT ![k] = p],
         BucketsHold, BucketsHold',
         Principal' = Principal + d1, Locked' = Locked + d2, Profit' = Profit + d3,
         -Profit' = -Profit + d4
  PROVE  Ledger!Next
  <1> DEFINE before == <<Principal, Locked, Profit, -Profit>>
             after == <<Principal', Locked', Profit', -Profit'>>
  <1>1. p.type = type /\ p.line = <<d1, d2, d3, d4>>
    BY DEF Line
  <1>2. Ledger!Wellformed(p)
    <2>1. SumFunction(p.line) = 0
      BY <1>1, FourSum
    <2>2. Ledger!SumFunction(p.line) = SumFunction(p.line)
      BY DEF Ledger!SumFunction, SumFunction, Ledger!SumFunctionOnSet, SumFunctionOnSet,
             Ledger!FoldFunctionOnSet, FoldFunctionOnSet, Ledger!MapThenFoldSet, MapThenFoldSet
    <2> QED
      BY <2>1, <2>2 DEF Ledger!Wellformed, Ledger!Balanced, Ledger!PracticeIsolated
  <1>3. \A a \in 1..4 : after[a] = before[a] + p.line[a]
    <2>1. 1..4 = {1, 2, 3, 4}
      OBVIOUS
    <2>2. /\ after[1] = before[1] + p.line[1] /\ after[2] = before[2] + p.line[2]
          /\ after[3] = before[3] + p.line[3] /\ after[4] = before[4] + p.line[4]
      BY <1>1
    <2> QED
      BY <2>1, <2>2
  <1>4. \A a \in 1..4 : p.line[a] = 0 => after[a] = before[a]
    <2>1. \A a \in 1..4 : before[a] \in Int
      <3>1. 1..4 = {1, 2, 3, 4} /\ -Profit \in Int
        BY DEF BucketsHold
      <3> QED
        BY <3>1 DEF BucketsHold
    <2> QED
      BY <1>3, <2>1
  <1>5. after = [a \in 1..4 |-> IF a \in Ledger!Touched(p)
                                  THEN before[a] + Ledger!Effect(p, a) ELSE before[a]]
    <2>1. after = [a \in 1..4 |-> after[a]]
      OBVIOUS
    <2> QED
      BY <1>3, <1>4, <2>1 DEF Ledger!Touched, Ledger!Effect
  <1>6. \A a \in Ledger!Touched(p) \cap 1..3 : before[a] + Ledger!Effect(p, a) >= 0
    <2> TAKE a \in Ledger!Touched(p) \cap 1..3
    <2>1. after[a] \in Nat /\ a \in 1..4
      BY DEF BucketsHold
    <2> QED
      BY <1>3, <2>1 DEF Ledger!Effect
  <1>7. p # NoEntry
    BY <1>1 DEF NoEntry, Line
  <1>8. {x \in BookKey : Book'[x] # NoEntry} = {x \in BookKey : Book[x] # NoEntry} \cup {k}
    BY <1>7 DEF Book
  <1>9. Ledger!Post(k, p)
    BY <1>2, <1>5, <1>6, <1>8 DEF Ledger!Post
  <1> QED
    BY <1>9 DEF Ledger!Next

LEMMA Keys ==
  \A x \in Trade : <<"lock", x>> \in BookKey /\ <<"unlock", x>> \in BookKey
                     /\ <<"settlement", x>> \in BookKey
  BY DEF BookKey

LEMMA KeyCases == \A k \in BookKey : \E x \in Trade :
    k = <<"lock", x>> \/ k = <<"unlock", x>> \/ k = <<"settlement", x>>
  BY DEF BookKey

\* One more journal is one more entry of the book.
LEMMA LockEntry ==
  ASSUME NEW l \in SUBSET Trade, NEW u, NEW pay, NEW t \in Trade, t \notin l
  PROVE  /\ BookOf(l, u, pay)[<<"lock", t>>] = NoEntry
         /\ BookOf(l \cup {t}, u, pay)
              = [BookOf(l, u, pay) EXCEPT ![<<"lock", t>>] = LockLine(t)]
  <1> DEFINE f == BookOf(l, u, pay)
             g == BookOf(l \cup {t}, u, pay)
  <1>1. f[<<"lock", t>>] = NoEntry /\ g[<<"lock", t>>] = LockLine(t)
    BY Keys DEF BookOf
  <1>2. f = [k \in BookKey |-> f[k]] /\ g = [k \in BookKey |-> g[k]]
    BY DEF BookOf
  <1>3. \A x \in Trade : <<"lock", x>> # <<"lock", t>> => g[<<"lock", x>>] = f[<<"lock", x>>]
    BY Keys DEF BookOf
  <1>4. \A x \in Trade : /\ g[<<"unlock", x>>] = f[<<"unlock", x>>]
                         /\ g[<<"settlement", x>>] = f[<<"settlement", x>>]
    BY Keys DEF BookOf
  <1> HIDE DEF f, g
  <1>5. g = [f EXCEPT ![<<"lock", t>>] = LockLine(t)]
    <2>1. \A k \in BookKey : k # <<"lock", t>> => g[k] = f[k]
      BY <1>3, <1>4, KeyCases
    <2> QED
      BY <1>1, <1>2, <2>1
  <1> QED
    BY <1>1, <1>5 DEF f, g

LEMMA UnlockEntry ==
  ASSUME NEW l, NEW u \in SUBSET Trade, NEW pay, NEW t \in Trade, t \notin u
  PROVE  /\ BookOf(l, u, pay)[<<"unlock", t>>] = NoEntry
         /\ BookOf(l, u \cup {t}, pay)
              = [BookOf(l, u, pay) EXCEPT ![<<"unlock", t>>] = UnlockLine(t)]
  <1> DEFINE f == BookOf(l, u, pay)
             g == BookOf(l, u \cup {t}, pay)
  <1>1. f[<<"unlock", t>>] = NoEntry /\ g[<<"unlock", t>>] = UnlockLine(t)
    BY Keys DEF BookOf
  <1>2. f = [k \in BookKey |-> f[k]] /\ g = [k \in BookKey |-> g[k]]
    BY DEF BookOf
  <1>3. \A x \in Trade :
          <<"unlock", x>> # <<"unlock", t>> => g[<<"unlock", x>>] = f[<<"unlock", x>>]
    BY Keys DEF BookOf
  <1>4. \A x \in Trade : /\ g[<<"lock", x>>] = f[<<"lock", x>>]
                         /\ g[<<"settlement", x>>] = f[<<"settlement", x>>]
    BY Keys DEF BookOf
  <1> HIDE DEF f, g
  <1>5. g = [f EXCEPT ![<<"unlock", t>>] = UnlockLine(t)]
    <2>1. \A k \in BookKey : k # <<"unlock", t>> => g[k] = f[k]
      BY <1>3, <1>4, KeyCases
    <2> QED
      BY <1>1, <1>2, <2>1
  <1> QED
    BY <1>1, <1>5 DEF f, g

Pays(pay, after, t, p) ==
    /\ t \in Trade /\ p \in Payout
    /\ pay[t] = NoPayout /\ after[t] = p
    /\ \A x \in Trade \ {t} : after[x] = pay[x]

Entered(l, u, pay, after, t, p) ==
    /\ t \notin PaidOf(pay)
    /\ PaidOf(after) = PaidOf(pay) \cup {t}
    /\ BookOf(l, u, pay)[<<"settlement", t>>] = NoEntry
    /\ BookOf(l, u, after)
         = [BookOf(l, u, pay) EXCEPT ![<<"settlement", t>>] = SettlementLine(t, p)]

LEMMA SettlementEntry ==
  ASSUME NEW l, NEW u, NEW pay, NEW after, NEW t, NEW p, Pays(pay, after, t, p)
  PROVE  Entered(l, u, pay, after, t, p)
  <1>1. /\ t \in Trade /\ pay[t] = NoPayout
        /\ after[t] = p /\ p # NoPayout /\ \A x \in Trade \ {t} : after[x] = pay[x]
    BY NoPayoutIsNone DEF Pays
  <1>2. t \notin PaidOf(pay) /\ PaidOf(after) = PaidOf(pay) \cup {t}
    BY <1>1 DEF PaidOf
  <1> DEFINE f == BookOf(l, u, pay)
             g == BookOf(l, u, after)
  <1>3. f[<<"settlement", t>>] = NoEntry /\ g[<<"settlement", t>>] = SettlementLine(t, p)
    BY <1>1, <1>2, Keys DEF BookOf
  <1>4. f = [k \in BookKey |-> f[k]] /\ g = [k \in BookKey |-> g[k]]
    BY DEF BookOf
  <1>5. \A x \in Trade :
          <<"settlement", x>> # <<"settlement", t>>
            => g[<<"settlement", x>>] = f[<<"settlement", x>>]
    BY <1>1, <1>2, Keys DEF BookOf
  <1>6. \A x \in Trade : /\ g[<<"lock", x>>] = f[<<"lock", x>>]
                         /\ g[<<"unlock", x>>] = f[<<"unlock", x>>]
    BY Keys DEF BookOf
  <1> HIDE DEF f, g
  <1>7. g = [f EXCEPT ![<<"settlement", t>>] = SettlementLine(t, p)]
    <2>1. ASSUME NEW k \in BookKey, k # <<"settlement", t>> PROVE g[k] = f[k]
      <3>1. PICK x \in Trade :
              k = <<"lock", x>> \/ k = <<"unlock", x>> \/ k = <<"settlement", x>>
        BY KeyCases
      <3> QED
        BY <1>5, <1>6, <2>1, <3>1, Zenon
    <2> QED
      BY <1>3, <1>4, <2>1
  <1> QED
    BY <1>2, <1>3, <1>7 DEF f, g, Entered

\* The three posts, each refused when the bucket it takes from is short.
PostsOrStutters == Ledger!Next \/ UNCHANGED Ledger!vars

LEMMA SameBooks ==
  ASSUME UNCHANGED <<locks, unlocks, payout>>
  PROVE  UNCHANGED Ledger!vars /\ (BucketsHold => BucketsHold')
  <1>1. /\ Principal' = Principal /\ Locked' = Locked /\ Profit' = Profit /\ Book' = Book
    BY Sums
  <1> QED
    BY <1>1 DEF Ledger!vars, BucketsHold

LEMMA LockPosts ==
  ASSUME IInv, BucketsHold, NEW c \in Caller, PostLock(c)
  PROVE  PostsOrStutters /\ BucketsHold'
  <1> DEFINE t == call[c].trade
  <1>1. t \in Trade
    BY DEF IInv, TypeOK
  <1>2. CASE locks' = locks
    <2>1. UNCHANGED <<locks, unlocks, payout>>
      BY <1>2 DEF PostLock
    <2> QED
      BY <2>1, SameBooks DEF PostsOrStutters
  <1>3. CASE locks' # locks
    <2>1. /\ t \notin locks /\ Principal >= Capital[t]
          /\ locks' = locks \cup {t} /\ unlocks' = unlocks /\ payout' = payout
      BY <1>3 DEF PostLock
    <2> HIDE DEF t
    <2>2. locks \in SUBSET Trade /\ unlocks \in SUBSET Trade /\ PaidOf(payout) \in SUBSET Trade
      BY DEF IInv, TypeOK, PaidOf
    <2>3. Book[<<"lock", t>>] = NoEntry /\ Book' = [Book EXCEPT ![<<"lock", t>>] = LockLine(t)]
      <3>1. /\ BookOf(locks, unlocks, payout)[<<"lock", t>>] = NoEntry
            /\ BookOf(locks \cup {t}, unlocks, payout)
                 = [BookOf(locks, unlocks, payout) EXCEPT ![<<"lock", t>>] = LockLine(t)]
        BY <1>1, <2>1, <2>2, LockEntry
      <3>2. /\ Book = BookOf(locks, unlocks, payout)
            /\ Book' = BookOf(locks \cup {t}, unlocks, payout)
        BY <2>1, Sums
      <3> QED
        BY <3>1, <3>2
    <2>4. /\ Total(locks) \in Nat /\ Total(unlocks) \in Nat /\ Total(PaidOf(payout)) \in Nat
          /\ Total(locks') = Total(locks) + Capital[t]
      BY <1>1, <2>1, <2>2, TotalType, TotalAdd
    <2>5. Capital[t] \in Nat /\ Opening \in Nat /\ Pledged \in Nat
      BY <1>1
    <2>6. Profit' = Profit
      BY <2>1, Sums
    <2>7. Principal' = Principal - Capital[t] /\ Locked' = Locked + Capital[t]
      BY <2>1, <2>4, <2>5, Sums DEF PrincipalOf, LockedOf
    <2>8. BucketsHold'
      BY <2>1, <2>5, <2>6, <2>7 DEF BucketsHold
    <2>9. /\ LockLine(t) = Line("participate_lock", 0 - Capital[t], Capital[t], 0, 0)
          /\ <<"lock", t>> \in BookKey /\ LockLine(t) \in BookPayload
      <3>1. -Capital[t] = 0 - Capital[t]
        BY <2>5
      <3>2. <<"lock", t>> \in BookKey /\ LockLine(t) \in BookPayload
        BY <1>1 DEF BookKey, BookPayload
      <3> QED
        BY <3>1, <3>2 DEF LockLine
    <2>10. -Profit' = -Profit + 0 /\ Profit' = Profit + 0
      BY <2>6 DEF BucketsHold
    <2>11. /\ 0 - Capital[t] \in Int /\ Capital[t] \in Int /\ 0 \in Int
           /\ (0 - Capital[t]) + Capital[t] + 0 + 0 = 0
           /\ Principal' = Principal + (0 - Capital[t])
      BY <2>5, <2>7 DEF BucketsHold
    <2>12. Ledger!Next
      BY <2>3, <2>7, <2>8, <2>9, <2>10, <2>11, LineIsPost
    <2> QED
      BY <2>8, <2>12 DEF PostsOrStutters
  <1> QED
    BY <1>2, <1>3

LEMMA UnlockPosts ==
  ASSUME IInv, BucketsHold, NEW c \in Caller, PostUnlock(c)
  PROVE  PostsOrStutters /\ BucketsHold'
  <1> DEFINE t == call[c].trade
  <1>1. t \in Trade
    BY DEF IInv, TypeOK
  <1>2. CASE unlocks' = unlocks
    <2>1. UNCHANGED <<locks, unlocks, payout>>
      BY <1>2 DEF PostUnlock
    <2> QED
      BY <2>1, SameBooks DEF PostsOrStutters
  <1>3. CASE unlocks' # unlocks
    <2>1. /\ t \notin unlocks /\ Locked >= Capital[t]
          /\ unlocks' = unlocks \cup {t} /\ locks' = locks /\ payout' = payout
      BY <1>3 DEF PostUnlock
    <2> HIDE DEF t
    <2>2. locks \in SUBSET Trade /\ unlocks \in SUBSET Trade /\ PaidOf(payout) \in SUBSET Trade
      BY DEF IInv, TypeOK, PaidOf
    <2>3. /\ Book[<<"unlock", t>>] = NoEntry
          /\ Book' = [Book EXCEPT ![<<"unlock", t>>] = UnlockLine(t)]
      BY <1>1, <2>1, <2>2, UnlockEntry, Sums
    <2>4. /\ Total(locks) \in Nat /\ Total(unlocks) \in Nat /\ Total(PaidOf(payout)) \in Nat
          /\ Total(unlocks') = Total(unlocks) + Capital[t]
      BY <1>1, <2>1, <2>2, TotalType, TotalAdd
    <2>5. Capital[t] \in Nat /\ Opening \in Nat /\ Pledged \in Nat
      BY <1>1
    <2>6. Profit' = Profit
      BY <2>1, Sums
    <2>7. Principal' = Principal + Capital[t] /\ Locked' = Locked - Capital[t]
      BY <2>1, <2>4, <2>5, Sums DEF PrincipalOf, LockedOf
    <2>8. BucketsHold'
      BY <2>1, <2>5, <2>6, <2>7 DEF BucketsHold
    <2>9. /\ UnlockLine(t) = Line("participate_unlock", Capital[t], 0 - Capital[t], 0, 0)
          /\ <<"unlock", t>> \in BookKey /\ UnlockLine(t) \in BookPayload
      <3>1. -Capital[t] = 0 - Capital[t]
        BY <2>5
      <3>2. <<"unlock", t>> \in BookKey /\ UnlockLine(t) \in BookPayload
        BY <1>1 DEF BookKey, BookPayload
      <3> QED
        BY <3>1, <3>2 DEF UnlockLine
    <2>10. -Profit' = -Profit + 0 /\ Profit' = Profit + 0
      BY <2>6 DEF BucketsHold
    <2>11. /\ 0 - Capital[t] \in Int /\ Capital[t] \in Int /\ 0 \in Int
           /\ Capital[t] + (0 - Capital[t]) + 0 + 0 = 0
           /\ Locked' = Locked + (0 - Capital[t])
      BY <2>5, <2>7 DEF BucketsHold
    <2>12. Ledger!Next
      BY <2>3, <2>7, <2>8, <2>9, <2>10, <2>11, LineIsPost
    <2> QED
      BY <2>8, <2>12 DEF PostsOrStutters
  <1> QED
    BY <1>2, <1>3

LEMMA SettlementPosts ==
  ASSUME IInv, BucketsHold, NEW c \in Caller, PostSettlement(c)
  PROVE  PostsOrStutters /\ BucketsHold'
  <1> DEFINE t == call[c].trade
             p == call[c].payout
  <1>1. t \in Trade /\ p \in Payout /\ payout \in [Trade -> Payout \cup {NoPayout}]
    BY DEF IInv, TypeOK, CallsAreBooked, PostSettlement
  <1>2. CASE payout' = payout
    <2>1. UNCHANGED <<locks, unlocks, payout>>
      BY <1>2 DEF PostSettlement
    <2> QED
      BY <2>1, SameBooks DEF PostsOrStutters
  <1>3. CASE payout' # payout
    <2>1. /\ payout' = [payout EXCEPT ![t] = p] /\ payout[t] # p
          /\ t \notin Paid /\ Locked >= Capital[t]
          /\ locks' = locks /\ unlocks' = unlocks
      <3>1. ASSUME payout[t] = p PROVE payout' = payout
        BY <1>1, <3>1 DEF PostSettlement
      <3> QED
        BY <1>3, <3>1 DEF PostSettlement
    <2>2. payout[t] = NoPayout
      BY <1>1, <2>1 DEF Paid
    <2> HIDE DEF t, p
    <2>3. locks \in SUBSET Trade /\ unlocks \in SUBSET Trade /\ PaidOf(payout) \in SUBSET Trade
      BY DEF IInv, TypeOK, PaidOf
    <2>4. /\ t \notin PaidOf(payout) /\ PaidOf(payout') = PaidOf(payout) \cup {t}
          /\ BookOf(locks, unlocks, payout)[<<"settlement", t>>] = NoEntry
          /\ BookOf(locks, unlocks, payout')
               = [BookOf(locks, unlocks, payout)
                    EXCEPT ![<<"settlement", t>>] = SettlementLine(t, p)]
      <3>1. Pays(payout, payout', t, p)
        BY <1>1, <2>1, <2>2 DEF Pays
      <3>2. Entered(locks, unlocks, payout, payout', t, p)
        BY <3>1, SettlementEntry
      <3> QED
        BY <3>2 DEF Entered
    <2>5. /\ Book[<<"settlement", t>>] = NoEntry
          /\ Book' = [Book EXCEPT ![<<"settlement", t>>] = SettlementLine(t, p)]
      <3>1. Book = BookOf(locks, unlocks, payout) /\ Book' = BookOf(locks, unlocks, payout')
        BY <2>1, Sums
      <3> QED
        BY <2>4, <3>1
    <2>6. /\ Total(locks) \in Nat /\ Total(unlocks) \in Nat /\ Total(PaidOf(payout)) \in Nat
          /\ Total(PaidOf(payout')) = Total(PaidOf(payout)) + Capital[t]
      BY <1>1, <2>3, <2>4, TotalType, TotalAdd
    <2>7. Capital[t] \in Nat /\ Opening \in Nat /\ Pledged \in Nat /\ p \in Nat
      BY <1>1
    <2>8. Profit' = Profit + p
      <3>1. ProfitOf(payout') = ProfitOf(payout) + p
        BY <1>1, <2>1, <2>2, ProfitAdd
      <3> QED
        BY <3>1, Sums
    <2>9. Principal' = Principal + Capital[t] /\ Locked' = Locked - Capital[t]
      BY <2>1, <2>6, <2>7, Sums DEF PrincipalOf, LockedOf
    <2>10. BucketsHold'
      BY <2>1, <2>7, <2>8, <2>9 DEF BucketsHold
    <2>11. /\ SettlementLine(t, p) = Line("settlement", Capital[t], 0 - Capital[t], p, 0 - p)
           /\ <<"settlement", t>> \in BookKey /\ SettlementLine(t, p) \in BookPayload
      <3>1. -Capital[t] = 0 - Capital[t] /\ -p = 0 - p
        BY <2>7
      <3>2. <<"settlement", t>> \in BookKey /\ SettlementLine(t, p) \in BookPayload
        BY <1>1 DEF BookKey, BookPayload
      <3> QED
        BY <3>1, <3>2 DEF SettlementLine
    <2>12. -Profit' = -Profit + (0 - p)
      BY <2>7, <2>8 DEF BucketsHold
    <2>13. /\ 0 - Capital[t] \in Int /\ Capital[t] \in Int /\ p \in Int /\ 0 - p \in Int
           /\ Capital[t] + (0 - Capital[t]) + p + (0 - p) = 0
           /\ Locked' = Locked + (0 - Capital[t])
      BY <2>7, <2>9 DEF BucketsHold
    <2>14. Ledger!Next
      BY <2>5, <2>8, <2>9, <2>10, <2>11, <2>12, <2>13, LineIsPost
    <2> QED
      BY <2>10, <2>14 DEF PostsOrStutters
  <1> QED
    BY <1>2, <1>3

\* Before the first post the buckets hold what the user brought.
LEMMA InitBooks ==
  ASSUME Init
  PROVE  Ledger!Init /\ BucketsHold
  <1>1. PaidOf(payout) = {} /\ payout \in [Trade -> Payout \cup {NoPayout}]
    BY DEF Init, PaidOf
  <1>2. Total({}) = 0
    BY SumEmpty DEF Total
  <1>3. ProfitOf(payout) = 0
    <2>1. DOMAIN payout = Trade /\ \A t \in Trade : payout[t] = 0
      BY DEF Init
    <2>2. SumFunctionOnSet(payout, Trade) = 0
      BY <2>1, SumZero
    <2> QED
      BY <2>1, <2>2 DEF ProfitOf, SumFunction
  <1>4. Principal = Opening /\ Locked = Pledged /\ Profit = 0
    <2>1. Opening \in Nat /\ Pledged \in Nat /\ locks = {} /\ unlocks = {}
      BY DEF Init
    <2> QED
      BY <1>1, <1>2, <1>3, <2>1, Sums DEF PrincipalOf, LockedOf
  <1>5. -Profit = 0
    <2>1. -Profit = 0 - Profit
      <3>1. Profit \in Int
        BY <1>4
      <3> QED
        BY <3>1
    <2>2. 0 - Profit = 0
      BY <1>4
    <2> QED
      BY <2>1, <2>2, Zenon
  <1>6. Book = [k \in BookKey |-> NoEntry]
    BY <1>1 DEF Book, Init, Paid, PaidOf
  <1>7. {k \in BookKey : Book[k] # NoEntry} = {}
    BY <1>6
  <1>8. Ledger!Init
    BY <1>4, <1>5, <1>6, <1>7 DEF Ledger!Init, Ledger!InitialJournal
  <1> QED
    BY <1>4, <1>8 DEF BucketsHold

LEMMA StepPosts ==
  ASSUME IInv, BucketsHold, [Next]_vars
  PROVE  PostsOrStutters /\ BucketsHold'
  <1>1. ASSUME UNCHANGED <<locks, unlocks, payout>> PROVE PostsOrStutters /\ BucketsHold'
    BY <1>1, SameBooks DEF PostsOrStutters
  <1>2. CASE \E c \in Caller : PostLock(c) \/ PostUnlock(c) \/ PostSettlement(c)
    BY <1>2, LockPosts, UnlockPosts, SettlementPosts
  <1>3. CASE \E c \in Caller, t \in Trade :
               \/ Participate(c, t)
               \/ \E code \in Code, p \in Payout \cup {NoPayout} : Evaluate(c, t, code, p)
    BY <1>1, <1>3 DEF Participate, Evaluate, Start, journals
  <1>4. CASE \E c \in Caller : \/ Refuse(c) \/ Admit(c) \/ OpenTrade(c) \/ Succeed(c)
                               \/ Requeue(c) \/ Stop(c) \/ Fault(c)
    BY <1>1, <1>4 DEF Refuse, Admit, OpenTrade, Succeed, Requeue, Stop, Fault, journals
  <1>5. CASE (\E t \in Trade : DeadlinePasses(t)) \/ UNCHANGED vars
    BY <1>1, <1>5 DEF DeadlinePasses, vars, journals
  <1> QED
    BY <1>2, <1>3, <1>4, <1>5 DEF Next, Step

(* The strengthening holds in every reachable state.                       *)
THEOREM Invariance == Spec => []IInv
  <1>1. Init => IInv
    BY InitIInv
  <1>2. IInv /\ [Next]_vars => IInv'
    BY StepIInv
  <1> QED
    BY <1>1, <1>2, PTL DEF Spec

(* Every variable of Trade keeps its type.                                 *)
THEOREM TypeCorrect == Spec => []TypeOK
  <1>1. IInv => TypeOK
    BY DEF IInv
  <1> QED
    BY <1>1, Invariance, PTL

(* participate and executeTick never let a row say more than the books.    *)
THEOREM BookedRows == Spec => []RowsFollowJournals
  <1>1. IInv => RowsFollowJournals
    BY DEF IInv
  <1> QED
    BY <1>1, Invariance, PTL

(* participate strands no lock, unless a call died or the bonus ran out.   *)
THEOREM LocksReachTrades == Spec => []LockReachesTrade
  <1>1. IInv => LockReachesTrade
    BY DEF IInv
  <1> QED
    BY <1>1, Invariance, PTL

(* executeTick never replaces an outcome or its payout.                    *)
THEOREM FinalOutcomes == Spec => OutcomesAreFinal
  <1>1. IInv /\ [Next]_vars => [\A t \in Trade : status[t] \in Terminal =>
           status'[t] = status[t] /\ settled'[t] = settled[t]]_trades
    BY StepIInv DEF OutcomesStand
  <1> QED
    BY <1>1, Invariance, PTL DEF Spec, OutcomesAreFinal

(* However participations and ticks interleave, every post is one the      *)
(* ledger accepts, and the buckets are what the journals add up to.        *)
THEOREM Posts == Spec => PostsThroughLedger
  <1>1. Init => Ledger!Init /\ BucketsHold
    BY InitBooks
  <1>2. IInv /\ BucketsHold /\ [Next]_vars => BucketsHold' /\ [Ledger!Next]_(Ledger!vars)
    BY StepPosts DEF PostsOrStutters
  <1> QED
    BY <1>1, <1>2, Invariance, PTL DEF Spec, PostsThroughLedger, Ledger!Spec

(* A post never overdraws a bucket of the user: whatever calls race for    *)
(* the capital, principal, locked and profit stay non-negative.            *)
THEOREM BucketsNonNegative == Spec => []BucketsHold
  <1>1. Init => BucketsHold
    BY InitBooks
  <1>2. IInv /\ BucketsHold /\ [Next]_vars => BucketsHold'
    BY StepPosts
  <1> QED
    BY <1>1, <1>2, Invariance, PTL DEF Spec

=============================================================================
