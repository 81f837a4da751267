------------------------- MODULE UsdtDeposit_proofs -------------------------
(***************************************************************************)
(* The safety properties of UsdtDeposit, for any number of deposits, calls *)
(* and ticks.  The inductive invariant adds to them what a call knows at   *)
(* each of its steps: what it was told, and that what it moves is booked.  *)
(***************************************************************************)
EXTENDS UsdtDeposit, TLAPS

\* Only a deep report, never a reorg, gets as far as the credit.
CreditsAreDeep ==
    \A o \in Observer : pc[o] \in {"post", "link"} => input[o].conf = LedgerConf

\* The row is linked to a journal that was posted before.
LinksFollowPosts ==
    \A o \in Observer : pc[o] = "link" => input[o].deposit \in journal

\* A tick sweeps rows it found credited.
BatchesAreCredited == \A s \in Sweeper : batch[s] \subseteq journal

\* Rows are in hand only while they are swept.
BatchesAreSwept == \A s \in Sweeper : pc[s] # "sweep" => batch[s] = {}

IInv ==
    /\ TypeOK
    /\ CreditsAreDeep
    /\ LinksFollowPosts
    /\ BatchesAreCredited
    /\ BatchesAreSwept
    /\ CreditedRowsAreBacked
    /\ SweptOnlyWhenCredited
    /\ CreditReachesRow

USE DepositAssumption DEF Observation, Process, Status, Bounded

-----------------------------------------------------------------------------

\* The upsert leads to the credit only from a deep report.
LEMMA UpsertLeads ==
  ASSUME NEW i \in Observation, NEW st
  PROVE  /\ AfterUpsert(i, st) \in {"void", "post", "mark", "idle"}
         /\ AfterUpsert(i, st) = "post" => i.conf = LedgerConf
  <1>1. i.reorg \in BOOLEAN /\ i.conf \in 0..LedgerConf
    OBVIOUS
  <1>2. CASE i.reorg
    BY <1>2 DEF AfterUpsert
  <1>3. CASE ~i.reorg /\ i.conf >= LedgerConf /\ st # "ledger_credited"
    BY <1>1, <1>3 DEF AfterUpsert
  <1>4. CASE ~i.reorg /\ i.conf \in UiConf..(LedgerConf - 1)
                      /\ st \in {"seen", "ui_confirmed"}
    BY <1>1, <1>4 DEF AfterUpsert
  <1>5. CASE /\ ~i.reorg
             /\ ~(i.conf >= LedgerConf /\ st # "ledger_credited")
             /\ ~(i.conf \in UiConf..(LedgerConf - 1) /\ st \in {"seen", "ui_confirmed"})
    BY <1>1, <1>5 DEF AfterUpsert
  <1> QED
    BY <1>2, <1>3, <1>4, <1>5

LEMMA FindLeads ==
  ASSUME NEW i \in Observation
  PROVE  AfterFind(i) \in {"idle", "void", "upsert"}
  BY DEF AfterFind

LEMMA LargerConf ==
  ASSUME NEW m \in 0..LedgerConf, NEW n \in 0..LedgerConf
  PROVE  /\ Larger(m, n) \in 0..LedgerConf
         /\ Larger(m, n) >= m
         /\ Larger(m, n) >= n
  BY DEF Larger

\* The state before the first call satisfies the invariant.
LEMMA InitIInv ==
  ASSUME Init
  PROVE  IInv
  <1>1. (CHOOSE i \in Observation : TRUE) \in Observation
    <2>1. PICK d \in Deposit : TRUE
      OBVIOUS
    <2>2. [deposit |-> d, conf |-> 0, reorg |-> TRUE] \in Observation
      OBVIOUS
    <2> QED
      BY <2>2
  <1>2. TypeOK
    <2>1. input \in [Observer -> Observation]
      BY <1>1 DEF Init
    <2>2. conf \in [Deposit -> 0..LedgerConf]
      BY DEF Init
    <2>3. status \in [Deposit -> Status \cup {"absent"}] /\ transfers \in [Deposit -> Nat]
      BY DEF Init
    <2> QED
      BY <2>1, <2>2, <2>3 DEF Init, TypeOK
  <1>3. CreditsAreDeep /\ LinksFollowPosts /\ BatchesAreCredited /\ BatchesAreSwept
    BY DEF Init, CreditsAreDeep, LinksFollowPosts, BatchesAreCredited, BatchesAreSwept
  <1>4. CreditedRowsAreBacked /\ SweptOnlyWhenCredited /\ CreditReachesRow
    BY DEF Init, CreditedRowsAreBacked, SweptOnlyWhenCredited, CreditReachesRow
  <1> QED
    BY <1>2, <1>3, <1>4 DEF IInv

\* A new call may be answered at once, void a row, or go on to the upsert.
LEMMA FindStep ==
  ASSUME IInv, NEW o \in Observer, NEW i \in Observation, Find(o, i)
  PROVE  IInv'
  <1> USE DEF IInv, Find, Spend, Goto, deposits, chain, config, sweeping
  <1>1. TypeOK'
    BY FindLeads DEF TypeOK
  <1>2. CreditsAreDeep'
    BY FindLeads DEF TypeOK, CreditsAreDeep
  <1>3. LinksFollowPosts'
    BY FindLeads DEF TypeOK, LinksFollowPosts
  <1>4. BatchesAreCredited'
    BY FindLeads DEF TypeOK, BatchesAreCredited
  <1>5. CreditedRowsAreBacked'
    BY FindLeads DEF TypeOK, CreditedRowsAreBacked, CreditsAreDeep, LinksFollowPosts
  <1>6. SweptOnlyWhenCredited'
    BY FindLeads DEF TypeOK, SweptOnlyWhenCredited
  <1>7. CreditReachesRow'
    BY FindLeads DEF TypeOK, CreditReachesRow, CreditedRowsAreBacked
  <1>8. BatchesAreSwept'
    BY DEF TypeOK, BatchesAreSwept
  <1> QED
    BY <1>1, <1>2, <1>3, <1>4, <1>5, <1>6, <1>7, <1>8

\* The upsert creates the row or deepens it; it takes no credit away.
LEMMA UpsertStep ==
  ASSUME IInv, NEW o \in Observer, Upsert(o)
  PROVE  IInv'
  <1> USE DEF IInv, Upsert, Goto, deposits, chain, config, sweeping
  <1>a. input[o] \in Observation
    BY DEF TypeOK
  <1>b. LET new == Larger(conf[input[o].deposit], IF input[o].reorg THEN 0 ELSE input[o].conf)
        IN  /\ new \in 0..LedgerConf
            /\ new >= conf[input[o].deposit]
            /\ ~input[o].reorg => new >= input[o].conf
    BY <1>a, LargerConf DEF TypeOK
  <1>c. /\ conf' \in [Deposit -> 0..LedgerConf]
        /\ \A d \in Deposit : conf'[d] >= conf[d]
    BY <1>a, <1>b DEF TypeOK
  <1>1. TypeOK'
    BY <1>a, <1>c, UpsertLeads DEF TypeOK
  <1>2. CreditsAreDeep'
    BY <1>a, <1>c, UpsertLeads DEF TypeOK, CreditsAreDeep
  <1>3. LinksFollowPosts'
    BY <1>a, <1>c, UpsertLeads DEF TypeOK, LinksFollowPosts
  <1>4. BatchesAreCredited'
    BY <1>a, <1>c, UpsertLeads DEF TypeOK, BatchesAreCredited
  <1>5. CreditedRowsAreBacked'
    BY <1>a, <1>c, UpsertLeads DEF TypeOK, CreditedRowsAreBacked, CreditsAreDeep, LinksFollowPosts
  <1>6. SweptOnlyWhenCredited'
    BY <1>a, <1>c, UpsertLeads DEF TypeOK, SweptOnlyWhenCredited
  <1>7. CreditReachesRow'
    BY <1>a, <1>c, UpsertLeads DEF TypeOK, CreditReachesRow, CreditedRowsAreBacked
  <1>8. BatchesAreSwept'
    BY DEF TypeOK, BatchesAreSwept
  <1> QED
    BY <1>1, <1>2, <1>3, <1>4, <1>5, <1>6, <1>7, <1>8

\* A late detection leaves a credited row credited.
LEMMA MarkUiConfirmedStep ==
  ASSUME IInv, NEW o \in Observer, MarkUiConfirmed(o)
  PROVE  IInv'
  <1> USE DEF IInv, MarkUiConfirmed, Goto, deposits, chain, config, sweeping
  <1>a. input[o] \in Observation
    BY DEF TypeOK
  <1>b. LET new == Larger(conf[input[o].deposit], input[o].conf)
        IN  /\ new \in 0..LedgerConf
            /\ new >= conf[input[o].deposit]
            /\ ~input[o].reorg => new >= input[o].conf
    BY <1>a, LargerConf DEF TypeOK
  <1>c. /\ conf' \in [Deposit -> 0..LedgerConf]
        /\ \A d \in Deposit : conf'[d] >= conf[d]
    BY <1>a, <1>b DEF TypeOK
  <1>1. TypeOK'
    BY <1>a, <1>b, <1>c DEF TypeOK
  <1>2. CreditsAreDeep'
    BY <1>a, <1>b, <1>c DEF TypeOK, CreditsAreDeep
  <1>3. LinksFollowPosts'
    BY <1>a, <1>b, <1>c DEF TypeOK, LinksFollowPosts
  <1>4. BatchesAreCredited'
    BY <1>a, <1>b, <1>c DEF TypeOK, BatchesAreCredited
  <1>5. CreditedRowsAreBacked'
    BY <1>a, <1>b, <1>c DEF TypeOK, CreditedRowsAreBacked, CreditsAreDeep, LinksFollowPosts
  <1>6. SweptOnlyWhenCredited'
    BY <1>a, <1>b, <1>c DEF TypeOK, SweptOnlyWhenCredited
  <1>7. CreditReachesRow'
    BY <1>a, <1>b, <1>c DEF TypeOK, CreditReachesRow, CreditedRowsAreBacked
  <1>8. BatchesAreSwept'
    BY DEF TypeOK, BatchesAreSwept
  <1> QED
    BY <1>1, <1>2, <1>3, <1>4, <1>5, <1>6, <1>7, <1>8

\* The journal is posted; its call is about to link the row.
LEMMA PostCreditStep ==
  ASSUME IInv, NEW o \in Observer, PostCredit(o)
  PROVE  IInv'
  <1> USE DEF IInv, PostCredit, Goto, deposits, chain, config, sweeping
  <1>1. TypeOK'
    BY DEF TypeOK
  <1>2. CreditsAreDeep'
    BY DEF TypeOK, CreditsAreDeep
  <1>3. LinksFollowPosts'
    BY DEF TypeOK, LinksFollowPosts
  <1>4. BatchesAreCredited'
    BY DEF TypeOK, BatchesAreCredited
  <1>5. CreditedRowsAreBacked'
    BY DEF TypeOK, CreditedRowsAreBacked, CreditsAreDeep, LinksFollowPosts
  <1>6. SweptOnlyWhenCredited'
    BY DEF TypeOK, SweptOnlyWhenCredited
  <1>7. CreditReachesRow'
    BY DEF TypeOK, CreditReachesRow, CreditedRowsAreBacked
  <1>8. BatchesAreSwept'
    BY DEF TypeOK, BatchesAreSwept
  <1> QED
    BY <1>1, <1>2, <1>3, <1>4, <1>5, <1>6, <1>7, <1>8

\* The row is linked, at the depth of the report that credited it.
LEMMA LinkCreditStep ==
  ASSUME IInv, NEW o \in Observer, LinkCredit(o)
  PROVE  IInv'
  <1> USE DEF IInv, LinkCredit, Goto, deposits, chain, config, sweeping
  <1>a. input[o] \in Observation
    BY DEF TypeOK
  <1>b. LET new == Larger(conf[input[o].deposit], input[o].conf)
        IN  /\ new \in 0..LedgerConf
            /\ new >= conf[input[o].deposit]
            /\ ~input[o].reorg => new >= input[o].conf
    BY <1>a, LargerConf DEF TypeOK
  <1>c. /\ conf' \in [Deposit -> 0..LedgerConf]
        /\ \A d \in Deposit : conf'[d] >= conf[d]
    BY <1>a, <1>b DEF TypeOK
  <1>1. TypeOK'
    BY <1>a, <1>b, <1>c DEF TypeOK
  <1>2. CreditsAreDeep'
    BY <1>a, <1>b, <1>c DEF TypeOK, CreditsAreDeep
  <1>3. LinksFollowPosts'
    BY <1>a, <1>b, <1>c DEF TypeOK, LinksFollowPosts
  <1>4. BatchesAreCredited'
    BY <1>a, <1>b, <1>c DEF TypeOK, BatchesAreCredited
  <1>5. CreditedRowsAreBacked'
    BY <1>a, <1>b, <1>c DEF TypeOK, CreditedRowsAreBacked, CreditsAreDeep, LinksFollowPosts
  <1>6. SweptOnlyWhenCredited'
    BY <1>a, <1>b, <1>c DEF TypeOK, SweptOnlyWhenCredited
  <1>7. CreditReachesRow'
    BY <1>a, <1>b, <1>c DEF TypeOK, CreditReachesRow, CreditedRowsAreBacked
  <1>8. BatchesAreSwept'
    BY DEF TypeOK, BatchesAreSwept
  <1> QED
    BY <1>1, <1>2, <1>3, <1>4, <1>5, <1>6, <1>7, <1>8

\* A reorg voids a row that is not credited.
LEMMA VoidReorgStep ==
  ASSUME IInv, NEW o \in Observer, VoidReorg(o)
  PROVE  IInv'
  <1> USE DEF IInv, VoidReorg, Goto, deposits, chain, config, sweeping
  <1>1. TypeOK'
    BY DEF TypeOK
  <1>2. CreditsAreDeep'
    BY DEF TypeOK, CreditsAreDeep
  <1>3. LinksFollowPosts'
    BY DEF TypeOK, LinksFollowPosts
  <1>4. BatchesAreCredited'
    BY DEF TypeOK, BatchesAreCredited
  <1>5. CreditedRowsAreBacked'
    BY DEF TypeOK, CreditedRowsAreBacked, CreditsAreDeep, LinksFollowPosts
  <1>6. SweptOnlyWhenCredited'
    BY DEF TypeOK, SweptOnlyWhenCredited
  <1>7. CreditReachesRow'
    BY DEF TypeOK, CreditReachesRow, CreditedRowsAreBacked
  <1>8. BatchesAreSwept'
    BY DEF TypeOK, BatchesAreSwept
  <1> QED
    BY <1>1, <1>2, <1>3, <1>4, <1>5, <1>6, <1>7, <1>8

\* A tick sweeps what it selected as credited, and marks only credited rows.
LEMMA TickStep ==
  ASSUME IInv, NEW s \in Sweeper,
         \/ ReadConfig(s) \/ Tick(s)
         \/ \E d \in Deposit : ExecuteFails(s, d)
  PROVE  IInv'
  <1> USE DEF IInv, Tick, ReadConfig, GuardBlocks, GuardAllows, SelectBatch, Due, Execute,
              ExecuteFails, MarkSwept, EndTick, Spend, Goto, deposits, chain, config
  <1>1. TypeOK'
    <2>1. CASE ReadConfig(s)
      BY <2>1 DEF TypeOK, sweeping
    <2>2. CASE GuardBlocks(s)
      BY <2>2 DEF TypeOK, sweeping
    <2>3. CASE GuardAllows(s)
      BY <2>3 DEF TypeOK, sweeping
    <2>4. CASE SelectBatch(s)
      <3>1. PICK rows \in SUBSET Due : 
              batch' = [batch EXCEPT ![s] = {d \in rows : d \in Sweepable}]
        BY <2>4
      <3>2. batch' \in [Sweeper -> SUBSET Sweepable]
        BY <3>1 DEF TypeOK
      <3>3. \A r \in Sweeper : moved'[r] \subseteq batch'[r]
        BY <2>4, <3>1 DEF TypeOK, BatchesAreSwept
      <3> HIDE DEF Due
      <3> QED
        BY <2>4, <3>2, <3>3 DEF TypeOK, sweeping
    <2>5. CASE MarkSwept(s)
      BY <2>5 DEF TypeOK, sweeping
    <2>6. CASE EndTick(s)
      BY <2>6 DEF TypeOK, sweeping
    <2>7. ASSUME NEW d \in Deposit, Execute(s, d) \/ ExecuteFails(s, d) PROVE TypeOK'
      BY <2>7 DEF TypeOK, sweeping
    <2> QED
      BY <2>1, <2>2, <2>3, <2>4, <2>5, <2>6, <2>7
  <1>2. CreditsAreDeep'
    BY DEF TypeOK, CreditsAreDeep, sweeping
  <1>3. LinksFollowPosts'
    BY DEF TypeOK, LinksFollowPosts, sweeping
  <1>4. BatchesAreCredited'
    <2>1. CASE ReadConfig(s)
      BY <2>1 DEF TypeOK, BatchesAreCredited, CreditedRowsAreBacked, sweeping
    <2>2. CASE GuardBlocks(s)
      BY <2>2 DEF TypeOK, BatchesAreCredited, CreditedRowsAreBacked, sweeping
    <2>3. CASE GuardAllows(s)
      BY <2>3 DEF TypeOK, BatchesAreCredited, CreditedRowsAreBacked, sweeping
    <2>4. CASE SelectBatch(s)
      BY <2>4 DEF TypeOK, BatchesAreCredited, CreditedRowsAreBacked, sweeping
    <2>5. CASE MarkSwept(s)
      BY <2>5 DEF TypeOK, BatchesAreCredited, CreditedRowsAreBacked, sweeping
    <2>6. CASE EndTick(s)
      BY <2>6 DEF TypeOK, BatchesAreCredited, CreditedRowsAreBacked, sweeping
    <2>7. ASSUME NEW d \in Deposit, Execute(s, d) \/ ExecuteFails(s, d) PROVE BatchesAreCredited'
      BY <2>7 DEF TypeOK, BatchesAreCredited, CreditedRowsAreBacked, sweeping
    <2> QED
      BY <2>1, <2>2, <2>3, <2>4, <2>5, <2>6, <2>7
  <1>5. CreditedRowsAreBacked'
    BY DEF TypeOK, CreditedRowsAreBacked, sweeping
  <1>6. SweptOnlyWhenCredited'
    BY DEF TypeOK, SweptOnlyWhenCredited, CreditedRowsAreBacked, BatchesAreCredited, sweeping
  <1>7. CreditReachesRow'
    BY DEF TypeOK, CreditReachesRow, CreditedRowsAreBacked, sweeping
  <1>8. BatchesAreSwept'
    BY DEF TypeOK, BatchesAreSwept, sweeping
  <1> QED
    BY <1>1, <1>2, <1>3, <1>4, <1>5, <1>6, <1>7, <1>8

\* The rest touches no row: settings, the grace period, a call that dies.
LEMMA OtherStep ==
  ASSUME IInv,
         \/ \E b \in BOOLEAN : SetPaused(b) \/ SetTrxLow(b)
         \/ \E d \in Deposit : GraceElapses(d)
         \/ \E p \in Process : Fault(p)
         \/ UNCHANGED vars
  PROVE  IInv'
  <1> USE DEF IInv, SetPaused, SetTrxLow, GraceElapses, Fault, Spend, Goto, vars, deposits,
              chain, config, sweeping
  <1>1. TypeOK'
    BY DEF TypeOK
  <1>2. CreditsAreDeep'
    BY DEF TypeOK, CreditsAreDeep
  <1>3. LinksFollowPosts'
    BY DEF TypeOK, LinksFollowPosts
  <1>4. BatchesAreCredited'
    BY DEF TypeOK, BatchesAreCredited
  <1>5. CreditedRowsAreBacked'
    BY DEF TypeOK, CreditedRowsAreBacked
  <1>6. SweptOnlyWhenCredited'
    BY DEF TypeOK, SweptOnlyWhenCredited
  <1>7. CreditReachesRow'
    BY DEF TypeOK, CreditReachesRow
  <1>8. BatchesAreSwept'
    BY DEF TypeOK, BatchesAreSwept
  <1> QED
    BY <1>1, <1>2, <1>3, <1>4, <1>5, <1>6, <1>7, <1>8

-----------------------------------------------------------------------------

\* The invariant is inductive.
THEOREM Invariance == Spec => []IInv
  <1>1. Init => IInv
    BY InitIInv
  <1>2. IInv /\ [Next]_vars => IInv'
    BY FindStep, UpsertStep, MarkUiConfirmedStep, PostCreditStep, LinkCreditStep,
       VoidReorgStep, TickStep, OtherStep DEF Next, Observe
  <1> QED
    BY <1>1, <1>2, PTL DEF Spec

(* Type correctness of the rows and of every call in flight.               *)
THEOREM TypeCorrect == Spec => []TypeOK
  <1>1. IInv => TypeOK
    BY DEF IInv
  <1> QED
    BY <1>1, Invariance, PTL

(* A row says credited or swept only with a journal and enough depth.      *)
THEOREM CreditBacked == Spec => []CreditedRowsAreBacked
  <1>1. IInv => CreditedRowsAreBacked
    BY DEF IInv
  <1> QED
    BY <1>1, Invariance, PTL

(* Nothing leaves a deposit address before the ledger has credited it.     *)
THEOREM NoEarlySweep == Spec => []SweptOnlyWhenCredited
  <1>1. IInv => SweptOnlyWhenCredited
    BY DEF IInv
  <1> QED
    BY <1>1, Invariance, PTL

(* A credit that no fault cut short reaches the row.                       *)
THEOREM CreditLinked == Spec => []CreditReachesRow
  <1>1. IInv => CreditReachesRow
    BY DEF IInv
  <1> QED
    BY <1>1, Invariance, PTL

(* No interleaving takes a credited row anywhere but to swept.             *)
THEOREM CreditFinal == Spec => CreditedGoesOnlyToSwept
  <1> DEFINE Onward == \A d \in Deposit : status[d] = "ledger_credited" =>
                          status'[d] \in {"ledger_credited", "swept"}
  <1>1. IInv /\ [Next]_vars => [Onward]_status
    <2> SUFFICES ASSUME IInv, Next PROVE Onward \/ status' = status
      BY DEF vars, deposits
    <2>1. ASSUME NEW o \in Observer, Observe(o) PROVE Onward
      BY <2>1 DEF Observe, Upsert, MarkUiConfirmed, PostCredit, LinkCredit, VoidReorg, IInv,
            TypeOK
    <2>2. ASSUME NEW s \in Sweeper, MarkSwept(s) PROVE Onward
      BY <2>2 DEF MarkSwept
    <2> QED
      BY <2>1, <2>2 DEF Next, Find, Tick, ReadConfig, GuardBlocks, GuardAllows, SelectBatch,
         Execute, ExecuteFails, EndTick, SetPaused, SetTrxLow, GraceElapses, Fault, deposits
  <1> QED
    BY <1>1, Invariance, PTL DEF Spec, CreditedGoesOnlyToSwept

=============================================================================
