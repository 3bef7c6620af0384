---------------------------- MODULE ScanProofs ----------------------------
(***************************************************************************)
(* Proofs about the two scanners and the shadow trades they leave, for     *)
(* every set of symbols and scans, every tape, plan and length of candle,  *)
(* and any number of overlapping passes.                                   *)
(*                                                                         *)
(* Inv is the inductive invariant of the scanners: a click's rows that     *)
(* count as ready were judged against what the click observed, and a cycle *)
(* has a shadow trade for every plan it no longer has to write one for.    *)
(* ShadowInv is that of a shadow trade: what a pass holds agrees with the  *)
(* bars.                                                                   *)
(***************************************************************************)
EXTENDS OpportunityScan, ShadowTrade, WellFoundedInduction, TLAPS


\* The shadow trades a scan has yet to write stand for plans.
WritesPlans(r) ==
  r.pc = "shadow" => \A x \in r.left : r.row[x].plan # 0

\* What a click knows of its rows.
ClickOK(r, sp) ==
  /\ WritesPlans(r)
  /\ r.spent \subseteq sp
  /\ r.pc \in {"evaluate", "analyse"} => r.heldSince \subseteq r.heldAt
  /\ \A x \in Symbols :
       r.row[x].pass => r.row[x].plan \notin r.spent /\ x \notin r.heldSince
  /\ r.pc \in {"size", "shadow", "shown"} => \A x \in r.top : r.row[x].pass

\* What a cycle has written.
CycleOK(r, sh) ==
  /\ WritesPlans(r)
  /\ r.pc = "shadow" =>
       \A x \in Symbols : r.row[x].plan # 0 => x \in r.left \/ r.row[x].plan \in sh

Inv ==
  /\ TypeOK
  /\ \A s \in Clicks : ClickOK(scan[s], Spent)
  /\ \A s \in Cycles : CycleOK(scan[s], shadowed)

-----------------------------------------------------------------------------
(* Types                                                                    *)

\* The packages in hand stay packages when one is dropped or read.
LEMMA PackageOps ==
  ASSUME NEW f \in Packages, NEW x \in Symbols, NEW c \in Candles
  PROVE  without(f, x) \in Packages /\ with(f, x, c) \in Packages
<1>1. PICK S \in SUBSET Symbols : f \in [S -> Candles]
  BY DEF Packages
<1>2. without(f, x) \in [S \ {x} -> Candles] /\ with(f, x, c) \in [S \cup {x} -> Candles]
  BY <1>1 DEF without, with
<1> QED
  BY <1>2, S \ {x} \in SUBSET Symbols, S \cup {x} \in SUBSET Symbols DEF Packages

\* A package in hand was read with a candle.
LEMMA PackageCandle ==
  ASSUME NEW f \in Packages, NEW x \in DOMAIN f
  PROVE  x \in Symbols /\ f[x] \in Candles
BY DEF Packages

\* The local state of a scan that is not under way.
LEMMA IdleType == Idle \in ScanType
<1>1. [x \in {} |-> None] \in [{} -> Candles]
  OBVIOUS
<1>2. [x \in {} |-> None] \in Packages
  BY <1>1, {} \in SUBSET Symbols DEF Packages
<1>3. [x \in Symbols |-> NoRow] \in [Symbols -> RowType]
  BY ScanAssumption DEF NoRow, RowType
<1> QED
  BY <1>2, <1>3 DEF Idle, ScanType, ScanPc

\* Only one scan changes.
LEMMA ScanFrame ==
  ASSUME TypeOK, NEW s \in Scans, NEW v \in ScanType, scan' = [scan EXCEPT ![s] = v]
  PROVE  /\ scan' \in [Scans -> ScanType]
         /\ scan'[s] = v
         /\ \A t \in Scans : t # s => scan'[t] = scan[t]
BY DEF TypeOK

-----------------------------------------------------------------------------
(* One scan's step                                                          *)

\* When more plans no longer wait and more shadow trades exist, what the other scans
\* know remains true.
LEMMA KnownStays ==
  ASSUME NEW r, NEW sp, NEW sp2, sp \subseteq sp2, NEW sh, NEW sh2, sh \subseteq sh2
  PROVE  (ClickOK(r, sp) => ClickOK(r, sp2)) /\ (CycleOK(r, sh) => CycleOK(r, sh2))
BY DEF ClickOK, CycleOK, WritesPlans

\* The invariant after a step of one scan.
LEMMA OneScan ==
  ASSUME Inv, NEW s \in Scans, NEW v \in ScanType, scan' = [scan EXCEPT ![s] = v],
         candle' \in Candles, processed' \in Candles \cup {None}, held' \subseteq Symbols,
         plans' \in Seq(PlanType), Len(plans') <= MaxPlans,
         shadowed \subseteq shadowed', shadowed' \subseteq PlanIds,
         Spent \subseteq Spent',
         s \in Clicks => ClickOK(v, Spent'),
         s \in Cycles => CycleOK(v, shadowed')
  PROVE  Inv'
<1>1. /\ scan' \in [Scans -> ScanType] /\ scan'[s] = v
      /\ \A t \in Scans : t # s => scan'[t] = scan[t]
  BY ScanFrame DEF Inv
<1>2. TypeOK'
  BY <1>1 DEF TypeOK
<1>3. ASSUME NEW t \in Clicks PROVE ClickOK(scan'[t], Spent')
  <2>1. t \in Scans
    BY DEF Scans
  <2>2. CASE t = s
    BY <2>2, <1>1
  <2>3. CASE t # s
    BY <2>1, <2>3, <1>1, KnownStays DEF Inv
  <2> QED
    BY <2>2, <2>3
<1>4. ASSUME NEW t \in Cycles PROVE CycleOK(scan'[t], shadowed')
  <2>1. t \in Scans
    BY DEF Scans
  <2>2. CASE t = s
    BY <2>2, <1>1
  <2>3. CASE t # s
    BY <2>1, <2>3, <1>1, KnownStays DEF Inv
  <2> QED
    BY <2>2, <2>3
<1> QED
  BY <1>2, <1>3, <1>4 DEF Inv

\* The same for a step that leaves the tables alone.
LEMMA LocalStep ==
  ASSUME Inv, NEW s \in Scans, NEW v \in ScanType, scan' = [scan EXCEPT ![s] = v],
         UNCHANGED <<candle, plans, held, processed, shadowed>>,
         s \in Clicks => ClickOK(v, Spent),
         s \in Cycles => CycleOK(v, shadowed)
  PROVE  Inv'
<1>1. Spent' = Spent
  BY DEF Spent
<1> QED
  BY OneScan, <1>1 DEF Inv, TypeOK

\* Nothing is known of a scan that is not under way.
LEMMA IdleOK ==
  ASSUME NEW sp, NEW sh
  PROVE  ClickOK(Idle, sp) /\ CycleOK(Idle, sh)
BY DEF ClickOK, CycleOK, Idle, NoRow, WritesPlans

LEMMA StartCycleInv ==
  ASSUME Inv, NEW s \in Scans, StartCycle(s) PROVE Inv'
<1> DEFINE v == [Idle EXCEPT !.pc = "evaluate", !.boundary = candle]
<1>1. v \in ScanType
  BY IdleType DEF Inv, TypeOK, ScanType, ScanPc
<1>2. s \notin Clicks
  BY ScanAssumption DEF StartCycle
<1>3. CycleOK(v, shadowed)
  BY DEF CycleOK, Idle, WritesPlans
<1> QED
  BY <1>1, <1>2, <1>3, LocalStep DEF StartCycle

LEMMA StartClickInv ==
  ASSUME Inv, NEW s \in Scans, StartClick(s) PROVE Inv'
<1>1. PICK h \in Lists : scan' = [scan EXCEPT ![s] =
        [Idle EXCEPT !.pc = "evaluate", !.heldAt = h, !.heldSince = h, !.spent = Spent]]
  BY DEF StartClick
<1> DEFINE v == [Idle EXCEPT !.pc = "evaluate", !.heldAt = h, !.heldSince = h, !.spent = Spent]
<1>2. h \subseteq Symbols /\ Spent \subseteq PlanIds
  BY ScanAssumption DEF Inv, TypeOK, Lists, Spent, PlanIds
<1>3. v \in ScanType
  BY <1>2, IdleType DEF ScanType, ScanPc
<1>4. s \notin Cycles
  BY ScanAssumption DEF StartClick
<1>5. ClickOK(v, Spent)
  BY DEF ClickOK, Idle, NoRow, WritesPlans
<1> QED
  BY <1>1, <1>3, <1>4, <1>5, LocalStep DEF StartClick

LEMMA EvaluateAllInv ==
  ASSUME Inv, NEW s \in Scans, EvaluateAll(s) PROVE Inv'
<1>1. PICK S \in SUBSET Symbols : scan' = [scan EXCEPT ![s] =
        [scan[s] EXCEPT !.pc = "analyse", !.todo = [x \in S |-> candle]]]
  BY DEF EvaluateAll, shortlists, Eligible
<1> DEFINE v == [scan[s] EXCEPT !.pc = "analyse", !.todo = [x \in S |-> candle]]
<1>2. [x \in S |-> candle] \in Packages
  BY [x \in S |-> candle] \in [S -> Candles] DEF Packages, Inv, TypeOK
<1>3. scan[s] \in ScanType
  BY DEF Inv, TypeOK
<1>4. v \in ScanType
  BY <1>2, <1>3 DEF ScanType, ScanPc
<1>5. s \in Clicks => ClickOK(v, Spent)
  BY <1>3 DEF ClickOK, Inv, EvaluateAll, ScanType, WritesPlans
<1>6. CycleOK(v, shadowed)
  BY <1>3 DEF CycleOK, ScanType, WritesPlans
<1> QED
  BY <1>1, <1>4, <1>5, <1>6, LocalStep DEF EvaluateAll

\* A row that counts as ready was judged by a list that showed its symbol free,
\* and stands for a plan that waits for approval at this moment.
LEMMA ReuseInv ==
  ASSUME Inv, NEW s \in Scans, NEW x \in Symbols, Reuse(s, x) PROVE Inv'
<1>1. PICK p \in newest(reusable(s, x, scan[s].todo[x])), other \in {"PASS", "REJECT"} :
        scan' = [scan EXCEPT ![s] =
          [scan[s] EXCEPT !.todo = without(scan[s].todo, x), !.row[x] = reusedRow(s, p, other)]]
  BY DEF Reuse
<1> DEFINE v == [scan[s] EXCEPT !.todo = without(scan[s].todo, x),
                                !.row[x] = reusedRow(s, p, other)]
<1>2. scan[s] \in ScanType /\ p \in DOMAIN plans /\ plans[p].symbol = x /\ p \in 1 .. MaxPlans
  BY ScanAssumption DEF Inv, TypeOK, newest, reusable
<1>3. reusedRow(s, p, other) \in RowType /\ reusedRow(s, p, other).plan = p
  BY <1>2 DEF reusedRow, clickRow, cycleRow, RowType
<1>4. without(scan[s].todo, x) \in Packages
  BY <1>2, PackageOps DEF ScanType, Inv, TypeOK
<1>5. /\ v \in ScanType
      /\ v.pc = "analyse" /\ v.row[x] = reusedRow(s, p, other)
      /\ \A y \in Symbols : y # x => v.row[y] = scan[s].row[y]
      /\ v.spent = scan[s].spent /\ v.heldSince = scan[s].heldSince /\ v.heldAt = scan[s].heldAt
  BY <1>2, <1>3, <1>4 DEF ScanType, Reuse
<1> HIDE DEF v
<1>6. CycleOK(v, shadowed)
  BY <1>5 DEF CycleOK, WritesPlans
<1>7. ASSUME s \in Clicks PROVE ClickOK(v, Spent)
  <2>1. ClickOK(scan[s], Spent) /\ s \notin Cycles /\ scan[s].pc = "analyse"
    BY <1>7, ScanAssumption DEF Inv, Reuse
  <2>2. reusedRow(s, p, other).pass => p \notin Spent /\ x \notin scan[s].heldAt
    BY <1>2, <2>1 DEF reusedRow, clickRow, freshRisk, Spent
  <2>3. reusedRow(s, p, other).pass => p \notin scan[s].spent /\ x \notin scan[s].heldSince
    BY <2>1, <2>2 DEF ClickOK, WritesPlans
  <2> QED
    BY <1>3, <1>5, <2>1, <2>3 DEF ClickOK, WritesPlans
<1> QED
  BY <1>1, <1>5, <1>6, <1>7, LocalStep DEF Reuse, v

LEMMA AskInv ==
  ASSUME Inv, NEW s \in Scans, NEW x \in Symbols, Ask(s, x) PROVE Inv'
<1> DEFINE v == [scan[s] EXCEPT !.todo = without(scan[s].todo, x),
                                !.asking = with(scan[s].asking, x, candle)]
<1>1. scan[s] \in ScanType /\ candle \in Candles
  BY DEF Inv, TypeOK
<1>2. without(scan[s].todo, x) \in Packages /\ with(scan[s].asking, x, candle) \in Packages
  BY <1>1, PackageOps DEF ScanType
<1>3. v \in ScanType /\ v.pc = "analyse"
  BY <1>1, <1>2 DEF ScanType, Ask
<1>4. s \in Clicks => ClickOK(v, Spent)
  BY <1>1 DEF ClickOK, Inv, ScanType, WritesPlans
<1>5. CycleOK(v, shadowed)
  BY <1>3 DEF CycleOK, WritesPlans
<1> QED
  BY <1>3, <1>4, <1>5, LocalStep DEF Ask

LEMMA AnswerNothingInv ==
  ASSUME Inv, NEW s \in Scans, NEW x \in Symbols, AnswerNothing(s, x) PROVE Inv'
<1> DEFINE v == [scan[s] EXCEPT !.asking = without(scan[s].asking, x)]
<1>1. scan[s] \in ScanType
  BY DEF Inv, TypeOK
<1>2. without(scan[s].asking, x) \in Packages
  BY <1>1, PackageOps DEF ScanType, Inv, TypeOK
<1>3. v \in ScanType /\ v.pc = "analyse"
  BY <1>1, <1>2 DEF ScanType, AnswerNothing
<1>4. s \in Clicks => ClickOK(v, Spent)
  BY <1>1 DEF ClickOK, Inv, ScanType, WritesPlans
<1>5. CycleOK(v, shadowed)
  BY <1>3 DEF CycleOK, WritesPlans
<1> QED
  BY <1>3, <1>4, <1>5, LocalStep DEF AnswerNothing

\* A new plan is judged by lists of this moment, and no click has seen it before.
LEMMA AnswerPlanInv ==
  ASSUME Inv, NEW s \in Scans, NEW x \in Symbols, AnswerPlan(s, x) PROVE Inv'
<1>1. PICK h \in Lists, other \in {"PASS", "REJECT"} :
        LET risk == IF x \in h THEN "REJECT" ELSE other
            plan == [symbol |-> x, candle |-> scan[s].asking[x],
                     status |-> IF risk = "PASS" THEN "WAITING_FOR_APPROVAL" ELSE "RISK_BLOCKED",
                     size |-> 1]
        IN /\ plans' = Append(plans, plan)
           /\ scan' = [scan EXCEPT ![s] =
                [scan[s] EXCEPT !.asking = without(scan[s].asking, x),
                                !.heldSince = scan[s].heldSince \cap h,
                                !.row[x] = [plan |-> Len(plans) + 1, pass |-> risk = "PASS"]]]
  BY DEF AnswerPlan
<1> DEFINE risk == IF x \in h THEN "REJECT" ELSE other
           plan == [symbol |-> x, candle |-> scan[s].asking[x],
                    status |-> IF risk = "PASS" THEN "WAITING_FOR_APPROVAL" ELSE "RISK_BLOCKED",
                    size |-> 1]
           v == [scan[s] EXCEPT !.asking = without(scan[s].asking, x),
                                !.heldSince = scan[s].heldSince \cap h,
                                !.row[x] = [plan |-> Len(plans) + 1, pass |-> risk = "PASS"]]
<1>2. plans' = Append(plans, plan) /\ scan' = [scan EXCEPT ![s] = v]
  BY <1>1
<1>3. /\ scan[s] \in ScanType /\ plans \in Seq(PlanType) /\ Len(plans) < MaxPlans
      /\ MaxPlans \in Nat /\ candle' = candle /\ held' = held
      /\ processed' = processed /\ shadowed' = shadowed
  BY ScanAssumption DEF Inv, TypeOK, AnswerPlan
<1>4. plan \in PlanType
  <2>1. scan[s].asking[x] \in Candles
    BY <1>3, PackageCandle DEF ScanType, AnswerPlan
  <2> QED
    BY <2>1 DEF PlanType, PlanStatus
<1> HIDE DEF plan
<1>5. /\ plans' \in Seq(PlanType) /\ Len(plans') <= MaxPlans
      /\ DOMAIN plans = 1 .. Len(plans) /\ DOMAIN plans' = 1 .. Len(plans) + 1
      /\ \A p \in DOMAIN plans : plans'[p] = plans[p]
  BY <1>2, <1>3, <1>4
<1>6. Spent \subseteq Spent' /\ Len(plans) + 1 \notin Spent
  BY <1>3, <1>5 DEF Spent
<1>7. without(scan[s].asking, x) \in Packages /\ scan[s].heldSince \cap h \in SUBSET Symbols
  BY <1>3, PackageOps DEF ScanType, Inv, TypeOK
<1>8. [plan |-> Len(plans) + 1, pass |-> risk = "PASS"] \in RowType
  BY <1>3 DEF RowType
<1>9. /\ v \in ScanType /\ v.pc = "analyse" /\ v.spent = scan[s].spent
      /\ v.heldAt = scan[s].heldAt /\ v.heldSince = scan[s].heldSince \cap h
      /\ v.row[x] = [plan |-> Len(plans) + 1, pass |-> risk = "PASS"]
      /\ \A y \in Symbols : y # x => v.row[y] = scan[s].row[y]
  BY <1>3, <1>7, <1>8 DEF ScanType, AnswerPlan
<1>10. risk = "PASS" => x \notin h
  OBVIOUS
<1> HIDE DEF v, risk
<1>11. s \in Clicks => ClickOK(v, Spent')
  <2> SUFFICES ASSUME s \in Clicks PROVE ClickOK(v, Spent')
    OBVIOUS
  <2>1. ClickOK(scan[s], Spent) /\ scan[s].pc = "analyse"
    BY DEF Inv, AnswerPlan
  <2>2. v.spent \subseteq Spent' /\ Len(plans) + 1 \notin v.spent
    BY <2>1, <1>6, <1>9 DEF ClickOK, WritesPlans
  <2>3. ASSUME NEW y \in Symbols, v.row[y].pass
        PROVE  v.row[y].plan \notin v.spent /\ y \notin v.heldSince
    <3>1. CASE y = x
      <4>1. v.row[y].plan = Len(plans) + 1 /\ v.row[y].pass = (risk = "PASS")
        BY <3>1, <1>9
      <4>2. x \notin h
        BY <4>1, <2>3, <1>10
      <4> QED
        BY <4>1, <4>2, <3>1, <2>2, <1>9
    <3>2. CASE y # x
      BY <3>2, <2>1, <2>3, <1>9 DEF ClickOK, WritesPlans
    <3> QED
      BY <3>1, <3>2
  <2> QED
    BY <2>1, <2>2, <2>3, <1>9 DEF ClickOK, WritesPlans
<1>12. CycleOK(v, shadowed')
  BY <1>9 DEF CycleOK, WritesPlans
<1> QED
  BY <1>2, <1>3, <1>5, <1>6, <1>9, <1>11, <1>12, OneScan DEF Inv, TypeOK

LEMMA RankClickInv ==
  ASSUME Inv, NEW s \in Scans, RankClick(s) PROVE Inv'
<1>1. PICK T \in preflighted(s) : scan' = [scan EXCEPT ![s] =
        [scan[s] EXCEPT !.pc = "shadow", !.heldAt = {}, !.top = T, !.left = actionable(s)]]
  BY DEF RankClick
<1> DEFINE v == [scan[s] EXCEPT !.pc = "shadow", !.heldAt = {}, !.top = T,
                                !.left = actionable(s)]
<1>2. scan[s] \in ScanType
  BY DEF Inv, TypeOK
<1>3. T \subseteq Symbols /\ actionable(s) \subseteq Symbols /\ \A x \in T : scan[s].row[x].pass
  BY DEF preflighted, actionable
<1>4. v \in ScanType
  BY <1>2, <1>3 DEF ScanType, ScanPc
<1>5. s \in Clicks => ClickOK(v, Spent)
  BY <1>2, <1>3 DEF ClickOK, Inv, ScanType, WritesPlans, actionable
<1>6. s \notin Cycles
  BY ScanAssumption DEF RankClick
<1> QED
  BY <1>1, <1>4, <1>5, <1>6, LocalStep DEF RankClick

LEMMA RankCycleInv ==
  ASSUME Inv, NEW s \in Scans, RankCycle(s) PROVE Inv'
<1>1. PICK T \in preflighted(s) : scan' = [scan EXCEPT ![s] =
        [scan[s] EXCEPT !.pc = "size", !.top = T, !.left = T]]
  BY DEF RankCycle
<1> DEFINE v == [scan[s] EXCEPT !.pc = "size", !.top = T, !.left = T]
<1>2. scan[s] \in ScanType /\ T \subseteq Symbols
  BY DEF Inv, TypeOK, preflighted, actionable
<1>3. v \in ScanType /\ CycleOK(v, shadowed)
  BY <1>2 DEF ScanType, ScanPc, CycleOK, WritesPlans
<1>4. s \notin Clicks
  BY ScanAssumption DEF RankCycle
<1> QED
  BY <1>1, <1>3, <1>4, LocalStep DEF RankCycle

\* The tier's size reaches only a plan that still waits.
LEMMA Resized ==
  ASSUME TypeOK, NEW q, resize(q)
  PROVE  /\ plans' \in Seq(PlanType) /\ Len(plans') = Len(plans)
         /\ \A p \in DOMAIN plans : /\ plans'[p].status = plans[p].status
                                    /\ plans[p].status # "WAITING_FOR_APPROVAL" => plans'[p] = plans[p]
<1>1. plans \in Seq(PlanType) /\ DOMAIN plans = 1 .. Len(plans) /\ Len(plans) \in Nat
  BY DEF TypeOK
<1>2. CASE plans' = plans
  BY <1>1, <1>2
<1>3. CASE plans[q].status = "WAITING_FOR_APPROVAL" /\ plans' = [plans EXCEPT ![q].size = 2]
  <2>1. CASE q \notin DOMAIN plans
    <3>1. plans' = plans
      BY <2>1, <1>1, <1>3
    <3> QED
      BY <3>1, <1>1
  <2>2. CASE q \in DOMAIN plans
    <3> DEFINE w == [plans[q] EXCEPT !.size = 2]
    <3>1. w \in PlanType /\ w.status = plans[q].status
      <4>1. plans[q] \in PlanType
        BY <2>2, <1>1
      <4> QED
        BY <4>1 DEF PlanType
    <3>2. plans' = [plans EXCEPT ![q] = w]
      BY <1>3
    <3> HIDE DEF w
    <3>3. plans' \in Seq(PlanType) /\ Len(plans') = Len(plans)
      BY <3>1, <3>2, <2>2, <1>1
    <3>4. plans'[q] = w /\ \A p \in DOMAIN plans : p # q => plans'[p] = plans[p]
      BY <3>2, <2>2, <1>1
    <3>5. ASSUME NEW p \in DOMAIN plans
          PROVE  /\ plans'[p].status = plans[p].status
                 /\ plans[p].status # "WAITING_FOR_APPROVAL" => plans'[p] = plans[p]
      <4>1. CASE p = q
        BY <4>1, <3>1, <3>4, <1>3
      <4>2. CASE p # q
        BY <4>2, <3>4
      <4> QED
        BY <4>1, <4>2
    <3> QED
      BY <3>3, <3>5
  <2> QED
    BY <2>1, <2>2
<1> QED
  BY <1>2, <1>3 DEF resize

LEMMA SizeInv ==
  ASSUME Inv, NEW s \in Scans, NEW x \in Symbols, Size(s, x) PROVE Inv'
<1> DEFINE v == [scan[s] EXCEPT !.left = scan[s].left \ {x}]
<1>1. scan[s] \in ScanType /\ plans \in Seq(PlanType) /\ Len(plans) <= MaxPlans
  BY DEF Inv, TypeOK
<1>2. v \in ScanType /\ v.pc = "size"
  BY <1>1 DEF ScanType, Size
<1>3. plans' \in Seq(PlanType) /\ Len(plans') <= MaxPlans /\ Spent' = Spent
  <2>1. resize(scan[s].row[x].plan)
    BY DEF Size
  <2>2. /\ plans' \in Seq(PlanType) /\ Len(plans') = Len(plans)
        /\ \A p \in DOMAIN plans : plans'[p].status = plans[p].status
    BY <2>1, Resized DEF Inv
  <2>3. DOMAIN plans' = DOMAIN plans
    BY <2>2, <1>1
  <2> QED
    BY <2>2, <2>3, <1>1 DEF Spent
<1>4. s \in Clicks => ClickOK(v, Spent)
  BY <1>1 DEF ClickOK, Inv, ScanType, WritesPlans
<1>5. CycleOK(v, shadowed)
  BY <1>2 DEF CycleOK, WritesPlans
<1> QED
  BY <1>1, <1>2, <1>3, <1>4, <1>5, OneScan DEF Size, Inv, TypeOK

LEMMA SaveInv ==
  ASSUME Inv, NEW s \in Scans, Save(s) PROVE Inv'
<1> DEFINE v == [scan[s] EXCEPT !.pc = "shadow", !.left = actionable(s)]
<1>1. scan[s] \in ScanType /\ actionable(s) \subseteq Symbols
  BY DEF Inv, TypeOK, actionable
<1>2. v \in ScanType
  BY <1>1 DEF ScanType, ScanPc
<1>3. CycleOK(v, shadowed)
  BY <1>1 DEF CycleOK, ScanType, actionable, WritesPlans
<1>4. s \in Clicks => ClickOK(v, Spent)
  BY <1>1 DEF ClickOK, Inv, ScanType, Save, WritesPlans, actionable
<1> QED
  BY <1>2, <1>3, <1>4, LocalStep DEF Save

LEMMA CreateShadowInv ==
  ASSUME Inv, NEW s \in Scans, NEW x \in Symbols, CreateShadow(s, x) PROVE Inv'
<1> DEFINE v == [scan[s] EXCEPT !.left = scan[s].left \ {x}]
<1>1. scan[s] \in ScanType /\ shadowed \subseteq PlanIds
  BY DEF Inv, TypeOK
<1>2. v \in ScanType
  BY <1>1 DEF ScanType
<1>3. s \in Clicks => ClickOK(v, Spent)
  BY <1>1 DEF ClickOK, Inv, ScanType, WritesPlans
<1>4. s \in Cycles => CycleOK(v, shadowed')
  BY <1>1 DEF CycleOK, Inv, ScanType, CreateShadow, WritesPlans
<1>5. shadowed' \subseteq PlanIds
  <2>1. scan[s].row[x].plan \in PlanIds
    BY <1>1 DEF ClickOK, CycleOK, WritesPlans, Inv, ScanType, RowType, PlanIds, CreateShadow, Scans
  <2> QED
    BY <2>1, <1>1 DEF CreateShadow
<1>6. Spent' = Spent
  BY DEF Spent, CreateShadow
<1> QED
  BY <1>1, <1>2, <1>3, <1>4, <1>5, <1>6, OneScan DEF CreateShadow, Inv, TypeOK

LEMMA GiveUpShadowsInv ==
  ASSUME Inv, NEW s \in Scans, GiveUpShadows(s) PROVE Inv'
<1> DEFINE v == [scan[s] EXCEPT !.left = {}]
<1>1. scan[s] \in ScanType /\ s \notin Cycles
  BY ScanAssumption DEF Inv, TypeOK, GiveUpShadows
<1>2. v \in ScanType /\ (s \in Clicks => ClickOK(v, Spent))
  BY <1>1 DEF ClickOK, Inv, ScanType, WritesPlans
<1> QED
  BY <1>1, <1>2, LocalStep DEF GiveUpShadows

LEMMA ShowInv ==
  ASSUME Inv, NEW s \in Scans, Show(s) PROVE Inv'
<1> DEFINE v == [scan[s] EXCEPT !.pc = "shown"]
<1>1. scan[s] \in ScanType /\ s \notin Cycles
  BY ScanAssumption DEF Inv, TypeOK, Show
<1>2. v \in ScanType /\ (s \in Clicks => ClickOK(v, Spent))
  BY <1>1 DEF ClickOK, Inv, ScanType, ScanPc, Show, WritesPlans
<1> QED
  BY <1>1, <1>2, LocalStep DEF Show

LEMMA StopInv ==
  ASSUME Inv, NEW s \in Scans, Leave(s) \/ Record(s) \/ Fail(s) PROVE Inv'
<1>1. scan' = [scan EXCEPT ![s] = Idle]
  BY DEF Leave, Record, Fail
<1>2. processed' \in Candles \cup {None}
  <2>1. scan[s] \in ScanType /\ processed \in Candles \cup {None}
    BY DEF Inv, TypeOK
  <2> QED
    BY <2>1 DEF Leave, Record, Fail, ScanType
<1>3. UNCHANGED <<candle, plans, held, shadowed>>
  BY DEF Leave, Record, Fail
<1>4. Spent' = Spent
  BY <1>3 DEF Spent
<1>5. Idle \in ScanType /\ ClickOK(Idle, Spent') /\ CycleOK(Idle, shadowed')
  BY IdleType, IdleOK
<1> QED
  BY <1>1, <1>2, <1>3, <1>4, <1>5, OneScan DEF Inv, TypeOK

-----------------------------------------------------------------------------
(* The steps of the world                                                   *)

\* A step of one plan's status.
LEMMA StatusSet ==
  ASSUME TypeOK, NEW q \in DOMAIN plans, NEW st \in PlanStatus,
         plans' = [plans EXCEPT ![q].status = st]
  PROVE  /\ plans' \in Seq(PlanType) /\ Len(plans') = Len(plans)
         /\ Spent \ {q} \subseteq Spent'
         /\ st # "WAITING_FOR_APPROVAL" => Spent \subseteq Spent'
         /\ \A p \in DOMAIN plans : plans'[p].size = plans[p].size
<1> DEFINE w == [plans[q] EXCEPT !.status = st]
<1>1. plans \in Seq(PlanType) /\ DOMAIN plans = 1 .. Len(plans) /\ Len(plans) \in Nat
  BY DEF TypeOK
<1>2. w \in PlanType /\ w.status = st /\ w.size = plans[q].size
  <2>1. plans[q] \in PlanType
    BY <1>1
  <2> QED
    BY <2>1 DEF PlanType
<1>3. plans' = [plans EXCEPT ![q] = w]
  OBVIOUS
<1> HIDE DEF w
<1>4. plans' \in Seq(PlanType) /\ Len(plans') = Len(plans) /\ DOMAIN plans' = DOMAIN plans
  BY <1>1, <1>2, <1>3
<1>5. plans'[q] = w /\ \A p \in DOMAIN plans : p # q => plans'[p] = plans[p]
  BY <1>1, <1>3
<1> QED
  BY <1>2, <1>4, <1>5 DEF Spent

\* A claim, an answer and an ending take one plan out of the waiting ones.
LEMMA Moved ==
  ASSUME TypeOK, NEW q \in DOMAIN plans, NEW st \in PlanStatus \ {"WAITING_FOR_APPROVAL"},
         plans' = [plans EXCEPT ![q].status = st]
  PROVE  plans' \in Seq(PlanType) /\ Len(plans') = Len(plans) /\ Spent \subseteq Spent'
BY StatusSet

\* The scans read nothing of a step that leaves them alone.
LEMMA WorldStep ==
  ASSUME Inv, scan' = scan, shadowed' = shadowed, processed' = processed,
         candle' \in Candles, held' \subseteq Symbols,
         plans' \in Seq(PlanType), Len(plans') = Len(plans), Spent \subseteq Spent'
  PROVE  Inv'
<1>1. TypeOK'
  BY DEF Inv, TypeOK
<1>2. \A s \in Clicks : ClickOK(scan'[s], Spent')
  BY KnownStays DEF Inv
<1> QED
  BY <1>1, <1>2 DEF Inv

LEMMA ClaimInv ==
  ASSUME Inv, NEW p \in DOMAIN plans, Claim(p) PROVE Inv'
BY Moved, WorldStep DEF Claim, PlanStatus, Inv, TypeOK

LEMMA SubmitInv ==
  ASSUME Inv, NEW p \in DOMAIN plans, Submit(p) PROVE Inv'
<1>1. plans[p].symbol \in Symbols /\ held \subseteq Symbols
  <2>1. plans[p] \in PlanType /\ held \subseteq Symbols
    BY DEF Inv, TypeOK
  <2> QED
    BY <2>1 DEF PlanType
<1>2. held' \subseteq Symbols
  BY <1>1 DEF Submit
<1>3. PICK st \in {"PLACED", "EXECUTION_FAILED"} : plans' = [plans EXCEPT ![p].status = st]
  BY DEF Submit
<1>4. plans' \in Seq(PlanType) /\ Len(plans') = Len(plans) /\ Spent \subseteq Spent'
  BY <1>3, Moved DEF PlanStatus, Inv
<1> QED
  BY <1>2, <1>4, WorldStep DEF Submit, Inv, TypeOK

LEMMA NextCandleInv ==
  ASSUME Inv, NextCandle PROVE Inv'
<1>1. candle' \in Candles
  BY ScanAssumption DEF Inv, TypeOK, NextCandle, Candles
<1>2. Spent' = Spent
  BY DEF Spent, NextCandle
<1> QED
  BY <1>1, <1>2, WorldStep DEF NextCandle, Inv, TypeOK

\* What a click knows of its rows survives when it takes fewer symbols for held or
\* fewer plans for spent.
LEMMA LessKnown ==
  ASSUME NEW r \in ScanType, NEW v \in ScanType,
         v.pc = r.pc, v.row = r.row, v.top = r.top, v.left = r.left, v.heldAt = r.heldAt,
         v.heldSince \subseteq r.heldSince, v.spent \subseteq r.spent,
         NEW sp, NEW sh, NEW sp2, v.spent \subseteq sp2
  PROVE  /\ ClickOK(r, sp) => ClickOK(v, sp2)
         /\ CycleOK(r, sh) => CycleOK(v, sh)
<1>1. ASSUME ClickOK(r, sp) PROVE ClickOK(v, sp2)
  BY <1>1 DEF ClickOK, WritesPlans
<1>2. ASSUME CycleOK(r, sh) PROVE CycleOK(v, sh)
  BY <1>2 DEF CycleOK, WritesPlans
<1> QED
  BY <1>1, <1>2

\* A step of the world that every scan observes.
LEMMA Observed ==
  ASSUME Inv, candle' = candle, processed' = processed, shadowed' = shadowed,
         held' \subseteq Symbols, plans' \in Seq(PlanType), Len(plans') <= MaxPlans,
         DOMAIN scan' = Scans,
         \A s \in Scans : /\ scan'[s] \in ScanType
                          /\ scan'[s] = [scan[s] EXCEPT !.heldSince = scan'[s].heldSince,
                                                        !.spent = scan'[s].spent]
                          /\ scan'[s].heldSince \subseteq scan[s].heldSince
                          /\ scan'[s].spent \subseteq scan[s].spent,
         \A s \in Clicks : scan'[s].spent \subseteq Spent',
         scan' = [s \in Scans |-> scan'[s]]
  PROVE  Inv'
<1>1. scan' \in [Scans -> ScanType]
  OBVIOUS
<1>2. TypeOK'
  BY <1>1 DEF Inv, TypeOK
<1>3. ASSUME NEW s \in Scans
      PROVE  /\ scan[s] \in ScanType /\ scan'[s] \in ScanType
             /\ scan'[s].pc = scan[s].pc /\ scan'[s].row = scan[s].row
             /\ scan'[s].top = scan[s].top /\ scan'[s].left = scan[s].left
             /\ scan'[s].heldAt = scan[s].heldAt
             /\ scan'[s].heldSince \subseteq scan[s].heldSince
             /\ scan'[s].spent \subseteq scan[s].spent
  <2>1. scan[s] \in ScanType
    BY DEF Inv, TypeOK
  <2> DEFINE H == scan'[s].heldSince
             S == scan'[s].spent
  <2>2. scan'[s] = [scan[s] EXCEPT !.heldSince = H, !.spent = S]
    OBVIOUS
  <2> HIDE DEF H, S
  <2>3. /\ scan'[s].pc = scan[s].pc /\ scan'[s].row = scan[s].row
        /\ scan'[s].top = scan[s].top /\ scan'[s].left = scan[s].left
        /\ scan'[s].heldAt = scan[s].heldAt
    BY <2>1, <2>2 DEF ScanType
  <2> QED
    BY <1>3, <2>1, <2>3
<1>4. ASSUME NEW s \in Clicks PROVE ClickOK(scan'[s], Spent')
  <2>1. s \in Scans /\ ClickOK(scan[s], Spent) /\ scan'[s].spent \subseteq Spent'
    BY DEF Inv, Scans
  <2> QED
    BY <2>1, <1>3, LessKnown
<1>5. ASSUME NEW s \in Cycles PROVE CycleOK(scan'[s], shadowed')
  <2>1. s \in Scans /\ CycleOK(scan[s], shadowed)
    BY DEF Inv, Scans
  <2> QED
    BY <2>1, <1>3, LessKnown
<1> QED
  BY <1>2, <1>4, <1>5 DEF Inv

\* A plan that waits again is not spent for any scan.
LEMMA ReleaseInv ==
  ASSUME Inv, NEW p \in DOMAIN plans, Release(p) PROVE Inv'
<1>1. plans' = [plans EXCEPT ![p].status = "WAITING_FOR_APPROVAL"]
      /\ scan' = [s \in Scans |-> [scan[s] EXCEPT !.spent = scan[s].spent \ {p}]]
  BY DEF Release
<1>2. plans' \in Seq(PlanType) /\ Len(plans') = Len(plans) /\ Spent \ {p} \subseteq Spent'
  BY <1>1, StatusSet DEF Inv, PlanStatus
<1>3. ASSUME NEW s \in Scans
      PROVE  /\ scan'[s] \in ScanType /\ scan'[s].heldSince = scan[s].heldSince
             /\ scan'[s].spent = scan[s].spent \ {p}
             /\ scan'[s] = [scan[s] EXCEPT !.heldSince = scan'[s].heldSince,
                                           !.spent = scan'[s].spent]
  <2>1. scan[s] \in ScanType /\ scan'[s] = [scan[s] EXCEPT !.spent = scan[s].spent \ {p}]
    BY <1>1 DEF Inv, TypeOK
  <2> QED
    BY <2>1 DEF ScanType
<1>4. \A s \in Clicks : scan'[s].spent \subseteq Spent'
  <2>1. \A s \in Clicks : s \in Scans /\ scan[s].spent \subseteq Spent
    BY DEF Inv, ClickOK, Scans
  <2> QED
    BY <2>1, <1>2, <1>3
<1>5. scan' = [s \in Scans |-> scan'[s]] /\ DOMAIN scan' = Scans
  BY <1>1
<1> QED
  BY <1>2, <1>3, <1>4, <1>5, Observed DEF Release, Inv, TypeOK

LEMMA FreeInv ==
  ASSUME Inv, NEW x \in Symbols, Free(x) PROVE Inv'
<1>1. scan' = [s \in Scans |-> [scan[s] EXCEPT !.heldSince = scan[s].heldSince \ {x}]]
  BY DEF Free
<1>2. Spent' = Spent
  BY DEF Spent, Free
<1>3. ASSUME NEW s \in Scans
      PROVE  /\ scan'[s] \in ScanType /\ scan'[s].heldSince = scan[s].heldSince \ {x}
             /\ scan'[s].spent = scan[s].spent
             /\ scan'[s] = [scan[s] EXCEPT !.heldSince = scan'[s].heldSince,
                                           !.spent = scan'[s].spent]
  <2>1. scan[s] \in ScanType /\ scan'[s] = [scan[s] EXCEPT !.heldSince = scan[s].heldSince \ {x}]
    BY <1>1 DEF Inv, TypeOK
  <2> QED
    BY <2>1 DEF ScanType
<1>4. \A s \in Clicks : scan'[s].spent \subseteq Spent'
  BY <1>2, <1>3 DEF Inv, ClickOK, Scans
<1>5. scan' = [s \in Scans |-> scan'[s]] /\ DOMAIN scan' = Scans
  BY <1>1
<1> QED
  BY <1>3, <1>4, <1>5, Observed DEF Free, Inv, TypeOK

LEMMA EndInv ==
  ASSUME Inv, NEW p \in DOMAIN plans, End(p) PROVE Inv'
BY Moved, WorldStep DEF End, PlanStatus, Inv, TypeOK

LEMMA RestartInv ==
  ASSUME Inv, Restart PROVE Inv'
<1>1. TypeOK'
  BY IdleType DEF Restart, Inv, TypeOK
<1>2. \A s \in Scans : scan'[s] = Idle
  BY DEF Restart
<1> QED
  BY <1>1, <1>2, IdleOK DEF Inv, Scans

-----------------------------------------------------------------------------
(* The invariant and what follows from it                                   *)

LEMMA InitInv == Init => Inv
<1> SUFFICES ASSUME Init PROVE Inv
  OBVIOUS
<1>1. TypeOK
  BY IdleType, ScanAssumption DEF Init, TypeOK, Candles, None
<1>2. \A s \in Scans : scan[s] = Idle
  BY DEF Init
<1> QED
  BY <1>1, <1>2, IdleOK DEF Inv, Scans

LEMMA StepInv == ASSUME Inv, NEW s \in Scans, Step(s) PROVE Inv'
<1>1. CASE \E x \in Symbols : \/ Reuse(s, x) \/ Ask(s, x) \/ AnswerPlan(s, x)
                              \/ AnswerNothing(s, x) \/ Size(s, x) \/ CreateShadow(s, x)
  BY <1>1, ReuseInv, AskInv, AnswerPlanInv, AnswerNothingInv, SizeInv, CreateShadowInv
<1>2. CASE \/ StartCycle(s) \/ StartClick(s) \/ EvaluateAll(s) \/ RankClick(s) \/ RankCycle(s)
  BY <1>2, StartCycleInv, StartClickInv, EvaluateAllInv, RankClickInv, RankCycleInv
<1>3. CASE \/ Save(s) \/ GiveUpShadows(s) \/ Show(s) \/ Leave(s) \/ Record(s) \/ Fail(s)
  BY <1>3, SaveInv, GiveUpShadowsInv, ShowInv, StopInv
<1> QED
  BY <1>1, <1>2, <1>3 DEF Step

\* A step that changes nothing.
LEMMA StutterInv == ASSUME Inv, UNCHANGED vars PROVE Inv'
<1>1. Spent' = Spent
  BY DEF vars, Spent
<1> QED
  BY <1>1, WorldStep DEF vars, Inv, TypeOK

\* The inductive invariant holds of every behaviour.
THEOREM Invariant == Spec => []Inv
<1>1. Inv /\ [Next]_vars => Inv'
  <2> SUFFICES ASSUME Inv, [Next]_vars PROVE Inv'
    OBVIOUS
  <2>1. CASE \E s \in Scans : Step(s)
    BY <2>1, StepInv
  <2>2. CASE \E p \in DOMAIN plans : Claim(p) \/ Submit(p) \/ Release(p) \/ End(p)
    BY <2>2, ClaimInv, SubmitInv, ReleaseInv, EndInv
  <2>3. CASE NextCandle \/ Restart \/ \E x \in Symbols : Free(x)
    BY <2>3, NextCandleInv, RestartInv, FreeInv
  <2>4. CASE UNCHANGED vars
    BY <2>4, StutterInv
  <2> QED
    BY <2>1, <2>2, <2>3, <2>4 DEF Next
<1> QED
  BY InitInv, <1>1, PTL DEF Spec

\* The rows and the scans keep their types.
THEOREM TypeCorrect == Spec => []TypeOK
<1>1. Inv => TypeOK
  BY DEF Inv
<1> QED
  BY <1>1, Invariant, PTL

\* FIND BEST TRADES never shows a plan that has not waited for approval since the
\* scan began: the reuse cache ignores the status, the row it becomes does not, and
\* a released plan may be shown again.
THEOREM CardsAreFresh == Spec => []ManualCardsFresh
<1>1. Inv => ManualCardsFresh
  <2> SUFFICES ASSUME Inv, NEW s \in Clicks, scan[s].pc = "shown", NEW x \in scan[s].top
               PROVE  scan[s].row[x].plan \notin scan[s].spent
    BY DEF ManualCardsFresh
  <2>1. ClickOK(scan[s], Spent) /\ x \in Symbols
    BY DEF Inv, TypeOK, ScanType, Scans
  <2> QED
    BY <2>1 DEF ClickOK
<1> QED
  BY <1>1, Invariant, PTL

\* Nor a symbol that was held throughout the scan: every ready row was judged by a
\* list read within the scan.
THEOREM CardsAreFree == Spec => []HeldNeverOffered
<1>1. Inv => HeldNeverOffered
  <2> SUFFICES ASSUME Inv, NEW s \in Clicks, scan[s].pc = "shown", NEW x \in scan[s].top
               PROVE  x \notin scan[s].heldSince
    BY DEF HeldNeverOffered
  <2>1. ClickOK(scan[s], Spent) /\ x \in Symbols
    BY DEF Inv, TypeOK, ScanType, Scans
  <2> QED
    BY <2>1 DEF ClickOK
<1> QED
  BY <1>1, Invariant, PTL

\* A cycle records its candle only when every plan has its shadow trade.
THEOREM CyclesAreComplete == Spec => CycleComplete
<1>1. Inv => \A s \in Cycles : Record(s) =>
               \A x \in actionable(s) : scan[s].row[x].plan \in shadowed
  BY DEF Inv, CycleOK, Record, actionable
<1>2. Inv /\ [Next]_vars => [\A s \in Cycles : Record(s) =>
               \A x \in actionable(s) : scan[s].row[x].plan \in shadowed]_vars
  BY <1>1
<1> QED
  BY <1>2, Invariant, PTL DEF Spec, CycleComplete

\* The size of a plan that waits no more never changes.
THEOREM SizesAreFrozen == Spec => SizeFrozen
<1> DEFINE Frozen == \A p \in DOMAIN plans : plans[p].status # "WAITING_FOR_APPROVAL" =>
                       plans'[p].size = plans[p].size
<1>1. Inv /\ [Next]_vars => [Frozen]_vars
  <2> SUFFICES ASSUME Inv, Next PROVE Frozen
    OBVIOUS
  <2>1. CASE \E s \in Scans, x \in Symbols : Size(s, x)
    BY <2>1, Resized DEF Size, Inv
  <2>2. CASE \E s \in Scans, x \in Symbols : AnswerPlan(s, x)
    <3>1. \E plan : plans' = Append(plans, plan)
      BY <2>2 DEF AnswerPlan
    <3>2. plans \in Seq(PlanType)
      BY DEF Inv, TypeOK
    <3>3. \A p \in DOMAIN plans : plans'[p] = plans[p]
      BY <3>1, <3>2
    <3> QED
      BY <3>3
  <2>3. CASE \E q \in DOMAIN plans : Claim(q) \/ Submit(q) \/ Release(q) \/ End(q)
    <3>1. PICK q \in DOMAIN plans, st \in PlanStatus : plans' = [plans EXCEPT ![q].status = st]
      BY <2>3 DEF Claim, Submit, Release, End, PlanStatus
    <3> QED
      BY <3>1, StatusSet DEF Inv
  <2>4. CASE UNCHANGED plans
    BY <2>4
  <2>5. ASSUME NEW s \in Scans, Step(s)
        PROVE  UNCHANGED plans \/ \E x \in Symbols : Size(s, x) \/ AnswerPlan(s, x)
    BY <2>5 DEF Step, StartCycle, StartClick, EvaluateAll, Reuse, Ask, AnswerNothing, RankClick,
       RankCycle, Save, CreateShadow, GiveUpShadows, Show, Leave, Record, Fail
  <2>6. NextCandle \/ Restart \/ (\E x \in Symbols : Free(x)) => UNCHANGED plans
    BY DEF NextCandle, Restart, Free
  <2> HIDE DEF Frozen
  <2> QED
    BY <2>1, <2>2, <2>3, <2>4, <2>5, <2>6 DEF Next
<1> QED
  BY <1>1, Invariant, PTL DEF Spec, SizeFrozen


(***************************************************************************)
(* Candles and minutes                                                     *)
(***************************************************************************)

LEMMA Smallest ==
  ASSUME NEW S, S \subseteq Nat, S # {}
  PROVE  earliest(S) \in S /\ \A d \in S : earliest(S) <= d
<1>1. \E c \in S : \A d \in S : ~(<<d, c>> \in OpToRel(<, Nat))
  BY NatLessThanWellFounded, WFMin
<1>2. \E c \in S : \A d \in S : c <= d
  <2>1. PICK c \in S : \A d \in S : ~(<<d, c>> \in OpToRel(<, Nat)) BY <1>1
  <2>2. ASSUME NEW d \in S PROVE c <= d
    <3>1. ~(d < c) BY <2>1, <2>2 DEF OpToRel
    <3> QED BY <3>1
  <2> QED BY <2>2
<1> QED BY <1>2 DEF earliest

LEMMA Grid ==
  ASSUME NEW c \in Nat, NEW d \in Nat, CandleMinutes \in Nat \ {0}
  PROVE  /\ begins(c) \in Nat
         /\ c <= d => begins(c) <= begins(d)
         /\ begins(c + 1) = begins(c) + CandleMinutes
         /\ begins(c) < begins(d) => c < d
<1>1. begins(c) \in Nat /\ begins(d) \in Nat BY DEF begins
<1>2. begins(c + 1) = begins(c) + CandleMinutes BY DEF begins
<1>3. c <= d => begins(c) <= begins(d)
  <2> SUFFICES ASSUME c <= d PROVE begins(c) <= begins(d) OBVIOUS
  <2>1. PICK k \in Nat : d = c + k BY d - c \in Nat, d = c + (d - c)
  <2>2. begins(d) = begins(c) + k * CandleMinutes BY <2>1 DEF begins
  <2>3. k * CandleMinutes \in Nat OBVIOUS
  <2> QED BY <1>1, <2>2, <2>3
<1>4. d <= c => begins(d) <= begins(c)
  <2> SUFFICES ASSUME d <= c PROVE begins(d) <= begins(c) OBVIOUS
  <2>1. PICK k \in Nat : c = d + k BY c - d \in Nat, c = d + (c - d)
  <2>2. begins(c) = begins(d) + k * CandleMinutes BY <2>1 DEF begins
  <2>3. k * CandleMinutes \in Nat OBVIOUS
  <2> QED BY <1>1, <2>2, <2>3
<1> QED BY <1>1, <1>2, <1>3, <1>4

LEMMA Ordered ==
  ASSUME NEW c \in Nat, NEW d \in Nat, CandleMinutes \in Nat \ {0}, ~(begins(c) < begins(d))
  PROVE  d <= c
<1> SUFFICES ASSUME c < d PROVE FALSE OBVIOUS
<1>1. begins(c + 1) <= begins(d) /\ begins(c + 1) = begins(c) + CandleMinutes BY Grid
<1>2. begins(c) \in Nat /\ begins(d) \in Nat BY Grid
<1> QED BY <1>1, <1>2

LEMMA CandleOf ==
  ASSUME NEW m \in Nat \ {0}, CandleMinutes \in Nat \ {0}
  PROVE  \E c \in Nat : c <= m /\ begins(c) < m /\ m <= begins(c + 1)
<1> DEFINE c == (m - 1) \div CandleMinutes
<1>1. c \in Nat /\ c * CandleMinutes <= m - 1 /\ m - 1 < (c + 1) * CandleMinutes OBVIOUS
<1>2. c <= m - 1 OBVIOUS
<1> HIDE DEF c
<1>3. begins(c) < m /\ m <= begins(c + 1) BY <1>1 DEF begins
<1> QED BY <1>1, <1>2, <1>3

\* The first candle that begins at a time t or after it.
from(t) == (t + CandleMinutes - 1) \div CandleMinutes

LEMMA FirstCandle ==
  ASSUME NEW t \in Nat, NEW c \in Nat, CandleMinutes \in Nat \ {0}
  PROVE  from(t) \in Nat /\ (begins(c) >= t <=> from(t) <= c) /\ from(t) * CandleMinutes = begins(from(t))
<1>1. from(t) \in Nat /\ from(t) * CandleMinutes <= t + CandleMinutes - 1
      /\ t + CandleMinutes - 1 < (from(t) + 1) * CandleMinutes
  BY DEF from
<1> DEFINE f == from(t)
<1>2. f \in Nat /\ f * CandleMinutes >= t /\ f * CandleMinutes < t + CandleMinutes
  <2>1. (f + 1) * CandleMinutes = f * CandleMinutes + CandleMinutes BY <1>1
  <2>2. f * CandleMinutes \in Nat BY <1>1
  <2> QED BY <1>1, <2>1, <2>2
<1> HIDE DEF f
<1>3. begins(f) >= t /\ begins(f) < t + CandleMinutes BY <1>2 DEF begins
<1>4. f <= c => begins(c) >= t BY <1>2, <1>3, Grid
<1>5. c < f => begins(c) < t
  <2> SUFFICES ASSUME c < f PROVE begins(c) < t OBVIOUS
  <2>1. begins(c + 1) <= begins(f) BY <1>2, Grid
  <2>2. begins(c + 1) = begins(c) + CandleMinutes /\ begins(c) \in Nat /\ begins(f) \in Nat BY <1>2, Grid
  <2> QED BY <1>3, <2>1, <2>2
<1>6. begins(c) \in Nat BY Grid
<1>7. f = from(t) BY DEF f
<1> QED BY <1>2, <1>4, <1>5, <1>6, <1>7 DEF begins

(***************************************************************************)
(* The invariant                                                           *)
(***************************************************************************)

Exits == {"STOP_LOSS", "TAKE_PROFIT", "TIME_EXIT", "AMBIGUOUS_OUTCOME"}

TradeType ==
  [status : {"AWAITING_TRIGGER", "ENTERED"} \cup Final, side : {"BUY", "SELL"}, order : Orders,
   stop : Int, target : Int, planned : Int, trigger : Int, at : Nat,
   exit : Exits \cup {SqlNull}, candle : Int, entry : Int, since : Int]

PassType ==
  [pc : {"idle", "expiry", "trigger", "entered", "replay"}]
  \cup [pc : {"minutes"}, candle : Nat] \cup [pc : {"close"}, candle : Nat, exit : Exits]

Entered == trade \in TradeType /\ trade.status \in {"ENTERED", "CLOSED"} /\ trade.since \in Nat

Types ==
  /\ tape \in Seq(Bars)
  /\ trade = NoTrade \/ trade \in TradeType
  /\ trade.status \in {"ENTERED", "CLOSED"} => Entered
  /\ pass \in [Passes -> PassType]

\* A completed candle that the filter on the entry lets through.
Replayed(c) == c \in completed /\ stamp(c) >= trade.since

\* No level was touched before candle c.
Untouched(c) == \A m \in touchesSinceEntry : begins(c) < m

\* The verdict v is what the history up to now gives, and will remain so.
Settled(v) ==
  settledBy(v) /\ (v = "TIME_EXIT" => trade.since + MaxHolding <= now + BrokerAhead)

\* Verdict v was read off candle c.
ReadOff(v, c) ==
  /\ v \in Exits /\ Replayed(c) /\ shownBy(v, c)
  /\ historyInReach /\ minutesInReach(c) => Settled(v)

\* What a pass holds was read off bars that no later bar changes.
PassOK(w) ==
  /\ pass[w].pc \in {"replay", "minutes", "close"} => Entered
  /\ pass[w].pc = "minutes" =>
       /\ Replayed(pass[w].candle) /\ shownBy("AMBIGUOUS_OUTCOME", pass[w].candle)
       /\ historyInReach => Untouched(pass[w].candle)
  /\ pass[w].pc = "close" => ReadOff(pass[w].exit, pass[w].candle)

ShadowInv ==
  /\ Types
  /\ trade.status = "CLOSED" => ReadOff(trade.exit, trade.candle)
  /\ \A w \in Passes : PassOK(w)

(***************************************************************************)
(* What a candle says of its minutes                                       *)
(***************************************************************************)

LEMMA Single ==
  ASSUME NEW M
  PROVE  /\ hitStop(M) <=> \E m \in M : hitStop({m})
         /\ hitTarget(M) <=> \E m \in M : hitTarget({m})
BY DEF hitStop, hitTarget, reachedBelow, reachedAbove

LEMMA Tape ==
  ASSUME Types
  PROVE  now \in Nat /\ DOMAIN tape = 1 .. now
BY DEF Types, now

\* The filter compares the time on the bar with the entry.
LEMMA OnTape ==
  ASSUME Entered, ShadowAssumption, NEW c \in Nat
  PROVE  /\ onTape(trade.since) \in Nat
         /\ stamp(c) >= trade.since <=> begins(c) >= onTape(trade.since)
<1>1. trade.since \in Nat /\ BrokerAhead \in Nat /\ CandleMinutes \in Nat \ {0}
  BY DEF Entered, ShadowAssumption
<1>2. begins(c) \in Nat BY <1>1, Grid
<1> QED BY <1>1, <1>2 DEF onTape, stamp

LEMMA TouchesSince ==
  ASSUME Entered, NEW m, ShadowAssumption
  PROVE  m \in touchesSinceEntry
           <=> m \in DOMAIN tape /\ m > begins(from(onTape(trade.since))) /\ touches({m})
<1>1. from(onTape(trade.since)) * CandleMinutes = begins(from(onTape(trade.since))) BY DEF begins
<1> QED BY <1>1 DEF touchesSinceEntry, from

\* A minute after the entry in which a level was touched is in a candle after the entry.
LEMMA TouchedCandle ==
  ASSUME Types, Entered, ShadowAssumption, NEW m \in touchesSinceEntry, NEW c \in Nat,
         begins(c) < m, m <= begins(c + 1)
  PROVE  stamp(c) >= trade.since /\ m \in minutesOf(c) /\ touches(minutesOf(c))
<1> DEFINE t == onTape(trade.since)
<1>1. t \in Nat /\ CandleMinutes \in Nat \ {0} BY OnTape DEF ShadowAssumption
<1>2. m \in DOMAIN tape /\ m > begins(from(t)) /\ touches({m}) BY TouchesSince
<1>3. m \in minutesOf(c) BY <1>2 DEF minutesOf
<1>4. touches(minutesOf(c)) BY <1>2, <1>3, Single DEF touches
<1> HIDE DEF t
<1>5. from(t) \in Nat /\ m \in Nat
  <2>1. from(t) \in Nat BY <1>1, FirstCandle
  <2> QED BY <1>2, <2>1, Tape
<1>6. begins(from(t)) < begins(c + 1)
  <2>1. begins(from(t)) \in Nat /\ begins(c + 1) \in Nat BY <1>1, <1>5, Grid
  <2> QED BY <1>2, <1>5, <2>1
<1>7. from(t) < c + 1 BY <1>1, <1>5, <1>6, Grid
<1>8. from(t) <= c BY <1>5, <1>7
<1>9. begins(c) >= t BY <1>1, <1>8, FirstCandle
<1> QED BY <1>3, <1>4, <1>9, OnTape DEF t

LEMMA CandleMinute ==
  ASSUME Types, Entered, ShadowAssumption, NEW c, Replayed(c), NEW m \in minutesOf(c)
  PROVE  m \in Nat /\ begins(c) < m /\ (touches({m}) => m \in touchesSinceEntry)
<1> DEFINE t == onTape(trade.since)
<1>1. CandleMinutes \in Nat \ {0} /\ c \in Nat BY DEF Replayed, completed, ShadowAssumption
<1>2. t \in Nat /\ begins(c) >= t BY <1>1, OnTape DEF Replayed
<1>3. m \in DOMAIN tape /\ begins(c) < m BY DEF minutesOf
<1> HIDE DEF t
<1>4. from(t) \in Nat /\ from(t) <= c BY <1>1, <1>2, FirstCandle
<1>5. begins(from(t)) <= begins(c) /\ begins(from(t)) \in Nat /\ begins(c) \in Nat
  BY <1>1, <1>2, <1>4, Grid
<1>6. m \in Nat BY <1>3, Tape
<1>7. m > begins(from(t)) BY <1>3, <1>5, <1>6
<1> QED BY <1>3, <1>6, <1>7, TouchesSince DEF t

\* A read that reaches back to the entry misses no candle since.
LEMMA NothingMissed ==
  ASSUME Types, Entered, ShadowAssumption, historyInReach, NEW c, Replayed(c)
  PROVE  c \in candlesSince(trade.since)
<1> DEFINE k == now \div CandleMinutes
           t == trade.since
           elapsed == IF t <= now THEN now - t ELSE 0
           more == (elapsed + CandleMinutes - 1) \div CandleMinutes
           span == now - t + BrokerAhead
<1>1. /\ now \in Nat /\ t \in Nat /\ CandleMinutes \in Nat \ {0} /\ c \in Nat
      /\ BrokerAhead \in Nat /\ Buffer \in Nat /\ MaxCandles \in Nat
  BY Tape DEF Entered, ShadowAssumption, Replayed, completed
<1>2. k \in Nat /\ k * CandleMinutes <= now
  <2> HIDE DEF now
  <2> QED BY <1>1
<1>3. elapsed \in Nat /\ now - t <= elapsed BY <1>1
<1>4. more \in Nat /\ elapsed <= more * CandleMinutes
  <2> HIDE DEF elapsed
  <2>1. /\ more \in Nat /\ elapsed + CandleMinutes - 1 < (more + 1) * CandleMinutes
    BY <1>1, <1>3
  <2>2. (more + 1) * CandleMinutes = more * CandleMinutes + CandleMinutes BY <1>1, <2>1
  <2>3. more * CandleMinutes \in Nat BY <1>1, <2>1
  <2> QED BY <1>1, <1>3, <2>1, <2>2, <2>3
<1>5. /\ span <= MaxCandles * CandleMinutes
      /\ BrokerAhead <= Buffer * CandleMinutes \/ span <= Buffer * CandleMinutes
  BY DEF historyInReach
<1>6. begins(c) >= t - BrokerAhead /\ begins(c) \in Nat
  <2>1. begins(c) \in Nat BY <1>1, Grid
  <2> QED BY <1>1, <2>1 DEF Replayed, stamp
<1>7. barsNeeded(t) = IF more + Buffer <= MaxCandles THEN more + Buffer ELSE MaxCandles
  BY DEF barsNeeded
<1> HIDE DEF k, t, more, now, elapsed
<1>8. begins(k) <= begins(c) + span BY <1>1, <1>2, <1>6 DEF begins
<1>9. begins(k) <= begins(c + MaxCandles)
  <2>1. begins(c + MaxCandles) = begins(c) + MaxCandles * CandleMinutes BY <1>1 DEF begins
  <2>2. MaxCandles * CandleMinutes \in Nat /\ begins(k) \in Nat BY <1>1, <1>2 DEF begins
  <2> QED BY <1>1, <1>5, <1>6, <1>8, <2>1, <2>2
<1>10. begins(k) <= begins(c + more + Buffer)
  <2>1. begins(c + more + Buffer) = begins(c) + more * CandleMinutes + Buffer * CandleMinutes
    BY <1>1, <1>4 DEF begins
  <2>2. /\ Buffer * CandleMinutes \in Nat /\ more * CandleMinutes \in Nat /\ begins(k) \in Nat
    BY <1>1, <1>2, <1>4 DEF begins
  <2> QED BY <1>1, <1>3, <1>4, <1>5, <1>6, <1>8, <2>1, <2>2
<1>11. k <= c + MaxCandles
  <2>1. ~(begins(c + MaxCandles) < begins(k))
    <3>1. begins(c + MaxCandles) \in Nat /\ begins(k) \in Nat BY <1>1, <1>2, Grid
    <3> QED BY <1>9, <3>1
  <2> QED BY <1>1, <1>2, <2>1, Ordered
<1>12. k <= c + more + Buffer
  <2>1. c + more + Buffer \in Nat BY <1>1, <1>4
  <2>2. ~(begins(c + more + Buffer) < begins(k))
    <3>1. begins(c + more + Buffer) \in Nat /\ begins(k) \in Nat BY <1>1, <1>2, <2>1, Grid
    <3> QED BY <1>10, <3>1
  <2> QED BY <1>1, <1>2, <2>1, <2>2, Ordered
<1>13. c >= k - barsNeeded(t) BY <1>1, <1>2, <1>4, <1>7, <1>11, <1>12
<1> QED BY <1>13 DEF candlesSince, Replayed, k, t, now

\* Nothing was touched before the first candle that ends the replay.
LEMMA NothingEarlier ==
  ASSUME Types, Entered, ShadowAssumption, historyInReach, NEW c \in ending, \A d \in ending : c <= d
  PROVE  Untouched(c)
<1> SUFFICES ASSUME NEW m \in touchesSinceEntry, ~(begins(c) < m) PROVE FALSE BY DEF Untouched
<1>1. trade.since \in Nat /\ CandleMinutes \in Nat \ {0} /\ MaxMinute \in Nat
  BY DEF Entered, ShadowAssumption
<1>2. m \in Nat \ {0} /\ m \in DOMAIN tape
  <2>1. m \in DOMAIN tape BY TouchesSince
  <2> QED BY <2>1, Tape
<1>3. PICK d \in Nat : d <= m /\ begins(d) < m /\ m <= begins(d + 1) BY <1>1, <1>2, CandleOf
<1>4. stamp(d) >= trade.since /\ touches(minutesOf(d)) BY <1>3, TouchedCandle
<1>5. c \in Nat /\ c <= MaxMinute /\ begins(c + 1) <= now
  BY <1>1 DEF ending, candlesSince, completed
<1>6. /\ begins(c) \in Nat /\ begins(d) \in Nat /\ begins(d + 1) \in Nat /\ begins(c + 1) \in Nat
      /\ begins(c + 1) = begins(c) + CandleMinutes
  BY <1>1, <1>3, <1>5, Grid
<1>7. d < c
  <2>1. begins(d) < begins(c) BY <1>2, <1>3, <1>6
  <2> QED BY <1>1, <1>3, <1>5, <2>1, Grid
<1>8. begins(d + 1) <= begins(c) BY <1>1, <1>3, <1>5, <1>7, Grid
<1>9. now \in Nat BY DEF now, Types
<1>10. d \in 0 .. MaxMinute /\ begins(d + 1) <= now BY <1>1, <1>3, <1>5, <1>6, <1>7, <1>8, <1>9
<1>11. Replayed(d) BY <1>4, <1>10 DEF Replayed, completed
<1>12. d \in ending BY <1>4, <1>11, NothingMissed DEF ending
<1> QED BY <1>3, <1>5, <1>7, <1>12

\* The minutes of candle c that touch a level.
touched(c) == {m \in minutesOf(c) : touches({m})}

\* The first touch of an untouched past's candle is the first of all.
LEMMA FirstTouch ==
  ASSUME Types, Entered, ShadowAssumption, NEW c, Replayed(c), Untouched(c), touched(c) # {}
  PROVE  /\ touchesSinceEntry # {}
         /\ earliest(touchesSinceEntry) = earliest(touched(c))
         /\ earliest(touched(c)) \in touched(c)
<1>1. touched(c) \subseteq touchesSinceEntry BY CandleMinute DEF touched
<1>2. touchesSinceEntry \subseteq Nat
  <2>1. touchesSinceEntry \subseteq DOMAIN tape BY DEF touchesSinceEntry
  <2> QED BY <2>1, Tape
<1>3. /\ earliest(touched(c)) \in touched(c)
      /\ \A d \in touched(c) : earliest(touched(c)) <= d
  BY <1>1, <1>2, Smallest
<1>4. /\ earliest(touchesSinceEntry) \in touchesSinceEntry
      /\ \A d \in touchesSinceEntry : earliest(touchesSinceEntry) <= d
  BY <1>1, <1>2, Smallest
<1> DEFINE e == earliest(touchesSinceEntry)
           k == earliest(touched(c))
<1>5. e <= k /\ begins(c) < e /\ e \in Nat /\ k \in Nat BY <1>1, <1>2, <1>3, <1>4 DEF Untouched
<1>6. k \in minutesOf(c) BY <1>3 DEF touched
<1>7. e \in minutesOf(c)
  <2>1. k <= begins(c + 1) BY <1>6 DEF minutesOf
  <2>2. CandleMinutes \in Nat \ {0} /\ c \in Nat
    BY DEF ShadowAssumption, Replayed, completed
  <2>3. begins(c + 1) \in Nat BY <2>2, Grid
  <2>4. e <= begins(c + 1) BY <1>5, <2>1, <2>3
  <2>5. e \in DOMAIN tape BY <1>4, TouchesSince
  <2> QED BY <1>5, <2>4, <2>5 DEF minutesOf
<1>8. e \in touched(c) BY <1>4, <1>7, TouchesSince DEF touched
<1>9. k <= e BY <1>3, <1>8
<1>10. e = k BY <1>5, <1>9
<1> QED BY <1>1, <1>3, <1>10

(***************************************************************************)
(* Verdicts                                                                *)
(***************************************************************************)

LEMMA ReplayVerdict ==
  ASSUME Types, Entered, ShadowAssumption, NEW c \in ending, \A d \in ending : c <= d
  PROVE  /\ Replayed(c) /\ (historyInReach => Untouched(c))
         /\ verdictOf(minutesOf(c)) = "AMBIGUOUS_OUTCOME" => shownBy("AMBIGUOUS_OUTCOME", c)
         /\ verdictOf(minutesOf(c)) # "AMBIGUOUS_OUTCOME" => ReadOff(verdictOf(minutesOf(c)), c)
<1> DEFINE M == minutesOf(c)
           v == verdictOf(M)
<1>1. historyInReach => Untouched(c) BY NothingEarlier
<1>2. Replayed(c) BY DEF ending, candlesSince, Replayed
<1>3. v \in Exits /\ (v = "AMBIGUOUS_OUTCOME" => hitStop(M) /\ hitTarget(M)) BY DEF verdictOf, Exits
<1>4. CASE v \in {"STOP_LOSS", "TAKE_PROFIT"}
  <2>1. touches(M) BY <1>4 DEF verdictOf, touches
  <2>2. touched(c) # {} BY <2>1, Single DEF touched, touches
  <2>3. shownBy(v, c) BY <1>4 DEF verdictOf, shownBy
  <2>4. ASSUME historyInReach PROVE Settled(v)
    <3>1. /\ touchesSinceEntry # {}
          /\ earliest(touchesSinceEntry) = earliest(touched(c))
          /\ earliest(touched(c)) \in touched(c)
      BY <1>1, <1>2, <2>2, <2>4, FirstTouch
    <3> DEFINE m == earliest(touched(c))
    <3>2. m \in M /\ touches({m}) BY <3>1 DEF touched
    <3> HIDE DEF m
    <3>3. (hitStop({m}) => hitStop(M)) /\ (hitTarget({m}) => hitTarget(M)) BY <3>2, Single
    <3>4. verdictOf({m}) = v BY <1>4, <3>2, <3>3 DEF verdictOf, touches
    <3> QED BY <1>4, <3>1, <3>4 DEF Settled, settledBy, m
  <2> QED BY <1>1, <1>2, <1>3, <1>4, <2>3, <2>4 DEF ReadOff
<1>5. CASE v = "TIME_EXIT"
  <2>1. ~touches(M) BY <1>5 DEF verdictOf, touches
  <2>2. stamp(c) >= trade.since + MaxHolding BY <2>1 DEF ending
  <2>3. /\ c \in Nat /\ begins(c + 1) <= now /\ CandleMinutes \in Nat \ {0} /\ MaxHolding \in Nat
        /\ BrokerAhead \in Nat
    BY DEF ending, candlesSince, completed, ShadowAssumption
  <2>4. begins(c) \in Nat /\ begins(c + 1) = begins(c) + CandleMinutes BY <2>3, Grid
  <2>5. now \in Nat /\ trade.since \in Nat BY Tape DEF Entered
  <2>6. trade.since + MaxHolding <= now + BrokerAhead BY <2>2, <2>3, <2>4, <2>5 DEF stamp
  <2>7. shownBy(v, c) BY <1>5, <2>1, <2>2 DEF shownBy
  <2>8. ASSUME historyInReach, NEW m \in touchesSinceEntry
        PROVE  m + BrokerAhead > trade.since + MaxHolding
    <3>1. begins(c) < m BY <1>1, <2>8 DEF Untouched
    <3>2. m \in DOMAIN tape BY <2>8 DEF touchesSinceEntry
    <3>3. m \in Nat BY <3>2, Tape
    <3> QED BY <2>2, <2>3, <2>4, <2>5, <3>1, <3>3 DEF stamp
  <2>9. historyInReach => Settled(v) BY <1>5, <2>6, <2>8 DEF Settled, settledBy
  <2> QED BY <1>1, <1>2, <1>3, <1>5, <2>7, <2>9 DEF ReadOff
<1>6. CASE v = "AMBIGUOUS_OUTCOME" BY <1>1, <1>2, <1>3, <1>6 DEF shownBy
<1> QED BY <1>3, <1>4, <1>5, <1>6 DEF Exits

\* The minutes read of a candle decide it, and all of them are read while they are in reach.
LEMMA MinuteVerdict ==
  ASSUME Types, Entered, ShadowAssumption, NEW c, Replayed(c), shownBy("AMBIGUOUS_OUTCOME", c),
         historyInReach => Untouched(c)
  PROVE  ReadOff("AMBIGUOUS_OUTCOME", c) /\ ReadOff(disambiguateWithM1(c), c)
<1>1. hitStop(minutesOf(c)) /\ hitTarget(minutesOf(c)) BY DEF shownBy
<1>2. Settled("AMBIGUOUS_OUTCOME") BY DEF Settled, settledBy
<1>3. ReadOff("AMBIGUOUS_OUTCOME", c) BY <1>2 DEF ReadOff, Exits
<1> DEFINE v == disambiguateWithM1(c)
<1>4. CASE touching(c) = {} BY <1>3, <1>4 DEF disambiguateWithM1
<1>5. CASE touching(c) # {}
  <2> DEFINE k == earliest(touching(c))
  <2>1. v = verdictOf({k}) BY <1>5 DEF disambiguateWithM1
  <2>2. touching(c) \subseteq touched(c) BY DEF touching, touched
  <2>3. touching(c) \subseteq Nat BY CandleMinute DEF touching
  <2>4. k \in touching(c) BY <1>5, <2>3, Smallest
  <2>5. touches({k}) BY <2>4 DEF touching
  <2>6. v \in {"STOP_LOSS", "TAKE_PROFIT", "AMBIGUOUS_OUTCOME"} BY <2>1, <2>5 DEF touches, verdictOf
  <2>7. shownBy(v, c) BY <1>1, <2>6 DEF shownBy
  <2>8. ASSUME historyInReach, minutesInReach(c) PROVE Settled(v)
    <3>1. touching(c) = touched(c)
      <4>1. c \in Nat /\ CandleMinutes \in Nat \ {0} /\ MaxMinutes \in Nat /\ now \in Nat
        BY Tape DEF Replayed, completed, ShadowAssumption
      <4>2. begins(c) \in Nat BY <4>1, Grid
      <4>3. ASSUME NEW m \in touched(c) PROVE m \in touching(c)
        <5>1. m \in minutesOf(c) /\ touches({m}) BY <4>3 DEF touched
        <5>2. m \in Nat /\ begins(c) < m BY <5>1, CandleMinute
        <5>3. m > now - MaxMinutes BY <2>8, <4>1, <4>2, <5>2 DEF minutesInReach
        <5> QED BY <5>1, <5>3 DEF touching
      <4> QED BY <2>2, <4>3
    <3>2. touchesSinceEntry # {} /\ earliest(touchesSinceEntry) = k
      BY <1>5, <2>8, <3>1, FirstTouch
    <3> HIDE DEF v, k
    <3> QED BY <2>1, <2>6, <3>2 DEF Settled, settledBy
  <2> HIDE DEF v
  <2> QED BY <1>3, <2>6, <2>7, <2>8 DEF ReadOff, Exits, v
<1> QED BY <1>4, <1>5

(***************************************************************************)
(* Bars are only added, and a trade that was entered keeps its plan.       *)
(***************************************************************************)

Grows ==
  /\ tape \in Seq(Bars) /\ tape' \in Seq(Bars)
  /\ Len(tape) <= Len(tape') /\ \A m \in DOMAIN tape : tape'[m] = tape[m]

Kept ==
  /\ Entered /\ Entered'
  /\ trade'.side = trade.side /\ trade'.stop = trade.stop /\ trade'.target = trade.target
  /\ trade'.since = trade.since

LEMMA SameTouch ==
  ASSUME Kept, NEW m, tape'[m] = tape[m]
  PROVE  hitStop({m})' = hitStop({m}) /\ hitTarget({m})' = hitTarget({m})
         /\ touches({m})' = touches({m}) /\ verdictOf({m})' = verdictOf({m})
<1>1. (\E x \in {m} : tape'[x][1] <= trade'.stop) = (\E x \in {m} : tape[x][1] <= trade.stop) BY DEF Kept
<1>2. (\E x \in {m} : tape'[x][2] >= trade'.stop) = (\E x \in {m} : tape[x][2] >= trade.stop) BY DEF Kept
<1>3. (\E x \in {m} : tape'[x][1] <= trade'.target) = (\E x \in {m} : tape[x][1] <= trade.target) BY DEF Kept
<1>4. (\E x \in {m} : tape'[x][2] >= trade'.target) = (\E x \in {m} : tape[x][2] >= trade.target) BY DEF Kept
<1>5. hitStop({m})' = hitStop({m}) /\ hitTarget({m})' = hitTarget({m})
  BY <1>1, <1>2, <1>3, <1>4 DEF hitStop, hitTarget, reachedBelow, reachedAbove, Kept
<1> QED BY <1>5 DEF touches, verdictOf

LEMMA LaterTouches ==
  ASSUME Grows, Kept, ShadowAssumption
  PROVE  /\ touchesSinceEntry \subseteq touchesSinceEntry'
         /\ \A m \in touchesSinceEntry' : m \in touchesSinceEntry \/ m > now
<1>1. now \in Nat /\ now' \in Nat /\ now <= now' /\ DOMAIN tape = 1 .. now /\ DOMAIN tape' = 1 .. now'
  BY DEF Grows, now
<1>2. trade'.since = trade.since BY DEF Kept
<1>3. ASSUME NEW m \in touchesSinceEntry PROVE m \in touchesSinceEntry'
  <2>1. m \in DOMAIN tape BY <1>3 DEF touchesSinceEntry
  <2>2. m \in DOMAIN tape' /\ tape'[m] = tape[m] BY <1>1, <2>1 DEF Grows
  <2>3. touches({m})' BY <1>3, <2>2, SameTouch DEF touchesSinceEntry
  <2> QED BY <1>2, <1>3, <2>2, <2>3 DEF touchesSinceEntry
<1>4. ASSUME NEW m \in touchesSinceEntry', ~(m > now) PROVE m \in touchesSinceEntry
  <2>1. m \in DOMAIN tape' BY <1>4 DEF touchesSinceEntry
  <2>2. m \in DOMAIN tape BY <1>1, <1>4, <2>1
  <2>3. tape'[m] = tape[m] BY <2>2 DEF Grows
  <2>4. touches({m}) BY <1>4, <2>3, SameTouch DEF touchesSinceEntry
  <2> QED BY <1>2, <1>4, <2>2, <2>4 DEF touchesSinceEntry
<1> QED BY <1>3, <1>4

LEMMA StaysSettled ==
  ASSUME Grows, Kept, ShadowAssumption, NEW v, Settled(v)
  PROVE  Settled(v)'
<1>1. /\ touchesSinceEntry \subseteq touchesSinceEntry'
      /\ \A m \in touchesSinceEntry' : m \in touchesSinceEntry \/ m > now
  BY LaterTouches
<1>2. now \in Nat /\ now' \in Nat /\ now <= now' /\ DOMAIN tape = 1 .. now /\ DOMAIN tape' = 1 .. now'
  BY DEF Grows, now
<1>3. touchesSinceEntry \subseteq DOMAIN tape /\ touchesSinceEntry' \subseteq DOMAIN tape'
  BY DEF touchesSinceEntry
<1>4. \A m \in touchesSinceEntry :
        /\ hitStop({m})' = hitStop({m}) /\ hitTarget({m})' = hitTarget({m})
        /\ verdictOf({m})' = verdictOf({m})
  BY <1>3, SameTouch DEF Grows
<1>5. /\ trade'.since = trade.since /\ trade.since \in Nat /\ MaxHolding \in Nat
      /\ BrokerAhead \in Nat
  BY DEF Kept, Entered, ShadowAssumption
<1>6. CASE v \in {"STOP_LOSS", "TAKE_PROFIT"}
  <2> DEFINE e == earliest(touchesSinceEntry)
             k == earliest(touchesSinceEntry')
  <2>1. touchesSinceEntry # {} /\ verdictOf({e}) = v BY <1>6 DEF Settled, settledBy
  <2>2. touchesSinceEntry \subseteq Nat /\ touchesSinceEntry' \subseteq Nat BY <1>2, <1>3
  <2>3. e \in touchesSinceEntry /\ \A d \in touchesSinceEntry : e <= d BY <2>1, <2>2, Smallest
  <2>4. k \in touchesSinceEntry' /\ \A d \in touchesSinceEntry' : k <= d BY <1>1, <2>1, <2>2, Smallest
  <2>5. e \in Nat /\ k \in Nat /\ k <= e /\ e <= now BY <1>1, <1>2, <1>3, <2>2, <2>3, <2>4
  <2>6. k \in touchesSinceEntry BY <1>1, <1>2, <2>4, <2>5
  <2>7. e = k BY <2>3, <2>5, <2>6
  <2>8. PICK x \in touchesSinceEntry : x = e BY <2>3
  <2>9. verdictOf({x})' = v BY <1>4, <2>1, <2>8
  <2>10. touchesSinceEntry' # {} /\ earliest(touchesSinceEntry)' = x BY <2>4, <2>7, <2>8 DEF earliest
  <2>11. verdictOf({earliest(touchesSinceEntry)})' = v
    BY <2>9, <2>10 DEF verdictOf, hitStop, hitTarget, reachedBelow, reachedAbove
  <2> QED BY <1>6, <2>10, <2>11 DEF Settled, settledBy
<1>7. CASE v = "TIME_EXIT"
  <2>1. /\ trade.since + MaxHolding <= now + BrokerAhead
        /\ \A m \in touchesSinceEntry : m + BrokerAhead > trade.since + MaxHolding
    BY <1>7 DEF Settled, settledBy
  <2>2. trade.since + MaxHolding <= now' + BrokerAhead BY <1>2, <1>5, <2>1
  <2>3. ASSUME NEW m \in touchesSinceEntry' PROVE m + BrokerAhead > trade.since + MaxHolding
    <3>1. m \in Nat BY <1>2, <1>3
    <3> QED BY <1>1, <1>2, <1>5, <2>1, <3>1
  <2> QED BY <1>5, <1>7, <2>2, <2>3 DEF Settled, settledBy
<1>8. CASE v \notin {"STOP_LOSS", "TAKE_PROFIT", "TIME_EXIT"} BY <1>8 DEF Settled, settledBy
<1> QED BY <1>6, <1>7, <1>8

\* What a read reaches later it reached before.
LEMMA ReachShrinks ==
  ASSUME Grows, Kept, ShadowAssumption, NEW c \in Nat
  PROVE  /\ historyInReach' => historyInReach
         /\ minutesInReach(c)' => minutesInReach(c)
<1>1. now \in Nat /\ now' \in Nat /\ now <= now' BY DEF Grows, now
<1>2. /\ trade'.since = trade.since /\ trade.since \in Nat /\ BrokerAhead \in Nat
      /\ {Buffer, MaxCandles, MaxMinutes} \subseteq Nat /\ CandleMinutes \in Nat \ {0}
  BY DEF Kept, Entered, ShadowAssumption
<1>3. PICK p, q \in Int : p = MaxCandles * CandleMinutes /\ q = Buffer * CandleMinutes BY <1>2
<1>4. historyInReach' => historyInReach
  <2>1. PICK s \in Int : s = now - trade.since + BrokerAhead BY <1>1, <1>2
  <2>2. PICK z \in Int : z = now' - trade.since + BrokerAhead BY <1>1, <1>2
  <2>3. s <= z BY <1>1, <1>2, <2>1, <2>2
  <2>4. historyInReach <=> s <= p /\ (BrokerAhead <= q \/ s <= q) BY <1>3, <2>1 DEF historyInReach
  <2>5. historyInReach' <=> z <= p /\ (BrokerAhead <= q \/ z <= q)
    BY <1>2, <1>3, <2>2 DEF historyInReach
  <2> QED BY <1>2, <1>3, <2>1, <2>2, <2>3, <2>4, <2>5
<1>5. minutesInReach(c)' => minutesInReach(c)
  <2>1. begins(c) \in Nat /\ begins(c)' = begins(c) BY <1>2, Grid DEF begins
  <2> QED BY <1>1, <1>2, <2>1 DEF minutesInReach
<1> QED BY <1>4, <1>5

LEMMA StaysRead ==
  ASSUME Grows, Kept, ShadowAssumption, NEW c, Replayed(c)
  PROVE  /\ Replayed(c)' /\ (Untouched(c) => Untouched(c)')
         /\ hitStop(minutesOf(c))' = hitStop(minutesOf(c))
         /\ hitTarget(minutesOf(c))' = hitTarget(minutesOf(c))
<1>1. now \in Nat /\ now' \in Nat /\ now <= now' /\ DOMAIN tape = 1 .. now /\ DOMAIN tape' = 1 .. now'
  BY DEF Grows, now
<1>2. /\ c \in Nat /\ c \in 0 .. MaxMinute /\ begins(c + 1) <= now /\ stamp(c) >= trade.since
      /\ CandleMinutes \in Nat \ {0}
  BY DEF Replayed, completed, ShadowAssumption
<1>3. begins(c + 1) \in Nat /\ begins(c) \in Nat /\ begins(c) <= begins(c + 1) BY <1>2, Grid
<1>4. begins(c)' = begins(c) /\ begins(c + 1)' = begins(c + 1) /\ stamp(c)' = stamp(c)
  BY DEF begins, stamp
<1>5. begins(c + 1) <= now' BY <1>1, <1>2, <1>3
<1>6. Replayed(c)' BY <1>2, <1>4, <1>5 DEF Replayed, completed, Kept
<1>7. ASSUME Untouched(c) PROVE Untouched(c)'
  <2>1. ASSUME NEW m \in touchesSinceEntry' PROVE begins(c) < m
    <3>1. m \in touchesSinceEntry \/ m > now BY LaterTouches
    <3>2. m \in Nat
      <4>1. m \in DOMAIN tape' BY <2>1 DEF touchesSinceEntry
      <4> QED BY <1>1, <4>1
    <3> QED BY <1>1, <1>2, <1>3, <1>7, <3>1, <3>2 DEF Untouched
  <2> QED BY <1>4, <2>1 DEF Untouched
<1>8. minutesOf(c)' = minutesOf(c) /\ minutesOf(c) \subseteq DOMAIN tape
  BY <1>1, <1>2, <1>3, <1>4, <1>5 DEF minutesOf
<1>9. \A m \in minutesOf(c) : tape'[m] = tape[m] BY <1>8 DEF Grows
<1>10. PICK M : M = minutesOf(c) /\ M = minutesOf(c)' BY <1>8
<1>11. /\ hitStop(minutesOf(c))' = hitStop(minutesOf(c))
       /\ hitTarget(minutesOf(c))' = hitTarget(minutesOf(c))
  <2>1. \A l : (\E m \in M : tape'[m][1] <= l) = (\E m \in M : tape[m][1] <= l) BY <1>9, <1>10
  <2>2. \A l : (\E m \in M : tape'[m][2] >= l) = (\E m \in M : tape[m][2] >= l) BY <1>9, <1>10
  <2>3. trade'.side = trade.side /\ trade'.stop = trade.stop /\ trade'.target = trade.target BY DEF Kept
  <2> QED BY <1>10, <2>1, <2>2, <2>3 DEF hitStop, hitTarget, reachedBelow, reachedAbove
<1> QED BY <1>6, <1>7, <1>11

LEMMA StaysReadOff ==
  ASSUME Grows, Kept, ShadowAssumption, NEW v, NEW c, ReadOff(v, c)
  PROVE  ReadOff(v, c)'
<1>1. v \in Exits /\ Replayed(c) /\ shownBy(v, c) BY DEF ReadOff
<1>2. /\ Replayed(c)'
      /\ hitStop(minutesOf(c))' = hitStop(minutesOf(c))
      /\ hitTarget(minutesOf(c))' = hitTarget(minutesOf(c))
  BY <1>1, StaysRead
<1>3. trade'.since = trade.since BY DEF Kept
<1>4. stamp(c)' = stamp(c) BY DEF stamp, begins
<1>5. touches(minutesOf(c))' = touches(minutesOf(c)) BY <1>2 DEF touches
<1>6. shownBy(v, c)' BY <1>1, <1>2, <1>3, <1>4, <1>5 DEF shownBy
<1>7. c \in Nat BY <1>1 DEF Replayed, completed, ShadowAssumption
<1>8. (historyInReach /\ minutesInReach(c))' => Settled(v)'
  <2>1. (historyInReach /\ minutesInReach(c))' => historyInReach /\ minutesInReach(c)
    BY <1>7, ReachShrinks
  <2> QED BY <2>1, StaysSettled DEF ReadOff
<1> QED BY <1>1, <1>2, <1>6, <1>8 DEF ReadOff

LEMMA PassStays ==
  ASSUME ShadowAssumption, Grows, Entered => Kept, NEW w \in Passes, PassOK(w), pass'[w] = pass[w]
  PROVE  PassOK(w)'
<1>1. CASE pass[w].pc \in {"replay", "minutes", "close"}
  <2>1. Entered /\ Kept /\ Entered' BY <1>1 DEF PassOK, Kept
  <2>2. CASE pass[w].pc = "replay" BY <2>1, <2>2 DEF PassOK
  <2>3. CASE pass[w].pc = "close"
    <3>1. PICK v, c : v = pass[w].exit /\ c = pass[w].candle OBVIOUS
    <3>2. ReadOff(v, c) BY <2>3, <3>1 DEF PassOK
    <3>3. ReadOff(v, c)' BY <2>1, <3>2, StaysReadOff
    <3>4. v = pass'[w].exit /\ c = pass'[w].candle BY <3>1
    <3>5. ReadOff(pass[w].exit, pass[w].candle)' BY <3>3, <3>4 DEF ReadOff, Replayed, shownBy,
       Settled, settledBy, minutesInReach, minutesOf, stamp, begins, touches, hitStop, hitTarget,
       reachedBelow, reachedAbove
    <3> QED BY <2>1, <2>3, <3>5 DEF PassOK
  <2>4. CASE pass[w].pc = "minutes"
    <3>1. PICK c : c = pass[w].candle OBVIOUS
    <3>2. /\ Replayed(c) /\ shownBy("AMBIGUOUS_OUTCOME", c)
          /\ historyInReach => Untouched(c)
      BY <2>4, <3>1 DEF PassOK
    <3>3. /\ Replayed(c)' /\ (Untouched(c) => Untouched(c)')
          /\ hitStop(minutesOf(c))' /\ hitTarget(minutesOf(c))'
      BY <2>1, <3>2, StaysRead DEF shownBy
    <3>4. c \in Nat BY <3>2 DEF Replayed, completed, ShadowAssumption
    <3>5. historyInReach' => Untouched(c)' BY <2>1, <3>2, <3>3, <3>4, ReachShrinks
    <3>6. pass'[w].pc = "minutes" /\ pass'[w].candle = c BY <2>4, <3>1
    <3>7. /\ Replayed(pass[w].candle)' /\ shownBy("AMBIGUOUS_OUTCOME", pass[w].candle)'
          /\ historyInReach' => Untouched(pass[w].candle)'
      BY <3>3, <3>5, <3>6
         DEF Untouched, Replayed, shownBy, stamp, hitStop, hitTarget, reachedBelow, reachedAbove,
             minutesOf, begins
    <3> QED BY <2>1, <3>6, <3>7 DEF PassOK
  <2> QED BY <1>1, <2>2, <2>3, <2>4
<1>2. CASE pass[w].pc \notin {"replay", "minutes", "close"} BY <1>2 DEF PassOK
<1> QED BY <1>1, <1>2

\* The rows and bars stay as they are.
LEMMA StillThere ==
  ASSUME ShadowAssumption, ShadowInv, tape' = tape, trade' = trade
  PROVE  /\ Grows /\ (Entered => Kept) /\ tape' \in Seq(Bars)
         /\ trade' = NoTrade \/ trade' \in TradeType
         /\ trade'.status \in {"ENTERED", "CLOSED"} => Entered'
         /\ trade'.status = "CLOSED" => ReadOff(trade.exit, trade.candle)'
<1>1. Grows BY Tape DEF ShadowInv, Types, Grows, now
<1>2. Entered => Kept BY DEF Kept, Entered
<1>3. ASSUME trade.status = "CLOSED" PROVE ReadOff(trade.exit, trade.candle)'
  <2>1. Kept BY <1>2, <1>3 DEF ShadowInv, Types
  <2>2. PICK v, c : v = trade.exit /\ c = trade.candle OBVIOUS
  <2>3. ReadOff(v, c) BY <1>3, <2>2 DEF ShadowInv
  <2>4. ReadOff(v, c)' BY <1>1, <2>1, <2>3, StaysReadOff
  <2>5. v = trade'.exit /\ c = trade'.candle BY <2>2
  <2> QED BY <2>4, <2>5 DEF ReadOff, Replayed, shownBy,
       Settled, settledBy, minutesInReach, minutesOf, stamp, begins, touches, hitStop, hitTarget,
       reachedBelow, reachedAbove
<1> QED BY <1>1, <1>2, <1>3 DEF ShadowInv, Types, Entered

\* A step of one pass that only changes what the pass holds.
LEMMA PassMoves ==
  ASSUME ShadowAssumption, ShadowInv, tape' = tape, trade' = trade, NEW w \in Passes,
         pass' \in [Passes -> PassType], \A u \in Passes : u # w => pass'[u] = pass[u], PassOK(w)'
  PROVE  ShadowInv'
<1>1. /\ Grows /\ (Entered => Kept) /\ tape' \in Seq(Bars)
      /\ trade' = NoTrade \/ trade' \in TradeType
      /\ trade'.status \in {"ENTERED", "CLOSED"} => Entered'
      /\ trade'.status = "CLOSED" => ReadOff(trade.exit, trade.candle)'
  BY StillThere
<1>2. Types' BY <1>1 DEF Types
<1>3. ASSUME NEW u \in Passes PROVE PassOK(u)'
  <2>1. CASE u = w BY <2>1
  <2>2. CASE u # w BY <1>1, <2>2, PassStays DEF ShadowInv
  <2> QED BY <2>1, <2>2
<1> QED BY <1>1, <1>2, <1>3 DEF ShadowInv

LEMMA InitHolds == ShadowInit => ShadowInv
BY DEF ShadowInit, ShadowInv, Types, PassOK, PassType, Away, NoTrade

LEMMA CreateHolds == ShadowAssumption /\ ShadowInv /\ CreateTrade => ShadowInv'
<1> SUFFICES ASSUME ShadowAssumption, ShadowInv, CreateTrade PROVE ShadowInv' OBVIOUS
<1>1. PICK p \in Setups : \E q \in quotes(p) : trade' = created(p, q) BY DEF CreateTrade
<1>2. PICK q \in quotes(p) : trade' = created(p, q) BY <1>1
<1>3. /\ p \in [side : {"BUY", "SELL"}, order : Orders, entry : Int, trigger : Int,
                stop : Int, target : Int]
      /\ q \in Int
  BY <1>1, <1>2 DEF ShadowAssumption, quotes
<1>4. now \in Nat BY Tape DEF ShadowInv
<1>5. numberOrNull(p.entry) \in Int /\ numberOrNull(p.trigger) \in Int BY <1>3 DEF numberOrNull
<1>6. /\ trade' \in TradeType /\ trade'.status # "CLOSED"
      /\ trade'.status = "ENTERED" => trade'.since \in Nat
  <2> HIDE DEF numberOrNull
  <2> QED BY <1>2, <1>3, <1>4, <1>5 DEF created, TradeType, SqlNull, Final
<1>7. trade.status = "none" /\ ~Entered /\ tape' = tape /\ pass' = pass
  BY DEF CreateTrade, NoTrade, Entered
<1>8. Types' BY <1>6, <1>7 DEF ShadowInv, Types, Entered
<1>9. ASSUME NEW w \in Passes PROVE PassOK(w)'
  <2>1. pass'[w].pc \notin {"replay", "minutes", "close"} BY <1>7, <1>9 DEF ShadowInv, PassOK
  <2> QED BY <2>1 DEF PassOK
<1> QED BY <1>6, <1>8, <1>9 DEF ShadowInv

LEMMA MinuteHolds == ShadowAssumption /\ ShadowInv /\ Minute => ShadowInv'
<1> SUFFICES ASSUME ShadowAssumption, ShadowInv, Minute PROVE ShadowInv' OBVIOUS
<1>1. PICK b \in Bars : tape' = Append(tape, b) BY DEF Minute
<1>3. Grows BY <1>1 DEF Grows, ShadowInv, Types
<1>4. trade' = trade /\ pass' = pass /\ trade.status # "CLOSED" BY DEF Minute, Final
<1>5. Entered => Kept BY <1>4 DEF Kept, Entered
<1>6. Types' BY <1>3, <1>4 DEF ShadowInv, Types, Entered, Grows
<1>7. \A w \in Passes : PassOK(w)' BY <1>3, <1>4, <1>5, PassStays DEF ShadowInv
<1> QED BY <1>4, <1>6, <1>7 DEF ShadowInv

\* A step of one pass that holds nothing after it.
LEMMA IdleMove ==
  ASSUME ShadowAssumption, ShadowInv, tape' = tape, trade' = trade, NEW w \in Passes,
         NEW pc \in {"idle", "expiry", "trigger", "entered"}, pass' = [pass EXCEPT ![w] = [pc |-> pc]]
  PROVE  ShadowInv'
<1>1. [pc |-> pc] \in PassType BY DEF PassType
<1>2. pass' \in [Passes -> PassType] /\ pass'[w].pc = pc /\ \A u \in Passes : u # w => pass'[u] = pass[u]
  BY <1>1 DEF ShadowInv, Types
<1>3. PassOK(w)' BY <1>2 DEF PassOK
<1> QED BY <1>2, <1>3, PassMoves

\* A step of one pass that enters a waiting trade or ends its waiting.
LEMMA WaitingMoves ==
  ASSUME ShadowAssumption, ShadowInv, trade.status = "AWAITING_TRIGGER", tape' = tape,
         trade' \in TradeType, trade'.status # "CLOSED",
         trade'.status = "ENTERED" => trade'.since \in Nat,
         NEW w \in Passes, pass' = [pass EXCEPT ![w] = [pc |-> "entered"]]
  PROVE  ShadowInv'
<1>1. [pc |-> "entered"] \in PassType BY DEF PassType
<1>2. pass' \in [Passes -> PassType] /\ pass'[w].pc = "entered" /\ \A u \in Passes : u # w => pass'[u] = pass[u]
  BY <1>1 DEF ShadowInv, Types
<1>3. ~Entered BY DEF Entered
<1>4. ASSUME NEW u \in Passes PROVE PassOK(u)'
  <2>1. pass'[u].pc \notin {"replay", "minutes", "close"} BY <1>2, <1>3 DEF ShadowInv, PassOK
  <2> QED BY <2>1 DEF PassOK
<1>5. Types' BY <1>2 DEF ShadowInv, Types, Entered
<1> QED BY <1>4, <1>5 DEF ShadowInv

LEMMA ExpireHolds ==
  ASSUME ShadowAssumption, ShadowInv, NEW w \in Passes, Expire(w) PROVE ShadowInv'
<1>1. CASE trade.status = "AWAITING_TRIGGER"
  <2>1. trade \in TradeType BY <1>1 DEF ShadowInv, Types, NoTrade
  <2>2. trade' \in TradeType /\ trade'.status = "EXPIRED_NOT_TRIGGERED"
    BY <1>1, <2>1 DEF Expire, TradeType, Final
  <2> QED BY <1>1, <2>2, WaitingMoves DEF Expire
<1>2. CASE trade.status # "AWAITING_TRIGGER" BY <1>2, IdleMove DEF Expire
<1> QED BY <1>1, <1>2

LEMMA TriggerHolds ==
  ASSUME ShadowAssumption, ShadowInv, NEW w \in Passes, Trigger(w) PROVE ShadowInv'
<1>1. CASE triggering # {} /\ trade.status = "AWAITING_TRIGGER"
  <2>1. trade \in TradeType BY <1>1 DEF ShadowInv, Types, NoTrade
  <2>2. triggering \subseteq Nat /\ CandleMinutes \in Nat \ {0}
    BY DEF triggering, candlesSince, completed, ShadowAssumption
  <2>3. earliest(triggering) \in Nat BY <1>1, <2>2, Smallest
  <2>4. stamp(earliest(triggering)) \in Nat BY <2>2, <2>3, Grid DEF stamp, ShadowAssumption
  <2>5. trade' = [trade EXCEPT !.status = "ENTERED", !.entry = trade.trigger,
                              !.since = stamp(earliest(triggering))]
    BY <1>1 DEF Trigger, triggerLevel
  <2> DEFINE b == stamp(earliest(triggering))
  <2> HIDE DEF b
  <2>6. b \in Nat /\ trade' = [trade EXCEPT !.status = "ENTERED", !.entry = trade.trigger, !.since = b]
    BY <2>4, <2>5 DEF b
  <2>7. trade' \in TradeType /\ trade'.status = "ENTERED" /\ trade'.since = b
    <3>1. PICK t \in Int : t = trade.trigger BY <2>1 DEF TradeType
    <3>2. trade' = [trade EXCEPT !.status = "ENTERED", !.entry = t, !.since = b] BY <2>6, <3>1
    <3>3. PICK r : r = [trade EXCEPT !.status = "ENTERED"] OBVIOUS
    <3>4. r \in TradeType /\ r.status = "ENTERED" BY <2>1, <3>3 DEF TradeType
    <3>5. PICK q : q = [r EXCEPT !.entry = t] OBVIOUS
    <3>6. q \in TradeType /\ q.status = "ENTERED" BY <3>1, <3>4, <3>5 DEF TradeType
    <3>7. trade' = [q EXCEPT !.since = b] BY <3>2, <3>3, <3>5
    <3>8. b \in Int BY <2>6
    <3> QED BY <3>6, <3>7, <3>8 DEF TradeType
  <2> QED BY <1>1, <2>6, <2>7, WaitingMoves DEF Trigger
<1>2. CASE ~(triggering # {} /\ trade.status = "AWAITING_TRIGGER") BY <1>2, IdleMove DEF Trigger
<1> QED BY <1>1, <1>2

LEMMA SelectHolds ==
  ASSUME ShadowAssumption, ShadowInv, NEW w \in Passes, SelectEntered(w) PROVE ShadowInv'
<1>1. CASE trade.status = "ENTERED"
  <2>1. [pc |-> "replay"] \in PassType BY DEF PassType
  <2>2. /\ pass' \in [Passes -> PassType] /\ pass'[w].pc = "replay"
        /\ \A u \in Passes : u # w => pass'[u] = pass[u] /\ tape' = tape /\ trade' = trade
    BY <1>1, <2>1 DEF SelectEntered, ShadowInv, Types
  <2>3. Entered' BY <1>1 DEF SelectEntered, ShadowInv, Types, Entered
  <2>4. PassOK(w)' BY <2>2, <2>3 DEF PassOK
  <2> QED BY <2>2, <2>4, PassMoves DEF SelectEntered
<1>2. CASE trade.status # "ENTERED" BY <1>2, IdleMove DEF SelectEntered, Away
<1> QED BY <1>1, <1>2

\* A verdict a pass takes down.
LEMMA VerdictMove ==
  ASSUME ShadowAssumption, ShadowInv, Entered, NEW v, NEW c, ReadOff(v, c), tape' = tape,
         trade' = trade, NEW w \in Passes,
         pass' = [pass EXCEPT ![w] = [pc |-> "close", candle |-> c, exit |-> v]]
  PROVE  ShadowInv'
<1>1. v \in Exits /\ c \in Nat BY DEF ReadOff, Replayed, completed, ShadowAssumption
<1>2. [pc |-> "close", candle |-> c, exit |-> v] \in PassType BY <1>1 DEF PassType
<1>3. /\ pass' \in [Passes -> PassType] /\ pass'[w] = [pc |-> "close", candle |-> c, exit |-> v]
      /\ \A u \in Passes : u # w => pass'[u] = pass[u]
  BY <1>2 DEF ShadowInv, Types
<1>4. Grows /\ Kept /\ Entered' BY StillThere DEF Kept
<1>5. ReadOff(v, c)' BY <1>4, StaysReadOff
<1>6. v = pass'[w].exit /\ c = pass'[w].candle BY <1>3
<1>7. ReadOff(pass[w].exit, pass[w].candle)' BY <1>5, <1>6 DEF ReadOff, Replayed, shownBy,
       Settled, settledBy, minutesInReach, minutesOf, stamp, begins, touches, hitStop, hitTarget,
       reachedBelow, reachedAbove
<1>8. PassOK(w)' BY <1>3, <1>4, <1>7 DEF PassOK
<1> QED BY <1>3, <1>8, PassMoves

LEMMA ReplayHolds ==
  ASSUME ShadowAssumption, ShadowInv, NEW w \in Passes, Replay(w) PROVE ShadowInv'
<1>1. Entered /\ tape' = tape /\ trade' = trade BY DEF Replay, ShadowInv, PassOK
<1>2. CASE ending = {} BY <1>1, <1>2, IdleMove DEF Replay, Away
<1>3. CASE ending # {}
  <2>1. ending \subseteq Nat BY DEF ending, candlesSince, completed, ShadowAssumption
  <2>2. PICK c \in ending : c = earliest(ending) /\ \A d \in ending : c <= d BY <1>3, <2>1, Smallest
  <2> DEFINE v == verdictOf(minutesOf(c))
  <2>3. /\ Replayed(c) /\ (historyInReach => Untouched(c))
        /\ v = "AMBIGUOUS_OUTCOME" => shownBy("AMBIGUOUS_OUTCOME", c)
        /\ v # "AMBIGUOUS_OUTCOME" => ReadOff(v, c)
    BY <1>1, <2>2, ReplayVerdict DEF ShadowInv
  <2>4. pass' = [pass EXCEPT ![w] = IF v = "AMBIGUOUS_OUTCOME" THEN [pc |-> "minutes", candle |-> c]
                                    ELSE [pc |-> "close", candle |-> c, exit |-> v]]
    BY <1>3, <2>2 DEF Replay
  <2> HIDE DEF v
  <2>5. CASE v # "AMBIGUOUS_OUTCOME" BY <1>1, <2>3, <2>4, <2>5, VerdictMove
  <2>6. CASE v = "AMBIGUOUS_OUTCOME"
    <3>1. [pc |-> "minutes", candle |-> c] \in PassType BY <2>1 DEF PassType
    <3>2. /\ pass' \in [Passes -> PassType] /\ pass'[w].pc = "minutes" /\ pass'[w].candle = c
          /\ \A u \in Passes : u # w => pass'[u] = pass[u]
      BY <2>4, <2>6, <3>1 DEF ShadowInv, Types
    <3>3. Grows /\ Kept /\ Entered' BY <1>1, StillThere DEF Kept
    <3>4. /\ Replayed(c)' /\ (Untouched(c) => Untouched(c)')
          /\ hitStop(minutesOf(c))' /\ hitTarget(minutesOf(c))'
      BY <2>3, <2>6, <3>3, StaysRead DEF shownBy
    <3>5. historyInReach' => Untouched(c)' BY <2>1, <2>3, <3>3, <3>4, ReachShrinks
    <3>6. /\ Replayed(pass[w].candle)' /\ shownBy("AMBIGUOUS_OUTCOME", pass[w].candle)'
          /\ historyInReach' => Untouched(pass[w].candle)'
      BY <3>2, <3>4, <3>5
         DEF Untouched, Replayed, shownBy, stamp, hitStop, hitTarget, reachedBelow, reachedAbove,
             minutesOf, begins
    <3>7. PassOK(w)' BY <3>2, <3>3, <3>6 DEF PassOK
    <3> QED BY <1>1, <3>2, <3>7, PassMoves
  <2> QED BY <2>5, <2>6
<1> QED BY <1>2, <1>3

LEMMA MinutesHolds ==
  ASSUME ShadowAssumption, ShadowInv, NEW w \in Passes, ReadMinutes(w) PROVE ShadowInv'
<1> DEFINE c == pass[w].candle
<1>1. /\ Entered /\ Replayed(c) /\ shownBy("AMBIGUOUS_OUTCOME", c)
      /\ historyInReach => Untouched(c)
      /\ tape' = tape /\ trade' = trade
  BY DEF ReadMinutes, ShadowInv, PassOK
<1>2. ReadOff("AMBIGUOUS_OUTCOME", c) /\ ReadOff(disambiguateWithM1(c), c)
  BY <1>1, MinuteVerdict DEF ShadowInv
<1>3. PICK v \in {disambiguateWithM1(c), "AMBIGUOUS_OUTCOME"} :
        pass' = [pass EXCEPT ![w] = [pc |-> "close", candle |-> c, exit |-> v]]
  BY DEF ReadMinutes
<1>4. ReadOff(v, c) BY <1>2, <1>3
<1> HIDE DEF c
<1> QED BY <1>1, <1>3, <1>4, VerdictMove

LEMMA CloseHolds ==
  ASSUME ShadowAssumption, ShadowInv, NEW w \in Passes, Close(w) PROVE ShadowInv'
<1>1. CASE trade.status # "ENTERED" BY <1>1, IdleMove DEF Close, Away
<1>2. CASE trade.status = "ENTERED"
  <2> DEFINE v == pass[w].exit
             c == pass[w].candle
  <2>1. /\ Entered /\ ReadOff(v, c) /\ tape' = tape
        /\ trade' = [trade EXCEPT !.status = "CLOSED", !.exit = v, !.candle = c]
    BY <1>2 DEF Close, ShadowInv, PassOK
  <2>2. v \in Exits /\ c \in Nat BY <2>1 DEF ReadOff, Replayed, completed, ShadowAssumption
  <2>3. pass' = [pass EXCEPT ![w] = Away] BY DEF Close
  <2> HIDE DEF v, c
  <2>4. PICK t : t = [trade EXCEPT !.status = "CLOSED", !.exit = v] OBVIOUS
  <2>5. t \in TradeType /\ t.status = "CLOSED" /\ t.exit = v /\ t.since = trade.since
        /\ t.side = trade.side /\ t.stop = trade.stop /\ t.target = trade.target
    BY <2>1, <2>2, <2>4 DEF Entered, TradeType, Final
  <2>6. trade' = [t EXCEPT !.candle = c] BY <2>1, <2>4
  <2>7. /\ trade' \in TradeType /\ trade'.status = "CLOSED" /\ trade'.exit = v
        /\ trade'.candle = c
    BY <2>2, <2>5, <2>6 DEF TradeType, Final
  <2>8. Entered' /\ Kept
    BY <2>1, <2>5, <2>6, <2>7 DEF Entered, TradeType, Kept
  <2>9. Grows BY <2>1, Tape DEF ShadowInv, Types, Grows, now
  <2>10. PICK u, d : u = v /\ d = c OBVIOUS
  <2>11. ReadOff(u, d)' BY <2>1, <2>8, <2>9, <2>10, StaysReadOff
  <2>12. ReadOff(trade.exit, trade.candle)'
    <3>1. trade'.exit = u /\ trade'.candle = d BY <2>7, <2>10
    <3> QED BY <2>11, <3>1 DEF ReadOff, Replayed, shownBy,
       Settled, settledBy, minutesInReach, minutesOf, stamp, begins, touches, hitStop, hitTarget,
       reachedBelow, reachedAbove
  <2>13. Away \in PassType BY DEF Away, PassType
  <2>14. /\ pass' \in [Passes -> PassType] /\ pass'[w].pc = "idle"
        /\ \A x \in Passes : x # w => pass'[x] = pass[x]
    BY <2>3, <2>13 DEF ShadowInv, Types, Away
  <2>15. ASSUME NEW x \in Passes PROVE PassOK(x)'
    <3>1. CASE x = w BY <2>14, <3>1 DEF PassOK
    <3>2. CASE x # w BY <2>8, <2>9, <2>14, <3>2, PassStays DEF ShadowInv
    <3> QED BY <3>1, <3>2
  <2>16. Types' BY <2>1, <2>7, <2>8, <2>14 DEF ShadowInv, Types
  <2> QED BY <2>12, <2>15, <2>16 DEF ShadowInv
<1> QED BY <1>1, <1>2

LEMMA InvStep == ShadowAssumption /\ ShadowInv /\ [ShadowNext]_shadowVars => ShadowInv'
<1> SUFFICES ASSUME ShadowAssumption, ShadowInv, [ShadowNext]_shadowVars PROVE ShadowInv' OBVIOUS
<1>1. CASE CreateTrade BY <1>1, CreateHolds
<1>2. CASE Minute BY <1>2, MinuteHolds
<1>3. ASSUME NEW w \in Passes, Pass(w) \/ NoBars(w) \/ Abandon(w) PROVE ShadowInv'
  <2>1. CASE BeginPass(w) BY <2>1, IdleMove DEF BeginPass
  <2>2. CASE Expire(w) BY <2>2, ExpireHolds
  <2>3. CASE NotExpired(w) BY <2>3, IdleMove DEF NotExpired
  <2>4. CASE Trigger(w) BY <2>4, TriggerHolds
  <2>5. CASE SelectEntered(w) BY <2>5, SelectHolds
  <2>6. CASE Replay(w) BY <2>6, ReplayHolds
  <2>7. CASE ReadMinutes(w) BY <2>7, MinutesHolds
  <2>8. CASE Close(w) BY <2>8, CloseHolds
  <2>9. CASE NoBars(w)
    <3>1. pass' = [pass EXCEPT ![w] = [pc |-> IF pass[w].pc = "trigger" THEN "entered" ELSE "idle"]]
      BY <2>9 DEF NoBars, Away
    <3> QED BY <2>9, <3>1, IdleMove DEF NoBars
  <2>10. CASE Abandon(w) BY <2>10, IdleMove DEF Abandon, Away
  <2> QED BY <1>3, <2>1, <2>2, <2>3, <2>4, <2>5, <2>6, <2>7, <2>8, <2>9, <2>10 DEF Pass
<1>4. CASE UNCHANGED shadowVars
  <2>1. tape' = tape /\ trade' = trade /\ pass' = pass BY <1>4 DEF shadowVars
  <2>2. /\ Grows /\ (Entered => Kept) /\ tape' \in Seq(Bars)
        /\ trade' = NoTrade \/ trade' \in TradeType
        /\ trade'.status \in {"ENTERED", "CLOSED"} => Entered'
        /\ trade'.status = "CLOSED" => ReadOff(trade.exit, trade.candle)'
    BY <2>1, StillThere
  <2>3. Types' BY <2>1, <2>2 DEF ShadowInv, Types
  <2>4. \A u \in Passes : PassOK(u)' BY <2>1, <2>2, PassStays DEF ShadowInv
  <2> QED BY <2>2, <2>3, <2>4 DEF ShadowInv
<1> QED BY <1>1, <1>2, <1>3, <1>4 DEF ShadowNext

\* The inductive invariant of a shadow trade: what a pass holds agrees with the
\* bars, whatever other passes wrote and whatever bars came since
\* (runShadowTradeWatcherTick).
THEOREM ShadowInvariant == ShadowSpec => []ShadowInv
<1>1. ShadowAssumption BY ShadowAssumption
<1>2. ShadowInit => ShadowInv BY InitHolds
<1>3. ShadowInv /\ [ShadowNext]_shadowVars => ShadowInv' BY <1>1, InvStep
<1> QED BY <1>2, <1>3, PTL DEF ShadowSpec

\* The candle that closed a shadow trade shows the verdict on record and is not older
\* than the entry by the clock of the bars; and while the reads of the code, however
\* many candles and minutes they give and however far the bars' clock is ahead, reach
\* back to the entry and over the whole closing candle, the verdict is the one that
\* history gives minute by minute, and what history leaves open is never guessed
\* (evaluateEnteredTrade, disambiguateWithM1), with any number of passes in flight.
THEOREM VerdictFromHistory == ShadowSpec => []NeverGuessed
<1>1. ShadowInv => NeverGuessed BY DEF ShadowInv, NeverGuessed, ReadOff, Replayed, Settled
<1> QED BY <1>1, ShadowInvariant, PTL
=============================================================================
