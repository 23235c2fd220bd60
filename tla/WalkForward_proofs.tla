-------------------------- MODULE WalkForward_proofs --------------------------
(* What interrupted evaluations leave behind and what a promotion rests on,   *)
(* for any number of evaluations, any protocols and thresholds.               *)
EXTENDS WalkForward, FoldCounts_proofs, FiniteSetTheorems, TLAPS

-----------------------------------------------------------------------------
(* The inductive invariant                                                    *)

Due(e) == Times(protocol[e])
Issued(e) == TimesOf({f \in forecasts : f.eval = e})

\* The evaluation has its forecasts up to the issue time l, and the scores
\* of all of them but the last.
Cut(e, l) ==
    /\ l \in Due(e)
    /\ Issued(e) = {t \in Due(e) : t <= l}
    /\ TimesOf(FoldsOf(e)) = {t \in Due(e) : t < l}

\* Nothing of it is committed.
Nothing(e) == evals[e] = None /\ Issued(e) = {} /\ FoldsOf(e) = {}

\* All of it is.
Whole(e) ==
    /\ evals[e] \in EvaluationRun /\ evals[e].protocol = protocol[e] /\ evals[e].aggregated
    /\ evals[e].foldCount = Cardinality(FoldsOf(e))
    /\ Issued(e) = Due(e) /\ TimesOf(FoldsOf(e)) = Due(e) /\ Due(e) # {}

\* What each step of run_walk_forward_evaluation finds.
EvalInv(e) ==
    /\ IsFiniteSet(scores[e])
    /\ pc[e] = "new" => Nothing(e) /\ scores[e] = {} /\ flushed[e] = {}
    /\ pc[e] = "started" =>
          Nothing(e) /\ scores[e] = {} /\ flushed[e] = {} /\ next[e] = protocol[e].start
    /\ pc[e] = "issued" =>
          evals[e] = Placeholder(e) /\ Cut(e, next[e]) /\ flushed[e] = {} /\ scores[e] = FoldsOf(e)
    /\ pc[e] = "scored" =>
          /\ evals[e] = Placeholder(e) /\ Cut(e, next[e] - protocol[e].step)
          /\ \E f \in flushed[e] : /\ f.eval = e /\ f.time = next[e] - protocol[e].step
                                   /\ flushed[e] = {f} /\ scores[e] = FoldsOf(e) \cup {f}
    /\ pc[e] = "finished" => Whole(e) /\ flushed[e] = {}
    /\ pc[e] = "stopped" =>
          /\ flushed[e] = {}
          /\ Nothing(e) \/ \E l \in Due(e) : evals[e] = Placeholder(e) /\ Cut(e, l)

Begun(e) == \E f \in forecasts : f.eval = e

\* An assessment has loaded two evaluations that had committed something, and
\* what it read of a finished candidate is all of it.
ReviewInv ==
    review # None =>
        /\ Begun(review.candidate) /\ Begun(review.champion)
        /\ protocol[review.candidate] = protocol[review.champion]
        /\ review.run.aggregated =>
              /\ pc[review.candidate] = "finished"
              /\ review.folds # None => TimesOf(review.folds) = Times(protocol[review.candidate])

VerdictInv ==
    \A v \in verdicts : v.state = "promote" => pc[v.candidate] = "finished" /\ pc[v.champion] = "finished"

IInv == TypeOK /\ (\A e \in Eval : EvalInv(e)) /\ ReviewInv /\ VerdictInv

-----------------------------------------------------------------------------
(* Issue times                                                                *)

\* Multiples of d are d apart.
LEMMA Apart ==
    ASSUME NEW d \in Nat \ {0}, NEW a \in Int, NEW b \in Int, a % d = 0, b % d = 0, a < b
    PROVE  a + d <= b
<1>1. a = d * (a \div d) /\ a \div d \in Int
  BY Z3
<1>2. b = d * (b \div d) /\ b \div d \in Int
  BY Z3
<1>3. PICK q \in Int, r \in Int : a = d * q /\ b = d * r
  BY <1>1, <1>2
<1>4. q < r
  <2>1. q >= r => d * q >= d * r
    BY <1>3
  <2>2. QED
    BY <1>3, <2>1
<1>5. d * (q + 1) <= d * r
  BY <1>4
<1>6. d * (q + 1) = a + d
  BY <1>3
<1>7. QED
  BY <1>3, <1>5, <1>6

\* A multiple of the step leaves no remainder.
LEMMA Multiple == ASSUME NEW d \in Nat \ {0}, NEW q \in Int PROVE (d * q) % d = 0
BY Z3

\* One step after a multiple of the step comes the next multiple.
LEMMA NextMultiple ==
    ASSUME NEW d \in Nat \ {0}, NEW a \in Int, a % d = 0
    PROVE  (a + d) % d = 0
<1>1. a = d * (a \div d) /\ a \div d \in Int
  BY Z3
<1>2. PICK q \in Int : a = d * q
  BY <1>1
<1>3. a + d = d * (q + 1) /\ q + 1 \in Int
  BY <1>2
<1>4. QED
  BY <1>3, Multiple

\* The issue times of a protocol are natural numbers inside its window, and its start
\* is one of them.
LEMMA ProtocolType ==
    ASSUME NEW p \in Protocol
    PROVE  /\ p.start \in Nat /\ p.end \in Nat /\ p.start < p.end /\ p.step \in Nat \ {0}
           /\ \A t \in Times(p) : t \in Nat /\ p.start <= t /\ t < p.end /\ t \in AllTimes
           /\ p.start \in Times(p)
<1>1. p.start \in Nat /\ p.end \in Nat /\ p.start < p.end /\ p.step \in Nat \ {0}
  BY WalkForwardAssumption
<1>2. \A t \in Times(p) : t \in Nat /\ p.start <= t /\ t < p.end
  BY <1>1 DEF Times
<1>3. \A t \in Times(p) : t \in AllTimes
  BY DEF AllTimes
<1>4. (p.start - p.start) % p.step = 0
  <2>1. p.start - p.start = 0
    BY <1>1
  <2>2. \A d \in Nat \ {0} : 0 % d = 0
    BY Z3
  <2>3. QED
    BY <1>1, <2>1, <2>2
<1>5. p.start \in p.start .. (p.end - 1)
  BY <1>1
<1>6. p.start \in Times(p)
  BY <1>4, <1>5 DEF Times
<1>7. QED
  BY <1>1, <1>2, <1>3, <1>6

\* The loop passes over no issue time.
LEMMA NextTime ==
    ASSUME NEW p \in Protocol, NEW l \in Times(p)
    PROVE  /\ l + p.step < p.end => l + p.step \in Times(p)
           /\ \A t \in Times(p) : t < l + p.step <=> t <= l
<1>1. /\ p.start \in Nat /\ p.end \in Nat /\ p.start < p.end /\ p.step \in Nat \ {0}
      /\ \A t \in Times(p) : t \in Nat /\ p.start <= t /\ t < p.end
  BY ProtocolType
<1>2. \A t \in Times(p) : (t - p.start) % p.step = 0
  BY DEF Times
<1>3. ASSUME l + p.step < p.end PROVE l + p.step \in Times(p)
  <2>1. ((l - p.start) + p.step) % p.step = 0
    BY <1>1, <1>2, NextMultiple
  <2>2. (l - p.start) + p.step = (l + p.step) - p.start
    BY <1>1
  <2>3. l + p.step \in p.start .. (p.end - 1)
    BY <1>1, <1>3
  <2>4. QED
    BY <2>1, <2>2, <2>3 DEF Times
<1>4. ASSUME NEW t \in Times(p), l < t PROVE l + p.step <= t
  <2>1. (l - p.start) + p.step <= t - p.start
    BY <1>1, <1>2, <1>4, Apart
  <2>2. QED
    BY <1>1, <2>1
<1>5. \A t \in Times(p) : t < l + p.step <=> t <= l
  BY <1>1, <1>4
<1>6. QED
  BY <1>3, <1>5

-----------------------------------------------------------------------------
(* Types                                                                      *)

\* A fold's score is a well-formed row.
LEMMA ScoreType ==
    ASSUME TypeOK, NEW e \in Eval, next[e] \in AllTimes
    PROVE  Score(e) \in FoldScore
<1>1. catalog[next[e]] \in SUBSET Event
  BY DEF TypeOK
<1>2. IsFiniteSet(catalog[next[e]])
  BY <1>1, FoldCountsAssumption, FS_Subset
<1>3. \A r : Counted(catalog[next[e]], r) \subseteq catalog[next[e]]
             /\ Scored(catalog[next[e]], r) \subseteq catalog[next[e]]
  BY DEF Counted, Scored, Selected
<1>4. \A r : Cardinality(Counted(catalog[next[e]], r)) \in Nat /\ Cardinality(Scored(catalog[next[e]], r)) \in Nat
  BY <1>2, <1>3, FS_Subset, FS_CardinalityType
<1>5. QED
  BY <1>4 DEF Score, FoldScore

\* The evaluation rows are well formed, as placeholder and with their aggregates.
LEMMA RowTypes ==
    ASSUME TypeOK, NEW e \in Eval
    PROVE  /\ protocol[e] \in Protocol
           /\ Placeholder(e) \in EvaluationRun
           /\ IsFiniteSet(scores[e]) => Aggregates(e) \in EvaluationRun
<1>1. protocol[e] \in Protocol
  BY DEF TypeOK
<1>2. Placeholder(e) \in EvaluationRun
  BY <1>1 DEF Placeholder, EvaluationRun
<1>3. ASSUME IsFiniteSet(scores[e]) PROVE Aggregates(e) \in EvaluationRun
  <2>1. Cardinality(scores[e]) \in Nat
    BY <1>3, FS_CardinalityType
  <2>2. Cardinality(Tested(scores[e])) \in Nat
    BY <1>3, FS_Subset, FS_CardinalityType DEF Tested
  <2>3. QED
    BY <1>1, <2>1, <2>2 DEF Aggregates, EvaluationRun
<1>4. QED
  BY <1>1, <1>2, <1>3

-----------------------------------------------------------------------------
(* What a step leaves alone                                                   *)

\* An evaluation the step is not about.
LEMMA EvalKept ==
    ASSUME NEW e \in Eval, EvalInv(e), protocol' = protocol,
           pc'[e] = pc[e], next'[e] = next[e], scores'[e] = scores[e], flushed'[e] = flushed[e],
           evals'[e] = evals[e], Issued(e)' = Issued(e), FoldsOf(e)' = FoldsOf(e)
    PROVE  EvalInv(e)'
BY DEF EvalInv, Nothing, Whole, Cut, Due, Placeholder

\* Forecasts and folds of one evaluation are not those of another.
LEMMA OtherRows ==
    ASSUME NEW e, NEW x, e # x,
           \A f \in forecasts' : f \in forecasts \/ f.eval = x,
           \A f \in folds' : f \in folds \/ f.eval = x,
           forecasts \subseteq forecasts', folds \subseteq folds'
    PROVE  Issued(e)' = Issued(e) /\ FoldsOf(e)' = FoldsOf(e)
<1>1. {f \in forecasts' : f.eval = e} = {f \in forecasts : f.eval = e}
  OBVIOUS
<1>2. {f \in folds' : f.eval = e} = {f \in folds : f.eval = e}
  OBVIOUS
<1>3. QED
  BY <1>1, <1>2 DEF Issued, FoldsOf

\* The assessment, while evaluations go on.
LEMMA AssessmentKept ==
    ASSUME TypeOK, ReviewInv, VerdictInv, protocol' = protocol, UNCHANGED assessment,
           forecasts \subseteq forecasts',
           \A e \in Eval : pc[e] = "finished" => pc'[e] = "finished"
    PROVE  ReviewInv' /\ VerdictInv'
<1>1. review' = review /\ verdicts' = verdicts
  BY DEF assessment
<1>2. ReviewInv'
  <2>1. SUFFICES ASSUME review # None PROVE ReviewInv'
    BY <1>1 DEF ReviewInv
  <2>2. review.candidate \in Eval
    BY <2>1 DEF TypeOK
  <2>3. QED
    BY <1>1, <2>1, <2>2 DEF ReviewInv, Begun
<1>3. VerdictInv'
  <2>1. SUFFICES ASSUME NEW v \in verdicts, v.state = "promote"
                 PROVE  pc'[v.candidate] = "finished" /\ pc'[v.champion] = "finished"
    BY <1>1 DEF VerdictInv
  <2>2. v.candidate \in Eval /\ v.champion \in Eval
    BY DEF TypeOK
  <2>3. QED
    BY <2>1, <2>2 DEF VerdictInv
<1>4. QED
  BY <1>2, <1>3

-----------------------------------------------------------------------------
(* The steps of an evaluation                                                 *)

\* Opening an evaluation keeps the invariant.
LEMMA StartStep == ASSUME IInv, NEW x \in Eval, Start(x) PROVE IInv'
<1>0. /\ TypeOK /\ EvalInv(x) /\ pc[x] = "new" /\ protocol' = protocol
      /\ pc' = [pc EXCEPT ![x] = "started"] /\ next' = [next EXCEPT ![x] = protocol[x].start]
      /\ UNCHANGED <<world, tables, scores, flushed, assessment>>
  BY DEF IInv, Start
<1>1. UNCHANGED <<catalog, changes, evals, folds, forecasts, review, verdicts>>
  BY <1>0 DEF world, tables, assessment
<1>2. TypeOK'
  <2>1. protocol[x].start \in Nat
    BY <1>0, RowTypes, ProtocolType
  <2>2. next' \in [Eval -> Nat]
    BY <1>0, <2>1 DEF TypeOK
  <2>3. pc' \in [Eval -> Running \cup {"new", "finished", "stopped"}]
    BY <1>0 DEF TypeOK, Running
  <2>4. QED
    BY <1>0, <1>1, <2>2, <2>3 DEF TypeOK
<1>3. \A e \in Eval : Issued(e)' = Issued(e) /\ FoldsOf(e)' = FoldsOf(e)
  BY <1>1 DEF Issued, FoldsOf
<1>4. ASSUME NEW e \in Eval PROVE EvalInv(e)'
  <2>1. CASE e = x
    <3>1. pc'[x] = "started" /\ next'[x] = protocol[x].start
      BY <1>0 DEF TypeOK
    <3>2. Nothing(x) /\ scores[x] = {} /\ flushed[x] = {} /\ IsFiniteSet(scores[x])
      BY <1>0 DEF EvalInv
    <3>3. Nothing(x)'
      BY <1>1, <1>3, <3>2 DEF Nothing
    <3>4. QED
      BY <1>0, <2>1, <3>1, <3>2, <3>3 DEF EvalInv
  <2>2. CASE e # x
    <3>1. pc'[e] = pc[e] /\ next'[e] = next[e]
      BY <1>0, <2>2 DEF TypeOK
    <3>2. EvalInv(e)
      BY DEF IInv
    <3>3. QED
      BY <1>0, <1>1, <1>3, <3>1, <3>2, EvalKept
  <2>3. QED
    BY <2>1, <2>2
<1>5. ReviewInv' /\ VerdictInv'
  <2>1. \A e \in Eval : pc[e] = "finished" => pc'[e] = "finished"
    BY <1>0 DEF TypeOK
  <2>2. ReviewInv /\ VerdictInv
    BY DEF IInv
  <2>3. QED
    BY <1>0, <1>1, <2>1, <2>2, AssessmentKept
<1>6. QED
  BY <1>2, <1>4, <1>5 DEF IInv

\* The catalog changes under every evaluation.
LEMMA CatalogStep == ASSUME IInv, NEW t \in AllTimes, Catalog(t) PROVE IInv'
<1>0. TypeOK /\ ReviewInv /\ VerdictInv
  BY DEF IInv
<1>1. /\ UNCHANGED <<evals, folds, forecasts, pc, protocol, next, scores, flushed, review, verdicts>>
      /\ UNCHANGED assessment
  BY DEF Catalog, tables, procVars, assessment
<1>2. TypeOK'
  <2>1. catalog' \in [AllTimes -> SUBSET Event]
    BY <1>0 DEF Catalog, TypeOK
  <2>2. changes' \in 0 .. MaxChanges
    BY <1>0, WalkForwardAssumption DEF Catalog, TypeOK
  <2>3. QED
    BY <1>0, <1>1, <2>1, <2>2 DEF TypeOK
<1>3. \A e \in Eval : Issued(e)' = Issued(e) /\ FoldsOf(e)' = FoldsOf(e)
  BY <1>1 DEF Issued, FoldsOf
<1>4. ASSUME NEW e \in Eval PROVE EvalInv(e)'
  <2>1. EvalInv(e)
    BY DEF IInv
  <2>2. QED
    BY <1>1, <1>3, <2>1, EvalKept
<1>5. ReviewInv' /\ VerdictInv'
  BY <1>0, <1>1, AssessmentKept
<1>6. QED
  BY <1>2, <1>4, <1>5 DEF IInv

\* Issuing the forecast of a fold keeps the invariant.
LEMMA IssueFoldStep == ASSUME IInv, NEW x \in Eval, IssueFold(x) PROVE IInv'
<1>0. /\ TypeOK /\ EvalInv(x) /\ pc[x] \in {"started", "scored"} /\ next[x] < protocol[x].end
      /\ evals' = [evals EXCEPT ![x] = Placeholder(x)]
      /\ folds' = folds \cup flushed[x] /\ flushed' = [flushed EXCEPT ![x] = {}]
      /\ forecasts' = forecasts \cup {[eval |-> x, time |-> next[x]]}
      /\ pc' = [pc EXCEPT ![x] = "issued"]
  BY DEF IInv, IssueFold
<1>1. UNCHANGED <<catalog, changes, protocol, next, scores, review, verdicts>> /\ UNCHANGED assessment
  BY DEF IssueFold, world, assessment
<1>2. protocol[x] \in Protocol /\ Placeholder(x) \in EvaluationRun
  BY <1>0, RowTypes
<1>3. protocol[x].start \in Nat /\ protocol[x].step \in Nat \ {0} /\ protocol[x].end \in Nat
      /\ \A t \in Due(x) : t \in Nat /\ protocol[x].start <= t /\ t \in AllTimes
  BY <1>2, ProtocolType DEF Due
\* The forecast is for an issue time, the next after those issued.
<1>4. /\ next[x] \in Due(x)
      /\ Issued(x) = {t \in Due(x) : t < next[x]}
      /\ TimesOf(FoldsOf(x) \cup flushed[x]) = {t \in Due(x) : t < next[x]}
      /\ scores[x] = FoldsOf(x) \cup flushed[x]
      /\ \A f \in flushed[x] : f.eval = x
  <2>1. CASE pc[x] = "started"
    <3>1. /\ Issued(x) = {} /\ FoldsOf(x) = {} /\ scores[x] = {} /\ flushed[x] = {}
          /\ next[x] = protocol[x].start
      BY <1>0, <2>1 DEF EvalInv, Nothing
    <3>2. next[x] \in Due(x)
      BY <1>2, <3>1, ProtocolType DEF Due
    <3>3. {t \in Due(x) : t < next[x]} = {}
      BY <1>3, <3>1
    <3>4. TimesOf(FoldsOf(x) \cup flushed[x]) = {}
      BY <3>1 DEF TimesOf
    <3>5. QED
      BY <3>1, <3>2, <3>3, <3>4
  <2>2. CASE pc[x] = "scored"
    <3>1. PICK l : l = next[x] - protocol[x].step
      OBVIOUS
    <3>2. /\ Cut(x, l)
          /\ \E f \in flushed[x] : /\ f.eval = x /\ f.time = l
                                   /\ flushed[x] = {f} /\ scores[x] = FoldsOf(x) \cup {f}
      BY <1>0, <2>2, <3>1 DEF EvalInv
    <3>3. PICK f \in flushed[x] : /\ f.eval = x /\ f.time = l
                                  /\ flushed[x] = {f} /\ scores[x] = FoldsOf(x) \cup {f}
      BY <3>2
    <3>4. l \in Due(x) /\ l \in Nat /\ next[x] = l + protocol[x].step
      BY <1>0, <1>3, <3>1, <3>2 DEF Cut, TypeOK
    <3>5. next[x] \in Due(x) /\ \A t \in Due(x) : t < next[x] <=> t <= l
      BY <1>0, <1>2, <3>4, NextTime DEF Due
    <3>6. Issued(x) = {t \in Due(x) : t < next[x]}
      BY <3>2, <3>5 DEF Cut
    <3>7. TimesOf(FoldsOf(x) \cup flushed[x]) = TimesOf(FoldsOf(x)) \cup {l}
      BY <3>3 DEF TimesOf
    <3>8. TimesOf(FoldsOf(x)) = {t \in Due(x) : t < l}
      BY <3>2 DEF Cut
    <3>9. {t \in Due(x) : t < l} \cup {l} = {t \in Due(x) : t < next[x]}
      BY <1>3, <3>4, <3>5
    <3>10. QED
      BY <3>3, <3>5, <3>6, <3>7, <3>8, <3>9
  <2>3. QED
    BY <1>0, <2>1, <2>2
<1>5. TypeOK'
  <2>1. evals' \in [Eval -> EvaluationRun \cup {None}]
    BY <1>0, <1>2 DEF TypeOK
  <2>2. folds' \subseteq FoldScore /\ flushed' \in [Eval -> SUBSET FoldScore]
    BY <1>0 DEF TypeOK
  <2>3. forecasts' \subseteq [eval : Eval, time : AllTimes]
    BY <1>0, <1>3, <1>4 DEF TypeOK
  <2>4. pc' \in [Eval -> Running \cup {"new", "finished", "stopped"}]
    BY <1>0 DEF TypeOK, Running
  <2>5. QED
    BY <1>0, <1>1, <2>1, <2>2, <2>3, <2>4 DEF TypeOK
<1>6. ASSUME NEW e \in Eval, e # x PROVE EvalInv(e)'
  <2>1. Issued(e)' = Issued(e) /\ FoldsOf(e)' = FoldsOf(e)
    <3>1. \A f \in forecasts' : f \in forecasts \/ f.eval = x
      BY <1>0
    <3>2. \A f \in folds' : f \in folds \/ f.eval = x
      BY <1>0, <1>4
    <3>3. forecasts \subseteq forecasts' /\ folds \subseteq folds'
      BY <1>0
    <3>4. QED
      BY <1>6, <3>1, <3>2, <3>3, OtherRows
  <2>2. pc'[e] = pc[e] /\ evals'[e] = evals[e] /\ flushed'[e] = flushed[e]
    BY <1>0, <1>6 DEF TypeOK
  <2>3. EvalInv(e)
    BY DEF IInv
  <2>4. QED
    BY <1>1, <2>1, <2>2, <2>3, EvalKept
<1>7. EvalInv(x)'
  <2>1. FoldsOf(x)' = FoldsOf(x) \cup flushed[x]
    BY <1>0, <1>4 DEF FoldsOf
  <2>2. Issued(x)' = Issued(x) \cup {next[x]}
    <3>1. {f \in forecasts' : f.eval = x}
            = {f \in forecasts : f.eval = x} \cup {[eval |-> x, time |-> next[x]]}
      BY <1>0
    <3>2. PICK g : g = [eval |-> x, time |-> next[x]]
      OBVIOUS
    <3>3. \A F : TimesOf(F \cup {g}) = TimesOf(F) \cup {g.time}
      BY DEF TimesOf
    <3>4. g.time = next[x]
      BY <3>2
    <3>5. Issued(x)' = TimesOf({f \in forecasts : f.eval = x} \cup {g})
      BY <3>1, <3>2 DEF Issued
    <3>6. QED
      BY <3>3, <3>4, <3>5 DEF Issued
  <2>3. Cut(x, next[x])'
    <3>1. Due(x)' = Due(x) /\ next' = next
      BY <1>1 DEF Due
    <3>2. {t \in Due(x) : t < next[x]} \cup {next[x]} = {t \in Due(x) : t <= next[x]}
      BY <1>3, <1>4
    <3>3. QED
      BY <1>4, <2>1, <2>2, <3>1, <3>2 DEF Cut
  <2>4. pc'[x] = "issued" /\ evals'[x] = Placeholder(x) /\ flushed'[x] = {}
    BY <1>0 DEF TypeOK
  <2>5. Placeholder(x)' = Placeholder(x) /\ IsFiniteSet(scores[x]) /\ scores' = scores
    BY <1>0, <1>1 DEF Placeholder, EvalInv
  <2>6. QED
    BY <1>4, <2>1, <2>3, <2>4, <2>5 DEF EvalInv
<1>8. ReviewInv' /\ VerdictInv'
  <2>1. \A e \in Eval : pc[e] = "finished" => pc'[e] = "finished"
    BY <1>0 DEF TypeOK
  <2>2. ReviewInv /\ VerdictInv /\ forecasts \subseteq forecasts'
    BY <1>0 DEF IInv
  <2>3. QED
    BY <1>0, <1>1, <2>1, <2>2, AssessmentKept
<1>9. QED
  BY <1>5, <1>6, <1>7, <1>8 DEF IInv

\* Scoring a fold keeps the invariant.
LEMMA ScoreFoldStep == ASSUME IInv, NEW x \in Eval, ScoreFold(x) PROVE IInv'
<1>0. /\ TypeOK /\ EvalInv(x) /\ pc[x] = "issued"
      /\ flushed' = [flushed EXCEPT ![x] = {Score(x)}]
      /\ scores' = [scores EXCEPT ![x] = @ \cup {Score(x)}]
      /\ next' = [next EXCEPT ![x] = @ + protocol[x].step]
      /\ pc' = [pc EXCEPT ![x] = "scored"]
  BY DEF IInv, ScoreFold
<1>1. /\ UNCHANGED <<catalog, changes, evals, folds, forecasts, protocol, review, verdicts>>
      /\ UNCHANGED assessment
  BY DEF ScoreFold, world, tables, assessment
<1>2. protocol[x] \in Protocol /\ protocol[x].step \in Nat \ {0}
  BY <1>0, RowTypes, ProtocolType
<1>3. /\ evals[x] = Placeholder(x) /\ Cut(x, next[x]) /\ flushed[x] = {} /\ scores[x] = FoldsOf(x)
      /\ IsFiniteSet(scores[x])
  BY <1>0 DEF EvalInv
<1>4. next[x] \in Nat /\ next[x] \in AllTimes
  BY <1>0, <1>2, <1>3, ProtocolType DEF Cut, Due, TypeOK
<1>5. Score(x) \in FoldScore /\ Score(x).eval = x /\ Score(x).time = next[x]
  BY <1>0, <1>4, ScoreType DEF Score
<1>6. TypeOK'
  <2>1. flushed' \in [Eval -> SUBSET FoldScore] /\ scores' \in [Eval -> SUBSET FoldScore]
    BY <1>0, <1>5 DEF TypeOK
  <2>2. next' \in [Eval -> Nat]
    BY <1>0, <1>2, <1>4 DEF TypeOK
  <2>3. pc' \in [Eval -> Running \cup {"new", "finished", "stopped"}]
    BY <1>0 DEF TypeOK, Running
  <2>4. QED
    BY <1>0, <1>1, <2>1, <2>2, <2>3 DEF TypeOK
<1>7. \A e \in Eval : Issued(e)' = Issued(e) /\ FoldsOf(e)' = FoldsOf(e)
  BY <1>1 DEF Issued, FoldsOf
<1>8. ASSUME NEW e \in Eval PROVE EvalInv(e)'
  <2>1. CASE e = x
    <3>1. /\ pc'[x] = "scored" /\ next'[x] = next[x] + protocol[x].step
          /\ flushed'[x] = {Score(x)} /\ scores'[x] = scores[x] \cup {Score(x)}
      BY <1>0 DEF TypeOK
    <3>2. PICK l : l = next[x]
      OBVIOUS
    <3>3. Cut(x, l)' /\ l = next'[x] - protocol'[x].step
      BY <1>1, <1>2, <1>3, <1>4, <1>7, <3>1, <3>2 DEF Cut, Due
    <3>4. PICK f : f = Score(x)
      OBVIOUS
    <3>5. f \in flushed'[x] /\ f.eval = x /\ f.time = next'[x] - protocol'[x].step
          /\ flushed'[x] = {f} /\ scores'[x] = FoldsOf(x)' \cup {f}
      BY <1>3, <1>5, <1>7, <3>1, <3>2, <3>3, <3>4
    <3>6. IsFiniteSet(scores'[x])
      BY <1>3, <3>1, FS_AddElement
    <3>7. evals'[x] = Placeholder(x)'
      BY <1>1, <1>3 DEF Placeholder
    <3>8. Cut(x, next[x] - protocol[x].step)'
      BY <3>3
    <3>9. QED
      BY <2>1, <3>1, <3>5, <3>6, <3>7, <3>8 DEF EvalInv
  <2>2. CASE e # x
    <3>1. pc'[e] = pc[e] /\ next'[e] = next[e] /\ scores'[e] = scores[e] /\ flushed'[e] = flushed[e]
      BY <1>0, <2>2 DEF TypeOK
    <3>2. EvalInv(e)
      BY DEF IInv
    <3>3. QED
      BY <1>1, <1>7, <3>1, <3>2, EvalKept
  <2>3. QED
    BY <2>1, <2>2
<1>9. ReviewInv' /\ VerdictInv'
  <2>1. \A e \in Eval : pc[e] = "finished" => pc'[e] = "finished"
    BY <1>0 DEF TypeOK
  <2>2. ReviewInv /\ VerdictInv
    BY DEF IInv
  <2>3. QED
    BY <1>0, <1>1, <2>1, <2>2, AssessmentKept
<1>10. QED
  BY <1>6, <1>8, <1>9 DEF IInv

\* Writing the aggregates of an evaluation keeps the invariant.
LEMMA FinishStep == ASSUME IInv, NEW x \in Eval, Finish(x) PROVE IInv'
<1>0. /\ TypeOK /\ EvalInv(x) /\ pc[x] = "scored" /\ next[x] >= protocol[x].end
      /\ evals' = [evals EXCEPT ![x] = Aggregates(x)]
      /\ folds' = folds \cup flushed[x] /\ flushed' = [flushed EXCEPT ![x] = {}]
      /\ pc' = [pc EXCEPT ![x] = "finished"]
  BY DEF IInv, Finish
<1>1. /\ UNCHANGED <<catalog, changes, forecasts, protocol, next, scores, review, verdicts>>
      /\ UNCHANGED assessment
  BY DEF Finish, world, assessment
<1>2. protocol[x] \in Protocol /\ Aggregates(x) \in EvaluationRun /\ IsFiniteSet(scores[x])
  BY <1>0, RowTypes DEF EvalInv
<1>3. protocol[x].step \in Nat \ {0} /\ protocol[x].end \in Nat
      /\ \A t \in Due(x) : t \in Nat /\ t < protocol[x].end
  BY <1>2, ProtocolType DEF Due
\* The last score is that of the last issue time.
<1>4. PICK l \in Due(x), f \in flushed[x] :
        /\ Cut(x, l) /\ next[x] = l + protocol[x].step
        /\ f.eval = x /\ f.time = l /\ flushed[x] = {f} /\ scores[x] = FoldsOf(x) \cup {f}
  <2>1. PICK l : l = next[x] - protocol[x].step
    OBVIOUS
  <2>2. /\ Cut(x, l)
        /\ \E f \in flushed[x] : /\ f.eval = x /\ f.time = l
                                 /\ flushed[x] = {f} /\ scores[x] = FoldsOf(x) \cup {f}
    BY <1>0, <2>1 DEF EvalInv
  <2>3. l \in Due(x) /\ next[x] = l + protocol[x].step
    BY <1>0, <1>3, <2>1, <2>2 DEF Cut, TypeOK
  <2>4. QED
    BY <2>2, <2>3
<1>5. \A t \in Due(x) : t <= l
  <2>1. \A t \in Due(x) : t < l + protocol[x].step <=> t <= l
    BY <1>2, NextTime DEF Due
  <2>2. l + protocol[x].step \in Nat /\ l + protocol[x].step >= protocol[x].end
    BY <1>0, <1>3, <1>4
  <2>3. \A t \in Due(x) : t < l + protocol[x].step
    BY <1>3, <2>2
  <2>4. QED
    BY <2>1, <2>3
<1>6. FoldsOf(x)' = scores[x]
  BY <1>0, <1>4 DEF FoldsOf
<1>7. TimesOf(scores[x]) = Due(x) /\ Issued(x) = Due(x)
  <2>1. TimesOf(FoldsOf(x) \cup {f}) = TimesOf(FoldsOf(x)) \cup {f.time}
    BY DEF TimesOf
  <2>2. TimesOf(FoldsOf(x)) = {t \in Due(x) : t < l} /\ Issued(x) = {t \in Due(x) : t <= l}
    BY <1>4 DEF Cut
  <2>3. {t \in Due(x) : t < l} \cup {l} = Due(x)
    BY <1>3, <1>5
  <2>4. QED
    BY <1>4, <1>5, <2>1, <2>2, <2>3
<1>8. TypeOK'
  <2>1. evals' \in [Eval -> EvaluationRun \cup {None}]
    BY <1>0, <1>2 DEF TypeOK
  <2>2. folds' \subseteq FoldScore /\ flushed' \in [Eval -> SUBSET FoldScore]
    BY <1>0 DEF TypeOK
  <2>3. pc' \in [Eval -> Running \cup {"new", "finished", "stopped"}]
    BY <1>0 DEF TypeOK, Running
  <2>4. QED
    BY <1>0, <1>1, <2>1, <2>2, <2>3 DEF TypeOK
<1>9. ASSUME NEW e \in Eval PROVE EvalInv(e)'
  <2>1. CASE e = x
    <3>1. pc'[x] = "finished" /\ evals'[x] = Aggregates(x) /\ flushed'[x] = {}
      BY <1>0 DEF TypeOK
    <3>2. Issued(x)' = Issued(x) /\ Due(x)' = Due(x)
      BY <1>1 DEF Issued, Due
    <3>3. evals'[x].protocol = protocol[x] /\ evals'[x].aggregated
          /\ evals'[x].foldCount = Cardinality(scores[x])
      BY <3>1 DEF Aggregates
    <3>4. Whole(x)'
      BY <1>1, <1>2, <1>4, <1>6, <1>7, <3>1, <3>2, <3>3 DEF Whole
    <3>5. QED
      BY <1>1, <1>2, <2>1, <3>1, <3>4 DEF EvalInv
  <2>2. CASE e # x
    <3>1. Issued(e)' = Issued(e) /\ FoldsOf(e)' = FoldsOf(e)
      BY <1>0, <1>1, <1>4, <2>2, OtherRows
    <3>2. pc'[e] = pc[e] /\ evals'[e] = evals[e] /\ flushed'[e] = flushed[e]
      BY <1>0, <2>2 DEF TypeOK
    <3>3. EvalInv(e)
      BY DEF IInv
    <3>4. QED
      BY <1>1, <3>1, <3>2, <3>3, EvalKept
  <2>3. QED
    BY <2>1, <2>2
<1>10. ReviewInv' /\ VerdictInv'
  <2>1. \A e \in Eval : pc[e] = "finished" => pc'[e] = "finished"
    BY <1>0 DEF TypeOK
  <2>2. ReviewInv /\ VerdictInv
    BY DEF IInv
  <2>3. QED
    BY <1>0, <1>1, <2>1, <2>2, AssessmentKept
<1>11. QED
  BY <1>8, <1>9, <1>10 DEF IInv

\* An evaluation that stops before its end keeps the invariant.
LEMMA StopStep == ASSUME IInv, NEW x \in Eval, Stop(x) PROVE IInv'
<1>0. /\ TypeOK /\ EvalInv(x) /\ pc[x] \in Running
      /\ flushed' = [flushed EXCEPT ![x] = {}]
      /\ pc' = [pc EXCEPT ![x] = "stopped"]
  BY DEF IInv, Stop
<1>1. /\ UNCHANGED <<catalog, changes, evals, folds, forecasts, protocol, next, scores, review, verdicts>>
      /\ UNCHANGED assessment
  BY DEF Stop, world, tables, assessment
<1>2. TypeOK'
  <2>1. flushed' \in [Eval -> SUBSET FoldScore]
    BY <1>0 DEF TypeOK
  <2>2. pc' \in [Eval -> Running \cup {"new", "finished", "stopped"}]
    BY <1>0 DEF TypeOK, Running
  <2>3. QED
    BY <1>0, <1>1, <2>1, <2>2 DEF TypeOK
<1>3. \A e \in Eval : Issued(e)' = Issued(e) /\ FoldsOf(e)' = FoldsOf(e)
  BY <1>1 DEF Issued, FoldsOf
<1>4. ASSUME NEW e \in Eval PROVE EvalInv(e)'
  <2>1. CASE e = x
    <3>1. pc'[x] = "stopped" /\ flushed'[x] = {}
      BY <1>0 DEF TypeOK
    <3>2. IsFiniteSet(scores[x])
      BY <1>0 DEF EvalInv
    <3>3. Nothing(x) \/ \E l \in Due(x) : evals[x] = Placeholder(x) /\ Cut(x, l)
      BY <1>0 DEF EvalInv, Running, Cut
    <3>4. Nothing(x)' <=> Nothing(x)
      BY <1>1, <1>3 DEF Nothing
    <3>5. Due(x)' = Due(x) /\ Placeholder(x)' = Placeholder(x) /\ \A l : Cut(x, l)' <=> Cut(x, l)
      BY <1>1, <1>3 DEF Due, Placeholder, Cut
    <3>6. (Nothing(x) \/ \E l \in Due(x) : evals[x] = Placeholder(x) /\ Cut(x, l))'
      BY <1>1, <3>3, <3>4, <3>5
    <3>7. QED
      BY <1>1, <2>1, <3>1, <3>2, <3>6 DEF EvalInv
  <2>2. CASE e # x
    <3>1. pc'[e] = pc[e] /\ flushed'[e] = flushed[e]
      BY <1>0, <2>2 DEF TypeOK
    <3>2. EvalInv(e)
      BY DEF IInv
    <3>3. QED
      BY <1>1, <1>3, <3>1, <3>2, EvalKept
  <2>3. QED
    BY <2>1, <2>2
<1>5. ReviewInv' /\ VerdictInv'
  <2>1. \A e \in Eval : pc[e] = "finished" => pc'[e] = "finished"
    BY <1>0 DEF TypeOK, Running
  <2>2. ReviewInv /\ VerdictInv
    BY DEF IInv
  <2>3. QED
    BY <1>0, <1>1, <2>1, <2>2, AssessmentKept
<1>6. QED
  BY <1>2, <1>4, <1>5 DEF IInv

-----------------------------------------------------------------------------
(* The steps of the assessment                                                *)

\* It changes nothing of the evaluations.
LEMMA AssessmentFrame ==
    ASSUME IInv, UNCHANGED <<world, tables, procVars>>
    PROVE  /\ \A e \in Eval : EvalInv(e)'
           /\ UNCHANGED <<catalog, changes, evals, folds, forecasts, pc, protocol, next, scores, flushed>>
<1>1. UNCHANGED <<catalog, changes, evals, folds, forecasts, pc, protocol, next, scores, flushed>>
  BY DEF world, tables, procVars
<1>2. \A e \in Eval : Issued(e)' = Issued(e) /\ FoldsOf(e)' = FoldsOf(e)
  BY <1>1 DEF Issued, FoldsOf
<1>3. \A e \in Eval : EvalInv(e)
  BY DEF IInv
<1>4. \A e \in Eval : EvalInv(e)'
  BY <1>1, <1>2, <1>3, EvalKept
<1>5. QED
  BY <1>1, <1>4

\* A row that can be loaded has a forecast; if its aggregates are there, the
\* evaluation is finished.
LEMMA LoadedRow ==
    ASSUME IInv, NEW e \in Eval, evals[e] # None
    PROVE  /\ evals[e] \in EvaluationRun /\ evals[e].protocol = protocol[e] /\ Begun(e)
           /\ evals[e].aggregated <=> pc[e] = "finished"
<1>0. TypeOK /\ EvalInv(e) /\ evals[e] \in EvaluationRun
  BY DEF IInv, TypeOK
<1>1. Issued(e) # {} => Begun(e)
  BY DEF Issued, TimesOf, Begun
<1>2. CASE pc[e] = "finished"
  BY <1>0, <1>1, <1>2 DEF EvalInv, Whole
<1>3. CASE pc[e] # "finished"
  <2>1. PICK l \in Due(e) : evals[e] = Placeholder(e) /\ Cut(e, l)
    BY <1>0, <1>3 DEF EvalInv, Nothing, TypeOK, Running, Cut
  <2>2. l \in Issued(e)
    <3>1. l \in Nat
      BY <1>0, RowTypes, ProtocolType DEF Due
    <3>2. QED
      BY <2>1, <3>1 DEF Cut
  <2>3. evals[e].protocol = protocol[e] /\ evals[e].aggregated = FALSE
    BY <2>1 DEF Placeholder
  <2>4. QED
    BY <1>0, <1>1, <1>3, <2>2, <2>3
<1>4. QED
  BY <1>2, <1>3

\* Loading the two rows of a comparison keeps the invariant.
LEMMA LoadStep == ASSUME IInv, NEW c \in Eval, NEW h \in Eval, Load(c, h) PROVE IInv'
<1>0. /\ review = None /\ evals[c] # None /\ evals[h] # None
      /\ evals[c].protocol = evals[h].protocol
      /\ review' = [candidate |-> c, champion |-> h, run |-> evals[c], folds |-> None]
      /\ UNCHANGED <<world, tables, procVars, verdicts>>
  BY DEF Load
<1>1. (\A e \in Eval : EvalInv(e)')
      /\ UNCHANGED <<catalog, changes, evals, folds, forecasts, pc, protocol, next, scores, flushed>>
  BY <1>0, AssessmentFrame
<1>2. /\ evals[c] \in EvaluationRun /\ Begun(c) /\ Begun(h) /\ protocol[c] = protocol[h]
      /\ evals[c].aggregated => pc[c] = "finished"
  BY <1>0, LoadedRow
<1>3. TypeOK'
  <2>1. TypeOK
    BY DEF IInv
  <2>2. review' \in [candidate : Eval, champion : Eval, run : EvaluationRun,
                     folds : (SUBSET FoldScore) \cup {None}]
    BY <1>0, <1>2
  <2>3. QED
    BY <1>0, <1>1, <2>1, <2>2 DEF TypeOK
<1>4. ReviewInv'
  <2>1. /\ review'.candidate = c /\ review'.champion = h /\ review'.run = evals[c]
        /\ review'.folds = None
    BY <1>0
  <2>2. QED
    BY <1>1, <1>2, <2>1 DEF ReviewInv, Begun
<1>5. VerdictInv'
  BY <1>0, <1>1 DEF IInv, VerdictInv
<1>6. QED
  BY <1>1, <1>3, <1>4, <1>5 DEF IInv

\* Reading the candidate's folds keeps the invariant.
LEMMA ReadCandidateStep == ASSUME IInv, ReadCandidate PROVE IInv'
<1>0. /\ review # None /\ review.folds = None
      /\ review' = [review EXCEPT !.folds = FoldsOf(review.candidate)]
      /\ UNCHANGED <<world, tables, procVars, verdicts>>
  BY DEF ReadCandidate
<1>1. (\A e \in Eval : EvalInv(e)')
      /\ UNCHANGED <<catalog, changes, evals, folds, forecasts, pc, protocol, next, scores, flushed>>
  BY <1>0, AssessmentFrame
<1>2. TypeOK /\ ReviewInv
  BY DEF IInv
<1>3. PICK c \in Eval : c = review.candidate
  BY <1>0, <1>2 DEF TypeOK
<1>4. FoldsOf(c) \subseteq FoldScore
  BY <1>2 DEF FoldsOf, TypeOK
<1>5. /\ review' \in [candidate : Eval, champion : Eval, run : EvaluationRun,
                      folds : (SUBSET FoldScore) \cup {None}]
      /\ review'.candidate = c /\ review'.champion = review.champion /\ review'.run = review.run
      /\ review'.folds = FoldsOf(c)
  BY <1>0, <1>2, <1>3, <1>4 DEF TypeOK
<1>6. TypeOK'
  BY <1>0, <1>1, <1>2, <1>5 DEF TypeOK
<1>7. ReviewInv'
  <2>1. pc[c] = "finished" => TimesOf(FoldsOf(c)) = Times(protocol[c])
    BY DEF IInv, EvalInv, Whole, Due
  <2>2. QED
    BY <1>0, <1>1, <1>2, <1>3, <1>5, <2>1 DEF ReviewInv, Begun
<1>8. VerdictInv'
  BY <1>0, <1>1 DEF IInv, VerdictInv
<1>9. QED
  BY <1>1, <1>6, <1>7, <1>8 DEF IInv

\* An evaluation that has begun and has a score for every issue time is
\* finished: one that is not lacks the score of its last forecast.
LEMMA WholeIsFinished ==
    ASSUME IInv, NEW e \in Eval, Begun(e), TimesOf(FoldsOf(e)) = Due(e)
    PROVE  pc[e] = "finished"
<1>0. TypeOK /\ EvalInv(e)
  BY DEF IInv
<1>1. Issued(e) # {}
  BY DEF Issued, TimesOf, Begun
<1>2. SUFFICES ASSUME pc[e] # "finished" PROVE FALSE
  OBVIOUS
<1>3. PICK l \in Due(e) : Cut(e, l)
  BY <1>0, <1>1, <1>2 DEF EvalInv, Nothing, TypeOK, Running, Cut
<1>4. l \in Nat /\ l \notin TimesOf(FoldsOf(e))
  <2>1. l \in Nat
    BY <1>0, RowTypes, ProtocolType DEF Due
  <2>2. QED
    BY <1>3, <2>1 DEF Cut
<1>5. QED
  BY <1>3, <1>4

\* Deciding, or refusing, a promotion keeps the invariant.
LEMMA DecideStep == ASSUME IInv, Decide \/ Reject PROVE IInv'
<1>0. review # None /\ review.folds # None /\ review' = None /\ UNCHANGED <<world, tables, procVars>>
  BY DEF Decide, Reject
<1>1. (\A e \in Eval : EvalInv(e)')
      /\ UNCHANGED <<catalog, changes, evals, folds, forecasts, pc, protocol, next, scores, flushed>>
  BY <1>0, AssessmentFrame
<1>2. TypeOK /\ ReviewInv /\ VerdictInv
  BY DEF IInv
<1>3. PICK c \in Eval, h \in Eval : c = review.candidate /\ h = review.champion
  BY <1>0, <1>2 DEF TypeOK
<1>4. ReviewInv'
  BY <1>0 DEF ReviewInv
<1>5. CASE Reject
  <2>1. verdicts' = verdicts
    BY <1>5 DEF Reject
  <2>2. QED
    BY <1>0, <1>1, <1>2, <1>4, <2>1 DEF IInv, TypeOK, VerdictInv
<1>6. CASE Decide
  <2>1. PICK s \in {"promote", "retain_champion", "insufficient_evidence"} :
           /\ Aligned(review.folds, FoldsOf(h))
           /\ s = "insufficient_evidence" <=> ~Sufficient(review.folds)
           /\ verdicts' = verdicts \cup {[candidate |-> c, champion |-> h, state |-> s]}
    BY <1>3, <1>6 DEF Decide
  <2>2. TypeOK'
    BY <1>0, <1>1, <1>2, <1>3, <2>1 DEF TypeOK
  <2>3. ASSUME s = "promote" PROVE pc[c] = "finished" /\ pc[h] = "finished"
    <3>1. review.run.aggregated
      BY <2>1, <2>3 DEF Sufficient
    <3>2. /\ pc[c] = "finished" /\ TimesOf(review.folds) = Times(protocol[c])
          /\ Begun(h) /\ protocol[c] = protocol[h]
      BY <1>0, <1>2, <1>3, <3>1 DEF ReviewInv
    <3>3. TimesOf(FoldsOf(h)) = Due(h)
      BY <2>1, <3>2 DEF Aligned, Due
    <3>4. QED
      BY <3>2, <3>3, WholeIsFinished
  <2>4. VerdictInv'
    <3>1. SUFFICES ASSUME NEW v \in verdicts', v.state = "promote"
                   PROVE  pc[v.candidate] = "finished" /\ pc[v.champion] = "finished"
      BY <1>1 DEF VerdictInv
    <3>2. CASE v \in verdicts
      BY <1>2, <3>1, <3>2 DEF VerdictInv
    <3>3. CASE v = [candidate |-> c, champion |-> h, state |-> s]
      BY <2>3, <3>1, <3>3
    <3>4. QED
      BY <2>1, <3>2, <3>3
  <2>5. QED
    BY <1>1, <1>4, <2>2, <2>4 DEF IInv
<1>7. QED
  BY <1>5, <1>6

-----------------------------------------------------------------------------
(* The theorems                                                               *)

\* The invariant holds before the first evaluation.
LEMMA InitIInv == Init => IInv
<1> SUFFICES ASSUME Init PROVE IInv
  OBVIOUS
<1>1. TypeOK
  <2>1. catalog \in [AllTimes -> SUBSET Event] /\ changes \in 0 .. MaxChanges
    BY WalkForwardAssumption DEF Init
  <2>2. folds \subseteq FoldScore /\ forecasts \subseteq [eval : Eval, time : AllTimes] /\ verdicts = {}
    BY DEF Init
  <2>3. scores \in [Eval -> SUBSET FoldScore] /\ flushed \in [Eval -> SUBSET FoldScore]
    BY DEF Init
  <2>4. QED
    BY <2>1, <2>2, <2>3 DEF Init, TypeOK
<1>2. ASSUME NEW e \in Eval PROVE EvalInv(e)
  <2>1. pc[e] = "new" /\ evals[e] = None /\ scores[e] = {} /\ flushed[e] = {}
    BY DEF Init
  <2>2. Issued(e) = {} /\ FoldsOf(e) = {}
    BY DEF Init, Issued, TimesOf, FoldsOf
  <2>3. QED
    BY <2>1, <2>2, FS_EmptySet DEF EvalInv, Nothing
<1>3. ReviewInv /\ VerdictInv
  BY DEF Init, ReviewInv, VerdictInv
<1>4. QED
  BY <1>1, <1>2, <1>3 DEF IInv

\* Every step keeps the invariant.
LEMMA NextIInv == IInv /\ [Next]_vars => IInv'
<1> SUFFICES ASSUME IInv, [Next]_vars PROVE IInv'
  OBVIOUS
<1>1. ASSUME NEW t \in AllTimes, Catalog(t) PROVE IInv'
  BY <1>1, CatalogStep
<1>2. ASSUME NEW e \in Eval, Start(e) \/ IssueFold(e) \/ ScoreFold(e) \/ Finish(e) \/ Stop(e)
      PROVE  IInv'
  BY <1>2, StartStep, IssueFoldStep, ScoreFoldStep, FinishStep, StopStep
<1>3. ASSUME NEW c \in Eval, NEW h \in Eval, Load(c, h) PROVE IInv'
  BY <1>3, LoadStep
<1>4. CASE ReadCandidate \/ Decide \/ Reject
  BY <1>4, ReadCandidateStep, DecideStep
<1>5. CASE UNCHANGED vars
  <2>1. UNCHANGED <<world, tables, procVars>> /\ UNCHANGED assessment
    BY <1>5 DEF vars
  <2>2. (\A e \in Eval : EvalInv(e)')
        /\ UNCHANGED <<catalog, changes, evals, folds, forecasts, pc, protocol, next, scores, flushed>>
    BY <2>1, AssessmentFrame
  <2>3. TypeOK'
    BY <2>1, <2>2 DEF IInv, TypeOK, assessment
  <2>4. ReviewInv' /\ VerdictInv'
    BY <2>1, <2>2, AssessmentKept DEF IInv
  <2>5. QED
    BY <2>2, <2>3, <2>4 DEF IInv
<1>6. QED
  BY <1>1, <1>2, <1>3, <1>4, <1>5 DEF Next

\* The inductive invariant holds for any evaluations, interrupted anywhere.
THEOREM Invariance == Spec => []IInv
<1>1. QED
  BY InitIInv, NextIInv, PTL DEF Spec

\* The variables keep their types: what is scored and committed of any fold is
\* a number of events of a finite catalog, at an issue time of its protocol.
THEOREM TypeCorrect == Spec => []TypeOK
<1>1. IInv => TypeOK
  BY DEF IInv
<1>2. QED
  BY <1>1, Invariance, PTL

\* Wherever run_walk_forward_evaluation is interrupted, for any protocol, it
\* leaves a beginning of the evaluation with one forecast nobody has scored; a
\* row with its aggregates has every forecast and every score.
THEOREM FoldsArePrefixHolds == Spec => []FoldsArePrefix
<1>1. ASSUME IInv, NEW e \in Eval, evals[e] # None
      PROVE  LET due == Times(evals[e].protocol)
                 issued == TimesOf({f \in forecasts : f.eval = e})
             IN  /\ issued = {t \in due : \A u \in due \ issued : t < u}
                 /\ IF evals[e].aggregated
                      THEN /\ issued = due /\ TimesOf(FoldsOf(e)) = due
                           /\ evals[e].foldCount = Cardinality(FoldsOf(e))
                      ELSE \E last \in issued : /\ TimesOf(FoldsOf(e)) = issued \ {last}
                                                /\ \A t \in issued : t <= last
  <2>0. /\ TypeOK /\ EvalInv(e) /\ evals[e].protocol = protocol[e]
        /\ evals[e].aggregated <=> pc[e] = "finished"
    BY <1>1, LoadedRow DEF IInv
  <2>1. \A t \in Due(e) : t \in Nat
    BY <2>0, RowTypes, ProtocolType DEF Due
  <2>2. Times(evals[e].protocol) = Due(e) /\ TimesOf({f \in forecasts : f.eval = e}) = Issued(e)
    BY <2>0 DEF Due, Issued
  <2>3. CASE pc[e] = "finished"
    <3>1. /\ evals[e].foldCount = Cardinality(FoldsOf(e))
          /\ Issued(e) = Due(e) /\ TimesOf(FoldsOf(e)) = Due(e)
      BY <2>0, <2>3 DEF EvalInv, Whole
    <3>2. QED
      BY <2>0, <2>2, <2>3, <3>1
  <2>4. CASE pc[e] # "finished"
    <3> DEFINE due == Times(evals[e].protocol)
               issued == TimesOf({f \in forecasts : f.eval = e})
    <3>0. due = Due(e) /\ issued = Issued(e) /\ ~evals[e].aggregated
      BY <2>0, <2>2, <2>4
    <3>1. PICK l \in Due(e) : Cut(e, l)
      BY <1>1, <2>0, <2>4 DEF EvalInv, Nothing, TypeOK, Running, Cut
    <3>2. Issued(e) = {t \in Due(e) : t <= l} /\ TimesOf(FoldsOf(e)) = {t \in Due(e) : t < l}
      BY <3>1 DEF Cut
    <3>3. Issued(e) = {t \in Due(e) : \A u \in Due(e) \ Issued(e) : t < u}
      BY <2>1, <3>2
    <3>4. l \in Issued(e) /\ TimesOf(FoldsOf(e)) = Issued(e) \ {l} /\ \A t \in Issued(e) : t <= l
      BY <2>1, <3>2
    <3> HIDE DEF due, issued
    <3>5. issued = {t \in due : \A u \in due \ issued : t < u}
      BY <3>0, <3>3
    <3>6. \E last \in issued : TimesOf(FoldsOf(e)) = issued \ {last} /\ \A t \in issued : t <= last
      BY <3>0, <3>4
    <3>7. QED
      BY <3>0, <3>5, <3>6 DEF due, issued
  <2>5. QED
    BY <2>3, <2>4
<1>2. IInv => FoldsArePrefix
  BY <1>1 DEF FoldsArePrefix
<1>3. QED
  BY <1>2, Invariance, PTL

\* A promotion rests on two whole evaluations for any thresholds, although
\* assess-model-promotion looks at the aggregates of the candidate only and
\* reads while both may be running.
THEOREM PromotionHolds == Spec => []PromotionComparesWholeRuns
<1>1. ASSUME IInv, NEW v \in verdicts, v.state = "promote", NEW e \in {v.candidate, v.champion}
      PROVE  evals[e].aggregated /\ TimesOf(FoldsOf(e)) = Times(evals[e].protocol)
  <2>1. e \in Eval /\ pc[e] = "finished"
    BY <1>1 DEF IInv, TypeOK, VerdictInv
  <2>2. Whole(e)
    BY <1>1, <2>1 DEF IInv, EvalInv
  <2>3. QED
    BY <2>2 DEF Whole, Due
<1>2. IInv => PromotionComparesWholeRuns
  BY <1>1 DEF PromotionComparesWholeRuns
<1>3. QED
  BY <1>2, Invariance, PTL

\* The scores of a fold are over the events of the forecast's estimable rows,
\* for any grid, region and bins that ascend: what _cell_id_for_point and
\* _magnitude_bin_index count event by event is what the bounds of the cells
\* and bins count row by row.
THEOREM ScoresMatchForecastHolds == Spec => ScoresMatchForecast
<1>1. ASSUME IInv, [Next]_vars, NEW e \in Eval, NEW f \in flushed'[e] \ flushed[e]
      PROVE  f.scored = SumOfRows(catalog[f.time], Reference[e])
  <2>1. flushed \in [Eval -> SUBSET FoldScore]
    BY <1>1 DEF IInv, TypeOK
  <2>2. CASE \E x \in Eval : ScoreFold(x)
    <3>1. PICK x \in Eval : ScoreFold(x)
      BY <2>2
    <3>2. pc[x] = "issued" /\ flushed' = [flushed EXCEPT ![x] = {Score(x)}]
      BY <3>1 DEF ScoreFold
    <3>3. x = e /\ f = Score(e)
      BY <1>1, <2>1, <3>2
    <3>4. Cut(e, next[e]) /\ protocol[e] \in Protocol
      BY <1>1, <3>2, <3>3, RowTypes DEF IInv, EvalInv
    <3>5. next[e] \in AllTimes
      BY <3>4, ProtocolType DEF Cut, Due
    <3>6. catalog[next[e]] \in SUBSET Event /\ Reference[e] \in Int
      BY <1>1, <3>5, WalkForwardAssumption DEF IInv, TypeOK
    <3>7. f.time = next[e] /\ f.scored = Cardinality(Scored(catalog[next[e]], Reference[e]))
      BY <3>3 DEF Score
    <3>8. QED
      BY <3>6, <3>7, RowsAddUp
  <2>3. CASE \E x \in Eval : IssueFold(x) \/ Finish(x) \/ Stop(x)
    <3>1. PICK x \in Eval : flushed' = [flushed EXCEPT ![x] = {}]
      BY <2>3 DEF IssueFold, Finish, Stop
    <3>2. QED
      BY <1>1, <2>1, <3>1
  <2>4. CASE /\ ~(\E x \in Eval : ScoreFold(x))
             /\ ~(\E x \in Eval : IssueFold(x) \/ Finish(x) \/ Stop(x))
    <3>1. UNCHANGED flushed
      BY <1>1, <2>4 DEF Next, Catalog, Start, Load, ReadCandidate, Decide, Reject, procVars, vars
    <3>2. QED
      BY <1>1, <3>1
  <2>5. QED
    BY <2>2, <2>3, <2>4
<1>2. ASSUME IInv, [Next]_vars
      PROVE  [\A e \in Eval : \A f \in flushed'[e] \ flushed[e] :
                LET InRow(row) ==
                        Cardinality(RowEvents(catalog[f.time], Reference[e], row[1], row[2]))
                IN  f.scored = MapThenSumSet(InRow,
                        Cell \X {i \in DOMAIN Bins : Estimable(i, Reference[e])})]_vars
  BY <1>1, <1>2 DEF SumOfRows, RowCount, EstimableRows
<1>3. QED
  BY <1>2, Invariance, PTL DEF Spec, ScoresMatchForecast

=============================================================================
