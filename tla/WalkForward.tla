----------------------------- MODULE WalkForward -----------------------------
(* run_walk_forward_evaluation and assess-model-promotion.  An evaluation     *)
(* issues and scores a forecast per issue time.  Its transactions do not end  *)
(* with its steps: issue_forecast commits whatever the session has flushed,   *)
(* so a score becomes visible with the next forecast, and the evaluation row, *)
(* flushed first with fold_count = 0, with the first.  An evaluation that     *)
(* raises or dies keeps what was committed, and nothing resumes it.           *)
(* The assessment reads two evaluations while others run.                     *)
EXTENDS FoldCounts

CONSTANTS
    Eval,        \* evaluations that may be run
    Protocol,    \* arguments: [start, end, step, horizon], in ticks
    Reference,   \* Reference[e]: mc_value of the estimates e evaluates
    MinFolds,    \* policy.min_folds
    MinEvents,   \* policy.min_observed_events
    MinTested,   \* policy.min_estimable_csep_folds
    MaxChanges   \* bound on the changes of the catalog

ASSUME WalkForwardAssumption ==
    /\ \A p \in Protocol : /\ {p.start, p.end} \subseteq Nat /\ p.start < p.end
                           /\ p.step \in Nat \ {0} /\ p.horizon \in Nat \ {0}
    /\ Reference \in [Eval -> Int]
    /\ MinFolds \in Nat \ {0, 1} /\ {MinEvents, MinTested} \subseteq Nat \ {0} /\ MaxChanges \in Nat
    /\ None \notin Eval

Times(p) == {t \in p.start .. (p.end - 1) : (t - p.start) % p.step = 0}
AllTimes == UNION {Times(p) : p \in Protocol}

VARIABLES
    catalog,    \* catalog[t]: events the catalog has in the window of the forecast of time t
    changes,    \* their changes so far
    evals,      \* evals[e]: the committed row of the evaluation, or None
    folds,      \* committed evaluation_fold_scores: [eval, time, observed]
    forecasts,  \* forecast_runs committed by folds: [eval, time]
    pc,         \* step of each evaluation's process
    protocol,   \* its arguments
    next,       \* issue_time
    scores,     \* fold_scores, the folds scored so far
    flushed,    \* the fold score flushed and not committed, if any
    review,     \* the assessment under way, or None
    verdicts    \* the assessments made: [candidate, champion, state]

world == <<catalog, changes>>
tables == <<evals, folds, forecasts>>
procVars == <<pc, protocol, next, scores, flushed>>
assessment == <<review, verdicts>>
vars == <<world, tables, procVars, assessment>>

\* spatialFolds stands for fold_count_estimable of the spatial and magnitude
\* tests, `scored` for the observed_count of the number test.
EvaluationRun == [protocol : Protocol, foldCount : Nat, spatialFolds : Nat, aggregated : BOOLEAN]
FoldScore == [eval : Eval, time : AllTimes, observed : Nat, scored : Nat]
Running == {"started", "issued", "scored"}
FoldsOf(e) == {f \in folds : f.eval = e}
TimesOf(F) == {f.time : f \in F}

TypeOK ==
    /\ catalog \in [AllTimes -> SUBSET Event] /\ changes \in 0 .. MaxChanges
    /\ evals \in [Eval -> EvaluationRun \cup {None}]
    /\ folds \subseteq FoldScore /\ forecasts \subseteq [eval : Eval, time : AllTimes]
    /\ pc \in [Eval -> Running \cup {"new", "finished", "stopped"}]
    /\ protocol \in [Eval -> Protocol] /\ next \in [Eval -> Nat]
    /\ scores \in [Eval -> SUBSET FoldScore] /\ flushed \in [Eval -> SUBSET FoldScore]
    /\ review \in [candidate : Eval, champion : Eval, run : EvaluationRun,
                   folds : (SUBSET FoldScore) \cup {None}] \cup {None}
    /\ verdicts \subseteq [candidate : Eval, champion : Eval,
                           state : {"promote", "retain_champion", "insufficient_evidence"}]

Init ==
    /\ catalog = [t \in AllTimes |-> {}] /\ changes = 0
    /\ evals = [e \in Eval |-> None] /\ folds = {} /\ forecasts = {}
    /\ pc = [e \in Eval |-> "new"]
    /\ protocol \in [Eval -> Protocol]
    /\ next = [e \in Eval |-> 0]
    /\ scores = [e \in Eval |-> {}] /\ flushed = [e \in Eval |-> {}]
    /\ review = None /\ verdicts = {}

\* Ingestion adds an event to a window, or a revision takes one out.
Catalog(t) ==
    /\ changes < MaxChanges /\ changes' = changes + 1
    /\ \E ev \in Event :
        catalog' = [catalog EXCEPT ![t] = IF ev \in @ THEN @ \ {ev} ELSE @ \cup {ev}]
    /\ UNCHANGED <<tables, procVars, assessment>>

-----------------------------------------------------------------------------
(* run_walk_forward_evaluation                                                *)

\* The evaluation row is flushed: nobody else sees it.
Start(e) ==
    /\ pc[e] = "new"
    /\ pc' = [pc EXCEPT ![e] = "started"] /\ next' = [next EXCEPT ![e] = protocol[e].start]
    /\ UNCHANGED <<world, tables, protocol, scores, flushed, assessment>>

Placeholder(e) == [protocol |-> protocol[e], foldCount |-> 0, spatialFolds |-> 0, aggregated |-> FALSE]

\* issue_forecast for the next issue time.  Its commit takes the evaluation row
\* and the score of the fold before along.
IssueFold(e) ==
    /\ pc[e] \in {"started", "scored"} /\ next[e] < protocol[e].end
    /\ evals' = [evals EXCEPT ![e] = Placeholder(e)]
    /\ folds' = folds \cup flushed[e] /\ flushed' = [flushed EXCEPT ![e] = {}]
    /\ forecasts' = forecasts \cup {[eval |-> e, time |-> next[e]]}
    /\ pc' = [pc EXCEPT ![e] = "issued"]
    /\ UNCHANGED <<world, protocol, next, scores, assessment>>

\* Variant: a window without events has no count.
ScoreUnlessEmpty(e) ==
    LET n == Cardinality(Counted(catalog[next[e]], Reference[e]))
    IN  [eval |-> e, time |-> next[e], observed |-> IF n = 0 THEN None ELSE n,
         scored |-> Cardinality(Scored(catalog[next[e]], Reference[e]))]

Score(e) ==
    [eval |-> e, time |-> next[e],
     observed |-> Cardinality(Counted(catalog[next[e]], Reference[e])),
     scored |-> Cardinality(Scored(catalog[next[e]], Reference[e]))]

\* Variant: the score is committed at once.
ScoreFoldCommitting(e) ==
    /\ pc[e] = "issued"
    /\ folds' = folds \cup {Score(e)}
    /\ scores' = [scores EXCEPT ![e] = @ \cup {Score(e)}]
    /\ next' = [next EXCEPT ![e] = @ + protocol[e].step]
    /\ pc' = [pc EXCEPT ![e] = "scored"]
    /\ UNCHANGED <<world, evals, forecasts, protocol, flushed, assessment>>

\* The rest of _run_one_fold: the catalog is read as of the end of the window
\* plus the delay, and the score is flushed.  The clock is not consulted.
ScoreFold(e) ==
    /\ pc[e] = "issued"
    /\ flushed' = [flushed EXCEPT ![e] = {Score(e)}]
    /\ scores' = [scores EXCEPT ![e] = @ \cup {Score(e)}]
    /\ next' = [next EXCEPT ![e] = @ + protocol[e].step]
    /\ pc' = [pc EXCEPT ![e] = "scored"]
    /\ UNCHANGED <<world, tables, protocol, assessment>>

\* Folds for which the spatial and the magnitude test give a result: there is
\* an event to condition on.
Tested(F) == {f \in F : f.scored > 0}

Aggregates(e) ==
    [protocol |-> protocol[e], foldCount |-> Cardinality(scores[e]),
     spatialFolds |-> Cardinality(Tested(scores[e])), aggregated |-> TRUE]

\* The aggregates are filled in; the commit takes the last score along.
Finish(e) ==
    /\ pc[e] = "scored" /\ next[e] >= protocol[e].end
    /\ evals' = [evals EXCEPT ![e] = Aggregates(e)]
    /\ folds' = folds \cup flushed[e] /\ flushed' = [flushed EXCEPT ![e] = {}]
    /\ pc' = [pc EXCEPT ![e] = "finished"]
    /\ UNCHANGED <<world, forecasts, protocol, next, scores, assessment>>

\* A check of prepare_generation_inputs raises, a statement fails or the process
\* dies: what is flushed is rolled back, what was committed stays.
Stop(e) ==
    /\ pc[e] \in Running
    /\ flushed' = [flushed EXCEPT ![e] = {}]
    /\ pc' = [pc EXCEPT ![e] = "stopped"]
    /\ UNCHANGED <<world, tables, protocol, next, scores, assessment>>

-----------------------------------------------------------------------------
(* assess-model-promotion                                                     *)

\* Both rows are loaded, and their protocols compared.
Load(c, h) ==
    /\ review = None /\ evals[c] # None /\ evals[h] # None
    /\ evals[c].protocol = evals[h].protocol
    /\ review' = [candidate |-> c, champion |-> h, run |-> evals[c], folds |-> None]
    /\ UNCHANGED <<world, tables, procVars, verdicts>>

\* The folds of the candidate, then (in Decide) those of the champion: two
\* statements, each sees what is committed.
ReadCandidate ==
    /\ review # None /\ review.folds = None
    /\ review' = [review EXCEPT !.folds = FoldsOf(review.candidate)]
    /\ UNCHANGED <<world, tables, procVars, verdicts>>

Observed(f) == f.observed
Total(F) == MapThenSumSet(Observed, F)

\* Evidence: enough folds and events, and enough folds in each of the tests the
\* candidate's aggregates report, which are missing until it finishes.
Sufficient(F) ==
    /\ Cardinality(F) >= MinFolds /\ Total(F) >= MinEvents
    /\ review.run.aggregated
    /\ review.run.foldCount >= MinTested /\ review.run.spatialFolds >= MinTested

\* Variant: the folds need not be the same.
AlignedOverlap(F, G) == \A f \in F, g \in G : f.time = g.time => f.observed = g.observed

\* Same issue times, same observed counts.
Aligned(F, G) ==
    /\ TimesOf(F) = TimesOf(G)
    /\ \A f \in F, g \in G : f.time = g.time => f.observed = g.observed

\* The verdict.  Whether the scores reach the thresholds is not modelled; the
\* gain over itself is zero, which is not enough.
Decide ==
    /\ review # None /\ review.folds # None
    /\ LET F == review.folds
           G == FoldsOf(review.champion)
       IN  /\ Aligned(F, G)
           /\ \E s \in {"promote", "retain_champion", "insufficient_evidence"} :
                /\ s = "insufficient_evidence" <=> ~Sufficient(F)
                /\ s = "promote" => review.candidate # review.champion
                /\ verdicts' = verdicts \cup
                     {[candidate |-> review.candidate, champion |-> review.champion, state |-> s]}
    /\ review' = None
    /\ UNCHANGED <<world, tables, procVars>>

\* SystemExit: the folds do not align, or the observed counts differ.
Reject ==
    /\ review # None /\ review.folds # None
    /\ ~Aligned(review.folds, FoldsOf(review.champion))
    /\ review' = None
    /\ UNCHANGED <<world, tables, procVars, verdicts>>

-----------------------------------------------------------------------------

Next ==
    \/ \E t \in AllTimes : Catalog(t)
    \/ \E e \in Eval : Start(e) \/ IssueFold(e) \/ ScoreFold(e) \/ Finish(e) \/ Stop(e)
    \/ \E c, h \in Eval : Load(c, h)
    \/ ReadCandidate \/ Decide \/ Reject

Spec == Init /\ [][Next]_vars

-----------------------------------------------------------------------------
(* Safety                                                                     *)

\* Wherever an evaluation is interrupted, what it leaves behind is a beginning
\* of it, with exactly one forecast nobody has scored; and one that says how many
\* folds it has, has them all, one score and one forecast for every issue time.
FoldsArePrefix ==
    \A e \in Eval : evals[e] # None =>
        LET due == Times(evals[e].protocol)
            issued == TimesOf({f \in forecasts : f.eval = e})
        IN  /\ issued = {t \in due : \A u \in due \ issued : t < u}
            /\ IF evals[e].aggregated
                 THEN /\ issued = due /\ TimesOf(FoldsOf(e)) = due
                      /\ evals[e].foldCount = Cardinality(FoldsOf(e))
                 ELSE \E last \in issued : /\ TimesOf(FoldsOf(e)) = issued \ {last}
                                           /\ \A t \in issued : t <= last

\* A promotion rests on two whole evaluations, although the assessment looks at
\* the aggregates of one of them only and reads while both may be running.
PromotionComparesWholeRuns ==
    \A v \in verdicts : v.state = "promote" =>
        \A e \in {v.candidate, v.champion} :
            /\ evals[e].aggregated
            /\ TimesOf(FoldsOf(e)) = Times(evals[e].protocol)

\* The scores of a fold are over the events of the forecast's estimable rows,
\* told by the bounds of their cells and bins, each event in one row.
ScoresMatchForecast ==
    [][\A e \in Eval : \A f \in flushed'[e] \ flushed[e] :
        LET InRow(row) ==
                Cardinality(RowEvents(catalog[f.time], Reference[e], row[1], row[2]))
        IN  f.scored = MapThenSumSet(InRow,
                Cell \X {i \in DOMAIN Bins : Estimable(i, Reference[e])})]_vars

=============================================================================
