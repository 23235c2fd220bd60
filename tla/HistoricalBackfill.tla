------------------------- MODULE HistoricalBackfill -------------------------
(* run_usgs_historical_backfill: plan_time_partitions bisects a time range    *)
(* until the source reports few enough events in every slice, then each slice *)
(* is retrieved by IngestionService.run, with retries, and recorded in        *)
(* historical_backfill_slices so that a later invocation skips it.  One       *)
(* action per request or transaction; the source may publish between any two, *)
(* and the operator starts the command again after it ends or dies.           *)
(* IngestionService.run is modelled by its outcomes: the detail of its        *)
(* transactions is in CatalogIngestion.                                       *)
EXTENDS Integers, Sequences, FiniteSets

CONSTANTS
    Event,        \* events the source may come to publish in the range
    At,           \* At[e]: origin time of e
    Early,        \* events published from the beginning
    Ends,         \* values of --end the operator may give; --start is 0
    MaxResults,   \* policy.max_results_per_slice
    FetchCap,     \* adapter.max_results: fetch raises above it
    MinSlice,     \* policy.min_slice
    MaxRetries,   \* policy.max_retries
    MaxStarts     \* bound on the invocations of the command

ASSUME BackfillAssumption ==
    /\ IsFiniteSet(Event) /\ At \in [Event -> Nat] /\ Early \subseteq Event
    /\ Ends \subseteq Nat \ {0}
    /\ MaxResults \in Nat /\ FetchCap \in Nat /\ MaxResults <= FetchCap
    /\ MinSlice \in Nat \ {0} /\ MaxRetries \in Nat \ {0} /\ MaxStarts \in Nat

VARIABLES
    published,   \* what the source reports now
    catalog,     \* events with a committed revision
    rows,        \* historical_backfill_slices: [lo, hi, status]
    starts,      \* invocations so far
    pc,          \* where the command is
    end,         \* --end of this invocation
    agenda,      \* intervals still to be counted, in the order of the recursion
    slices,      \* the leaves found
    current,     \* position of the loop over slices
    attempt, lastError,
    session,     \* "usable", or "broken" from a failed commit until a rollback
    succeeded, skipped, failed   \* the BackfillSummary under construction

planVars == <<end, agenda, slices>>
loopVars == <<current, attempt, lastError, session, succeeded, skipped, failed>>
vars == <<published, catalog, rows, starts, pc, planVars, loopVars>>

Interval == {i \in Nat \X Nat : i[1] < i[2]}
Working == {"planning", "checking", "fetching", "recording", "failing"}
Stopped == {"idle", "done", "aborted", "crashed"}

\* The events of a slice: the query is start <= time < end.
InSlice(i) == {e \in Event : i[1] <= At[e] /\ At[e] < i[2]}
Count(i) == Cardinality(InSlice(i) \cap published)
Midpoint(i) == (i[1] + i[2]) \div 2

\* _existing_slice: there is one row per interval, the process that finds it
\* updates it.
RowOf(i) == {w \in rows : w.lo = i[1] /\ w.hi = i[2]}
\* Variant: the failure message is stored as the status.
RecordedMessage(i, status) ==
    (rows \ RowOf(i)) \cup
        {[lo |-> i[1], hi |-> i[2],
          status |-> IF status = "failed" THEN "error_message" ELSE status]}
Recorded(i, status) == (rows \ RowOf(i)) \cup {[lo |-> i[1], hi |-> i[2], status |-> status]}
Slice == slices[current]
Reported == {failed[k] : k \in 1 .. Len(failed)}

TypeOK ==
    /\ published \subseteq Event /\ catalog \subseteq published
    /\ rows \subseteq [lo : Nat, hi : Nat, status : {"succeeded", "failed"}]
    /\ starts \in 0 .. MaxStarts
    /\ pc \in Working \cup Stopped
    /\ end \in Ends \cup {0}
    /\ agenda \in Seq(Interval) /\ slices \in Seq(Interval)
    /\ current \in Nat /\ attempt \in 1 .. MaxRetries
    /\ lastError \in BOOLEAN /\ session \in {"usable", "broken"}
    /\ succeeded \in Nat /\ skipped \in Nat /\ failed \in Seq(Interval)

Init ==
    /\ published = Early /\ catalog = {} /\ rows = {} /\ starts = 0
    /\ pc = "idle" /\ end = 0 /\ agenda = <<>> /\ slices = <<>>
    /\ current = 1 /\ attempt = 1 /\ lastError = FALSE /\ session = "usable"
    /\ succeeded = 0 /\ skipped = 0 /\ failed = <<>>

-----------------------------------------------------------------------------
(* The source (external) reports an event it did not report before.           *)
Publish(e) ==
    /\ e \notin published
    /\ published' = published \cup {e}
    /\ UNCHANGED <<catalog, rows, starts, pc, planVars, loopVars>>

\* The operator runs the command; the counters of the summary start afresh.
Start(x) ==
    /\ pc \in Stopped /\ starts < MaxStarts
    /\ starts' = starts + 1
    /\ pc' = "planning" /\ end' = x
    /\ agenda' = <<<<0, x>>>> /\ slices' = <<>>
    /\ current' = 1 /\ attempt' = 1 /\ lastError' = FALSE /\ session' = "usable"
    /\ succeeded' = 0 /\ skipped' = 0 /\ failed' = <<>>
    /\ UNCHANGED <<published, catalog, rows>>

-----------------------------------------------------------------------------
(* plan_time_partitions                                                       *)

\* Variant: the right half starts after the midpoint.
PlanWithGap ==
    /\ pc = "planning" /\ agenda # <<>>
    /\ LET i == Head(agenda)
       IN  \/ /\ Count(i) <= MaxResults
              /\ slices' = Append(slices, i)
              /\ agenda' = Tail(agenda)
           \/ /\ Count(i) > MaxResults /\ i[2] - i[1] > MinSlice + 1
              /\ slices' = slices
              /\ agenda' = <<<<i[1], Midpoint(i)>>, <<Midpoint(i) + 1, i[2]>>>> \o Tail(agenda)
    /\ UNCHANGED <<published, catalog, rows, starts, pc, end, loopVars>>

\* One call: count the events of the next interval, keep it or bisect it.
Plan ==
    /\ pc = "planning" /\ agenda # <<>>
    /\ LET i == Head(agenda)
       IN  \/ /\ Count(i) <= MaxResults
              /\ slices' = Append(slices, i)
              /\ agenda' = Tail(agenda)
           \/ /\ Count(i) > MaxResults /\ i[2] - i[1] > MinSlice
              /\ slices' = slices
              /\ agenda' = <<<<i[1], Midpoint(i)>>, <<Midpoint(i), i[2]>>>> \o Tail(agenda)
    /\ UNCHANGED <<published, catalog, rows, starts, pc, end, loopVars>>

\* Too many events at the smallest granularity, or the count request fails:
\* the exception leaves the command, nothing is retrieved.
PlanRaises ==
    /\ pc = "planning" /\ agenda # <<>>
    /\ pc' = "aborted"
    /\ UNCHANGED <<published, catalog, rows, starts, planVars, loopVars>>

PlanDone ==
    /\ pc = "planning" /\ agenda = <<>>
    /\ pc' = "checking"
    /\ UNCHANGED <<published, catalog, rows, starts, planVars, loopVars>>

-----------------------------------------------------------------------------
(* The loop over the slices                                                   *)

NextSlice == /\ current' = current + 1 /\ attempt' = 1 /\ lastError' = FALSE
             /\ pc' = "checking"

\* Variant: no slice is skipped.
CheckNothing ==
    /\ pc = "checking" /\ current <= Len(slices)
    /\ pc' = "fetching"
    /\ UNCHANGED <<published, catalog, rows, starts, planVars, loopVars>>

\* Variant: a slice with any row is skipped.
CheckAnyRow ==
    /\ pc = "checking" /\ current <= Len(slices)
    /\ IF RowOf(Slice) # {}
         THEN /\ skipped' = skipped + 1
              /\ NextSlice
         ELSE /\ pc' = "fetching"
              /\ UNCHANGED <<skipped, current, attempt, lastError>>
    /\ UNCHANGED <<published, catalog, rows, starts, planVars, session, succeeded, failed>>

Check ==
    /\ pc = "checking" /\ current <= Len(slices)
    /\ IF \E w \in RowOf(Slice) : w.status = "succeeded"
         THEN /\ skipped' = skipped + 1
              /\ NextSlice
         ELSE /\ pc' = "fetching"
              /\ UNCHANGED <<skipped, current, attempt, lastError>>
    /\ UNCHANGED <<published, catalog, rows, starts, planVars, session, succeeded, failed>>

\* ingestion_service.run succeeds: what the source reports is in the catalog.
\* The attempt counts as a success before its row is committed.
Fetch ==
    /\ pc = "fetching" /\ session = "usable"
    /\ Count(Slice) <= FetchCap
    /\ catalog' = catalog \cup (InSlice(Slice) \cap published)
    /\ succeeded' = succeeded + 1
    /\ pc' = "recording"
    /\ UNCHANGED <<published, rows, starts, planVars, current, attempt, lastError, session,
                   skipped, failed>>

\* Variant: the attempts are not counted.
RetryForever ==
    /\ lastError' = TRUE
    /\ attempt' = attempt /\ pc' = "fetching"

\* The except clause: another attempt while there is one left.
Retry ==
    /\ lastError' = TRUE
    /\ IF attempt < MaxRetries
         THEN attempt' = attempt + 1 /\ pc' = "fetching"
         ELSE attempt' = attempt /\ pc' = "failing"

\* ingestion_service.run raises: the request failed, the answer is above the
\* cap, its transaction failed, or it committed the rows and failed on its
\* status.  A broken session raises before anything is requested.
FetchRaises ==
    /\ pc = "fetching"
    /\ \/ catalog' = catalog
       \/ /\ session = "usable" /\ Count(Slice) <= FetchCap
          /\ catalog' = catalog \cup (InSlice(Slice) \cap published)
    /\ Retry
    /\ UNCHANGED <<published, rows, starts, planVars, current, session, succeeded, skipped,
                   failed>>

\* Variant: last_error keeps the error of the attempt before.
RecordKeepingError ==
    /\ pc = "recording"
    /\ rows' = Recorded(Slice, "succeeded")
    /\ IF lastError THEN pc' = "failing" /\ UNCHANGED <<current, attempt, lastError>> ELSE NextSlice
    /\ UNCHANGED <<published, catalog, starts, planVars, session, succeeded, skipped, failed>>

\* The row of the slice is committed with status "succeeded".
Record ==
    /\ pc = "recording"
    /\ rows' = Recorded(Slice, "succeeded")
    /\ NextSlice
    /\ UNCHANGED <<published, catalog, starts, planVars, session, succeeded, skipped, failed>>

\* Its commit fails inside the same try: an attempt is used up, and nobody
\* rolls the session back.
RecordRaises ==
    /\ pc = "recording"
    /\ session' = "broken"
    /\ Retry
    /\ UNCHANGED <<published, catalog, rows, starts, planVars, current, succeeded, skipped, failed>>

\* The slice failed for good: it is recorded and the loop goes on.
RecordFailure ==
    /\ pc = "failing" /\ session = "usable"
    /\ rows' = Recorded(Slice, "failed")
    /\ failed' = Append(failed, Slice)
    /\ NextSlice
    /\ UNCHANGED <<published, catalog, starts, planVars, session, succeeded, skipped>>

\* The commit of the failure raises, for a broken session always: the exception
\* leaves the command.
RecordFailureRaises ==
    /\ pc = "failing"
    /\ pc' = "aborted"
    /\ UNCHANGED <<published, catalog, rows, starts, planVars, loopVars>>

Return ==
    /\ pc = "checking" /\ current > Len(slices)
    /\ pc' = "done"
    /\ UNCHANGED <<published, catalog, rows, starts, planVars, loopVars>>

Crash ==
    /\ pc \in Working
    /\ pc' = "crashed"
    /\ UNCHANGED <<published, catalog, rows, starts, planVars, loopVars>>

-----------------------------------------------------------------------------

Command ==
    \/ Plan \/ PlanRaises \/ PlanDone
    \/ Check \/ Fetch \/ FetchRaises \/ Record \/ RecordRaises
    \/ RecordFailure \/ RecordFailureRaises \/ Return

Next ==
    \/ \E e \in Event : Publish(e)
    \/ \E x \in Ends : Start(x)
    \/ Command
    \/ Crash

Spec == Init /\ [][Next]_vars

\* Requests are answered or time out, and the process runs on.
FairSpec == Spec /\ WF_vars(Command)

-----------------------------------------------------------------------------
(* Safety                                                                     *)

\* s covers [0, x) from left to right, without gap or overlap.
Tiles(s, x) ==
    /\ s # <<>> /\ s[1][1] = 0 /\ s[Len(s)][2] = x
    /\ \A k \in 1 .. Len(s) - 1 : s[k][2] = s[k + 1][1]

\* However the counts change while the plan is made, the leaves found so far
\* and the intervals still to be counted cover the range exactly once.
PlanCovers == starts > 0 => Tiles(slices \o agenda, end)

\* A summary tells the truth about the table: it accounts for every slice, and
\* the slices it does not report as failed are recorded as succeeded.
SummaryMatchesRows ==
    pc = "done" =>
        /\ Len(slices) = succeeded + skipped + Len(failed)
        /\ \A k \in 1 .. Len(slices) :
             \E w \in RowOf(slices[k]) :
                w.status = IF slices[k] \in Reported THEN "failed" ELSE "succeeded"

\* No event is lost silently: once a command returns, an event the source
\* reported all along is in the catalog or in a slice reported as failed,
\* through crashes, retries and slices skipped on the word of an earlier run.
NothingLost ==
    pc = "done" =>
        \A e \in Early : At[e] < end =>
            e \in catalog \/ \E i \in Reported : e \in InSlice(i)

\* A time range that was recorded as ingested is not requested again.
NoRefetch ==
    [][pc = "fetching" /\ pc' = "recording" =>
        \A w \in rows : w.status = "succeeded" => w.hi <= Slice[1] \/ Slice[2] <= w.lo]_vars

-----------------------------------------------------------------------------
(* Liveness                                                                   *)

\* Retries and bisection end: the command returns or reports why it did not.
CommandEnds == pc \in Working ~> pc \in Stopped

=============================================================================
