---------------------------- MODULE AsOfReaders ----------------------------
(* The readers that depend on the catalog as of a time t, beside the          *)
(* ingestion that writes it: dataset versions, which freeze one read in a     *)
(* manifest; the folds of a walk-forward evaluation, which read the catalog   *)
(* as of the issue time twice and once more, as of a later time, to count     *)
(* what happened; and clients that page through GET /earthquakes.             *)
(* Ingestion is the log of AbstractCatalog, which CatalogIngestion            *)
(* implements: what holds here holds beside any ingestion that keeps it.      *)
EXTENDS CatalogReads, Integers, Sequences, FiniteSets

CONSTANTS
    Contents,      \* Contents[e]: the contents a source may deliver for e
    AutoDist,      \* largest distance two records of one shock have
    MaxClock,      \* bound on the retrievals
    Dataset,       \* (dataset_id, version) pairs that may be created
    Fold,          \* folds that may be run
    Client,        \* clients that page through the catalog
    Limit,         \* events on a page
    Delay,         \* horizon plus adjudication delay of a fold
    From, To,      \* the event-time window the readers select
    MaxReaders     \* bound on the datasets, folds and clients together

ASSUME ReadersAssumption ==
    /\ Contents \in [Event -> SUBSET Version]
    /\ AutoDist \in Nat /\ MaxClock \in Nat /\ MaxReaders \in Nat
    /\ Limit \in Nat \ {0} /\ Delay \in Nat
    /\ From \in Nat /\ To \in Nat /\ From < To
    /\ IsFiniteSet(Event)

VARIABLES
    clock, open, revs, mem,   \* the log, as in AbstractCatalog
    datasets,   \* frozen manifests [id, asOf, rows, settled]
    fold,       \* fold[k]: step, issue time, the reads made so far
    paging      \* paging[c]: step, as_of, the rows received so far

logVars == <<clock, open, revs, mem>>
readerVars == <<datasets, fold, paging>>
allVars == <<logVars, readerVars>>

Log == INSTANCE AbstractCatalog

Reads(t) == ListEvents(revs, mem, t, From, To)

\* A time is settled when it has passed and no retrieval stamped at or before
\* it can still add rows.
SettledAt(t) == t <= clock /\ \A s \in open : s > t

NewFold == [step |-> "new", issued |-> 0, baseline |-> {}, forecast |-> {},
            observed |-> {}, issuedSettled |-> FALSE, scoredSettled |-> FALSE]
NewPaging == [step |-> "new", asOf |-> 0, got |-> <<>>, settled |-> FALSE]

InitReaders ==
    /\ Log!Init
    /\ datasets = {} /\ fold = [k \in Fold |-> NewFold] /\ paging = [c \in Client |-> NewPaging]

Started ==
    Cardinality(datasets) + Cardinality({k \in Fold : fold[k].step # "new"})
      + Cardinality({c \in Client : paging[c].step # "new"})

-----------------------------------------------------------------------------
(* Ingestion                                                                  *)

Retrieve ==
    /\ clock < MaxClock
    /\ Log!Open
    /\ UNCHANGED readerVars

\* Some content of e and some content of f are close enough to be one shock.
MayMatch(e, f) ==
    \E v \in Contents[e], w \in Contents[f] :
        Place[e][v] - Place[f][w] \in (-AutoDist) .. AutoDist

\* Where the new events E go: each founds a canonical event or joins one, and
\* no canonical event gathers two events of one source, which CatalogIngestion
\* keeps as long as runs of one source do not overlap.
LinksOf(E, t) ==
    {L \in {{[ev |-> e, canon |-> f[e], from |-> t] : e \in E} : f \in [E -> Event]} :
        /\ \A l \in L : \/ l.canon = l.ev
                        \/ \E m \in mem : m.canon = l.canon /\ m.from <= t /\ MayMatch(l.ev, m.ev)
        /\ \A l \in L, m \in mem \cup L :
            l.canon = m.canon /\ SourceOf[l.ev] = SourceOf[m.ev] => l.ev = m.ev}

\* One retrieval commits: at most one content of each event of its source.
Deliver(t) ==
    /\ \E s \in Source : \E E \in SUBSET {e \in Event : SourceOf[e] = s} :
        /\ \E v \in [E -> Version] :
            /\ \A e \in E : v[e] \in Contents[e] /\ \A x \in revs : x.ev = e => x.ver # v[e]
            /\ revs' = revs \cup {[ev |-> e, ver |-> v[e], avail |-> t] : e \in E}
        /\ \E L \in LinksOf({e \in E : \A m \in mem : m.ev # e}, t) : mem' = mem \cup L
    /\ Log!Append(t)
    /\ UNCHANGED readerVars

\* It fails, or found nothing new.
Lapse(t) ==
    /\ Log!Drop(t)
    /\ UNCHANGED readerVars

-----------------------------------------------------------------------------
(* The readers                                                                *)

\* DatasetVersionService.create: a name is used once, the rows are those of one
\* statement.  Nothing compares as_of with the clock or with the runs.
\* `settled` records, for the properties, whether the read was of a settled time.
CreateDataset(d, t) ==
    /\ Started < MaxReaders /\ \A x \in datasets : x.id # d
    /\ datasets' = datasets \cup
         {[id |-> d, asOf |-> t, rows |-> LatestRevisions(revs, t), settled |-> SettledAt(t)]}
    /\ UNCHANGED <<logVars, fold, paging>>

\* _run_one_fold calls prepare_generation_inputs for the baseline.
Prepare(k, t) ==
    /\ Started < MaxReaders /\ fold[k].step = "new"
    /\ fold' = [fold EXCEPT ![k].step = "prepared", ![k].issued = t,
                            ![k].baseline = Reads(t), ![k].issuedSettled = SettledAt(t)]
    /\ UNCHANGED <<logVars, datasets, paging>>

\* Variant: the second read is of the catalog as it is now.
IssueAsOfNow(k) ==
    /\ fold[k].step = "prepared"
    /\ fold' = [fold EXCEPT ![k].step = "issued", ![k].forecast = Reads(clock)]
    /\ UNCHANGED <<logVars, datasets, paging>>

\* issue_forecast reads the same selection again and commits the forecast.
Issue(k) ==
    /\ fold[k].step = "prepared"
    /\ fold' = [fold EXCEPT ![k].step = "issued", ![k].forecast = Reads(fold[k].issued)]
    /\ UNCHANGED <<logVars, datasets, paging>>

\* The observed counts, as of the end of the horizon plus the adjudication
\* delay, whether the clock has reached it or not.
Adjudicate(k) ==
    LET t == fold[k].issued + Delay
    IN  /\ fold[k].step = "issued"
        /\ fold' = [fold EXCEPT ![k].step = "scored", ![k].observed = Reads(t),
                                ![k].scoredSettled = SettledAt(t)]
        /\ UNCHANGED <<logVars, datasets, paging>>

\* A client asks without as_of, or with one that has passed; the answer names
\* the as_of it was given, and the client keeps to it.
StartPaging(c, t) ==
    /\ Started < MaxReaders /\ paging[c].step = "new"
    /\ paging' = [paging EXCEPT ![c] = [step |-> "paging", asOf |-> t, got |-> <<>>, settled |-> SettledAt(t)]]
    /\ UNCHANGED <<logVars, datasets, fold>>

Least(a, b) == IF a < b THEN a ELSE b

When(p) == Place[p.rev.ev][p.rev.ver]

\* The orders a result may come in: order_by(event_time desc) and nothing else,
\* so that rows of one time come in any order, in each request anew.
Orders(S) ==
    {s \in [1 .. Cardinality(S) -> S] :
        \A i, j \in 1 .. Cardinality(S) : i < j => s[i] # s[j] /\ When(s[i]) >= When(s[j])}

\* Variant: the page is that of the catalog as it is now.
PageAsOfNow(c) == Reads(clock)

PageRows(c) == Reads(paging[c].asOf)

\* GET /earthquakes with an offset of what the client has; a page that is not
\* full is the last.
RequestPage(c) ==
    /\ paging[c].step = "paging"
    /\ \E s \in Orders(PageRows(c)) :
        LET offset == Len(paging[c].got)
            page == SubSeq(s, offset + 1, Least(offset + Limit, Len(s)))
        IN  paging' = [paging EXCEPT ![c].got = @ \o page,
                                     ![c].step = IF Len(page) < Limit THEN "done" ELSE "paging"]
    /\ UNCHANGED <<logVars, datasets, fold>>

-----------------------------------------------------------------------------

NextLog == Retrieve \/ \E t \in open : Deliver(t) \/ Lapse(t)

NextReader ==
    \/ \E d \in Dataset, t \in 0 .. (clock + 1) : CreateDataset(d, t)
    \/ \E k \in Fold : Issue(k) \/ Adjudicate(k) \/ \E t \in 0 .. clock : Prepare(k, t)
    \/ \E c \in Client : RequestPage(c) \/ \E t \in 0 .. clock : StartPaging(c, t)

SpecReaders == InitReaders /\ [][NextLog \/ NextReader]_allVars

-----------------------------------------------------------------------------

\* A dataset made from a settled time can be rebuilt, row for row, for ever.
DatasetReproducible ==
    \A d \in datasets : d.settled => d.rows = LatestRevisions(revs, d.asOf)

\* A fold issued at a settled time compares a forecast and a baseline made from
\* the same events, and one scored at a settled time keeps its score.
SettledFoldsAgree ==
    \A k \in Fold :
        /\ fold[k].step \in {"issued", "scored"} /\ fold[k].issuedSettled
             => fold[k].baseline = fold[k].forecast
        /\ fold[k].step = "scored" /\ fold[k].scoredSettled
             => fold[k].observed = Reads(fold[k].issued + Delay)

\* The pages of a settled time, taken while ingestion goes on, hold every event
\* of the list once, when no two events have one event time.
PagesAreWhole ==
    \A c \in Client :
        paging[c].step = "done" /\ paging[c].settled
        /\ (\A p, q \in Reads(paging[c].asOf) : When(p) = When(q) => p = q)
        => paging[c].got \in Orders(Reads(paging[c].asOf))

\* The comment of _run_one_fold: "both reads are guaranteed identical".
FoldReadsIdentical ==
    \A k \in Fold : fold[k].step \in {"issued", "scored"}
                        => fold[k].baseline = fold[k].forecast

=============================================================================
