-------------------------- MODULE TectonicReleases --------------------------
(* Acquisition of the tectonic releases (ingest-slab2, ingest-chaf) and the   *)
(* classification of event revisions against them (classify-tectonics), as    *)
(* commands that may overlap.  A command reads what is committed; what it     *)
(* inserts is seen by others once its transaction commits.  load_nodes and    *)
(* load_chaf have one control flow, and so have obtain and obtain_local: each *)
(* pair is one group of actions here.                                         *)
EXTENDS Integers, Sequences, FiniteSets

CONSTANTS
    Slab, Fault,  \* releases of the source slab2_south_america_2018; of chaf_2020
    Assets,       \* Assets[rel]: the asset types the command obtains, in order
    Batches,      \* how many batches the nodes or traces of a release make
    Loader,       \* ingest commands that may be started (bounds the model)
    Classifier,   \* classify commands that may be started (bounds the model)
    Revision,     \* event revisions
    Available,    \* Available[v]: available_at, one for the revisions of an artifact
    Method,       \* method_version of the configured classifier
    Limit,        \* --limit
    None

Release == Slab \cup Fault
Batch == 1 .. Batches

ASSUME TectonicAssumption ==
    /\ Slab \cap Fault = {}
    /\ \A rel \in Release : Assets[rel] \in Seq(STRING) /\ Assets[rel] # <<>>
    /\ Batches \in Nat \ {0}
    /\ Available \in [Revision -> Nat] /\ Limit \in Nat \ {0}
    /\ \A v \in Revision : IsFiniteSet({w \in Revision : Available[w] = Available[v]})
    /\ Loader \cap Classifier = {}
    /\ None \notin Release /\ None \notin Method /\ None \notin Revision

VARIABLES
    release,   \* release[rel]: TectonicRelease.status; "absent" before the row
    asset,     \* TectonicAsset rows: pairs <<release, asset type>>
    rows,      \* committed SlabNode and FaultTrace rows: <<release, batch>>
    arrived,   \* committed event revisions
    results,   \* EventTectonicClassification rows
    runs,      \* runs[p]: IngestionRun rows of p, asset type and status
    step,      \* where the process of a command is
    target,    \* the release an ingest command builds
    next,      \* index of the asset it obtains
    tx,        \* the batches it inserted and did not commit
    slab, fault, method,   \* what a classify command uses
    seen,      \* revisions that had arrived when it selected (history)
    todo       \* revisions it selected and has not dealt with, in order

dbVars == <<release, asset, rows, arrived, results>>
loaderVars == <<runs, target, next, tx>>
classifierVars == <<slab, fault, method, seen, todo>>
vars == <<dbVars, step, loaderVars, classifierVars>>

Command == Loader \cup Classifier
Stopped == {"done", "raised", "crashed"}
Key == [rev : Revision, slab : Slab, fault : Fault, method : Method]

TypeOK ==
    /\ release \in [Release -> {"absent", "building", "ready"}]
    /\ asset \subseteq Release \X STRING
    /\ rows \subseteq Release \X Batch
    /\ arrived \subseteq Revision /\ results \subseteq Key
    /\ runs \in [Loader -> SUBSET [asset : STRING, status : {"running", "succeeded", "failed"}]]
    /\ step \in [Command -> {"new", "ensure", "obtain", "download", "check", "insert",
                             "pick", "select", "look", "write"} \cup Stopped]
    /\ target \in [Loader -> Release \cup {None}]
    /\ next \in [Loader -> Nat]
    /\ tx \in [Loader -> SUBSET Batch]
    /\ slab \in [Classifier -> Slab \cup {None}]
    /\ fault \in [Classifier -> Fault \cup {None}]
    /\ method \in [Classifier -> Method \cup {None}]
    /\ seen \in [Classifier -> SUBSET Revision]
    /\ todo \in [Classifier -> Seq(Revision)]

Init ==
    /\ release = [rel \in Release |-> "absent"]
    /\ asset = {} /\ rows = {} /\ arrived = {} /\ results = {}
    /\ runs = [p \in Loader |-> {}]
    /\ step = [c \in Command |-> "new"]
    /\ target = [p \in Loader |-> None]
    /\ next = [p \in Loader |-> 1]
    /\ tx = [p \in Loader |-> {}]
    /\ slab = [c \in Classifier |-> None]
    /\ fault = [c \in Classifier |-> None]
    /\ method = [c \in Classifier |-> None]
    /\ seen = [c \in Classifier |-> {}]
    /\ todo = [c \in Classifier |-> <<>>]

\* Ingestion commits the revisions of an artifact (external here: CatalogIngestion
\* has the runs).
Arrive(v) ==
    /\ v \notin arrived
    /\ arrived' = arrived \cup {w \in Revision : Available[w] = Available[v]}
    /\ UNCHANGED <<release, asset, rows, results, step, loaderVars, classifierVars>>

-----------------------------------------------------------------------------
(* Acquisition                                                                *)

Wanted(p) == Assets[target[p]][next[p]]
Recorded(p) == <<target[p], Wanted(p)>> \in asset
GoTo(c, s) == step' = [step EXCEPT ![c] = s]

\* Variant: the release is marked, with a status no reader knows.
RaiseMarking(p) ==
    /\ GoTo(p, "raised")
    /\ release' = [release EXCEPT ![target[p]] = "failed"]
    /\ tx' = [tx EXCEPT ![p] = {}]
    /\ UNCHANGED <<asset, rows, arrived, results, runs, target, next, classifierVars>>

\* Variant: the session is left open, and with it the transaction.
RaiseOpen(p) ==
    /\ GoTo(p, "raised")
    /\ UNCHANGED <<dbVars, loaderVars, classifierVars>>

\* The session ends: what was not committed is rolled back.
Raise(p) ==
    /\ GoTo(p, "raised")
    /\ tx' = [tx EXCEPT ![p] = {}]
    /\ UNCHANGED <<dbVars, runs, target, next, classifierVars>>

\* ensure_release selects the row; a release that is ready ends the command.
Start(p, rel) ==
    /\ step[p] = "new"
    /\ target' = [target EXCEPT ![p] = rel]
    /\ GoTo(p, CASE release[rel] = "absent" -> "ensure"
                 [] release[rel] = "building" -> "obtain"
                 [] release[rel] = "ready" -> "done")
    /\ UNCHANGED <<dbVars, runs, next, tx, classifierVars>>

\* It was absent and is inserted, unless another command did: IntegrityError.
CreateRelease(p) ==
    /\ step[p] = "ensure"
    /\ \/ /\ release[target[p]] = "absent"
          /\ release' = [release EXCEPT ![target[p]] = "building"]
          /\ GoTo(p, "obtain")
          /\ UNCHANGED <<asset, rows, arrived, results, loaderVars, classifierVars>>
       \/ /\ release[target[p]] # "absent"
          /\ Raise(p)

Obtained(p) ==
    IF next[p] = Len(Assets[target[p]])
      THEN GoTo(p, "check") /\ UNCHANGED next
      ELSE GoTo(p, "obtain") /\ next' = [next EXCEPT ![p] = @ + 1]

\* _existing_content: the asset is recorded, its file is read and verified again.
Reuse(p) ==
    /\ step[p] = "obtain" /\ Recorded(p)
    /\ Obtained(p)
    /\ UNCHANGED <<dbVars, runs, target, tx, classifierVars>>

\* The asset is not recorded: the run is committed as running before the
\* download.
StartRun(p) ==
    /\ step[p] = "obtain" /\ ~Recorded(p)
    /\ runs' = [runs EXCEPT ![p] = @ \cup {[asset |-> Wanted(p), status |-> "running"]}]
    /\ GoTo(p, "download")
    /\ UNCHANGED <<dbVars, target, next, tx, classifierVars>>

RunEnds(p, s) ==
    runs' = [runs EXCEPT ![p] = (@ \ {[asset |-> Wanted(p), status |-> "running"]})
                                    \cup {[asset |-> Wanted(p), status |-> s]}]

\* Variant: an asset recorded meanwhile is taken as this run's own.
RecordAnyway(p) ==
    /\ step[p] = "download"
    /\ asset' = asset \cup {<<target[p], Wanted(p)>>}
    /\ RunEnds(p, "succeeded")
    /\ Obtained(p)
    /\ UNCHANGED <<release, rows, arrived, results, target, tx, classifierVars>>

\* _record_asset: the content is the pinned one; the asset and the success of
\* the run are one commit.
Record(p) ==
    /\ step[p] = "download" /\ ~Recorded(p)
    /\ asset' = asset \cup {<<target[p], Wanted(p)>>}
    /\ RunEnds(p, "succeeded")
    /\ Obtained(p)
    /\ UNCHANGED <<release, rows, arrived, results, target, tx, classifierVars>>

\* _mark_failed: the four attempts failed, the content is not the pinned one,
\* or another command recorded the asset first (unique constraint).
RunFails(p) ==
    /\ step[p] = "download"
    /\ RunEnds(p, "failed")
    /\ GoTo(p, "raised")
    /\ UNCHANGED <<dbVars, target, next, tx, classifierVars>>

\* load_nodes and load_chaf refuse a release that has rows.  The status they
\* test is the one ensure_release read, "building" on every path to here.
CheckEmpty(p) ==
    /\ step[p] = "check"
    /\ \/ /\ \A b \in Batch : <<target[p], b>> \notin rows
          /\ GoTo(p, "insert")
          /\ UNCHANGED <<dbVars, loaderVars, classifierVars>>
       \/ /\ \E b \in Batch : <<target[p], b>> \in rows
          /\ Raise(p)

\* Variant: each batch is committed.
InsertCommitting(p) ==
    \E b \in Batch :
        /\ step[p] = "insert" /\ tx[p] = 1 .. b - 1
        /\ <<target[p], b>> \notin rows
        /\ tx' = [tx EXCEPT ![p] = @ \cup {b}]
        /\ rows' = rows \cup {<<target[p], b>>}
        /\ UNCHANGED <<release, asset, arrived, results, step, runs, target, next, classifierVars>>

\* The next batch.  While another transaction has inserted the same keys the
\* insert waits for its end.
Insert(p) ==
    \E b \in Batch :
        /\ step[p] = "insert" /\ tx[p] = 1 .. b - 1
        /\ <<target[p], b>> \notin rows
        /\ \A o \in Loader \ {p} : target[o] = target[p] => b \notin tx[o]
        /\ tx' = [tx EXCEPT ![p] = @ \cup {b}]
        /\ UNCHANGED <<dbVars, step, runs, target, next, classifierVars>>

\* The transaction it waited for committed the keys: IntegrityError.
InsertConflict(p) ==
    /\ step[p] = "insert"
    /\ \E b \in Batch : tx[p] = 1 .. b - 1 /\ <<target[p], b>> \in rows
    /\ Raise(p)

\* Rows and status are one commit.
CommitReady(p) ==
    /\ step[p] = "insert" /\ tx[p] = Batch
    /\ rows' = rows \cup {<<target[p], b>> : b \in tx[p]}
    /\ release' = [release EXCEPT ![target[p]] = "ready"]
    /\ tx' = [tx EXCEPT ![p] = {}]
    /\ GoTo(p, "done")
    /\ UNCHANGED <<asset, arrived, results, runs, target, next, classifierVars>>

-----------------------------------------------------------------------------
(* Classification                                                             *)

\* Variant: the filter on the status is missing.
ReadyAnyStatus(S) == {rel \in S : release[rel] # "absent"}

Ready(S) == {rel \in S : release[rel] = "ready"}

ClassifierRaises(c) ==
    /\ GoTo(c, "raised")
    /\ UNCHANGED <<dbVars, loaderVars, classifierVars>>

\* ready_release wants exactly one release of each source; two statements.
PickSlab(c, m) ==
    /\ step[c] = "new"
    /\ \E rel \in Slab :
        /\ Ready(Slab) = {rel}
        /\ slab' = [slab EXCEPT ![c] = rel]
    /\ method' = [method EXCEPT ![c] = m]
    /\ GoTo(c, "pick")
    /\ UNCHANGED <<dbVars, loaderVars, fault, seen, todo>>

PickFault(c) ==
    /\ step[c] = "pick"
    /\ \E rel \in Fault :
        /\ Ready(Fault) = {rel}
        /\ fault' = [fault EXCEPT ![c] = rel]
    /\ GoTo(c, "select")
    /\ UNCHANGED <<dbVars, loaderVars, slab, method, seen, todo>>

Refuse(c) ==
    /\ \/ step[c] = "new" /\ \A rel \in Slab : Ready(Slab) # {rel}
       \/ step[c] = "pick" /\ \A rel \in Fault : Ready(Fault) # {rel}
    /\ ClassifierRaises(c)

Result(c, v) == [rev |-> v, slab |-> slab[c], fault |-> fault[c], method |-> method[c]]
Classified(c, v) == Result(c, v) \in results

\* What ORDER BY available_at LIMIT may return of S: equal times come in any
\* order, and the limit may cut between them.
Oldest(S) ==
    LET n == IF Cardinality(S) <= Limit THEN Cardinality(S) ELSE Limit
    IN  {q \in [1 .. n -> S] :
            /\ \A i, j \in 1 .. n : i < j => q[i] # q[j] /\ Available[q[i]] <= Available[q[j]]
            /\ \A v \in S : \/ \E i \in 1 .. n : q[i] = v
                             \/ \A j \in 1 .. n : Available[q[j]] <= Available[v]}

Pending(c) == {v \in arrived : ~Classified(c, v)}

\* classify_pending: the first Limit revisions without a result, by available_at.
Select(c) ==
    /\ step[c] = "select"
    /\ \E q \in Oldest(Pending(c)) : todo' = [todo EXCEPT ![c] = q]
    /\ seen' = [seen EXCEPT ![c] = arrived]
    /\ GoTo(c, "look")
    /\ UNCHANGED <<dbVars, loaderVars, slab, fault, method>>

\* classify_revision looks again for a result: one another command wrote since
\* is returned as it is.
Look(c) ==
    /\ step[c] = "look" /\ todo[c] # <<>>
    /\ IF Classified(c, Head(todo[c]))
         THEN todo' = [todo EXCEPT ![c] = Tail(@)] /\ UNCHANGED step
         ELSE GoTo(c, "write") /\ UNCHANGED todo
    /\ UNCHANGED <<dbVars, loaderVars, slab, fault, method, seen>>

\* Variant: the loser of a race reports as if it had classified its selection.
WriteSkipping(c) ==
    /\ step[c] = "write"
    /\ IF Classified(c, Head(todo[c]))
         THEN UNCHANGED results /\ todo' = [todo EXCEPT ![c] = <<>>]
         ELSE /\ results' = results \cup {Result(c, Head(todo[c]))}
              /\ todo' = [todo EXCEPT ![c] = Tail(@)]
    /\ GoTo(c, "look")
    /\ UNCHANGED <<release, asset, rows, arrived, loaderVars, slab, fault, method, seen>>

\* One commit for each revision, unless another command wrote the result since
\* Look: then the insert fails.
Write(c) ==
    /\ step[c] = "write" /\ ~Classified(c, Head(todo[c]))
    /\ results' = results \cup {Result(c, Head(todo[c]))}
    /\ todo' = [todo EXCEPT ![c] = Tail(@)]
    /\ GoTo(c, "look")
    /\ UNCHANGED <<release, asset, rows, arrived, loaderVars, slab, fault, method, seen>>

\* That IntegrityError ends the command; what it committed before stays.
WriteConflict(c) ==
    /\ step[c] = "write" /\ Classified(c, Head(todo[c]))
    /\ ClassifierRaises(c)

ReportCount(c) ==
    /\ step[c] = "look" /\ todo[c] = <<>>
    /\ GoTo(c, "done")
    /\ UNCHANGED <<dbVars, loaderVars, classifierVars>>

-----------------------------------------------------------------------------

\* Another error ends a command: the file of a recorded asset is gone or altered,
\* its content does not parse, the database fails.
Error(c) ==
    \/ c \in Loader /\ step[c] \in {"ensure", "obtain", "check", "insert"} /\ Raise(c)
    \/ c \in Classifier /\ step[c] \in {"pick", "select", "look", "write"} /\ ClassifierRaises(c)

\* The process of a command dies; its transaction is rolled back and its run
\* row keeps the status "running".
Crash(c) ==
    /\ step[c] \notin Stopped \cup {"new"}
    /\ GoTo(c, "crashed")
    /\ tx' = [p \in Loader |-> IF p = c THEN {} ELSE tx[p]]
    /\ UNCHANGED <<dbVars, runs, target, next, classifierVars>>

LoaderStep(p) ==
    \/ CreateRelease(p) \/ Reuse(p) \/ StartRun(p) \/ Record(p) \/ RunFails(p)
    \/ CheckEmpty(p) \/ Insert(p) \/ InsertConflict(p) \/ CommitReady(p)

ClassifierStep(c) ==
    \/ PickFault(c) \/ Refuse(c) \/ Select(c) \/ Look(c)
    \/ Write(c) \/ WriteConflict(c) \/ ReportCount(c)

Next ==
    \/ \E v \in Revision : Arrive(v)
    \/ \E p \in Loader : LoaderStep(p) \/ \E rel \in Release : Start(p, rel)
    \/ \E c \in Classifier : ClassifierStep(c) \/ \E m \in Method : PickSlab(c, m)
    \/ \E c \in Command : Error(c) \/ Crash(c)

Spec == Init /\ [][Next]_vars

\* A download ends or times out, an insert goes on when the transaction it waited
\* for ends, and the process runs on; an error or a crash is never owed.
Fairness == /\ \A p \in Loader : WF_vars(LoaderStep(p))
            /\ \A c \in Classifier : WF_vars(ClassifierStep(c))
FairSpec == Spec /\ Fairness

-----------------------------------------------------------------------------

RowsOf(rel) == {b \in Batch : <<rel, b>> \in rows}

\* A release has all of its rows and assets from the moment it is ready and no
\* row before, whatever commands failed, died or raced on the way: what a
\* command leaves behind never keeps the next one from building it.
ReadyIsWhole ==
    \A rel \in Release :
        IF release[rel] = "ready"
          THEN RowsOf(rel) = Batch /\ \A i \in DOMAIN Assets[rel] : <<rel, Assets[rel][i]>> \in asset
          ELSE RowsOf(rel) = {}

\* The audit trail of acquisition: each recorded asset has exactly one run that
\* succeeded, and a run that succeeded has its asset.
Obtainers(rel, a) ==
    {p \in Loader : target[p] = rel /\ [asset |-> a, status |-> "succeeded"] \in runs[p]}
AssetsHaveOneRun ==
    \A rel \in Release : \A i \in DOMAIN Assets[rel] :
        LET a == Assets[rel][i]
        IN  IF <<rel, a>> \in asset
              THEN \E p \in Loader : Obtainers(rel, a) = {p}
              ELSE Obtainers(rel, a) = {}

\* A classification rests on releases that were complete when it was made, and
\* the rows it was computed from never change afterwards.
BasisFrozen ==
    [][\A k \in results' :
        /\ release[k.slab] = "ready" /\ release[k.fault] = "ready"
        /\ RowsOf(k.slab)' = RowsOf(k.slab) /\ RowsOf(k.fault)' = RowsOf(k.fault)]_vars

\* A command that reports has classified the revisions it saw, oldest first: where
\* one is left without a result, at least Limit that are as old or older have one.
OldestFirst ==
    \A c \in Classifier : step[c] = "done" =>
        \A v \in seen[c] :
            \/ Classified(c, v)
            \/ LET Before == {w \in seen[c] : Available[w] <= Available[v]}
               IN  Cardinality({w \in Before : Classified(c, w)}) >= Limit

\* No command hangs, on another's uncommitted rows or otherwise.
EveryCommandEnds ==
    \A c \in Command : (step[c] \notin Stopped \cup {"new"}) ~> (step[c] \in Stopped)

=============================================================================
