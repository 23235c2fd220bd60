-------------------------- MODULE CatalogIngestion --------------------------
(* IngestionService.run and the transactions it makes, for several runs that  *)
(* may overlap: one action per database round that another run can observe.   *)
(* A run's inserts stay in its own transaction (READ COMMITTED) until Commit. *)
(* Queries and inserts of one event are merged in one action: what a          *)
(* concurrent commit could change between them is protected by the unique     *)
(* constraints, which Block, Conflict and DeadlockVictim model.               *)
EXTENDS CatalogReads, Sequences, FiniteSets

CONSTANTS
    Run,          \* ingestion runs that may be started (bounds the model)
    Query,        \* what a run may ask its source for: sets of source events
    Generated,    \* sources whose body carries its generation time
    RejectsEmpty, \* sources whose parser raises on a payload with no event
    AutoDist,     \* largest distance the scorer calls auto_match
    Window,       \* largest distance _latest_other_revisions looks at
    Overlap,      \* TRUE: nothing keeps two runs of one source apart
    Reverting,    \* sources that may publish a content again that they withdrew
    MaxPublish    \* bound on the publications of each event

ASSUME IngestionAssumption ==
    /\ \A q \in Query : q # {} /\ q \subseteq Event
    /\ \A q \in Query : \A e, f \in q : SourceOf[e] = SourceOf[f]
    /\ Generated \subseteq Source /\ RejectsEmpty \subseteq Source
    /\ AutoDist \in Nat /\ Window \in Nat /\ AutoDist <= Window
    /\ Overlap \in BOOLEAN /\ Reverting \subseteq Source
    /\ MaxPublish \in [Event -> Nat]
    /\ Version \subseteq Nat

VARIABLES
    now,         \* the wall clock; it advances whenever a run reads it
    feed,        \* feed[e]: the contents e's source has published, in order
    status,      \* IngestionRun.status; "absent" before the row exists
    step,        \* where the process of a run is
    query,       \* what the run asks for
    stamp,       \* retrieved_at, which becomes available_at
    payload,     \* the parsed artifact: pairs <<event, version>>
    todo,        \* the part of payload still to be ingested
    waits,       \* the key an insert of the run is blocked on, or NoKey
    txArtifacts, txRevs, txMem,   \* what the run inserted and did not commit
    artifacts, revs, mem          \* committed rows

txVars == <<txArtifacts, txRevs, txMem>>
catalogVars == <<artifacts, revs, mem>>
runVars == <<status, step, query, stamp, payload, todo, waits>>
vars == <<now, feed, runVars, txVars, catalogVars>>

Active == {"started", "requesting", "received", "ingesting", "committed"}
Ended == {"ended", "crashed"}

RunSource(r) == SourceOf[CHOOSE e \in query[r] : TRUE]

\* A run that took its stamp and may still commit rows under it.
InFlight(r) == step[r] \in {"requesting", "received", "ingesting"}

Dist(a, b) == LET p == Place[a.ev][a.ver]
                  q == Place[b.ev][b.ver]
              IN  IF p < q THEN q - p ELSE p - q

-----------------------------------------------------------------------------
(* Unique constraints                                                         *)

NoKey == <<>>
EventKey(e) == <<"event", e>>                 \* (source_id, source_event_id)
RevisionKey(e, v) == <<"revision", e, v>>     \* (source_event_id, revision_hash)
ArtifactKey(r) ==                             \* (source_id, sha256)
    <<"artifact", RunSource(r), payload[r],
      IF RunSource(r) \in Generated THEN stamp[r] ELSE 0>>

RevKeys(R) == {EventKey(x.ev) : x \in R} \cup {RevisionKey(x.ev, x.ver) : x \in R}
CommittedKeys == artifacts \cup RevKeys(revs)
HeldKeys(r) == txArtifacts[r] \cup RevKeys(txRevs[r])
Holder(r, k) == \E o \in Run \ {r} : k \in HeldKeys(o)

\* Which insert a pair of the payload needs: the source event row comes first.
RowKey(e, v) == IF EventKey(e) \in RevKeys(revs) THEN RevisionKey(e, v) ELSE EventKey(e)

\* Variants: no unique constraint between open transactions; none on the rows
\* already committed.
CanInsertUnlocked(r, k) == waits[r] \in {NoKey, k} /\ k \notin CommittedKeys
CanInsertAgain(r, k) == waits[r] \in {NoKey, k} /\ ~Holder(r, k)

CanInsert(r, k) == waits[r] \in {NoKey, k} /\ k \notin CommittedKeys /\ ~Holder(r, k)

-----------------------------------------------------------------------------
(* Canonical linking: _link_or_create_canonical                               *)

\* Variant: the check for canonical_source_conflict is missing.
RepresentedNever(s, c, M) == FALSE

Represented(s, c, M) == \E m \in M : m.canon = c /\ SourceOf[m.ev] = s

\* Variant: the cut on available_at is missing.
LatestOtherUncut(rev, R) ==
    LatestOf({x \in R : SourceOf[x.ev] # SourceOf[rev.ev] /\ Dist(x, rev) <= Window})

\* _latest_other_revisions: the window and the available_at cut are applied
\* before the ranking, so "latest" means latest among the rows they keep.
LatestOther(rev, R) ==
    LatestOf({x \in R : /\ SourceOf[x.ev] # SourceOf[rev.ev]
                        /\ Dist(x, rev) <= Window
                        /\ x.avail <= rev.avail})

\* Revisions the scorer matches whose canonical event has no member of the
\* revision's own source (the others are recorded as canonical_source_conflict).
Matches(rev, R, M) ==
    {x \in LatestOther(rev, R) :
        /\ Dist(x, rev) <= AutoDist
        /\ \E m \in M : /\ m.ev = x.ev
                        /\ ~Represented(SourceOf[rev.ev], m.canon, M)}

\* The canonical events the revision may be linked to: that of a most probable
\* match, or a new one.
CanonicalFor(rev, R, M) ==
    LET found == Matches(rev, R, M)
        best == {x \in found : \A y \in found : Dist(x, rev) <= Dist(y, rev)}
    IN  IF found = {} THEN {rev.ev}
        ELSE {m.canon : m \in {n \in M : \E x \in best : x.ev = n.ev}}

\* The memberships one insert adds: none if the source event has one already.
Links(rev, R, M) ==
    IF \E m \in M : m.ev = rev.ev THEN {{}}
    ELSE {{[ev |-> rev.ev, canon |-> c, from |-> rev.avail]} : c \in CanonicalFor(rev, R, M)}

-----------------------------------------------------------------------------

TypeOK ==
    /\ now \in Nat
    /\ feed \in [Event -> Seq(Version)]
    /\ status \in [Run -> {"absent", "running", "succeeded", "failed"}]
    /\ step \in [Run -> {"new"} \cup Active \cup Ended]
    /\ query \in [Run -> Query \cup {{}}]
    /\ stamp \in [Run -> Nat]
    /\ payload \in [Run -> SUBSET (Event \X Version)]
    /\ todo \in [Run -> SUBSET (Event \X Version)]
    /\ txRevs \in [Run -> SUBSET Revision]
    /\ txMem \in [Run -> SUBSET Membership]
    /\ revs \subseteq Revision /\ mem \subseteq Membership

Init ==
    /\ now = 0
    /\ feed = [e \in Event |-> <<>>]
    /\ status = [r \in Run |-> "absent"]
    /\ step = [r \in Run |-> "new"]
    /\ query = [r \in Run |-> {}]
    /\ stamp = [r \in Run |-> 0]
    /\ payload = [r \in Run |-> {}]
    /\ todo = [r \in Run |-> {}]
    /\ waits = [r \in Run |-> NoKey]
    /\ txArtifacts = [r \in Run |-> {}]
    /\ txRevs = [r \in Run |-> {}]
    /\ txMem = [r \in Run |-> {}]
    /\ artifacts = {} /\ revs = {} /\ mem = {}

-----------------------------------------------------------------------------
(* The sources (external): a source publishes an event or revises it.  A      *)
(* version stands for what revision_hash covers, and new ones are numbered in *)
(* the order they appear.  A USGS event states in its content when it was     *)
(* updated, so its values may return but never its hash; a row of a CSN page  *)
(* has no such time, and the page that returns to a row returns to its hash.  *)

Published(e) == {feed[e][i] : i \in 1 .. Len(feed[e])}
Current(e) == feed[e][Len(feed[e])]

Publish(e, v) ==
    /\ Len(feed[e]) < MaxPublish[e]
    /\ \/ v = Cardinality(Published(e)) + 1
       \/ SourceOf[e] \in Reverting /\ v \in Published(e) /\ v # Current(e)
    /\ feed' = [feed EXCEPT ![e] = Append(@, v)]
    /\ UNCHANGED <<now, runVars, txVars, catalogVars>>

-----------------------------------------------------------------------------
(* One run                                                                    *)

\* The row is committed with status "running" before anything is fetched.
StartRun(r, q) ==
    /\ step[r] = "new"
    /\ \/ Overlap
       \/ \A o \in Run : step[o] \in Active => RunSource(o) # SourceOf[CHOOSE e \in q : TRUE]
    /\ status' = [status EXCEPT ![r] = "running"]
    /\ step' = [step EXCEPT ![r] = "started"]
    /\ query' = [query EXCEPT ![r] = q]
    /\ UNCHANGED <<now, feed, stamp, payload, todo, waits, txVars, catalogVars>>

\* adapter.fetch reads the clock, then sends the request.
Stamp(r) ==
    /\ step[r] = "started"
    /\ now' = now + 1
    /\ stamp' = [stamp EXCEPT ![r] = now + 1]
    /\ step' = [step EXCEPT ![r] = "requesting"]
    /\ UNCHANGED <<feed, status, query, payload, todo, waits, txVars, catalogVars>>

\* The source answers with what it publishes at that moment.
Receive(r) ==
    /\ step[r] = "requesting"
    /\ LET body == {p \in query[r] \X Version : feed[p[1]] # <<>> /\ p[2] = Current(p[1])}
       IN  /\ payload' = [payload EXCEPT ![r] = body]
           /\ todo' = [todo EXCEPT ![r] = body]
    /\ step' = [step EXCEPT ![r] = "received"]
    /\ UNCHANGED <<now, feed, status, query, stamp, waits, txVars, catalogVars>>

\* Select the raw artifact of this content, insert it if there is none.
StoreArtifact(r) ==
    /\ step[r] = "received"
    /\ \/ /\ waits[r] = NoKey /\ ArtifactKey(r) \in artifacts
          /\ UNCHANGED txArtifacts
       \/ /\ CanInsert(r, ArtifactKey(r))
          /\ txArtifacts' = [txArtifacts EXCEPT ![r] = {ArtifactKey(r)}]
    /\ waits' = [waits EXCEPT ![r] = NoKey]
    /\ step' = [step EXCEPT ![r] = "ingesting"]
    /\ UNCHANGED <<now, feed, status, query, stamp, payload, todo, txRevs, txMem, catalogVars>>

\* Variant: an event that is known is skipped, whatever its content.
SkipKnownEvent(r, e, v) ==
    /\ step[r] = "ingesting" /\ waits[r] = NoKey /\ <<e, v>> \in todo[r]
    /\ EventKey(e) \in RevKeys(revs)
    /\ todo' = [todo EXCEPT ![r] = @ \ {<<e, v>>}]
    /\ UNCHANGED <<now, feed, status, step, query, stamp, payload, waits, txVars, catalogVars>>

\* The content is already recorded for this source event: nothing to do, not
\* even when it is not the latest one.
SkipKnown(r, e, v) ==
    /\ step[r] = "ingesting" /\ waits[r] = NoKey /\ <<e, v>> \in todo[r]
    /\ RevisionKey(e, v) \in RevKeys(revs)
    /\ todo' = [todo EXCEPT ![r] = @ \ {<<e, v>>}]
    /\ UNCHANGED <<now, feed, status, step, query, stamp, payload, waits, txVars, catalogVars>>

\* Variant: available_at is taken from the origin time of the event.
InsertBackdated(r, e, v) ==
    /\ step[r] = "ingesting" /\ <<e, v>> \in todo[r]
    /\ CanInsert(r, RowKey(e, v))
    /\ LET rev == [ev |-> e, ver |-> v, avail |-> 0]
       IN  /\ txRevs' = [txRevs EXCEPT ![r] = @ \cup {rev}]
           /\ \E new \in Links(rev, revs \cup txRevs[r], mem \cup txMem[r]) :
                txMem' = [txMem EXCEPT ![r] = @ \cup new]
    /\ todo' = [todo EXCEPT ![r] = @ \ {<<e, v>>}]
    /\ waits' = [waits EXCEPT ![r] = NoKey]
    /\ UNCHANGED <<now, feed, status, step, query, stamp, payload, txArtifacts, catalogVars>>

\* _insert_event_revision, then _link_or_create_canonical, over what is
\* committed and what the run itself inserted.
InsertRevision(r, e, v) ==
    /\ step[r] = "ingesting" /\ <<e, v>> \in todo[r]
    /\ CanInsert(r, RowKey(e, v))
    /\ LET rev == [ev |-> e, ver |-> v, avail |-> stamp[r]]
       IN  /\ txRevs' = [txRevs EXCEPT ![r] = @ \cup {rev}]
           /\ \E new \in Links(rev, revs \cup txRevs[r], mem \cup txMem[r]) :
                txMem' = [txMem EXCEPT ![r] = @ \cup new]
    /\ todo' = [todo EXCEPT ![r] = @ \ {<<e, v>>}]
    /\ waits' = [waits EXCEPT ![r] = NoKey]
    /\ UNCHANGED <<now, feed, status, step, query, stamp, payload, txArtifacts, catalogVars>>

\* The keys a run may be about to insert.
Wanted(r) ==
    CASE step[r] = "received" -> {ArtifactKey(r)}
      [] step[r] = "ingesting" -> {RowKey(p[1], p[2]) : p \in todo[r]}
      [] OTHER -> {}

\* The insert meets the same key in a transaction that is still open: it waits.
Block(r) ==
    /\ waits[r] = NoKey
    /\ \E k \in Wanted(r) \ CommittedKeys :
        /\ Holder(r, k)
        /\ waits' = [waits EXCEPT ![r] = k]
    /\ UNCHANGED <<now, feed, status, step, query, stamp, payload, todo, txVars, catalogVars>>

\* ingest_artifact commits its transaction; the run row still says "running".
Commit(r) ==
    /\ step[r] = "ingesting" /\ todo[r] = {} /\ waits[r] = NoKey
    /\ payload[r] = {} => RunSource(r) \notin RejectsEmpty
    /\ artifacts' = artifacts \cup txArtifacts[r]
    /\ revs' = revs \cup txRevs[r]
    /\ mem' = mem \cup txMem[r]
    /\ txArtifacts' = [txArtifacts EXCEPT ![r] = {}]
    /\ txRevs' = [txRevs EXCEPT ![r] = {}]
    /\ txMem' = [txMem EXCEPT ![r] = {}]
    /\ step' = [step EXCEPT ![r] = "committed"]
    /\ UNCHANGED <<now, feed, status, query, stamp, payload, todo, waits>>

\* Variant: a status no reader of the table knows.
FinishDone(r) ==
    /\ step[r] = "committed"
    /\ status' = [status EXCEPT ![r] = "done"]
    /\ step' = [step EXCEPT ![r] = "ended"]
    /\ UNCHANGED <<now, feed, query, stamp, payload, todo, waits, txVars, catalogVars>>

Finish(r) ==
    /\ step[r] = "committed"
    /\ status' = [status EXCEPT ![r] = "succeeded"]
    /\ step' = [step EXCEPT ![r] = "ended"]
    /\ UNCHANGED <<now, feed, query, stamp, payload, todo, waits, txVars, catalogVars>>

\* Leaving the run: the transaction is rolled back and what the process knew is
\* gone.  A run that already committed leaves its rows behind, so the payload
\* they came from is kept.
Abandon(r) ==
    /\ txArtifacts' = [txArtifacts EXCEPT ![r] = {}]
    /\ txRevs' = [txRevs EXCEPT ![r] = {}]
    /\ txMem' = [txMem EXCEPT ![r] = {}]
    /\ todo' = [todo EXCEPT ![r] = {}]
    /\ waits' = [waits EXCEPT ![r] = NoKey]
    /\ query' = [query EXCEPT ![r] = {}]
    /\ IF step[r] = "committed"
         THEN UNCHANGED <<stamp, payload>>
         ELSE /\ stamp' = [stamp EXCEPT ![r] = 0]
              /\ payload' = [payload EXCEPT ![r] = {}]
    /\ UNCHANGED <<now, feed, catalogVars>>

\* Variant: no rollback; the transaction of the failed run keeps its keys.
FailsHolding(r) ==
    /\ status' = [status EXCEPT ![r] = "failed"]
    /\ step' = [step EXCEPT ![r] = "ended"]
    /\ UNCHANGED <<now, feed, query, stamp, payload, todo, waits, txVars, catalogVars>>

\* except Exception: rollback, and status "failed" in a transaction of its own.
Fails(r) ==
    /\ status' = [status EXCEPT ![r] = "failed"]
    /\ step' = [step EXCEPT ![r] = "ended"]
    /\ Abandon(r)

\* HTTP error, schema change met by the parser, database error.
Fail(r) == step[r] \in Active /\ Fails(r)

\* CsnDailyAdapter.parse raises on a page with no event row.
RejectPayload(r) ==
    /\ step[r] = "ingesting" /\ payload[r] = {} /\ RunSource(r) \in RejectsEmpty
    /\ Fails(r)

\* The transaction the insert waited for committed the key: IntegrityError.
Conflict(r) ==
    /\ waits[r] # NoKey /\ waits[r] \in CommittedKeys
    /\ Fails(r)

\* PostgreSQL aborts a member of a cycle of waiting transactions.
DeadlockVictim(r) ==
    /\ \E C \in SUBSET Run :
        /\ r \in C
        /\ \A a \in C : waits[a] # NoKey /\ \E b \in C \ {a} : waits[a] \in HeldKeys(b)
        /\ \A b \in C : \E a \in C \ {b} : waits[a] \in HeldKeys(b)
    /\ Fails(r)

\* The process dies; PostgreSQL rolls its transaction back and the row keeps
\* its status.
Crash(r) ==
    /\ step[r] \in Active
    /\ step' = [step EXCEPT ![r] = "crashed"]
    /\ UNCHANGED status
    /\ Abandon(r)

-----------------------------------------------------------------------------

\* What the process of a run does of itself.
Progress(r) ==
    \/ Stamp(r) \/ Receive(r) \/ StoreArtifact(r) \/ Commit(r) \/ Finish(r)
    \/ RejectPayload(r) \/ Conflict(r) \/ DeadlockVictim(r)
    \/ \E e \in Event, v \in Version : SkipKnown(r, e, v) \/ InsertRevision(r, e, v)
    \/ Block(r)

Next ==
    \/ \E e \in Event, v \in Version : Publish(e, v)
    \/ \E r \in Run : \/ \E q \in Query : StartRun(r, q)
                      \/ Progress(r)
                      \/ Fail(r)
                      \/ Crash(r)

Spec == Init /\ [][Next]_vars

\* A request is answered or times out, PostgreSQL ends every wait (commit,
\* rollback, or deadlock detection) and the process runs on; an error or a
\* crash is never owed.
Fairness == \A r \in Run : WF_vars(Progress(r))
FairSpec == Spec /\ Fairness

-----------------------------------------------------------------------------
(* Safety                                                                     *)

\* Every source event is in exactly one canonical event at a time: concurrent
\* first sightings of one event never both keep a membership.
OneMembership ==
    /\ \A m, n \in mem : m.ev = n.ev => m = n
    /\ \A x \in revs : \E m \in mem : m.ev = x.ev

\* A canonical event never gathers two events of one source
\* (canonical_source_conflict): two shocks a source tells apart stay apart.
OneSourcePerCanonical ==
    \A m, n \in mem : m.canon = n.canon /\ SourceOf[m.ev] = SourceOf[n.ev] => m.ev = n.ev

\* A revision is listed from the moment it is available: the membership of its
\* event, and that of the event's founder, do not start later.
MembershipCoversRevisions ==
    /\ \A x \in revs : \E m \in mem : m.ev = x.ev /\ m.from <= x.avail
    /\ \A m \in mem : \E n \in mem : n.ev = m.canon /\ n.canon = m.canon /\ n.from <= m.from

\* What a successful run delivered is what the catalog says now, unless a later
\* retrieval delivered the version it does say.
CatalogReflectsLastDelivery ==
    \A r \in Run, p \in Event \X Version :
        status[r] = "succeeded" /\ p \in payload[r] =>
            \E x \in LatestRevisions(revs, now) :
                /\ x.ev = p[1]
                /\ \/ x.ver = p[2]
                   \/ \E o \in Run : stamp[o] > stamp[r] /\ <<x.ev, x.ver>> \in payload[o]

\* As-of reads are repeatable once settled: when the clock has passed t and no
\* run stamped at or before t can still commit, the rows visible as of t are
\* final.
SettledAt(t) == t <= now /\ \A r \in Run : InFlight(r) => stamp[r] > t
AsOfSettled ==
    [][\A t \in 0 .. now : SettledAt(t) =>
            /\ VisibleRevs(revs', t) = VisibleRevs(revs, t)
            /\ VisibleMembers(mem', t) = VisibleMembers(mem, t)]_vars

\* The catalog is the append-only log of stamped batches AbstractCatalog
\* promises.
Abstract == INSTANCE AbstractCatalog WITH
    clock <- now, open <- {stamp[r] : r \in {o \in Run : InFlight(o)}}
ImplementsLog == Abstract!Spec

-----------------------------------------------------------------------------
(* Liveness                                                                   *)

\* No run hangs: whatever the others hold, it ends (or its process dies).
EveryRunEnds == \A r \in Run : (step[r] \in Active) ~> (step[r] \in Ended)

=============================================================================
