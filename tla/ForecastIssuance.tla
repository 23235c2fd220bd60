--------------------------- MODULE ForecastIssuance ---------------------------
(* The chain of estimates a forecast is made from, and its issuance.  Each    *)
(* estimator commits a row that names the row it was fitted on: completeness, *)
(* then Gutenberg-Richter and spatiotemporal ETAS on it, declustering on      *)
(* Gutenberg-Richter, background rate on declustering.                        *)
(* issue_operational_forecast picks the latest compatible rows under an       *)
(* advisory lock; ForecastService.issue_forecast is also called with explicit *)
(* rows by walk-forward evaluations and scripts, without the lock.  One       *)
(* action per statement, so fits commit between any two.                      *)
EXTENDS Integers, FiniteSets

CONSTANTS
    Proc,         \* processes that run issue-operational-forecast
    Slot,         \* values of --issued-at, as instants
    Horizon,
    Rendering,    \* offsets in which an instant may be written
    Grid,         \* grids background rates are estimated over
    SpecGrid,     \* specification.grid_id
    None,
    MaxCalls,     \* bound on operational calls
    MaxNamed,     \* bound on calls with explicit rows
    MaxRows,      \* bound on the estimates of all kinds
    MaxOf,        \* MaxOf[k]: bound on the estimates of kind k
    MaxUnusable,  \* bound on the estimates without the value later steps need
    MaxOpen       \* bound on the estimates created before another and not committed

Kind == {"completeness", "gutenberg_richter", "etas", "declustering", "background"}

ASSUME IssuanceAssumption ==
    /\ SpecGrid \in Grid /\ None \notin Grid /\ None \notin Nat
    /\ MaxCalls \in Nat /\ MaxNamed \in Nat /\ MaxRows \in Nat /\ MaxOf \in [Kind -> Nat]
    /\ MaxUnusable \in Nat /\ MaxOpen \in Nat

\* An estimate.  `at` is its created_at, and stands for its id; `from` the
\* estimate it was fitted on; `ok` whether the value later steps need is there
\* (mc_value, b_value, parameters of a converged fit).
Row == [kind : Kind, at : 1 .. MaxRows, from : 0 .. MaxRows, ok : BOOLEAN, grid : Grid \cup {None}]

\* The rows a forecast is made from; 0 stands for NULL.
Id == 0 .. MaxRows
Lineage == [etas : Id, gr : Id, bg : Id]
Request == [slot : Slot, horizon : Horizon, rendering : Rendering]
NoRequest == [slot |-> None, horizon |-> None, rendering |-> None]

VARIABLES
    rows,       \* the committed estimates
    forecasts,  \* forecast_runs: [id, slot, horizon, trigger, origin, used]
    pc,         \* step of each process
    request,    \* its arguments
    picked,     \* the rows it has selected
    asked,      \* the operational requests made so far
    answers,    \* what they returned: [slot, horizon, run]
    calls       \* their number

tables == <<rows, forecasts>>
procVars == <<pc, request, picked>>
log == <<asked, answers, calls>>
vars == <<tables, procVars, log>>

Runs == Nat \ {0}
Forecast == [id : Runs, slot : Slot, horizon : Horizon, trigger : {"scheduled", "other"},
             origin : {"operational", "named"}, used : Lineage]
Waiting == {"called"}
Locked == {"locked", "clear", "etas", "gr", "background"}
Blank == [etas |-> 0, gr |-> 0, bg |-> 0]

TypeOK ==
    /\ rows \subseteq Row /\ forecasts \subseteq Forecast
    /\ pc \in [Proc -> {"idle"} \cup Waiting \cup Locked]
    /\ request \in [Proc -> Request \cup {NoRequest}] /\ picked \in [Proc -> Lineage]
    /\ asked \subseteq Request
    /\ answers \subseteq [slot : Slot, horizon : Horizon, run : Runs]
    /\ calls \in 0 .. MaxCalls

Init ==
    /\ rows = {} /\ forecasts = {}
    /\ pc = [p \in Proc |-> "idle"]
    /\ request = [p \in Proc |-> NoRequest]
    /\ picked = [p \in Proc |-> Blank]
    /\ asked = {} /\ answers = {} /\ calls = 0

-----------------------------------------------------------------------------
(* The estimators.  created_at is taken when the row is flushed, so a commit  *)
(* may be of any time after that of the row it was fitted on.                 *)

Of(k) == {r \in rows : r.kind = k}
Usable(k) == {r \in Of(k) : r.ok}

Commit(k, from, ok, grid) ==
    /\ Cardinality(Of(k)) < MaxOf[k]
    /\ ok \/ Cardinality({r \in rows : ~r.ok}) < MaxUnusable
    /\ \E t \in (from + 1) .. MaxRows :
        /\ \A r \in rows : r.at # t
        /\ Cardinality((1 .. t - 1) \ {r.at : r \in rows}) <= MaxOpen
        /\ rows' = rows \cup {[kind |-> k, at |-> t, from |-> from, ok |-> ok, grid |-> grid]}
    /\ UNCHANGED <<forecasts, procVars, log>>

\* CompletenessEstimationService: an unsupported estimate is committed as well,
\* without mc_value.
EstimateCompleteness == \E ok \in BOOLEAN : Commit("completeness", 0, ok, None)

\* Refused unless the completeness estimate has an mc_value.
EstimateGutenbergRichter ==
    \E c \in Usable("completeness"), ok \in BOOLEAN : Commit("gutenberg_richter", c.at, ok, None)

\* Also refused without a bounding box, which the model gives every estimate.
FitEtas ==
    \E c \in Usable("completeness"), ok \in BOOLEAN : Commit("etas", c.at, ok, None)

Decluster == \E g \in Usable("gutenberg_richter") : Commit("declustering", g.at, TRUE, None)

EstimateBackground ==
    \E d \in Of("declustering"), grid \in Grid : Commit("background", d.at, TRUE, grid)

-----------------------------------------------------------------------------
(* ForecastService                                                            *)

\* A background rate, if one is given, must be over the grid of the
\* specification and declustered with the Gutenberg-Richter estimate given.
BackgroundFits(u) ==
    u.bg # 0 =>
        \E b \in Of("background"), d \in Of("declustering") :
            b.at = u.bg /\ b.grid = SpecGrid /\ d.at = b.from /\ d.from = u.gr

\* Variant: the completeness estimates are not compared.
ConsistentEach(u) ==
    \E e \in Usable("etas"), g \in Usable("gutenberg_richter"), c \in Usable("completeness") :
        /\ e.at = u.etas /\ g.at = u.gr /\ c.at = e.from
        /\ BackgroundFits(u)

\* The lineage checks of prepare_generation_inputs: usable ETAS and Gutenberg-
\* Richter estimates on one usable completeness estimate, and a background rate
\* that fits them.  That the horizon is known and that the grid exists and has
\* cells are checks of the configuration, not of the lineage: they refuse
\* whatever rows are given, which an operational call meets as Fail and an
\* explicit one as no step.
Consistent(u) ==
    \E e \in Usable("etas"), g \in Usable("gutenberg_richter"), c \in Usable("completeness") :
        /\ e.at = u.etas /\ g.at = u.gr
        /\ g.from = e.from /\ c.at = e.from
        /\ BackgroundFits(u)

\* Variant: the trigger of an operational run is its origin.
NewRunTagged(slot, horizon, trigger, origin, u) ==
    [id |-> Cardinality(forecasts) + 1, slot |-> slot, horizon |-> horizon,
     trigger |-> origin, origin |-> origin, used |-> u]

\* issue_forecast, when the checks pass: the run and its cells in one commit.
NewRun(slot, horizon, trigger, origin, u) ==
    [id |-> Cardinality(forecasts) + 1, slot |-> slot, horizon |-> horizon,
     trigger |-> trigger, origin |-> origin, used |-> u]

\* A fold of a walk-forward evaluation, the seeding script: explicit rows, no
\* lock, nothing compared with the runs there are.
IssueNamed(slot, horizon, trigger) ==
    /\ Cardinality({f \in forecasts : f.origin = "named"}) < MaxNamed
    /\ \E e \in Of("etas"), g \in Of("gutenberg_richter"), b \in {0} \cup {x.at : x \in Of("background")} :
        LET u == [etas |-> e.at, gr |-> g.at, bg |-> b]
        IN  /\ Consistent(u)
            /\ forecasts' = forecasts \cup {NewRun(slot, horizon, trigger, "named", u)}
    /\ UNCHANGED <<rows, procVars, log>>

-----------------------------------------------------------------------------
(* issue_operational_forecast                                                 *)

\* The command starts with an instant written with some offset.
Call(p, r) ==
    /\ pc[p] = "idle" /\ calls < MaxCalls
    /\ calls' = calls + 1 /\ asked' = asked \cup {r}
    /\ pc' = [pc EXCEPT ![p] = "called"] /\ request' = [request EXCEPT ![p] = r]
    /\ UNCHANGED <<tables, picked, answers>>

\* Variant: no lock.
LockNothing(p) ==
    /\ pc[p] = "called"
    /\ pc' = [pc EXCEPT ![p] = "locked"]
    /\ UNCHANGED <<tables, request, picked, log>>

\* pg_advisory_xact_lock: the key holds the text of issued_at, offset included.
Lock(p) ==
    /\ pc[p] = "called"
    /\ \A q \in Proc : pc[q] \in Locked => request[q] # request[p]
    /\ pc' = [pc EXCEPT ![p] = "locked"]
    /\ UNCHANGED <<tables, request, picked, log>>

\* The instants are compared, not their text.
Existing(p) ==
    {f \in forecasts : /\ f.slot = request[p].slot /\ f.horizon = request[p].horizon
                       /\ f.trigger = "scheduled"}

Answer(p, f) ==
    answers' = answers \cup {[slot |-> f.slot, horizon |-> f.horizon, run |-> f.id]}

\* The session ends, and its locals and its lock go.
End(p) ==
    /\ pc' = [pc EXCEPT ![p] = "idle"]
    /\ request' = [request EXCEPT ![p] = NoRequest] /\ picked' = [picked EXCEPT ![p] = Blank]

\* One of the runs there are, in no order.
Reuse(p) ==
    /\ pc[p] = "locked"
    /\ \E f \in Existing(p) : Answer(p, f)
    /\ End(p)
    /\ UNCHANGED <<tables, asked, calls>>

FindNone(p) ==
    /\ pc[p] = "locked" /\ Existing(p) = {}
    /\ pc' = [pc EXCEPT ![p] = "clear"]
    /\ UNCHANGED <<tables, request, picked, log>>

\* ORDER BY created_at DESC LIMIT 1.
Latest(S) == {r \in S : \A s \in S : s.at <= r.at}

PickEtas(p) ==
    /\ pc[p] = "clear"
    /\ \E e \in Latest(Usable("etas")) : picked' = [picked EXCEPT ![p].etas = e.at]
    /\ pc' = [pc EXCEPT ![p] = "etas"]
    /\ UNCHANGED <<tables, request, log>>

\* The Gutenberg-Richter estimates on the same completeness estimate.
Compatible(p) ==
    {g \in Usable("gutenberg_richter") : \E e \in Of("etas") : e.at = picked[p].etas /\ e.from = g.from}

PickGutenbergRichter(p) ==
    /\ pc[p] = "etas"
    /\ \E g \in Latest(Compatible(p)) : picked' = [picked EXCEPT ![p].gr = g.at]
    /\ pc' = [pc EXCEPT ![p] = "gr"]
    /\ UNCHANGED <<tables, request, log>>

\* Variant: any background rate over the grid.
BackgroundsOfAny(p) == {b \in Of("background") : b.grid = SpecGrid}

Backgrounds(p) ==
    {b \in Of("background") :
        b.grid = SpecGrid /\ \E d \in Of("declustering") : d.at = b.from /\ d.from = picked[p].gr}

\* A background rate is used when there is one.
PickBackground(p) ==
    /\ pc[p] = "gr"
    /\ \/ Backgrounds(p) = {} /\ picked' = picked
       \/ \E b \in Latest(Backgrounds(p)) : picked' = [picked EXCEPT ![p].bg = b.at]
    /\ pc' = [pc EXCEPT ![p] = "background"]
    /\ UNCHANGED <<tables, request, log>>

Issue(p) ==
    /\ pc[p] = "background" /\ Consistent(picked[p])
    /\ LET f == NewRun(request[p].slot, request[p].horizon, "scheduled", "operational", picked[p])
       IN  forecasts' = forecasts \cup {f} /\ Answer(p, f)
    /\ End(p)
    /\ UNCHANGED <<rows, asked, calls>>

\* Variant: an ETAS estimate without compatible b-value is not refused.
RefuseWithoutEtas(p) ==
    /\ pc[p] = "clear" /\ Usable("etas") = {}
    /\ End(p)
    /\ UNCHANGED <<tables, log>>

\* There is no converged ETAS estimate, or the latest has no compatible
\* Gutenberg-Richter estimate: ValueError, and the session ends.
Refuse(p) ==
    /\ \/ pc[p] = "clear" /\ Usable("etas") = {}
       \/ pc[p] = "etas" /\ Compatible(p) = {}
    /\ End(p)
    /\ UNCHANGED <<tables, log>>

\* A statement fails or the process dies: the lock goes with the transaction.
Fail(p) ==
    /\ pc[p] # "idle"
    /\ End(p)
    /\ UNCHANGED <<tables, log>>

-----------------------------------------------------------------------------

Fit == EstimateCompleteness \/ EstimateGutenbergRichter \/ FitEtas \/ Decluster \/ EstimateBackground

Proceed(p) ==
    \/ Lock(p) \/ Reuse(p) \/ FindNone(p) \/ PickEtas(p) \/ PickGutenbergRichter(p)
    \/ PickBackground(p) \/ Issue(p) \/ Refuse(p)

Next ==
    \/ Fit
    \/ \E s \in Slot, h \in Horizon, t \in {"scheduled", "other"} : IssueNamed(s, h, t)
    \/ \E p \in Proc : Proceed(p) \/ Fail(p) \/ \E r \in Request : Call(p, r)

Spec == Init /\ [][Next]_vars

\* A process runs on, and PostgreSQL hands a free lock to one that waits.
FairSpec == Spec /\ \A p \in Proc : WF_vars(Proceed(p)) /\ SF_vars(Lock(p))

-----------------------------------------------------------------------------
(* Safety                                                                     *)

\* Issuance is idempotent: all calls for a slot and horizon are answered with
\* one run, however they race, fail and are repeated, as long as the slot is
\* always written with one offset and no fold or script issued for it as well.
Disturbed(s, h) ==
    \/ \E f \in forecasts : f.origin = "named" /\ f.slot = s /\ f.horizon = h
    \/ \E q, r \in asked : q.slot = s /\ r.slot = s /\ q.rendering # r.rendering
SlotIdempotent ==
    \A a, b \in answers :
        /\ a.slot = b.slot /\ a.horizon = b.horizon /\ ~Disturbed(a.slot, a.horizon)
        => a.run = b.run

\* A forecast never mixes lineages: its rate model, its magnitude distribution
\* and its background rate go back to one completeness estimate, and the
\* background rate is one over the grid of the specification.
SourceOf(i) == {r.from : r \in {x \in rows : x.at = i}}
LineageConsistent ==
    \A f \in forecasts :
        /\ SourceOf(f.used.etas) = SourceOf(f.used.gr)
        /\ \A c \in SourceOf(f.used.etas) : \E r \in Usable("completeness") : r.at = c
        /\ f.used.bg # 0 =>
             /\ \A d \in SourceOf(f.used.bg) : SourceOf(d) = {f.used.gr}
             /\ \A b \in rows : b.at = f.used.bg => b.grid = SpecGrid

\* What the three queries select, one after the other while fits commit, always
\* passes the lineage checks of prepare_generation_inputs: whatever estimates
\* there are, an operational issuance is refused by the queries or not at all.
\* (An unknown horizon or a grid without cells is refused all the same.)
PickedIsIssuable == \A p \in Proc : pc[p] = "background" => Consistent(picked[p])

-----------------------------------------------------------------------------
(* Liveness                                                                   *)

\* A call is answered, refused or fails: it never waits for ever for its lock,
\* and no state of the tables leaves it without a way on.
EveryCallEnds == \A p \in Proc : pc[p] # "idle" ~> pc[p] = "idle"

=============================================================================
