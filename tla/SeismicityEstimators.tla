------------------------ MODULE SeismicityEstimators -----------------------
(* The estimator services beside the ingestion: each command reads the rows   *)
(* it is given the id of, reads the catalog again as of the time they carry,  *)
(* and commits one estimate.  Estimates are never changed, so a row holds the *)
(* rows it refers to; `used` records, for the properties, the events it read. *)
EXTENDS AsOfReaders, SeismicityMethods

CONSTANTS
    Ends,          \* instants an index may be asked for
    MaxLineages,   \* bound on the completeness estimates
    MaxFits        \* bound on the estimates; those of families are few in any case

ASSUME EstimatorsAssumption == Ends \subseteq Nat /\ MaxLineages \in Nat /\ MaxFits \in Nat

VARIABLES
    completeness,   \* CompletenessEstimate
    gutenberg,      \* GutenbergRichterEstimate
    declustered,    \* SeismicityDeclusteringRun and its classifications
    omori,          \* ModifiedOmoriSequenceEstimate
    etas,           \* TemporalEtasEstimate and SpatiotemporalEtasEstimate
    ias,            \* SeismicAnomalyIndexEstimate
    rates           \* SeismicityBackgroundRateRun

estimateVars == <<completeness, gutenberg, declustered, omori, etas, ias, rates>>
vars == <<allVars, estimateVars>>

Fits ==
    Cardinality(completeness) + Cardinality(gutenberg) + Cardinality(declustered)
      + Cardinality(etas) + Cardinality(ias) + Cardinality(rates)

Init ==
    /\ InitReaders
    /\ completeness = {} /\ gutenberg = {} /\ declustered = {} /\ omori = {}
    /\ etas = {} /\ ias = {} /\ rates = {}

-----------------------------------------------------------------------------
(* The commands                                                               *)

\* CompletenessEstimationService: nothing compares as_of with the clock, and an
\* estimate without Mc is committed all the same.  `boxed` tells whether the
\* command named a region, which then holds the events of the model; the method,
\* which nothing reads, is left out of the row.
EstimateCompleteness(method, t, boxed) ==
    /\ \E mc \in Estimates(method, Sample(Reads(t))) :
        completeness' = completeness \cup
            {[asOf |-> t, mc |-> mc, boxed |-> boxed,
              used |-> Sample(Reads(t)), settled |-> SettledAt(t)]}
    /\ UNCHANGED <<gutenberg, declustered, omori, etas, ias, rates>>

\* Variant: the b-value is fitted to the catalog as it is now.
FitGutenbergRichterAsOfNow(c) ==
    /\ c.mc # None
    /\ LET above == BinnedAbove(Sample(Reads(clock)), c.mc)
       IN  gutenberg' = gutenberg \cup {[of |-> c, used |-> above, fitted |-> Supported(above)]}
    /\ UNCHANGED <<completeness, declustered, omori, etas, ias, rates>>

\* GutenbergRichterEstimationService: refused without Mc; with too few events
\* the row has no b-value.
FitGutenbergRichter(c) ==
    /\ c.mc # None
    /\ LET above == BinnedAbove(Sample(Reads(c.asOf)), c.mc)
       IN  gutenberg' = gutenberg \cup {[of |-> c, used |-> above, fitted |-> Supported(above)]}
    /\ UNCHANGED <<completeness, declustered, omori, etas, ias, rates>>

\* DeclusteringService: refused without b-value; one transaction for the run and
\* its classifications.
Decluster(g) ==
    /\ g.fitted
    /\ LET above == AtOrAbove(Reads(g.of.asOf), g.of.mc)
       IN  \E s \in InTimeOrder(above) : \E threshold \in Thresholds(s) :
             declustered' = declustered \cup
                 {[of |-> g, used |-> above, classes |-> Classify(s, threshold)]}
    /\ UNCHANGED <<completeness, gutenberg, omori, etas, ias, rates>>

\* BackgroundRateService: the events classified as background, even when no
\* threshold could be fitted and the first is the only one.
EstimateBackgroundRate(d) ==
    /\ rates' = rates \cup {[of |-> d, events |-> Ids(Background(d.classes))]}
    /\ UNCHANGED <<completeness, gutenberg, declustered, omori, etas, ias>>

\* ModifiedOmoriService: a row for every family, all in one transaction, none
\* when no event is triggered.
EstimateOmori(d) ==
    /\ \E converged \in [Families(d.classes) -> BOOLEAN] :
        /\ \A f \in Families(d.classes) : converged[f] \in OmoriOutcomes(f.members)
        /\ omori' = omori \cup
             {[of |-> d, root |-> f.root, members |-> f.members,
               duration |-> To - Place[f.root.ev][f.root.ver], estimable |-> converged[f]] :
                 f \in Families(d.classes)}
    /\ UNCHANGED <<completeness, gutenberg, declustered, etas, ias, rates>>

\* _resolve_initial_guess: a largest of the estimable sequences of the run that
\* the command names, which need not be one of this completeness estimate.
Seeds(d) ==
    LET rows == {o \in omori : o.of = d /\ o.estimable}
    IN  IF rows = {} THEN {None}
        ELSE {o \in rows : \A p \in rows : Cardinality(p.members) <= Cardinality(o.members)}

\* TemporalEtasService and SpatiotemporalEtasService: refused without Mc, the
\* second also without a region.
FitEtas(kind, c, d) ==
    /\ c.mc # None
    /\ kind = "spatiotemporal" => c.boxed
    /\ LET above == AtOrAbove(Reads(c.asOf), c.mc)
       IN  \E converged \in EtasOutcomes(kind, above), seed \in IF d = None THEN {None} ELSE Seeds(d) :
             etas' = etas \cup
                 {[of |-> c, kind |-> kind, used |-> above, seed |-> seed, converged |-> converged]}
    /\ UNCHANGED <<completeness, gutenberg, declustered, omori, ias, rates>>

\* IasEstimationService: refused for a fit that did not converge and for an
\* instant not after the window's start; one after its end is not refused.
EstimateIas(e, end) ==
    /\ e.kind = "temporal" /\ e.converged
    /\ end > From
    /\ LET above == AtOrAbove(Reads(e.of.asOf), e.of.mc)
       IN  ias' = ias \cup
             {[of |-> e, end |-> end, used |-> above, index |-> Anomaly(above, From, end)]}
    /\ UNCHANGED <<completeness, gutenberg, declustered, omori, etas, rates>>

Estimate ==
    \/ /\ Cardinality(completeness) < MaxLineages
       /\ \E method \in Methods, t \in 0 .. (clock + 1), boxed \in BOOLEAN :
            EstimateCompleteness(method, t, boxed)
    \/ \E c \in completeness :
        \/ FitGutenbergRichter(c)
        \/ \E kind \in Kind, d \in declustered \cup {None} : FitEtas(kind, c, d)
    \/ \E g \in gutenberg : Decluster(g)
    \/ \E d \in declustered : EstimateBackgroundRate(d) \/ EstimateOmori(d)
    \/ \E e \in etas, end \in Ends : EstimateIas(e, end)

\* The estimators and the readers of AsOfReaders share nothing but the log: a
\* behaviour has one or the other (bounds the model).
Next ==
    \/ NextLog /\ UNCHANGED estimateVars
    \/ completeness = {} /\ NextReader /\ UNCHANGED estimateVars
    \/ Started = 0 /\ Fits < MaxFits /\ Estimate /\ UNCHANGED allVars

Spec == Init /\ [][Next]_vars

-----------------------------------------------------------------------------

\* The docstring of the b-value service: what a row of a lineage computes can
\* never come from another window or region than its Mc.  At a settled time the
\* rows of one lineage, made at any moment, saw the same events.
LineageSeesOneCatalog ==
    /\ \A g \in gutenberg : g.of.settled => g.used = BinnedAbove(g.of.used, g.of.mc)
    /\ \A d \in declustered : d.of.of.settled => d.used = AtOrAbove(d.of.of.used, d.of.of.mc)
    /\ \A e \in etas : e.of.settled => e.used = AtOrAbove(e.of.used, e.of.mc)
    /\ \A i \in ias : i.of.of.settled => i.used = AtOrAbove(i.of.of.used, i.of.of.mc)

\* The b-value describes the events it is used on: every event that is
\* declustered is one it was fitted to, and those it was fitted to in addition
\* lie in the bin of Mc.
BValueCoversLineage ==
    \A d \in declustered : d.of.of.settled =>
        /\ d.used \subseteq d.of.used
        /\ \A p \in d.of.used \ d.used : Bin(Size(p)) = Bin(d.of.of.mc)

\* The families of a declustering run partition its triggered events; each has
\* one background event, no later than its members, and holds the parents of
\* its members; the time it is observed for reaches past all of them.
FamiliesPartition ==
    \A o \in omori :
        LET C == o.of.classes
            at(x) == Place[x.ev][x.ver]
        IN  /\ o.root \in Ids(Background(C))
            /\ o.members # {} /\ o.members \subseteq Ids(Triggered(C))
            /\ \A x \in o.members :
                /\ ClassOf(C, x).parent \in o.members \cup {o.root}
                /\ at(o.root) <= at(x) /\ at(x) - at(o.root) < o.duration
            /\ \A x \in Ids(Triggered(C)) :
                \E p \in omori : p.of = o.of /\ x \in p.members
            /\ \A p \in omori : p.of = o.of /\ p.root # o.root => p.members \cap o.members = {}

\* An index compares like with like: the windows it counts follow each other
\* without gap or overlap, none starts before the window of the catalog, each
\* expects only from events before it, and, when it is taken by the end of the
\* window of a settled catalog, each counts what the catalog lists for it, then
\* and later.
IasComparesLikeWithLike ==
    \A i \in ias : i.index.scored =>
        LET W == DOMAIN i.index.observed
            listed(w) == ListEvents(revs, mem, i.of.of.asOf, w.from, w.to)
        IN  /\ \A w \in W : w.from >= From /\ w.to - w.from = IasWindow
            /\ \A w, x \in W : w = x \/ w.to <= x.from \/ x.to <= w.from
            /\ \A w \in W : w.to = i.end \/ \E x \in W : x.from = w.to
            /\ \A w \in W : \A p \in i.index.prior[w] : Time(p) < w.from
            /\ i.of.of.settled /\ i.end <= To =>
                \A w \in W :
                    i.index.observed[w] = Cardinality(AtOrAbove(listed(w), i.of.of.mc))

=============================================================================
