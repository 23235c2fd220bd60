-------------------- MODULE SeismicityEstimators_proofs --------------------
(* What the readers of the catalog can rely on, for every value of the        *)
(* constants.  The argument is one lemma about the log: when a time is        *)
(* settled, every later batch carries a later stamp, so nothing visible as of *)
(* that time changes.  A row made at a settled time then stays the function   *)
(* of the catalog it was, and the rows made from it, at whatever moment, are  *)
(* functions of the same events; so are the pages of a client, which are in   *)
(* one order that nothing later changes.  The families are a property of the  *)
(* selection alone: parents come before their children, so the links are a    *)
(* forest with one root to each family.                                       *)
EXTENDS SeismicityEstimators, FiniteSetTheorems, TLAPS

Row == [canon : Event, rev : Revision]
FoldRow ==
    [step : {"new", "prepared", "issued", "scored"}, issued : Nat,
     baseline : SUBSET Row, forecast : SUBSET Row, observed : SUBSET Row,
     issuedSettled : BOOLEAN, scoredSettled : BOOLEAN]

LogTyped ==
    /\ clock \in Nat /\ open \subseteq Nat
    /\ revs \subseteq Revision /\ mem \subseteq Membership

TypeInv == LogTyped /\ fold \in [Fold -> FoldRow]

\* A manifest of a settled time holds what the catalog still says.
DatasetInv ==
    \A d \in datasets :
        /\ d.asOf \in Nat
        /\ d.settled => SettledAt(d.asOf) /\ d.rows = LatestRevisions(revs, d.asOf)

\* So do the reads of a fold issued, or scored, at a settled time.
FoldInv ==
    \A k \in Fold :
        LET f == fold[k]
        IN  /\ f.step # "new" /\ f.issuedSettled =>
                 /\ SettledAt(f.issued)
                 /\ f.baseline = Reads(f.issued)
                 /\ f.step # "prepared" => f.forecast = Reads(f.issued)
            /\ f.step = "scored" /\ f.scoredSettled =>
                 /\ SettledAt(f.issued + Delay)
                 /\ f.observed = Reads(f.issued + Delay)

\* A completeness estimate of a settled time saw what the catalog still says, ...
CompletenessInv ==
    \A c \in completeness :
        /\ c.asOf \in Nat /\ c.used \subseteq Sample(Row) /\ c.mc \in Int \cup {None}
        /\ c.settled => SettledAt(c.asOf) /\ c.used = Sample(Reads(c.asOf))

\* ... and what is made from it, the same events.
LineageInv ==
    /\ \A g \in gutenberg :
        /\ g.of \in completeness /\ g.of.mc # None
        /\ g.of.settled => g.used = BinnedAbove(g.of.used, g.of.mc)
    /\ \A d \in declustered :
        /\ d.of \in gutenberg
        /\ d.of.of.settled => d.used = AtOrAbove(d.of.of.used, d.of.of.mc)
    /\ \A e \in etas :
        /\ e.of \in completeness
        /\ e.of.settled => e.used = AtOrAbove(e.of.used, e.of.mc)
    /\ \A i \in ias :
        /\ i.of \in etas
        /\ i.of.of.settled => i.used = AtOrAbove(i.of.of.used, i.of.of.mc)

\* Rows of the window the readers select.
InSpan(S) == S \in SUBSET Row /\ \A p \in S : From <= Time(p) /\ Time(p) < To

\* An index is that of the events it used, all of the window.
IndexInv ==
    \A i \in ias :
        /\ i.end \in Nat /\ InSpan(i.used)
        /\ i.index = Anomaly(i.used, From, i.end)

IInv == TypeInv /\ DatasetInv /\ FoldInv /\ CompletenessInv /\ LineageInv /\ IndexInv

-----------------------------------------------------------------------------
(* Reads and the log                                                          *)

\* What a read returns is made of rows of the two tables.
LEMMA ReadsAreRows ==
    ASSUME LogTyped, NEW t
    PROVE  /\ Reads(t) \subseteq Row
           /\ \A p \in Reads(t) : p.rev \in revs /\ From <= Time(p) /\ Time(p) < To
<1>1. Projections(revs, mem, t) \subseteq {p \in Row : p.rev \in revs}
  BY DEF LogTyped, Projections, LatestRevisions, LatestOf, VisibleRevs, VisibleMembers,
         Row, Membership
<1>2. QED
  BY <1>1 DEF Reads, ListEvents, PreferredProjection, Time

\* A settled time stays settled, and what is visible as of it stays the same:
\* every batch still to come carries a later stamp.
LEMMA LogStep ==
    ASSUME LogTyped, NextLog
    PROVE  /\ LogTyped' /\ UNCHANGED readerVars
           /\ \A t \in Nat : SettledAt(t) =>
                /\ SettledAt(t)'
                /\ LatestRevisions(revs', t) = LatestRevisions(revs, t)
                /\ Reads(t)' = Reads(t)
<1>1. CASE Retrieve
  <2>1. clock' = clock + 1 /\ open' = open \cup {clock + 1} /\ revs' = revs /\ mem' = mem
        /\ UNCHANGED readerVars
    BY <1>1 DEF Retrieve, Log!Open
  <2>2. ASSUME NEW t \in Nat, SettledAt(t) PROVE SettledAt(t)'
    BY <2>1, <2>2 DEF SettledAt, LogTyped
  <2>3. QED
    BY <2>1, <2>2 DEF LogTyped, Reads
<1>2. ASSUME NEW s \in open, Deliver(s)
      PROVE  /\ LogTyped' /\ UNCHANGED readerVars
             /\ \A t \in Nat : SettledAt(t) =>
                  /\ SettledAt(t)'
                  /\ LatestRevisions(revs', t) = LatestRevisions(revs, t)
                  /\ Reads(t)' = Reads(t)
  <2>1. /\ open' = open \ {s} /\ clock' = clock /\ UNCHANGED readerVars
        /\ revs \subseteq revs' /\ mem \subseteq mem'
        /\ \A x \in revs' \ revs : x.avail = s
        /\ \A m \in mem' \ mem : m.from = s
    BY <1>2 DEF Deliver, Log!Append
  <2>2. PICK E \in SUBSET Event : \E v \in [E -> Version] :
          revs' = revs \cup {[ev |-> e, ver |-> v[e], avail |-> s] : e \in E}
    BY <1>2 DEF Deliver
  <2>3. revs' \subseteq Revision
    BY <2>2 DEF LogTyped, Revision
  <2>4. mem' \subseteq Membership
    <3>1. PICK D \in SUBSET Event : \E L \in LinksOf(D, s) : mem' = mem \cup L
      BY <1>2 DEF Deliver
    <3>2. PICK L \in LinksOf(D, s) : mem' = mem \cup L
      BY <3>1
    <3>3. PICK f \in [D -> Event] : L = {[ev |-> e, canon |-> f[e], from |-> s] : e \in D}
      BY <3>2 DEF LinksOf
    <3>4. L \subseteq Membership
      BY <3>3 DEF Membership, LogTyped
    <3>5. QED
      BY <3>2, <3>4 DEF LogTyped
  <2>5. ASSUME NEW t \in Nat, SettledAt(t)
        PROVE  /\ SettledAt(t)'
               /\ VisibleRevs(revs', t) = VisibleRevs(revs, t)
               /\ VisibleMembers(mem', t) = VisibleMembers(mem, t)
    <3>1. s > t /\ s \in Nat
      BY <2>5 DEF SettledAt, LogTyped
    <3>2. SettledAt(t)'
      BY <2>1, <2>5 DEF SettledAt
    <3>3. QED
      BY <2>1, <3>1, <3>2 DEF VisibleRevs, VisibleMembers
  <2>6. ASSUME NEW t \in Nat, SettledAt(t)
        PROVE  /\ LatestRevisions(revs', t) = LatestRevisions(revs, t)
               /\ Reads(t)' = Reads(t)
    <3>1. LatestRevisions(revs', t) = LatestRevisions(revs, t)
      BY <2>5, <2>6 DEF LatestRevisions
    <3>2. Projections(revs', mem', t) = Projections(revs, mem, t)
      BY <2>5, <2>6, <3>1 DEF Projections
    <3>3. QED
      BY <3>1, <3>2 DEF Reads, ListEvents, PreferredProjection
  <2>7. QED
    BY <2>1, <2>3, <2>4, <2>5, <2>6 DEF LogTyped
<1>3. ASSUME NEW s \in open, Lapse(s)
      PROVE  /\ LogTyped' /\ UNCHANGED readerVars
             /\ \A t \in Nat : SettledAt(t) =>
                  /\ SettledAt(t)'
                  /\ LatestRevisions(revs', t) = LatestRevisions(revs, t)
                  /\ Reads(t)' = Reads(t)
  <2>1. open' = open \ {s} /\ clock' = clock /\ revs' = revs /\ mem' = mem /\ UNCHANGED readerVars
    BY <1>3 DEF Lapse, Log!Drop
  <2>2. QED
    BY <2>1 DEF LogTyped, SettledAt, Reads
<1>4. QED
  BY <1>1, <1>2, <1>3 DEF NextLog

-----------------------------------------------------------------------------
(* The readers                                                                *)

\* A step of the log leaves the datasets and the folds as good as they were.
LEMMA LogKeepsReaders ==
    ASSUME TypeInv, DatasetInv, FoldInv, NextLog
    PROVE  TypeInv' /\ DatasetInv' /\ FoldInv'
<1> USE DEF TypeInv
<1>1. LogTyped' /\ datasets' = datasets /\ fold' = fold
  BY LogStep DEF readerVars
<1>2. \A t \in Nat : SettledAt(t) =>
        SettledAt(t)' /\ LatestRevisions(revs', t) = LatestRevisions(revs, t) /\ Reads(t)' = Reads(t)
  BY LogStep
<1>3. DatasetInv'
  BY <1>1, <1>2 DEF DatasetInv
<1>4. ASSUME NEW k \in Fold
      PROVE  fold[k].issued \in Nat /\ fold[k].issued + Delay \in Nat
  BY ReadersAssumption DEF FoldRow
<1>5. FoldInv'
  BY <1>1, <1>2, <1>4 DEF FoldInv
<1>6. QED
  BY <1>1, <1>3, <1>5

\* A new manifest, and each step of a fold, is what its action reads.
LEMMA ReaderStep ==
    ASSUME TypeInv, DatasetInv, FoldInv, NextReader
    PROVE  TypeInv' /\ DatasetInv' /\ FoldInv' /\ UNCHANGED logVars
<1> USE DEF TypeInv
<1>a. UNCHANGED logVars =>
        /\ LogTyped'
        /\ \A t : SettledAt(t)' = SettledAt(t) /\ Reads(t)' = Reads(t)
                  /\ LatestRevisions(revs', t) = LatestRevisions(revs, t)
  BY DEF logVars, LogTyped, SettledAt, Reads
<1>b. \A t : Reads(t) \in SUBSET Row
  BY ReadsAreRows
<1>c. \A t : SettledAt(t) \in BOOLEAN
  BY DEF SettledAt
<1>d. \A k \in Fold : fold[k].issued \in Nat /\ fold[k].issued + Delay \in Nat
  BY ReadersAssumption DEF FoldRow
<1>1. ASSUME NEW d \in Dataset, NEW t \in 0 .. (clock + 1), CreateDataset(d, t)
      PROVE  TypeInv' /\ DatasetInv' /\ FoldInv' /\ UNCHANGED logVars
  <2>1. UNCHANGED logVars /\ fold' = fold
    BY <1>1 DEF CreateDataset
  <2>2. t \in Nat
    BY DEF LogTyped
  <2>3. DatasetInv'
    BY <1>1, <1>a, <2>1, <2>2 DEF CreateDataset, DatasetInv
  <2>4. FoldInv'
    BY <1>a, <2>1 DEF FoldInv
  <2>5. QED
    BY <1>a, <2>1, <2>3, <2>4
<1>2. ASSUME NEW k \in Fold, NEW t \in 0 .. clock, Prepare(k, t)
      PROVE  TypeInv' /\ DatasetInv' /\ FoldInv' /\ UNCHANGED logVars
  <2>1. UNCHANGED logVars /\ datasets' = datasets
    BY <1>2 DEF Prepare
  <2>2. t \in Nat
    BY DEF LogTyped
  <2>3. fold' \in [Fold -> FoldRow]
    <3> DEFINE f == [fold[k] EXCEPT !.step = "prepared", !.issued = t,
                                    !.baseline = Reads(t), !.issuedSettled = SettledAt(t)]
    <3>1. f \in FoldRow
      BY <1>b, <1>c, <2>2 DEF FoldRow
    <3>2. fold' = [fold EXCEPT ![k] = f]
      BY <1>2 DEF Prepare
    <3>3. QED
      BY <3>1, <3>2
  <2>4. DatasetInv'
    BY <1>a, <2>1 DEF DatasetInv
  <2>5. FoldInv'
    BY <1>2, <1>a, <2>1 DEF Prepare, FoldInv, FoldRow
  <2>6. QED
    BY <1>a, <2>1, <2>3, <2>4, <2>5
<1>3. ASSUME NEW k \in Fold, Issue(k)
      PROVE  TypeInv' /\ DatasetInv' /\ FoldInv' /\ UNCHANGED logVars
  <2>1. UNCHANGED logVars /\ datasets' = datasets
    BY <1>3 DEF Issue
  <2>2. fold' \in [Fold -> FoldRow]
    BY <1>3, <1>b DEF Issue, FoldRow
  <2>3. DatasetInv'
    BY <1>a, <2>1 DEF DatasetInv
  <2>4. FoldInv'
    BY <1>3, <1>a, <2>1 DEF Issue, FoldInv, FoldRow
  <2>5. QED
    BY <1>a, <2>1, <2>2, <2>3, <2>4
<1>4. ASSUME NEW k \in Fold, Adjudicate(k)
      PROVE  TypeInv' /\ DatasetInv' /\ FoldInv' /\ UNCHANGED logVars
  <2>1. UNCHANGED logVars /\ datasets' = datasets
    BY <1>4 DEF Adjudicate
  <2>2. fold' \in [Fold -> FoldRow]
    <3> DEFINE u == fold[k].issued + Delay
               f == [fold[k] EXCEPT !.step = "scored", !.observed = Reads(u),
                                    !.scoredSettled = SettledAt(u)]
    <3>1. f \in FoldRow
      BY <1>b, <1>c DEF FoldRow
    <3>2. fold' = [fold EXCEPT ![k] = f]
      BY <1>4 DEF Adjudicate
    <3>3. QED
      BY <3>1, <3>2
  <2>3. DatasetInv'
    BY <1>a, <2>1 DEF DatasetInv
  <2>4. FoldInv'
    BY <1>4, <1>a, <2>1 DEF Adjudicate, FoldInv, FoldRow
  <2>5. QED
    BY <1>a, <2>1, <2>2, <2>3, <2>4
<1>5. ASSUME NEW c \in Client, RequestPage(c) \/ \E t \in 0 .. clock : StartPaging(c, t)
      PROVE  TypeInv' /\ DatasetInv' /\ FoldInv' /\ UNCHANGED logVars
  <2>1. UNCHANGED logVars /\ datasets' = datasets /\ fold' = fold
    BY <1>5 DEF RequestPage, StartPaging
  <2>2. QED
    BY <1>a, <2>1 DEF DatasetInv, FoldInv
<1>6. QED
  BY <1>1, <1>2, <1>3, <1>4, <1>5 DEF NextReader

-----------------------------------------------------------------------------
(* The estimators                                                             *)

\* A magnitude is a natural number wherever it is not missing, and so is a time.
LEMMA RowsAreTyped ==
    ASSUME NEW p \in Row
    PROVE  Size(p) \in Nat \cup {None} /\ Time(p) \in Nat
BY CatalogAssumption, MethodsAssumption DEF Row, Revision, Size, Time

\* Every method returns a number or nothing.
LEMMA EstimatesAreNumbers ==
    ASSUME NEW method \in Methods, NEW S \in SUBSET Sample(Row)
    PROVE  Estimates(method, S) \subseteq Int \cup {None}
<1>1. BinWidth \in Nat \ {0} /\ PeakCorrection \in Nat /\ Magnitudes \subseteq Nat
  BY MethodsAssumption
<1>2. \A m \in Int : Bin(m) \in Int
  BY <1>1 DEF Bin
<1>3. Bins(S) \subseteq Int
  BY <1>2, RowsAreTyped DEF Bins, Sample
<1>4. {b + PeakCorrection : b \in RawPeak(S)} \subseteq Int
  BY <1>1, <1>3 DEF RawPeak
<1>5. Candidates(S) \subseteq Int
  BY <1>3 DEF Candidates
<1>6. WithinBounds(S) \subseteq Int
  <2>1. WithinBounds(S) \subseteq Magnitudes
    BY Zenon DEF WithinBounds
  <2>2. Magnitudes \subseteq Int
    BY <1>1
  <2>3. QED
    BY <2>1, <2>2, Zenon
<1>7. QED
  BY <1>4, <1>5, <1>6 DEF Estimates, Methods

\* The selections that follow a sample read nothing but it.
LEMMA SampleOfSample ==
    ASSUME NEW S, NEW mc
    PROVE  AtOrAbove(Sample(S), mc) = AtOrAbove(S, mc)
BY DEF AtOrAbove, Sample

\* A step of the log, or of another reader, leaves the estimates as good as they
\* were.
LEMMA OthersKeepEstimates ==
    ASSUME TypeInv, CompletenessInv, LineageInv, UNCHANGED estimateVars,
           NextLog \/ UNCHANGED logVars
    PROVE  CompletenessInv' /\ LineageInv'
<1>1. /\ completeness' = completeness /\ gutenberg' = gutenberg
      /\ declustered' = declustered /\ etas' = etas /\ ias' = ias
  BY DEF estimateVars
<1>2. \A t \in Nat : SettledAt(t) => SettledAt(t)' /\ Reads(t)' = Reads(t)
  BY LogStep DEF TypeInv, logVars, SettledAt, Reads
<1>3. CompletenessInv'
  BY <1>1, <1>2 DEF CompletenessInv, Sample, Size
<1>4. LineageInv'
  BY <1>1 DEF LineageInv, BinnedAbove, AtOrAbove, Sample, Size, Bin
<1>5. QED
  BY <1>3, <1>4

\* Each command commits a row that holds what the lemmas above say of its reads.
LEMMA EstimateStep ==
    ASSUME TypeInv, CompletenessInv, LineageInv, Estimate, UNCHANGED allVars
    PROVE  CompletenessInv' /\ LineageInv'
<1>1. UNCHANGED logVars
  BY DEF allVars
<1>2. \A t : SettledAt(t)' = SettledAt(t) /\ Reads(t)' = Reads(t)
  BY <1>1 DEF logVars, SettledAt, Reads
<1>3. \A t : Reads(t) \in SUBSET Row
  BY ReadsAreRows DEF TypeInv
<1>a. \A S, mc : BinnedAbove(S, mc)' = BinnedAbove(S, mc) /\ AtOrAbove(S, mc)' = AtOrAbove(S, mc)
  BY DEF BinnedAbove, AtOrAbove, Sample, Size, Bin
<1>4. ASSUME UNCHANGED completeness PROVE CompletenessInv'
  BY <1>2, <1>4 DEF CompletenessInv, Sample, Size
<1>5. ASSUME NEW method \in Methods, NEW t \in 0 .. (clock + 1), NEW boxed \in BOOLEAN,
             EstimateCompleteness(method, t, boxed)
      PROVE  CompletenessInv' /\ LineageInv'
  <2>1. t \in Nat
    BY DEF TypeInv, LogTyped
  <2>2. Sample(Reads(t)) \in SUBSET Sample(Row)
    BY <1>3 DEF Sample
  <2>3. Estimates(method, Sample(Reads(t))) \subseteq Int \cup {None}
    BY <2>2, EstimatesAreNumbers
  <2>4. PICK mc \in Estimates(method, Sample(Reads(t))) :
          completeness' = completeness \cup
            {[asOf |-> t, mc |-> mc, boxed |-> boxed,
              used |-> Sample(Reads(t)), settled |-> SettledAt(t)]}
    BY <1>5 DEF EstimateCompleteness
  <2>5. CompletenessInv'
    BY <1>2, <2>1, <2>2, <2>3, <2>4 DEF CompletenessInv, Sample, Size
  <2>6. LineageInv'
    BY <1>5 DEF EstimateCompleteness, LineageInv, BinnedAbove, AtOrAbove, Sample, Size, Bin
  <2>7. QED
    BY <2>5, <2>6
<1>6. ASSUME NEW c \in completeness, FitGutenbergRichter(c)
      PROVE  CompletenessInv' /\ LineageInv'
  <2> DEFINE above == BinnedAbove(Sample(Reads(c.asOf)), c.mc)
  <2>1. /\ c.mc # None /\ UNCHANGED <<completeness, declustered, etas, ias>>
        /\ gutenberg' = gutenberg \cup {[of |-> c, used |-> above, fitted |-> Supported(above)]}
    BY <1>6 DEF FitGutenbergRichter
  <2>2. c.settled => above = BinnedAbove(c.used, c.mc)
    BY DEF CompletenessInv
  <2>3. LineageInv'
    BY <1>a, <2>1, <2>2 DEF LineageInv
  <2>4. QED
    BY <1>4, <2>1, <2>3
<1>7. ASSUME NEW c \in completeness, NEW kind \in Kind, NEW d, FitEtas(kind, c, d)
      PROVE  CompletenessInv' /\ LineageInv'
  <2> DEFINE above == AtOrAbove(Reads(c.asOf), c.mc)
  <2>1. PICK converged \in EtasOutcomes(kind, above), seed \in IF d = None THEN {None} ELSE Seeds(d) :
          etas' = etas \cup
            {[of |-> c, kind |-> kind, used |-> above, seed |-> seed, converged |-> converged]}
    BY <1>7 DEF FitEtas
  <2>2. UNCHANGED <<completeness, gutenberg, declustered, ias>>
    BY <1>7 DEF FitEtas
  <2>3. c.settled => above = AtOrAbove(c.used, c.mc)
    BY SampleOfSample DEF CompletenessInv
  <2>4. LineageInv'
    BY <1>a, <2>1, <2>2, <2>3 DEF LineageInv
  <2>5. QED
    BY <1>4, <2>2, <2>4
<1>8. ASSUME NEW g \in gutenberg, Decluster(g)
      PROVE  CompletenessInv' /\ LineageInv'
  <2> DEFINE above == AtOrAbove(Reads(g.of.asOf), g.of.mc)
  <2>1. PICK classes : declustered' = declustered \cup
                         {[of |-> g, used |-> above, classes |-> classes]}
    BY <1>8 DEF Decluster
  <2>2. UNCHANGED <<completeness, gutenberg, etas, ias>>
    BY <1>8 DEF Decluster
  <2>3. g.of.settled => above = AtOrAbove(g.of.used, g.of.mc)
    BY SampleOfSample DEF CompletenessInv, LineageInv
  <2>4. LineageInv'
    BY <1>a, <2>1, <2>2, <2>3 DEF LineageInv
  <2>5. QED
    BY <1>4, <2>2, <2>4
<1>9. ASSUME NEW d \in declustered, EstimateBackgroundRate(d) \/ EstimateOmori(d)
      PROVE  CompletenessInv' /\ LineageInv'
  <2>1. UNCHANGED <<completeness, gutenberg, declustered, etas, ias>>
    BY <1>9 DEF EstimateBackgroundRate, EstimateOmori
  <2>2. LineageInv'
    BY <2>1 DEF LineageInv, BinnedAbove, AtOrAbove, Sample, Size, Bin
  <2>3. QED
    BY <1>4, <2>1, <2>2
<1>10. ASSUME NEW e \in etas, NEW end \in Ends, EstimateIas(e, end)
       PROVE  CompletenessInv' /\ LineageInv'
  <2> DEFINE above == AtOrAbove(Reads(e.of.asOf), e.of.mc)
  <2>1. /\ ias' = ias \cup
             {[of |-> e, end |-> end, used |-> above, index |-> Anomaly(above, From, end)]}
        /\ UNCHANGED <<completeness, gutenberg, declustered, etas>>
    BY <1>10 DEF EstimateIas
  <2>2. e.of.settled => above = AtOrAbove(e.of.used, e.of.mc)
    BY SampleOfSample DEF CompletenessInv, LineageInv
  <2>3. LineageInv'
    BY <1>a, <2>1, <2>2 DEF LineageInv
  <2>4. QED
    BY <1>4, <2>1, <2>3
<1>11. QED
  BY <1>5, <1>6, <1>7, <1>8, <1>9, <1>10 DEF Estimate

-----------------------------------------------------------------------------
(* Magnitude bins                                                             *)

\* Rounding to a bin keeps the order of magnitudes.
LEMMA BinIsMonotone ==
    ASSUME NEW m \in Int, NEW n \in Int, m <= n
    PROVE  Bin(m) \in Int /\ Bin(m) <= Bin(n)
<1>1. BinWidth \in Nat \ {0}
  BY MethodsAssumption
<1> DEFINE up(x) == \/ 2 * (x % BinWidth) > BinWidth
                    \/ 2 * (x % BinWidth) = BinWidth /\ (x \div BinWidth) % 2 = 1
           place(x) == IF up(x) THEN (x \div BinWidth) + 1 ELSE x \div BinWidth
<1>2. \A x \in Int : place(x) \in Int /\ Bin(x) = place(x) * BinWidth
  BY <1>1 DEF Bin
<1>3. place(m) <= place(n)
  <2>1. m \div BinWidth <= n \div BinWidth
    BY <1>1, Z3
  <2>2. CASE m \div BinWidth < n \div BinWidth
    BY <1>1, <2>2
  <2>3. CASE m \div BinWidth = n \div BinWidth
    <3>1. m % BinWidth <= n % BinWidth
      BY <1>1, <2>3, Z3
    <3>2. m % BinWidth \in Int /\ n % BinWidth \in Int
      BY <1>1
    <3>3. up(m) => up(n)
      BY <1>1, <2>3, <3>1, <3>2
    <3>4. QED
      BY <1>1, <2>3, <3>3
  <2>4. QED
    BY <1>1, <2>1, <2>2, <2>3
<1> HIDE DEF place
<1>4. \A i, j \in Int : i <= j => i * BinWidth <= j * BinWidth /\ i * BinWidth \in Int
  BY <1>1
<1>5. QED
  BY <1>2, <1>3, <1>4

\* Of the events of a sample, those the b-value is fitted to hold those at or
\* above Mc, and the others it is fitted to lie in the bin of Mc.
LEMMA BinnedAboveCovers ==
    ASSUME NEW S \in SUBSET Sample(Row), NEW mc \in Int
    PROVE  /\ AtOrAbove(S, mc) \subseteq BinnedAbove(S, mc)
           /\ \A p \in BinnedAbove(S, mc) \ AtOrAbove(S, mc) : Bin(Size(p)) = Bin(mc)
<1>1. ASSUME NEW p \in S PROVE Size(p) \in Int /\ Size(p) # None
  BY RowsAreTyped DEF Sample
<1>2. ASSUME NEW p \in AtOrAbove(S, mc) PROVE p \in BinnedAbove(S, mc)
  <2>1. p \in S /\ Size(p) >= mc
    BY DEF AtOrAbove, Sample
  <2>2. Bin(Size(p)) >= Bin(mc)
    BY <1>1, <2>1, BinIsMonotone
  <2>3. QED
    BY <2>1, <2>2 DEF BinnedAbove
<1>3. ASSUME NEW p \in BinnedAbove(S, mc) \ AtOrAbove(S, mc) PROVE Bin(Size(p)) = Bin(mc)
  <2>1. p \in S /\ Bin(Size(p)) >= Bin(mc)
    BY DEF BinnedAbove
  <2>2. Size(p) < mc
    BY <1>1, <2>1 DEF AtOrAbove, Sample
  <2>3. Bin(Size(p)) <= Bin(mc) /\ Bin(Size(p)) \in Int /\ Bin(mc) \in Int
    BY <1>1, <2>1, <2>2, BinIsMonotone
  <2>4. QED
    BY <2>1, <2>3
<1>4. QED
  BY <1>2, <1>3

-----------------------------------------------------------------------------
(* The windows of the anomaly index                                           *)

\* A window that starts no earlier than the first event starts in the span, and
\* so does every later one.
LEMMA ReachedUpwards ==
    ASSUME NEW S, InSpan(S), NEW t \in Int, NEW u \in Int, t <= u, Reached(S, From, t)
    PROVE  Reached(S, From, u) /\ From <= t
<1>1. From \in Nat /\ \A p \in S : Time(p) \in Nat
  BY ReadersAssumption, RowsAreTyped DEF InSpan
<1>2. CASE S = {}
  BY <1>1, <1>2 DEF Reached
<1>3. CASE S # {}
  BY <1>1, <1>3 DEF Reached, InSpan
<1>4. QED
  BY <1>2, <1>3

\* The windows of an index that is given: n windows back from the evaluated one,
\* each as long as the next and ending where it starts, all within the span.
LEMMA WindowsFollow ==
    ASSUME NEW S, InSpan(S), NEW end \in Nat,
           Anomaly(S, From, end).history # {}
    PROVE  LET W == DOMAIN Anomaly(S, From, end).observed
           IN  /\ \A w \in W : /\ w.from \in Int /\ w.to \in Int /\ w.to <= end
                               /\ w.from >= From /\ w.to - w.from = IasWindow
               /\ \A w, x \in W : w = x \/ w.to <= x.from \/ x.to <= w.from
               /\ \A w \in W : w.to = end \/ \E x \in W : x.from = w.to
<1> DEFINE start == end - IasWindow
           back(k) == [from |-> start - k * IasWindow, to |-> start - (k - 1) * IasWindow]
           K == {n \in 1 .. start : Reached(S, From, start - n * IasWindow)}
           W == DOMAIN Anomaly(S, From, end).observed
<1>1. IasWindow \in Nat \ {0} /\ start \in Int /\ From \in Nat
  BY MethodsAssumption, ReadersAssumption
<1>2. \A j, k \in Int : /\ k * IasWindow \in Int /\ (k - 1) * IasWindow = k * IasWindow - IasWindow
                        /\ j < k => j * IasWindow + IasWindow <= k * IasWindow
  BY <1>1
<1>3. HistoryWindows(S, From, start) = {back(k) : k \in K}
  BY DEF HistoryWindows
<1>4. back(0) = [from |-> start, to |-> end]
  BY <1>1, <1>2
<1>5. W = {back(k) : k \in K \cup {0}}
  BY <1>3, <1>4 DEF Anomaly
<1>6. ASSUME NEW k \in K \cup {0}
      PROVE  /\ k \in Int /\ k >= 0
             /\ back(k).from = start - k * IasWindow
             /\ back(k).to = start - k * IasWindow + IasWindow
             /\ back(k).from \in Int /\ back(k).to \in Int
  BY <1>1, <1>2
<1>7. ASSUME NEW k \in K \cup {0} PROVE From <= back(k).from
  <2>1. CASE k \in K
    BY <1>1, <1>6, <2>1, ReachedUpwards
  <2>2. CASE k = 0
    <3>1. PICK n \in K : TRUE
      BY <1>3 DEF Anomaly
    <3>2. n \in Int /\ n >= 1 /\ Reached(S, From, start - n * IasWindow)
      OBVIOUS
    <3>3. n * IasWindow \in Int /\ 0 * IasWindow = 0 /\ 0 * IasWindow + IasWindow <= n * IasWindow
      BY <1>1, <1>2, <3>2
    <3>4. From <= start - n * IasWindow
      BY <1>1, <3>2, <3>3, ReachedUpwards
    <3>5. QED
      BY <1>1, <1>6, <2>2, <3>3, <3>4
  <2>3. QED
    BY <2>1, <2>2
<1> HIDE DEF K, back
<1>8. ASSUME NEW k \in K \cup {0} PROVE back(k).to <= end /\ back(k).to - back(k).from = IasWindow
  <2>1. PICK x \in Int : x = k * IasWindow /\ x >= 0
    BY <1>1, <1>2, <1>6
  <2>2. back(k).from = start - x /\ back(k).to = start - x + IasWindow
    BY <1>6, <2>1
  <2>3. QED
    BY <1>1, <2>1, <2>2
<1>9. ASSUME NEW j \in K \cup {0}, NEW k \in K \cup {0}
      PROVE  back(j) = back(k) \/ back(j).to <= back(k).from \/ back(k).to <= back(j).from
  <2>1. PICK x \in Int, y \in Int : x = j * IasWindow /\ y = k * IasWindow
    BY <1>2, <1>6
  <2>2. /\ j < k => x + IasWindow <= y
        /\ k < j => y + IasWindow <= x
    BY <1>2, <1>6, <2>1
  <2>3. /\ back(j).from = start - x /\ back(j).to = start - x + IasWindow
        /\ back(k).from = start - y /\ back(k).to = start - y + IasWindow
    BY <1>6, <2>1
  <2>4. CASE j = k
    BY <2>4
  <2>5. CASE j < k
    BY <1>1, <2>1, <2>2, <2>3, <2>5
  <2>6. CASE k < j
    BY <1>1, <2>1, <2>2, <2>3, <2>6
  <2>7. QED
    BY <1>6, <2>4, <2>5, <2>6
<1>10. ASSUME NEW k \in K \cup {0} PROVE back(k).to = end \/ \E j \in K \cup {0} : back(j).from = back(k).to
  <2>1. CASE k = 0
    BY <1>4, <2>1
  <2>2. CASE k \in K
    <3>1. k \in 1 .. start /\ Reached(S, From, start - k * IasWindow)
      BY <2>2 DEF K
    <3>2. k - 1 \in Int /\ k * IasWindow \in Int /\ (k - 1) * IasWindow = k * IasWindow - IasWindow
      BY <1>2, <3>1
    <3>3. Reached(S, From, start - (k - 1) * IasWindow)
      BY <1>1, <3>1, <3>2, ReachedUpwards
    <3>4. k - 1 \in K \cup {0}
      BY <1>1, <3>1, <3>2, <3>3 DEF K
    <3>5. back(k - 1).from = back(k).to
      BY <1>1, <1>6, <3>2, <3>4
    <3>6. QED
      BY <3>4, <3>5
  <2>3. QED
    BY <2>1, <2>2
<1>11. QED
  BY <1>5, <1>6, <1>7, <1>8, <1>9, <1>10

-----------------------------------------------------------------------------
(* The invariant and what follows from it                                     *)

\* An index is computed when it is committed, and never again.
LEMMA IndexStep ==
    ASSUME TypeInv, IndexInv, [Next]_vars
    PROVE  IndexInv'
<1>1. \A S, e : InSpan(S)' = InSpan(S) /\ Anomaly(S, From, e)' = Anomaly(S, From, e)
  BY DEF InSpan, Row, Revision, Time, Anomaly, HistoryWindows, Reached, CountIn, Prior
<1>2. ASSUME UNCHANGED ias PROVE IndexInv'
  BY <1>1, <1>2 DEF IndexInv
<1>3. ASSUME NEW e \in etas, NEW end \in Ends, EstimateIas(e, end) PROVE IndexInv'
  <2> DEFINE above == AtOrAbove(Reads(e.of.asOf), e.of.mc)
  <2>1. ias' = ias \cup {[of |-> e, end |-> end, used |-> above, index |-> Anomaly(above, From, end)]}
    BY <1>3 DEF EstimateIas
  <2>2. InSpan(above)
    BY ReadsAreRows DEF InSpan, TypeInv, AtOrAbove, Sample
  <2>3. end \in Nat
    BY EstimatorsAssumption
  <2>4. QED
    BY <1>1, <2>1, <2>2, <2>3 DEF IndexInv
<1>4. CASE Estimate
  <2>1. ASSUME NEW method, NEW t, NEW boxed, EstimateCompleteness(method, t, boxed) PROVE UNCHANGED ias
    BY <2>1 DEF EstimateCompleteness
  <2>2. ASSUME NEW c, FitGutenbergRichter(c) PROVE UNCHANGED ias
    BY <2>2 DEF FitGutenbergRichter
  <2>3. ASSUME NEW kind, NEW c, NEW d, FitEtas(kind, c, d) PROVE UNCHANGED ias
    BY <2>3 DEF FitEtas
  <2>4. ASSUME NEW g, Decluster(g) PROVE UNCHANGED ias
    BY <2>4 DEF Decluster
  <2>5. ASSUME NEW d, EstimateBackgroundRate(d) \/ EstimateOmori(d) PROVE UNCHANGED ias
    BY <2>5 DEF EstimateBackgroundRate, EstimateOmori
  <2>6. QED
    BY <1>2, <1>3, <1>4, <2>1, <2>2, <2>3, <2>4, <2>5 DEF Estimate
<1>5. QED
  BY <1>2, <1>4 DEF Next, vars, estimateVars

\* The invariant holds before the first command.
LEMMA InitIInv == Init => IInv
<1> SUFFICES ASSUME Init PROVE IInv
  OBVIOUS
<1>1. /\ clock = 0 /\ open = {} /\ revs = {} /\ mem = {} /\ datasets = {}
      /\ fold = [k \in Fold |-> NewFold]
      /\ completeness = {} /\ gutenberg = {} /\ declustered = {} /\ etas = {} /\ ias = {}
  BY DEF Init, InitReaders, Log!Init
<1>2. TypeInv
  BY <1>1 DEF TypeInv, LogTyped, NewFold, FoldRow
<1>3. FoldInv
  BY <1>1 DEF FoldInv, NewFold
<1>4. QED
  BY <1>1, <1>2, <1>3 DEF IInv, DatasetInv, CompletenessInv, LineageInv, IndexInv

\* Every step keeps the invariant.
LEMMA NextIInv == IInv /\ [Next]_vars => IInv'
<1> SUFFICES ASSUME IInv, [Next]_vars PROVE IInv'
  OBVIOUS
<1> USE DEF IInv
<1>1. IndexInv'
  BY IndexStep
<1>2. CASE NextLog /\ UNCHANGED estimateVars
  BY <1>1, <1>2, LogKeepsReaders, OthersKeepEstimates
<1>3. CASE NextReader /\ UNCHANGED estimateVars
  BY <1>1, <1>3, ReaderStep, OthersKeepEstimates
<1>4. ASSUME UNCHANGED allVars PROVE TypeInv' /\ DatasetInv' /\ FoldInv'
  BY <1>4 DEF allVars, logVars, readerVars, TypeInv, LogTyped, DatasetInv, FoldInv, SettledAt, Reads
<1>5. CASE Estimate /\ UNCHANGED allVars
  BY <1>1, <1>4, <1>5, EstimateStep
<1>6. CASE UNCHANGED vars
  <2>1. UNCHANGED allVars /\ UNCHANGED estimateVars /\ UNCHANGED logVars
    BY <1>6 DEF vars, allVars
  <2>2. QED
    BY <1>1, <1>4, <2>1, OthersKeepEstimates
<1>7. QED
  BY <1>2, <1>3, <1>5, <1>6 DEF Next

\* The rows of the readers and of the estimators, made at settled times, are the
\* functions of the catalog that they were when they were made.
THEOREM ReadersInvariant == Spec => []IInv
<1>1. QED
  BY InitIInv, NextIInv, PTL DEF Spec

\* A dataset version of a settled time can be rebuilt for ever.
THEOREM DatasetReproducibleHolds == Spec => []DatasetReproducible
<1>1. IInv => DatasetReproducible
  BY DEF IInv, DatasetInv, DatasetReproducible
<1>2. QED
  BY <1>1, ReadersInvariant, PTL

\* The two reads of a fold issued at a settled time are one, and its score stays.
THEOREM SettledFoldsAgreeHolds == Spec => []SettledFoldsAgree
<1>1. IInv => SettledFoldsAgree
  BY DEF IInv, FoldInv, SettledFoldsAgree
<1>2. QED
  BY <1>1, ReadersInvariant, PTL

\* All rows of a lineage of a settled time are made from the same events.
THEOREM LineageSeesOneCatalogHolds == Spec => []LineageSeesOneCatalog
<1>1. IInv => LineageSeesOneCatalog
  BY DEF IInv, LineageInv, LineageSeesOneCatalog
<1>2. QED
  BY <1>1, ReadersInvariant, PTL

\* The b-value describes the events that are declustered with it.
THEOREM BValueCoversLineageHolds == Spec => []BValueCoversLineage
<1>1. ASSUME IInv PROVE BValueCoversLineage
  <2>1. ASSUME NEW d \in declustered, d.of.of.settled
        PROVE  /\ d.used \subseteq d.of.used
               /\ \A p \in d.of.used \ d.used : Bin(Size(p)) = Bin(d.of.of.mc)
    <3>1. d.of \in gutenberg /\ d.of.of \in completeness /\ d.of.of.mc # None
      BY <1>1, <2>1 DEF IInv, LineageInv
    <3>2. d.of.of.used \in SUBSET Sample(Row) /\ d.of.of.mc \in Int
      BY <1>1, <3>1 DEF IInv, CompletenessInv
    <3>3. /\ d.of.used = BinnedAbove(d.of.of.used, d.of.of.mc)
          /\ d.used = AtOrAbove(d.of.of.used, d.of.of.mc)
      BY <1>1, <2>1, <3>1 DEF IInv, LineageInv
    <3>4. QED
      BY <3>2, <3>3, BinnedAboveCovers
  <2>2. QED
    BY <2>1 DEF BValueCoversLineage
<1>2. QED
  BY <1>1, ReadersInvariant, PTL

\* The windows of an index follow each other within the window of the catalog,
\* and each counts the events the catalog lists for it.
THEOREM IasComparesLikeWithLikeHolds == Spec => []IasComparesLikeWithLike
<1>1. ASSUME IInv, NEW i \in ias, i.index.scored
      PROVE  LET W == DOMAIN i.index.observed
                 listed(w) == ListEvents(revs, mem, i.of.of.asOf, w.from, w.to)
             IN  /\ \A w \in W : w.from >= From /\ w.to - w.from = IasWindow
                 /\ \A w, x \in W : w = x \/ w.to <= x.from \/ x.to <= w.from
                 /\ \A w \in W : w.to = i.end \/ \E x \in W : x.from = w.to
                 /\ \A w \in W : \A p \in i.index.prior[w] : Time(p) < w.from
                 /\ i.of.of.settled /\ i.end <= To =>
                     \A w \in W :
                       i.index.observed[w] = Cardinality(AtOrAbove(listed(w), i.of.of.mc))
  <2> DEFINE W == DOMAIN i.index.observed
  <2>1. i.end \in Nat /\ InSpan(i.used) /\ i.index = Anomaly(i.used, From, i.end)
    BY <1>1 DEF IInv, IndexInv
  <2>2. i.index.history # {}
    <3>1. i.index.scored = (Cardinality(i.index.history) >= MinWindows)
      BY <2>1 DEF Anomaly
    <3>2. MinWindows \in Nat \ {0}
      BY MethodsAssumption
    <3>3. Cardinality({}) = 0
      BY FS_EmptySet
    <3>4. i.index.history = {} => Cardinality(i.index.history) = 0
      BY <3>3
    <3>5. Cardinality(i.index.history) >= MinWindows
      BY <1>1, <3>1
    <3>6. QED
      BY <3>2, <3>4, <3>5
  <2>3. /\ \A w \in W : /\ w.from \in Int /\ w.to \in Int /\ w.to <= i.end
                        /\ w.from >= From /\ w.to - w.from = IasWindow
        /\ \A w, x \in W : w = x \/ w.to <= x.from \/ x.to <= w.from
        /\ \A w \in W : w.to = i.end \/ \E x \in W : x.from = w.to
    BY <2>1, <2>2, WindowsFollow
  <2>4. ASSUME NEW w \in W, NEW p \in i.index.prior[w] PROVE Time(p) < w.from
    BY <2>1 DEF Anomaly, Prior
  <2>5. ASSUME i.of.of.settled, i.end <= To, NEW w \in W
        PROVE  i.index.observed[w] =
                 Cardinality(AtOrAbove(ListEvents(revs, mem, i.of.of.asOf, w.from, w.to), i.of.of.mc))
    <3> DEFINE c == i.of.of
    <3>1. c \in completeness /\ i.used = AtOrAbove(c.used, c.mc) /\ c.used = Sample(Reads(c.asOf))
      BY <1>1, <2>5 DEF IInv, LineageInv, CompletenessInv
    <3>2. i.used = AtOrAbove(Reads(c.asOf), c.mc)
      BY <3>1, SampleOfSample
    <3>3. i.index.observed[w] = CountIn(i.used, w.from, w.to)
      BY <2>1 DEF Anomaly
    <3>4. ListEvents(revs, mem, c.asOf, w.from, w.to) =
            {p \in Reads(c.asOf) : w.from <= Time(p) /\ Time(p) < w.to}
      <4>1. /\ w.from \in Int /\ w.to \in Int /\ From <= w.from /\ w.to <= To
            /\ From \in Nat /\ To \in Nat
        BY <2>1, <2>3, <2>5, ReadersAssumption
      <4>2. \A p \in PreferredProjection(revs, mem, c.asOf) : Time(p) \in Nat
        <5>1. PreferredProjection(revs, mem, c.asOf) \subseteq Row
          BY <1>1 DEF IInv, TypeInv, LogTyped, PreferredProjection, Projections, LatestRevisions,
                      LatestOf, VisibleRevs, VisibleMembers, Row, Membership
        <5>2. QED
          BY <5>1, RowsAreTyped
      <4>3. QED
        BY <4>1, <4>2 DEF ListEvents, Reads, Time
    <3>5. AtOrAbove(ListEvents(revs, mem, c.asOf, w.from, w.to), c.mc)
            = {p \in i.used : w.from <= Time(p) /\ Time(p) < w.to}
      BY <3>2, <3>4 DEF AtOrAbove, Sample
    <3>6. QED
      BY <3>3, <3>5 DEF CountIn
  <2>6. QED
    BY <2>3, <2>4, <2>5
<1>2. IInv => IasComparesLikeWithLike
  BY <1>1 DEF IasComparesLikeWithLike
<1>3. QED
  BY <1>2, ReadersInvariant, PTL

-----------------------------------------------------------------------------
(* The two tables are finite                                                  *)

\* A set of natural numbers that is not empty has a least member.
LEMMA LeastOf ==
    ASSUME NEW S \in SUBSET Nat, S # {}
    PROVE  \E m \in S : \A k \in S : m <= k
<1>1. PICK m \in S : \A k \in S : <<k, m>> \notin OpToRel(<, Nat)
  BY WFMin, NatLessThanWellFounded, Zenon
<1>2. \A k \in S : ~(k < m)
  BY <1>1, Zenon DEF OpToRel
<1>3. QED
  BY <1>2

\* An enumeration of a finite set without repetition leaves nothing out.
LEMMA EnumerationIsOnto ==
    ASSUME NEW S, IsFiniteSet(S), NEW s \in [1 .. Cardinality(S) -> S],
           \A i, j \in 1 .. Cardinality(S) : i < j => s[i] # s[j]
    PROVE  /\ Cardinality(S) \in Nat
           /\ \A i, j \in 1 .. Cardinality(S) : s[i] = s[j] => i = j
           /\ \A p \in S : \E i \in 1 .. Cardinality(S) : s[i] = p
<1> DEFINE N == Cardinality(S)
<1>1. N \in Nat
  BY FS_CardinalityType
<1>2. \A i, j \in 1 .. N : s[i] = s[j] => i = j
  BY <1>1
<1>3. s \in Injection(1 .. N, S)
  BY <1>2, Zenon DEF Injection, IsInjective
<1>4. Cardinality(1 .. N) = N
  BY <1>1, FS_Interval
<1>5. s \in Surjection(1 .. N, S)
  BY <1>3, <1>4, FS_Injection
<1>6. QED
  BY <1>1, <1>2, <1>5 DEF Surjection

\* The two tables of the log are finite, and an event has one membership.
LogWhole ==
    /\ IsFiniteSet(revs)
    /\ \A m, n \in mem : m.ev = n.ev => m = n

\* The image of a finite set under a function is finite.
LEMMA ImageIsFinite ==
    ASSUME NEW S, IsFiniteSet(S), NEW f, f = [x \in S |-> f[x]]
    PROVE  IsFiniteSet({f[x] : x \in S})
<1> DEFINE T == {f[x] : x \in S}
<1>1. f \in [S -> T] /\ \A y \in T : \E x \in S : f[x] = y
  OBVIOUS
<1>2. f \in Surjection(S, T)
  BY <1>1 DEF Surjection
<1> HIDE DEF T
<1>3. QED
  BY <1>2, FS_Surjection DEF T

\* A batch adds finitely many revisions, and a membership only to an event that
\* had none.
LEMMA WholeStep ==
    ASSUME LogTyped, LogWhole, NextLog
    PROVE  LogWhole'
<1>1. CASE revs' = revs /\ mem' = mem
  BY <1>1 DEF LogWhole
<1>2. ASSUME NEW t \in open, Deliver(t) PROVE LogWhole'
  <2>1. PICK E \in SUBSET Event :
          /\ \E v \in [E -> Version] :
               revs' = revs \cup {[ev |-> e, ver |-> v[e], avail |-> t] : e \in E}
          /\ \E L \in LinksOf({e \in E : \A m \in mem : m.ev # e}, t) : mem' = mem \cup L
    BY <1>2 DEF Deliver
  <2>2. IsFiniteSet(revs')
    <3>1. PICK v \in [E -> Version] :
            revs' = revs \cup {[ev |-> e, ver |-> v[e], avail |-> t] : e \in E}
      BY <2>1
    <3>2. IsFiniteSet(E)
      BY ReadersAssumption, FS_Subset
    <3> DEFINE f == [e \in E |-> [ev |-> e, ver |-> v[e], avail |-> t]]
    <3>3. IsFiniteSet({f[e] : e \in E})
      <4>1. f = [e \in E |-> f[e]]
        OBVIOUS
      <4> HIDE DEF f
      <4>2. QED
        BY <3>2, <4>1, ImageIsFinite
    <3>4. {f[e] : e \in E} = {[ev |-> e, ver |-> v[e], avail |-> t] : e \in E}
      OBVIOUS
    <3>5. QED
      BY <3>1, <3>3, <3>4, FS_Union DEF LogWhole
  <2>3. \A m, n \in mem' : m.ev = n.ev => m = n
    <3> DEFINE D == {e \in E : \A m \in mem : m.ev # e}
    <3>1. PICK L \in LinksOf(D, t) : mem' = mem \cup L
      BY <2>1
    <3>2. PICK f \in [D -> Event] : L = {[ev |-> e, canon |-> f[e], from |-> t] : e \in D}
      BY <3>1 DEF LinksOf
    <3>3. \A m, n \in L : m.ev = n.ev => m = n
      BY <3>2
    <3>4. \A m \in L : m.ev \in D
      BY <3>2
    <3>5. QED
      BY <3>1, <3>3, <3>4 DEF LogWhole
  <2>4. QED
    BY <2>2, <2>3 DEF LogWhole
<1>3. Retrieve \/ (\E t \in open : Lapse(t)) => revs' = revs /\ mem' = mem
  BY DEF Retrieve, Lapse, Log!Open, Log!Drop
<1>4. QED
  BY <1>1, <1>2, <1>3 DEF NextLog

\* What a read returns is finite, and holds a revision once.
LEMMA ReadsAreFinite ==
    ASSUME LogTyped, LogWhole, NEW t
    PROVE  /\ IsFiniteSet(Reads(t))
           /\ \A p, q \in Reads(t) : p.rev = q.rev => p = q
<1> DEFINE Z == Event \X revs
           f == [z \in Z |-> [canon |-> z[1], rev |-> z[2]]]
<1>1. IsFiniteSet({f[z] : z \in Z})
  <2>1. IsFiniteSet(Z)
    BY ReadersAssumption, FS_Product DEF LogWhole
  <2>2. f = [z \in Z |-> f[z]]
    OBVIOUS
  <2> HIDE DEF f, Z
  <2>3. QED
    BY <2>1, <2>2, ImageIsFinite
<1>2. ASSUME NEW p \in Reads(t)
      PROVE  p.rev \in revs /\ \E m \in mem : m.ev = p.rev.ev /\ p = [canon |-> m.canon, rev |-> p.rev]
  BY DEF Reads, ListEvents, PreferredProjection, Projections, LatestRevisions, LatestOf,
         VisibleRevs, VisibleMembers
<1>3. Reads(t) \subseteq {f[z] : z \in Z}
  <2>1. SUFFICES ASSUME NEW p \in Reads(t) PROVE \E z \in Z : p = f[z]
    BY Zenon
  <2>2. PICK m \in mem : m.ev = p.rev.ev /\ p = [canon |-> m.canon, rev |-> p.rev]
    BY <1>2
  <2>3. <<m.canon, p.rev>> \in Z
    BY <1>2 DEF LogTyped, Membership
  <2>4. f[<<m.canon, p.rev>>] = p
    BY <2>2, <2>3
  <2>5. QED
    BY <2>3, <2>4
<1>4. ASSUME NEW p \in Reads(t), NEW q \in Reads(t), p.rev = q.rev PROVE p = q
  <2>1. PICK m \in mem : m.ev = p.rev.ev /\ p = [canon |-> m.canon, rev |-> p.rev]
    BY <1>2
  <2>2. PICK n \in mem : n.ev = q.rev.ev /\ q = [canon |-> n.canon, rev |-> q.rev]
    BY <1>2
  <2>3. m = n
    BY <1>4, <2>1, <2>2 DEF LogWhole
  <2>4. QED
    BY <1>4, <2>1, <2>2, <2>3
<1>5. QED
  BY <1>1, <1>3, <1>4, FS_Subset

\* No step of the system takes from the two tables of the log.
LEMMA WholeNext ==
    ASSUME TypeInv, DatasetInv, FoldInv, LogWhole, [Next]_vars
    PROVE  LogWhole'
<1>1. CASE NextLog
  BY <1>1, WholeStep DEF TypeInv
<1>2. CASE NextReader
  <2>1. UNCHANGED logVars
    BY <1>2, ReaderStep
  <2>2. QED
    BY <2>1 DEF logVars, LogWhole
<1>3. CASE UNCHANGED allVars
  BY <1>3 DEF allVars, logVars, LogWhole
<1>4. QED
  BY <1>1, <1>2, <1>3 DEF Next, vars

\* Every read is finite, and lists a revision once.
THEOREM LogStaysWhole == Spec => []LogWhole
<1>1. Init => LogWhole
  BY FS_EmptySet DEF Init, InitReaders, Log!Init, LogWhole
<1>2. IInv /\ LogWhole /\ [Next]_vars => LogWhole'
  BY WholeNext DEF IInv
<1>3. QED
  BY <1>1, <1>2, ReadersInvariant, PTL DEF Spec

-----------------------------------------------------------------------------
(* The pages                                                                  *)

\* Rows of different times can be listed in one order only: where two orders
\* first differ, each row would be the later one.
LEMMA OrderIsUnique ==
    ASSUME NEW S \in SUBSET Row, IsFiniteSet(S),
           \A p, q \in S : When(p) = When(q) => p = q,
           NEW s \in Orders(S), NEW u \in Orders(S)
    PROVE  s = u
<1> DEFINE N == Cardinality(S)
           Differ == {i \in 1 .. N : s[i] # u[i]}
<1>1. N \in Nat
  BY FS_CardinalityType
<1>2. ASSUME NEW o \in Orders(S)
      PROVE  /\ o \in [1 .. N -> S]
             /\ \A i, j \in 1 .. N : i < j => When(o[i]) >= When(o[j])
             /\ \A i, j \in 1 .. N : o[i] = o[j] => i = j
             /\ \A p \in S : \E i \in 1 .. N : o[i] = p
  <2>1. /\ o \in [1 .. N -> S]
        /\ \A i, j \in 1 .. N : i < j => o[i] # o[j] /\ When(o[i]) >= When(o[j])
    BY DEF Orders
  <2>2. \A i, j \in 1 .. N : i < j => o[i] # o[j]
    BY <2>1
  <2>3. /\ \A i, j \in 1 .. N : o[i] = o[j] => i = j
        /\ \A p \in S : \E i \in 1 .. N : o[i] = p
    BY <2>1, <2>2, EnumerationIsOnto
  <2>4. QED
    BY <2>1, <2>3
<1>3. \A p \in S : When(p) \in Nat
  BY RowsAreTyped DEF When, Time
<1>4. ASSUME NEW o \in Orders(S), NEW r \in Orders(S), NEW i \in 1 .. N,
             o[i] # r[i], \A j \in 1 .. N : o[j] # r[j] => i <= j
      PROVE  When(o[i]) > When(r[i])
  <2>1. r[i] \in S
    BY <1>2
  <2>2. PICK j \in 1 .. N : o[j] = r[i]
    BY <1>2, <2>1
  <2>3. j # i
    BY <1>4, <2>2
  <2>4. ~(j < i)
    <3>1. SUFFICES ASSUME j < i PROVE FALSE
      OBVIOUS
    <3>2. o[j] = r[j]
      BY <1>1, <1>4, <3>1
    <3>3. QED
      BY <1>2, <2>2, <2>3, <3>2
  <2>5. i < j
    BY <1>1, <2>3, <2>4
  <2>6. When(o[i]) >= When(o[j])
    BY <1>2, <2>5
  <2>7. o[i] \in S /\ o[j] \in S /\ o[i] # o[j]
    <3>1. o[i] \in S
      BY <1>2
    <3>2. o[j] \in S
      BY <2>1, <2>2
    <3>3. o[i] # o[j]
      BY <1>2, <2>3, SMTT(60)
    <3>4. QED
      BY <3>1, <3>2, <3>3
  <2>8. QED
    BY <1>3, <2>2, <2>6, <2>7
<1>5. Differ = {}
  <2>1. SUFFICES ASSUME Differ # {} PROVE FALSE
    OBVIOUS
  <2>2. PICK i \in Differ : \A j \in Differ : i <= j
    <3>1. Differ \in SUBSET Nat
      OBVIOUS
    <3> HIDE DEF Differ
    <3>2. QED
      BY <2>1, <3>1, LeastOf
  <2>3. When(s[i]) > When(u[i]) /\ When(u[i]) > When(s[i])
    BY <1>4, <2>2
  <2>4. When(s[i]) \in Nat /\ When(u[i]) \in Nat
    BY <1>2, <1>3
  <2>5. QED
    BY <2>3, <2>4
<1>6. s \in [1 .. N -> S] /\ u \in [1 .. N -> S]
  BY <1>2
<1>7. \A i \in 1 .. N : s[i] = u[i]
  BY <1>5
<1>8. s = [i \in 1 .. N |-> s[i]] /\ u = [i \in 1 .. N |-> u[i]]
  BY <1>6
<1>9. QED
  BY <1>7, <1>8, Zenon

Page ==
    [step : {"new", "paging", "done"}, asOf : Nat, got : Seq(Row), settled : BOOLEAN]

\* No two events of the list have one event time.
TimesDiffer(S) == \A p, q \in S : When(p) = When(q) => p = q

\* While a client pages a settled time it holds the first rows of the one order
\* of the list; in the end, all of them.
PageOK(p) ==
    p.step # "new" /\ p.settled =>
        /\ SettledAt(p.asOf)
        /\ TimesDiffer(Reads(p.asOf)) =>
             /\ p.step = "paging" => \A s \in Orders(Reads(p.asOf)) :
                  Len(p.got) <= Len(s) /\ p.got = SubSeq(s, 1, Len(p.got))
             /\ p.step = "done" => p.got \in Orders(Reads(p.asOf))

PagingInv == paging \in [Client -> Page] /\ \A c \in Client : PageOK(paging[c])

\* The page that starts where the rows in hand end makes a longer prefix.
LEMMA PrefixGrows ==
    ASSUME NEW S \in SUBSET Row, NEW s \in Seq(S), NEW n \in 0 .. Len(s), NEW k \in n .. Len(s)
    PROVE  /\ SubSeq(s, n + 1, k) \in Seq(Row) /\ Len(SubSeq(s, n + 1, k)) = k - n
           /\ SubSeq(s, 1, n) \o SubSeq(s, n + 1, k) = SubSeq(s, 1, k)
           /\ SubSeq(s, 1, Len(s)) = s
  OBVIOUS

\* An order of a finite set of rows is a sequence of all of them.
LEMMA OrdersAreSequences ==
    ASSUME NEW S, IsFiniteSet(S), NEW s \in Orders(S)
    PROVE  s \in Seq(S) /\ Len(s) = Cardinality(S) /\ Len(s) \in Nat
<1>1. Cardinality(S) \in Nat
  BY FS_CardinalityType
<1>2. s \in [1 .. Cardinality(S) -> S]
  BY DEF Orders
<1>3. QED
  BY <1>1, <1>2

\* A step of the log takes nothing from what a client of a settled time holds.
LEMMA LogKeepsPages ==
    ASSUME TypeInv, PagingInv, NextLog
    PROVE  PagingInv'
<1>1. paging' = paging
  BY LogStep DEF TypeInv, readerVars
<1>2. \A t \in Nat : SettledAt(t) => SettledAt(t)' /\ Reads(t)' = Reads(t)
  BY LogStep DEF TypeInv
<1>3. \A c \in Client : paging[c].asOf \in Nat
  BY DEF PagingInv, Page
<1>4. \A S : Orders(S)' = Orders(S) /\ TimesDiffer(S)' = TimesDiffer(S)
  BY DEF Orders, When, TimesDiffer
<1>5. QED
  BY <1>1, <1>2, <1>3, <1>4 DEF PagingInv, PageOK

\* What a client holds is judged by the log alone.
LEMMA SameLogSamePages ==
    ASSUME UNCHANGED logVars
    PROVE  \A p : PageOK(p)' = PageOK(p)
BY DEF logVars, PageOK, SettledAt, Reads, Orders, When, TimesDiffer

\* A request takes the next rows of the order its rows came in, which is the one
\* order the earlier pages came in; a page that is not full reaches its end.
LEMMA RequestKeepsPages ==
    ASSUME TypeInv, LogWhole, PagingInv, NEW c \in Client, RequestPage(c)
    PROVE  PagingInv'
<1> DEFINE p == paging[c]
           L == Reads(p.asOf)
<1>1. p \in Page
  BY DEF PagingInv
<1>2. L \in SUBSET Row /\ IsFiniteSet(L)
  BY ReadsAreRows, ReadsAreFinite DEF TypeInv
<1>3. PICK s \in Orders(L) :
        LET offset == Len(p.got)
            page == SubSeq(s, offset + 1, Least(offset + Limit, Len(s)))
        IN  paging' = [paging EXCEPT ![c].got = @ \o page,
                                     ![c].step = IF Len(page) < Limit THEN "done" ELSE "paging"]
  BY DEF RequestPage, PageRows
<1> DEFINE offset == Len(p.got)
           end == Least(offset + Limit, Len(s))
           page == SubSeq(s, offset + 1, end)
           q == [p EXCEPT !.got = p.got \o page, !.step = IF Len(page) < Limit THEN "done" ELSE "paging"]
<1>4. paging' = [paging EXCEPT ![c] = q] /\ p.step = "paging" /\ UNCHANGED logVars
  BY <1>3 DEF RequestPage
<1>5. s \in Seq(L) /\ Len(s) \in Nat /\ s \in Seq(Row)
  BY <1>2, OrdersAreSequences
<1>6. offset \in Nat /\ Limit \in Nat \ {0} /\ end \in Nat
  BY <1>1, <1>5, ReadersAssumption DEF Page, Least
<1>7. page \in Seq(Row)
  BY <1>5, <1>6 DEF Least
<1>8. q \in Page
  <2>1. p.got \o page \in Seq(Row)
    BY <1>1, <1>7 DEF Page
  <2> HIDE DEF page, p
  <2>2. QED
    BY <1>1, <2>1 DEF Page
<1>9. ASSUME p.settled, TimesDiffer(L)
      PROVE  /\ q.step = "paging" => \A u \in Orders(L) :
                  Len(q.got) <= Len(u) /\ q.got = SubSeq(u, 1, Len(q.got))
             /\ q.step = "done" => q.got \in Orders(L)
  <2>1. offset <= Len(s) /\ p.got = SubSeq(s, 1, offset)
    BY <1>4, <1>9 DEF PagingInv, PageOK
  <2>2. end \in offset .. Len(s)
    BY <1>5, <1>6, <2>1 DEF Least
  <2>3. /\ Len(page) = end - offset
        /\ SubSeq(s, 1, offset) \o page = SubSeq(s, 1, end)
        /\ SubSeq(s, 1, Len(s)) = s
    <3>1. offset \in 0 .. Len(s)
      BY <1>5, <1>6, <2>1
    <3> HIDE DEF offset, end, L
    <3>2. QED
      BY <1>2, <1>5, <2>2, <3>1, PrefixGrows
  <2>4. q.got = SubSeq(s, 1, end) /\ Len(q.got) = end
    <3>1. q.got = p.got \o page
      BY <1>1 DEF Page
    <3>2. q.got = SubSeq(s, 1, end)
      BY <2>1, <2>3, <3>1
    <3>3. end \in Nat /\ end <= Len(s)
      BY <1>5, <1>6, <2>2
    <3> HIDE DEF q, end
    <3>4. QED
      BY <1>5, <3>2, <3>3
  <2>5. q.step = (IF end - offset < Limit THEN "done" ELSE "paging")
    BY <1>1, <2>3 DEF Page
  <2>6. \A u \in Orders(L) : u = s
    BY <1>2, <1>9, OrderIsUnique DEF TimesDiffer
  <2>7. q.step = "done" => end = Len(s)
    BY <1>5, <1>6, <2>1, <2>5 DEF Least
  <2>8. end <= Len(s)
    BY <1>5, <1>6, <2>2
  <2> HIDE DEF q, end, page, offset
  <2>9. QED
    BY <2>3, <2>4, <2>6, <2>7, <2>8
<1>10. q.asOf = p.asOf /\ q.settled = p.settled /\ PageOK(p)
  BY <1>1 DEF Page, PagingInv
<1>11. PageOK(q)
  <2> HIDE DEF q
  <2>1. QED
    BY <1>4, <1>9, <1>10 DEF PageOK
<1> HIDE DEF q
<1>12. QED
  BY <1>4, <1>8, <1>11, SameLogSamePages DEF PagingInv

\* The other readers leave the pages alone; a client starts with none.
LEMMA ReaderKeepsPages ==
    ASSUME TypeInv, LogWhole, PagingInv, NextReader
    PROVE  PagingInv'
<1>1. ASSUME UNCHANGED <<logVars, paging>> PROVE PagingInv'
  <2>1. \A p : PageOK(p)' = PageOK(p)
    BY <1>1, SameLogSamePages
  <2>2. QED
    BY <1>1, <2>1 DEF PagingInv
<1>3. ASSUME NEW c \in Client, NEW t \in 0 .. clock, StartPaging(c, t) PROVE PagingInv'
  <2> DEFINE q == [step |-> "paging", asOf |-> t, got |-> <<>>, settled |-> SettledAt(t)]
  <2>1. paging' = [paging EXCEPT ![c] = q] /\ UNCHANGED logVars
    BY <1>3 DEF StartPaging
  <2>2. t \in Nat /\ SettledAt(t) \in BOOLEAN
    BY DEF TypeInv, LogTyped, SettledAt
  <2>3. q \in Page
    BY <2>2 DEF Page
  <2>4. \A S, s : IsFiniteSet(S) /\ s \in Orders(S) =>
          Len(<<>>) <= Len(s) /\ <<>> = SubSeq(s, 1, Len(<<>>))
    BY OrdersAreSequences
  <2>5. IsFiniteSet(Reads(t))
    BY ReadsAreFinite DEF TypeInv
  <2>6. PageOK(q)
    BY <2>4, <2>5 DEF PageOK
  <2> HIDE DEF q
  <2>7. QED
    BY <2>1, <2>3, <2>6, SameLogSamePages DEF PagingInv
<1>4. QED
  BY <1>1, <1>3, RequestKeepsPages DEF NextReader, CreateDataset, Prepare, Issue, Adjudicate

\* The pages of a settled time are the list as it is, whatever is ingested while
\* they are taken.
THEOREM PagesAreWholeHolds == Spec => []PagesAreWhole
<1>1. Init => PagingInv
  <2> SUFFICES ASSUME Init PROVE PagingInv
    OBVIOUS
  <2>1. paging = [c \in Client |-> NewPaging]
    BY DEF Init, InitReaders
  <2>2. NewPaging \in Page /\ NewPaging.step = "new"
    BY DEF NewPaging, Page
  <2>3. QED
    BY <2>1, <2>2 DEF PagingInv, PageOK
<1>2. IInv /\ LogWhole /\ PagingInv /\ [Next]_vars => PagingInv'
  <2> SUFFICES ASSUME IInv, LogWhole, PagingInv, [Next]_vars PROVE PagingInv'
    OBVIOUS
  <2>1. CASE NextLog
    BY <2>1, LogKeepsPages DEF IInv
  <2>2. CASE NextReader
    BY <2>2, ReaderKeepsPages DEF IInv
  <2>3. CASE UNCHANGED allVars
    <3>1. UNCHANGED logVars /\ paging' = paging
      BY <2>3 DEF allVars, readerVars
    <3>2. QED
      BY <3>1, SameLogSamePages DEF PagingInv
  <2>4. QED
    BY <2>1, <2>2, <2>3 DEF Next, vars
<1>3. PagingInv => PagesAreWhole
  BY DEF PagingInv, PageOK, PagesAreWhole, TimesDiffer
<1>4. QED
  BY <1>1, <1>2, <1>3, ReadersInvariant, LogStaysWhole, PTL DEF Spec

-----------------------------------------------------------------------------
(* The families                                                               *)

\* Of finitely many numbers one is the least, and the first of those is one.
LEMMA FirstOfTheLeast ==
    ASSUME NEW n \in Nat \ {0}, NEW d \in [1 .. n -> Int]
    PROVE  \E j \in 1 .. n : \A k \in 1 .. n : d[j] < d[k] \/ (d[j] = d[k] /\ j <= k)
<1> DEFINE Leads(j, m) == \A k \in 1 .. m : d[j] < d[k] \/ (d[j] = d[k] /\ j <= k)
           Bad == {m \in 1 .. n : \A j \in 1 .. m : ~Leads(j, m)}
<1>0. n \in 1 .. n
  OBVIOUS
<1>1. SUFFICES ASSUME n \in Bad PROVE FALSE
  <2> HIDE DEF Leads
  <2>1. \E j \in 1 .. n : Leads(j, n)
    BY <1>0
  <2>2. QED
    BY <2>1 DEF Leads
<1>2. PICK m \in Bad : \A k \in Bad : m <= k
  <2>1. Bad \in SUBSET Nat
    <3> HIDE DEF Leads
    <3>1. QED
      OBVIOUS
  <2>2. Bad # {}
    BY <1>1
  <2> HIDE DEF Bad
  <2>3. QED
    BY <2>1, <2>2, LeastOf
<1>3. m # 1
  <2>1. Leads(1, 1)
    OBVIOUS
  <2>2. QED
    BY <2>1
<1>a. m \in 1 .. n /\ \A j \in 1 .. m : ~Leads(j, m)
  OBVIOUS
<1>4. m - 1 \in 1 .. n /\ m - 1 \notin Bad
  <2>1. m - 1 \in 1 .. n /\ m - 1 < m
    BY <1>a, <1>3
  <2> HIDE DEF Bad
  <2>2. QED
    BY <1>2, <1>a, <2>1
<1>5. PICK j \in 1 .. (m - 1) : Leads(j, m - 1)
  <2> HIDE DEF Leads
  <2>1. QED
    BY <1>4
<1>6. CASE d[m] < d[j]
  <2>1. Leads(m, m)
    <3>1. ASSUME NEW k \in 1 .. m PROVE d[m] < d[k] \/ (d[m] = d[k] /\ m <= k)
      <4>1. CASE k = m
        BY <4>1
      <4>2. CASE k \in 1 .. (m - 1)
        BY <1>5, <1>6, <4>2
      <4>3. QED
        BY <4>1, <4>2
    <3>2. QED
      BY <3>1
  <2>2. m \in 1 .. m
    BY <1>a
  <2> HIDE DEF Leads
  <2>3. QED
    BY <1>a, <2>1, <2>2
<1>7. CASE ~(d[m] < d[j])
  <2>1. Leads(j, m)
    <3>1. ASSUME NEW k \in 1 .. m PROVE d[j] < d[k] \/ (d[j] = d[k] /\ j <= k)
      <4>1. CASE k = m
        BY <1>7, <4>1
      <4>2. CASE k \in 1 .. (m - 1)
        BY <1>5, <4>2
      <4>3. QED
        BY <4>1, <4>2
    <3>2. QED
      BY <3>1
  <2>2. j \in 1 .. m
    BY <1>a
  <2> HIDE DEF Leads
  <2>3. QED
    BY <1>a, <2>1, <2>2
<1>8. QED
  BY <1>6, <1>7

\* The nearest predecessor of an event is an earlier one.
LEMMA NearestIsEarlier ==
    ASSUME NEW n \in Nat, NEW s \in [1 .. n -> Row], NEW i \in 2 .. n
    PROVE  Nearest(s, i) \in 1 .. (i - 1)
<1> DEFINE d == [k \in 1 .. (i - 1) |-> Distance(s[k], s[i])]
           P(j) == \A k \in 1 .. (i - 1) :
                     \/ Distance(s[j], s[i]) < Distance(s[k], s[i])
                     \/ Distance(s[j], s[i]) = Distance(s[k], s[i]) /\ j <= k
<1>1. \A p, q \in Row : Distance(p, q) \in Int
  BY MethodsAssumption DEF Distance, Row, Revision, Content
<1>2. d \in [1 .. (i - 1) -> Int] /\ i - 1 \in Nat \ {0}
  BY <1>1
<1>3. \E j \in 1 .. (i - 1) : P(j)
  <2>1. \E j \in 1 .. (i - 1) : \A k \in 1 .. (i - 1) : d[j] < d[k] \/ (d[j] = d[k] /\ j <= k)
    <3> HIDE DEF d
    <3>1. QED
      BY <1>2, FirstOfTheLeast
  <2>2. QED
    BY <2>1
<1>4. Nearest(s, i) = CHOOSE j \in 1 .. (i - 1) : P(j)
  BY DEF Nearest
<1> HIDE DEF P
<1>5. QED
  BY <1>3, <1>4

\* Its distance is a number.
LEMMA DistancesAreNumbers ==
    ASSUME NEW n \in Nat, NEW s \in [1 .. n -> Row], NEW i \in 2 .. n
    PROVE  NearestDistance(s, i) \in Int
<1>1. \A p, q \in Row : Distance(p, q) \in Int
  BY MethodsAssumption DEF Distance, Row, Revision, Content
<1>2. Nearest(s, i) \in 1 .. (i - 1)
  BY NearestIsEarlier
<1>3. s[Nearest(s, i)] \in Row /\ s[i] \in Row
  BY <1>2
<1>4. QED
  BY <1>1, <1>3 DEF NearestDistance

\* When a revision was.
At(x) == Place[x.ev][x.ver]

\* The rows of a declustering run, one for each event, can be counted in the order
\* of time: a triggered event has its parent among those before it, and where one
\* is triggered all others are background.
Forest(C) ==
    \E n \in Nat : \E id \in [1 .. n -> Revision] :
        /\ \A i, j \in 1 .. n : id[i] = id[j] => i = j
        /\ \A i, j \in 1 .. n : i < j => At(id[i]) <= At(id[j])
        /\ \A i \in 1 .. n : From <= At(id[i]) /\ At(id[i]) < To
        /\ Ids(C) = {id[i] : i \in 1 .. n}
        /\ \A c, d \in C : c.id = d.id => c = d
        /\ \A c \in Triggered(C) : \A i \in 1 .. n :
             c.id = id[i] => \E j \in 1 .. (i - 1) : c.parent = id[j]
        /\ Triggered(C) # {} => C = Triggered(C) \cup Background(C)

\* What decluster returns for the events of a read.
LEMMA ClassifyMakesForest ==
    ASSUME NEW S \in SUBSET Row, IsFiniteSet(S), InSpan(S),
           \A p, q \in S : p.rev = q.rev => p = q,
           NEW s \in InTimeOrder(S), NEW threshold \in Int \cup {None}
    PROVE  Forest(Classify(s, threshold))
<1> DEFINE n == Cardinality(S)
           id == [i \in 1 .. n |-> s[i].rev]
           C == Classify(s, threshold)
           back(i) == IF i = 1 THEN TRUE
                      ELSE IF threshold = None THEN None ELSE NearestDistance(s, i) >= threshold
           row(i) == [id |-> s[i].rev, parent |-> IF i = 1 THEN None ELSE s[Nearest(s, i)].rev,
                      background |-> back(i)]
<1>1. /\ n \in Nat /\ s \in [1 .. n -> S]
      /\ \A i, j \in 1 .. n : i < j => s[i] # s[j] /\ Time(s[i]) <= Time(s[j])
  BY FS_CardinalityType DEF InTimeOrder
<1>2. \A i, j \in 1 .. n : s[i] = s[j] => i = j
  <2>1. \A i, j \in 1 .. n : i < j => s[i] # s[j]
    BY <1>1
  <2>2. QED
    BY <1>1, <2>1
<1>3. Len(s) = n /\ s \in [1 .. n -> Row]
  BY <1>1
<1>4. C = {row(i) : i \in 1 .. n}
  BY <1>3 DEF Classify
<1>5. id \in [1 .. n -> Revision] /\ \A i \in 1 .. n : id[i] = s[i].rev /\ At(id[i]) = Time(s[i])
  BY <1>3 DEF Row, At, Time
<1>6. \A i, j \in 1 .. n : id[i] = id[j] => i = j
  BY <1>1, <1>2, <1>5
<1>7. \A i, j \in 1 .. n : i < j => At(id[i]) <= At(id[j])
  BY <1>1, <1>5
<1>8. \A i \in 1 .. n : From <= At(id[i]) /\ At(id[i]) < To
  BY <1>1, <1>5 DEF InSpan
<1>9. \A i \in 1 .. n : row(i).id = id[i] /\ row(i).background = back(i)
  BY <1>5
<1>a. \A c \in C : \E i \in 1 .. n : c = row(i) /\ c.id = id[i]
  <2> HIDE DEF C, id, row
  <2>1. QED
    BY <1>4, <1>9
<1>b. \A i \in 1 .. n : row(i) \in C
  BY <1>4
<1>c. \A i \in 2 .. n : NearestDistance(s, i) \in Int
  BY <1>1, <1>3, DistancesAreNumbers
<1>10. Ids(C) = {id[i] : i \in 1 .. n}
  <2>1. \A i \in 1 .. n : \E c \in C : c.id = id[i]
    BY <1>9, <1>b
  <2>2. \A c \in C : \E i \in 1 .. n : c.id = id[i]
    BY <1>a
  <2> HIDE DEF C, id, row
  <2>3. QED
    BY <2>1, <2>2 DEF Ids
<1>11. \A c, d \in C : c.id = d.id => c = d
  <2> HIDE DEF C, id, row
  <2>1. QED
    BY <1>6, <1>a
<1>12. None # FALSE /\ None # TRUE
  BY MethodsAssumption
<1>13. ASSUME NEW c \in Triggered(C), NEW i \in 1 .. n, c.id = id[i]
       PROVE  \E j \in 1 .. (i - 1) : c.parent = id[j]
  <2>1. PICK k \in 1 .. n : c = row(k)
    BY <1>4 DEF Triggered
  <2>2. k = i
    BY <1>6, <1>9, <1>13, <2>1
  <2>3. back(i) = FALSE
    BY <1>9, <2>1, <2>2 DEF Triggered
  <2>4. i # 1
    BY <2>3
  <2>5. Nearest(s, i) \in 1 .. (i - 1)
    BY <1>1, <1>3, <2>4, NearestIsEarlier
  <2>6. c.parent = s[Nearest(s, i)].rev
    BY <2>1, <2>2, <2>4
  <2>7. Nearest(s, i) \in 1 .. n
    BY <1>1, <2>5
  <2>8. QED
    BY <1>5, <2>5, <2>6, <2>7
<1>14. ASSUME NEW c \in Triggered(C), NEW d \in C PROVE d.background = FALSE \/ d.background = TRUE
  <2>1. PICK k \in 1 .. n : c = row(k)
    BY <1>4 DEF Triggered
  <2>2. PICK i \in 1 .. n : d = row(i)
    BY <1>4
  <2>3. back(k) = FALSE
    BY <1>9, <2>1 DEF Triggered
  <2>4. threshold # None
    BY <1>12, <2>3
  <2>5. back(i) \in BOOLEAN
    <3>1. CASE i = 1
      BY <3>1
    <3>2. CASE i # 1
      <4>1. NearestDistance(s, i) \in Int /\ threshold \in Int
        BY <1>1, <1>c, <2>4, <3>2
      <4>2. (NearestDistance(s, i) >= threshold) \in BOOLEAN
        BY <4>1
      <4>3. QED
        BY <2>4, <3>2, <4>2
    <3>3. QED
      BY <3>1, <3>2
  <2>6. QED
    BY <1>9, <2>2, <2>5
<1>15. Triggered(C) # {} => C = Triggered(C) \cup Background(C)
  <2>1. Triggered(C) \subseteq C /\ Background(C) \subseteq C
    BY DEF Triggered, Background
  <2>2. ASSUME NEW c \in Triggered(C), NEW d \in C PROVE d \in Triggered(C) \cup Background(C)
    BY <1>14 DEF Triggered, Background
  <2>3. QED
    BY <2>1, <2>2
<1> HIDE DEF id, C, row, back
<1>16. QED
  BY <1>1, <1>5, <1>6, <1>7, <1>8, <1>10, <1>11, <1>13, <1>15 DEF Forest, C

\* Going up from each place to an earlier one ends where there is none to go to.
LEMMA ClimbEnds ==
    ASSUME NEW n \in Nat, NEW up \in [1 .. n -> 1 .. n], \A i \in 1 .. n : up[i] <= i
    PROVE  \E g \in [1 .. n -> 1 .. n] : \A i \in 1 .. n :
             /\ g[i] = IF up[i] = i THEN i ELSE g[up[i]]
             /\ up[g[i]] = g[i] /\ g[i] <= i
<1> DEFINE EndsBelow(g, m) == \A i \in 1 .. m :
             /\ g[i] = IF up[i] = i THEN i ELSE g[up[i]]
             /\ up[g[i]] = g[i] /\ g[i] <= i
           Bad == {m \in 0 .. n : \A g \in [1 .. m -> 1 .. n] : ~EndsBelow(g, m)}
<1>1. n \notin Bad => \E g \in [1 .. n -> 1 .. n] : EndsBelow(g, n)
  <2>1. n \in 0 .. n
    OBVIOUS
  <2> HIDE DEF EndsBelow
  <2>2. QED
    BY <2>1
<1>2. Bad = {}
  <2>1. SUFFICES ASSUME Bad # {} PROVE FALSE
    OBVIOUS
  <2>2. PICK m \in Bad : \A k \in Bad : m <= k
    <3>1. Bad \in SUBSET Nat
      <4> HIDE DEF EndsBelow
      <4>1. QED
        OBVIOUS
    <3> HIDE DEF Bad
    <3>2. QED
      BY <2>1, <3>1, LeastOf
  <2>3. m \in 0 .. n /\ \A g \in [1 .. m -> 1 .. n] : ~EndsBelow(g, m)
    BY <2>2
  <2>4. m # 0
    <3>1. SUFFICES ASSUME m = 0 PROVE FALSE
      OBVIOUS
    <3> DEFINE e == [i \in 1 .. 0 |-> i]
    <3>2. e \in [1 .. 0 -> 1 .. n] /\ EndsBelow(e, 0)
      OBVIOUS
    <3>3. QED
      BY <2>3, <3>1, <3>2
  <2>5. m - 1 \in 0 .. n /\ m - 1 \notin Bad
    <3>1. m - 1 \in 0 .. n /\ m - 1 < m
      BY <2>3, <2>4
    <3> HIDE DEF Bad
    <3>2. QED
      BY <2>2, <2>3, <3>1
  <2>6. PICK g \in [1 .. (m - 1) -> 1 .. n] : EndsBelow(g, m - 1)
    <3> HIDE DEF EndsBelow
    <3>1. QED
      BY <2>5
  <2> DEFINE last == IF up[m] = m THEN m ELSE g[up[m]]
             h == [i \in 1 .. m |-> IF i = m THEN last ELSE g[i]]
  <2>7. last \in 1 .. n /\ up[last] = last /\ last <= m
    <3>1. up[m] \in 1 .. n /\ up[m] <= m /\ m \in 1 .. n
      BY <2>3, <2>4
    <3>2. CASE up[m] = m
      BY <3>1, <3>2
    <3>3. CASE up[m] # m
      <4>1. up[m] \in 1 .. (m - 1)
        BY <3>1, <3>3
      <4>2. g[up[m]] \in 1 .. n /\ up[g[up[m]]] = g[up[m]] /\ g[up[m]] <= up[m]
        BY <2>6, <4>1
      <4>3. QED
        BY <3>1, <3>3, <4>1, <4>2
    <3>4. QED
      BY <3>2, <3>3
  <2>a. \A i \in 1 .. (m - 1) : i \in 1 .. m /\ i # m /\ g[i] \in 1 .. n
    BY <2>3
  <2>b. \A i \in 1 .. m : i = m \/ i \in 1 .. (m - 1)
    BY <2>3
  <2> HIDE DEF last
  <2>8. h \in [1 .. m -> 1 .. n]
    BY <2>7, <2>a, <2>b
  <2>9. ASSUME NEW i \in 1 .. m
        PROVE  h[i] = (IF up[i] = i THEN i ELSE h[up[i]]) /\ up[h[i]] = h[i] /\ h[i] <= i
    <3>1. up[i] \in 1 .. i /\ i \in 1 .. n
      BY <2>3
    <3>2. CASE i = m
      <4>1. h[i] = last
        BY <3>2
      <4>2. up[m] # m => h[up[m]] = g[up[m]]
        BY <2>3, <2>a, <2>b, <3>1, <3>2
      <4>3. QED
        BY <2>7, <3>2, <4>1, <4>2 DEF last
    <3>3. CASE i # m
      <4>1. i \in 1 .. (m - 1) /\ up[i] \in 1 .. (m - 1)
        BY <2>3, <3>1, <3>3
      <4>2. h[i] = g[i] /\ h[up[i]] = g[up[i]]
        BY <2>a, <4>1
      <4>3. QED
        BY <2>6, <4>1, <4>2
    <3>4. QED
      BY <3>2, <3>3
  <2>10. EndsBelow(h, m)
    <3> HIDE DEF h
    <3>1. QED
      BY <2>9
  <2> HIDE DEF EndsBelow, h
  <2>11. QED
    BY <2>3, <2>8, <2>10
<1>3. QED
  BY <1>1, <1>2

\* The recursion of _resolve_family_roots.
Resolves(C, t) ==
    t = [x \in Ids(C) |->
           IF ClassOf(C, x).background = FALSE THEN t[ClassOf(C, x).parent] ELSE x]

\* What it resolves to: an event that is not triggered and no later, the same
\* for an event and its parent.
Tops(C, top) ==
    /\ FamilyRoots(C) = [x \in Ids(Triggered(C)) |-> top[x]]
    /\ \A x \in Ids(C) :
         /\ ClassOf(C, x) \in C /\ ClassOf(C, x).id = x
         /\ top[x] \in Ids(C) /\ ClassOf(C, top[x]).background # FALSE
         /\ At(top[x]) <= At(x)
         /\ ClassOf(C, x).background = FALSE =>
              ClassOf(C, x).parent \in Ids(C) /\ top[x] = top[ClassOf(C, x).parent]
         /\ ClassOf(C, x).background # FALSE => top[x] = x

\* In a forest the recursion ends.
LEMMA RootsAreResolved ==
    ASSUME NEW C, Forest(C)
    PROVE  \E top : Tops(C, top)
<1>1. ASSUME NEW x \in Ids(C) PROVE ClassOf(C, x) \in C /\ ClassOf(C, x).id = x
  <2>1. \E c \in C : c.id = x
    BY DEF Ids
  <2>2. QED
    BY <2>1 DEF ClassOf
<1>2. PICK n \in Nat : \E id \in [1 .. n -> Revision] :
        /\ \A i, j \in 1 .. n : id[i] = id[j] => i = j
        /\ \A i, j \in 1 .. n : i < j => At(id[i]) <= At(id[j])
        /\ \A i \in 1 .. n : From <= At(id[i]) /\ At(id[i]) < To
        /\ Ids(C) = {id[i] : i \in 1 .. n}
        /\ \A c \in Triggered(C) : \A i \in 1 .. n :
             c.id = id[i] => \E j \in 1 .. (i - 1) : c.parent = id[j]
  BY DEF Forest
<1>3. PICK id \in [1 .. n -> Revision] :
        /\ \A i, j \in 1 .. n : id[i] = id[j] => i = j
        /\ \A i, j \in 1 .. n : i < j => At(id[i]) <= At(id[j])
        /\ \A i \in 1 .. n : From <= At(id[i]) /\ At(id[i]) < To
        /\ Ids(C) = {id[i] : i \in 1 .. n}
        /\ \A c \in Triggered(C) : \A i \in 1 .. n :
             c.id = id[i] => \E j \in 1 .. (i - 1) : c.parent = id[j]
  BY <1>2
<1> DEFINE hit(i) == ClassOf(C, id[i]).background = FALSE
           above(i) == CHOOSE j \in 1 .. (i - 1) : ClassOf(C, id[i]).parent = id[j]
           up == [i \in 1 .. n |-> IF hit(i) THEN above(i) ELSE i]
<1>4. ASSUME NEW i \in 1 .. n, hit(i)
      PROVE  above(i) \in 1 .. (i - 1) /\ ClassOf(C, id[i]).parent = id[above(i)]
  <2>1. ClassOf(C, id[i]) \in Triggered(C) /\ ClassOf(C, id[i]).id = id[i]
    BY <1>1, <1>3, <1>4 DEF Triggered
  <2>2. \E j \in 1 .. (i - 1) : ClassOf(C, id[i]).parent = id[j]
    BY <1>3, <2>1
  <2>3. QED
    BY <2>2
<1>5. ASSUME NEW i \in 1 .. n
      PROVE  /\ up[i] \in 1 .. n /\ up[i] <= i
             /\ hit(i) <=> up[i] # i
             /\ hit(i) => ClassOf(C, id[i]).parent = id[up[i]]
  <2>1. CASE hit(i)
    <3>1. above(i) \in 1 .. (i - 1) /\ ClassOf(C, id[i]).parent = id[above(i)]
      BY <1>4, <2>1
    <3>2. up[i] = above(i)
      BY <2>1
    <3> HIDE DEF hit, above, up
    <3>3. up[i] \in 1 .. n /\ up[i] < i
      BY <3>1, <3>2
    <3>4. QED
      BY <2>1, <3>1, <3>2, <3>3
  <2>2. CASE ~hit(i)
    <3>1. up[i] = i
      BY <2>2
    <3> HIDE DEF hit, above, up
    <3>2. QED
      BY <2>2, <3>1
  <2>3. QED
    BY <2>1, <2>2
<1>6. up \in [1 .. n -> 1 .. n]
  <2>1. \A i \in 1 .. n : (IF hit(i) THEN above(i) ELSE i) \in 1 .. n
    BY <1>5
  <2>2. QED
    BY <2>1
<1> HIDE DEF up, above
<1>7. PICK g \in [1 .. n -> 1 .. n] : \A i \in 1 .. n :
        /\ g[i] = IF up[i] = i THEN i ELSE g[up[i]]
        /\ up[g[i]] = g[i] /\ g[i] <= i
  <2>1. \A i \in 1 .. n : up[i] <= i
    BY <1>5
  <2>2. \A u \in [1 .. n -> 1 .. n] : (\A i \in 1 .. n : u[i] <= i) =>
          \E g \in [1 .. n -> 1 .. n] : \A i \in 1 .. n :
            /\ g[i] = IF u[i] = i THEN i ELSE g[u[i]]
            /\ u[g[i]] = g[i] /\ g[i] <= i
    BY ClimbEnds
  <2>3. QED
    BY <1>6, <2>1, <2>2
<1> DEFINE place(x) == CHOOSE i \in 1 .. n : id[i] = x
           G == [x \in Ids(C) |-> id[g[place(x)]]]
<1>8. \A i \in 1 .. n : id[i] \in Ids(C) /\ place(id[i]) = i
  BY <1>3
<1>9. \A i \in 1 .. n : G[id[i]] = id[g[i]]
  BY <1>8
<1>10. Resolves(C, G)
  <2>1. ASSUME NEW x \in Ids(C)
        PROVE  G[x] = IF ClassOf(C, x).background = FALSE THEN G[ClassOf(C, x).parent] ELSE x
    <3>1. PICK i \in 1 .. n : x = id[i]
      BY <1>3
    <3>2. CASE hit(i)
      <4>1. G[id[i]] = id[g[up[i]]] /\ ClassOf(C, id[i]).parent = id[up[i]] /\ up[i] \in 1 .. n
        BY <1>5, <1>7, <1>9, <3>2
      <4>2. G[id[up[i]]] = id[g[up[i]]]
        BY <1>9, <4>1
      <4>3. QED
        BY <3>1, <3>2, <4>1, <4>2
    <3>3. CASE ~hit(i)
      <4>1. g[i] = i
        BY <1>5, <1>7, <3>3
      <4>2. QED
        BY <1>9, <3>1, <3>3, <4>1
    <3>4. QED
      BY <3>2, <3>3
  <2>2. G = [x \in Ids(C) |-> G[x]]
    OBVIOUS
  <2> HIDE DEF G
  <2>3. QED
    BY <2>1, <2>2, Zenon DEF Resolves
<1> DEFINE top == CHOOSE t : Resolves(C, t)
<1>11. Resolves(C, top)
  BY <1>10, Zenon
<1>12. FamilyRoots(C) = [x \in Ids(Triggered(C)) |-> top[x]]
  BY Zenon DEF FamilyRoots, Resolves
<1> HIDE DEF top
<1>13. \A x \in Ids(C) :
         top[x] = IF ClassOf(C, x).background = FALSE THEN top[ClassOf(C, x).parent] ELSE x
  BY <1>11, Zenon DEF Resolves
<1> DEFINE Differ == {i \in 1 .. n : top[id[i]] # id[g[i]]}
<1>14. Differ = {}
  <2>1. SUFFICES ASSUME Differ # {} PROVE FALSE
    OBVIOUS
  <2>2. PICK i \in Differ : \A k \in Differ : i <= k
    <3>1. Differ \in SUBSET Nat
      OBVIOUS
    <3> HIDE DEF Differ
    <3>2. QED
      BY <2>1, <3>1, LeastOf
  <2>3. i \in 1 .. n /\ top[id[i]] # id[g[i]] /\ id[i] \in Ids(C)
    BY <1>8
  <2>4. CASE hit(i)
    <3>1. up[i] \in 1 .. n /\ up[i] <= i /\ up[i] # i /\ ClassOf(C, id[i]).parent = id[up[i]]
      BY <1>5, <2>3, <2>4
    <3>2. ~(i <= up[i])
      BY <2>3, <3>1
    <3>a. up[i] \notin Differ
      <4> HIDE DEF Differ
      <4>1. QED
        BY <2>2, <3>2
    <3>b. top[id[up[i]]] = id[g[up[i]]]
      BY <3>1, <3>a
    <3>3. top[id[i]] = top[id[up[i]]] /\ g[i] = g[up[i]]
      BY <1>7, <1>13, <2>3, <2>4, <3>1
    <3>4. QED
      BY <2>3, <3>3, <3>b
  <2>5. CASE ~hit(i)
    <3>1. g[i] = i
      BY <1>5, <1>7, <2>3, <2>5
    <3>2. QED
      BY <1>13, <2>3, <2>5, <3>1
  <2>6. QED
    BY <2>4, <2>5
<1>15. ASSUME NEW x \in Ids(C)
       PROVE  /\ top[x] \in Ids(C) /\ ClassOf(C, top[x]).background # FALSE
              /\ At(top[x]) <= At(x)
              /\ ClassOf(C, x).background = FALSE =>
                   ClassOf(C, x).parent \in Ids(C) /\ top[x] = top[ClassOf(C, x).parent]
              /\ ClassOf(C, x).background # FALSE => top[x] = x
  <2>1. PICK i \in 1 .. n : x = id[i]
    BY <1>3
  <2>2. top[x] = id[g[i]] /\ g[i] \in 1 .. n /\ g[i] <= i /\ up[g[i]] = g[i]
    BY <1>7, <1>14, <2>1
  <2>3. ~hit(g[i])
    BY <1>5, <2>2
  <2>4. At(id[g[i]]) <= At(id[i])
    <3>1. At(id[i]) \in Nat
      BY CatalogAssumption DEF At, Revision
    <3>2. QED
      BY <1>3, <2>2, <3>1
  <2>5. hit(i) => ClassOf(C, x).parent \in Ids(C)
    BY <1>5, <1>8, <2>1
  <2>6. QED
    BY <1>8, <1>13, <2>1, <2>2, <2>3, <2>4, <2>5
<1>16. Tops(C, top)
  BY <1>1, <1>12, <1>15 DEF Tops
<1>17. QED
  BY <1>16

\* What the families of a forest are.
LEMMA FamiliesOfForest ==
    ASSUME NEW C, Forest(C)
    PROVE  /\ \A f \in Families(C) :
                /\ f.root \in Ids(Background(C))
                /\ f.members # {} /\ f.members \subseteq Ids(Triggered(C))
                /\ \A x \in f.members :
                     /\ ClassOf(C, x).parent \in f.members \cup {f.root}
                     /\ At(f.root) <= At(x)
                     /\ At(x) \in Nat /\ At(f.root) \in Nat /\ At(x) < To
                /\ \A h \in Families(C) : h.root # f.root => h.members \cap f.members = {}
           /\ \A x \in Ids(Triggered(C)) : \E f \in Families(C) : x \in f.members
<1>a. PICK top : Tops(C, top)
  BY RootsAreResolved
<1>1. /\ FamilyRoots(C) = [x \in Ids(Triggered(C)) |-> top[x]]
      /\ \A x \in Ids(C) :
           /\ ClassOf(C, x) \in C /\ ClassOf(C, x).id = x
           /\ top[x] \in Ids(C) /\ ClassOf(C, top[x]).background # FALSE
           /\ At(top[x]) <= At(x)
           /\ ClassOf(C, x).background = FALSE =>
                ClassOf(C, x).parent \in Ids(C) /\ top[x] = top[ClassOf(C, x).parent]
           /\ ClassOf(C, x).background # FALSE => top[x] = x
  BY <1>a DEF Tops
<1> DEFINE X == Ids(Triggered(C))
           members(r) == {x \in X : top[x] = r}
<1>2. Families(C) = {[root |-> r, members |-> members(r)] : r \in {top[x] : x \in X}}
  <2> DEFINE R == FamilyRoots(C)
  <2>1. Families(C) = {[root |-> r, members |-> {x \in DOMAIN R : R[x] = r}] :
                         r \in {R[x] : x \in DOMAIN R}}
    BY DEF Families
  <2>2. DOMAIN R = X /\ \A x \in X : R[x] = top[x]
    BY <1>1
  <2> HIDE DEF R, X
  <2>3. {R[x] : x \in DOMAIN R} = {top[x] : x \in X}
    BY <2>2
  <2>4. \A r : {x \in DOMAIN R : R[x] = r} = members(r)
    BY <2>2
  <2> HIDE DEF members
  <2>5. QED
    BY <2>1, <2>3, <2>4
<1>3. \A c, d \in C : c.id = d.id => c = d
  BY DEF Forest
<1>4. \A x \in Ids(C) : At(x) \in Nat /\ At(x) < To
  <2>1. PICK n \in Nat : \E id \in [1 .. n -> Revision] :
          /\ \A i \in 1 .. n : From <= At(id[i]) /\ At(id[i]) < To
          /\ Ids(C) = {id[i] : i \in 1 .. n}
    BY DEF Forest
  <2>2. \A x \in Revision : At(x) \in Nat
    BY CatalogAssumption DEF At, Revision
  <2>3. QED
    BY <2>1, <2>2
<1>5. ASSUME NEW c \in C PROVE c.id \in Ids(C) /\ ClassOf(C, c.id) = c
  <2>1. c.id \in Ids(C)
    BY DEF Ids
  <2>2. ClassOf(C, c.id) \in C /\ ClassOf(C, c.id).id = c.id
    BY <1>1, <2>1
  <2>3. QED
    BY <1>3, <2>1, <2>2
<1>6. \A x \in X : x \in Ids(C) /\ ClassOf(C, x).background = FALSE
  <2>1. \A x \in X : \E c \in C : c.id = x /\ c.background = FALSE
    BY DEF Ids, Triggered
  <2>2. QED
    BY <1>5, <2>1
<1>7. \A x \in Ids(C) : ClassOf(C, x).background = FALSE => x \in X
  <2>1. \A c \in C : c.background = FALSE => c.id \in X
    BY DEF Ids, Triggered
  <2>2. \A x \in Ids(C) : ClassOf(C, x) \in C /\ ClassOf(C, x).id = x
    BY <1>1
  <2> HIDE DEF X
  <2>3. QED
    BY <2>1, <2>2
<1>8. X # {} => \A x \in Ids(C) : ClassOf(C, x).background # FALSE => x \in Ids(Background(C))
  <2>1. X # {} => C = Triggered(C) \cup Background(C)
    BY DEF Forest, Ids
  <2>2. \A c \in Triggered(C) : c.background = FALSE
    BY DEF Triggered
  <2>3. \A x \in Ids(C) : ClassOf(C, x) \in C /\ ClassOf(C, x).id = x
    BY <1>1
  <2> HIDE DEF X
  <2>4. QED
    BY <2>1, <2>2, <2>3 DEF Ids
<1>9. ASSUME NEW f \in Families(C)
      PROVE  \E r : f = [root |-> r, members |-> members(r)] /\ \E x \in X : r = top[x]
  <2> HIDE DEF members, X
  <2>1. QED
    BY <1>2
<1> HIDE DEF X
<1>10. ASSUME NEW f \in Families(C)
       PROVE  /\ f.root \in Ids(Background(C))
              /\ f.members # {} /\ f.members \subseteq X
              /\ \A x \in f.members :
                   /\ ClassOf(C, x).parent \in f.members \cup {f.root}
                   /\ At(f.root) <= At(x)
                   /\ At(x) \in Nat /\ At(f.root) \in Nat /\ At(x) < To
              /\ \A h \in Families(C) : h.root # f.root => h.members \cap f.members = {}
  <2>1. PICK r : f = [root |-> r, members |-> members(r)] /\ \E x \in X : r = top[x]
    BY <1>9
  <2>2. PICK y \in X : r = top[y]
    BY <2>1
  <2>3. f.root = r /\ f.members = members(r)
    BY <2>1
  <2>4. r \in Ids(C) /\ r \in Ids(Background(C))
    BY <1>1, <1>6, <1>8, <2>2
  <2>5. y \in members(r)
    BY <2>2
  <2>6. ASSUME NEW x \in members(r)
        PROVE  /\ ClassOf(C, x).parent \in members(r) \cup {r}
               /\ At(r) <= At(x) /\ At(x) \in Nat /\ At(r) \in Nat /\ At(x) < To
    <3>1. x \in X /\ top[x] = r /\ x \in Ids(C) /\ ClassOf(C, x).background = FALSE
      BY <1>6
    <3>2. At(r) <= At(x) /\ At(x) \in Nat /\ At(r) \in Nat /\ At(x) < To
      BY <1>1, <1>4, <2>4, <3>1
    <3> DEFINE z == ClassOf(C, x).parent
    <3>3. z \in Ids(C) /\ top[z] = r
      BY <1>1, <3>1
    <3>4. ClassOf(C, z).background = FALSE => z \in members(r)
      BY <1>7, <3>3
    <3>5. ClassOf(C, z).background # FALSE => z = r
      BY <1>1, <3>3
    <3>6. QED
      BY <3>2, <3>4, <3>5
  <2>7. ASSUME NEW h \in Families(C), h.root # f.root PROVE h.members \cap f.members = {}
    <3>1. PICK q : h = [root |-> q, members |-> members(q)]
      BY <1>9
    <3>2. h.root = q /\ h.members = members(q)
      BY <3>1
    <3>3. QED
      BY <2>3, <2>7, <3>2
  <2>8. members(r) \subseteq X
    OBVIOUS
  <2> HIDE DEF members
  <2>9. QED
    BY <2>3, <2>4, <2>5, <2>6, <2>7, <2>8
<1>11. ASSUME NEW x \in X PROVE \E f \in Families(C) : x \in f.members
  <2> DEFINE f == [root |-> top[x], members |-> members(top[x])]
  <2>1. f \in Families(C)
    <3> HIDE DEF members
    <3>1. QED
      BY <1>2
  <2>2. x \in f.members
    OBVIOUS
  <2>3. QED
    BY <2>1, <2>2
<1>12. QED
  BY <1>10, <1>11 DEF X

\* Every declustering run is a forest, and holds for ever; the sequences fitted
\* for it are its families, all of them.
FamilyInv ==
    /\ \A d \in declustered : Forest(d.classes)
    /\ \A o \in omori :
        /\ o.of \in declustered
        /\ o.duration = To - At(o.root)
        /\ \E f \in Families(o.of.classes) : o.root = f.root /\ o.members = f.members
        /\ \A f \in Families(o.of.classes) :
             \E p \in omori : p.of = o.of /\ p.root = f.root /\ p.members = f.members

\* A threshold is one of the distances, or none.
LEMMA ThresholdsAreNumbers ==
    ASSUME NEW S \in SUBSET Row, IsFiniteSet(S), NEW s \in InTimeOrder(S)
    PROVE  Thresholds(s) \subseteq Int \cup {None}
<1>1. Cardinality(S) \in Nat /\ s \in [1 .. Cardinality(S) -> Row]
  BY FS_CardinalityType DEF InTimeOrder
<1>2. Len(s) = Cardinality(S)
  BY <1>1
<1>3. \A i \in 2 .. Len(s) : NearestDistance(s, i) \in Int
  BY <1>1, <1>2, DistancesAreNumbers
<1>4. QED
  BY <1>3 DEF Thresholds

\* A run of decluster and the fits to its families are each one transaction.
LEMMA FamilyStep ==
    ASSUME TypeInv, LogWhole, FamilyInv, [Next]_vars
    PROVE  FamilyInv'
<1>1. \A C : Forest(C)' = Forest(C) /\ Families(C)' = Families(C)
  BY DEF Forest, At, Ids, Triggered, Background, Families, FamilyRoots, ClassOf, Revision
<1>2. ASSUME UNCHANGED <<declustered, omori>> PROVE FamilyInv'
  BY <1>1, <1>2 DEF FamilyInv, At
<1>3. ASSUME NEW g \in gutenberg, Decluster(g) PROVE FamilyInv'
  <2> DEFINE above == AtOrAbove(Reads(g.of.asOf), g.of.mc)
  <2>1. PICK s \in InTimeOrder(above) : \E threshold \in Thresholds(s) :
          declustered' = declustered \cup
            {[of |-> g, used |-> above, classes |-> Classify(s, threshold)]}
    BY <1>3 DEF Decluster
  <2>2. PICK threshold \in Thresholds(s) :
          declustered' = declustered \cup
            {[of |-> g, used |-> above, classes |-> Classify(s, threshold)]}
    BY <2>1
  <2>3. above \subseteq Reads(g.of.asOf)
    BY DEF AtOrAbove, Sample
  <2>4. /\ above \in SUBSET Row /\ IsFiniteSet(above) /\ InSpan(above)
        /\ \A p, q \in above : p.rev = q.rev => p = q
    BY <2>3, ReadsAreRows, ReadsAreFinite, FS_Subset DEF TypeInv, InSpan
  <2>5. threshold \in Int \cup {None}
    BY <2>4, ThresholdsAreNumbers
  <2>6. Forest(Classify(s, threshold))
    BY <2>4, <2>5, ClassifyMakesForest
  <2>7. omori' = omori
    BY <1>3 DEF Decluster
  <2>8. QED
    BY <1>1, <2>2, <2>6, <2>7 DEF FamilyInv, At
<1>4. ASSUME NEW d \in declustered, EstimateOmori(d) PROVE FamilyInv'
  <2> DEFINE F == Families(d.classes)
  <2>1. PICK converged \in [F -> BOOLEAN] :
          omori' = omori \cup
             {[of |-> d, root |-> f.root, members |-> f.members,
               duration |-> To - Place[f.root.ev][f.root.ver], estimable |-> converged[f]] : f \in F}
    BY <1>4 DEF EstimateOmori
  <2>2. declustered' = declustered
    BY <1>4 DEF EstimateOmori
  <2> DEFINE row(f) == [of |-> d, root |-> f.root, members |-> f.members,
                        duration |-> To - At(f.root), estimable |-> converged[f]]
  <2>3. omori' = omori \cup {row(f) : f \in F}
    BY <2>1 DEF At
  <2>4. \A f : /\ row(f).of = d /\ row(f).root = f.root /\ row(f).members = f.members
               /\ row(f).duration = To - At(f.root)
    OBVIOUS
  <2> HIDE DEF row
  <2>5. ASSUME NEW o \in omori'
        PROVE  /\ o.of \in declustered /\ o.duration = To - At(o.root)
               /\ \E f \in Families(o.of.classes) : o.root = f.root /\ o.members = f.members
    BY <2>3, <2>4 DEF FamilyInv
  <2>6. ASSUME NEW o \in omori', NEW f \in Families(o.of.classes)
        PROVE  \E p \in omori' : p.of = o.of /\ p.root = f.root /\ p.members = f.members
    <3>1. CASE o \in omori
      <4>1. \E p \in omori : p.of = o.of /\ p.root = f.root /\ p.members = f.members
        BY <3>1 DEF FamilyInv
      <4>2. QED
        BY <2>3, <4>1
    <3>2. CASE o \notin omori
      <4>1. o.of = d
        BY <2>3, <2>4, <3>2
      <4>2. row(f) \in omori'
        BY <2>3, <4>1
      <4>3. QED
        BY <2>4, <4>1, <4>2
    <3>3. QED
      BY <3>1, <3>2
  <2>7. \A x : At(x)' = At(x)
    BY DEF At
  <2>8. \A e \in declustered' : Forest(e.classes)
    BY <2>2 DEF FamilyInv
  <2>9. QED
    BY <1>1, <2>2, <2>5, <2>6, <2>7, <2>8 DEF FamilyInv
<1>5. CASE Estimate
  <2>1. ASSUME NEW method, NEW t, NEW boxed, EstimateCompleteness(method, t, boxed)
        PROVE UNCHANGED <<declustered, omori>>
    BY <2>1 DEF EstimateCompleteness
  <2>2. ASSUME NEW c, FitGutenbergRichter(c) PROVE UNCHANGED <<declustered, omori>>
    BY <2>2 DEF FitGutenbergRichter
  <2>3. ASSUME NEW kind, NEW c, NEW d, FitEtas(kind, c, d) PROVE UNCHANGED <<declustered, omori>>
    BY <2>3 DEF FitEtas
  <2>4. ASSUME NEW d, EstimateBackgroundRate(d) PROVE UNCHANGED <<declustered, omori>>
    BY <2>4 DEF EstimateBackgroundRate
  <2>5. ASSUME NEW e, NEW end, EstimateIas(e, end) PROVE UNCHANGED <<declustered, omori>>
    BY <2>5 DEF EstimateIas
  <2>6. QED
    BY <1>2, <1>3, <1>4, <1>5, <2>1, <2>2, <2>3, <2>4, <2>5 DEF Estimate
<1>6. QED
  BY <1>2, <1>5 DEF Next, vars, estimateVars

\* The families of a run partition its triggered events, each under one
\* background event with the parents of its members.
THEOREM FamiliesPartitionHolds == Spec => []FamiliesPartition
<1>1. Init => FamilyInv
  BY DEF Init, FamilyInv
<1>2. IInv /\ LogWhole /\ FamilyInv /\ [Next]_vars => FamilyInv'
  BY FamilyStep DEF IInv
<1>3. FamilyInv => FamiliesPartition
  <2> SUFFICES ASSUME FamilyInv PROVE FamiliesPartition
    OBVIOUS
  <2>1. ASSUME NEW o \in omori
        PROVE  LET C == o.of.classes
                   at(x) == Place[x.ev][x.ver]
               IN  /\ o.root \in Ids(Background(C))
                   /\ o.members # {} /\ o.members \subseteq Ids(Triggered(C))
                   /\ \A x \in o.members :
                       /\ ClassOf(C, x).parent \in o.members \cup {o.root}
                       /\ at(o.root) <= at(x) /\ at(x) - at(o.root) < o.duration
                   /\ \A x \in Ids(Triggered(C)) :
                       \E p \in omori : p.of = o.of /\ x \in p.members
                   /\ \A p \in omori : p.of = o.of /\ p.root # o.root => p.members \cap o.members = {}
    <3> DEFINE C == o.of.classes
    <3>1. Forest(C) /\ o.duration = To - At(o.root)
      BY DEF FamilyInv
    <3>2. PICK f \in Families(C) : o.root = f.root /\ o.members = f.members
      BY DEF FamilyInv
    <3>3. /\ f.root \in Ids(Background(C))
          /\ f.members # {} /\ f.members \subseteq Ids(Triggered(C))
          /\ \A x \in f.members :
               /\ ClassOf(C, x).parent \in f.members \cup {f.root}
               /\ At(f.root) <= At(x)
               /\ At(x) \in Nat /\ At(f.root) \in Nat /\ At(x) < To
          /\ \A h \in Families(C) : h.root # f.root => h.members \cap f.members = {}
      BY <3>1, FamiliesOfForest
    <3>4. \A x \in o.members : At(x) - At(o.root) < o.duration
      BY <3>1, <3>2, <3>3, ReadersAssumption
    <3>5. ASSUME NEW x \in Ids(Triggered(C)) PROVE \E p \in omori : p.of = o.of /\ x \in p.members
      <4>1. PICK h \in Families(C) : x \in h.members
        BY <3>1, FamiliesOfForest
      <4>2. QED
        BY <4>1 DEF FamilyInv
    <3>6. ASSUME NEW p \in omori, p.of = o.of, p.root # o.root PROVE p.members \cap o.members = {}
      <4>1. PICK h \in Families(C) : p.root = h.root /\ p.members = h.members
        BY <3>6 DEF FamilyInv
      <4>2. QED
        BY <3>2, <3>3, <3>6, <4>1
    <3> HIDE DEF C
    <3>7. QED
      BY <3>2, <3>3, <3>4, <3>5, <3>6 DEF C, At
  <2>2. QED
    BY <2>1 DEF FamiliesPartition
<1>4. QED
  BY <1>1, <1>2, <1>3, ReadersInvariant, LogStaysWhole, PTL DEF Spec

=============================================================================
