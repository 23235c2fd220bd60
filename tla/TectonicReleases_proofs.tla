----------------------- MODULE TectonicReleases_proofs -----------------------
(* What acquisition and classification guarantee for any number of commands,  *)
(* releases, assets, batches and revisions.                                   *)
EXTENDS TectonicReleases, SequenceTheorems, FiniteSetTheorems, TLAPS

-----------------------------------------------------------------------------
(* The inductive invariant                                                    *)

\* An ingest command builds a release of the registry, has recorded the assets
\* before the one it is at, and all of them when it comes to the rows.
LoaderOK(p) ==
    /\ step[p] \in {"new", "ensure"} => next[p] = 1
    /\ step[p] \in {"ensure", "obtain", "download", "check", "insert"} => target[p] \in Release
    /\ step[p] \in {"obtain", "download"} =>
            /\ next[p] \in DOMAIN Assets[target[p]]
            /\ \A i \in 1 .. next[p] - 1 : <<target[p], Assets[target[p]][i]>> \in asset
    /\ step[p] \in {"check", "insert"} =>
            \A i \in DOMAIN Assets[target[p]] : <<target[p], Assets[target[p]][i]>> \in asset
LoaderInv == \A p \in Loader : LoaderOK(p)

\* A classify command works with releases that are ready.
ClassifierOK(c) ==
    /\ step[c] \in {"pick", "select", "look", "write"} =>
            slab[c] \in Slab /\ release[slab[c]] = "ready" /\ method[c] \in Method
    /\ step[c] \in {"select", "look", "write"} =>
            fault[c] \in Fault /\ release[fault[c]] = "ready"
    /\ step[c] = "write" => todo[c] # <<>>
ClassifierInv == \A c \in Classifier : ClassifierOK(c)

ResultsInv == \A k \in results : release[k.slab] = "ready" /\ release[k.fault] = "ready"

IInv ==
    /\ TypeOK /\ LoaderInv /\ ClassifierInv /\ ResultsInv /\ ReadyIsWhole
    /\ IsFiniteSet(arrived)

-----------------------------------------------------------------------------
(* Lemmas                                                                     *)

\* The revision classify_revision is at is one of those selected, and so are the
\* ones after it.
LEMMA HeadOrTail ==
    ASSUME NEW s \in Seq(Revision), s # <<>>
    PROVE  /\ Head(s) \in Revision /\ Tail(s) \in Seq(Revision)
           /\ \A i \in DOMAIN s : s[i] = Head(s) \/ \E j \in DOMAIN Tail(s) : Tail(s)[j] = s[i]
<1>1. /\ Head(s) \in Revision /\ Tail(s) \in Seq(Revision)
      /\ Len(s) \in Nat \ {0} /\ DOMAIN s = 1 .. Len(s) /\ Head(s) = s[1]
      /\ Len(Tail(s)) = Len(s) - 1 /\ DOMAIN Tail(s) = 1 .. Len(Tail(s))
      /\ \A i \in 1 .. Len(Tail(s)) : Tail(s)[i] = s[i + 1]
  OBVIOUS
<1>2. ASSUME NEW i \in DOMAIN s, i # 1 PROVE \E j \in DOMAIN Tail(s) : Tail(s)[j] = s[i]
  <2>1. i - 1 \in 1 .. Len(Tail(s)) /\ (i - 1) + 1 = i
    BY <1>1, <1>2
  <2>2. Tail(s)[i - 1] = s[i]
    BY <1>1, <2>1
  <2>3. QED
    BY <1>1, <2>1, <2>2
<1>3. QED
  BY <1>1, <1>2

\* A selection is a sequence of what it was taken from.
LEMMA SelectionType ==
    ASSUME NEW S \in SUBSET Revision, IsFiniteSet(S), NEW q \in Oldest(S)
    PROVE  q \in Seq(Revision) /\ \A i \in DOMAIN q : q[i] \in S
<1>1. Cardinality(S) \in Nat
  BY FS_CardinalityType
<1>2. PICK n \in Nat : q \in [1 .. n -> S]
  BY <1>1, TectonicAssumption DEF Oldest
<1>3. q \in [1 .. n -> Revision]
  BY <1>2
<1>4. QED
  BY <1>2, <1>3, SeqDef

\* The position of an asset names an asset type.
LEMMA AssetType ==
    ASSUME NEW rel \in Release, NEW i \in DOMAIN Assets[rel]
    PROVE  Assets[rel][i] \in STRING
  BY TectonicAssumption

\* A release has at least one asset, and its assets are numbered from one.
LEMMA Indices ==
    ASSUME NEW rel \in Release
    PROVE  /\ Len(Assets[rel]) \in Nat \ {0}
           /\ DOMAIN Assets[rel] = 1 .. Len(Assets[rel])
  BY TectonicAssumption

\* The invariant holds before the first command.
LEMMA InitInv == Init => IInv
<1> SUFFICES ASSUME Init PROVE IInv
  OBVIOUS
<1>1. TypeOK
  BY DEF Init, TypeOK, Stopped
<1>2. LoaderInv /\ ClassifierInv
  BY DEF Init, LoaderInv, LoaderOK, ClassifierInv, ClassifierOK, Command
<1>3. ResultsInv /\ ReadyIsWhole /\ IsFiniteSet(arrived)
  BY FS_EmptySet DEF Init, ResultsInv, ReadyIsWhole, RowsOf
<1>4. QED
  BY <1>1, <1>2, <1>3 DEF IInv

-----------------------------------------------------------------------------
(* Every step keeps the types                                                 *)

\* Going to the next asset, or to the rows after the last.
LEMMA ObtainedType ==
    ASSUME TypeOK, NEW p \in Loader, Obtained(p)
    PROVE  /\ step' \in [Command -> {"new", "ensure", "obtain", "download", "check", "insert",
                                     "pick", "select", "look", "write"} \cup Stopped]
           /\ next' \in [Loader -> Nat]
<1>1. /\ next \in [Loader -> Nat] /\ p \in Command
      /\ step \in [Command -> {"new", "ensure", "obtain", "download", "check", "insert",
                               "pick", "select", "look", "write"} \cup Stopped]
  BY DEF TypeOK, Command
<1>2. CASE next[p] = Len(Assets[target[p]])
  BY <1>1, <1>2 DEF Obtained, GoTo
<1>3. CASE next[p] # Len(Assets[target[p]])
  BY <1>1, <1>3 DEF Obtained, GoTo
<1>4. QED
  BY <1>2, <1>3

\* The steps of a load command keep the types.
LEMMA LoaderTypes ==
    ASSUME IInv, NEW p \in Loader,
           LoaderStep(p) \/ \E rel \in Release : Start(p, rel)
    PROVE  TypeOK'
<1> USE DEF IInv, TypeOK, Command, Stopped, GoTo, dbVars, loaderVars, classifierVars
<1>1. ASSUME NEW rel \in Release, Start(p, rel) PROVE TypeOK'
  <2>1. (CASE release[rel] = "absent" -> "ensure" [] release[rel] = "building" -> "obtain"
           [] release[rel] = "ready" -> "done") \in {"ensure", "obtain", "done"}
    OBVIOUS
  <2>2. QED
    BY <1>1, <2>1 DEF Start
<1>2. CASE CreateRelease(p)
  BY <1>2 DEF CreateRelease, Raise
<1>3. CASE Reuse(p)
  BY <1>3, ObtainedType DEF Reuse
<1>4. ASSUME step[p] \in {"obtain", "download"}
      PROVE  target[p] \in Release /\ Wanted(p) \in STRING
  BY <1>4, AssetType DEF LoaderInv, LoaderOK, Wanted
<1>5. CASE StartRun(p)
  <2>1. Wanted(p) \in STRING
    BY <1>4, <1>5 DEF StartRun
  <2>2. QED
    BY <1>5, <2>1 DEF StartRun
<1>6. ASSUME NEW e \in {"succeeded", "failed"}, step[p] = "download", RunEnds(p, e)
      PROVE  runs' \in [Loader -> SUBSET [asset : STRING, status : {"running", "succeeded", "failed"}]]
  <2>1. Wanted(p) \in STRING
    BY <1>4, <1>6
  <2>2. QED
    BY <1>6, <2>1 DEF RunEnds
<1>7. CASE Record(p)
  <2>1. <<target[p], Wanted(p)>> \in Release \X STRING
    BY <1>4, <1>7 DEF Record
  <2>2. asset' \subseteq Release \X STRING
    BY <1>7, <2>1 DEF Record
  <2>3. QED
    BY <1>6, <1>7, <2>2, ObtainedType DEF Record
<1>8. CASE RunFails(p)
  BY <1>6, <1>8 DEF RunFails
<1>9. CASE CheckEmpty(p)
  BY <1>9 DEF CheckEmpty, Raise
<1>10. CASE Insert(p)
  <2>1. PICK b \in Batch : tx' = [tx EXCEPT ![p] = @ \cup {b}]
    BY <1>10 DEF Insert
  <2>2. tx' \in [Loader -> SUBSET Batch]
    BY <2>1
  <2>3. QED
    BY <1>10, <2>2 DEF Insert
<1>11. CASE InsertConflict(p)
  BY <1>11 DEF InsertConflict, Raise
<1>12. CASE CommitReady(p)
  <2>1. target[p] \in Release
    BY <1>12 DEF LoaderInv, LoaderOK, CommitReady
  <2>2. rows' \subseteq Release \X Batch
    BY <1>12, <2>1 DEF CommitReady
  <2>3. QED
    BY <1>12, <2>2 DEF CommitReady
<1>13. QED
  BY <1>1, <1>2, <1>3, <1>5, <1>7, <1>8, <1>9, <1>10, <1>11, <1>12 DEF LoaderStep

\* The steps of a classification keep the types.
LEMMA ClassifierTypes ==
    ASSUME IInv, NEW c \in Classifier,
           ClassifierStep(c) \/ \E m \in Method : PickSlab(c, m)
    PROVE  TypeOK'
<1> USE DEF IInv, TypeOK, Command, Stopped, GoTo, dbVars, loaderVars, classifierVars
<1>1. ASSUME NEW m \in Method, PickSlab(c, m) PROVE TypeOK'
  BY <1>1 DEF PickSlab
<1>2. CASE PickFault(c)
  BY <1>2 DEF PickFault
<1>3. CASE Refuse(c) \/ WriteConflict(c)
  BY <1>3 DEF Refuse, WriteConflict, ClassifierRaises
<1>4. CASE Select(c)
  <2>1. Pending(c) \in SUBSET Revision /\ IsFiniteSet(Pending(c))
    BY FS_Subset DEF Pending
  <2>2. \A q \in Oldest(Pending(c)) : q \in Seq(Revision)
    BY <2>1, SelectionType
  <2>3. QED
    BY <1>4, <2>2 DEF Select
<1>5. CASE Look(c)
  <2>1. Tail(todo[c]) \in Seq(Revision)
    BY <1>5, HeadOrTail DEF Look
  <2>2. QED
    BY <1>5, <2>1 DEF Look
<1>6. CASE Write(c)
  <2>1. Head(todo[c]) \in Revision /\ Tail(todo[c]) \in Seq(Revision)
    BY <1>6, HeadOrTail DEF ClassifierInv, ClassifierOK, Write
  <2>2. Result(c, Head(todo[c])) \in Key
    BY <1>6, <2>1 DEF ClassifierInv, ClassifierOK, Write, Result, Key
  <2>3. QED
    BY <1>6, <2>1, <2>2 DEF Write
<1>7. CASE ReportCount(c)
  BY <1>7 DEF ReportCount
<1>8. QED
  BY <1>1, <1>2, <1>3, <1>4, <1>5, <1>6, <1>7 DEF ClassifierStep

\* Every step keeps the types.
LEMMA TypeStep == IInv /\ [Next]_vars => TypeOK'
<1> SUFFICES ASSUME IInv, [Next]_vars PROVE TypeOK'
  OBVIOUS
<1> USE DEF IInv, TypeOK, dbVars, loaderVars, classifierVars
<1>1. ASSUME NEW v \in Revision, Arrive(v) PROVE TypeOK'
  BY <1>1 DEF Arrive
<1>2. ASSUME NEW c \in Command, Error(c) PROVE TypeOK'
  BY <1>2 DEF Error, Raise, ClassifierRaises, GoTo, Command, Stopped
<1>3. ASSUME NEW c \in Command, Crash(c) PROVE TypeOK'
  BY <1>3 DEF Crash, GoTo, Command, Stopped
<1>4. CASE UNCHANGED vars
  BY <1>4 DEF vars
<1>5. QED
  BY <1>1, <1>2, <1>3, <1>4, LoaderTypes, ClassifierTypes DEF Next

-----------------------------------------------------------------------------
(* What other commands do to a command: nothing but add                       *)

\* Assets are only added, and a release that is ready stays so.
LEMMA Grows ==
    ASSUME IInv, [Next]_vars
    PROVE  /\ asset \subseteq asset'
           /\ \A rel \in Release : release[rel] = "ready" => release'[rel] = "ready"
<1> USE DEF dbVars, loaderVars, classifierVars
<1>1. ASSUME NEW p \in Loader, LoaderStep(p) \/ \E rel \in Release : Start(p, rel)
      PROVE  /\ asset \subseteq asset'
             /\ \A rel \in Release : release[rel] = "ready" => release'[rel] = "ready"
  <2>1. CASE CreateRelease(p)
    BY <2>1 DEF CreateRelease, Raise, IInv, TypeOK
  <2>2. CASE CommitReady(p)
    BY <2>2 DEF CommitReady, IInv, TypeOK
  <2>3. CASE Record(p)
    BY <2>3 DEF Record
  <2>4. CASE Reuse(p) \/ StartRun(p) \/ RunFails(p) \/ CheckEmpty(p) \/ Insert(p)
                \/ InsertConflict(p) \/ \E rel \in Release : Start(p, rel)
    BY <2>4 DEF Reuse, StartRun, RunFails, CheckEmpty, Insert, InsertConflict, Raise, Start
  <2>5. QED
    BY <1>1, <2>1, <2>2, <2>3, <2>4 DEF LoaderStep
<1>2. ASSUME NEW c \in Classifier, ClassifierStep(c) \/ \E m \in Method : PickSlab(c, m)
      PROVE  UNCHANGED <<asset, release>>
  BY <1>2 DEF ClassifierStep, PickSlab, PickFault, Refuse, Select, Look, Write, WriteConflict,
              ReportCount, ClassifierRaises
<1>3. CASE \E v \in Revision : Arrive(v)
  BY <1>3 DEF Arrive
<1>4. ASSUME NEW c \in Command, Error(c) \/ Crash(c) PROVE UNCHANGED <<asset, release>>
  BY <1>4 DEF Error, Crash, Raise, ClassifierRaises
<1>5. CASE UNCHANGED vars
  BY <1>5 DEF vars
<1>6. QED
  BY <1>1, <1>2, <1>3, <1>4, <1>5 DEF Next

\* A command that did not move still satisfies its part of the invariant.
LEMMA LoaderFrame ==
    ASSUME IInv, asset \subseteq asset', NEW p \in Loader,
           step'[p] = step[p], target'[p] = target[p], next'[p] = next[p]
    PROVE  LoaderOK(p)'
<1>1. LoaderOK(p)
  BY DEF IInv, LoaderInv
<1>2. QED
  BY <1>1 DEF LoaderOK

\* A classification that is left alone keeps its part of the invariant as long as
\* ready releases stay ready.
LEMMA ClassifierFrame ==
    ASSUME IInv, \A rel \in Release : release[rel] = "ready" => release'[rel] = "ready",
           NEW c \in Classifier, step'[c] = step[c], slab'[c] = slab[c], fault'[c] = fault[c],
           method'[c] = method[c], todo'[c] = todo[c]
    PROVE  ClassifierOK(c)'
<1>1. ClassifierOK(c)
  BY DEF IInv, ClassifierInv
<1>2. QED
  BY <1>1 DEF ClassifierOK, Release

-----------------------------------------------------------------------------
(* Every step keeps the parts of the invariant                                *)

\* The asset a command is at is recorded: it goes to the next one, or to the
\* rows with all of them recorded.
LEMMA ObtainedOK ==
    ASSUME IInv, NEW p \in Loader, step[p] \in {"obtain", "download"}, Obtained(p),
           asset \subseteq asset', <<target[p], Wanted(p)>> \in asset', UNCHANGED target
    PROVE  LoaderOK(p)'
<1>1. /\ target[p] \in Release
      /\ next[p] \in DOMAIN Assets[target[p]]
      /\ \A i \in 1 .. next[p] - 1 : <<target[p], Assets[target[p]][i]>> \in asset
  BY DEF IInv, LoaderInv, LoaderOK
<1>2. next[p] \in 1 .. Len(Assets[target[p]]) /\ Len(Assets[target[p]]) \in Nat
  BY <1>1, Indices
<1>3. \A i \in 1 .. next[p] : <<target[p], Assets[target[p]][i]>> \in asset'
  BY <1>1, <1>2 DEF Wanted
<1>4. CASE next[p] = Len(Assets[target[p]])
  <2>1. step'[p] = "check"
    BY <1>4 DEF Obtained, GoTo, IInv, TypeOK, Command
  <2>2. QED
    BY <1>1, <1>3, <1>4, <2>1, Indices DEF LoaderOK
<1>5. CASE next[p] # Len(Assets[target[p]])
  <2>1. step'[p] = "obtain" /\ next'[p] = next[p] + 1
    BY <1>5 DEF Obtained, GoTo, IInv, TypeOK, Command
  <2>2. next'[p] \in DOMAIN Assets[target[p]]
    BY <1>1, <1>2, <1>5, <2>1, Indices
  <2>3. \A i \in 1 .. next'[p] - 1 : <<target[p], Assets[target[p]][i]>> \in asset'
    BY <1>2, <1>3, <2>1
  <2>4. QED
    BY <1>1, <2>1, <2>2, <2>3 DEF LoaderOK
<1>6. QED
  BY <1>4, <1>5

\* A command's own step keeps its part.
LEMMA LoaderOwn ==
    ASSUME IInv, asset \subseteq asset', NEW p \in Loader,
           LoaderStep(p) \/ \E rel \in Release : Start(p, rel)
    PROVE  LoaderOK(p)'
<1>0. LoaderOK(p) /\ TypeOK
  BY DEF IInv, LoaderInv
<1> USE DEF GoTo, TypeOK, Command, dbVars, loaderVars, classifierVars
<1>1. ASSUME NEW rel \in Release, Start(p, rel) PROVE LoaderOK(p)'
  <2>1. /\ target'[p] = rel /\ next'[p] = 1
        /\ step'[p] \in {"ensure", "obtain", "done"}
    BY <1>0, <1>1 DEF Start, LoaderOK
  <2>2. 1 \in DOMAIN Assets[rel]
    BY Indices
  <2>3. QED
    BY <2>1, <2>2 DEF LoaderOK
<1>2. CASE CreateRelease(p)
  <2>1. target'[p] = target[p] /\ next'[p] = 1 /\ target[p] \in Release
        /\ step'[p] \in {"obtain", "raised"}
    BY <1>0, <1>2 DEF CreateRelease, Raise, LoaderOK
  <2>2. 1 \in DOMAIN Assets[target[p]]
    BY <2>1, Indices
  <2>3. QED
    BY <2>1, <2>2 DEF LoaderOK
<1>3. CASE Reuse(p)
  BY <1>3, ObtainedOK DEF Reuse, Recorded
<1>4. CASE Record(p)
  BY <1>4, ObtainedOK DEF Record
<1>5. CASE StartRun(p)
  BY <1>0, <1>5 DEF StartRun, LoaderOK
<1>6. CASE RunFails(p) \/ InsertConflict(p)
  BY <1>0, <1>6 DEF RunFails, InsertConflict, Raise, LoaderOK
<1>7. CASE CheckEmpty(p)
  BY <1>0, <1>7 DEF CheckEmpty, Raise, LoaderOK
<1>8. CASE Insert(p)
  BY <1>0, <1>8 DEF Insert, LoaderOK
<1>9. CASE CommitReady(p)
  BY <1>0, <1>9 DEF CommitReady, LoaderOK
<1>10. QED
  BY <1>1, <1>2, <1>3, <1>4, <1>5, <1>6, <1>7, <1>8, <1>9 DEF LoaderStep

\* The steps of a classification keep its own part of the invariant.
LEMMA ClassifierOwn ==
    ASSUME IInv, NEW c \in Classifier,
           ClassifierStep(c) \/ \E m \in Method : PickSlab(c, m)
    PROVE  ClassifierOK(c)'
<1>0. ClassifierOK(c) /\ TypeOK
  BY DEF IInv, ClassifierInv
<1> USE DEF GoTo, TypeOK, Command, dbVars, loaderVars, classifierVars
<1>1. ASSUME NEW m \in Method, PickSlab(c, m) PROVE ClassifierOK(c)'
  BY <1>0, <1>1 DEF PickSlab, Ready, ClassifierOK
<1>2. CASE PickFault(c)
  BY <1>0, <1>2 DEF PickFault, Ready, ClassifierOK
<1>3. CASE Refuse(c) \/ WriteConflict(c)
  BY <1>0, <1>3 DEF Refuse, WriteConflict, ClassifierRaises, ClassifierOK
<1>4. CASE Select(c)
  BY <1>0, <1>4 DEF Select, ClassifierOK
<1>5. CASE Look(c)
  BY <1>0, <1>5 DEF Look, ClassifierOK
<1>6. CASE Write(c)
  BY <1>0, <1>6 DEF Write, ClassifierOK
<1>7. CASE ReportCount(c)
  BY <1>0, <1>7 DEF ReportCount, ClassifierOK
<1>8. QED
  BY <1>1, <1>2, <1>3, <1>4, <1>5, <1>6, <1>7 DEF ClassifierStep

\* A step is the step of one command; the others do not move.
LEMMA LoaderInvStep == IInv /\ [Next]_vars => LoaderInv'
<1> SUFFICES ASSUME IInv, [Next]_vars, NEW p \in Loader PROVE LoaderOK(p)'
  BY DEF LoaderInv
<1>0. asset \subseteq asset'
  BY Grows
<1>1. CASE step'[p] = step[p] /\ target'[p] = target[p] /\ next'[p] = next[p]
  BY <1>0, <1>1, LoaderFrame
<1>2. CASE step'[p] \in Stopped
  BY <1>2 DEF LoaderOK, Stopped
<1> USE DEF IInv, TypeOK, GoTo, Command, dbVars, loaderVars, classifierVars
<1>3. ASSUME NEW o \in Loader, LoaderStep(o) \/ \E rel \in Release : Start(o, rel)
      PROVE  LoaderOK(p)'
  <2>1. CASE o = p
    BY <1>0, <1>3, <2>1, LoaderOwn
  <2>2. CASE o # p
    BY <1>1, <1>3, <2>2 DEF LoaderStep, Start, CreateRelease, Reuse, Obtained, StartRun, Record,
          RunFails, CheckEmpty, Insert, InsertConflict, CommitReady, Raise
  <2>3. QED
    BY <2>1, <2>2
<1>4. ASSUME NEW c \in Classifier, ClassifierStep(c) \/ \E m \in Method : PickSlab(c, m)
      PROVE  LoaderOK(p)'
  <2>1. c # p
    BY TectonicAssumption
  <2>2. QED
    BY <1>1, <1>4, <2>1 DEF ClassifierStep, PickSlab, PickFault, Refuse, Select, Look, Write,
          WriteConflict, ReportCount, ClassifierRaises
<1>5. ASSUME NEW c \in Command, Error(c) \/ Crash(c) PROVE LoaderOK(p)'
  <2>1. \/ step'[p] = step[p] /\ target'[p] = target[p] /\ next'[p] = next[p]
        \/ step'[p] \in {"raised", "crashed"}
    BY <1>5 DEF Error, Crash, Raise, ClassifierRaises
  <2>2. QED
    BY <1>1, <1>2, <2>1 DEF Stopped
<1>6. CASE (\E v \in Revision : Arrive(v)) \/ UNCHANGED vars
  BY <1>1, <1>6 DEF Arrive, vars
<1>7. QED
  BY <1>3, <1>4, <1>5, <1>6 DEF Next

\* Every step keeps what the classifications rely on.
LEMMA ClassifierInvStep == IInv /\ [Next]_vars => ClassifierInv'
<1> SUFFICES ASSUME IInv, [Next]_vars, NEW c \in Classifier PROVE ClassifierOK(c)'
  BY DEF ClassifierInv
<1>0. \A rel \in Release : release[rel] = "ready" => release'[rel] = "ready"
  BY Grows
<1> DEFINE Still == /\ step'[c] = step[c] /\ slab'[c] = slab[c] /\ fault'[c] = fault[c]
                    /\ method'[c] = method[c] /\ todo'[c] = todo[c]
<1>1. CASE Still
  BY <1>0, <1>1, ClassifierFrame
<1>2. CASE step'[c] \in Stopped
  BY <1>2 DEF ClassifierOK, Stopped
<1> USE DEF IInv, TypeOK, GoTo, Command, dbVars, loaderVars, classifierVars
<1>3. ASSUME NEW p \in Loader, LoaderStep(p) \/ \E rel \in Release : Start(p, rel)
      PROVE  ClassifierOK(c)'
  <2>1. c # p
    BY TectonicAssumption
  <2>2. Still
    BY <1>3, <2>1 DEF LoaderStep, Start, CreateRelease, Reuse, Obtained, StartRun, Record,
          RunFails, CheckEmpty, Insert, InsertConflict, CommitReady, Raise
  <2>3. QED
    BY <1>1, <2>2
<1>4. ASSUME NEW d \in Classifier, ClassifierStep(d) \/ \E m \in Method : PickSlab(d, m)
      PROVE  ClassifierOK(c)'
  <2>1. CASE d = c
    BY <1>4, <2>1, ClassifierOwn
  <2>2. CASE d # c
    BY <1>1, <1>4, <2>2 DEF ClassifierStep, PickSlab, PickFault, Refuse, Select, Look, Write,
          WriteConflict, ReportCount, ClassifierRaises
  <2>3. QED
    BY <2>1, <2>2
<1>5. ASSUME NEW d \in Command, Error(d) \/ Crash(d) PROVE ClassifierOK(c)'
  <2>1. Still \/ step'[c] \in {"raised", "crashed"}
    BY <1>5 DEF Error, Crash, Raise, ClassifierRaises
  <2>2. QED
    BY <1>1, <1>2, <2>1 DEF Stopped
<1>6. CASE (\E v \in Revision : Arrive(v)) \/ UNCHANGED vars
  BY <1>1, <1>6 DEF Arrive, vars
<1>7. QED
  BY <1>3, <1>4, <1>5, <1>6 DEF Next

\* A classification names the releases its command works with.
LEMMA NewResults ==
    ASSUME IInv, [Next]_vars, NEW k \in results', k \notin results
    PROVE  \E c \in Classifier : k.slab = slab[c] /\ k.fault = fault[c] /\ step[c] = "write"
<1> USE DEF dbVars, loaderVars, classifierVars
<1>1. ASSUME NEW p \in Loader, LoaderStep(p) \/ \E rel \in Release : Start(p, rel)
      PROVE  UNCHANGED results
  BY <1>1 DEF LoaderStep, Start, CreateRelease, Reuse, StartRun, Record,
       RunFails, CheckEmpty, Insert, InsertConflict, CommitReady, Raise
<1>2. ASSUME NEW c \in Classifier, ClassifierStep(c) \/ \E m \in Method : PickSlab(c, m)
      PROVE  k.slab = slab[c] /\ k.fault = fault[c] /\ step[c] = "write"
  BY <1>2 DEF ClassifierStep, PickSlab, PickFault, Refuse, Select, Look, Write, Result,
       WriteConflict, ReportCount, ClassifierRaises
<1>3. ASSUME NEW c \in Command, Error(c) \/ Crash(c) PROVE UNCHANGED results
  BY <1>3 DEF Error, Crash, Raise, ClassifierRaises
<1>4. CASE (\E v \in Revision : Arrive(v)) \/ UNCHANGED vars
  BY <1>4 DEF Arrive, vars
<1>5. QED
  BY <1>1, <1>2, <1>3, <1>4 DEF Next

\* Results, old and new, rest on releases that were ready before the step.
LEMMA ResultsReady ==
    ASSUME IInv, [Next]_vars, NEW k \in results'
    PROVE  /\ k.slab \in Release /\ k.fault \in Release
           /\ release[k.slab] = "ready" /\ release[k.fault] = "ready"
<1>1. CASE k \in results
  BY <1>1 DEF IInv, TypeOK, Key, ResultsInv, Release
<1>2. CASE k \notin results
  BY <1>2, NewResults DEF IInv, ClassifierInv, ClassifierOK, Release
<1>3. QED
  BY <1>1, <1>2

\* Every step keeps the basis of every recorded classification ready.
LEMMA ResultsInvStep == IInv /\ [Next]_vars => ResultsInv'
  BY Grows, ResultsReady DEF ResultsInv

\* Rows and statuses change in two actions only.
LEMMA RowsChange ==
    ASSUME [Next]_vars
    PROVE  \/ UNCHANGED <<release, rows>>
           \/ \E p \in Loader : CommitReady(p)
           \/ \E p \in Loader : CreateRelease(p) /\ UNCHANGED rows
<1> USE DEF dbVars, loaderVars, classifierVars
<1>1. ASSUME NEW p \in Loader, LoaderStep(p) \/ \E rel \in Release : Start(p, rel)
      PROVE  \/ UNCHANGED <<release, rows>>
             \/ CommitReady(p)
             \/ CreateRelease(p) /\ UNCHANGED rows
  BY <1>1 DEF LoaderStep, Start, CreateRelease, Reuse, StartRun, Record,
       RunFails, CheckEmpty, Insert, InsertConflict, Raise
<1>2. ASSUME NEW c \in Classifier, ClassifierStep(c) \/ \E m \in Method : PickSlab(c, m)
      PROVE  UNCHANGED <<release, rows>>
  BY <1>2 DEF ClassifierStep, PickSlab, PickFault, Refuse, Select, Look, Write,
       WriteConflict, ReportCount, ClassifierRaises
<1>3. ASSUME NEW c \in Command, Error(c) \/ Crash(c) PROVE UNCHANGED <<release, rows>>
  BY <1>3 DEF Error, Crash, Raise, ClassifierRaises
<1>4. CASE (\E v \in Revision : Arrive(v)) \/ UNCHANGED vars
  BY <1>4 DEF Arrive, vars
<1>5. QED
  BY <1>1, <1>2, <1>3, <1>4 DEF Next

\* The one commit of load_nodes: all rows and the status; the others keep theirs.
LEMMA CommitRows ==
    ASSUME IInv, NEW p \in Loader, CommitReady(p), NEW rel \in Release
    PROVE  /\ target[p] \in Release
           /\ rel = target[p] => release'[rel] = "ready" /\ RowsOf(rel)' = Batch
           /\ rel # target[p] => release'[rel] = release[rel] /\ RowsOf(rel)' = RowsOf(rel)
<1>1. target[p] \in Release /\ tx[p] = Batch
  BY DEF CommitReady, IInv, LoaderInv, LoaderOK
<1>2. rows' = rows \cup {<<target[p], b>> : b \in Batch}
      /\ release' = [release EXCEPT ![target[p]] = "ready"]
  BY <1>1 DEF CommitReady
<1>3. ASSUME rel = target[p] PROVE release'[rel] = "ready" /\ RowsOf(rel)' = Batch
  BY <1>1, <1>2, <1>3 DEF RowsOf, IInv, TypeOK
<1>4. ASSUME rel # target[p] PROVE release'[rel] = release[rel] /\ RowsOf(rel)' = RowsOf(rel)
  BY <1>1, <1>2, <1>4 DEF RowsOf, IInv, TypeOK
<1>5. QED
  BY <1>1, <1>3, <1>4

\* Every step keeps ready releases whole.
LEMMA WholeStep == IInv /\ [Next]_vars => ReadyIsWhole'
<1> SUFFICES ASSUME IInv, [Next]_vars, NEW rel \in Release
             PROVE  IF release'[rel] = "ready"
                      THEN /\ RowsOf(rel)' = Batch
                           /\ \A i \in DOMAIN Assets[rel] : <<rel, Assets[rel][i]>> \in asset'
                      ELSE RowsOf(rel)' = {}
  BY DEF ReadyIsWhole
<1>0. asset \subseteq asset'
  BY Grows
<1>1. IF release[rel] = "ready"
        THEN RowsOf(rel) = Batch /\ \A i \in DOMAIN Assets[rel] : <<rel, Assets[rel][i]>> \in asset
        ELSE RowsOf(rel) = {}
  BY DEF IInv, ReadyIsWhole
<1>2. CASE UNCHANGED <<release, rows>>
  BY <1>0, <1>1, <1>2 DEF RowsOf
<1>3. ASSUME NEW p \in Loader, CommitReady(p)
      PROVE  IF release'[rel] = "ready"
               THEN /\ RowsOf(rel)' = Batch
                    /\ \A i \in DOMAIN Assets[rel] : <<rel, Assets[rel][i]>> \in asset'
               ELSE RowsOf(rel)' = {}
  <2>1. CASE rel = target[p]
    <3>1. \A i \in DOMAIN Assets[rel] : <<rel, Assets[rel][i]>> \in asset
      BY <1>3, <2>1 DEF CommitReady, IInv, LoaderInv, LoaderOK
    <3>2. QED
      BY <1>0, <1>3, <2>1, <3>1, CommitRows
  <2>2. CASE rel # target[p]
    BY <1>0, <1>1, <1>3, <2>2, CommitRows
  <2>3. QED
    BY <2>1, <2>2
<1>4. ASSUME NEW p \in Loader, CreateRelease(p), UNCHANGED rows
      PROVE  release'[rel] = "ready" <=> release[rel] = "ready"
  BY <1>4 DEF CreateRelease, Raise, dbVars, IInv, TypeOK
<1>5. CASE \E p \in Loader : CreateRelease(p) /\ UNCHANGED rows
  BY <1>0, <1>1, <1>4, <1>5 DEF RowsOf
<1>6. QED
  BY <1>2, <1>3, <1>5, RowsChange

\* The rows of a release that is ready do not change.
LEMMA ReadyRowsStay ==
    ASSUME IInv, [Next]_vars, NEW rel \in Release, release[rel] = "ready"
    PROVE  RowsOf(rel)' = RowsOf(rel)
<1>1. RowsOf(rel) = Batch
  BY DEF IInv, ReadyIsWhole
<1>2. CASE \E p \in Loader : CommitReady(p)
  BY <1>1, <1>2, CommitRows
<1>3. CASE UNCHANGED rows
  BY <1>3 DEF RowsOf
<1>4. QED
  BY <1>2, <1>3, RowsChange

\* The revisions that have arrived are finitely many: artifact by artifact.
LEMMA ArrivedStep == IInv /\ [Next]_vars => IsFiniteSet(arrived)'
<1> SUFFICES ASSUME IInv, [Next]_vars PROVE IsFiniteSet(arrived')
  OBVIOUS
<1>1. ASSUME NEW v \in Revision, Arrive(v) PROVE IsFiniteSet(arrived')
  BY <1>1, TectonicAssumption, FS_Union DEF Arrive, IInv
<1>2. CASE UNCHANGED arrived
  BY <1>2 DEF IInv
<1>3. UNCHANGED arrived \/ \E v \in Revision : Arrive(v)
  BY DEF Next, vars, dbVars, LoaderStep, Start, CreateRelease, Reuse, StartRun, Record, RunFails,
        CheckEmpty, Insert, InsertConflict, CommitReady, Raise, ClassifierStep, PickSlab, PickFault,
        Refuse, Select, Look, Write, WriteConflict, ReportCount, ClassifierRaises, Error, Crash
<1>4. QED
  BY <1>1, <1>2, <1>3

\* Every step keeps the invariant.
LEMMA StepInv == IInv /\ [Next]_vars => IInv'
  BY TypeStep, LoaderInvStep, ClassifierInvStep, ResultsInvStep, WholeStep, ArrivedStep DEF IInv

\* The inductive invariant holds in every reachable state; the theorems on releases
\* are read off it.
THEOREM Invariance == Spec => []IInv
  BY InitInv, StepInv, PTL DEF Spec

-----------------------------------------------------------------------------
(* The audit trail of acquisition                                             *)

\* A command that has not started has no runs, and every asset is recorded by
\* the one command whose run for it succeeded.
RunsInv ==
    /\ \A p \in Loader : step[p] = "new" => runs[p] = {}
    /\ \A rel \in Release, a \in STRING :
        IF <<rel, a>> \in asset
          THEN \E p \in Loader : Obtainers(rel, a) = {p}
          ELSE Obtainers(rel, a) = {}

\* Steps that complete no run, and record no asset, change nothing of it.
LEMMA SameObtainers ==
    ASSUME RunsInv, UNCHANGED asset,
           \A p \in Loader :
             /\ step'[p] = "new" => step[p] = "new" /\ runs'[p] = runs[p]
             /\ \A a \in STRING : [asset |-> a, status |-> "succeeded"] \in runs'[p]
                               <=> [asset |-> a, status |-> "succeeded"] \in runs[p]
             /\ target'[p] = target[p] \/ runs[p] = {}
    PROVE  RunsInv'
<1>1. \A rel \in Release, a \in STRING : Obtainers(rel, a)' = Obtainers(rel, a)
  BY DEF Obtainers
<1>2. QED
  BY <1>1 DEF RunsInv

\* The steps of a load command keep the audit trail of acquisition.
LEMMA LoaderRuns ==
    ASSUME IInv, RunsInv, NEW p \in Loader,
           LoaderStep(p) \/ \E rel \in Release : Start(p, rel)
    PROVE  RunsInv'
<1> USE DEF IInv, TypeOK, GoTo, Command, dbVars, loaderVars, classifierVars
<1>1. ASSUME NEW rel \in Release, Start(p, rel) PROVE RunsInv'
  <2>1. runs[p] = {} /\ step'[p] # "new"
    BY <1>1 DEF Start, RunsInv
  <2>2. QED
    BY <1>1, <2>1, SameObtainers DEF Start
<1>2. CASE CreateRelease(p) \/ Reuse(p) \/ CheckEmpty(p) \/ Insert(p) \/ InsertConflict(p) \/ CommitReady(p)
  <2>1. UNCHANGED <<asset, runs, target>> /\ step'[p] # "new"
        /\ \A o \in Loader : o # p => step'[o] = step[o]
    BY <1>2 DEF CreateRelease, Reuse, Obtained, CheckEmpty, Insert, InsertConflict, CommitReady, Raise
  <2>2. QED
    BY <2>1, SameObtainers
<1>3. CASE StartRun(p) \/ RunFails(p)
  <2>1. UNCHANGED <<asset, target>> /\ step'[p] # "new"
        /\ \A o \in Loader : o # p => step'[o] = step[o] /\ runs'[o] = runs[o]
    BY <1>3 DEF StartRun, RunFails, RunEnds
  <2>2. \A a \in STRING : [asset |-> a, status |-> "succeeded"] \in runs'[p]
                       <=> [asset |-> a, status |-> "succeeded"] \in runs[p]
    BY <1>3 DEF StartRun, RunFails, RunEnds
  <2>3. QED
    BY <2>1, <2>2, SameObtainers
<1>4. CASE Record(p)
  <2> DEFINE done(a) == [asset |-> a, status |-> "succeeded"]
  <2>1. /\ UNCHANGED target /\ step'[p] # "new"
        /\ asset' = asset \cup {<<target[p], Wanted(p)>>} /\ <<target[p], Wanted(p)>> \notin asset
        /\ \A o \in Loader : o # p => step'[o] = step[o] /\ runs'[o] = runs[o]
    BY <1>4 DEF Record, Recorded, Obtained, RunEnds
  <2>2. target[p] \in Release /\ Wanted(p) \in STRING
    BY <1>4, AssetType DEF Record, LoaderInv, LoaderOK, Wanted
  <2>3. \A a \in STRING : done(a) \in runs'[p] <=> a = Wanted(p) \/ done(a) \in runs[p]
    BY <1>4, <2>2 DEF Record, RunEnds
  <2>4. ASSUME NEW rel \in Release, NEW a \in STRING
        PROVE  IF <<rel, a>> \in asset'
                 THEN \E o \in Loader : Obtainers(rel, a)' = {o}
                 ELSE Obtainers(rel, a)' = {}
    <3>1. CASE rel = target[p] /\ a = Wanted(p)
      <4>1. Obtainers(rel, a) = {}
        BY <2>1, <2>2, <3>1 DEF RunsInv
      <4>2. Obtainers(rel, a)' = {p}
        BY <2>1, <2>3, <3>1, <4>1 DEF Obtainers
      <4>3. QED
        BY <2>1, <3>1, <4>2
    <3>2. CASE ~(rel = target[p] /\ a = Wanted(p))
      <4>1. Obtainers(rel, a)' = Obtainers(rel, a)
        BY <2>1, <2>3, <3>2 DEF Obtainers
      <4>2. <<rel, a>> \in asset' <=> <<rel, a>> \in asset
        BY <2>1, <3>2
      <4>3. QED
        BY <4>1, <4>2 DEF RunsInv
    <3>3. QED
      BY <3>1, <3>2
  <2>5. \A o \in Loader : step'[o] = "new" => runs'[o] = {}
    BY <2>1 DEF RunsInv
  <2>6. QED
    BY <2>4, <2>5 DEF RunsInv
<1>5. QED
  BY <1>1, <1>2, <1>3, <1>4 DEF LoaderStep

\* Every step keeps the audit trail of acquisition.
LEMMA RunsStep == IInv /\ RunsInv /\ [Next]_vars => RunsInv'
<1> SUFFICES ASSUME IInv, RunsInv, [Next]_vars PROVE RunsInv'
  OBVIOUS
<1> USE DEF dbVars, loaderVars, classifierVars
<1>1. ASSUME NEW c \in Classifier, ClassifierStep(c) \/ \E m \in Method : PickSlab(c, m)
      PROVE  RunsInv'
  <2>1. c \notin Loader /\ UNCHANGED <<asset, runs, target>>
    BY <1>1, TectonicAssumption DEF ClassifierStep, PickSlab, PickFault, Refuse, Select, Look, Write,
          WriteConflict, ReportCount, ClassifierRaises
  <2>2. \A p \in Loader : step'[p] = step[p]
    BY <1>1, <2>1 DEF ClassifierStep, PickSlab, PickFault, Refuse, Select, Look, Write,
          WriteConflict, ReportCount, ClassifierRaises, GoTo, IInv, TypeOK, Command
  <2>3. QED
    BY <2>1, <2>2, SameObtainers
<1>2. ASSUME NEW c \in Command, Error(c) \/ Crash(c) PROVE RunsInv'
  <2>1. /\ UNCHANGED <<asset, runs, target>>
        /\ \A p \in Loader : step'[p] = "new" => step[p] = "new"
    BY <1>2 DEF Error, Crash, Raise, ClassifierRaises, GoTo, IInv, TypeOK, Command, Stopped
  <2>2. QED
    BY <2>1, SameObtainers
<1>3. CASE (\E v \in Revision : Arrive(v)) \/ UNCHANGED vars
  <2>1. UNCHANGED <<asset, runs, target, step>>
    BY <1>3 DEF Arrive, vars
  <2>2. QED
    BY <2>1, SameObtainers
<1>4. QED
  BY <1>1, <1>2, <1>3, LoaderRuns DEF Next

-----------------------------------------------------------------------------
(* Oldest first                                                               *)

\* The revisions as old as v or older that a command saw and has classified, or will.
Selected(c) == {todo[c][i] : i \in DOMAIN todo[c]}
Ahead(c, v) ==
    {w \in seen[c] : Available[w] <= Available[v] /\ (Classified(c, w) \/ w \in Selected(c))}

\* What a command saw when it selected is classified, selected, or left behind Limit
\* others that are.
SelectedOK(c) ==
    step[c] \in {"look", "write", "done"} =>
        /\ step[c] = "done" => todo[c] = <<>>
        /\ IsFiniteSet(seen[c])
        /\ \A v \in seen[c] : Classified(c, v) \/ v \in Selected(c) \/ Cardinality(Ahead(c, v)) >= Limit
OldestInv == \A c \in Classifier : SelectedOK(c)

\* A larger set of revisions has at least as many.
LEMMA MoreAhead ==
    ASSUME NEW S, NEW T, S \subseteq T, IsFiniteSet(T), Cardinality(S) >= Limit
    PROVE  Cardinality(T) >= Limit
<1>1. /\ Cardinality(S) \in Nat /\ Cardinality(T) \in Nat
      /\ Cardinality(S) <= Cardinality(T)
  BY FS_Subset, FS_CardinalityType
<1>2. QED
  BY <1>1, TectonicAssumption

\* A revision that the selection leaves out is behind Limit that it has: a
\* selection with fewer has everything.
LEMMA OldestFill ==
    ASSUME NEW S \in SUBSET Revision, IsFiniteSet(S), NEW q \in Oldest(S),
           NEW v \in S, \A i \in DOMAIN q : q[i] # v
    PROVE  /\ Cardinality({q[i] : i \in DOMAIN q}) >= Limit
           /\ \A i \in DOMAIN q : Available[q[i]] <= Available[v]
<1> DEFINE n == IF Cardinality(S) <= Limit THEN Cardinality(S) ELSE Limit
           T == {q[i] : i \in 1 .. n}
<1>1. Cardinality(S) \in Nat /\ Limit \in Nat /\ n \in Nat
  BY FS_CardinalityType, TectonicAssumption
<1>2. /\ q \in [1 .. n -> S] /\ DOMAIN q = 1 .. n
      /\ \A i, j \in 1 .. n : i < j => q[i] # q[j]
      /\ \A i \in 1 .. n : Available[q[i]] <= Available[v]
  BY DEF Oldest
<1> HIDE DEF n
<1>3. Cardinality(T) = n
  <2>1. \A i, j \in 1 .. n : i # j => q[i] # q[j]
    BY <1>1, <1>2
  <2>2. q \in [1 .. n -> T] /\ \A t \in T : \E i \in 1 .. n : q[i] = t
    BY <1>2
  <2>3. q \in Injection(1 .. n, T) /\ q \in Surjection(1 .. n, T)
    BY <2>1, <2>2 DEF Injection, Surjection, IsInjective
  <2>4. IsFiniteSet(1 .. n) /\ Cardinality(1 .. n) = n
    BY <1>1, FS_Interval
  <2>5. QED
    BY <2>3, <2>4, FS_Surjection
<1>4. Cardinality(S) > Limit
  <2>1. T \subseteq S \ {v}
    BY <1>2
  <2>2. IsFiniteSet(S \ {v}) /\ Cardinality(S \ {v}) = Cardinality(S) - 1
    BY FS_RemoveElement
  <2>3. Cardinality(T) <= Cardinality(S) - 1
    BY <2>1, <2>2, FS_Subset
  <2>4. QED
    BY <1>1, <1>3, <2>3 DEF n
<1>5. n = Limit
  BY <1>1, <1>4 DEF n
<1>6. QED
  BY <1>1, <1>2, <1>3, <1>5

\* Steps that leave a command's selection alone, except for what is classified.
LEMMA SelectionFrame ==
    ASSUME IInv, NEW c \in Classifier, SelectedOK(c), results \subseteq results',
           slab'[c] = slab[c], fault'[c] = fault[c], method'[c] = method[c], seen'[c] = seen[c],
           step'[c] \in {"look", "write", "done"} =>
                 /\ step[c] \in {"look", "write", "done"}
                 /\ \A v \in Selected(c) : v \in Selected(c)' \/ Classified(c, v)'
                 /\ step'[c] = "done" => todo'[c] = <<>>
    PROVE  SelectedOK(c)'
<1> SUFFICES ASSUME step'[c] \in {"look", "write", "done"}, NEW v \in seen'[c]
             PROVE  Classified(c, v)' \/ v \in Selected(c)' \/ Cardinality(Ahead(c, v)') >= Limit
  BY DEF SelectedOK
<1>1. \A w : Classified(c, w) => Classified(c, w)'
  BY DEF Classified, Result
<1>2. CASE Classified(c, v) \/ v \in Selected(c)
  BY <1>1, <1>2
<1>3. CASE Cardinality(Ahead(c, v)) >= Limit
  <2>1. Ahead(c, v) \subseteq Ahead(c, v)'
    BY <1>1 DEF Ahead
  <2>2. IsFiniteSet(Ahead(c, v)')
    <3>1. IsFiniteSet(seen[c]) /\ Ahead(c, v)' \subseteq seen[c]
      BY DEF Ahead, SelectedOK
    <3>2. QED
      BY <3>1, FS_Subset
  <2>3. QED
    BY <1>3, <2>1, <2>2, MoreAhead
<1>4. QED
  BY <1>2, <1>3 DEF SelectedOK

\* The selection itself: what is left out is behind Limit of the selected.
LEMMA SelectOK ==
    ASSUME IInv, NEW c \in Classifier, Select(c)
    PROVE  SelectedOK(c)'
<1> USE DEF IInv, TypeOK, Command
<1>1. /\ step'[c] = "look" /\ seen'[c] = arrived /\ todo'[c] \in Oldest(Pending(c))
      /\ UNCHANGED <<results, slab, fault, method>>
  BY DEF Select, GoTo, dbVars, loaderVars
<1>2. \A v : Classified(c, v)' <=> Classified(c, v)
  BY <1>1 DEF Classified, Result
<1>3. /\ Pending(c) \in SUBSET Revision /\ Pending(c) \subseteq arrived
      /\ IsFiniteSet(Pending(c)) /\ IsFiniteSet(arrived)
  BY FS_Subset DEF Pending
<1>4. Selected(c)' \subseteq Pending(c)
  <2>1. \A i \in DOMAIN todo'[c] : todo'[c][i] \in Pending(c)
    BY <1>1, <1>3, SelectionType
  <2>2. QED
    BY <2>1 DEF Selected
<1>5. ASSUME NEW v \in arrived, ~Classified(c, v), v \notin Selected(c)'
      PROVE  Cardinality(Ahead(c, v)') >= Limit
  <2>1. v \in Pending(c) /\ \A i \in DOMAIN todo'[c] : todo'[c][i] # v
    BY <1>5 DEF Pending, Selected
  <2>2. /\ Cardinality(Selected(c)') >= Limit
        /\ \A w \in Selected(c)' : Available[w] <= Available[v]
    BY <1>1, <1>3, <2>1, OldestFill DEF Selected
  <2>3. Selected(c)' \subseteq Ahead(c, v)' /\ Ahead(c, v)' \subseteq arrived
    BY <1>1, <1>3, <1>4, <2>2 DEF Ahead
  <2>4. IsFiniteSet(Ahead(c, v)')
    BY <1>3, <2>3, FS_Subset
  <2>5. QED
    BY <2>2, <2>3, <2>4, MoreAhead
<1>6. QED
  BY <1>1, <1>2, <1>3, <1>5 DEF SelectedOK

\* A command that goes on to the next revision drops one that has a result.
LEMMA DroppedHead ==
    ASSUME IInv, NEW c \in Classifier, todo[c] # <<>>, todo'[c] = Tail(todo[c]),
           \A v : v = Head(todo[c]) => Classified(c, v)'
    PROVE  \A v \in Selected(c) : v \in Selected(c)' \/ Classified(c, v)'
<1>1. todo[c] \in Seq(Revision)
  BY DEF IInv, TypeOK
<1>2. ASSUME NEW i \in DOMAIN todo[c]
      PROVE  todo[c][i] = Head(todo[c]) \/ todo[c][i] \in Selected(c)'
  <2>1. todo[c][i] = Head(todo[c]) \/ \E j \in DOMAIN Tail(todo[c]) : Tail(todo[c])[j] = todo[c][i]
    BY <1>1, <1>2, HeadOrTail
  <2>2. QED
    BY <2>1 DEF Selected
<1>3. QED
  BY <1>2 DEF Selected

\* A command's own steps keep its part: it drops a revision when it has a result.
LEMMA SelectionOwn ==
    ASSUME IInv, NEW c \in Classifier, SelectedOK(c),
           ClassifierStep(c) \/ \E m \in Method : PickSlab(c, m)
    PROVE  SelectedOK(c)'
<1> USE DEF IInv, TypeOK, Command, GoTo, dbVars, loaderVars, classifierVars
<1>1. CASE (\E m \in Method : PickSlab(c, m)) \/ PickFault(c)
  BY <1>1 DEF PickSlab, PickFault, SelectedOK
<1>2. CASE Refuse(c) \/ WriteConflict(c)
  BY <1>2 DEF Refuse, WriteConflict, ClassifierRaises, SelectedOK
<1>3. CASE Select(c)
  BY <1>3, SelectOK
<1>4. CASE Look(c)
  <2>1. CASE todo'[c] = todo[c]
    <3>1. Selected(c)' = Selected(c)
      BY <2>1 DEF Selected
    <3>2. QED
      BY <1>4, <3>1, SelectionFrame DEF Look
  <2>2. CASE todo'[c] # todo[c]
    <3>1. todo[c] # <<>> /\ todo'[c] = Tail(todo[c]) /\ \A v : v = Head(todo[c]) => Classified(c, v)'
      BY <1>4, <2>2 DEF Look, Classified, Result
    <3>2. \A v \in Selected(c) : v \in Selected(c)' \/ Classified(c, v)'
      BY <3>1, DroppedHead
    <3>3. QED
      BY <1>4, <3>2, SelectionFrame DEF Look
  <2>3. QED
    BY <2>1, <2>2
<1>5. CASE Write(c)
  <2>0. todo[c] # <<>> /\ todo'[c] = Tail(todo[c]) /\ \A v : v = Head(todo[c]) => Classified(c, v)'
    BY <1>5 DEF Write, Classified, Result, ClassifierInv, ClassifierOK
  <2>1. \A v \in Selected(c) : v \in Selected(c)' \/ Classified(c, v)'
    BY <2>0, DroppedHead
  <2>2. QED
    BY <1>5, <2>1, SelectionFrame DEF Write
<1>6. CASE ReportCount(c)
  <2>1. \A v \in Selected(c) : v \in Selected(c)'
    BY <1>6 DEF ReportCount, Selected
  <2>2. QED
    BY <1>6, <2>1, SelectionFrame DEF ReportCount
<1>7. QED
  BY <1>1, <1>2, <1>3, <1>4, <1>5, <1>6 DEF ClassifierStep

\* A command that did not move only sees results being added.
LEMMA SelectionStays ==
    ASSUME IInv, OldestInv, NEW c \in Classifier, results \subseteq results',
           step'[c] = step[c] \/ step'[c] \in {"raised", "crashed"}, slab'[c] = slab[c],
           fault'[c] = fault[c], method'[c] = method[c], seen'[c] = seen[c], todo'[c] = todo[c]
    PROVE  SelectedOK(c)'
<1>1. SelectedOK(c)
  BY DEF OldestInv
<1>2. Selected(c)' = Selected(c)
  BY DEF Selected
<1>3. QED
  BY <1>1, <1>2, SelectionFrame DEF SelectedOK

\* Every step keeps the parts of all commands.
LEMMA OldestStep == IInv /\ OldestInv /\ [Next]_vars => OldestInv'
<1> SUFFICES ASSUME IInv, OldestInv, [Next]_vars PROVE OldestInv'
  OBVIOUS
<1> USE DEF dbVars, loaderVars, classifierVars
<1>1. ASSUME NEW o \in Classifier, ClassifierStep(o) \/ \E m \in Method : PickSlab(o, m)
      PROVE  OldestInv'
  <2>1. /\ results \subseteq results'
        /\ \A c \in Classifier : c # o =>
             /\ step'[c] = step[c] /\ slab'[c] = slab[c] /\ fault'[c] = fault[c]
             /\ method'[c] = method[c] /\ seen'[c] = seen[c] /\ todo'[c] = todo[c]
    BY <1>1 DEF ClassifierStep, PickSlab, PickFault, Refuse, Select, Look, Write,
          WriteConflict, ReportCount, ClassifierRaises, GoTo, IInv, TypeOK, Command
  <2>2. SelectedOK(o)'
    BY <1>1, SelectionOwn DEF OldestInv
  <2>3. QED
    BY <2>1, <2>2, SelectionStays DEF OldestInv
<1>2. ASSUME NEW p \in Loader, LoaderStep(p) \/ \E rel \in Release : Start(p, rel)
      PROVE  OldestInv'
  <2>1. UNCHANGED <<results, classifierVars>>
    BY <1>2 DEF LoaderStep, Start, CreateRelease, Reuse, StartRun, Record, RunFails, CheckEmpty,
          Insert, InsertConflict, CommitReady, Raise
  <2>2. \A c \in Classifier : step'[c] = step[c]
    <3>1. \A c \in Classifier : c # p
      BY TectonicAssumption
    <3>2. CASE LoaderStep(p)
      BY <3>1, <3>2 DEF LoaderStep, CreateRelease, Reuse, StartRun, Record, RunFails, CheckEmpty,
            Insert, InsertConflict, CommitReady, Raise, Obtained, GoTo, IInv, TypeOK, Command
    <3>3. ASSUME NEW rel \in Release, Start(p, rel)
          PROVE  \A c \in Classifier : step'[c] = step[c]
      <4>1. ASSUME NEW s, GoTo(p, s) PROVE \A c \in Classifier : step'[c] = step[c]
        BY <3>1, <4>1 DEF GoTo, IInv, TypeOK, Command
      <4>2. QED
        BY <3>3, <4>1 DEF Start
    <3>4. QED
      BY <1>2, <3>2, <3>3
  <2>3. QED
    BY <2>1, <2>2, SelectionStays DEF OldestInv
<1>3. ASSUME NEW o \in Command, Error(o) \/ Crash(o) PROVE OldestInv'
  <2>1. /\ UNCHANGED <<results, classifierVars>>
        /\ \A c \in Classifier : step'[c] = step[c] \/ step'[c] \in {"raised", "crashed"}
    BY <1>3 DEF Error, Crash, Raise, ClassifierRaises, GoTo, IInv, TypeOK, Command
  <2>2. QED
    BY <2>1, SelectionStays DEF OldestInv
<1>4. CASE (\E v \in Revision : Arrive(v)) \/ UNCHANGED vars
  <2>1. UNCHANGED <<results, step, classifierVars>>
    BY <1>4 DEF Arrive, vars
  <2>2. QED
    BY <2>1, SelectionStays DEF OldestInv
<1>5. QED
  BY <1>1, <1>2, <1>3, <1>4 DEF Next

-----------------------------------------------------------------------------
(* Theorems                                                                   *)

\* Every reachable state is well typed: no command leaves its protocol, no
\* release has a status its readers do not know.
THEOREM TypeCorrect == Spec => []TypeOK
<1>1. IInv => TypeOK
  BY DEF IInv
<1>2. QED
  BY <1>1, Invariance, PTL

\* However many commands acquire the same release, fail or die in whatever
\* order, it is ready exactly when all of its rows and assets are there, and has
\* no row before.
THEOREM ReadyIsWholeHolds == Spec => []ReadyIsWhole
<1>1. IInv => ReadyIsWhole
  BY DEF IInv
<1>2. QED
  BY <1>1, Invariance, PTL

\* A classification rests on complete releases whose rows never change again.
THEOREM BasisFrozenHolds == Spec => BasisFrozen
<1>1. IInv /\ [Next]_vars =>
        [\A k \in results' :
            /\ release[k.slab] = "ready" /\ release[k.fault] = "ready"
            /\ RowsOf(k.slab)' = RowsOf(k.slab) /\ RowsOf(k.fault)' = RowsOf(k.fault)]_vars
  BY ResultsReady, ReadyRowsStay
<1>2. QED
  BY <1>1, Invariance, PTL DEF Spec, BasisFrozen

\* Each recorded asset has exactly one run that succeeded, and a run that
\* succeeded has its asset, whatever commands race for it.
THEOREM AssetsHaveOneRunHolds == Spec => []AssetsHaveOneRun
<1>1. Init => RunsInv
  BY DEF Init, RunsInv, Obtainers, Command
<1>2. Spec => []RunsInv
  BY <1>1, RunsStep, Invariance, PTL DEF Spec
<1>3. RunsInv => AssetsHaveOneRun
  BY AssetType DEF RunsInv, AssetsHaveOneRun
<1>4. QED
  BY <1>2, <1>3, PTL

\* Whatever other commands classify meanwhile, a command that reports left out a
\* revision only where Limit that are as old or older have a result.
THEOREM OldestFirstHolds == Spec => []OldestFirst
<1>1. Init => OldestInv
  BY DEF Init, OldestInv, SelectedOK, Command
<1>2. Spec => []OldestInv
  BY <1>1, OldestStep, Invariance, PTL DEF Spec
<1>3. OldestInv => OldestFirst
  <2> SUFFICES ASSUME OldestInv, NEW c \in Classifier, step[c] = "done", NEW v \in seen[c],
                      ~Classified(c, v)
               PROVE  Cardinality({w \in {u \in seen[c] : Available[u] <= Available[v]} :
                                       Classified(c, w)}) >= Limit
    BY DEF OldestFirst
  <2>1. todo[c] = <<>> /\ Selected(c) = {} /\ Cardinality(Ahead(c, v)) >= Limit
    BY DEF OldestInv, SelectedOK, Selected
  <2>2. Ahead(c, v) = {w \in {u \in seen[c] : Available[u] <= Available[v]} : Classified(c, w)}
    BY <2>1 DEF Ahead
  <2>3. QED
    BY <2>1, <2>2
<1>4. QED
  BY <1>2, <1>3, PTL

=============================================================================
