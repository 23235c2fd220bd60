----------------------- MODULE ForecastIssuance_proofs -----------------------
(* What forecast issuance guarantees for any number of processes, slots,      *)
(* estimates and calls.                                                       *)
EXTENDS ForecastIssuance, FiniteSetTheorems, TLAPS

-----------------------------------------------------------------------------
(* Type correctness                                                           *)

\* Only finitely many forecasts are ever issued, so their number is a number.
Finite == IsFiniteSet(forecasts)

\* A new row has the type of its table.
LEMMA CommitType ==
    ASSUME TypeOK, NEW k \in Kind, NEW from \in 0 .. MaxRows, NEW ok \in BOOLEAN,
           NEW grid \in Grid \cup {None}, Commit(k, from, ok, grid)
    PROVE  rows' \subseteq Row /\ UNCHANGED <<forecasts, procVars, log>>
<1>1. PICK t \in (from + 1) .. MaxRows :
        rows' = rows \cup {[kind |-> k, at |-> t, from |-> from, ok |-> ok, grid |-> grid]}
  BY DEF Commit
<1>2. t \in 1 .. MaxRows
  BY <1>1, IssuanceAssumption
<1>3. [kind |-> k, at |-> t, from |-> from, ok |-> ok, grid |-> grid] \in Row
  BY <1>2 DEF Row
<1>4. QED
  BY <1>1, <1>3 DEF TypeOK, Commit

\* A fit adds a well-typed row to the estimates and touches nothing else.
LEMMA FitType ==
    ASSUME TypeOK, Fit
    PROVE  rows' \subseteq Row /\ UNCHANGED <<forecasts, procVars, log>>
<1> USE DEF Kind
<1>0. \A r \in rows : r.at \in 0 .. MaxRows
  BY IssuanceAssumption DEF TypeOK, Row
<1>1. CASE EstimateCompleteness
  BY <1>1, CommitType, IssuanceAssumption DEF EstimateCompleteness
<1>2. CASE EstimateGutenbergRichter
  BY <1>0, <1>2, CommitType DEF EstimateGutenbergRichter, Usable, Of
<1>3. CASE FitEtas
  BY <1>0, <1>3, CommitType DEF FitEtas, Usable, Of
<1>4. CASE Decluster
  BY <1>0, <1>4, CommitType DEF Decluster, Usable, Of
<1>5. CASE EstimateBackground
  BY <1>0, <1>5, CommitType DEF EstimateBackground, Of
<1>6. QED
  BY <1>1, <1>2, <1>3, <1>4, <1>5 DEF Fit

\* issue_forecast makes a well-typed forecast with a number not yet used.
LEMMA NewRunType ==
    ASSUME TypeOK, Finite, NEW s \in Slot, NEW h \in Horizon, NEW t \in {"scheduled", "other"},
           NEW o \in {"operational", "named"}, NEW u \in Lineage
    PROVE  /\ NewRun(s, h, t, o, u) \in Forecast
           /\ IsFiniteSet(forecasts \cup {NewRun(s, h, t, o, u)})
<1>1. Cardinality(forecasts) \in Nat
  BY FS_CardinalityType DEF Finite
<1>2. Cardinality(forecasts) + 1 \in Runs
  BY <1>1 DEF Runs
<1>3. NewRun(s, h, t, o, u) \in Forecast
  BY <1>2 DEF NewRun, Forecast
<1>4. QED
  BY <1>3, FS_AddElement DEF Finite

\* The end of a session leaves the process as it was at first.
LEMMA EndType ==
    ASSUME TypeOK, NEW p \in Proc, End(p)
    PROVE  /\ pc' \in [Proc -> {"idle"} \cup Waiting \cup Locked]
           /\ request' \in [Proc -> Request \cup {NoRequest}] /\ picked' \in [Proc -> Lineage]
<1>1. Blank \in Lineage
  BY IssuanceAssumption DEF Blank, Lineage, Id
<1>2. QED
  BY <1>1 DEF TypeOK, End

\* A process that has called and not ended has a request.
Requested == \A p \in Proc : pc[p] # "idle" => request[p] \in asked

TInv == TypeOK /\ Finite /\ Requested

\* Every action keeps the types, the finiteness and the requests.
LEMMA TypeStep == TInv /\ [Next]_vars => TInv'
<1> SUFFICES ASSUME TInv, [Next]_vars PROVE TInv'
  OBVIOUS
<1> USE DEF TInv
<1>1. CASE Fit
  BY <1>1, FitType DEF TypeOK, Finite, Requested, procVars, log
<1>2. ASSUME NEW s \in Slot, NEW h \in Horizon, NEW t \in {"scheduled", "other"}, IssueNamed(s, h, t)
      PROVE  TInv'
  <2>1. PICK e \in Of("etas"), g \in Of("gutenberg_richter"),
             b \in {0} \cup {x.at : x \in Of("background")} :
          forecasts' = forecasts \cup
            {NewRun(s, h, t, "named", [etas |-> e.at, gr |-> g.at, bg |-> b])}
    BY <1>2 DEF IssueNamed
  <2>2. [etas |-> e.at, gr |-> g.at, bg |-> b] \in Lineage
    BY IssuanceAssumption DEF TypeOK, Of, Row, Lineage, Id
  <2>3. forecasts' \subseteq Forecast /\ IsFiniteSet(forecasts')
    BY <2>1, <2>2, NewRunType DEF TypeOK
  <2>4. QED
    BY <1>2, <2>3 DEF IssueNamed, TypeOK, Finite, Requested, procVars, log
<1>3. ASSUME NEW p \in Proc, NEW r \in Request, Call(p, r) PROVE TInv'
  BY <1>3, IssuanceAssumption DEF Call, TypeOK, Finite, Requested, tables, Waiting
<1>4. ASSUME NEW p \in Proc, Lock(p) PROVE TInv'
  BY <1>4 DEF Lock, TypeOK, Finite, Requested, tables, log, Waiting, Locked
<1>5. ASSUME NEW p \in Proc, Reuse(p) PROVE TInv'
  <2>1. answers' \subseteq [slot : Slot, horizon : Horizon, run : Runs]
    BY <1>5 DEF Reuse, Answer, Existing, TypeOK, Forecast
  <2>2. QED
    BY <1>5, <2>1, EndType DEF Reuse, End, TypeOK, Finite, Requested, tables
<1>6. ASSUME NEW p \in Proc, FindNone(p) PROVE TInv'
  BY <1>6 DEF FindNone, TypeOK, Finite, Requested, tables, log, Waiting, Locked
<1>7. ASSUME NEW p \in Proc, PickEtas(p) PROVE TInv'
  <2>1. PICK e \in rows : picked' = [picked EXCEPT ![p].etas = e.at]
    BY <1>7 DEF PickEtas, Latest, Usable, Of
  <2>2. picked' \in [Proc -> Lineage]
    BY <2>1, IssuanceAssumption DEF TypeOK, Lineage, Id, Row
  <2>3. QED
    BY <1>7, <2>2 DEF PickEtas, TypeOK, Finite, Requested, tables, log, Waiting, Locked
<1>8. ASSUME NEW p \in Proc, PickGutenbergRichter(p) PROVE TInv'
  <2>1. PICK g \in rows : picked' = [picked EXCEPT ![p].gr = g.at]
    BY <1>8 DEF PickGutenbergRichter, Latest, Compatible, Usable, Of
  <2>2. picked' \in [Proc -> Lineage]
    BY <2>1, IssuanceAssumption DEF TypeOK, Lineage, Id, Row
  <2>3. QED
    BY <1>8, <2>2 DEF PickGutenbergRichter, TypeOK, Finite, Requested, tables, log, Waiting, Locked
<1>9. ASSUME NEW p \in Proc, PickBackground(p) PROVE TInv'
  <2>1. picked' \in [Proc -> Lineage]
    <3>1. CASE picked' = picked
      BY <3>1 DEF TypeOK
    <3>2. ASSUME NEW b \in rows, picked' = [picked EXCEPT ![p].bg = b.at] PROVE picked' \in [Proc -> Lineage]
      BY <3>2, IssuanceAssumption DEF TypeOK, Lineage, Id, Row
    <3>3. QED
      BY <1>9, <3>1, <3>2 DEF PickBackground, Latest, Backgrounds, Of
  <2>2. QED
    BY <1>9, <2>1 DEF PickBackground, TypeOK, Finite, Requested, tables, log, Waiting, Locked
<1>10. ASSUME NEW p \in Proc, Issue(p) PROVE TInv'
  <2> DEFINE f == NewRun(request[p].slot, request[p].horizon, "scheduled", "operational", picked[p])
  <2>1. request[p] \in Request
    BY <1>10 DEF Issue, Requested, TypeOK
  <2>2. f \in Forecast /\ IsFiniteSet(forecasts \cup {f})
    BY <2>1, NewRunType DEF Request, TypeOK
  <2>3. forecasts' = forecasts \cup {f} /\ Answer(p, f)
    BY <1>10 DEF Issue
  <2>4. answers' \subseteq [slot : Slot, horizon : Horizon, run : Runs]
    BY <2>2, <2>3 DEF Answer, TypeOK, Forecast
  <2>5. QED
    BY <1>10, <2>2, <2>3, <2>4, EndType DEF Issue, End, TypeOK, Finite, Requested
<1>11. ASSUME NEW p \in Proc, Refuse(p) \/ Fail(p) PROVE TInv'
  BY <1>11, EndType DEF Refuse, Fail, End, TypeOK, Finite, Requested, tables, log
<1>12. CASE UNCHANGED vars
  BY <1>12 DEF vars, tables, procVars, log, TypeOK, Finite, Requested
<1>13. QED
  BY <1>1, <1>2, <1>3, <1>4, <1>5, <1>6, <1>7, <1>8, <1>9, <1>10, <1>11, <1>12
     DEF Next, Proceed

\* Every reachable state is well typed, and what a process works on was asked.
LEMMA Typed == Spec => []TInv
<1>1. Init => TInv
  BY FS_EmptySet, IssuanceAssumption
     DEF Init, TInv, TypeOK, Finite, Requested, Blank, Lineage, Id
<1>2. QED
  BY <1>1, TypeStep, PTL DEF Spec

\* Every reachable state is well typed, for any processes, slots and estimates.
THEOREM TypeCorrect == Spec => []TypeOK
<1>1. TInv => TypeOK
  BY DEF TInv
<1>2. QED
  BY <1>1, Typed, PTL

-----------------------------------------------------------------------------
(* Idempotence                                                                *)

\* Operational forecasts are the ones a later call may reuse.
Reusable == \A f \in forecasts : f.origin = "operational" => f.trigger = "scheduled"

\* The advisory lock excludes.
Exclusion ==
    \A p, q \in Proc : pc[p] \in Locked /\ pc[q] \in Locked /\ request[p] = request[q] => p = q

\* A process that found no run is still right, unless the slot was disturbed.
Past == {"clear", "etas", "gr", "background"}
For(s, h) == {f \in forecasts : f.slot = s /\ f.horizon = h}
StillNone ==
    \A p \in Proc : pc[p] \in Past /\ ~Disturbed(request[p].slot, request[p].horizon) =>
        For(request[p].slot, request[p].horizon) = {}

OneRun ==
    \A f, g \in forecasts :
        f.slot = g.slot /\ f.horizon = g.horizon /\ ~Disturbed(f.slot, f.horizon) => f = g

Answered ==
    \A a \in answers : \E f \in forecasts : f.id = a.run /\ f.slot = a.slot /\ f.horizon = a.horizon

SInv == TInv /\ Reusable /\ Exclusion /\ StillNone /\ OneRun /\ Answered

\* What the invariant says is not lost by a step that leaves the forecasts, the
\* answers and the requests asked alone, and moves processes on with their
\* requests or ends them.
LEMMA Quiet ==
    ASSUME SInv, TInv', UNCHANGED <<forecasts, answers, asked>>,
           \A q \in Proc : /\ pc'[q] \in Locked => pc[q] \in Locked /\ request'[q] = request[q]
                           /\ pc'[q] \in Past => pc[q] \in Past
    PROVE  SInv'
<1>1. (Reusable /\ OneRun /\ Answered)'
  BY DEF SInv, Reusable, OneRun, Answered, Disturbed
<1>2. Exclusion'
  BY DEF SInv, Exclusion
<1>3. StillNone'
  BY DEF SInv, StillNone, For, Disturbed, Past, Locked
<1>4. QED
  BY <1>1, <1>2, <1>3 DEF SInv

\* Every action keeps the invariant.
LEMMA SlotStep == SInv /\ [Next]_vars => SInv'
<1> SUFFICES ASSUME SInv, [Next]_vars PROVE SInv'
  OBVIOUS
<1>0. TInv'
  BY TypeStep DEF SInv
<1> USE DEF TInv, TypeOK
<1>1. CASE Fit
  BY <1>0, <1>1, FitType, Quiet DEF SInv, procVars, log
<1>2. ASSUME NEW s \in Slot, NEW h \in Horizon, NEW t \in {"scheduled", "other"}, IssueNamed(s, h, t)
      PROVE  SInv'
  <2>1. PICK u : forecasts' = forecasts \cup {NewRun(s, h, t, "named", u)}
    BY <1>2 DEF IssueNamed
  <2> DEFINE n == NewRun(s, h, t, "named", u)
  <2>2. n.origin = "named" /\ n.slot = s /\ n.horizon = h
    BY DEF NewRun
  <2>3. Disturbed(s, h)'
    BY <2>1, <2>2 DEF Disturbed
  <2>4. \A x, y : Disturbed(x, y) => Disturbed(x, y)'
    BY <1>2, <2>1 DEF Disturbed, IssueNamed, log
  <2>5. UNCHANGED <<pc, request, asked, answers>>
    BY <1>2 DEF IssueNamed, procVars, log
  <2>6. Reusable' /\ Exclusion' /\ Answered'
    BY <2>1, <2>2, <2>5 DEF SInv, Reusable, Exclusion, Answered
  <2>7. StillNone'
    BY <2>1, <2>2, <2>3, <2>4, <2>5 DEF SInv, StillNone, For
  <2>8. OneRun'
    BY <2>1, <2>2, <2>3, <2>4 DEF SInv, OneRun
  <2>9. QED
    BY <1>0, <2>6, <2>7, <2>8 DEF SInv
<1>3. ASSUME NEW p \in Proc, NEW r \in Request, Call(p, r) PROVE SInv'
  <2>1. \A x, y : Disturbed(x, y) => Disturbed(x, y)'
    BY <1>3 DEF Disturbed, Call, tables
  <2>2. UNCHANGED <<forecasts, answers>>
    BY <1>3 DEF Call, tables
  <2>3. \A q \in Proc : pc'[q] \in Locked => pc'[q] = pc[q] /\ request'[q] = request[q]
    BY <1>3 DEF Call, Locked, SInv
  <2>4. Reusable' /\ Exclusion' /\ Answered' /\ OneRun'
    BY <2>1, <2>2, <2>3 DEF SInv, Reusable, Exclusion, Answered, OneRun
  <2>5. StillNone'
    BY <2>1, <2>2, <2>3 DEF SInv, StillNone, For, Past, Locked
  <2>6. QED
    BY <1>0, <2>4, <2>5 DEF SInv
<1>4. ASSUME NEW p \in Proc, Lock(p) PROVE SInv'
  <2>1. UNCHANGED <<forecasts, answers, asked, request>>
    BY <1>4 DEF Lock, tables, log
  <2>2. \A q \in Proc : q # p => pc'[q] = pc[q]
    BY <1>4 DEF Lock, SInv
  <2>3. pc'[p] = "locked" /\ \A q \in Proc : pc[q] \in Locked => request[q] # request[p]
    BY <1>4 DEF Lock, SInv
  <2>4. Exclusion'
    BY <2>1, <2>2, <2>3 DEF SInv, Exclusion
  <2>5. Reusable' /\ OneRun' /\ Answered' /\ StillNone'
    BY <2>1, <2>2, <2>3 DEF SInv, Reusable, OneRun, Answered, StillNone, For, Disturbed, Past
  <2>6. QED
    BY <1>0, <2>4, <2>5 DEF SInv
<1>5. ASSUME NEW p \in Proc, Reuse(p) PROVE SInv'
  <2>1. PICK f \in Existing(p) :
          answers' = answers \cup {[slot |-> f.slot, horizon |-> f.horizon, run |-> f.id]}
    BY <1>5 DEF Reuse, Answer
  <2>2. UNCHANGED <<forecasts, asked>>
    BY <1>5 DEF Reuse, tables
  <2>3. Answered'
    BY <2>1, <2>2 DEF SInv, Answered, Existing
  <2>4. \A q \in Proc : pc'[q] \in Locked => pc'[q] = pc[q] /\ request'[q] = request[q]
    BY <1>5 DEF Reuse, End, Locked, SInv
  <2>5. Reusable' /\ OneRun' /\ StillNone' /\ Exclusion'
    BY <2>2, <2>4 DEF SInv, Reusable, OneRun, StillNone, Exclusion, For, Disturbed, Past, Locked
  <2>6. QED
    BY <1>0, <2>3, <2>5 DEF SInv
<1>6. ASSUME NEW p \in Proc, FindNone(p) PROVE SInv'
  <2>1. UNCHANGED <<forecasts, answers, asked, request>>
    BY <1>6 DEF FindNone, tables, log
  <2>2. pc[p] = "locked" /\ \A q \in Proc : q # p => pc'[q] = pc[q]
    BY <1>6 DEF FindNone, SInv
  <2>3. ~Disturbed(request[p].slot, request[p].horizon) =>
          For(request[p].slot, request[p].horizon) = {}
    <3> SUFFICES ASSUME ~Disturbed(request[p].slot, request[p].horizon),
                        NEW f \in forecasts,
                        f.slot = request[p].slot, f.horizon = request[p].horizon
                 PROVE FALSE
      BY DEF For
    <3>1. f.origin = "operational"
      BY DEF Disturbed, SInv, Forecast
    <3>2. f \in Existing(p)
      BY <3>1 DEF Existing, SInv, Reusable
    <3>3. QED
      BY <1>6, <3>2 DEF FindNone
  <2>4. StillNone'
    BY <2>1, <2>2, <2>3 DEF SInv, StillNone, For, Disturbed
  <2>5. Exclusion'
    BY <2>1, <2>2 DEF SInv, Exclusion, Locked
  <2>6. Reusable' /\ OneRun' /\ Answered'
    BY <2>1 DEF SInv, Reusable, OneRun, Answered, Disturbed
  <2>7. QED
    BY <1>0, <2>4, <2>5, <2>6 DEF SInv
<1>7. ASSUME NEW p \in Proc, PickEtas(p) \/ PickGutenbergRichter(p) \/ PickBackground(p) PROVE SInv'
  <2>1. UNCHANGED <<forecasts, answers, asked, request>>
    BY <1>7 DEF PickEtas, PickGutenbergRichter, PickBackground, tables, log
  <2>2. pc[p] \in Past /\ \A q \in Proc : q # p => pc'[q] = pc[q]
    BY <1>7 DEF PickEtas, PickGutenbergRichter, PickBackground, Past, SInv
  <2>3. QED
    BY <1>0, <2>1, <2>2, Quiet DEF Past, Locked
<1>8. ASSUME NEW p \in Proc, Issue(p) PROVE SInv'
  <2> DEFINE s == request[p].slot
             h == request[p].horizon
             n == NewRun(s, h, "scheduled", "operational", picked[p])
  <2>1. forecasts' = forecasts \cup {n} /\ asked' = asked
        /\ answers' = answers \cup {[slot |-> n.slot, horizon |-> n.horizon, run |-> n.id]}
    BY <1>8 DEF Issue, Answer
  <2>2. n.slot = s /\ n.horizon = h /\ n.origin = "operational" /\ n.trigger = "scheduled"
    BY DEF NewRun
  <2>3. \A x, y : Disturbed(x, y)' <=> Disturbed(x, y)
    BY <2>1, <2>2 DEF Disturbed
  <2>4. pc[p] = "background" /\ pc'[p] = "idle"
        /\ \A q \in Proc : q # p => pc'[q] = pc[q] /\ request'[q] = request[q]
    BY <1>8 DEF Issue, End, SInv
  <2>5. ~Disturbed(s, h) => For(s, h) = {}
    BY <2>4 DEF SInv, StillNone, Past
  <2>6. OneRun'
    BY <2>1, <2>2, <2>3, <2>5 DEF SInv, OneRun, For
  <2>7. StillNone'
    <3> SUFFICES ASSUME NEW q \in Proc, pc'[q] \in Past,
                        ~Disturbed(request[q].slot, request[q].horizon), q # p
                 PROVE  For(request[q].slot, request[q].horizon)' = {}
      BY <2>3, <2>4 DEF StillNone, Past, For
    <3>1. For(request[q].slot, request[q].horizon) = {} /\ request'[q] = request[q]
      BY <2>4 DEF SInv, StillNone
    <3>2. request[p] # request[q]
      BY <2>4 DEF SInv, Exclusion, Past, Locked
    <3>3. {request[p], request[q]} \subseteq asked /\ asked \subseteq Request
      BY <2>4 DEF SInv, Requested, Past
    <3>4. ~(request[q].slot = s /\ request[q].horizon = h)
      BY <3>2, <3>3 DEF Disturbed, Request
    <3>5. QED
      BY <2>1, <2>2, <3>1, <3>4 DEF For
  <2>8. Reusable' /\ Answered'
    BY <2>1, <2>2 DEF SInv, Reusable, Answered
  <2>9. Exclusion'
    BY <2>4 DEF SInv, Exclusion, Locked
  <2>10. QED
    BY <1>0, <2>6, <2>7, <2>8, <2>9 DEF SInv
<1>9. ASSUME NEW p \in Proc, Refuse(p) \/ Fail(p) PROVE SInv'
  <2>1. UNCHANGED <<forecasts, answers, asked>>
    BY <1>9 DEF Refuse, Fail, tables, log
  <2>2. \A q \in Proc : pc'[q] \in Locked => pc'[q] = pc[q] /\ request'[q] = request[q]
    BY <1>9 DEF Refuse, Fail, End, Locked, SInv
  <2>3. QED
    BY <1>0, <2>1, <2>2, Quiet DEF Past, Locked
<1>10. CASE UNCHANGED vars
  BY <1>0, <1>10, Quiet DEF vars, tables, procVars, log
<1>11. QED
  BY <1>1, <1>2, <1>3, <1>4, <1>5, <1>6, <1>7, <1>8, <1>9, <1>10 DEF Next, Proceed

\* All answers to calls for a slot and horizon name one run, for any number of
\* processes and calls, unless the slot is disturbed.
THEOREM SlotIdempotentHolds == Spec => []SlotIdempotent
<1>1. Init => SInv
  BY FS_EmptySet, IssuanceAssumption
     DEF Init, SInv, TInv, TypeOK, Finite, Requested, Blank, Lineage, Id,
         Reusable, Exclusion, StillNone, OneRun, Answered, Locked, Past
<1>2. SInv => SlotIdempotent
  BY DEF SInv, OneRun, Answered, SlotIdempotent
<1>3. QED
  BY <1>1, <1>2, SlotStep, PTL DEF Spec

-----------------------------------------------------------------------------
(* Lineage                                                                    *)

\* A row's created_at stands for its id, and what an estimate was fitted on is
\* in the table.
RowIds == \A r, s \in rows : r.at = s.at => r = s
FittedOnUsable ==
    \A r \in rows : r.kind \in {"gutenberg_richter", "etas"} =>
        \E c \in Usable("completeness") : c.at = r.from

IssuedConsistent == \A f \in forecasts : Consistent(f.used)

\* How far the selection of a process has come.
PickedSoFar ==
    \A p \in Proc :
        /\ pc[p] \in {"idle", "called", "locked", "clear"} => picked[p] = Blank
        /\ pc[p] = "etas" => /\ \E e \in Usable("etas") : e.at = picked[p].etas
                            /\ picked[p].bg = 0
        /\ pc[p] = "gr" => Consistent(picked[p]) /\ picked[p].bg = 0
        /\ pc[p] = "background" => Consistent(picked[p])

LInv == TInv /\ RowIds /\ FittedOnUsable /\ IssuedConsistent /\ PickedSoFar

\* A lineage that passes the checks passes them for ever: rows are only added.
LEMMA ConsistentGrows ==
    ASSUME rows \subseteq rows', NEW u, Consistent(u)
    PROVE  Consistent(u)'
BY DEF Consistent, BackgroundFits, Usable, Of

\* n is added, with a created_at of its own.
Adds(n) == /\ \A r \in rows : r.at # n.at
           /\ rows' = rows \cup {n}

\* A commit adds the row it names.
LEMMA CommitAdds ==
    ASSUME NEW k, NEW from, NEW ok, NEW grid, Commit(k, from, ok, grid)
    PROVE  \E n : Adds(n) /\ n.kind = k /\ n.from = from
<1>1. PICK t \in (from + 1) .. MaxRows :
        /\ \A r \in rows : r.at # t
        /\ rows' = rows \cup {[kind |-> k, at |-> t, from |-> from, ok |-> ok, grid |-> grid]}
  BY DEF Commit
<1> DEFINE n == [kind |-> k, at |-> t, from |-> from, ok |-> ok, grid |-> grid]
<1>2. Adds(n) /\ n.kind = k /\ n.from = from
  BY <1>1 DEF Adds
<1>3. QED
  BY <1>2

FittedRight(n) ==
    n.kind \in {"gutenberg_richter", "etas"} => \E c \in Usable("completeness") : c.at = n.from

\* A fit adds one row, fitted on a usable completeness estimate if it must be.
LEMMA FitAdds == Fit => \E n : Adds(n) /\ FittedRight(n)
<1>1. ASSUME EstimateCompleteness PROVE \E n : Adds(n) /\ n.kind = "completeness"
  BY <1>1, CommitAdds DEF EstimateCompleteness
<1>2. ASSUME EstimateGutenbergRichter \/ FitEtas
      PROVE  \E n : Adds(n) /\ \E c \in Usable("completeness") : c.at = n.from
  <2>1. PICK c \in Usable("completeness"), ok \in BOOLEAN, k \in Kind : Commit(k, c.at, ok, None)
    BY <1>2 DEF EstimateGutenbergRichter, FitEtas, Kind
  <2>2. PICK n : Adds(n) /\ n.kind = k /\ n.from = c.at
    BY <2>1, CommitAdds
  <2>3. QED
    BY <2>2
<1>3. ASSUME Decluster PROVE \E n : Adds(n) /\ n.kind = "declustering"
  <2>1. PICK g : Commit("declustering", g.at, TRUE, None)
    BY <1>3 DEF Decluster
  <2>2. QED
    BY <2>1, CommitAdds
<1>4. ASSUME EstimateBackground PROVE \E n : Adds(n) /\ n.kind = "background"
  <2>1. PICK d, grid : Commit("background", d.at, TRUE, grid)
    BY <1>4 DEF EstimateBackground
  <2>2. QED
    BY <2>1, CommitAdds
<1>5. QED
  BY <1>1, <1>2, <1>3, <1>4 DEF Fit, FittedRight

\* Every action keeps the invariant.
LEMMA LineageStep == LInv /\ [Next]_vars => LInv'
<1> SUFFICES ASSUME LInv, [Next]_vars PROVE LInv'
  OBVIOUS
<1>0. TInv'
  BY TypeStep DEF LInv
<1>1. CASE Fit
  <2>1. PICK n : Adds(n) /\ FittedRight(n)
    BY <1>1, FitAdds
  <2>2. UNCHANGED <<forecasts, pc, picked>>
    BY <1>1, FitType DEF LInv, TInv, procVars
  <2>3. \A k : Usable(k) \subseteq Usable(k)'
    BY <2>1 DEF Adds, Usable, Of
  <2>4. RowIds' /\ FittedOnUsable'
    BY <2>1, <2>3 DEF Adds, FittedRight, LInv, RowIds, FittedOnUsable
  <2>5. IssuedConsistent'
    BY <2>1, <2>2, ConsistentGrows DEF Adds, LInv, IssuedConsistent
  <2>6. PickedSoFar'
    BY <2>1, <2>2, <2>3, ConsistentGrows DEF Adds, LInv, PickedSoFar
  <2>7. QED
    BY <1>0, <2>4, <2>5, <2>6 DEF LInv
<1>a. ASSUME rows' = rows, IssuedConsistent', PickedSoFar' PROVE LInv'
  BY <1>0, <1>a DEF LInv, RowIds, FittedOnUsable, Usable, Of
<1>b. ASSUME rows' = rows PROVE \A u : Consistent(u) => Consistent(u)'
  BY <1>b, ConsistentGrows
<1>2. ASSUME NEW s \in Slot, NEW h \in Horizon, NEW t \in {"scheduled", "other"}, IssueNamed(s, h, t)
      PROVE  LInv'
  <2>1. PICK u : Consistent(u) /\ forecasts' = forecasts \cup {NewRun(s, h, t, "named", u)}
    BY <1>2 DEF IssueNamed
  <2>2. UNCHANGED <<rows, pc, picked>>
    BY <1>2 DEF IssueNamed, procVars
  <2>3. IssuedConsistent'
    BY <2>1, <2>2, <1>b DEF LInv, IssuedConsistent, NewRun
  <2>4. PickedSoFar'
    BY <2>2, <1>b DEF LInv, PickedSoFar, Usable, Of
  <2>5. QED
    BY <1>a, <2>2, <2>3, <2>4
\* The other actions leave the rows alone.
<1>c. ASSUME rows' = rows, forecasts' = forecasts, PickedSoFar' PROVE LInv'
  BY <1>a, <1>b, <1>c DEF LInv, IssuedConsistent
<1>3. ASSUME NEW p \in Proc, Lock(p) \/ FindNone(p) \/ \E r \in Request : Call(p, r) PROVE LInv'
  <2>1. UNCHANGED <<rows, forecasts, picked>>
    BY <1>3 DEF Lock, FindNone, Call, tables
  <2>2. \A q \in Proc : \/ pc'[q] = pc[q]
                        \/ {pc[q], pc'[q]} \subseteq {"idle", "called", "locked", "clear"}
    BY <1>3 DEF Lock, FindNone, Call, LInv, TInv, TypeOK
  <2>3. PickedSoFar'
    BY <2>1, <2>2, <1>b DEF LInv, PickedSoFar, Usable, Of
  <2>4. QED
    BY <1>c, <2>1, <2>3
\* A process that ends starts anew.
<1>d. ASSUME NEW p \in Proc, End(p), rows' = rows PROVE PickedSoFar'
  <2>1. pc'[p] = "idle" /\ picked'[p] = Blank
        /\ \A q \in Proc : q # p => pc'[q] = pc[q] /\ picked'[q] = picked[q]
    BY <1>d DEF End, LInv, TInv, TypeOK
  <2>2. QED
    BY <1>d, <2>1, <1>b DEF LInv, PickedSoFar, Usable, Of
<1>4. ASSUME NEW p \in Proc, Reuse(p) \/ Refuse(p) \/ Fail(p) PROVE LInv'
  BY <1>4, <1>c, <1>d DEF Reuse, Refuse, Fail, tables
<1>5. ASSUME NEW p \in Proc, Issue(p) PROVE LInv'
  <2>1. /\ Consistent(picked[p]) /\ rows' = rows /\ End(p)
        /\ \E s, h : forecasts' = forecasts \cup {NewRun(s, h, "scheduled", "operational", picked[p])}
    BY <1>5 DEF Issue
  <2>2. IssuedConsistent'
    BY <2>1, <1>b DEF LInv, IssuedConsistent, NewRun
  <2>3. QED
    BY <1>a, <1>d, <2>1, <2>2
<1>6. ASSUME NEW p \in Proc, PickEtas(p) PROVE LInv'
  <2>1. PICK e \in Usable("etas") : picked' = [picked EXCEPT ![p].etas = e.at]
    BY <1>6 DEF PickEtas, Latest
  <2>2. UNCHANGED <<rows, forecasts>> /\ pc[p] = "clear" /\ pc'[p] = "etas"
        /\ \A q \in Proc : q # p => pc'[q] = pc[q] /\ picked'[q] = picked[q]
    BY <1>6, <2>1 DEF PickEtas, tables, LInv, TInv, TypeOK
  <2>3. picked'[p].etas = e.at /\ picked'[p].bg = 0
    BY <2>1, <2>2 DEF LInv, TInv, TypeOK, PickedSoFar, Blank, Lineage
  <2>4. PickedSoFar'
    BY <2>1, <2>2, <2>3, <1>b DEF LInv, PickedSoFar, Usable, Of
  <2>5. QED
    BY <1>c, <2>2, <2>4
<1>7. ASSUME NEW p \in Proc, PickGutenbergRichter(p) PROVE LInv'
  <2>1. PICK g \in Compatible(p) : picked' = [picked EXCEPT ![p].gr = g.at]
    BY <1>7 DEF PickGutenbergRichter, Latest
  <2>2. UNCHANGED <<rows, forecasts>> /\ pc[p] = "etas" /\ pc'[p] = "gr"
        /\ \A q \in Proc : q # p => pc'[q] = pc[q] /\ picked'[q] = picked[q]
    BY <1>7, <2>1 DEF PickGutenbergRichter, tables, LInv, TInv, TypeOK
  <2>3. picked'[p].etas = picked[p].etas /\ picked'[p].gr = g.at /\ picked'[p].bg = 0
    BY <2>1, <2>2 DEF LInv, TInv, TypeOK, PickedSoFar, Lineage
  <2>4. PICK e \in Usable("etas") : e.at = picked[p].etas
    BY <2>2 DEF LInv, PickedSoFar
  <2>5. e.from = g.from
    BY <2>4 DEF Compatible, LInv, RowIds, Usable, Of
  <2>6. g \in Usable("gutenberg_richter") /\ \E c \in Usable("completeness") : c.at = g.from
    BY DEF Compatible, LInv, FittedOnUsable, Usable, Of
  <2>7. Consistent(picked'[p])
    BY <2>3, <2>4, <2>5, <2>6 DEF Consistent, BackgroundFits
  <2>8. PickedSoFar'
    BY <2>2, <2>3, <2>7, <1>b DEF LInv, PickedSoFar, Usable, Of
  <2>9. QED
    BY <1>c, <2>2, <2>8
<1>8. ASSUME NEW p \in Proc, PickBackground(p) PROVE LInv'
  <2>1. UNCHANGED <<rows, forecasts>> /\ pc[p] = "gr" /\ pc'[p] = "background"
        /\ \A q \in Proc : q # p => pc'[q] = pc[q]
    BY <1>8 DEF PickBackground, tables, LInv, TInv, TypeOK
  <2>2. Consistent(picked[p])
    BY <2>1 DEF LInv, PickedSoFar
  <2>3. Consistent(picked'[p]) /\ \A q \in Proc : q # p => picked'[q] = picked[q]
    <3>1. CASE picked' = picked
      BY <3>1, <2>2
    <3>2. ASSUME NEW b \in Backgrounds(p), picked' = [picked EXCEPT ![p].bg = b.at] 
          PROVE  Consistent(picked'[p]) /\ \A q \in Proc : q # p => picked'[q] = picked[q]
      <4>1. picked'[p].etas = picked[p].etas /\ picked'[p].gr = picked[p].gr /\ picked'[p].bg = b.at
        BY <3>2 DEF LInv, TInv, TypeOK, Lineage
      <4>2. Consistent(picked'[p])
        BY <2>2, <4>1 DEF Consistent, BackgroundFits, Backgrounds
      <4>3. QED
        BY <3>2, <4>2 DEF LInv, TInv, TypeOK
    <3>3. QED
      BY <1>8, <3>1, <3>2 DEF PickBackground, Latest
  <2>4. PickedSoFar'
    BY <2>1, <2>3, <1>b DEF LInv, PickedSoFar, Usable, Of
  <2>5. QED
    BY <1>c, <2>1, <2>4
<1>9. CASE UNCHANGED vars
  BY <1>9, <1>b, <1>c DEF vars, tables, procVars, LInv, PickedSoFar, Usable, Of
<1>10. QED
  BY <1>1, <1>2, <1>3, <1>4, <1>5, <1>6, <1>7, <1>8, <1>9 DEF Next, Proceed

\* The lineage invariant holds in every reachable state.
LEMMA Lineages == Spec => []LInv
<1>1. Init => LInv
  BY FS_EmptySet, IssuanceAssumption
     DEF Init, LInv, TInv, TypeOK, Finite, Requested, Blank, Lineage, Id,
         RowIds, FittedOnUsable, IssuedConsistent, PickedSoFar
<1>2. QED
  BY <1>1, LineageStep, PTL DEF Spec

\* No forecast mixes lineages or takes a background rate of another grid,
\* whichever way it was issued and whatever was committed before and after.
THEOREM LineageConsistentHolds == Spec => []LineageConsistent
<1>1. LInv => LineageConsistent
  <2> SUFFICES ASSUME LInv, NEW f \in forecasts
               PROVE  /\ SourceOf(f.used.etas) = SourceOf(f.used.gr)
                      /\ \A c \in SourceOf(f.used.etas) : \E r \in Usable("completeness") : r.at = c
                      /\ f.used.bg # 0 =>
                           /\ \A d \in SourceOf(f.used.bg) : SourceOf(d) = {f.used.gr}
                           /\ \A b \in rows : b.at = f.used.bg => b.grid = SpecGrid
    BY DEF LineageConsistent
  <2>1. \A r \in rows : SourceOf(r.at) = {r.from}
    BY DEF LInv, RowIds, SourceOf
  <2>2. PICK e \in Usable("etas"), g \in Usable("gutenberg_richter"), c \in Usable("completeness") :
          /\ e.at = f.used.etas /\ g.at = f.used.gr
          /\ g.from = e.from /\ c.at = e.from
          /\ f.used.bg # 0 =>
               \E b \in Of("background"), d \in Of("declustering") :
                  b.at = f.used.bg /\ b.grid = SpecGrid /\ d.at = b.from /\ d.from = f.used.gr
    BY DEF LInv, IssuedConsistent, Consistent, BackgroundFits
  <2>3. SourceOf(f.used.etas) = {e.from} /\ SourceOf(f.used.gr) = {g.from}
    BY <2>1, <2>2 DEF Usable, Of
  <2>4. ASSUME f.used.bg # 0
        PROVE  /\ \A d \in SourceOf(f.used.bg) : SourceOf(d) = {f.used.gr}
               /\ \A b \in rows : b.at = f.used.bg => b.grid = SpecGrid
    <3>1. PICK b \in rows, d \in rows :
            b.at = f.used.bg /\ b.grid = SpecGrid /\ d.at = b.from /\ d.from = f.used.gr
      BY <2>2, <2>4 DEF Of
    <3>2. SourceOf(f.used.bg) = {d.at} /\ SourceOf(d.at) = {f.used.gr}
      BY <2>1, <3>1
    <3>3. \A x \in rows : x.at = f.used.bg => x = b
      BY <3>1 DEF LInv, RowIds
    <3>4. QED
      BY <3>1, <3>2, <3>3
  <2>5. QED
    BY <2>2, <2>3, <2>4
<1>2. QED
  BY <1>1, Lineages, PTL

\* What an operational issuance selects always passes the lineage checks of
\* prepare_generation_inputs.
THEOREM PickedIsIssuableHolds == Spec => []PickedIsIssuable
<1>1. LInv => PickedIsIssuable
  BY DEF LInv, PickedSoFar, PickedIsIssuable
<1>2. QED
  BY <1>1, Lineages, PTL

=============================================================================
