----------------------- MODULE CatalogIngestion_proofs -----------------------
(* What ingestion guarantees for any number of runs, events, versions and     *)
(* queries, whether runs of one source overlap or not: first what the rows    *)
(* say, then why no run is ever stuck and every run is short.                 *)
EXTENDS CatalogIngestion, FiniteSetTheorems, WellFoundedInduction, TLAPS

-----------------------------------------------------------------------------
(* Type correctness                                                           *)

\* _link_or_create_canonical adds well-formed memberships of the revision's own
\* event, valid from the revision's available_at, and only if the event has none.
LEMMA LinksAddOwn ==
    ASSUME NEW rev, rev \in Revision, NEW R, NEW M, M \subseteq Membership,
           NEW new, new \in Links(rev, R, M)
    PROVE  /\ new \subseteq Membership
           /\ \A m \in new : m.ev = rev.ev /\ m.from = rev.avail
           /\ \A m, n \in new : m = n
           /\ \E m \in M \cup new : m.ev = rev.ev
           /\ new # {} => \A m \in M : m.ev # rev.ev
<1>1. CanonicalFor(rev, R, M) \subseteq Event
  BY DEF CanonicalFor, Membership, Revision
<1>2. CASE \E m \in M : m.ev = rev.ev
  BY <1>2 DEF Links
<1>3. CASE ~ \E m \in M : m.ev = rev.ev
  <2>1. PICK c \in CanonicalFor(rev, R, M) :
          new = {[ev |-> rev.ev, canon |-> c, from |-> rev.avail]}
    BY <1>3 DEF Links
  <2>2. QED
    <3>1. [ev |-> rev.ev, canon |-> c, from |-> rev.avail] \in Membership
      BY <1>1 DEF Membership, Revision
    <3>2. QED
      BY <2>1, <3>1, <1>3
<1>4. QED
  BY <1>2, <1>3

\* Every reachable state is well typed.
THEOREM TypeCorrect == Spec => []TypeOK
<1>1. Init => TypeOK
  BY DEF Init, TypeOK, Active, Ended
<1>2. TypeOK /\ [Next]_vars => TypeOK'
  <2> SUFFICES ASSUME TypeOK, [Next]_vars PROVE TypeOK'
    OBVIOUS
  <2>1. ASSUME NEW e \in Event, NEW v \in Version, Publish(e, v) PROVE TypeOK'
    BY <2>1 DEF TypeOK, Active, Ended, Publish, runVars, txVars, catalogVars
  <2>2. ASSUME NEW r \in Run, NEW q \in Query, StartRun(r, q) PROVE TypeOK'
    BY <2>2 DEF TypeOK, Active, Ended, StartRun, txVars, catalogVars
  <2>3. ASSUME NEW r \in Run, Stamp(r) PROVE TypeOK'
    BY <2>3 DEF TypeOK, Active, Ended, Stamp, txVars, catalogVars
  <2>4. ASSUME NEW r \in Run, Receive(r) PROVE TypeOK'
    <3>1. query[r] \subseteq Event
      BY IngestionAssumption DEF TypeOK
    <3>2. {p \in query[r] \X Version : feed[p[1]] # <<>> /\ p[2] = Current(p[1])}
            \in SUBSET (Event \X Version)
      BY <3>1
    <3>3. QED
      BY <2>4, <3>2 DEF TypeOK, Active, Ended, Receive, txVars, catalogVars
  <2>5. ASSUME NEW r \in Run, StoreArtifact(r) PROVE TypeOK'
    BY <2>5 DEF TypeOK, Active, Ended, StoreArtifact, catalogVars
  <2>6. ASSUME NEW r \in Run, NEW e \in Event, NEW v \in Version, SkipKnown(r, e, v)
        PROVE TypeOK'
    BY <2>6 DEF TypeOK, Active, Ended, SkipKnown, txVars, catalogVars
  <2>7. ASSUME NEW r \in Run, NEW e \in Event, NEW v \in Version, InsertRevision(r, e, v)
        PROVE TypeOK'
    <3> DEFINE rev == [ev |-> e, ver |-> v, avail |-> stamp[r]]
    <3>1. rev \in Revision
      BY DEF Revision, TypeOK
    <3>2. mem \cup txMem[r] \subseteq Membership
      BY DEF TypeOK
    <3>3. PICK new \in Links(rev, revs \cup txRevs[r], mem \cup txMem[r]) :
            txMem' = [txMem EXCEPT ![r] = @ \cup new]
      BY <2>7 DEF TypeOK, Active, Ended, InsertRevision
    <3>4. new \subseteq Membership
      <4> HIDE DEF rev
      <4> QED
        BY <3>1, <3>2, <3>3, LinksAddOwn
    <3>5. txMem' \in [Run -> SUBSET Membership]
      BY <3>3, <3>4 DEF TypeOK
    <3>6. txRevs' \in [Run -> SUBSET Revision]
      BY <2>7, <3>1 DEF TypeOK, Active, Ended, InsertRevision
    <3>7. QED
      BY <2>7, <3>5, <3>6 DEF TypeOK, Active, Ended, InsertRevision, catalogVars
  <2>8. ASSUME NEW r \in Run, Block(r) PROVE TypeOK'
    BY <2>8 DEF TypeOK, Active, Ended, Block, txVars, catalogVars
  <2>9. ASSUME NEW r \in Run, Commit(r) PROVE TypeOK'
    BY <2>9 DEF TypeOK, Active, Ended, Commit
  <2>10. ASSUME NEW r \in Run, Finish(r) PROVE TypeOK'
    BY <2>10 DEF TypeOK, Active, Ended, Finish, txVars, catalogVars
  <2>11. ASSUME NEW r \in Run, Fails(r) PROVE TypeOK'
    <3>1. stamp' \in [Run -> Nat] /\ payload' \in [Run -> SUBSET (Event \X Version)]
      <4>1. CASE step[r] = "committed"
        BY <2>11, <4>1 DEF TypeOK, Active, Ended, Fails, Abandon
      <4>2. CASE step[r] # "committed"
        <5>1. /\ stamp' = [stamp EXCEPT ![r] = 0]
              /\ payload' = [payload EXCEPT ![r] = {}]
          BY <2>11, <4>2 DEF Fails, Abandon
        <5>2. QED
          BY <5>1 DEF TypeOK
      <4>3. QED
        BY <4>1, <4>2
    <3>2. status' \in [Run -> {"absent", "running", "succeeded", "failed"}]
      BY <2>11 DEF TypeOK, Active, Ended, Fails
    <3>3. step' \in [Run -> {"new"} \cup Active \cup Ended]
      BY <2>11 DEF TypeOK, Active, Ended, Fails
    <3>4. QED
      BY <2>11, <3>1, <3>2, <3>3 DEF TypeOK, Active, Ended, Fails, Abandon, catalogVars
  <2>12. ASSUME NEW r \in Run, Crash(r) PROVE TypeOK'
    <3>1. stamp' \in [Run -> Nat] /\ payload' \in [Run -> SUBSET (Event \X Version)]
      <4>1. CASE step[r] = "committed"
        BY <2>12, <4>1 DEF TypeOK, Active, Ended, Crash, Abandon
      <4>2. CASE step[r] # "committed"
        <5>1. /\ stamp' = [stamp EXCEPT ![r] = 0]
              /\ payload' = [payload EXCEPT ![r] = {}]
          BY <2>12, <4>2 DEF Crash, Abandon
        <5>2. QED
          BY <5>1 DEF TypeOK
      <4>3. QED
        BY <4>1, <4>2
    <3>2. step' \in [Run -> {"new"} \cup Active \cup Ended]
      BY <2>12 DEF TypeOK, Active, Ended, Crash
    <3>3. QED
      BY <2>12, <3>1, <3>2 DEF TypeOK, Active, Ended, Crash, Abandon, catalogVars
  <2>13. CASE UNCHANGED vars
    BY <2>13 DEF TypeOK, Active, Ended, vars, runVars, txVars, catalogVars
  <2>14. QED
    BY <2>1, <2>2, <2>3, <2>4, <2>5, <2>6, <2>7, <2>8, <2>9, <2>10, <2>11, <2>12, <2>13
       DEF Next, Progress, Fail, RejectPayload, Conflict, DeadlockVictim
<1>3. QED
  BY <1>1, <1>2, PTL DEF Spec

-----------------------------------------------------------------------------
(* Stamps and transactions                                                    *)

\* A run's stamp is its own while the run may still commit, and every row of
\* its transaction carries it.
StampInv ==
    /\ \A r \in Run : stamp[r] <= now
    /\ \A r, o \in Run : r # o /\ InFlight(r) /\ InFlight(o) => stamp[r] # stamp[o]
    /\ \A r \in Run : txRevs[r] # {} \/ txMem[r] # {} => step[r] = "ingesting"
    /\ \A r \in Run : \A x \in txRevs[r] : x.avail = stamp[r]
    /\ \A r \in Run : \A m \in txMem[r] : m.from = stamp[r]

\* The unique constraints, over committed rows and open transactions.
KeyInv ==
    /\ \A x, y \in revs : x.ev = y.ev /\ x.ver = y.ver => x = y
    /\ \A r \in Run : \A x \in txRevs[r] : \A y \in revs : x.ev = y.ev => x.ver # y.ver
    /\ \A r, o \in Run : r # o =>
         \A x \in txRevs[r] : \A y \in txRevs[o] : x.ev = y.ev =>
            x.ver # y.ver /\ \E z \in revs : z.ev = x.ev

\* Memberships, committed and pending.
MemInv ==
    /\ OneMembership
    /\ \A r \in Run : \A x \in txRevs[r] : \E m \in mem \cup txMem[r] : m.ev = x.ev
    /\ \A r \in Run : \A m \in txMem[r] :
        /\ \E x \in txRevs[r] : x.ev = m.ev
        /\ \A n \in mem : n.ev # m.ev
        /\ \A n \in txMem[r] : n.ev = m.ev => n = m

IInv == TypeOK /\ StampInv /\ KeyInv /\ MemInv

\* As far as the rows are concerned, a step rolls a transaction back, commits
\* it, inserts one revision, or changes nothing.
SameRows == UNCHANGED <<revs, mem, txRevs, txMem>>
Rollback(r) ==
    /\ txRevs' = [txRevs EXCEPT ![r] = {}]
    /\ txMem' = [txMem EXCEPT ![r] = {}]
    /\ UNCHANGED <<revs, mem>>

\* Every step of ingestion is one of four things to the rows: nothing, a rollback,
\* a commit, or one revision written inside a run's transaction.
LEMMA RowSteps ==
    [Next]_vars =>
        \/ SameRows
        \/ \E r \in Run : \/ Rollback(r) \/ Commit(r)
                          \/ \E e \in Event, v \in Version : InsertRevision(r, e, v)
BY DEF Next, Progress, SameRows, Rollback, vars, txVars, catalogVars, runVars,
       Publish, StartRun, Stamp, Receive, StoreArtifact, SkipKnown, Block, Finish,
       Fail, RejectPayload, Conflict, DeadlockVictim, Fails, Abandon, Crash

\* What an insert adds to the run's transaction.
LEMMA InsertAdds ==
    ASSUME TypeOK, NEW r \in Run, NEW e \in Event, NEW v \in Version,
           InsertRevision(r, e, v)
    PROVE  /\ \E new :
                /\ txMem' = [txMem EXCEPT ![r] = @ \cup new]
                /\ \A m \in new : m.ev = e /\ m.from = stamp[r]
                /\ \A m, n \in new : m = n
                /\ \E m \in mem \cup txMem[r] \cup new : m.ev = e
                /\ new # {} => \A m \in mem \cup txMem[r] : m.ev # e
           /\ txRevs' = [txRevs EXCEPT ![r] =
                            @ \cup {[ev |-> e, ver |-> v, avail |-> stamp[r]]}]
           /\ UNCHANGED <<revs, mem, stamp, step, now>>
<1> DEFINE rev == [ev |-> e, ver |-> v, avail |-> stamp[r]]
<1>1. rev \in Revision /\ rev.ev = e /\ rev.avail = stamp[r]
  BY DEF Revision, TypeOK
<1>2. mem \cup txMem[r] \subseteq Membership
  BY DEF TypeOK
<1>3. PICK new \in Links(rev, revs \cup txRevs[r], mem \cup txMem[r]) :
        txMem' = [txMem EXCEPT ![r] = @ \cup new]
  BY DEF InsertRevision
<1>4. /\ \A m \in new : m.ev = rev.ev /\ m.from = rev.avail
      /\ \A m, n \in new : m = n
      /\ \E m \in mem \cup txMem[r] \cup new : m.ev = rev.ev
      /\ new # {} => \A m \in mem \cup txMem[r] : m.ev # rev.ev
  <2> HIDE DEF rev
  <2> QED
    BY <1>1, <1>2, <1>3, LinksAddOwn
<1>5. QED
  BY <1>1, <1>3, <1>4 DEF InsertRevision, catalogVars

\* A pending revision's content is neither committed nor pending elsewhere, and
\* an event two transactions share is committed already.
LEMMA InsertIsFresh ==
    ASSUME TypeOK, NEW r \in Run, NEW e \in Event, NEW v \in Version,
           InsertRevision(r, e, v)
    PROVE  /\ \A y \in revs : y.ev = e => y.ver # v
           /\ \A o \in Run \ {r} : \A y \in txRevs[o] : y.ev = e =>
                y.ver # v /\ \E z \in revs : z.ev = e
<1>1. CanInsert(r, RowKey(e, v))
  BY DEF InsertRevision
<1>2. RowKey(e, v) \notin RevKeys(revs)
  BY <1>1 DEF CanInsert, CommittedKeys
<1>3. \A o \in Run \ {r} : RowKey(e, v) \notin RevKeys(txRevs[o])
  BY <1>1 DEF CanInsert, Holder, HeldKeys
<1>4. CASE EventKey(e) \in RevKeys(revs)
  <2>1. RowKey(e, v) = RevisionKey(e, v)
    BY <1>4 DEF RowKey
  <2>2. \A R : (\E y \in R : y.ev = e /\ y.ver = v) => RevisionKey(e, v) \in RevKeys(R)
    BY DEF RevKeys
  <2>3. \E z \in revs : z.ev = e
    BY <1>4 DEF RevKeys, EventKey, RevisionKey
  <2>4. QED
    BY <1>2, <1>3, <2>1, <2>2, <2>3
<1>5. CASE EventKey(e) \notin RevKeys(revs)
  <2>1. RowKey(e, v) = EventKey(e)
    BY <1>5 DEF RowKey
  <2>2. \A R : (\E y \in R : y.ev = e) => EventKey(e) \in RevKeys(R)
    BY DEF RevKeys
  <2>3. QED
    BY <1>2, <1>3, <2>1, <2>2
<1>6. QED
  BY <1>4, <1>5

-----------------------------------------------------------------------------
(* Each part of the invariant is preserved                                    *)

\* A step keeps the stamps: runs that may still commit have stamps of their own,
\* none ahead of the clock, and every row they wrote carries theirs.
LEMMA StampStep == TypeOK /\ StampInv /\ [Next]_vars => StampInv'
<1> SUFFICES ASSUME TypeOK, StampInv, [Next]_vars PROVE StampInv'
  OBVIOUS
<1>2. ASSUME NEW e \in Event, NEW v \in Version, Publish(e, v) PROVE StampInv'
  BY <1>2 DEF Publish, StampInv, InFlight, runVars, txVars
<1>3. ASSUME NEW r \in Run, NEW q \in Query, StartRun(r, q) PROVE StampInv'
  BY <1>3 DEF StartRun, StampInv, InFlight, TypeOK, txVars
<1>4. ASSUME NEW r \in Run, Stamp(r) PROVE StampInv'
  <2>1. now' = now + 1 /\ stamp' = [stamp EXCEPT ![r] = now + 1]
    BY <1>4 DEF Stamp
  <2>2. txRevs[r] = {} /\ txMem[r] = {}
    BY <1>4 DEF Stamp, StampInv
  <2>3. UNCHANGED <<txRevs, txMem>> /\ step' = [step EXCEPT ![r] = "requesting"]
    BY <1>4 DEF Stamp, txVars
  <2>4. \A o \in Run : stamp'[o] <= now'
    BY <2>1 DEF StampInv, TypeOK
  <2>5. \A a, b \in Run : a # b /\ InFlight(a)' /\ InFlight(b)' => stamp'[a] # stamp'[b]
    BY <2>1, <2>3 DEF StampInv, TypeOK, InFlight
  <2>6. \A o \in Run : txRevs'[o] # {} \/ txMem'[o] # {} => step'[o] = "ingesting"
    BY <2>2, <2>3 DEF StampInv, TypeOK
  <2>7. /\ \A o \in Run : \A x \in txRevs'[o] : x.avail = stamp'[o]
        /\ \A o \in Run : \A m \in txMem'[o] : m.from = stamp'[o]
    BY <2>1, <2>2, <2>3 DEF StampInv, TypeOK
  <2>8. QED
    BY <2>4, <2>5, <2>6, <2>7 DEF StampInv
<1>5. ASSUME NEW r \in Run, Receive(r) PROVE StampInv'
  BY <1>5 DEF Receive, StampInv, InFlight, TypeOK, txVars
<1>6. ASSUME NEW r \in Run, StoreArtifact(r) PROVE StampInv'
  BY <1>6 DEF StoreArtifact, StampInv, InFlight, TypeOK
<1>7. ASSUME NEW r \in Run, NEW e \in Event, NEW v \in Version, SkipKnown(r, e, v)
      PROVE  StampInv'
  BY <1>7 DEF SkipKnown, StampInv, InFlight, TypeOK, txVars
<1>8. ASSUME NEW r \in Run, NEW e \in Event, NEW v \in Version, InsertRevision(r, e, v)
      PROVE  StampInv'
  <2>1. PICK new : /\ txMem' = [txMem EXCEPT ![r] = @ \cup new]
                   /\ \A m \in new : m.ev = e /\ m.from = stamp[r]
                   /\ \A m, n \in new : m = n
                   /\ \E m \in mem \cup txMem[r] \cup new : m.ev = e
                   /\ new # {} => \A m \in mem \cup txMem[r] : m.ev # e
    BY <1>8, InsertAdds, Zenon
  <2>2. /\ txRevs' = [txRevs EXCEPT ![r] = @ \cup {[ev |-> e, ver |-> v, avail |-> stamp[r]]}]
        /\ UNCHANGED <<stamp, step, now>>
    BY <1>8, InsertAdds
  <2>3. step[r] = "ingesting"
    BY <1>8 DEF InsertRevision
  <2>4. \A o \in Run : \A x \in txRevs'[o] : x.avail = stamp'[o]
    BY <2>2 DEF StampInv, TypeOK
  <2>5. \A o \in Run : \A m \in txMem'[o] : m.from = stamp'[o]
    BY <2>1, <2>2 DEF StampInv, TypeOK
  <2>6. \A o \in Run : txRevs'[o] # {} \/ txMem'[o] # {} => step'[o] = "ingesting"
    BY <2>1, <2>2, <2>3 DEF StampInv, TypeOK
  <2>7. QED
    BY <2>2, <2>4, <2>5, <2>6 DEF StampInv, InFlight
<1>9. ASSUME NEW r \in Run, Block(r) PROVE StampInv'
  BY <1>9 DEF Block, StampInv, InFlight, TypeOK, txVars
<1>10. ASSUME NEW r \in Run, Commit(r) PROVE StampInv'
  BY <1>10 DEF Commit, StampInv, InFlight, TypeOK
<1>11. ASSUME NEW r \in Run, Finish(r) PROVE StampInv'
  BY <1>11 DEF Finish, StampInv, InFlight, TypeOK, txVars
\* Leaving the run empties its transaction; its stamp is kept or forgotten.
<1>12. ASSUME NEW r \in Run, Abandon(r), step' = [step EXCEPT ![r] = "ended"] \/
                                         step' = [step EXCEPT ![r] = "crashed"]
       PROVE  StampInv'
  <2>1. stamp' = stamp \/ stamp' = [stamp EXCEPT ![r] = 0]
    BY <1>12 DEF Abandon
  <2>2. /\ txRevs' = [txRevs EXCEPT ![r] = {}]
        /\ txMem' = [txMem EXCEPT ![r] = {}]
        /\ now' = now
    BY <1>12 DEF Abandon
  <2>3. \A o \in Run : stamp'[o] <= now'
    BY <2>1, <2>2 DEF StampInv, TypeOK
  <2>4. ~InFlight(r)' /\ \A o \in Run \ {r} : InFlight(o)' = InFlight(o) /\ stamp'[o] = stamp[o]
    BY <1>12, <2>1 DEF InFlight, TypeOK
  <2>5. \A a, b \in Run : a # b /\ InFlight(a)' /\ InFlight(b)' => stamp'[a] # stamp'[b]
    BY <2>4 DEF StampInv
  <2>6. \A o \in Run : txRevs'[o] # {} \/ txMem'[o] # {} => step'[o] = "ingesting"
    BY <1>12, <2>2 DEF StampInv, TypeOK
  <2>7. /\ \A o \in Run : \A x \in txRevs'[o] : x.avail = stamp'[o]
        /\ \A o \in Run : \A m \in txMem'[o] : m.from = stamp'[o]
    BY <2>2, <2>4 DEF StampInv, TypeOK
  <2>8. QED
    BY <2>3, <2>5, <2>6, <2>7 DEF StampInv
<1>13. CASE UNCHANGED vars
  BY <1>13 DEF vars, runVars, txVars, StampInv, InFlight
<1>14. QED
  BY <1>2, <1>3, <1>4, <1>5, <1>6, <1>7, <1>8, <1>9, <1>10, <1>11, <1>12, <1>13
     DEF Next, Progress, Fail, RejectPayload, Conflict, DeadlockVictim, Fails, Crash

\* A step keeps the unique keys: one event's revisions never share a content hash,
\* across committed rows and rows still inside a transaction (service.py:219).
LEMMA KeyStep == TypeOK /\ StampInv /\ KeyInv /\ [Next]_vars => KeyInv'
<1> SUFFICES ASSUME TypeOK, StampInv, KeyInv, [Next]_vars PROVE KeyInv'
  OBVIOUS
<1>1. CASE SameRows
  BY <1>1 DEF SameRows, KeyInv
<1>2. ASSUME NEW r \in Run, Rollback(r) PROVE KeyInv'
  BY <1>2 DEF Rollback, KeyInv, TypeOK
<1>3. ASSUME NEW r \in Run, NEW e \in Event, NEW v \in Version, InsertRevision(r, e, v)
      PROVE  KeyInv'
  <2>1. /\ txRevs' = [txRevs EXCEPT ![r] = @ \cup {[ev |-> e, ver |-> v, avail |-> stamp[r]]}]
        /\ UNCHANGED revs
    BY <1>3, InsertAdds
  <2>2. /\ \A y \in revs : y.ev = e => y.ver # v
        /\ \A o \in Run \ {r} : \A y \in txRevs[o] : y.ev = e =>
             y.ver # v /\ \E z \in revs : z.ev = e
    BY <1>3, InsertIsFresh
  <2>3. \A o \in Run : \A x \in txRevs'[o] :
          x \in txRevs[o] \/ (o = r /\ x.ev = e /\ x.ver = v)
    BY <2>1 DEF TypeOK
  <2>4. \A o \in Run : \A x \in txRevs'[o] : \A y \in revs : x.ev = y.ev => x.ver # y.ver
    BY <2>2, <2>3 DEF KeyInv
  <2>5. \A a, b \in Run : a # b => \A x \in txRevs'[a] : \A y \in txRevs'[b] :
          x.ev = y.ev => x.ver # y.ver /\ \E z \in revs : z.ev = x.ev
    BY <2>2, <2>3 DEF KeyInv
  <2>6. QED
    BY <2>1, <2>4, <2>5 DEF KeyInv
<1>4. ASSUME NEW r \in Run, Commit(r) PROVE KeyInv'
  <2>1. revs' = revs \cup txRevs[r] /\ txRevs' = [txRevs EXCEPT ![r] = {}]
    BY <1>4 DEF Commit
  <2>2. \A x, y \in txRevs[r] : x.ev = y.ev /\ x.ver = y.ver => x = y
    <3>1. \A x \in Revision : x = [ev |-> x.ev, ver |-> x.ver, avail |-> x.avail]
      BY DEF Revision
    <3>2. \A x \in txRevs[r] : x \in Revision /\ x.avail = stamp[r]
      BY DEF StampInv, TypeOK
    <3>3. QED
      BY <3>1, <3>2
  <2>3. \A x, y \in revs' : x.ev = y.ev /\ x.ver = y.ver => x = y
    BY <2>1, <2>2 DEF KeyInv
  <2>4. \A o \in Run : \A x \in txRevs'[o] : o # r /\ x \in txRevs[o]
    BY <2>1 DEF TypeOK
  <2>5. \A o \in Run : \A x \in txRevs'[o] : \A y \in revs' : x.ev = y.ev => x.ver # y.ver
    BY <2>1, <2>4 DEF KeyInv
  <2>6. \A a, b \in Run : a # b => \A x \in txRevs'[a] : \A y \in txRevs'[b] :
          x.ev = y.ev => x.ver # y.ver /\ \E z \in revs' : z.ev = x.ev
    BY <2>1, <2>4 DEF KeyInv
  <2>7. QED
    BY <2>3, <2>5, <2>6 DEF KeyInv
<1>5. QED
  BY <1>1, <1>2, <1>3, <1>4, RowSteps

\* Two open transactions never found a membership of the same source event: both
\* would hold a revision of it, so it would have a membership already.
LEMMA PendingMembersApart ==
    ASSUME KeyInv, MemInv, NEW r \in Run, NEW o \in Run, r # o,
           NEW m \in txMem[r], NEW n \in txMem[o]
    PROVE  m.ev # n.ev
<1> SUFFICES ASSUME m.ev = n.ev PROVE FALSE
  OBVIOUS
<1>1. PICK x \in txRevs[r] : x.ev = m.ev
  BY DEF MemInv
<1>2. PICK y \in txRevs[o] : y.ev = n.ev
  BY DEF MemInv
<1>3. \E z \in revs : z.ev = m.ev
  BY <1>1, <1>2 DEF KeyInv
<1>4. \E k \in mem : k.ev = m.ev
  BY <1>3 DEF MemInv, OneMembership
<1>5. QED
  BY <1>4 DEF MemInv

\* A step keeps memberships paired with revisions, committed and pending: an event
\* with a revision has a membership, and a pending one is the event's first.
LEMMA MemStep == TypeOK /\ KeyInv /\ MemInv /\ [Next]_vars => MemInv'
<1> SUFFICES ASSUME TypeOK, KeyInv, MemInv, [Next]_vars PROVE MemInv'
  OBVIOUS
<1>1. CASE SameRows
  BY <1>1 DEF SameRows, MemInv, OneMembership
<1>2. ASSUME NEW r \in Run, Rollback(r) PROVE MemInv'
  BY <1>2 DEF Rollback, MemInv, OneMembership, TypeOK
<1>3. ASSUME NEW r \in Run, NEW e \in Event, NEW v \in Version, InsertRevision(r, e, v)
      PROVE  MemInv'
  <2> DEFINE rev == [ev |-> e, ver |-> v, avail |-> stamp[r]]
  <2>1. PICK new :
          /\ txMem' = [txMem EXCEPT ![r] = @ \cup new]
          /\ \A m \in new : m.ev = e /\ m.from = stamp[r]
          /\ \A m, n \in new : m = n
          /\ \E m \in mem \cup txMem[r] \cup new : m.ev = e
          /\ new # {} => \A m \in mem \cup txMem[r] : m.ev # e
    BY <1>3, InsertAdds, Zenon
  <2>2. txRevs' = [txRevs EXCEPT ![r] = @ \cup {rev}] /\ UNCHANGED <<revs, mem>>
    BY <1>3, InsertAdds
  <2>3. rev.ev = e
    OBVIOUS
  <2> HIDE DEF rev
  <2>4. /\ txMem'[r] = txMem[r] \cup new /\ txRevs'[r] = txRevs[r] \cup {rev}
        /\ \A o \in Run \ {r} : txMem'[o] = txMem[o] /\ txRevs'[o] = txRevs[o]
    BY <2>1, <2>2 DEF TypeOK
  <2>5. \A o \in Run : \A x \in txRevs'[o] : \E m \in mem \cup txMem'[o] : m.ev = x.ev
    BY <2>1, <2>3, <2>4 DEF MemInv
  <2>6. \A o \in Run : \A m \in txMem'[o] :
          /\ \E x \in txRevs'[o] : x.ev = m.ev
          /\ \A n \in mem : n.ev # m.ev
          /\ \A n \in txMem'[o] : n.ev = m.ev => n = m
    BY <2>1, <2>3, <2>4 DEF MemInv
  <2>7. OneMembership'
    BY <2>2 DEF MemInv, OneMembership
  <2>8. QED
    BY <2>2, <2>5, <2>6, <2>7 DEF MemInv
<1>4. ASSUME NEW r \in Run, Commit(r) PROVE MemInv'
  <2>1. /\ revs' = revs \cup txRevs[r] /\ mem' = mem \cup txMem[r]
        /\ txMem'[r] = {} /\ txRevs'[r] = {}
        /\ \A o \in Run \ {r} : txMem'[o] = txMem[o] /\ txRevs'[o] = txRevs[o]
    BY <1>4 DEF Commit, TypeOK
  <2>2. \A m, n \in mem' : m.ev = n.ev => m = n
    BY <2>1 DEF MemInv, OneMembership
  <2>3. \A x \in revs' : \E m \in mem' : m.ev = x.ev
    BY <2>1 DEF MemInv, OneMembership
  <2>4. \A o \in Run : \A x \in txRevs'[o] : \E m \in mem' \cup txMem'[o] : m.ev = x.ev
    BY <2>1 DEF MemInv
  <2>5. \A o \in Run : \A m \in txMem'[o] : \A n \in txMem[r] : n.ev # m.ev
    BY <2>1, PendingMembersApart
  <2>6. \A o \in Run : \A m \in txMem'[o] :
          /\ \E x \in txRevs'[o] : x.ev = m.ev
          /\ \A n \in mem' : n.ev # m.ev
          /\ \A n \in txMem'[o] : n.ev = m.ev => n = m
    BY <2>1, <2>5 DEF MemInv
  <2>7. QED
    BY <2>2, <2>3, <2>4, <2>6 DEF MemInv, OneMembership
<1>5. QED
  BY <1>1, <1>2, <1>3, <1>4, RowSteps

-----------------------------------------------------------------------------
(* The theorems                                                               *)

\* The inductive invariant holds in every reachable state, for any number of
\* runs, events and versions; the theorems below are read off it.
THEOREM Invariance == Spec => []IInv
<1>1. Init => IInv
  <2>1. Init => TypeOK
    BY DEF Init, TypeOK, Active, Ended
  <2>2. Init => StampInv /\ KeyInv /\ MemInv
    BY DEF Init, StampInv, KeyInv, MemInv, OneMembership, InFlight
  <2>3. QED
    BY <2>1, <2>2 DEF IInv
<1>2. TypeOK /\ TypeOK' /\ IInv /\ [Next]_vars => IInv'
  BY StampStep, KeyStep, MemStep DEF IInv
<1>3. QED
  BY <1>1, <1>2, TypeCorrect, PTL DEF Spec

\* However runs overlap, fail or crash, a source event never has two current
\* memberships, and none of its revisions is left without one.
THEOREM OneMembershipHolds == Spec => []OneMembership
<1>1. IInv => OneMembership
  BY DEF IInv, MemInv
<1>2. QED
  BY <1>1, Invariance, PTL

\* Once the clock has passed t and no run stamped at or before t may still
\* commit, every as-of-t read of the catalog is final: the rows a commit adds
\* are stamped after t, and no other step adds any.
THEOREM AsOfReadsSettle == Spec => AsOfSettled
<1> DEFINE Settled ==
        \A t \in 0 .. now : SettledAt(t) =>
            /\ VisibleRevs(revs', t) = VisibleRevs(revs, t)
            /\ VisibleMembers(mem', t) = VisibleMembers(mem, t)
<1>1. IInv /\ [Next]_vars => Settled
  <2> SUFFICES ASSUME IInv, [Next]_vars, NEW t \in 0 .. now, SettledAt(t)
               PROVE  /\ VisibleRevs(revs', t) = VisibleRevs(revs, t)
                      /\ VisibleMembers(mem', t) = VisibleMembers(mem, t)
    OBVIOUS
  <2>1. CASE UNCHANGED <<revs, mem>>
    BY <2>1
  <2>2. ASSUME NEW r \in Run, Commit(r)
        PROVE  /\ VisibleRevs(revs', t) = VisibleRevs(revs, t)
               /\ VisibleMembers(mem', t) = VisibleMembers(mem, t)
    <3>1. stamp[r] > t
      BY <2>2 DEF Commit, SettledAt, InFlight
    <3>2. /\ \A x \in txRevs[r] : x.avail = stamp[r]
          /\ \A m \in txMem[r] : m.from = stamp[r]
      BY DEF IInv, StampInv
    <3>3. stamp[r] \in Nat /\ t \in Nat
      BY DEF IInv, TypeOK
    <3>4. revs' = revs \cup txRevs[r] /\ mem' = mem \cup txMem[r]
      BY <2>2 DEF Commit
    <3>5. QED
      BY <3>1, <3>2, <3>3, <3>4 DEF VisibleRevs, VisibleMembers
  <2>3. CASE \E r \in Run : Rollback(r)
    BY <2>1, <2>3 DEF Rollback
  <2>4. CASE SameRows
    BY <2>1, <2>4 DEF SameRows
  <2>5. CASE \E r \in Run, e \in Event, v \in Version : InsertRevision(r, e, v)
    BY <2>1, <2>5 DEF InsertRevision, catalogVars
  <2>6. QED
    BY <2>2, <2>3, <2>4, <2>5, RowSteps
<1>2. QED
  BY <1>1, Invariance, PTL DEF Spec, AsOfSettled

-----------------------------------------------------------------------------
(* Refinement                                                                 *)

OpenStamps == {stamp[r] : r \in {o \in Run : InFlight(o)}}

\* A run that leaves flight closes its own stamp and no other.
LEMMA LeavingCloses ==
    ASSUME StampInv, NEW r \in Run, InFlight(r), ~InFlight(r)',
           \A o \in Run \ {r} : InFlight(o)' = InFlight(o) /\ stamp'[o] = stamp[o]
    PROVE  stamp[r] \in OpenStamps /\ OpenStamps' = OpenStamps \ {stamp[r]}
BY DEF OpenStamps, StampInv

\* A step in which no run starts, stamps or ends leaves the open stamps alone.
LEMMA StayingKeeps ==
    ASSUME \A o \in Run : InFlight(o)' = InFlight(o) /\ (InFlight(o) => stamp'[o] = stamp[o])
    PROVE  OpenStamps' = OpenStamps
BY DEF OpenStamps

\* A run that gives up drops its batch, if it still had one to add.
LEMMA AbandonDrops ==
    ASSUME TypeOK, StampInv, NEW r \in Run, Abandon(r),
           step' = [step EXCEPT ![r] = "ended"] \/ step' = [step EXCEPT ![r] = "crashed"]
    PROVE  \/ UNCHANGED <<now, OpenStamps, revs, mem>>
           \/ \E t \in OpenStamps :
                 OpenStamps' = OpenStamps \ {t} /\ UNCHANGED <<now, revs, mem>>
<1>1. UNCHANGED <<now, revs, mem>>
  BY DEF Abandon, catalogVars
<1>2. stamp' = stamp \/ stamp' = [stamp EXCEPT ![r] = 0]
  BY DEF Abandon
<1>3. ~InFlight(r)' /\ \A o \in Run \ {r} : InFlight(o)' = InFlight(o) /\ stamp'[o] = stamp[o]
  BY <1>2 DEF InFlight, TypeOK
<1>4. CASE InFlight(r)
  BY <1>1, <1>3, <1>4, LeavingCloses
<1>5. CASE ~InFlight(r)
  <2>1. \A o \in Run : InFlight(o)' = InFlight(o) /\ (InFlight(o) => stamp'[o] = stamp[o])
    BY <1>3, <1>5 DEF InFlight
  <2>2. QED
    BY <1>1, <2>1, StayingKeeps
<1>6. QED
  BY <1>4, <1>5

\* A commit adds the batch the abstract log expects under the run's stamp.
LEMMA CommitAppends ==
    ASSUME IInv, NEW r \in Run, Commit(r)
    PROVE  Abstract!Append(stamp[r])
<1>1. /\ revs' = revs \cup txRevs[r] /\ mem' = mem \cup txMem[r]
      /\ UNCHANGED <<now, stamp>> /\ step' = [step EXCEPT ![r] = "committed"]
  BY DEF Commit
<1>2. stamp[r] \in OpenStamps /\ OpenStamps' = OpenStamps \ {stamp[r]}
  <2>1. InFlight(r) /\ ~InFlight(r)'
    BY <1>1 DEF Commit, InFlight, IInv, TypeOK
  <2>2. \A o \in Run \ {r} : InFlight(o)' = InFlight(o) /\ stamp'[o] = stamp[o]
    BY <1>1 DEF InFlight, IInv, TypeOK
  <2>3. QED
    BY <2>1, <2>2, LeavingCloses DEF IInv
<1>3. KeyInv' /\ MemInv'
  <2>1. [Next]_vars
    BY DEF Next, Progress
  <2>2. QED
    BY <2>1, KeyStep, MemStep DEF IInv
<1>4. \A x \in revs' \ revs :
        /\ x.avail = stamp[r]
        /\ \A y \in revs' : y.ev = x.ev /\ y.ver = x.ver => y = x
        /\ \E m \in mem' : m.ev = x.ev
  BY <1>1, <1>3 DEF IInv, StampInv, KeyInv, MemInv, OneMembership
<1>5. \A m \in mem' \ mem :
        /\ m.from = stamp[r]
        /\ \E x \in revs' \ revs : x.ev = m.ev
        /\ \A n \in mem' : n.ev = m.ev => n = m
  <2> SUFFICES ASSUME NEW m \in mem' \ mem
               PROVE  /\ m.from = stamp[r]
                      /\ \E x \in revs' \ revs : x.ev = m.ev
                      /\ \A n \in mem' : n.ev = m.ev => n = m
    OBVIOUS
  <2>1. m \in txMem[r]
    BY <1>1
  <2>2. PICK x \in txRevs[r] : x.ev = m.ev
    BY <2>1 DEF IInv, MemInv
  <2>3. x \notin revs
    BY <2>2 DEF IInv, KeyInv
  <2>4. \A n \in mem' : n.ev = m.ev => n = m
    BY <1>3 DEF MemInv, OneMembership
  <2>5. QED
    BY <1>1, <2>1, <2>2, <2>3, <2>4 DEF IInv, StampInv
<1>6. QED
  BY <1>1, <1>2, <1>4, <1>5 DEF Abstract!Append, OpenStamps

\* The catalog ingestion writes is the append-only log of whole batches, one per
\* stamp and each content once, that AbstractCatalog describes.
THEOREM LogRefinement == Spec => ImplementsLog
<1>1. Init => Abstract!Init
  BY DEF Init, Abstract!Init, InFlight
<1>2. IInv /\ [Next]_vars => [Abstract!Next]_(Abstract!vars)
  <2> SUFFICES ASSUME IInv, [Next]_vars PROVE [Abstract!Next]_(Abstract!vars)
    OBVIOUS
  <2> USE DEF IInv
  <2>1. ASSUME UNCHANGED <<now, OpenStamps, revs, mem>> PROVE [Abstract!Next]_(Abstract!vars)
    BY <2>1 DEF Abstract!vars, OpenStamps
  <2>2. ASSUME NEW t \in OpenStamps, OpenStamps' = OpenStamps \ {t}, UNCHANGED <<now, revs, mem>>
        PROVE  [Abstract!Next]_(Abstract!vars)
    BY <2>2 DEF Abstract!Next, Abstract!Drop, OpenStamps
  <2>3. ASSUME NEW r \in Run, Stamp(r) PROVE [Abstract!Next]_(Abstract!vars)
    <3>1. now' = now + 1 /\ UNCHANGED <<revs, mem>>
      BY <2>3 DEF Stamp, catalogVars
    <3>2. /\ ~InFlight(r) /\ InFlight(r)' /\ stamp'[r] = now + 1
          /\ \A o \in Run \ {r} : InFlight(o)' = InFlight(o) /\ stamp'[o] = stamp[o]
      BY <2>3 DEF Stamp, InFlight, TypeOK
    <3>3. OpenStamps' = OpenStamps \cup {now + 1}
      BY <3>2 DEF OpenStamps
    <3>4. QED
      BY <3>1, <3>3 DEF Abstract!Next, Abstract!Open, OpenStamps
  <2>4. ASSUME NEW r \in Run, Commit(r) PROVE [Abstract!Next]_(Abstract!vars)
    <3>1. stamp[r] \in OpenStamps
      BY <2>4 DEF Commit, OpenStamps, InFlight
    <3>2. Abstract!Append(stamp[r])
      BY <2>4, CommitAppends
    <3>3. QED
      BY <3>1, <3>2 DEF Abstract!Next, Abstract!Append, OpenStamps
  <2>5. ASSUME NEW r \in Run, Fails(r) \/ Crash(r) PROVE [Abstract!Next]_(Abstract!vars)
    <3>1. /\ Abandon(r)
          /\ step' = [step EXCEPT ![r] = "ended"] \/ step' = [step EXCEPT ![r] = "crashed"]
      BY <2>5 DEF Fails, Crash
    <3>2. QED
      BY <2>1, <2>2, <3>1, AbandonDrops
  <2>6. ASSUME NEW e \in Event, NEW v \in Version, Publish(e, v)
        PROVE  UNCHANGED <<now, OpenStamps, revs, mem>>
    BY <2>6 DEF Publish, runVars, catalogVars, OpenStamps, InFlight
  <2>7. ASSUME NEW r \in Run, NEW q \in Query, StartRun(r, q)
        PROVE  UNCHANGED <<now, OpenStamps, revs, mem>>
    <3>1. \A o \in Run : InFlight(o)' = InFlight(o) /\ stamp'[o] = stamp[o]
      BY <2>7 DEF StartRun, InFlight, TypeOK
    <3>2. QED
      BY <2>7, <3>1, StayingKeeps DEF StartRun, catalogVars
  \* Steps of a run that stays in flight, or out of it.
  <2>8. ASSUME NEW r \in Run,
               \/ Receive(r) \/ StoreArtifact(r) \/ Block(r) \/ Finish(r)
               \/ \E e \in Event, v \in Version : SkipKnown(r, e, v) \/ InsertRevision(r, e, v)
        PROVE  UNCHANGED <<now, OpenStamps, revs, mem>>
    <3>1. /\ UNCHANGED <<now, stamp, revs, mem>>
          /\ step' = step \/ \/ /\ step[r] \in {"requesting", "received"}
                                /\ \/ step' = [step EXCEPT ![r] = "received"]
                                   \/ step' = [step EXCEPT ![r] = "ingesting"]
                             \/ /\ step[r] = "committed"
                                /\ step' = [step EXCEPT ![r] = "ended"]
      BY <2>8 DEF Receive, StoreArtifact, Block, Finish, SkipKnown, InsertRevision, catalogVars
    <3>2. \A o \in Run : InFlight(o)' = InFlight(o)
      BY <3>1 DEF InFlight, TypeOK
    <3>3. QED
      BY <3>1, <3>2, StayingKeeps
  <2>9. ASSUME UNCHANGED vars PROVE UNCHANGED <<now, OpenStamps, revs, mem>>
    BY <2>9 DEF vars, runVars, catalogVars, OpenStamps, InFlight
  <2>10. QED
    BY <2>1, <2>3, <2>4, <2>5, <2>6, <2>7, <2>8, <2>9
       DEF Next, Progress, Fail, RejectPayload, Conflict, DeadlockVictim
<1>3. QED
  BY <1>1, <1>2, Invariance, PTL DEF Spec, ImplementsLog, Abstract!Spec

-----------------------------------------------------------------------------
(* Runs of one source kept apart                                              *)

\* Without overlap two active runs have different sources.
SerialInv ==
    /\ \A r \in Run : step[r] \in Active => query[r] \in Query
    /\ \A r, o \in Run : r # o /\ step[r] \in Active /\ step[o] \in Active =>
                            RunSource(r) # RunSource(o)
    /\ \A r \in Run : step[r] \in {"received", "ingesting"} =>
                            \A p \in todo[r] : p[1] \in query[r]

\* A run writes events of its source only, and what its source has in the
\* catalog while the run may commit was retrieved before.
OwnInv ==
    /\ \A r \in Run : \A x \in txRevs[r] : SourceOf[x.ev] = RunSource(r)
    /\ \A r \in Run : \A m \in txMem[r] : SourceOf[m.ev] = RunSource(r)
    /\ \A x \in revs : x.avail <= now
    /\ \A m \in mem : m.from <= now
    /\ \A r \in Run : InFlight(r) =>
        /\ \A x \in revs : SourceOf[x.ev] = RunSource(r) => x.avail < stamp[r]
        /\ \A m \in mem : SourceOf[m.ev] = RunSource(r) => m.from < stamp[r]

\* MembershipCoversRevisions, with the rows of the open transactions.
Covered(x, M) == \E m \in M : m.ev = x.ev /\ m.from <= x.avail
Founded(m, M) == \E n \in M : n.ev = m.canon /\ n.canon = m.canon /\ n.from <= m.from
CoverInv ==
    /\ \A x \in revs : Covered(x, mem)
    /\ \A m \in mem : Founded(m, mem)
    /\ \A r \in Run : \A x \in txRevs[r] : Covered(x, mem \cup txMem[r])
    /\ \A r \in Run : \A m \in txMem[r] : Founded(m, mem \cup txMem[r])

\* OneSourcePerCanonical, with the rows of the open transactions.
Apart(m, n) == m.canon = n.canon /\ SourceOf[m.ev] = SourceOf[n.ev] => m.ev = n.ev
ApartInv ==
    /\ \A m, n \in mem : Apart(m, n)
    /\ \A r \in Run : \A m \in txMem[r] : \A n \in mem \cup txMem[r] : Apart(m, n)

\* The events of a query have one source, the run's.
LEMMA QuerySource ==
    ASSUME NEW r \in Run, query[r] \in Query, NEW e \in query[r]
    PROVE  SourceOf[e] = RunSource(r)
  BY IngestionAssumption DEF RunSource

\* Steps that start no run.
LEMMA SerialFrame ==
    ASSUME SerialInv,
           \A r \in Run : /\ step'[r] \in Active => step[r] \in Active /\ query'[r] = query[r]
                          /\ step'[r] \in {"received", "ingesting"} =>
                                \A p \in todo'[r] : p[1] \in query[r]
    PROVE  SerialInv'
<1>1. \A r \in Run : step'[r] \in Active => query'[r] \in Query
  BY DEF SerialInv
<1>2. \A r \in Run : query'[r] = query[r] => RunSource(r)' = RunSource(r)
  BY DEF RunSource
<1>3. \A r, o \in Run : r # o /\ step'[r] \in Active /\ step'[o] \in Active =>
                           RunSource(r)' # RunSource(o)'
  BY <1>2 DEF SerialInv
<1>4. \A r \in Run : step'[r] \in {"received", "ingesting"} =>
                        \A p \in todo'[r] : p[1] \in query'[r]
  BY DEF Active
<1>5. QED
  BY <1>1, <1>3, <1>4 DEF SerialInv

\* A step keeps active runs of one source apart: StartRun is the only one that
\* starts one, and without overlap it finds no other.
LEMMA SerialStep == ~Overlap /\ TypeOK /\ SerialInv /\ [Next]_vars => SerialInv'
<1> SUFFICES ASSUME ~Overlap, TypeOK, SerialInv, [Next]_vars PROVE SerialInv'
  OBVIOUS
<1> USE DEF TypeOK
<1>0. \A r \in Run : step[r] \in {"received", "ingesting"} => \A p \in todo[r] : p[1] \in query[r]
  BY DEF SerialInv
<1>1. CASE (\E e \in Event, v \in Version : Publish(e, v)) \/ UNCHANGED vars
  <2>1. UNCHANGED <<step, query, todo>>
    BY <1>1 DEF Publish, vars, runVars
  <2>2. QED
    BY <1>0, <2>1, SerialFrame
<1>2. ASSUME NEW r \in Run, NEW q \in Query, StartRun(r, q) PROVE SerialInv'
  <2>1. /\ step' = [step EXCEPT ![r] = "started"] /\ query' = [query EXCEPT ![r] = q]
        /\ UNCHANGED todo
        /\ \A o \in Run : step[o] \in Active => RunSource(o) # SourceOf[CHOOSE e \in q : TRUE]
    BY <1>2 DEF StartRun
  <2>2. query'[r] = q /\ step'[r] = "started"
        /\ \A o \in Run \ {r} : query'[o] = query[o] /\ step'[o] = step[o]
    BY <2>1
  <2>3. RunSource(r)' = SourceOf[CHOOSE e \in q : TRUE]
        /\ \A o \in Run \ {r} : RunSource(o)' = RunSource(o)
    BY <2>2 DEF RunSource
  <2>4. \A o \in Run : step'[o] \in Active => query'[o] \in Query
    BY <2>2 DEF SerialInv
  <2>5. \A a, b \in Run : a # b /\ step'[a] \in Active /\ step'[b] \in Active =>
                             RunSource(a)' # RunSource(b)'
    <3>1. \A o \in Run \ {r} : step'[o] \in Active => RunSource(o)' # RunSource(r)'
      BY <2>1, <2>2, <2>3
    <3>2. \A a, b \in Run \ {r} : a # b /\ step'[a] \in Active /\ step'[b] \in Active =>
                                      RunSource(a)' # RunSource(b)'
      BY <2>2, <2>3 DEF SerialInv
    <3>3. QED
      BY <3>1, <3>2
  <2>6. \A o \in Run : step'[o] \in {"received", "ingesting"} =>
                          \A p \in todo'[o] : p[1] \in query'[o]
    BY <1>0, <2>1, <2>2
  <2>7. QED
    BY <2>4, <2>5, <2>6 DEF SerialInv
<1>3. ASSUME NEW r \in Run, Receive(r) PROVE SerialInv'
  <2>1. /\ todo' = [todo EXCEPT ![r] =
                      {p \in query[r] \X Version : feed[p[1]] # <<>> /\ p[2] = Current(p[1])}]
        /\ step[r] = "requesting" /\ step' = [step EXCEPT ![r] = "received"]
        /\ UNCHANGED query
    BY <1>3 DEF Receive
  <2>2. /\ \A p \in todo'[r] : p[1] \in query[r]
        /\ \A o \in Run \ {r} : todo'[o] = todo[o] /\ step'[o] = step[o]
        /\ step[r] \in Active
    BY <2>1 DEF Active
  <2>3. QED
    BY <1>0, <2>1, <2>2, SerialFrame
<1>4. ASSUME NEW r \in Run,
             \/ Stamp(r) \/ StoreArtifact(r) \/ Block(r) \/ Commit(r) \/ Finish(r)
             \/ \E e \in Event, v \in Version : SkipKnown(r, e, v) \/ InsertRevision(r, e, v)
      PROVE  SerialInv'
  <2>1. UNCHANGED query /\ \A o \in Run : todo'[o] \subseteq todo[o]
    <3>1. CASE Stamp(r) \/ StoreArtifact(r) \/ Block(r) \/ Commit(r) \/ Finish(r)
      BY <3>1 DEF Stamp, StoreArtifact, Block, Commit, Finish
    <3>2. ASSUME NEW e \in Event, NEW v \in Version, SkipKnown(r, e, v) \/ InsertRevision(r, e, v)
          PROVE  UNCHANGED query /\ \A o \in Run : todo'[o] \subseteq todo[o]
      <4>1. UNCHANGED query /\ todo' = [todo EXCEPT ![r] = @ \ {<<e, v>>}]
        BY <3>2 DEF SkipKnown, InsertRevision
      <4>2. QED
        BY <4>1
    <3>3. QED
      BY <1>4, <3>1, <3>2, Zenon
  <2>2. /\ \A o \in Run : step'[o] \in Active => step[o] \in Active
        /\ \A o \in Run : step'[o] \in {"received", "ingesting"} =>
                             step[o] \in {"received", "ingesting"}
    BY <1>4 DEF Stamp, StoreArtifact, Block, Commit, Finish, SkipKnown, InsertRevision, Active
  <2>3. QED
    BY <1>0, <2>1, <2>2, SerialFrame
<1>5. ASSUME NEW r \in Run, Fails(r) \/ Crash(r) PROVE SerialInv'
  <2>1. /\ query' = [query EXCEPT ![r] = {}] /\ todo' = [todo EXCEPT ![r] = {}]
        /\ step' = [step EXCEPT ![r] = "ended"] \/ step' = [step EXCEPT ![r] = "crashed"]
    BY <1>5 DEF Fails, Crash, Abandon
  <2>2. step'[r] \notin Active
        /\ \A o \in Run \ {r} : query'[o] = query[o] /\ step'[o] = step[o] /\ todo'[o] = todo[o]
    BY <2>1 DEF Active
  <2>3. \A o \in Run : step'[o] \in {"received", "ingesting"} => o # r
    BY <2>2 DEF Active
  <2>4. QED
    BY <1>0, <2>2, <2>3, SerialFrame
<1>6. QED
  BY <1>1, <1>2, <1>3, <1>4, <1>5
     DEF Next, Progress, Fail, RejectPayload, Conflict, DeadlockVictim

\* An event a run inserts is of its source.
LEMMA InsertOwn ==
    ASSUME SerialInv, NEW r \in Run, NEW e \in Event, NEW v \in Version, InsertRevision(r, e, v)
    PROVE  SourceOf[e] = RunSource(r) /\ InFlight(r)
<1>1. step[r] = "ingesting" /\ <<e, v>> \in todo[r]
  BY DEF InsertRevision
<1>2. query[r] \in Query /\ e \in query[r]
  BY <1>1 DEF SerialInv, Active
<1>3. QED
  BY <1>1, <1>2, QuerySource DEF InFlight

\* Steps that write no row and put no run in flight.
LEMMA OwnFrame ==
    ASSUME TypeOK, OwnInv, now' \in Nat, now' >= now, UNCHANGED <<revs, mem>>,
           \A r \in Run :
             \/ txRevs'[r] = {} /\ txMem'[r] = {}
             \/ txRevs'[r] = txRevs[r] /\ txMem'[r] = txMem[r] /\ query'[r] = query[r],
           \A r \in Run : InFlight(r)' => InFlight(r) /\ query'[r] = query[r] /\ stamp'[r] = stamp[r]
    PROVE  OwnInv'
<1>1. \A x \in revs : x.avail \in Nat
  BY DEF TypeOK, Revision
<1>2. \A m \in mem : m.from \in Nat
  BY DEF TypeOK, Membership
<1>3. (\A x \in revs' : x.avail <= now') /\ (\A m \in mem' : m.from <= now')
  BY <1>1, <1>2 DEF OwnInv, TypeOK
<1>4. /\ \A r \in Run : \A x \in txRevs'[r] : SourceOf[x.ev] = RunSource(r)'
      /\ \A r \in Run : \A m \in txMem'[r] : SourceOf[m.ev] = RunSource(r)'
  BY DEF OwnInv, RunSource
<1>5. \A r \in Run : InFlight(r)' =>
        /\ \A x \in revs' : SourceOf[x.ev] = RunSource(r)' => x.avail < stamp'[r]
        /\ \A m \in mem' : SourceOf[m.ev] = RunSource(r)' => m.from < stamp'[r]
  BY DEF OwnInv, RunSource
<1>6. QED
  BY <1>3, <1>4, <1>5 DEF OwnInv

\* A step keeps what runs write to their own source, and what their source has
\* in the catalog before their stamp.
LEMMA OwnStep == IInv /\ SerialInv /\ OwnInv /\ [Next]_vars => OwnInv'
<1> SUFFICES ASSUME IInv, SerialInv, OwnInv, [Next]_vars PROVE OwnInv'
  OBVIOUS
<1> USE DEF IInv
<1>1. CASE (\E e \in Event, v \in Version : Publish(e, v)) \/ UNCHANGED vars
  <2>1. UNCHANGED <<now, revs, mem, txRevs, txMem, query, step, stamp>>
    BY <1>1 DEF Publish, vars, runVars, txVars, catalogVars
  <2>2. QED
    BY <2>1, OwnFrame DEF InFlight, TypeOK
<1>2. ASSUME NEW r \in Run, NEW q \in Query, StartRun(r, q) PROVE OwnInv'
  <2>1. txRevs[r] = {} /\ txMem[r] = {}
    BY <1>2 DEF StartRun, StampInv
  <2>2. /\ UNCHANGED <<now, revs, mem, txRevs, txMem, stamp>>
        /\ step' = [step EXCEPT ![r] = "started"] /\ query' = [query EXCEPT ![r] = q]
    BY <1>2 DEF StartRun, txVars, catalogVars
  <2>3. \A o \in Run : InFlight(o)' => InFlight(o) /\ query'[o] = query[o]
    BY <2>2 DEF InFlight, TypeOK
  <2>4. \A o \in Run : o # r => query'[o] = query[o]
    BY <2>2 DEF TypeOK
  <2>5. QED
    BY <2>1, <2>2, <2>3, <2>4, OwnFrame DEF TypeOK
<1>3. ASSUME NEW r \in Run, Stamp(r) PROVE OwnInv'
  <2>1. /\ now' = now + 1 /\ stamp' = [stamp EXCEPT ![r] = now + 1]
        /\ step' = [step EXCEPT ![r] = "requesting"]
        /\ UNCHANGED <<revs, mem, txRevs, txMem, query>>
    BY <1>3 DEF Stamp, txVars, catalogVars
  <2>2. /\ \A x \in revs : x.avail \in Nat /\ x.avail < now + 1
        /\ \A m \in mem : m.from \in Nat /\ m.from < now + 1
    BY DEF OwnInv, TypeOK, Revision, Membership
  <2>3. \A o \in Run : InFlight(o)' /\ o # r => InFlight(o) /\ stamp'[o] = stamp[o]
    BY <2>1 DEF InFlight, TypeOK
  <2>4. stamp'[r] = now + 1
    BY <2>1 DEF TypeOK
  <2>5. \A o \in Run : RunSource(o)' = RunSource(o)
    BY <2>1 DEF RunSource
  <2>6. \A o \in Run : InFlight(o)' =>
        /\ \A x \in revs : SourceOf[x.ev] = RunSource(o) => x.avail < stamp'[o]
        /\ \A m \in mem : SourceOf[m.ev] = RunSource(o) => m.from < stamp'[o]
    BY <2>2, <2>3, <2>4 DEF OwnInv
  <2>7. (\A x \in revs : x.avail <= now') /\ (\A m \in mem : m.from <= now')
    BY <2>1, <2>2 DEF TypeOK
  <2>8. QED
    BY <2>1, <2>5, <2>6, <2>7 DEF OwnInv
<1>4. ASSUME NEW r \in Run,
             \/ Receive(r) \/ StoreArtifact(r) \/ Block(r) \/ Finish(r)
             \/ \E e \in Event, v \in Version : SkipKnown(r, e, v)
      PROVE  OwnInv'
  <2>1. UNCHANGED <<now, revs, mem, txRevs, txMem, query, stamp>>
    BY <1>4 DEF Receive, StoreArtifact, Block, Finish, SkipKnown, txVars, catalogVars
  <2>2. \A o \in Run : InFlight(o)' => InFlight(o)
    BY <1>4 DEF Receive, StoreArtifact, Block, Finish, SkipKnown, InFlight, TypeOK
  <2>3. QED
    BY <2>1, <2>2, OwnFrame DEF TypeOK
<1>5. ASSUME NEW r \in Run, NEW e \in Event, NEW v \in Version, InsertRevision(r, e, v)
      PROVE  OwnInv'
  <2>1. PICK new :
          /\ txMem' = [txMem EXCEPT ![r] = @ \cup new]
          /\ \A m \in new : m.ev = e /\ m.from = stamp[r]
          /\ \A m, n \in new : m = n
          /\ \E m \in mem \cup txMem[r] \cup new : m.ev = e
          /\ new # {} => \A m \in mem \cup txMem[r] : m.ev # e
    BY <1>5, InsertAdds, Zenon
  <2>2. /\ txRevs' = [txRevs EXCEPT ![r] = @ \cup {[ev |-> e, ver |-> v, avail |-> stamp[r]]}]
        /\ UNCHANGED <<revs, mem, stamp, step, now>>
    BY <1>5, InsertAdds
  <2>3. UNCHANGED query
    BY <1>5 DEF InsertRevision
  <2>4. SourceOf[e] = RunSource(r)
    BY <1>5, InsertOwn
  <2>5. \A o \in Run : \A x \in txRevs'[o] : x \in txRevs[o] \/ (o = r /\ x.ev = e)
    BY <2>2 DEF TypeOK
  <2>6. \A o \in Run : \A m \in txMem'[o] : m \in txMem[o] \/ (o = r /\ m.ev = e)
    BY <2>1 DEF TypeOK
  <2>7. \A o \in Run : RunSource(o)' = RunSource(o) /\ InFlight(o)' = InFlight(o)
    BY <2>2, <2>3 DEF RunSource, InFlight
  <2>8. QED
    BY <2>2, <2>4, <2>5, <2>6, <2>7 DEF OwnInv
<1>6. ASSUME NEW r \in Run, Commit(r) PROVE OwnInv'
  <2>1. /\ revs' = revs \cup txRevs[r] /\ mem' = mem \cup txMem[r]
        /\ txRevs' = [txRevs EXCEPT ![r] = {}] /\ txMem' = [txMem EXCEPT ![r] = {}]
        /\ step[r] = "ingesting" /\ step' = [step EXCEPT ![r] = "committed"]
        /\ UNCHANGED <<now, query, stamp>>
    BY <1>6 DEF Commit
  <2>2. \A o \in Run : RunSource(o)' = RunSource(o)
    BY <2>1 DEF RunSource
  <2>3. /\ \A x \in txRevs[r] : x.avail <= now /\ SourceOf[x.ev] = RunSource(r)
        /\ \A m \in txMem[r] : m.from <= now /\ SourceOf[m.ev] = RunSource(r)
    BY DEF OwnInv, StampInv
  <2>4. \A o \in Run : InFlight(o)' => InFlight(o) /\ RunSource(o) # RunSource(r)
    <3>1. \A o \in Run : InFlight(o)' => InFlight(o) /\ o # r
      BY <2>1 DEF InFlight, TypeOK
    <3>2. QED
      BY <2>1, <3>1 DEF SerialInv, InFlight, Active
  <2>5. \A o \in Run : txRevs'[o] \subseteq txRevs[o] /\ txMem'[o] \subseteq txMem[o]
    BY <2>1 DEF TypeOK
  <2>6. \A o \in Run : InFlight(o)' =>
        /\ \A x \in revs' : SourceOf[x.ev] = RunSource(o) => x.avail < stamp[o]
        /\ \A m \in mem' : SourceOf[m.ev] = RunSource(o) => m.from < stamp[o]
    BY <2>1, <2>3, <2>4 DEF OwnInv
  <2>7. QED
    BY <2>1, <2>2, <2>3, <2>5, <2>6 DEF OwnInv
<1>7. ASSUME NEW r \in Run, Fails(r) \/ Crash(r) PROVE OwnInv'
  <2>1. /\ query' = [query EXCEPT ![r] = {}]
        /\ txRevs' = [txRevs EXCEPT ![r] = {}] /\ txMem' = [txMem EXCEPT ![r] = {}]
        /\ step' = [step EXCEPT ![r] = "ended"] \/ step' = [step EXCEPT ![r] = "crashed"]
        /\ stamp' = stamp \/ stamp' = [stamp EXCEPT ![r] = 0]
        /\ UNCHANGED <<now, revs, mem>>
    BY <1>7 DEF Fails, Crash, Abandon, catalogVars
  <2>2. /\ txRevs'[r] = {} /\ txMem'[r] = {} /\ ~InFlight(r)'
        /\ \A o \in Run \ {r} : /\ query'[o] = query[o] /\ InFlight(o)' = InFlight(o)
                                /\ stamp'[o] = stamp[o]
                                /\ txRevs'[o] = txRevs[o] /\ txMem'[o] = txMem[o]
    BY <2>1 DEF InFlight, TypeOK
  <2>3. QED
    BY <2>1, <2>2, OwnFrame DEF TypeOK
<1>8. QED
  BY <1>1, <1>2, <1>3, <1>4, <1>5, <1>6, <1>7
     DEF Next, Progress, Fail, RejectPayload, Conflict, DeadlockVictim

\* The canonical event a revision is linked to: its own, or that of a member
\* seen by its retrieval, which has no member of the revision's source.
LEMMA LinkTarget ==
    ASSUME NEW rev, NEW R, NEW M, \A m, n \in M : m.ev = n.ev => m = n,
           NEW new, new \in Links(rev, R, M), NEW m \in new
    PROVE  /\ m.ev = rev.ev /\ m.from = rev.avail
           /\ \A n \in M : n.ev # rev.ev
           /\ \/ m.canon = rev.ev
              \/ \E k \in M : /\ m.canon = k.canon
                              /\ ~Represented(SourceOf[rev.ev], k.canon, M)
                              /\ \E x \in R : x.ev = k.ev /\ x.avail <= rev.avail
<1>1. \A n \in M : n.ev # rev.ev
  BY DEF Links
<1>2. PICK c \in CanonicalFor(rev, R, M) : new = {[ev |-> rev.ev, canon |-> c, from |-> rev.avail]}
  BY <1>1 DEF Links
<1>3. m.ev = rev.ev /\ m.canon = c /\ m.from = rev.avail
  BY <1>2
<1> DEFINE found == Matches(rev, R, M)
           best == {x \in found : \A y \in found : Dist(x, rev) <= Dist(y, rev)}
<1>4. CASE found = {}
  BY <1>1, <1>3, <1>4 DEF CanonicalFor
<1>5. CASE found # {}
  <2>1. c \in {k.canon : k \in {n \in M : \E x \in best : x.ev = n.ev}}
    BY <1>5 DEF CanonicalFor
  <2>2. PICK k \in M : c = k.canon /\ \E x \in best : x.ev = k.ev
    BY <2>1
  <2>3. PICK x \in found : x.ev = k.ev
    BY <2>2
  <2>4. /\ x \in LatestOther(rev, R)
        /\ \E n \in M : n.ev = x.ev /\ ~Represented(SourceOf[rev.ev], n.canon, M)
    BY <2>3 DEF Matches
  <2>5. ~Represented(SourceOf[rev.ev], k.canon, M)
    BY <2>3, <2>4
  <2>6. x \in R /\ x.avail <= rev.avail
    BY <2>4 DEF LatestOther, LatestOf
  <2>7. QED
    BY <1>1, <1>3, <2>2, <2>3, <2>5, <2>6
<1>6. QED
  BY <1>4, <1>5

\* The same of a membership a run inserts.
LEMMA InsertLinks ==
    ASSUME IInv, NEW r \in Run, NEW e \in Event, NEW v \in Version, InsertRevision(r, e, v),
           NEW m \in txMem'[r], m \notin txMem[r]
    PROVE  /\ m.ev = e /\ m.from = stamp[r]
           /\ \A n \in mem \cup txMem[r] : n.ev # e
           /\ \/ m.canon = e
              \/ \E k \in mem \cup txMem[r] :
                    /\ m.canon = k.canon
                    /\ ~Represented(SourceOf[e], k.canon, mem \cup txMem[r])
                    /\ \E x \in revs \cup txRevs[r] : x.ev = k.ev /\ x.avail <= stamp[r]
<1> DEFINE rev == [ev |-> e, ver |-> v, avail |-> stamp[r]]
           R == revs \cup txRevs[r]
           M == mem \cup txMem[r]
<1>1. PICK new \in Links(rev, R, M) : txMem' = [txMem EXCEPT ![r] = @ \cup new]
  BY DEF InsertRevision
<1>2. m \in new
  BY <1>1 DEF IInv, TypeOK
<1>3. \A k, n \in M : k.ev = n.ev => k = n
  BY DEF IInv, MemInv, OneMembership
<1>4. rev.ev = e /\ rev.avail = stamp[r]
  OBVIOUS
<1> HIDE DEF rev, R, M
<1>5. /\ m.ev = rev.ev /\ m.from = rev.avail
      /\ \A n \in M : n.ev # rev.ev
      /\ \/ m.canon = rev.ev
         \/ \E k \in M : /\ m.canon = k.canon
                         /\ ~Represented(SourceOf[rev.ev], k.canon, M)
                         /\ \E x \in R : x.ev = k.ev /\ x.avail <= rev.avail
  BY <1>1, <1>2, <1>3, LinkTarget
<1>6. QED
  BY <1>4, <1>5 DEF R, M

\* A step keeps the memberships valid from their revisions on, and founded.
LEMMA CoverStep == IInv /\ SerialInv /\ OwnInv /\ CoverInv /\ [Next]_vars => CoverInv'
<1> SUFFICES ASSUME IInv, SerialInv, OwnInv, CoverInv, [Next]_vars PROVE CoverInv'
  OBVIOUS
<1>1. CASE SameRows
  BY <1>1 DEF SameRows, CoverInv
<1>2. ASSUME NEW r \in Run, Rollback(r) PROVE CoverInv'
  BY <1>2 DEF Rollback, CoverInv, IInv, TypeOK
<1>3. ASSUME NEW r \in Run, NEW e \in Event, NEW v \in Version, InsertRevision(r, e, v)
      PROVE  CoverInv'
  <2> DEFINE M == mem \cup txMem[r]
             rev == [ev |-> e, ver |-> v, avail |-> stamp[r]]
  <2>1. PICK new :
          /\ txMem' = [txMem EXCEPT ![r] = @ \cup new]
          /\ \A m \in new : m.ev = e /\ m.from = stamp[r]
          /\ \A m, n \in new : m = n
          /\ \E m \in mem \cup txMem[r] \cup new : m.ev = e
          /\ new # {} => \A m \in mem \cup txMem[r] : m.ev # e
    BY <1>3, InsertAdds, Zenon DEF IInv
  <2>2. txRevs' = [txRevs EXCEPT ![r] = @ \cup {rev}] /\ UNCHANGED <<revs, mem>>
    BY <1>3, InsertAdds DEF IInv
  <2>3. rev.ev = e /\ rev.avail = stamp[r] /\ stamp[r] \in Nat
    BY DEF IInv, TypeOK
  <2> HIDE DEF rev
  <2>4. /\ txMem'[r] = txMem[r] \cup new /\ txRevs'[r] = txRevs[r] \cup {rev}
        /\ \A o \in Run \ {r} : txMem'[o] = txMem[o] /\ txRevs'[o] = txRevs[o]
    BY <2>1, <2>2 DEF IInv, TypeOK
  <2>5. /\ \A m \in mem : m.ev = e => m.from <= stamp[r]
        /\ \A m \in txMem[r] : m.from = stamp[r]
    <3>1. SourceOf[e] = RunSource(r) /\ InFlight(r)
      BY <1>3, InsertOwn
    <3>2. \A m \in mem : m.from \in Nat
      BY DEF IInv, TypeOK, Membership
    <3>3. QED
      BY <2>3, <3>1, <3>2 DEF OwnInv, IInv, StampInv
  <2>6. Covered(rev, mem \cup txMem'[r])
    BY <2>1, <2>3, <2>4, <2>5 DEF Covered
  <2>7. \A m \in new : m \notin txMem[r] => Founded(m, mem \cup txMem'[r])
    <3> SUFFICES ASSUME NEW m \in new, m \notin txMem[r] PROVE Founded(m, mem \cup txMem'[r])
      OBVIOUS
    <3>1. /\ m \in txMem'[r] /\ m.ev = e /\ m.from = stamp[r]
      BY <2>1, <2>4
    <3>2. \/ m.canon = e
          \/ \E k \in M : /\ m.canon = k.canon
                          /\ \E x \in revs \cup txRevs[r] : x.ev = k.ev /\ x.avail <= stamp[r]
      <4>1. \/ m.canon = e
            \/ \E k \in mem \cup txMem[r] :
                  /\ m.canon = k.canon
                  /\ ~Represented(SourceOf[e], k.canon, mem \cup txMem[r])
                  /\ \E x \in revs \cup txRevs[r] : x.ev = k.ev /\ x.avail <= stamp[r]
        BY <1>3, <3>1, InsertLinks, SMTT(60)
      <4>2. QED
        BY <4>1
    <3>3. CASE m.canon = e
      BY <2>3, <3>1, <3>3 DEF Founded
    <3>4. ASSUME NEW k \in M, m.canon = k.canon,
                 NEW x \in revs \cup txRevs[r], x.ev = k.ev, x.avail <= stamp[r]
          PROVE  Founded(m, mem \cup txMem'[r])
      <4>1. Covered(x, M)
        BY DEF CoverInv, Covered
      <4>2. \A n \in M : n.ev = x.ev => n = k
        BY <3>4 DEF IInv, MemInv, OneMembership
      <4>3. k.from <= x.avail
        BY <4>1, <4>2 DEF Covered
      <4>4. PICK n \in M : n.ev = k.canon /\ n.canon = k.canon /\ n.from <= k.from
        BY DEF CoverInv, Founded
      <4>5. k.from \in Nat /\ n.from \in Nat /\ x.avail \in Nat
        BY DEF IInv, TypeOK, Membership, Revision
      <4>6. n.from <= m.from
        BY <2>3, <3>1, <3>4, <4>3, <4>4, <4>5
      <4>7. n \in mem \cup txMem'[r]
        BY <2>4
      <4>8. QED
        BY <3>4, <4>4, <4>6, <4>7 DEF Founded
    <3>5. QED
      BY <3>2, <3>3, <3>4
  <2>8. \A o \in Run : \A x \in txRevs'[o] : Covered(x, mem \cup txMem'[o])
    BY <2>4, <2>6 DEF CoverInv, Covered
  <2>9. \A o \in Run : \A m \in txMem'[o] : Founded(m, mem \cup txMem'[o])
    BY <2>4, <2>7 DEF CoverInv, Founded
  <2>10. QED
    BY <2>2, <2>8, <2>9 DEF CoverInv
<1>4. ASSUME NEW r \in Run, Commit(r) PROVE CoverInv'
  <2>1. /\ revs' = revs \cup txRevs[r] /\ mem' = mem \cup txMem[r]
        /\ txMem'[r] = {} /\ txRevs'[r] = {}
        /\ \A o \in Run \ {r} : txMem'[o] = txMem[o] /\ txRevs'[o] = txRevs[o]
    BY <1>4 DEF Commit, IInv, TypeOK
  <2>2. (\A x \in revs' : Covered(x, mem')) /\ \A m \in mem' : Founded(m, mem')
    BY <2>1 DEF CoverInv, Covered, Founded
  <2>3. \A o \in Run : \A x \in txRevs'[o] : Covered(x, mem' \cup txMem'[o])
    BY <2>1 DEF CoverInv, Covered
  <2>4. \A o \in Run : \A m \in txMem'[o] : Founded(m, mem' \cup txMem'[o])
    BY <2>1 DEF CoverInv, Founded
  <2>5. QED
    BY <2>2, <2>3, <2>4 DEF CoverInv
<1>5. QED
  BY <1>1, <1>2, <1>3, <1>4, RowSteps

\* A step keeps the events of one source in canonical events of their own.
LEMMA ApartStep == IInv /\ SerialInv /\ OwnInv /\ CoverInv /\ ApartInv /\ [Next]_vars => ApartInv'
<1> SUFFICES ASSUME IInv, SerialInv, OwnInv, CoverInv, ApartInv, [Next]_vars PROVE ApartInv'
  OBVIOUS
<1>1. CASE SameRows
  BY <1>1 DEF SameRows, ApartInv
<1>2. ASSUME NEW r \in Run, Rollback(r) PROVE ApartInv'
  BY <1>2 DEF Rollback, ApartInv, IInv, TypeOK
<1>3. ASSUME NEW r \in Run, NEW e \in Event, NEW v \in Version, InsertRevision(r, e, v)
      PROVE  ApartInv'
  <2> DEFINE M == mem \cup txMem[r]
  <2>1. PICK new :
          /\ txMem' = [txMem EXCEPT ![r] = @ \cup new]
          /\ \A m \in new : m.ev = e /\ m.from = stamp[r]
          /\ \A m, n \in new : m = n
          /\ \E m \in mem \cup txMem[r] \cup new : m.ev = e
          /\ new # {} => \A m \in mem \cup txMem[r] : m.ev # e
    BY <1>3, InsertAdds, Zenon DEF IInv
  <2>2. /\ UNCHANGED <<revs, mem>> /\ txMem'[r] = txMem[r] \cup new
        /\ \A o \in Run \ {r} : txMem'[o] = txMem[o]
    BY <1>3, <2>1, InsertAdds DEF IInv, TypeOK
  <2>3. ASSUME NEW m \in new, m \notin txMem[r], NEW n \in M PROVE Apart(m, n) /\ Apart(n, m)
    <3>1. /\ m.ev = e /\ \A k \in M : k.ev # e
          /\ m.canon = e \/ ~Represented(SourceOf[e], m.canon, M)
      <4>1. m \in txMem'[r]
        BY <2>2
      <4>2. QED
        BY <1>3, <2>3, <4>1, InsertLinks, Zenon
    <3>2. CASE m.canon = e
      <4>1. Founded(n, M)
        BY DEF CoverInv, Founded
      <4>2. n.canon # e
        BY <3>1, <4>1 DEF Founded
      <4>3. QED
        BY <3>2, <4>2 DEF Apart
    <3>3. CASE ~Represented(SourceOf[e], m.canon, M)
      BY <3>1, <3>3 DEF Apart, Represented
    <3>4. QED
      BY <3>1, <3>2, <3>3
  <2>4. \A m, n \in new : Apart(m, n)
    BY <2>1 DEF Apart
  <2>5. \A m \in txMem'[r] : \A n \in mem \cup txMem'[r] : Apart(m, n)
    BY <2>2, <2>3, <2>4 DEF ApartInv
  <2>6. QED
    BY <2>2, <2>5 DEF ApartInv
<1>4. ASSUME NEW r \in Run, Commit(r) PROVE ApartInv'
  <2>1. /\ mem' = mem \cup txMem[r] /\ txMem'[r] = {}
        /\ \A o \in Run \ {r} : txMem'[o] = txMem[o]
        /\ step[r] = "ingesting"
    BY <1>4 DEF Commit, IInv, TypeOK
  <2>2. ASSUME NEW o \in Run \ {r}, NEW m \in txMem[o], NEW n \in txMem[r] PROVE Apart(m, n)
    <3>1. step[o] \in Active /\ step[r] \in Active
      BY <2>1 DEF IInv, StampInv, Active
    <3>2. SourceOf[m.ev] # SourceOf[n.ev]
      BY <3>1 DEF SerialInv, OwnInv
    <3>3. QED
      BY <3>2 DEF Apart
  <2>3. \A m, n \in mem' : Apart(m, n)
    BY <2>1 DEF ApartInv, Apart
  <2>4. \A o \in Run : \A m \in txMem'[o] : \A n \in mem' \cup txMem'[o] : Apart(m, n)
    BY <2>1, <2>2 DEF ApartInv
  <2>5. QED
    BY <2>3, <2>4 DEF ApartInv
<1>5. QED
  BY <1>1, <1>2, <1>3, <1>4, RowSteps

SerialRunsInv == SerialInv /\ OwnInv /\ CoverInv /\ ApartInv

\* Without overlap, what runs kept apart guarantee holds in every state.
THEOREM SerialInvariance == ASSUME ~Overlap PROVE Spec => []SerialRunsInv
<1>1. Init => SerialRunsInv
  BY DEF Init, SerialRunsInv, SerialInv, OwnInv, CoverInv, ApartInv, Active, InFlight
<1>2. IInv /\ SerialRunsInv /\ [Next]_vars => SerialRunsInv'
  BY SerialStep, OwnStep, CoverStep, ApartStep DEF SerialRunsInv, IInv
<1>3. QED
  BY <1>1, <1>2, Invariance, PTL DEF Spec

\* If runs of one source do not overlap, a canonical event never gathers two
\* events of one source, however runs of different sources interleave.
THEOREM OneSourcePerCanonicalHolds == ASSUME ~Overlap PROVE Spec => []OneSourcePerCanonical
<1>1. SerialRunsInv => OneSourcePerCanonical
  BY DEF SerialRunsInv, ApartInv, Apart, OneSourcePerCanonical
<1>2. QED
  BY <1>1, SerialInvariance, PTL

\* If runs of one source do not overlap, the membership of a revision's event,
\* and that of its founder, are valid when the revision becomes available.
THEOREM MembershipCoversRevisionsHolds ==
    ASSUME ~Overlap PROVE Spec => []MembershipCoversRevisions
<1>1. SerialRunsInv => MembershipCoversRevisions
  BY DEF SerialRunsInv, CoverInv, Covered, Founded, MembershipCoversRevisions
<1>2. QED
  BY <1>1, SerialInvariance, PTL

-----------------------------------------------------------------------------
(* Deliveries of one source in order                                          *)

Delivered(r) == step[r] \in {"committed", "ended", "crashed"}

\* A run waits only while it ingests, and has succeeded only when it ended.
StatusInv ==
    /\ waits = [r \in Run |-> waits[r]]
    /\ \A r \in Run : waits[r] # NoKey => step[r] \in {"received", "ingesting"}
    /\ \A r \in Run : status[r] = "succeeded" => step[r] = "ended"

\* Where no source reverts, the contents of an event are numbered as they were
\* published.
FeedInv == \A e \in Event : \A i \in 1 .. Len(feed[e]) : feed[e][i] = i

\* A payload has one published content of each event, and events of one source.
PayloadInv ==
    /\ \A r \in Run : \A p \in payload[r] : p[2] <= Len(feed[p[1]])
    /\ \A r \in Run : \A p, q \in payload[r] : p[1] = q[1] => p[2] = q[2]
    /\ \A r \in Run : step[r] \in {"new", "started", "requesting"} => payload[r] = {}
    /\ \A r \in Run : step[r] \in Active =>
                            \A p \in payload[r] : SourceOf[p[1]] = RunSource(r)

\* What a run received it has still to ingest or is recorded; what is recorded
\* was received by a run that committed, at the stamp of the row.
Kept(p, R, t) == \E x \in R : x.ev = p[1] /\ x.ver = p[2] /\ x.avail <= t
KeptInv ==
    /\ \A r \in Run : step[r] \in {"received", "ingesting"} => todo[r] \subseteq payload[r]
    /\ \A r \in Run : step[r] \in {"received", "ingesting"} =>
          \A p \in payload[r] : p \in todo[r] \/ Kept(p, revs \cup txRevs[r], stamp[r])
    /\ \A r \in Run : Delivered(r) => \A p \in payload[r] : Kept(p, revs, stamp[r])
    /\ \A r \in Run : \A x \in txRevs[r] : <<x.ev, x.ver>> \in payload[r]
    /\ \A x \in revs : \E o \in Run :
          Delivered(o) /\ stamp[o] = x.avail /\ <<x.ev, x.ver>> \in payload[o]

\* A run that may commit was stamped after all other deliveries of its source;
\* what was retrieved later is not older.
OrderInv ==
    /\ \A o \in Run : InFlight(o) => \A r \in Run \ {o} : \A p \in payload[r] :
          SourceOf[p[1]] = RunSource(o) => stamp[r] < stamp[o]
    /\ \A r \in Run : \A p \in payload[r] : \A x \in revs :
          x.ev = p[1] /\ x.avail <= stamp[r] => x.ver <= p[2]
    /\ \A x, y \in revs : x.ev = y.ev /\ x.avail <= y.avail => x.ver <= y.ver

\* A step keeps waits within ingestion, and success at the end of a run.
LEMMA StatusStep == TypeOK /\ StatusInv /\ [Next]_vars => StatusInv'
<1> SUFFICES ASSUME TypeOK, StatusInv, [Next]_vars PROVE StatusInv'
  OBVIOUS
<1> USE DEF TypeOK, StatusInv
<1>1. CASE (\E e \in Event, v \in Version : Publish(e, v)) \/ UNCHANGED vars
  BY <1>1 DEF Publish, vars, runVars
<1>2. ASSUME NEW r \in Run, NEW q \in Query, StartRun(r, q) PROVE StatusInv'
  BY <1>2 DEF StartRun
<1>3. ASSUME NEW r \in Run, Stamp(r) PROVE StatusInv'
  BY <1>3 DEF Stamp
<1>4. ASSUME NEW r \in Run, Receive(r) PROVE StatusInv'
  BY <1>4 DEF Receive
<1>5. ASSUME NEW r \in Run, StoreArtifact(r) PROVE StatusInv'
  BY <1>5 DEF StoreArtifact
<1>6. ASSUME NEW r \in Run, NEW e \in Event, NEW v \in Version,
             SkipKnown(r, e, v) \/ InsertRevision(r, e, v)
      PROVE  StatusInv'
  <2>1. UNCHANGED <<step, status>> /\ (waits' = waits \/ waits' = [waits EXCEPT ![r] = NoKey])
    BY <1>6 DEF SkipKnown, InsertRevision
  <2>2. QED
    BY <2>1
<1>7. ASSUME NEW r \in Run, Block(r) PROVE StatusInv'
  <2>1. step[r] \in {"received", "ingesting"}
    BY <1>7 DEF Block, Wanted
  <2>2. QED
    BY <1>7, <2>1 DEF Block
<1>8. ASSUME NEW r \in Run, Commit(r) \/ Finish(r) PROVE StatusInv'
  BY <1>8 DEF Commit, Finish
<1>9. ASSUME NEW r \in Run, Fails(r) PROVE StatusInv'
  BY <1>9 DEF Fails, Abandon
<1>10. ASSUME NEW r \in Run, Crash(r) PROVE StatusInv'
  BY <1>10 DEF Crash, Abandon, Active
<1>11. QED
  BY <1>1, <1>2, <1>3, <1>4, <1>5, <1>6, <1>7, <1>8, <1>9, <1>10
     DEF Next, Progress, Fail, RejectPayload, Conflict, DeadlockVictim

\* A source that never reverts only appends the next content.
LEMMA FeedStep ==
    ASSUME Reverting = {}, TypeOK, FeedInv, [Next]_vars
    PROVE  FeedInv' /\ \A e \in Event : Len(feed[e]) <= Len(feed'[e])
<1>1. CASE UNCHANGED feed
  BY <1>1 DEF FeedInv, TypeOK
<1>2. ASSUME NEW e \in Event, NEW v \in Version, Publish(e, v)
      PROVE  FeedInv' /\ \A f \in Event : Len(feed[f]) <= Len(feed'[f])
  <2>1. feed[e] \in Seq(Version) /\ Len(feed[e]) \in Nat
    BY DEF TypeOK
  <2>2. Published(e) = 1 .. Len(feed[e])
    BY <2>1 DEF Published, FeedInv
  <2>3. Cardinality(Published(e)) = Len(feed[e])
    BY <2>1, <2>2, FS_Interval
  <2>4. feed' = [feed EXCEPT ![e] = Append(@, Len(feed[e]) + 1)]
    BY <1>2, <2>3 DEF Publish
  <2>5. /\ feed'[e] = Append(feed[e], Len(feed[e]) + 1)
        /\ \A f \in Event \ {e} : feed'[f] = feed[f]
    BY <2>4 DEF TypeOK
  <2>6. v = Len(feed[e]) + 1
    BY <1>2, <2>3 DEF Publish
  <2>7. /\ Len(feed'[e]) = Len(feed[e]) + 1
        /\ \A i \in 1 .. Len(feed[e]) + 1 :
              feed'[e][i] = IF i <= Len(feed[e]) THEN feed[e][i] ELSE Len(feed[e]) + 1
    BY <2>1, <2>5, <2>6
  <2>8. \A i \in 1 .. Len(feed'[e]) : feed'[e][i] = i
    BY <2>1, <2>7 DEF FeedInv
  <2>9. FeedInv'
    BY <2>5, <2>8 DEF FeedInv
  <2>10. \A f \in Event : Len(feed[f]) <= Len(feed'[f])
    <3>1. \A f \in Event : Len(feed[f]) \in Nat
      BY DEF TypeOK
    <3>2. QED
      BY <2>5, <2>7, <3>1
  <2>11. QED
    BY <2>9, <2>10
<1>3. UNCHANGED feed \/ \E e \in Event, v \in Version : Publish(e, v)
  <2>1. ASSUME NEW r \in Run, Fails(r) \/ Crash(r) PROVE UNCHANGED feed
    BY <2>1 DEF Fails, Crash, Abandon
  <2>2. ASSUME NEW r \in Run, NEW q \in Query, StartRun(r, q) PROVE UNCHANGED feed
    BY <2>2 DEF StartRun
  <2>3. ASSUME NEW r \in Run,
               \/ Stamp(r) \/ Receive(r) \/ StoreArtifact(r) \/ Block(r) \/ Commit(r) \/ Finish(r)
               \/ \E e \in Event, v \in Version : SkipKnown(r, e, v) \/ InsertRevision(r, e, v)
        PROVE  UNCHANGED feed
    BY <2>3 DEF Stamp, Receive, StoreArtifact, Block, Commit, Finish, SkipKnown, InsertRevision
  <2>4. QED
    BY <2>1, <2>2, <2>3 DEF Next, Progress, vars, Fail, RejectPayload, Conflict, DeadlockVictim
<1>4. QED
  BY <1>1, <1>2, <1>3

LateInv == StatusInv /\ FeedInv /\ PayloadInv /\ KeptInv /\ OrderInv

\* A run that receives, ingests or commits is the only one of its source, and
\* what it ingests is of its source.
LEMMA TodoOwn ==
    ASSUME SerialInv, NEW r \in Run, step[r] \in {"received", "ingesting"}, NEW p \in todo[r]
    PROVE  SourceOf[p[1]] = RunSource(r) /\ InFlight(r)
<1>1. query[r] \in Query /\ p[1] \in query[r]
  BY DEF SerialInv, Active
<1>2. QED
  BY <1>1, QuerySource DEF InFlight

\* Steps that write no row and receive nothing.
LEMMA QuietStep ==
    ASSUME IInv, PayloadInv, KeptInv, OrderInv, UNCHANGED <<payload, stamp, revs, txRevs>>,
           TypeOK', \A e \in Event : Len(feed[e]) <= Len(feed'[e]),
           \A r \in Run :
             /\ InFlight(r)' => InFlight(r) /\ query'[r] = query[r]
             /\ step'[r] \in Active =>
                    payload[r] = {} \/ (step[r] \in Active /\ query'[r] = query[r])
             /\ step'[r] \in {"new", "started", "requesting"} =>
                    step[r] \in {"new", "started", "requesting"}
             /\ Delivered(r)' <=> Delivered(r)
             /\ step'[r] \in {"received", "ingesting"} =>
                    step[r] \in {"received", "ingesting"} /\ todo'[r] = todo[r]
    PROVE  PayloadInv' /\ KeptInv' /\ OrderInv'
<1>1. \A r \in Run : query'[r] = query[r] => RunSource(r)' = RunSource(r)
  BY DEF RunSource
<1>2. \A r \in Run : \A p \in payload[r] : p[2] <= Len(feed'[p[1]])
  <2> SUFFICES ASSUME NEW r \in Run, NEW p \in payload[r] PROVE p[2] <= Len(feed'[p[1]])
    OBVIOUS
  <2>1. p[1] \in Event /\ p[2] \in Nat
    <3>1. p \in Event \X Version
      BY DEF IInv, TypeOK
    <3>2. QED
      BY <3>1, IngestionAssumption
  <2>2. feed[p[1]] \in Seq(Version) /\ feed'[p[1]] \in Seq(Version)
    BY <2>1 DEF IInv, TypeOK
  <2>3. Len(feed[p[1]]) \in Nat /\ Len(feed'[p[1]]) \in Nat
    BY <2>2
  <2>4. p[2] <= Len(feed[p[1]])
    BY DEF PayloadInv
  <2>5. QED
    BY <2>1, <2>3, <2>4
<1>3. \A r \in Run : step'[r] \in Active => \A p \in payload[r] : SourceOf[p[1]] = RunSource(r)'
  BY <1>1 DEF PayloadInv
<1>4. PayloadInv'
  BY <1>2, <1>3 DEF PayloadInv
<1>5. KeptInv'
  BY DEF KeptInv
<1>6. OrderInv'
  BY <1>1 DEF OrderInv
<1>7. QED
  BY <1>4, <1>5, <1>6

\* Publications, starts, the artifact, waits and the end of a run are such steps.
LEMMA LateQuiet ==
    ASSUME IInv, TypeOK', PayloadInv, KeptInv, OrderInv,
           \A e \in Event : Len(feed[e]) <= Len(feed'[e]),
           \/ \E e \in Event, v \in Version : Publish(e, v)
           \/ UNCHANGED vars
           \/ \E r \in Run : \/ StoreArtifact(r) \/ Block(r) \/ Finish(r)
                             \/ \E q \in Query : StartRun(r, q)
    PROVE  PayloadInv' /\ KeptInv' /\ OrderInv'
<1> USE DEF IInv, TypeOK, InFlight, Active, Delivered
<1>1. CASE (\E e \in Event, v \in Version : Publish(e, v)) \/ UNCHANGED vars
  <2>1. UNCHANGED <<payload, stamp, revs, txRevs, step, query, todo>>
    BY <1>1 DEF Publish, vars, runVars, txVars, catalogVars
  <2>2. QED
    BY <2>1, QuietStep
<1>2. ASSUME NEW r \in Run, StoreArtifact(r) \/ Block(r) \/ Finish(r)
      PROVE  PayloadInv' /\ KeptInv' /\ OrderInv'
  <2>1. UNCHANGED <<payload, stamp, revs, txRevs, query, todo>>
    BY <1>2 DEF StoreArtifact, Block, Finish, txVars, catalogVars
  <2>2. \/ step' = step
        \/ step[r] = "received" /\ step' = [step EXCEPT ![r] = "ingesting"]
        \/ step[r] = "committed" /\ step' = [step EXCEPT ![r] = "ended"]
    BY <1>2 DEF StoreArtifact, Block, Finish
  <2>3. QED
    BY <2>1, <2>2, QuietStep
<1>3. ASSUME NEW r \in Run, NEW q \in Query, StartRun(r, q)
      PROVE  PayloadInv' /\ KeptInv' /\ OrderInv'
  <2>1. /\ UNCHANGED <<payload, stamp, revs, txRevs, todo>>
        /\ step[r] = "new" /\ step' = [step EXCEPT ![r] = "started"]
        /\ query' = [query EXCEPT ![r] = q]
    BY <1>3 DEF StartRun, txVars, catalogVars
  <2>2. payload[r] = {}
    BY <2>1 DEF PayloadInv
  <2>3. \A o \in Run \ {r} : step'[o] = step[o] /\ query'[o] = query[o]
    BY <2>1
  <2>4. step'[r] = "started"
    BY <2>1
  <2>5. QED
    BY <2>1, <2>2, <2>3, <2>4, QuietStep
<1>4. QED
  BY <1>1, <1>2, <1>3

\* The stamp of a run is later than that of any other.
LEMMA LateStamp ==
    ASSUME IInv, PayloadInv, KeptInv, OrderInv, NEW r \in Run, Stamp(r)
    PROVE  PayloadInv' /\ KeptInv' /\ OrderInv'
<1> USE DEF IInv, TypeOK, InFlight, Active, Delivered
<1>1. /\ UNCHANGED <<payload, revs, txRevs, query, todo, feed>>
      /\ now' = now + 1 /\ stamp' = [stamp EXCEPT ![r] = now + 1]
      /\ step[r] = "started" /\ step' = [step EXCEPT ![r] = "requesting"]
  BY DEF Stamp, txVars, catalogVars
<1>2. payload[r] = {} /\ stamp'[r] = now + 1 /\ step'[r] = "requesting"
      /\ \A o \in Run \ {r} : stamp'[o] = stamp[o] /\ step'[o] = step[o] /\ stamp[o] < now + 1
  BY <1>1 DEF PayloadInv, StampInv
<1>3. \A o \in Run : RunSource(o)' = RunSource(o)
  BY <1>1 DEF RunSource
<1>4. PayloadInv'
  BY <1>1, <1>2, <1>3 DEF PayloadInv
<1>5. KeptInv'
  BY <1>1, <1>2 DEF KeptInv
<1>6. OrderInv'
  BY <1>1, <1>2, <1>3 DEF OrderInv
<1>7. QED
  BY <1>4, <1>5, <1>6

\* A run receives the last content of each event, which nothing recorded is
\* later than.
LEMMA LateReceive ==
    ASSUME IInv, SerialInv, FeedInv, PayloadInv, KeptInv, OrderInv, NEW r \in Run, Receive(r)
    PROVE  PayloadInv' /\ KeptInv' /\ OrderInv'
<1> USE DEF IInv, TypeOK, InFlight, Active, Delivered
<1> DEFINE body == {p \in query[r] \X Version : feed[p[1]] # <<>> /\ p[2] = Current(p[1])}
<1>1. /\ UNCHANGED <<stamp, revs, txRevs, query, feed>>
      /\ payload' = [payload EXCEPT ![r] = body] /\ todo' = [todo EXCEPT ![r] = body]
      /\ step[r] = "requesting" /\ step' = [step EXCEPT ![r] = "received"]
  BY DEF Receive, txVars, catalogVars
<1>2. /\ payload'[r] = body /\ todo'[r] = body /\ step'[r] = "received"
      /\ \A o \in Run \ {r} : payload'[o] = payload[o] /\ todo'[o] = todo[o] /\ step'[o] = step[o]
  BY <1>1
<1>3. query[r] \in Query /\ query[r] \subseteq Event
  BY <1>1, IngestionAssumption DEF SerialInv
<1>4. \A p \in body : /\ p[1] \in Event /\ p[1] \in query[r] /\ p[2] = Len(feed[p[1]])
                      /\ SourceOf[p[1]] = RunSource(r)
  <2> SUFFICES ASSUME NEW p \in body
               PROVE  /\ p[1] \in Event /\ p[1] \in query[r] /\ p[2] = Len(feed[p[1]])
                      /\ SourceOf[p[1]] = RunSource(r)
    OBVIOUS
  <2>1. p[1] \in query[r] /\ p[1] \in Event /\ feed[p[1]] # <<>> /\ p[2] = feed[p[1]][Len(feed[p[1]])]
    BY <1>3 DEF Current
  <2>2. feed[p[1]] \in Seq(Version)
    BY <2>1
  <2>3. Len(feed[p[1]]) \in 1 .. Len(feed[p[1]])
    BY <2>1, <2>2
  <2>4. p[2] = Len(feed[p[1]])
    BY <2>1, <2>3 DEF FeedInv
  <2>5. QED
    BY <1>3, <2>1, <2>4, QuerySource
<1> HIDE DEF body
<1>5. \A o \in Run : RunSource(o)' = RunSource(o)
  BY <1>1 DEF RunSource
<1>6. \A e \in Event : Len(feed[e]) \in Nat
  OBVIOUS
<1>7. PayloadInv'
  <2>1. \A o \in Run : \A p \in payload'[o] : p[2] <= Len(feed[p[1]])
    <3>1. \A p \in body : p[2] <= Len(feed[p[1]])
      BY <1>4, <1>6
    <3>2. QED
      BY <1>2, <3>1 DEF PayloadInv
  <2>2. \A o \in Run : \A p, q \in payload'[o] : p[1] = q[1] => p[2] = q[2]
    <3>1. \A p, q \in body : p[1] = q[1] => p[2] = q[2]
      BY <1>4
    <3>2. \A o \in Run : payload'[o] = body \/ payload'[o] = payload[o]
      BY <1>2
    <3>3. ASSUME NEW o \in Run PROVE \A p, q \in payload'[o] : p[1] = q[1] => p[2] = q[2]
      <4>1. CASE payload'[o] = body
        BY <3>1, <4>1
      <4>2. CASE payload'[o] = payload[o]
        BY <4>2 DEF PayloadInv
      <4>3. QED
        BY <3>2, <4>1, <4>2
    <3>4. QED
      BY <3>3
  <2>3. \A o \in Run : step'[o] \in Active => \A p \in payload'[o] : SourceOf[p[1]] = RunSource(o)
    BY <1>2, <1>4 DEF PayloadInv
  <2>4. QED
    BY <1>1, <1>2, <1>5, <2>1, <2>2, <2>3 DEF PayloadInv
<1>8. KeptInv'
  <2>1. txRevs[r] = {}
    BY <1>1 DEF StampInv
  <2>2. \A o \in Run : step'[o] \in {"received", "ingesting"} =>
          \A p \in payload'[o] : p \in todo'[o] \/ Kept(p, revs \cup txRevs[o], stamp[o])
    BY <1>2 DEF KeptInv
  <2>3. \A o \in Run : Delivered(o)' => \A p \in payload'[o] : Kept(p, revs, stamp[o])
    BY <1>2 DEF KeptInv
  <2>4. \A o \in Run : Delivered(o) => o # r
    BY <1>1
  <2>5. \A x \in revs : \E o \in Run :
          Delivered(o)' /\ stamp[o] = x.avail /\ <<x.ev, x.ver>> \in payload'[o]
    BY <1>2, <2>4 DEF KeptInv
  <2>6. \A o \in Run : step'[o] \in {"received", "ingesting"} => todo'[o] \subseteq payload'[o]
    BY <1>2 DEF KeptInv
  <2>7. QED
    BY <1>1, <1>2, <2>1, <2>2, <2>3, <2>5, <2>6 DEF KeptInv
<1>9. OrderInv'
  <2>1. \A x \in revs : x.ver <= Len(feed[x.ev])
    <3> SUFFICES ASSUME NEW x \in revs PROVE x.ver <= Len(feed[x.ev])
      OBVIOUS
    <3>1. PICK o \in Run : <<x.ev, x.ver>> \in payload[o]
      BY DEF KeptInv
    <3>2. QED
      BY <3>1 DEF PayloadInv
  <2>2. \A o \in Run : \A p \in payload'[o] : \A x \in revs :
          x.ev = p[1] /\ x.avail <= stamp[o] => x.ver <= p[2]
    <3>1. \A p \in body : \A x \in revs : x.ev = p[1] => x.ver <= p[2]
      BY <1>4, <2>1
    <3>2. QED
      BY <1>2, <3>1 DEF OrderInv
  <2>3. \A o \in Run : InFlight(o)' => InFlight(o)
    BY <1>1, <1>2
  <2>4. \A o \in Run : o # r /\ InFlight(o) => RunSource(o) # RunSource(r)
    BY <1>1 DEF SerialInv
  <2>5. \A o \in Run : InFlight(o)' => \A a \in Run \ {o} : \A p \in payload'[a] :
          SourceOf[p[1]] = RunSource(o) => stamp[a] < stamp[o]
    BY <1>2, <1>4, <2>3, <2>4 DEF OrderInv
  <2>6. QED
    BY <1>1, <1>5, <2>2, <2>5 DEF OrderInv
<1>10. QED
  BY <1>7, <1>8, <1>9

\* A content that is skipped is recorded.
LEMMA LateSkip ==
    ASSUME IInv, SerialInv, OwnInv, PayloadInv, KeptInv, OrderInv,
           NEW r \in Run, NEW e \in Event, NEW v \in Version, SkipKnown(r, e, v)
    PROVE  PayloadInv' /\ KeptInv' /\ OrderInv'
<1>1. /\ UNCHANGED <<payload, stamp, revs, txRevs, query, feed, step>>
      /\ todo' = [todo EXCEPT ![r] = @ \ {<<e, v>>}]
      /\ <<e, v>> \in todo[r] /\ step[r] = "ingesting" /\ RevisionKey(e, v) \in RevKeys(revs)
  BY DEF SkipKnown, txVars, catalogVars
<1>2. SourceOf[e] = RunSource(r) /\ InFlight(r)
  BY <1>1, TodoOwn
<1>3. PICK x \in revs : x.ev = e /\ x.ver = v
  BY <1>1 DEF RevKeys, RevisionKey, EventKey
<1>4. x.avail <= stamp[r]
  <2>1. x.avail < stamp[r]
    BY <1>2, <1>3 DEF OwnInv
  <2>2. x.avail \in Nat /\ stamp[r] \in Nat
    BY DEF IInv, TypeOK, Revision
  <2>3. QED
    BY <2>1, <2>2
<1>5. \A p \in payload[r] : p = <<e, v>> => Kept(p, revs \cup txRevs[r], stamp[r])
  BY <1>3, <1>4 DEF Kept
<1>6. \A o \in Run : \A p \in todo[o] : p \in todo'[o] \/ (o = r /\ p = <<e, v>>)
  BY <1>1 DEF IInv, TypeOK
<1>7. KeptInv'
  <2>1. \A o \in Run : todo'[o] \subseteq todo[o]
    BY <1>1 DEF IInv, TypeOK
  <2>2. QED
    BY <1>1, <1>5, <1>6, <2>1 DEF KeptInv, Delivered
<1>8. PayloadInv' /\ OrderInv'
  <2>1. \A o \in Run : RunSource(o)' = RunSource(o)
    BY <1>1 DEF RunSource
  <2>2. QED
    BY <1>1, <2>1 DEF PayloadInv, OrderInv, InFlight
<1>9. QED
  BY <1>7, <1>8

\* What is inserted was received.
LEMMA LateInsert ==
    ASSUME IInv, SerialInv, PayloadInv, KeptInv, OrderInv,
           NEW r \in Run, NEW e \in Event, NEW v \in Version, InsertRevision(r, e, v)
    PROVE  PayloadInv' /\ KeptInv' /\ OrderInv'
<1> DEFINE rev == [ev |-> e, ver |-> v, avail |-> stamp[r]]
<1>1. /\ UNCHANGED <<payload, stamp, revs, query, feed, step>>
      /\ todo' = [todo EXCEPT ![r] = @ \ {<<e, v>>}]
      /\ txRevs' = [txRevs EXCEPT ![r] = @ \cup {rev}]
      /\ <<e, v>> \in todo[r] /\ step[r] = "ingesting"
  BY DEF InsertRevision, catalogVars
<1>2. rev.ev = e /\ rev.ver = v /\ rev.avail <= stamp[r]
  BY DEF IInv, TypeOK
<1> HIDE DEF rev
<1>3. /\ txRevs'[r] = txRevs[r] \cup {rev}
      /\ \A o \in Run \ {r} : txRevs'[o] = txRevs[o]
  BY <1>1 DEF IInv, TypeOK
<1>4. \A p \in payload[r] : p = <<e, v>> => Kept(p, revs \cup txRevs'[r], stamp[r])
  BY <1>2, <1>3 DEF Kept
<1>5. \A o \in Run : \A p \in todo[o] : p \in todo'[o] \/ (o = r /\ p = <<e, v>>)
  BY <1>1 DEF IInv, TypeOK
<1>6. \A o \in Run : \A p : Kept(p, revs \cup txRevs[o], stamp[o])
                              => Kept(p, revs \cup txRevs'[o], stamp[o])
  BY <1>3 DEF Kept
<1>7. <<rev.ev, rev.ver>> \in payload[r]
  BY <1>1, <1>2 DEF KeptInv
<1>8. KeptInv'
  <2>1. \A o \in Run : step[o] \in {"received", "ingesting"} =>
          \A p \in payload[o] : p \in todo'[o] \/ Kept(p, revs \cup txRevs'[o], stamp[o])
    BY <1>4, <1>5, <1>6 DEF KeptInv
  <2>2. \A o \in Run : \A x \in txRevs'[o] : <<x.ev, x.ver>> \in payload[o]
    BY <1>3, <1>7 DEF KeptInv
  <2>3. \A o \in Run : todo'[o] \subseteq todo[o]
    BY <1>1 DEF IInv, TypeOK
  <2>4. QED
    BY <1>1, <2>1, <2>2, <2>3 DEF KeptInv, Delivered
<1>9. PayloadInv' /\ OrderInv'
  <2>1. \A o \in Run : RunSource(o)' = RunSource(o)
    BY <1>1 DEF RunSource
  <2>2. QED
    BY <1>1, <2>1 DEF PayloadInv, OrderInv, InFlight
<1>10. QED
  BY <1>8, <1>9

\* A commit adds the contents the run received, later than what its source had.
LEMMA LateCommit ==
    ASSUME IInv, SerialInv, OwnInv, PayloadInv, KeptInv, OrderInv, NEW r \in Run, Commit(r)
    PROVE  PayloadInv' /\ KeptInv' /\ OrderInv'
<1> USE DEF IInv, TypeOK, InFlight, Active, Delivered
<1>1. /\ UNCHANGED <<payload, stamp, query, feed, todo>>
      /\ revs' = revs \cup txRevs[r] /\ txRevs' = [txRevs EXCEPT ![r] = {}]
      /\ todo[r] = {} /\ step[r] = "ingesting" /\ step' = [step EXCEPT ![r] = "committed"]
  BY DEF Commit
<1>2. /\ txRevs'[r] = {} /\ step'[r] = "committed"
      /\ \A o \in Run \ {r} : txRevs'[o] = txRevs[o] /\ step'[o] = step[o]
  BY <1>1
<1>3. \A o \in Run : RunSource(o)' = RunSource(o)
  BY <1>1 DEF RunSource
<1>4. \A x \in txRevs[r] : /\ x.avail = stamp[r] /\ SourceOf[x.ev] = RunSource(r)
                           /\ <<x.ev, x.ver>> \in payload[r]
  BY DEF StampInv, OwnInv, KeptInv
<1>5. PayloadInv'
  BY <1>1, <1>2, <1>3 DEF PayloadInv
<1>6. KeptInv'
  <2>1. \A o \in Run : step'[o] \in {"received", "ingesting"} =>
          \A p \in payload[o] : p \in todo[o] \/ Kept(p, revs' \cup txRevs'[o], stamp[o])
    BY <1>1, <1>2 DEF KeptInv, Kept
  <2>2. \A p \in payload[r] : Kept(p, revs', stamp[r])
    BY <1>1 DEF KeptInv
  <2>3. \A o \in Run : Delivered(o)' => \A p \in payload[o] : Kept(p, revs', stamp[o])
    <3>1. \A o \in Run \ {r} : Delivered(o)' => \A p \in payload[o] : Kept(p, revs, stamp[o])
      BY <1>2 DEF KeptInv
    <3>2. QED
      BY <1>1, <2>2, <3>1 DEF Kept
  <2>4. \A x \in revs' : \E o \in Run :
          Delivered(o)' /\ stamp[o] = x.avail /\ <<x.ev, x.ver>> \in payload[o]
    <3>1. \A o \in Run : Delivered(o) => Delivered(o)'
      BY <1>2
    <3>2. QED
      BY <1>1, <1>2, <1>4, <3>1 DEF KeptInv
  <2>5. QED
    BY <1>1, <1>2, <2>1, <2>3, <2>4 DEF KeptInv
<1>7. OrderInv'
  <2>1. \A o \in Run : InFlight(o)' => InFlight(o)
    BY <1>1, <1>2
  <2>2. \A o \in Run : InFlight(o)' => \A a \in Run \ {o} : \A p \in payload'[a] :
          SourceOf[p[1]] = RunSource(o)' => stamp'[a] < stamp'[o]
    BY <1>1, <1>3, <2>1 DEF OrderInv
  <2>3. ASSUME NEW a \in Run, NEW p \in payload[a], NEW x \in txRevs[r],
               x.ev = p[1], x.avail <= stamp[a]
        PROVE  x.ver <= p[2]
    <3>1. a = r
      <4>1. SourceOf[p[1]] = RunSource(r)
        BY <1>4, <2>3
      <4>2. a # r => stamp[a] < stamp[r]
        BY <1>1, <4>1 DEF OrderInv
      <4>3. stamp[a] \in Nat /\ stamp[r] \in Nat /\ x.avail = stamp[r]
        BY <1>4
      <4>4. QED
        BY <2>3, <4>2, <4>3
    <3>2. x.ver = p[2]
      <4>1. <<x.ev, x.ver>> \in payload[r] /\ p \in payload[r]
        BY <1>4, <3>1
      <4>2. <<x.ev, x.ver>>[1] = p[1]
        BY <2>3
      <4>3. <<x.ev, x.ver>>[2] = p[2]
        BY <4>1, <4>2 DEF PayloadInv
      <4>4. QED
        BY <4>3
    <3>3. x.ver \in Nat
      <4>1. x.ver \in Version
        BY DEF Revision
      <4>2. QED
        BY <4>1, IngestionAssumption
    <3>4. QED
      BY <3>2, <3>3
  <2>4. \A a \in Run : \A p \in payload'[a] : \A x \in revs' :
          x.ev = p[1] /\ x.avail <= stamp'[a] => x.ver <= p[2]
    BY <1>1, <2>3 DEF OrderInv
  <2>5. ASSUME NEW x \in revs, NEW y \in txRevs[r], x.ev = y.ev
        PROVE  x.ver <= y.ver /\ ~(y.avail <= x.avail)
    <3>1. x.avail < stamp[r] /\ y.avail = stamp[r]
      BY <1>1, <1>4, <2>5 DEF OwnInv
    <3>2. x.avail \in Nat /\ stamp[r] \in Nat
      BY DEF Revision
    <3>3. x.avail <= stamp[r] /\ ~(y.avail <= x.avail)
      BY <3>1, <3>2
    <3>4. <<y.ev, y.ver>> \in payload[r]
      BY <1>4
    <3>5. x.ver <= <<y.ev, y.ver>>[2]
      <4>1. x.ev = <<y.ev, y.ver>>[1]
        BY <2>5
      <4>2. QED
        BY <3>3, <3>4, <4>1 DEF OrderInv
    <3>6. QED
      BY <3>3, <3>5
  <2>6. ASSUME NEW x \in txRevs[r], NEW y \in txRevs[r], x.ev = y.ev
        PROVE  x.ver <= y.ver
    <3>1. <<x.ev, x.ver>> \in payload[r] /\ <<y.ev, y.ver>> \in payload[r]
      BY <1>4
    <3>2. <<x.ev, x.ver>>[2] = <<y.ev, y.ver>>[2]
      <4>1. <<x.ev, x.ver>>[1] = <<y.ev, y.ver>>[1]
        BY <2>6
      <4>2. QED
        BY <3>1, <4>1 DEF PayloadInv
    <3>3. x.ver \in Nat
      <4>1. x.ver \in Version
        BY DEF Revision
      <4>2. QED
        BY <4>1, IngestionAssumption
    <3>4. QED
      BY <3>2, <3>3
  <2>7. \A x, y \in revs' : x.ev = y.ev /\ x.avail <= y.avail => x.ver <= y.ver
    BY <1>1, <2>5, <2>6 DEF OrderInv
  <2>8. QED
    BY <2>2, <2>4, <2>7 DEF OrderInv
<1>8. QED
  BY <1>5, <1>6, <1>7

\* A run that leaves before it commits forgets what it received.
LEMMA LateAbandon ==
    ASSUME IInv, PayloadInv, KeptInv, OrderInv, NEW r \in Run, Abandon(r), step[r] \in Active,
           step' = [step EXCEPT ![r] = "ended"] \/ step' = [step EXCEPT ![r] = "crashed"]
    PROVE  PayloadInv' /\ KeptInv' /\ OrderInv'
<1> USE DEF IInv, TypeOK, InFlight, Active, Delivered
<1>1. /\ UNCHANGED <<revs, feed>>
      /\ txRevs' = [txRevs EXCEPT ![r] = {}] /\ query' = [query EXCEPT ![r] = {}]
      /\ todo' = [todo EXCEPT ![r] = {}]
  BY DEF Abandon, catalogVars
<1>2. /\ txRevs'[r] = {} /\ step'[r] \in {"ended", "crashed"}
      /\ \A o \in Run \ {r} : /\ txRevs'[o] = txRevs[o] /\ step'[o] = step[o]
                              /\ query'[o] = query[o] /\ todo'[o] = todo[o]
  BY <1>1
<1>3. /\ \A o \in Run \ {r} : payload'[o] = payload[o] /\ stamp'[o] = stamp[o]
      /\ IF step[r] = "committed"
           THEN payload'[r] = payload[r] /\ stamp'[r] = stamp[r]
           ELSE payload'[r] = {}
  <2>1. IF step[r] = "committed"
          THEN UNCHANGED <<stamp, payload>>
          ELSE stamp' = [stamp EXCEPT ![r] = 0] /\ payload' = [payload EXCEPT ![r] = {}]
    BY DEF Abandon
  <2>2. QED
    BY <2>1
<1>4. \A o \in Run \ {r} : RunSource(o)' = RunSource(o)
  BY <1>2 DEF RunSource
<1>5. PayloadInv'
  <2>1. \A o \in Run : payload'[o] \subseteq payload[o]
    BY <1>3
  <2>2. \A o \in Run : step'[o] \in {"new", "started", "requesting"} => payload'[o] = {}
    BY <1>2, <1>3 DEF PayloadInv
  <2>3. \A o \in Run : step'[o] \in Active => o # r /\ step[o] \in Active
    BY <1>2
  <2>4. \A o \in Run : step'[o] \in Active => \A p \in payload'[o] : SourceOf[p[1]] = RunSource(o)'
    BY <1>4, <2>1, <2>3 DEF PayloadInv
  <2>5. QED
    BY <1>1, <2>1, <2>2, <2>4 DEF PayloadInv
<1>6. KeptInv'
  <2>0. \A o \in Run : step'[o] \in {"received", "ingesting"} => todo'[o] \subseteq payload'[o]
    BY <1>2, <1>3 DEF KeptInv
  <2>1. \A o \in Run : step'[o] \in {"received", "ingesting"} =>
          \A p \in payload'[o] : p \in todo'[o] \/ Kept(p, revs \cup txRevs'[o], stamp'[o])
    BY <1>2, <1>3 DEF KeptInv
  <2>2. \A o \in Run : Delivered(o)' => \A p \in payload'[o] : Kept(p, revs, stamp'[o])
    BY <1>2, <1>3 DEF KeptInv
  <2>3. \A o \in Run : \A x \in txRevs'[o] : <<x.ev, x.ver>> \in payload'[o]
    BY <1>2, <1>3 DEF KeptInv
  <2>4. \A o \in Run : Delivered(o) =>
          Delivered(o)' /\ payload'[o] = payload[o] /\ stamp'[o] = stamp[o]
    BY <1>2, <1>3
  <2>5. \A x \in revs : \E o \in Run :
          Delivered(o)' /\ stamp'[o] = x.avail /\ <<x.ev, x.ver>> \in payload'[o]
    BY <2>4 DEF KeptInv
  <2>6. QED
    BY <1>1, <2>0, <2>1, <2>2, <2>3, <2>5 DEF KeptInv
<1>7. OrderInv'
  <2>1. \A a \in Run : \A p \in payload'[a] : p \in payload[a] /\ stamp'[a] = stamp[a]
    BY <1>3
  <2>2. \A o \in Run : InFlight(o)' => InFlight(o) /\ o # r /\ stamp'[o] = stamp[o]
    BY <1>2, <1>3
  <2>3. \A o \in Run : InFlight(o)' => \A a \in Run \ {o} : \A p \in payload'[a] :
          SourceOf[p[1]] = RunSource(o)' => stamp'[a] < stamp'[o]
    BY <1>4, <2>1, <2>2 DEF OrderInv
  <2>4. QED
    BY <1>1, <2>1, <2>3 DEF OrderInv
<1>8. QED
  BY <1>5, <1>6, <1>7

\* Every step keeps the deliveries of one source in order.
LEMMA LateStep ==
    ASSUME ~Overlap, Reverting = {}, IInv, TypeOK', SerialRunsInv, LateInv, [Next]_vars
    PROVE  LateInv'
<1> USE DEF LateInv, SerialRunsInv
<1>1. StatusInv' /\ FeedInv' /\ \A e \in Event : Len(feed[e]) <= Len(feed'[e])
  BY StatusStep, FeedStep DEF IInv
<1>2. ASSUME NEW r \in Run, Fails(r) \/ Crash(r), step[r] \in Active
      PROVE  PayloadInv' /\ KeptInv' /\ OrderInv'
  BY <1>2, LateAbandon DEF Fails, Crash
<1>3. ASSUME NEW r \in Run, RejectPayload(r) \/ Conflict(r) \/ DeadlockVictim(r) \/ Fail(r) \/ Crash(r)
      PROVE  (Fails(r) \/ Crash(r)) /\ step[r] \in Active
  <2>1. waits[r] # NoKey => step[r] \in Active
    BY DEF StatusInv, Active
  <2>2. DeadlockVictim(r) => waits[r] # NoKey
    BY DEF DeadlockVictim
  <2>3. QED
    BY <1>3, <2>1, <2>2 DEF RejectPayload, Conflict, DeadlockVictim, Fail, Crash, Active
<1>4. PayloadInv' /\ KeptInv' /\ OrderInv'
  <2>1. ASSUME NEW r \in Run, Progress(r) PROVE PayloadInv' /\ KeptInv' /\ OrderInv'
    <3>1. CASE Stamp(r)
      BY <3>1, LateStamp
    <3>2. CASE Receive(r)
      BY <3>2, LateReceive
    <3>3. CASE Commit(r)
      BY <3>3, LateCommit
    <3>4. CASE \E e \in Event, v \in Version : SkipKnown(r, e, v)
      BY <3>4, LateSkip
    <3>5. CASE \E e \in Event, v \in Version : InsertRevision(r, e, v)
      BY <3>5, LateInsert
    <3>6. CASE StoreArtifact(r) \/ Block(r) \/ Finish(r)
      BY <1>1, <3>6, LateQuiet
    <3>7. CASE RejectPayload(r) \/ Conflict(r) \/ DeadlockVictim(r)
      BY <1>2, <1>3, <3>7
    <3>8. QED
      BY <2>1, <3>1, <3>2, <3>3, <3>4, <3>5, <3>6, <3>7 DEF Progress
  <2>2. ASSUME NEW r \in Run, Fail(r) \/ Crash(r) PROVE PayloadInv' /\ KeptInv' /\ OrderInv'
    BY <1>2, <1>3, <2>2
  <2>3. CASE \/ \E e \in Event, v \in Version : Publish(e, v)
             \/ UNCHANGED vars
             \/ \E r \in Run, q \in Query : StartRun(r, q)
    BY <1>1, <2>3, LateQuiet
  <2>4. QED
    BY <2>1, <2>2, <2>3 DEF Next
<1>5. QED
  BY <1>1, <1>4

\* Of the recorded revisions of an event one is the latest.
LEMMA LatestExists ==
    ASSUME NEW R \in SUBSET Revision, NEW t \in Nat, \A y \in R : y.avail <= t, NEW x \in R
    PROVE  \E y \in LatestOf(R) : y.ev = x.ev
<1> DEFINE Ages == {t - y.avail : y \in {z \in R : z.ev = x.ev}}
<1>1. \A y \in R : y.avail \in Nat /\ t - y.avail \in Nat
  BY DEF Revision
<1>2. Ages \in SUBSET Nat /\ t - x.avail \in Ages
  BY <1>1
<1>3. PICK a \in Ages : \A k \in Ages : <<k, a>> \notin OpToRel(<, Nat)
  BY <1>2, WFMin, NatLessThanWellFounded, Zenon
<1>4. \A k \in Ages : ~(k < a)
  BY <1>2, <1>3, Zenon DEF OpToRel
<1>5. PICK y \in R : y.ev = x.ev /\ a = t - y.avail
  OBVIOUS
<1>6. ASSUME NEW z \in R, z.ev = y.ev PROVE z.avail <= y.avail
  <2>1. t - z.avail \in Ages
    BY <1>5, <1>6
  <2>2. ~(t - z.avail < t - y.avail)
    BY <1>4, <1>5, <2>1
  <2>3. QED
    BY <1>1, <2>2
<1>7. QED
  BY <1>5, <1>6 DEF LatestOf

\* If runs of one source do not overlap and no source goes back to a content it
\* had withdrawn (USGS cannot, its contents being dated; CSN can), the catalog says what the last delivery of each event said,
\* whatever runs fail or die and however those of other sources interleave.
THEOREM LastDeliveryHolds ==
    ASSUME ~Overlap, Reverting = {} PROVE Spec => []CatalogReflectsLastDelivery
<1>1. Init => LateInv
  BY DEF Init, LateInv, StatusInv, FeedInv, PayloadInv, KeptInv, OrderInv, InFlight, Active, Delivered
<1>2. IInv /\ TypeOK' /\ SerialRunsInv /\ LateInv /\ [Next]_vars => LateInv'
  BY LateStep
<1>3. Spec => []LateInv
  BY <1>1, <1>2, Invariance, SerialInvariance, TypeCorrect, PTL DEF Spec
<1>4. IInv /\ SerialRunsInv /\ LateInv => CatalogReflectsLastDelivery
  <2> SUFFICES ASSUME IInv, SerialRunsInv, LateInv, NEW r \in Run, NEW p \in Event \X Version,
                      status[r] = "succeeded", p \in payload[r]
               PROVE  \E x \in LatestRevisions(revs, now) :
                         /\ x.ev = p[1]
                         /\ \/ x.ver = p[2]
                            \/ \E o \in Run : stamp[o] > stamp[r] /\ <<x.ev, x.ver>> \in payload[o]
    BY DEF CatalogReflectsLastDelivery
  <2> USE DEF LateInv, IInv, TypeOK
  <2>1. Delivered(r)
    BY DEF StatusInv, Delivered
  <2>2. PICK x0 \in revs : x0.ev = p[1] /\ x0.ver = p[2] /\ x0.avail <= stamp[r]
    BY <2>1 DEF KeptInv, Kept
  <2>3. LatestRevisions(revs, now) = LatestOf(revs) /\ \A y \in revs : y.avail <= now
    <3>1. \A y \in revs : y.avail <= now
      BY DEF SerialRunsInv, OwnInv
    <3>2. VisibleRevs(revs, now) = revs
      BY <3>1 DEF VisibleRevs
    <3>3. QED
      BY <3>1, <3>2 DEF LatestRevisions
  <2>4. PICK x \in LatestOf(revs) : x.ev = p[1]
    <3>1. revs \in SUBSET Revision /\ now \in Nat
      OBVIOUS
    <3>2. \E y \in LatestOf(revs) : y.ev = x0.ev
      BY <2>3, <3>1, LatestExists
    <3>3. QED
      BY <2>2, <3>2
  <2>5. x \in revs /\ x0.avail <= x.avail
    BY <2>2, <2>4 DEF LatestOf
  <2>6. p[2] <= x.ver
    BY <2>2, <2>4, <2>5 DEF OrderInv
  <2>7. x.avail \in Nat /\ stamp[r] \in Nat /\ x.ver \in Nat /\ p[2] \in Nat
    <3>1. x \in Revision
      BY <2>5
    <3>2. QED
      BY <3>1, IngestionAssumption DEF Revision
  <2>8. CASE x.avail <= stamp[r]
    <3>1. x.ver <= p[2]
      BY <2>4, <2>5, <2>8 DEF OrderInv
    <3>2. x.ver = p[2]
      BY <2>6, <2>7, <3>1
    <3>3. QED
      BY <2>3, <2>4, <3>2
  <2>9. CASE x.avail > stamp[r]
    <3>1. PICK o \in Run : stamp[o] = x.avail /\ <<x.ev, x.ver>> \in payload[o]
      BY <2>5 DEF KeptInv
    <3>2. QED
      BY <2>3, <2>4, <2>9, <3>1
  <2>10. x.avail <= stamp[r] \/ x.avail > stamp[r]
    BY <2>7
  <2>11. QED
    BY <2>8, <2>9, <2>10
<1>5. QED
  BY <1>3, <1>4, Invariance, SerialInvariance, PTL

-----------------------------------------------------------------------------
(* No standstill                                                              *)
(* The part of EveryRunEnds that needs no fairness: whatever the transactions *)
(* of other runs hold, some run that has not ended can take a step of its own *)
(* work, with no error and no crash.  MayMove spells out the guards of the    *)
(* disjuncts of Progress.                                                     *)

\* Runs whose inserts wait for one another in a circle.
Circle(C) ==
    /\ \A a \in C : waits[a] # NoKey /\ \E b \in C \ {a} : waits[a] \in HeldKeys(b)
    /\ \A b \in C : \E a \in C \ {b} : waits[a] \in HeldKeys(b)

MayInsert(r, e, v) ==
    /\ CanInsert(r, RowKey(e, v))
    /\ Links([ev |-> e, ver |-> v, avail |-> stamp[r]],
             revs \cup txRevs[r], mem \cup txMem[r]) # {}

MayIngest(r, e, v) ==
    \/ waits[r] = NoKey /\ RevisionKey(e, v) \in RevKeys(revs)
    \/ MayInsert(r, e, v)

MayMove(r) ==
    \/ step[r] \in {"started", "requesting", "committed"}
    \/ /\ step[r] = "received"
       /\ \/ waits[r] = NoKey /\ ArtifactKey(r) \in artifacts
          \/ CanInsert(r, ArtifactKey(r))
    \/ step[r] = "ingesting" /\ todo[r] = {} /\ waits[r] = NoKey
    \/ /\ step[r] = "ingesting"
       /\ \E e \in Event, v \in Version : <<e, v>> \in todo[r] /\ MayIngest(r, e, v)
    \/ waits[r] = NoKey /\ \E k \in Wanted(r) \ CommittedKeys : Holder(r, k)
    \/ waits[r] # NoKey /\ waits[r] \in CommittedKeys
    \/ \E C \in SUBSET Run : r \in C /\ Circle(C)

\* As long as a run has not ended, some run may move.
NoStandstill ==
    (\E r \in Run : step[r] \in Active) => \E r \in Run : step[r] \in Active /\ MayMove(r)

\* What the transactions of the runs hold, and what a run waits for, is recorded
\* for every run.
EachRun ==
    /\ \E W : waits \in [Run -> W]
    /\ \E A : txArtifacts \in [Run -> A]

\* What a waiting run waits for is what it wants to insert, or is committed by
\* now; only a run that is ingesting holds keys; a key of an artifact is never
\* that of a row; and finitely many runs have been started.
ArtifactOnly(k) == \A e \in Event, v \in Version : k # EventKey(e) /\ k # RevisionKey(e, v)
WaitInv ==
    /\ EachRun
    /\ \A r \in Run : waits[r] # NoKey =>
        /\ step[r] \in {"received", "ingesting"}
        /\ waits[r] \in Wanted(r) \cup CommittedKeys
    /\ \A r \in Run : txArtifacts[r] # {} => step[r] = "ingesting"
    /\ \A k \in artifacts : ArtifactOnly(k)
    /\ \A r \in Run : \A k \in txArtifacts[r] : ArtifactOnly(k)
    /\ IsFiniteSet({r \in Run : step[r] # "new"})

\* Keys once committed stay committed.
LEMMA CommittedStays ==
    [Next]_vars => revs \subseteq revs' /\ CommittedKeys \subseteq CommittedKeys'
<1> SUFFICES ASSUME [Next]_vars
             PROVE  revs \subseteq revs' /\ CommittedKeys \subseteq CommittedKeys'
  OBVIOUS
<1>1. artifacts \subseteq artifacts' /\ revs \subseteq revs'
  <2>1. ASSUME NEW e \in Event, NEW v \in Version, Publish(e, v)
        PROVE  UNCHANGED <<artifacts, revs>>
    BY <2>1 DEF Publish, catalogVars
  <2>2. ASSUME NEW r \in Run, NEW q \in Query, StartRun(r, q)
        PROVE  UNCHANGED <<artifacts, revs>>
    BY <2>2 DEF StartRun, catalogVars
  <2>3. ASSUME NEW r \in Run, Stamp(r) \/ Receive(r) \/ StoreArtifact(r) \/ Finish(r) \/ Block(r)
        PROVE  UNCHANGED <<artifacts, revs>>
    BY <2>3 DEF Stamp, Receive, StoreArtifact, Finish, Block, txVars, catalogVars
  <2>4. ASSUME NEW r \in Run, NEW e \in Event, NEW v \in Version,
               SkipKnown(r, e, v) \/ InsertRevision(r, e, v)
        PROVE  UNCHANGED <<artifacts, revs>>
    BY <2>4 DEF SkipKnown, InsertRevision, txVars, catalogVars
  <2>5. ASSUME NEW r \in Run,
               RejectPayload(r) \/ Conflict(r) \/ DeadlockVictim(r) \/ Fail(r) \/ Crash(r)
        PROVE  UNCHANGED <<artifacts, revs>>
    BY <2>5 DEF RejectPayload, Conflict, DeadlockVictim, Fail, Fails, Crash, Abandon, catalogVars
  <2>6. ASSUME NEW r \in Run, Commit(r) PROVE artifacts \subseteq artifacts' /\ revs \subseteq revs'
    BY <2>6 DEF Commit
  <2>7. CASE UNCHANGED vars
    BY <2>7 DEF vars, catalogVars
  <2>8. QED
    BY <2>1, <2>2, <2>3, <2>4, <2>5, <2>6, <2>7 DEF Next, Progress
<1>2. RevKeys(revs) \subseteq RevKeys(revs')
  BY <1>1 DEF RevKeys
<1>3. QED
  BY <1>1, <1>2 DEF CommittedKeys

\* What a run wants to insert is still what it wants, or is committed, after a
\* step that leaves the run as it was.
LEMMA WantedStays ==
    ASSUME TypeOK, NEW r \in Run, CommittedKeys \subseteq CommittedKeys', revs \subseteq revs',
           step'[r] = step[r], todo'[r] = todo[r], query'[r] = query[r],
           payload'[r] = payload[r], stamp'[r] = stamp[r]
    PROVE  Wanted(r) \subseteq (Wanted(r))' \cup CommittedKeys'
<1>1. ArtifactKey(r)' = ArtifactKey(r)
  BY DEF ArtifactKey, RunSource
<1>2. \A e \in Event, v \in Version : RowKey(e, v) \in {RowKey(e, v)'} \cup CommittedKeys'
  <2> SUFFICES ASSUME NEW e \in Event, NEW v \in Version, RowKey(e, v) \notin CommittedKeys'
               PROVE  RowKey(e, v)' = RowKey(e, v)
    OBVIOUS
  <2>1. RevKeys(revs) \subseteq RevKeys(revs') /\ RevKeys(revs') \subseteq CommittedKeys'
    BY DEF RevKeys, CommittedKeys
  <2>2. QED
    BY <2>1 DEF RowKey
<1>3. CASE step[r] = "received"
  BY <1>1, <1>3 DEF Wanted
<1>4. CASE step[r] = "ingesting"
  <2>1. /\ Wanted(r) = {RowKey(p[1], p[2]) : p \in todo[r]}
        /\ (Wanted(r))' = {RowKey(p[1], p[2])' : p \in todo[r]}
    BY <1>4 DEF Wanted
  <2>2. todo[r] \subseteq Event \X Version
    BY DEF TypeOK
  <2>3. QED
    BY <1>2, <2>1, <2>2
<1>5. CASE step[r] \notin {"received", "ingesting"}
  BY <1>5 DEF Wanted
<1>6. QED
  BY <1>3, <1>4, <1>5

\* A run that is left alone, in a step that only adds committed keys, keeps its
\* part of the invariant.
Left(r) ==
    /\ step'[r] = step[r] /\ query'[r] = query[r] /\ payload'[r] = payload[r]
    /\ stamp'[r] = stamp[r] /\ todo'[r] = todo[r] /\ waits'[r] = waits[r]
    /\ txArtifacts'[r] = txArtifacts[r]

\* A step of ingestion is one publication, or the step of one run.
StepOf(r) ==
    \/ \E q \in Query : StartRun(r, q)
    \/ Progress(r)
    \/ Fail(r)
    \/ Crash(r)

\* What a run's step does to the run itself: afterwards it waits for nothing, or
\* has just begun to wait for a key it wants; it holds an artifact's key only
\* while it ingests; and the other runs are left alone.
LEMMA OwnWaits ==
    ASSUME TypeOK, WaitInv, NEW r \in Run, StepOf(r)
    PROVE  /\ waits'[r] = NoKey \/ Block(r)
           /\ \/ txArtifacts'[r] = {}
              \/ txArtifacts'[r] = txArtifacts[r] /\ step'[r] = step[r]
              \/ txArtifacts'[r] \subseteq {ArtifactKey(r)} /\ step'[r] = "ingesting"
           /\ step[r] # "new" \/ \E q \in Query : StartRun(r, q)
           /\ artifacts' \subseteq artifacts \cup txArtifacts[r]
           /\ \A o \in Run \ {r} : Left(o)
           /\ EachRun'
<1>1. PICK W, A : waits \in [Run -> W] /\ txArtifacts \in [Run -> A]
  BY Zenon DEF WaitInv, EachRun
<1> DEFINE Waits == waits'[r] = NoKey \/ Block(r)
           Holds == \/ txArtifacts'[r] = {}
                    \/ txArtifacts'[r] = txArtifacts[r] /\ step'[r] = step[r]
                    \/ txArtifacts'[r] \subseteq {ArtifactKey(r)} /\ step'[r] = "ingesting"
           Stores == artifacts' \subseteq artifacts \cup txArtifacts[r]
           Alone == \A o \in Run \ {r} : Left(o)
           Typed == /\ waits' \in [Run -> W \cup {waits'[r]}]
                    /\ txArtifacts' \in [Run -> A \cup {txArtifacts'[r]}]
           Goal == Waits /\ Holds /\ Stores /\ Alone /\ Typed
<1>2. /\ waits[r] # NoKey => step[r] \in {"received", "ingesting"}
      /\ txArtifacts[r] # {} => step[r] = "ingesting"
      /\ step[r] # "new" => waits[r] = NoKey \/ step[r] \in {"received", "ingesting"}
  BY DEF WaitInv
<1>3. ASSUME NEW q \in Query, StartRun(r, q) PROVE Goal
  BY <1>1, <1>2, <1>3 DEF StartRun, Left, TypeOK, txVars, catalogVars
<1>4. ASSUME Stamp(r) PROVE Goal
  BY <1>1, <1>2, <1>4 DEF Stamp, Left, TypeOK, txVars, catalogVars
<1>5. ASSUME Receive(r) PROVE Goal
  BY <1>1, <1>2, <1>5 DEF Receive, Left, TypeOK, txVars, catalogVars
<1>6. ASSUME StoreArtifact(r) PROVE Goal
  <2>1. /\ step[r] = "received" /\ step' = [step EXCEPT ![r] = "ingesting"]
        /\ waits' = [waits EXCEPT ![r] = NoKey]
        /\ artifacts' = artifacts /\ UNCHANGED <<query, payload, stamp, todo>>
    BY <1>6 DEF StoreArtifact, catalogVars
  <2>2. txArtifacts[r] = {}
    BY <1>2, <2>1
  <2>3. CASE UNCHANGED txArtifacts
    BY <1>1, <2>1, <2>2, <2>3 DEF Left, TypeOK
  <2>4. CASE txArtifacts' = [txArtifacts EXCEPT ![r] = {ArtifactKey(r)}]
    BY <1>1, <2>1, <2>4 DEF Left, TypeOK
  <2>5. QED
    BY <1>6, <2>3, <2>4 DEF StoreArtifact
<1>7. ASSUME Commit(r) PROVE Goal
  <2>1. Waits /\ Holds /\ Stores /\ Typed
    BY <1>1, <1>7 DEF Commit
  <2>2. Alone
    BY <1>1, <1>7 DEF Commit, Left, TypeOK
  <2>3. QED
    BY <2>1, <2>2
<1>8. ASSUME Finish(r) PROVE Goal
  BY <1>1, <1>2, <1>8 DEF Finish, Left, TypeOK, txVars, catalogVars
<1>9. ASSUME Abandon(r), step' = [step EXCEPT ![r] = step'[r]] PROVE Goal
  <2>1. /\ txArtifacts' = [txArtifacts EXCEPT ![r] = {}]
        /\ waits' = [waits EXCEPT ![r] = NoKey]
        /\ todo' = [todo EXCEPT ![r] = {}] /\ query' = [query EXCEPT ![r] = {}]
        /\ artifacts' = artifacts
    BY <1>9 DEF Abandon, catalogVars
  <2>2. \A o \in Run \ {r} : stamp'[o] = stamp[o] /\ payload'[o] = payload[o]
    BY <1>9 DEF Abandon, TypeOK
  <2>3. \A o \in Run \ {r} : step'[o] = step[o]
    BY <1>9 DEF TypeOK
  <2>4. Waits /\ Holds /\ Stores /\ Typed
    BY <1>1, <2>1
  <2>5. Alone
    BY <1>1, <2>1, <2>2, <2>3 DEF Left, TypeOK
  <2>6. QED
    BY <2>4, <2>5
<1>10. ASSUME NEW e \in Event, NEW v \in Version, SkipKnown(r, e, v) PROVE Goal
  BY <1>1, <1>2, <1>10 DEF SkipKnown, Left, TypeOK, txVars, catalogVars
<1>11. ASSUME NEW e \in Event, NEW v \in Version, InsertRevision(r, e, v) PROVE Goal
  <2>1. /\ todo' = [todo EXCEPT ![r] = @ \ {<<e, v>>}]
        /\ waits' = [waits EXCEPT ![r] = NoKey]
        /\ UNCHANGED <<step, query, stamp, payload, txArtifacts, artifacts>>
    BY <1>11 DEF InsertRevision, catalogVars
  <2>2. QED
    BY <1>1, <2>1 DEF Left, TypeOK
<1>12. ASSUME Block(r) PROVE Goal
  <2>1. PICK k : waits' = [waits EXCEPT ![r] = k]
    BY <1>12 DEF Block
  <2>2. UNCHANGED <<step, query, stamp, payload, todo, txArtifacts, artifacts>>
    BY <1>12 DEF Block, txVars, catalogVars
  <2>3. QED
    BY <1>1, <1>12, <2>1, <2>2 DEF Left
<1>13. ASSUME RejectPayload(r) \/ Conflict(r) \/ DeadlockVictim(r) \/ Fail(r) \/ Crash(r) PROVE Goal
  <2>1. Fails(r) \/ Crash(r)
    BY <1>13 DEF RejectPayload, Conflict, DeadlockVictim, Fail
  <2>2. Abandon(r) /\ step' = [step EXCEPT ![r] = step'[r]]
    BY <2>1 DEF Fails, Crash, TypeOK
  <2>3. QED
    BY <1>9, <2>2
<1>14. Goal
  <2> HIDE DEF Goal
  <2> QED
    BY <1>3, <1>4, <1>5, <1>6, <1>7, <1>8, <1>10, <1>11, <1>12, <1>13 DEF StepOf, Progress
<1>15. step[r] # "new" \/ \E q \in Query : StartRun(r, q)
  <2>1. DeadlockVictim(r) => waits[r] # NoKey
    BY DEF DeadlockVictim
  <2>2. QED
    BY <1>2, <2>1 DEF StepOf, Progress, Stamp, Receive, StoreArtifact, Commit, Finish,
       RejectPayload, Conflict, SkipKnown, InsertRevision, Block, Wanted, Fail, Crash, Active
<1>16. EachRun'
  BY <1>14, Zenon DEF EachRun
<1>17. QED
  BY <1>14, <1>15, <1>16

\* The keys of artifacts and of rows are told apart by their first component.
LEMMA ArtifactKeys == \A r \in Run : ArtifactOnly(ArtifactKey(r))
<1>1. \A r \in Run, e \in Event, v \in Version :
        /\ ArtifactKey(r)[1] = "artifact"
        /\ EventKey(e)[1] = "event" /\ RevisionKey(e, v)[1] = "revision"
  BY DEF ArtifactKey, EventKey, RevisionKey
<1>2. QED
  BY <1>1 DEF ArtifactOnly

\* Every step keeps the invariant of the waits.
LEMMA WaitStep == TypeOK /\ WaitInv /\ [Next]_vars => WaitInv'
<1> SUFFICES ASSUME TypeOK, WaitInv, [Next]_vars PROVE WaitInv'
  OBVIOUS
<1> DEFINE Begun == {o \in Run : step[o] # "new"}
           WaitOf(o) == waits[o] # NoKey =>
               /\ step[o] \in {"received", "ingesting"}
               /\ waits[o] \in Wanted(o) \cup CommittedKeys
           HoldOf(o) == /\ txArtifacts[o] # {} => step[o] = "ingesting"
                        /\ \A k \in txArtifacts[o] : ArtifactOnly(k)
<1>1. revs \subseteq revs' /\ CommittedKeys \subseteq CommittedKeys'
  BY CommittedStays
<1>2. \A o \in Run : WaitOf(o) /\ HoldOf(o)
  BY DEF WaitInv
<1>3. ASSUME NEW o \in Run, Left(o) PROVE WaitOf(o)' /\ HoldOf(o)'
  <2>1. Wanted(o) \subseteq (Wanted(o))' \cup CommittedKeys'
    BY <1>1, <1>3, WantedStays DEF Left
  <2>2. HoldOf(o)'
    BY <1>2, <1>3 DEF Left, ArtifactOnly, EventKey, RevisionKey
  <2>3. WaitOf(o)'
    BY <1>1, <1>2, <1>3, <2>1 DEF Left, NoKey
  <2>4. QED
    BY <2>2, <2>3
<1>4. CASE UNCHANGED <<step, query, stamp, payload, todo, waits, txArtifacts, artifacts>>
  <2>1. \A o \in Run : Left(o)
    BY <1>4 DEF Left
  <2>2. \A o \in Run : WaitOf(o)' /\ HoldOf(o)'
    BY <1>3, <2>1
  <2>3. EachRun' /\ (\A k \in artifacts' : ArtifactOnly(k)) /\ IsFiniteSet(Begun')
    BY <1>4 DEF WaitInv, EachRun
  <2>4. QED
    BY <2>2, <2>3 DEF WaitInv
<1>5. ASSUME NEW r \in Run, StepOf(r) PROVE WaitInv'
  <2>1. /\ waits'[r] = NoKey \/ Block(r)
        /\ \/ txArtifacts'[r] = {}
           \/ txArtifacts'[r] = txArtifacts[r] /\ step'[r] = step[r]
           \/ txArtifacts'[r] \subseteq {ArtifactKey(r)} /\ step'[r] = "ingesting"
        /\ step[r] # "new" \/ \E q \in Query : StartRun(r, q)
        /\ artifacts' \subseteq artifacts \cup txArtifacts[r]
        /\ \A o \in Run \ {r} : Left(o)
        /\ EachRun'
    BY <1>5, OwnWaits
  <2>2. HoldOf(r)'
    <3>1. txArtifacts'[r] # {} => step'[r] = "ingesting"
      BY <1>2, <2>1
    <3>2. \A k \in txArtifacts'[r] : ArtifactOnly(k)
      BY <1>2, <2>1, ArtifactKeys
    <3>3. QED
      BY <3>1, <3>2 DEF ArtifactOnly, EventKey, RevisionKey
  <2>3. WaitOf(r)'
    <3>1. CASE waits'[r] = NoKey
      BY <3>1 DEF NoKey
    <3>2. CASE Block(r)
      <4>1. PICK k \in Wanted(r) : waits' = [waits EXCEPT ![r] = k]
        BY <3>2 DEF Block
      <4>2. UNCHANGED <<step, query, stamp, payload, todo>>
        BY <3>2 DEF Block
      <4>3. Wanted(r) \subseteq (Wanted(r))' \cup CommittedKeys'
        BY <1>1, <4>2, WantedStays
      <4>4. waits'[r] = k
        BY <4>1 DEF WaitInv, EachRun
      <4>5. step[r] \in {"received", "ingesting"}
        BY <4>1 DEF Wanted
      <4>6. QED
        BY <4>1, <4>2, <4>3, <4>4, <4>5 DEF NoKey
    <3>3. QED
      BY <2>1, <3>1, <3>2
  <2>4. \A o \in Run : WaitOf(o)' /\ HoldOf(o)'
    BY <1>3, <2>1, <2>2, <2>3
  <2>5. \A k \in artifacts' : ArtifactOnly(k)
    BY <1>2, <2>1 DEF WaitInv
  <2>6. IsFiniteSet(Begun')
    <3>1. Begun' \subseteq Begun \cup {r}
      BY <2>1 DEF Left
    <3>2. IsFiniteSet(Begun \cup {r})
      BY FS_AddElement DEF WaitInv
    <3>3. QED
      BY <3>1, <3>2, FS_Subset
  <2>7. QED
    BY <2>1, <2>4, <2>5, <2>6 DEF WaitInv, ArtifactOnly, EventKey, RevisionKey
<1>6. (\E r \in Run : StepOf(r))
        \/ UNCHANGED <<step, query, stamp, payload, todo, waits, txArtifacts, artifacts>>
  <2>1. ASSUME NEW e \in Event, NEW v \in Version, Publish(e, v)
        PROVE  UNCHANGED <<step, query, stamp, payload, todo, waits, txArtifacts, artifacts>>
    BY <2>1 DEF Publish, runVars, txVars, catalogVars
  <2>2. CASE UNCHANGED vars
    BY <2>2 DEF vars, runVars, txVars, catalogVars
  <2>3. QED
    BY <2>1, <2>2, Zenon DEF Next, StepOf
<1>7. QED
  BY <1>4, <1>5, <1>6

\* _link_or_create_canonical always has an outcome: of the revisions the scorer
\* matches one is nearest, its event has a membership, and if none matches the
\* revision founds an event of its own.
LEMMA LinksExist ==
    ASSUME NEW rev, rev \in Revision, NEW R, R \subseteq Revision, NEW M
    PROVE  Links(rev, R, M) # {}
<1> DEFINE found == Matches(rev, R, M)
           near == {Dist(x, rev) : x \in found}
           best == {x \in found : \A y \in found : Dist(x, rev) <= Dist(y, rev)}
<1>1. \A x \in found : x \in Revision /\ \E m \in M : m.ev = x.ev
  BY DEF Matches, LatestOther, LatestOf
<1>2. \A x \in found : Dist(x, rev) \in Nat
  BY <1>1, CatalogAssumption DEF Dist, Revision
<1>3. CanonicalFor(rev, R, M) # {}
  <2>1. CASE found = {}
    BY <2>1 DEF CanonicalFor
  <2>2. CASE found # {}
    <3>1. near \subseteq Nat /\ near # {}
      BY <1>2, <2>2
    <3>2. PICK d \in near : \A n \in near : ~(n < d)
      <4> HIDE DEF near
      <4>1. PICK d \in near : \A n \in near : ~(<<n, d>> \in OpToRel(<, Nat))
        BY <3>1, WFMin, NatLessThanWellFounded, Zenon
      <4>2. QED
        BY <3>1, <4>1 DEF OpToRel
    <3>3. PICK x \in found : d = Dist(x, rev)
      BY <3>2
    <3>4. x \in best
      BY <1>2, <3>2, <3>3
    <3>5. PICK m \in M : m.ev = x.ev
      BY <1>1, <3>3
    <3>6. m.canon \in {n.canon : n \in {n \in M : \E y \in best : y.ev = n.ev}}
      BY <3>4, <3>5
    <3>7. QED
      BY <2>2, <3>6 DEF CanonicalFor
  <2>3. QED
    BY <2>1, <2>2
<1>4. QED
  BY <1>3 DEF Links

\* Among finitely many transactions of which each waits for another, some wait
\* in a circle: the smallest set that is closed in this way is one.
LEMMA CircleExists ==
    ASSUME NEW B, IsFiniteSet(B), B # {},
           \A a \in B : waits[a] # NoKey /\ \E b \in B \ {a} : waits[a] \in HeldKeys(b)
    PROVE  \E C \in SUBSET B : C # {} /\ Circle(C)
<1> DEFINE Closed(C) == \A a \in C : waits[a] # NoKey /\ \E b \in C \ {a} : waits[a] \in HeldKeys(b)
           Sets == {C \in SUBSET B : C # {} /\ Closed(C)}
           Sizes == {Cardinality(C) : C \in Sets}
<1>1. \A C \in SUBSET B : IsFiniteSet(C) /\ Cardinality(C) \in Nat
  BY FS_Subset, FS_CardinalityType
<1>2. Sizes \subseteq Nat /\ Sizes # {}
  <2>1. B \in Sets
    OBVIOUS
  <2>2. QED
    BY <1>1, <2>1
<1>3. PICK n \in Sizes : \A k \in Sizes : ~(k < n)
  <2> HIDE DEF Sizes
  <2>1. PICK n \in Sizes : \A k \in Sizes : ~(<<k, n>> \in OpToRel(<, Nat))
    BY <1>2, WFMin, NatLessThanWellFounded, Zenon
  <2>2. QED
    BY <1>2, <2>1 DEF OpToRel
<1>4. PICK C \in Sets : n = Cardinality(C)
  BY <1>3
<1>5. ASSUME NEW b \in C PROVE \E a \in C \ {b} : waits[a] \in HeldKeys(b)
  <2>1. SUFFICES ASSUME \A a \in C \ {b} : waits[a] \notin HeldKeys(b) PROVE FALSE
    OBVIOUS
  <2>2. Closed(C \ {b})
    BY <1>4, <2>1
  <2>3. C \ {b} # {}
    BY <1>4, <1>5
  <2>4. C \ {b} \in Sets
    BY <1>4, <2>2, <2>3
  <2>5. Cardinality(C \ {b}) = Cardinality(C) - 1
    BY <1>1, <1>4, <1>5, FS_RemoveElement
  <2>6. Cardinality(C \ {b}) \in Sizes
    BY <2>4
  <2>7. Cardinality(C) \in Nat
    BY <1>1, <1>4
  <2>8. QED
    <3> HIDE DEF Sizes
    <3> QED
      BY <1>3, <1>4, <2>5, <2>6, <2>7
<1>6. Circle(C)
  BY <1>4, <1>5 DEF Circle
<1>7. QED
  BY <1>4, <1>6

\* The runs that hold a key may still commit it.
LEMMA HoldersIngest ==
    ASSUME StampInv, WaitInv, NEW b \in Run, HeldKeys(b) # {}
    PROVE  step[b] = "ingesting"
BY DEF StampInv, WaitInv, HeldKeys, RevKeys

\* A run that cannot move waits for a key in the open transaction of another.
LEMMA StuckWaits ==
    ASSUME TypeOK, StampInv, WaitInv, NEW a \in Run, step[a] \in Active, ~MayMove(a)
    PROVE  /\ waits[a] # NoKey
           /\ \E b \in Run \ {a} : waits[a] \in HeldKeys(b)
<1>1. /\ step[a] \in {"received", "ingesting"}
      /\ step[a] = "received" => ~(waits[a] = NoKey /\ ArtifactKey(a) \in artifacts)
      /\ step[a] = "received" => ~CanInsert(a, ArtifactKey(a))
      /\ step[a] = "ingesting" => ~(todo[a] = {} /\ waits[a] = NoKey)
      /\ step[a] = "ingesting" =>
            \A e \in Event, v \in Version : <<e, v>> \in todo[a] => ~MayIngest(a, e, v)
      /\ waits[a] = NoKey => \A k \in Wanted(a) \ CommittedKeys : ~Holder(a, k)
      /\ waits[a] # NoKey => waits[a] \notin CommittedKeys
  BY DEF MayMove, Active
<1>2. \A e \in Event, v \in Version :
        Links([ev |-> e, ver |-> v, avail |-> stamp[a]], revs \cup txRevs[a], mem \cup txMem[a]) # {}
  <2> TAKE e \in Event, v \in Version
  <2> DEFINE rev == [ev |-> e, ver |-> v, avail |-> stamp[a]]
  <2>1. rev \in Revision /\ revs \cup txRevs[a] \subseteq Revision
    BY DEF TypeOK, Revision
  <2>2. QED
    <3> HIDE DEF rev
    <3>1. Links(rev, revs \cup txRevs[a], mem \cup txMem[a]) # {}
      BY <2>1, LinksExist
    <3>2. QED
      BY <3>1 DEF rev
<1>3. \A k \in Wanted(a) : ~CanInsert(a, k)
  <2>1. CASE step[a] = "received"
    BY <1>1, <2>1 DEF Wanted
  <2>2. CASE step[a] = "ingesting"
    <3>1. \A p \in todo[a] : p[1] \in Event /\ p[2] \in Version /\ p = <<p[1], p[2]>>
      BY DEF TypeOK
    <3>2. \A p \in todo[a] : ~CanInsert(a, RowKey(p[1], p[2]))
      BY <1>1, <1>2, <2>2, <3>1 DEF MayIngest, MayInsert
    <3>3. QED
      BY <2>2, <3>2 DEF Wanted
  <2>3. QED
    BY <1>1, <2>1, <2>2
<1>4. waits[a] # NoKey
  <2> SUFFICES ASSUME waits[a] = NoKey PROVE FALSE
    OBVIOUS
  <2>1. PICK k \in Wanted(a) : k \notin CommittedKeys
    <3>1. CASE step[a] = "received"
      <4>1. ArtifactKey(a) \notin artifacts
        BY <1>1, <3>1
      <4>2. ArtifactKey(a) \notin RevKeys(revs)
        BY ArtifactKeys DEF ArtifactOnly, RevKeys, TypeOK, Revision
      <4>3. QED
        BY <3>1, <4>1, <4>2 DEF Wanted, CommittedKeys
    <3>2. CASE step[a] = "ingesting"
      <4>1. PICK p \in todo[a] : TRUE
        BY <1>1, <3>2
      <4>2. p[1] \in Event /\ p[2] \in Version /\ p = <<p[1], p[2]>>
        BY DEF TypeOK
      <4>3. RevisionKey(p[1], p[2]) \notin RevKeys(revs)
        BY <1>1, <3>2, <4>2 DEF MayIngest
      <4>4. RowKey(p[1], p[2]) \notin RevKeys(revs)
        BY <4>3 DEF RowKey
      <4>5. RowKey(p[1], p[2]) \notin artifacts
        BY <4>2 DEF RowKey, WaitInv, ArtifactOnly
      <4>6. QED
        BY <3>2, <4>1, <4>4, <4>5 DEF Wanted, CommittedKeys
    <3>3. QED
      BY <1>1, <3>1, <3>2
  <2>2. ~Holder(a, k)
    BY <1>1, <2>1
  <2>3. QED
    BY <1>3, <2>1, <2>2 DEF CanInsert
<1>5. waits[a] \in Wanted(a) /\ waits[a] \notin CommittedKeys
  BY <1>1, <1>4 DEF WaitInv
<1>6. Holder(a, waits[a])
  BY <1>3, <1>5 DEF CanInsert
<1>7. QED
  BY <1>4, <1>6 DEF Holder

\* The invariant of the waits holds in every reachable state.
LEMMA WaitsHold == Spec => []WaitInv
<1>1. Init => WaitInv
  <2> SUFFICES ASSUME Init PROVE WaitInv
    OBVIOUS
  <2>1. EachRun
    <3>1. waits \in [Run -> {NoKey}] /\ txArtifacts \in [Run -> {{}}]
      BY DEF Init
    <3>2. QED
      BY <3>1, Zenon DEF EachRun
  <2>2. {r \in Run : step[r] # "new"} = {}
    BY DEF Init
  <2>3. QED
    BY <2>1, <2>2, FS_EmptySet DEF Init, WaitInv
<1>2. TypeOK /\ WaitInv /\ [Next]_vars => WaitInv'
  BY WaitStep
<1>3. QED
  BY <1>1, <1>2, TypeCorrect, PTL DEF Spec

\* No set of ingestion runs ever blocks itself for good: in every reachable
\* state in which a run has not ended, some run may take a step of its own, be
\* it because PostgreSQL ends a wait that a commit or a circle decides.
THEOREM NeverAllStuck == Spec => []NoStandstill
<1>1. IInv /\ WaitInv => NoStandstill
  <2> DEFINE B == {a \in Run : step[a] \in Active}
  <2> SUFFICES ASSUME IInv, WaitInv, B # {}, \A a \in B : ~MayMove(a) PROVE FALSE
    BY DEF NoStandstill
  <2>1. \A a \in B : waits[a] # NoKey /\ \E b \in B \ {a} : waits[a] \in HeldKeys(b)
    <3> SUFFICES ASSUME NEW a \in B
                 PROVE  waits[a] # NoKey /\ \E b \in B \ {a} : waits[a] \in HeldKeys(b)
      OBVIOUS
    <3>1. waits[a] # NoKey
      BY StuckWaits DEF IInv
    <3>2. PICK b \in Run \ {a} : waits[a] \in HeldKeys(b)
      BY StuckWaits DEF IInv
    <3>3. step[b] = "ingesting"
      BY <3>2, HoldersIngest DEF IInv
    <3>4. QED
      BY <3>1, <3>2, <3>3 DEF Active
  <2>2. IsFiniteSet(B)
    <3>1. B \subseteq {r \in Run : step[r] # "new"}
      BY DEF Active
    <3>2. QED
      BY <3>1, FS_Subset DEF WaitInv
  <2>3. PICK C \in SUBSET B : C # {} /\ Circle(C)
    <3> HIDE DEF B
    <3> QED
      BY <2>1, <2>2, CircleExists
  <2>4. PICK a \in C : TRUE
    BY <2>3
  <2>5. MayMove(a)
    BY <2>3, <2>4 DEF MayMove
  <2>6. QED
    BY <2>4, <2>5
<1>2. QED
  BY <1>1, WaitsHold, Invariance, PTL

-----------------------------------------------------------------------------
(* A run is short                                                             *)
(* The other part of EveryRunEnds: a run has finitely many steps to take, and *)
(* no other run can give it more.                                             *)

Stage(r) ==
    CASE step[r] = "new" -> 6
      [] step[r] = "started" -> 5
      [] step[r] = "requesting" -> 4
      [] step[r] = "received" -> 3
      [] step[r] = "ingesting" -> 2
      [] step[r] = "committed" -> 1
      [] OTHER -> 0

\* The step brings the run nearer to its end: to a later stage, or, within the
\* transaction, to fewer events to ingest or to the wait for one of them.
Nearer(r) ==
    \/ Stage(r)' < Stage(r)
    \/ /\ Stage(r)' = Stage(r)
       /\ \/ Cardinality(todo'[r]) < Cardinality(todo[r])
          \/ todo'[r] = todo[r] /\ waits[r] = NoKey /\ waits'[r] # NoKey

RunsGetNearer ==
    [][\A r \in Run : step[r] \in Active =>
            /\ Nearer(r) \/ Left(r)
            /\ Progress(r) => Nearer(r)]_vars

\* What a source has published, and so what a run has to ingest, is finite.
FiniteInv ==
    /\ IsFiniteSet({e \in Event : feed[e] # <<>>})
    /\ \A r \in Run : IsFiniteSet(todo[r])

\* Every step keeps it: a publication adds one event, and an answer has one pair
\* for each event of the query that is published.
LEMMA FiniteStep == TypeOK /\ FiniteInv /\ [Next]_vars => FiniteInv'
<1> SUFFICES ASSUME TypeOK, FiniteInv, [Next]_vars PROVE FiniteInv'
  OBVIOUS
<1> DEFINE Shown == {e \in Event : feed[e] # <<>>}
           Feed == IsFiniteSet(Shown)
           Todo == \A r \in Run : IsFiniteSet(todo[r])
<1>1. ASSUME NEW e \in Event, NEW v \in Version, Publish(e, v) PROVE FiniteInv'
  <2>1. Shown' \subseteq Shown \cup {e}
    BY <1>1 DEF Publish, TypeOK
  <2>2. IsFiniteSet(Shown \cup {e})
    BY FS_AddElement DEF FiniteInv
  <2>3. IsFiniteSet(Shown')
    BY <2>1, <2>2, FS_Subset
  <2>4. QED
    BY <1>1, <2>3 DEF Publish, runVars, FiniteInv
<1>2. ASSUME NEW r \in Run, Receive(r) PROVE FiniteInv'
  <2> DEFINE body == {p \in query[r] \X Version : feed[p[1]] # <<>> /\ p[2] = Current(p[1])}
             answers == {<<e, Current(e)>> : e \in Shown}
  <2>1. body \subseteq answers
    <3>1. query[r] \subseteq Event
      BY IngestionAssumption DEF TypeOK
    <3>2. QED
      BY <3>1
  <2>2. IsFiniteSet(answers)
    <3> DEFINE answer == [e \in Shown |-> <<e, Current(e)>>]
    <3>1. IsFiniteSet(Shown)
      BY DEF FiniteInv
    <3>2. answer \in Surjection(Shown, answers)
      <4> HIDE DEF Shown
      <4> QED
        BY DEF Surjection
    <3>3. QED
      <4> HIDE DEF Shown, answers, answer
      <4> QED
        BY <3>1, <3>2, FS_Surjection
  <2>3. IsFiniteSet(body)
    BY <2>1, <2>2, FS_Subset
  <2>4. todo' = [todo EXCEPT ![r] = body] /\ feed' = feed
    BY <1>2 DEF Receive
  <2>5. QED
    BY <2>3, <2>4 DEF FiniteInv, TypeOK
<1>3. ASSUME NEW r \in Run, NEW e \in Event, NEW v \in Version,
             SkipKnown(r, e, v) \/ InsertRevision(r, e, v)
      PROVE  FiniteInv'
  <2>1. todo' = [todo EXCEPT ![r] = @ \ {<<e, v>>}] /\ feed' = feed
    BY <1>3 DEF SkipKnown, InsertRevision
  <2>2. IsFiniteSet(todo[r] \ {<<e, v>>})
    BY FS_RemoveElement DEF FiniteInv
  <2>3. QED
    BY <2>1, <2>2 DEF FiniteInv, TypeOK
<1>4. ASSUME NEW r \in Run, Abandon(r) PROVE FiniteInv'
  <2>1. todo' = [todo EXCEPT ![r] = {}] /\ feed' = feed
    BY <1>4 DEF Abandon
  <2>2. QED
    BY <2>1, FS_EmptySet DEF FiniteInv, TypeOK
<1>5. CASE UNCHANGED <<todo, feed>>
  BY <1>5 DEF FiniteInv
<1>6. ASSUME NEW r \in Run, StepOf(r)
      PROVE  \/ Receive(r) \/ Abandon(r) \/ UNCHANGED <<todo, feed>>
             \/ \E e \in Event, v \in Version : SkipKnown(r, e, v) \/ InsertRevision(r, e, v)
  BY <1>6 DEF StepOf, Progress, StartRun, Stamp, StoreArtifact, Commit, Finish, RejectPayload,
     Conflict, DeadlockVictim, Block, Fail, Fails, Crash
<1>7. CASE UNCHANGED vars
  BY <1>5, <1>7 DEF vars, runVars
<1>8. QED
  BY <1>1, <1>2, <1>3, <1>4, <1>5, <1>6, <1>7 DEF Next, StepOf

\* A run's own step brings it nearer to its end.
LEMMA StepIsNearer ==
    ASSUME TypeOK, TypeOK', WaitInv, FiniteInv, NEW r \in Run, step[r] \in Active, StepOf(r)
    PROVE  Nearer(r)
<1>1. CASE \E q \in Query : StartRun(r, q)
  BY <1>1 DEF StartRun, Active
<1>2. CASE Stamp(r) \/ Receive(r) \/ StoreArtifact(r) \/ Commit(r) \/ Finish(r)
  <2>1. \/ step[r] = "started" /\ step'[r] = "requesting"
        \/ step[r] = "requesting" /\ step'[r] = "received"
        \/ step[r] = "received" /\ step'[r] = "ingesting"
        \/ step[r] = "ingesting" /\ step'[r] = "committed"
        \/ step[r] = "committed" /\ step'[r] = "ended"
    BY <1>2 DEF Stamp, Receive, StoreArtifact, Commit, Finish, TypeOK
  <2>2. QED
    BY <2>1 DEF Nearer, Stage
<1>3. CASE RejectPayload(r) \/ Conflict(r) \/ DeadlockVictim(r) \/ Fail(r) \/ Crash(r)
  <2>1. step'[r] \in {"ended", "crashed"}
    BY <1>3 DEF RejectPayload, Conflict, DeadlockVictim, Fail, Fails, Crash, TypeOK
  <2>2. QED
    BY <2>1 DEF Nearer, Stage, Active
<1>4. ASSUME NEW e \in Event, NEW v \in Version, SkipKnown(r, e, v) \/ InsertRevision(r, e, v)
      PROVE  Nearer(r)
  <2>1. /\ step' = step /\ <<e, v>> \in todo[r]
        /\ todo' = [todo EXCEPT ![r] = @ \ {<<e, v>>}]
    BY <1>4 DEF SkipKnown, InsertRevision
  <2>2. todo'[r] = todo[r] \ {<<e, v>>}
    BY <2>1 DEF TypeOK
  <2>3. /\ Cardinality(todo[r]) \in Nat
        /\ Cardinality(todo[r] \ {<<e, v>>}) = Cardinality(todo[r]) - 1
    BY <2>1, FS_CardinalityType, FS_RemoveElement DEF FiniteInv
  <2>4. Stage(r)' = Stage(r)
    BY <2>1 DEF Stage
  <2>5. QED
    BY <2>2, <2>3, <2>4 DEF Nearer
<1>5. CASE Block(r)
  <2>1. PICK k \in Wanted(r) : waits' = [waits EXCEPT ![r] = k] /\ waits[r] = NoKey
    BY <1>5 DEF Block
  <2>2. k # NoKey
    <3>1. /\ \A e : Len(EventKey(e)) = 2
          /\ \A e, v : Len(RevisionKey(e, v)) = 3
          /\ Len(ArtifactKey(r)) = 4 /\ Len(NoKey) = 0
      BY DEF EventKey, RevisionKey, ArtifactKey, NoKey
    <3>2. k = ArtifactKey(r) \/ \E e, v : k \in {EventKey(e), RevisionKey(e, v)}
      BY <2>1 DEF Wanted, RowKey
    <3>3. QED
      BY <3>1, <3>2
  <2>3. waits'[r] = k
    BY <2>1 DEF WaitInv, EachRun
  <2>4. Stage(r)' = Stage(r) /\ todo'[r] = todo[r]
    BY <1>5 DEF Block, Stage
  <2>5. QED
    BY <2>1, <2>2, <2>3, <2>4 DEF Nearer
<1>6. QED
  BY <1>1, <1>2, <1>3, <1>4, <1>5 DEF StepOf, Progress

\* Whatever happens brings a run that has not ended nearer to its end or leaves
\* it where it is, its own work always the former, and it is never more than
\* finitely many steps away: the events it has still to ingest are finite.
THEOREM RunsAreShort == Spec => []FiniteInv /\ RunsGetNearer
<1>1. Init => FiniteInv
  <2> SUFFICES ASSUME Init PROVE FiniteInv
    OBVIOUS
  <2>1. {e \in Event : feed[e] # <<>>} = {} /\ \A r \in Run : todo[r] = {}
    BY DEF Init
  <2>2. QED
    BY <2>1, FS_EmptySet DEF FiniteInv
<1>2. Spec => []FiniteInv
  BY <1>1, FiniteStep, TypeCorrect, PTL DEF Spec
<1> DEFINE Nearing == \A r \in Run : step[r] \in Active =>
                          /\ Nearer(r) \/ Left(r)
                          /\ Progress(r) => Nearer(r)
<1>3. TypeOK /\ TypeOK' /\ WaitInv /\ FiniteInv /\ [Next]_vars => [Nearing]_vars
  <2> SUFFICES ASSUME TypeOK, TypeOK', WaitInv, FiniteInv, Next,
                      NEW r \in Run, step[r] \in Active
               PROVE  (Nearer(r) \/ Left(r)) /\ (Progress(r) => Nearer(r))
    OBVIOUS
  <2>1. Progress(r) => Nearer(r)
    BY StepIsNearer DEF StepOf
  <2>2. ASSUME NEW e \in Event, NEW v \in Version, Publish(e, v) PROVE Left(r)
    BY <2>2 DEF Publish, runVars, txVars, Left
  <2>3. ASSUME NEW o \in Run, StepOf(o) PROVE Nearer(r) \/ Left(r)
    <3>1. CASE o = r
      BY <2>3, <3>1, StepIsNearer
    <3>2. CASE o # r
      BY <2>3, <3>2, OwnWaits
    <3>3. QED
      BY <3>1, <3>2
  <2>4. QED
    BY <2>1, <2>2, <2>3 DEF Next, StepOf
<1>4. QED
  BY <1>2, <1>3, TypeCorrect, WaitsHold, PTL DEF Spec, RunsGetNearer

=============================================================================
