----------------------- MODULE TelegramNotifier_proofs -----------------------
(* What the polling job guarantees for any number of events and jobs, for     *)
(* every limit and for every sequence of failures.                            *)
EXTENDS TelegramNotifier, TLAPS

-----------------------------------------------------------------------------
(* The inductive invariants                                                   *)

Busy(j) == pc[j] # "idle"

\* The copy of a job that is not behind is the state on the branch.
FreshInv == \A j \in Job : Busy(j) /\ ~behind[j] => base[j] = repo

\* What a job works with: the age limit is that of its checkout, and what it adds
\* to the state it checked out has a reason.
ReasonInv ==
    \A j \in Job : Busy(j) =>
        /\ since[j] <= now - MaxAge
        /\ pc[j] = "checkedout" => notified[j] = UNION base[j]
        /\ base[j] # Absent => \A e \in notified[j] :
              e \in UNION base[j] \/ channel[e] > 0 \/ (e \in Reported /\ time[e] + MaxAge < now)

RInv == TypeOK /\ FreshInv /\ ReasonInv

\* Without overlap one job runs at a time.  What it posted it has marked, except
\* once for every upset; when it is behind, one upset is still to be accounted
\* for, because its marks will be lost.
Mark(S, e) == IF e \in S THEN 1 ELSE 0
Owed(j) == IF behind[j] THEN 1 ELSE 0

PostedInv ==
    /\ \A i, j \in Job : Busy(i) /\ Busy(j) => i = j
    /\ (\A j \in Job : ~Busy(j)) => \A e \in Event : channel[e] <= Mark(UNION repo, e) + upsets
    /\ \A j \in Job : Busy(j) =>
        /\ base[j] = repo
        /\ pc[j] = "checkedout" => notified[j] = UNION base[j]
        /\ pc[j] = "polling" /\ sent[j] = 0 =>
              \A e \in Event : channel[e] + Owed(j) <= Mark(UNION repo, e) + upsets
        /\ \A e \in Event : channel[e] + Owed(j) <= Mark(notified[j], e) + upsets

-----------------------------------------------------------------------------
(* Types                                                                      *)

\* A state file holds a set of events.
LEMMA FileType ==
    ASSUME NEW r \in {Absent} \cup {File(S) : S \in SUBSET Event}
    PROVE  UNION r \subseteq Event
  BY DEF Absent, File

\* The newest events of a reading are events that are reported.
LEMMA NewestReported == \A S \in Newest : S \subseteq Reported /\ S \subseteq Event
  BY DEF Newest, Reported

\* The invariant holds before the first job.
LEMMA InitRInv == Init => RInv
<1> SUFFICES ASSUME Init PROVE RInv
  OBVIOUS
<1>1. TypeOK
  BY NotifierAssumption DEF Init, TypeOK, Reported
<1>2. FreshInv /\ ReasonInv
  BY DEF Init, FreshInv, ReasonInv, Busy
<1>3. QED
  BY <1>1, <1>2 DEF RInv

\* The steps of the world outside keep the types.
LEMMA WorldTypes ==
    ASSUME TypeOK, Tick \/ OtherPush \/ \E e \in Event, t \in 0 .. MaxNow : Report(e, t)
    PROVE  TypeOK'
<1> USE NotifierAssumption DEF TypeOK, jobVars, Reported
<1>1. CASE Tick
  BY <1>1 DEF Tick
<1>2. CASE OtherPush
  BY <1>2 DEF OtherPush, Upset
<1>3. ASSUME NEW e \in Event, NEW t \in 0 .. MaxNow, Report(e, t) PROVE TypeOK'
  BY <1>3 DEF Report
<1>4. QED
  BY <1>1, <1>2, <1>3

\* So do those of a job.
LEMMA JobTypes ==
    ASSUME TypeOK, NEW j \in Job, Checkout(j) \/ Progress(j) \/ Crash(j)
    PROVE  TypeOK'
<1> USE NotifierAssumption DEF TypeOK, world, Visited
<1>0. ASSUME UNCHANGED time PROVE Reported' = Reported
  BY <1>0 DEF Reported
<1>1. CASE Checkout(j)
  <2>1. UNION repo \subseteq Event
    BY FileType
  <2>2. QED
    BY <1>0, <1>1, <2>1 DEF Checkout
<1>2. CASE Query(j)
  BY <1>0, <1>2, NewestReported DEF Query
<1>g. ASSUME Gone(j), UNCHANGED time
      PROVE  /\ pc' \in [Job -> {"idle", "checkedout", "polling", "saved"}]
             /\ base' \in [Job -> {Absent} \cup {File(S) : S \in SUBSET Event}]
             /\ notified' \in [Job -> SUBSET Event] /\ todo' \in [Job -> SUBSET Reported']
             /\ since' \in [Job -> Int] /\ sent' \in [Job -> 0 .. MaxPerRun]
  BY <1>0, <1>g DEF Gone
<1>e. ASSUME Ends(j), UNCHANGED <<now, time, channel>>, upsets' \in 0 .. MaxUpsets PROVE TypeOK'
  <2>1. /\ Gone(j) /\ UNCHANGED time
        /\ now' \in 0 .. MaxNow /\ time' \in [Event -> -1 .. MaxNow]
        /\ repo' \in {Absent} \cup {File(S) : S \in SUBSET Event}
        /\ channel' \in [Event -> Nat] /\ behind' \in [Job -> BOOLEAN]
    BY <1>e DEF Ends
  <2>2. QED
    BY <1>e, <1>g, <2>1
<1>u. Upset => upsets' \in 0 .. MaxUpsets
  BY DEF Upset
<1>3. CASE QueryFails(j) \/ Crash(j)
  BY <1>3, <1>e, <1>u DEF QueryFails, Crash
<1>31. CASE Throttle(j) \/ Save(j)
  BY <1>0, <1>31 DEF Throttle, Save
<1>4. CASE Push(j)
  <2>1. behind' \in [Job -> BOOLEAN]
    BY <1>4 DEF Push, Moved, Ends
  <2>2. repo' \in {Absent} \cup {File(S) : S \in SUBSET Event}
    BY <1>4 DEF Push, Ends
  <2>3. QED
    BY <1>4, <1>g, <2>1, <2>2 DEF Push, Ends
<1>5. ASSUME NEW e \in Event, Expire(j, e) PROVE TypeOK'
  BY <1>0, <1>5 DEF Expire, Ready
<1>6. ASSUME NEW e \in Event, Send(j, e) PROVE TypeOK'
  BY <1>0, <1>6 DEF Send, Ready
<1>7. ASSUME NEW e \in Event, SendFails(j, e) PROVE TypeOK'
  BY <1>0, <1>7 DEF SendFails, Ready, Upset
<1>8. ASSUME NEW e \in Event, LoopFails(j, e) PROVE TypeOK'
  BY <1>8, <1>e, <1>u DEF LoopFails
<1>9. CASE SaveFails(j)
  <2>1. CASE Ends(j)
    BY <1>9, <1>e, <1>u, <2>1 DEF SaveFails
  <2>2. CASE ~Ends(j)
    BY <1>0, <1>9, <1>u, <2>2 DEF SaveFails
  <2>3. QED
    BY <2>1, <2>2
<1>10. QED
  BY <1>1, <1>2, <1>3, <1>31, <1>4, <1>5, <1>6, <1>7, <1>8, <1>9 DEF Progress

\* Every step keeps the types.
LEMMA TypeStep == TypeOK /\ [Next]_vars => TypeOK'
<1> SUFFICES ASSUME TypeOK, [Next]_vars PROVE TypeOK'
  OBVIOUS
<1>1. CASE UNCHANGED vars
  BY <1>1 DEF vars, world, jobVars, TypeOK, Reported
<1>2. QED
  BY <1>1, WorldTypes, JobTypes DEF Next

-----------------------------------------------------------------------------
(* Marks have a reason, overlap or not                                        *)

\* What happens outside the job leaves every mark its reason.
LEMMA WorldReasons ==
    ASSUME RInv, Tick \/ OtherPush \/ \E e \in Event, t \in 0 .. MaxNow : Report(e, t)
    PROVE  FreshInv' /\ ReasonInv'
<1> USE NotifierAssumption DEF RInv, TypeOK, FreshInv, ReasonInv, Busy, jobVars
<1>0. ASSUME UNCHANGED time PROVE Reported' = Reported
  BY <1>0 DEF Reported
<1>1. CASE Tick
  <2>1. FreshInv'
    BY <1>1 DEF Tick
  <2>2. now' = now + 1 /\ \A e \in Event : time[e] + MaxAge < now => time[e] + MaxAge < now'
    BY <1>1 DEF Tick
  <2>3. QED
    BY <1>0, <1>1, <2>1, <2>2 DEF Tick
<1>2. CASE OtherPush
  <2>1. FreshInv'
    BY <1>2 DEF OtherPush
  <2>2. QED
    BY <1>0, <1>2, <2>1 DEF OtherPush
<1>3. ASSUME NEW e \in Event, NEW t \in 0 .. MaxNow, Report(e, t)
      PROVE  FreshInv' /\ ReasonInv'
  <2>1. \A f \in Reported : f \in Reported' /\ time'[f] = time[f]
    BY <1>3 DEF Report, Reported
  <2>2. QED
    BY <1>3, <2>1 DEF Report
<1>4. QED
  BY <1>1, <1>2, <1>3

\* What a job adds to its set it has posted or found too old.
LEMMA JobReasons ==
    ASSUME RInv, NEW j \in Job, Checkout(j) \/ Progress(j) \/ Crash(j)
    PROVE  FreshInv' /\ ReasonInv'
<1> USE NotifierAssumption DEF RInv, TypeOK, FreshInv, ReasonInv, Busy, world, Visited
<1>0. ASSUME UNCHANGED time PROVE Reported' = Reported
  BY <1>0 DEF Reported
<1>1. CASE Checkout(j)
  BY <1>0, <1>1 DEF Checkout
<1>2. CASE Query(j)
  BY <1>0, <1>2 DEF Query
<1>g. ASSUME Gone(j), UNCHANGED <<now, time, channel>>,
             \A o \in Job : o # j /\ Busy(o) /\ ~behind'[o] => ~behind[o] /\ repo' = repo
      PROVE  FreshInv' /\ ReasonInv'
  <2>1. /\ pc'[j] = "idle"
        /\ \A o \in Job : o # j => /\ pc'[o] = pc[o] /\ base'[o] = base[o]
                                 /\ notified'[o] = notified[o] /\ since'[o] = since[o]
    BY <1>g DEF Gone
  <2>2. QED
    BY <1>0, <1>g, <2>1
<1>e. ASSUME Ends(j), UNCHANGED <<now, time, channel>> PROVE FreshInv' /\ ReasonInv'
  BY <1>e, <1>g DEF Ends
<1>3. CASE QueryFails(j) \/ Crash(j)
  BY <1>3, <1>e DEF QueryFails, Crash
<1>31. CASE Throttle(j) \/ Save(j)
  <2>1. /\ UNCHANGED <<now, time, repo, channel, base, behind, notified, since>>
        /\ \A o \in Job : pc'[o] # "idle" => pc[o] # "idle"
        /\ \A o \in Job : pc'[o] = "checkedout" => pc[o] = "checkedout"
    BY <1>31 DEF Throttle, Save
  <2>2. QED
    BY <1>0, <2>1
<1>4. CASE Push(j)
  <2>1. CASE Ends(j)
    BY <1>4, <1>e, <2>1 DEF Push
  <2>2. CASE Gone(j) /\ behind' = Moved(j)
    BY <1>4, <1>g, <2>2 DEF Push, Moved
  <2>3. QED
    BY <1>4, <2>1, <2>2 DEF Push
<1>6. ASSUME NEW e \in Event, Expire(j, e) PROVE FreshInv' /\ ReasonInv'
  <2>1. e \in Reported /\ time[e] + MaxAge < now
    BY <1>6 DEF Expire, Ready, IsNext, Left, Reported
  <2>2. QED
    BY <1>0, <1>6, <2>1 DEF Expire, Ready
<1>7. ASSUME NEW e \in Event, Send(j, e) PROVE FreshInv' /\ ReasonInv'
  BY <1>0, <1>7 DEF Send, Ready
<1>8. ASSUME NEW e \in Event, SendFails(j, e) PROVE FreshInv' /\ ReasonInv'
  BY <1>0, <1>8 DEF SendFails, Ready, Upset
<1>9. ASSUME NEW e \in Event, LoopFails(j, e) PROVE FreshInv' /\ ReasonInv'
  BY <1>9, <1>e DEF LoopFails
<1>10. CASE SaveFails(j)
  <2>1. CASE Ends(j)
    BY <1>10, <1>e, <2>1 DEF SaveFails
  <2>2. CASE ~Ends(j)
    <3>1. /\ UNCHANGED <<now, time, repo, channel, base, behind, since>>
          /\ pc[j] = "polling" /\ \A o \in Job : pc'[o] = pc[o] \/ (o = j /\ pc'[o] = "saved")
          /\ \A o \in Job : notified'[o] = notified[o] \/ (o = j /\ notified'[o] = {})
      BY <1>10, <2>2 DEF SaveFails
    <3>2. QED
      BY <1>0, <3>1
  <2>3. QED
    BY <2>1, <2>2
<1>11. QED
  BY <1>1, <1>2, <1>3, <1>31, <1>4, <1>6, <1>7, <1>8, <1>9, <1>10 DEF Progress

\* Every step keeps the invariant.
LEMMA RStep == RInv /\ [Next]_vars => RInv'
<1> SUFFICES ASSUME RInv, [Next]_vars PROVE RInv'
  OBVIOUS
<1>1. TypeOK'
  BY TypeStep DEF RInv
<1>2. CASE UNCHANGED vars
  BY <1>1, <1>2 DEF vars, world, jobVars, RInv, FreshInv, ReasonInv, Busy, Reported
<1>3. QED
  BY <1>1, <1>2, WorldReasons, JobReasons DEF Next, RInv

\* Jobs that overlap or not keep the types and the reasons for their marks.
THEOREM Invariance == Spec => []RInv
  BY InitRInv, RStep, PTL DEF Spec

\* The branch changes in a push only, of a job that is not behind.
LEMMA PushIsFresh ==
    ASSUME RInv, [Next]_vars, repo' # repo
    PROVE  /\ UNCHANGED <<channel, time, now>>
           /\ \E j \in Job : Busy(j) /\ base[j] = repo /\ repo' = File(notified[j])
<1>1. PICK j \in Job : Push(j)
  <2>1. ASSUME NEW j \in Job, Checkout(j) \/ Crash(j) \/ Query(j) \/ QueryFails(j) \/ Throttle(j) \/ Save(j)
               \/ SaveFails(j)
               \/ \E e \in Event : Expire(j, e) \/ Send(j, e) \/ SendFails(j, e) \/ LoopFails(j, e)
        PROVE  FALSE
    BY <2>1 DEF Checkout, Crash, Query, QueryFails, Throttle, Save, Expire, Send, SendFails,
                LoopFails, SaveFails, Ends, world
  <2>2. CASE Tick \/ OtherPush \/ \E e \in Event, t \in 0 .. MaxNow : Report(e, t)
    BY <2>2 DEF Tick, OtherPush, Report
  <2>3. CASE UNCHANGED vars
    BY <2>3 DEF vars, world
  <2>4. QED
    BY <2>1, <2>2, <2>3 DEF Next, Progress
<1>2. QED
  BY <1>1 DEF Push, Ends, RInv, FreshInv, Busy

-----------------------------------------------------------------------------
(* Nothing is posted twice without an upset, when jobs do not overlap         *)

\* Before the first job nothing is posted and nothing is owed.
LEMMA InitPosted == Init => PostedInv
  BY DEF Init, PostedInv, Busy, Mark

\* An upset outside the job, a foreign commit, leaves one upset owed.
LEMMA WorldPosted ==
    ASSUME RInv, PostedInv,
           Tick \/ OtherPush \/ \E e \in Event, t \in 0 .. MaxNow : Report(e, t)
    PROVE  PostedInv'
<1> USE NotifierAssumption DEF RInv, TypeOK, PostedInv, Busy, Owed, jobVars
<1>1. CASE Tick \/ \E e \in Event, t \in 0 .. MaxNow : Report(e, t)
  BY <1>1 DEF Tick, Report
<1>2. CASE OtherPush
  <2>1. UNCHANGED <<repo, channel, pc, base, notified>> /\ upsets' = upsets + 1
    BY <1>2 DEF OtherPush, Upset
  <2>2. \A j \in Job : Owed(j)' <= Owed(j) + 1 /\ sent'[j] = sent[j]
    BY <1>2 DEF OtherPush
  <2>3. \A j \in Job : Busy(j) =>
            /\ \A e \in Event : channel[e] + Owed(j)' <= Mark(notified[j], e) + upsets'
            /\ pc[j] = "polling" /\ sent[j] = 0 =>
                  \A e \in Event : channel[e] + Owed(j)' <= Mark(UNION repo, e) + upsets'
    BY <2>1, <2>2 DEF Mark
  <2>4. (\A j \in Job : ~Busy(j)) => \A e \in Event : channel[e] <= Mark(UNION repo, e) + upsets'
    BY <2>1 DEF Mark
  <2>5. QED
    BY <2>1, <2>2, <2>3, <2>4
<1>3. QED
  BY <1>1, <1>2

\* What a job does keeps its account.
LEMMA JobPosted ==
    ASSUME RInv, PostedInv, ~Overlap, NEW j \in Job, Checkout(j) \/ Progress(j) \/ Crash(j)
    PROVE  PostedInv'
<1> USE NotifierAssumption DEF RInv, TypeOK, PostedInv, Busy, Owed, Mark, world, Visited
<1>1. CASE Checkout(j)
  <2>1. /\ \A o \in Job : pc[o] = "idle" /\ (pc'[o] # "idle" => o = j)
        /\ base'[j] = repo /\ notified'[j] = UNION repo /\ ~behind'[j]
    BY <1>1 DEF Checkout
  <2>2. \A e \in Event : channel[e] <= Mark(UNION repo, e) + upsets
    BY <2>1
  <2>3. QED
    BY <1>1, <2>1, <2>2 DEF Checkout
<1>0. ASSUME pc[j] # "idle" PROVE \A o \in Job : o # j => pc[o] = "idle"
  BY <1>0
<1>2. CASE Query(j)
  <2>0. pc[j] = "checkedout" /\ \A e \in Event : channel[e] + Owed(j) <= Mark(UNION repo, e) + upsets
    BY <1>2 DEF Query
  <2>1. /\ UNCHANGED <<channel, upsets, repo, base, behind>> /\ pc' = [pc EXCEPT ![j] = "polling"]
        /\ pc[j] # "idle" /\ \A o \in Job : o # j => notified'[o] = notified[o]
    BY <1>2 DEF Query
  <2>2. notified[j] \subseteq notified'[j]
    BY <1>2 DEF Query, Absent
  <2>3. QED
    BY <1>0, <2>0, <2>1, <2>2
<1>g. ASSUME pc[j] # "idle", Gone(j), \A e \in Event : channel'[e] <= Mark(UNION repo', e) + upsets'
      PROVE  PostedInv'
  <2>1. \A o \in Job : pc'[o] = "idle"
    BY <1>0, <1>g DEF Gone
  <2>2. QED
    BY <1>g, <2>1
<1>3. CASE QueryFails(j)
  <2>1. pc[j] = "checkedout" /\ Gone(j) /\ UNCHANGED <<channel, upsets, repo>>
    BY <1>3 DEF QueryFails, Ends
  <2>2. \A e \in Event : channel[e] <= Mark(UNION repo, e) + upsets
    BY <2>1
  <2>3. QED
    BY <1>g, <2>1, <2>2
<1>4. CASE Throttle(j) \/ Save(j)
  BY <1>0, <1>4 DEF Throttle, Save
<1>5. CASE Push(j)
  <2>1. /\ pc[j] # "idle" /\ Gone(j) /\ UNCHANGED <<channel, upsets>>
        /\ base[j] = repo
    BY <1>5 DEF Push, Ends
  <2>2. \A e \in Event : channel[e] <= Mark(UNION repo', e) + upsets
    <3>1. CASE behind[j]
      <4>1. repo' = repo
        BY <1>5, <3>1 DEF Push, Ends
      <4>2. QED
        BY <2>1, <3>1, <4>1
    <3>2. CASE ~behind[j]
      <4>1. repo' = File(notified[j])
        BY <1>5, <2>1, <3>2 DEF Push, Ends
      <4>2. UNION repo' = notified[j]
        BY <4>1 DEF File
      <4>3. QED
        BY <2>1, <3>2, <4>2
    <3>3. QED
      BY <3>1, <3>2
  <2>3. QED
    BY <1>g, <2>1, <2>2
<1>6. ASSUME pc[j] # "idle", Ends(j), UNCHANGED channel, upsets' = upsets + 1 PROVE PostedInv'
  <2>1. Gone(j) /\ repo' = repo
    BY <1>6 DEF Ends
  <2>2. \A e \in Event : channel[e] <= Mark(UNION repo, e) + upsets'
    BY <1>6
  <2>3. QED
    BY <1>6, <1>g, <2>1, <2>2
<1>61. CASE Crash(j)
  BY <1>6, <1>61 DEF Crash, Upset
<1>7. ASSUME NEW e \in Event, Expire(j, e) PROVE PostedInv'
  BY <1>0, <1>7 DEF Expire, Ready
<1>8. ASSUME NEW e \in Event, Send(j, e) PROVE PostedInv'
  <2>1. channel[e] + Owed(j) <= upsets
    BY <1>8 DEF Send, Ready, IsNext, Left
  <2>2. pc[j] = "polling" /\ sent'[j] # 0
    BY <1>8 DEF Send, Ready
  <2>3. QED
    BY <1>0, <1>8, <2>1, <2>2 DEF Send
<1>9. ASSUME NEW e \in Event, SendFails(j, e) PROVE PostedInv'
  BY <1>0, <1>9 DEF SendFails, Ready, Upset
<1>10. ASSUME NEW e \in Event, LoopFails(j, e) PROVE PostedInv'
  <2>1. pc[j] = "polling" /\ Ends(j) /\ UNCHANGED channel
    BY <1>10 DEF LoopFails, Ready
  <2>2. CASE sent[j] # 0
    BY <1>6, <1>10, <2>1, <2>2 DEF LoopFails, Upset
  <2>3. CASE sent[j] = 0
    <3>1. \A f \in Event : channel[f] <= Mark(UNION repo, f) + upsets
      BY <2>1, <2>3
    <3>2. Gone(j) /\ repo' = repo /\ upsets' = upsets
      BY <1>10, <2>1, <2>3 DEF LoopFails, Ends
    <3>3. QED
      BY <1>g, <2>1, <3>1, <3>2
  <2>4. QED
    BY <2>2, <2>3
<1>11. CASE SaveFails(j)
  <2>1. CASE Ends(j)
    BY <1>6, <1>11, <2>1 DEF SaveFails, Upset
  <2>2. CASE ~Ends(j)
    <3>1. /\ pc[j] # "idle" /\ UNCHANGED <<channel, repo, base, behind>> /\ upsets' = upsets + 1
          /\ pc' = [pc EXCEPT ![j] = "saved"] /\ notified' = [notified EXCEPT ![j] = {}]
      BY <1>11, <2>2 DEF SaveFails, Upset
    <3>2. \A e \in Event : channel[e] + Owed(j) <= upsets'
      BY <3>1
    <3>3. QED
      BY <1>0, <3>1, <3>2
  <2>3. QED
    BY <2>1, <2>2
<1>12. QED
  BY <1>1, <1>2, <1>3, <1>4, <1>5, <1>61, <1>7, <1>8, <1>9, <1>10, <1>11 DEF Progress

\* When jobs do not overlap, every step keeps the account of what was posted.
LEMMA PostedStep == ~Overlap /\ RInv /\ PostedInv /\ [Next]_vars => PostedInv'
<1> SUFFICES ASSUME ~Overlap, RInv, PostedInv, [Next]_vars PROVE PostedInv'
  OBVIOUS
<1>1. CASE UNCHANGED vars
  BY <1>1 DEF vars, world, jobVars, PostedInv, Busy, Owed
<1>2. QED
  BY <1>1, WorldPosted, JobPosted DEF Next

\* Where the jobs stand, an event was posted once for its mark and once for
\* every upset.
LEMMA PostedOnce == RInv /\ PostedInv => NoRepeat
<1> SUFFICES ASSUME RInv, PostedInv, NEW e \in Event PROVE channel[e] <= 1 + upsets
  BY DEF NoRepeat
<1> USE NotifierAssumption DEF RInv, TypeOK, PostedInv
<1>1. CASE \A j \in Job : ~Busy(j)
  BY <1>1 DEF Mark
<1>2. ASSUME NEW j \in Job, Busy(j) PROVE channel[e] <= 1 + upsets
  <2>1. channel[e] + Owed(j) <= Mark(notified[j], e) + upsets
    BY <1>2
  <2>2. QED
    BY <2>1 DEF Mark, Owed
<1>3. QED
  BY <1>1, <1>2

-----------------------------------------------------------------------------
(* Theorems                                                                   *)

\* Every reachable state is well typed: a poll never sends more than its limit,
\* and what a job has left to visit was reported.
THEOREM TypeCorrect == Spec => []TypeOK
<1>1. RInv => TypeOK
  BY DEF RInv
<1>2. QED
  BY <1>1, Invariance, PTL

\* An event enters the state of the branch because it was posted or was too
\* old, however many jobs run side by side.
THEOREM MarkedForAReasonHolds == Spec => MarkedForAReason
<1>1. RInv /\ [Next]_vars =>
        [\A e \in Event :
            repo # Absent /\ e \in (UNION repo') \ (UNION repo) =>
                channel[e] > 0 \/ time[e] + MaxAge < now]_vars
  <2> SUFFICES ASSUME RInv, [Next]_vars, NEW e \in Event,
                      repo # Absent, e \in (UNION repo') \ (UNION repo)
               PROVE  channel[e] > 0 \/ time[e] + MaxAge < now
    OBVIOUS
  <2>0. repo' # repo
    OBVIOUS
  <2>1. PICK j \in Job : Busy(j) /\ base[j] = repo /\ repo' = File(notified[j])
    BY <2>0, PushIsFresh
  <2>2. e \in notified[j]
    BY <2>1 DEF File
  <2>3. base[j] # Absent => e \in UNION base[j] \/ channel[e] > 0 \/ time[e] + MaxAge < now
    BY <2>1, <2>2 DEF RInv, ReasonInv
  <2>4. QED
    BY <2>1, <2>3
<1>2. QED
  BY <1>1, Invariance, PTL DEF Spec, MarkedForAReason

\* When jobs run one at a time, no event is posted twice, except once for every
\* lost answer, dead runner or foreign commit.
THEOREM NoRepeatHolds == ASSUME ~Overlap PROVE Spec => []NoRepeat
<1>1. RInv /\ PostedInv /\ [Next]_vars => PostedInv'
  BY PostedStep
<1>2. Spec => []PostedInv
  BY <1>1, InitPosted, Invariance, PTL DEF Spec
<1>3. QED
  BY <1>2, Invariance, PostedOnce, PTL

=============================================================================
