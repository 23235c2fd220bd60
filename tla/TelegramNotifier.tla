-------------------------- MODULE TelegramNotifier --------------------------
(* scripts/telegram_alert.py --poll under .github/workflows/telegram-alerts:  *)
(* a job checks the repository out, reads which events were notified, asks    *)
(* the source for the newest ones, sends those that are new and recent, saves *)
(* the state and pushes it.  One action per effect another job, the channel   *)
(* or the repository can observe.  A job that has ended may be triggered      *)
(* again: Job bounds how many are alive at once.  The source is asked for     *)
(* events above the threshold only, so the branch that marks smaller ones is  *)
(* left out.                                                                  *)
EXTENDS Integers, FiniteSets

CONSTANTS
    Event,        \* numbered in the order the source reports them
    Job,          \* jobs of the workflow
    MaxPerRun,    \* messages one poll may send
    MaxAge,       \* max_age_hours, in ticks
    Limit,        \* events the source returns, newest first
    Delay,        \* how long after its origin time an event may be reported
    Overlap,      \* TRUE: jobs may run side by side (no concurrency group)
    MaxUpsets,    \* bound on upsets
    MaxNow        \* bound on the clock

ASSUME NotifierAssumption ==
    /\ Event \subseteq Nat
    /\ MaxPerRun \in Nat \ {0} /\ MaxAge \in Nat /\ Limit \in Nat \ {0}
    /\ Delay \in Nat /\ MaxNow \in Nat /\ Overlap \in BOOLEAN /\ MaxUpsets \in Nat

\* data/notified_events.json as an option: no file, or a file with a set.
Absent == {}
File(S) == {S}

VARIABLES
    now,
    time,       \* time[e]: origin time of the events reported so far, else -1
    repo,       \* the state file on the main branch
    channel,    \* channel[e]: how many times e was posted
    upsets,     \* lost answers, dead runners, foreign commits, polls that
                \* raised after a post or while saving, so far
    pc,         \* step of each job
    base,       \* the state file the job checked out
    behind,     \* the branch moved since the job checked it out
    notified,   \* the set the script works with
    since,      \* min_time_ms
    todo,       \* features the loop has not visited
    sent        \* sent_count

jobVars == <<pc, base, behind, notified, since, todo, sent>>
world == <<now, time, repo, channel, upsets>>
vars == <<world, jobVars>>

Upset == upsets < MaxUpsets /\ upsets' = upsets + 1

Reported == {e \in Event : time[e] >= 0}

\* Answers to the query: the Limit newest events (ties in any order).
Newest ==
    {S \in SUBSET Reported :
        /\ Cardinality(S) = IF Cardinality(Reported) <= Limit THEN Cardinality(Reported) ELSE Limit
        /\ \A e \in S, f \in Reported \ S : time[e] >= time[f]}

TypeOK ==
    /\ now \in 0 .. MaxNow
    /\ time \in [Event -> -1 .. MaxNow]
    /\ repo \in {Absent} \cup {File(S) : S \in SUBSET Event}
    /\ channel \in [Event -> Nat] /\ upsets \in 0 .. MaxUpsets
    /\ pc \in [Job -> {"idle", "checkedout", "polling", "saved"}]
    /\ behind \in [Job -> BOOLEAN]
    /\ base \in [Job -> {Absent} \cup {File(S) : S \in SUBSET Event}]
    /\ notified \in [Job -> SUBSET Event] /\ todo \in [Job -> SUBSET Reported]
    /\ since \in [Job -> Int] /\ sent \in [Job -> 0 .. MaxPerRun]

Init ==
    /\ now = 0 /\ time = [e \in Event |-> -1]
    /\ repo = Absent /\ channel = [e \in Event |-> 0] /\ upsets = 0
    /\ pc = [j \in Job |-> "idle"] /\ base = [j \in Job |-> Absent]
    /\ behind = [j \in Job |-> FALSE]
    /\ notified = [j \in Job |-> {}] /\ since = [j \in Job |-> 0]
    /\ todo = [j \in Job |-> {}] /\ sent = [j \in Job |-> 0]

-----------------------------------------------------------------------------
(* The world outside: time, the source, other commits on the branch.          *)

Tick == now < MaxNow /\ now' = now + 1 /\ UNCHANGED <<time, repo, channel, upsets, jobVars>>

\* The clock is let run past the age limit of the last event.
Report(e, t) ==
    /\ time[e] = -1 /\ \A f \in Event : f < e => f \in Reported
    /\ now - Delay <= t /\ t <= now /\ t >= 0 /\ t + MaxAge < MaxNow
    /\ time' = [time EXCEPT ![e] = t]
    /\ UNCHANGED <<now, repo, channel, upsets, jobVars>>

Moved(j) == [o \in Job |-> o # j /\ pc[o] # "idle"]

OtherPush ==
    /\ Upset
    /\ behind' = [o \in Job |-> pc[o] # "idle"] /\ behind' # behind
    /\ UNCHANGED <<now, time, repo, channel, pc, base, notified, since, todo, sent>>

-----------------------------------------------------------------------------
(* One job                                                                    *)

\* actions/checkout, then the script reads the state file of its copy.
Checkout(j) ==
    /\ pc[j] = "idle"
    /\ Overlap \/ \A o \in Job : pc[o] = "idle"
    /\ pc' = [pc EXCEPT ![j] = "checkedout"]
    /\ base' = [base EXCEPT ![j] = repo]
    /\ behind' = [behind EXCEPT ![j] = FALSE]
    /\ notified' = [notified EXCEPT ![j] = UNION repo]
    /\ since' = [since EXCEPT ![j] = now - MaxAge]
    /\ sent' = [sent EXCEPT ![j] = 0]
    /\ UNCHANGED <<world, todo>>

\* The runner of a job is gone, with its copy and the script's variables.
Gone(j) ==
    /\ pc' = [pc EXCEPT ![j] = "idle"] /\ base' = [base EXCEPT ![j] = Absent]
    /\ notified' = [notified EXCEPT ![j] = {}] /\ since' = [since EXCEPT ![j] = 0]
    /\ todo' = [todo EXCEPT ![j] = {}] /\ sent' = [sent EXCEPT ![j] = 0]

\* A job ends and the branch is as it was.
Ends(j) == Gone(j) /\ behind' = [behind EXCEPT ![j] = FALSE] /\ UNCHANGED repo

\* The answer of the source.  Without a state file its events become the
\* baseline and none is sent.
Query(j) ==
    /\ pc[j] = "checkedout"
    /\ \E S \in Newest :
        IF base[j] = Absent
          THEN /\ notified' = [notified EXCEPT ![j] = S]
               /\ todo' = [todo EXCEPT ![j] = {}]
          ELSE /\ notified' = notified
               /\ todo' = [todo EXCEPT ![j] = S]
    /\ pc' = [pc EXCEPT ![j] = "polling"]
    /\ UNCHANGED <<world, base, behind, since, sent>>

\* One except clause ends the request, the loop and the save (QueryFails,
\* LoopFails, SaveFails): the script prints the error and exits with 0, and the
\* job pushes what changed of the file.  Here the request fails, or its answer
\* is not the JSON expected: nothing changed.
QueryFails(j) ==
    /\ pc[j] = "checkedout" /\ Ends(j)
    /\ UNCHANGED <<now, time, channel, upsets>>

\* The loop goes from the oldest event to the newest and passes over those that
\* are notified.
Left(j) == todo[j] \ notified[j]
IsNext(j, e) == e \in Left(j) /\ \A f \in Left(j) : time[e] <= time[f]
Visited(j, e) == todo' = [todo EXCEPT ![j] = @ \ {e}]

\* Variant: what the limit leaves over is marked as notified.
ThrottleMarking(j) ==
    /\ pc[j] = "polling" /\ sent[j] >= MaxPerRun /\ Left(j) # {}
    /\ notified' = [notified EXCEPT ![j] = @ \cup todo[j]]
    /\ todo' = [todo EXCEPT ![j] = {}]
    /\ UNCHANGED <<world, pc, base, behind, since, sent>>

\* The limit of messages is reached before the age is looked at: the rest of
\* the events is left for another job.
Throttle(j) ==
    /\ pc[j] = "polling" /\ sent[j] >= MaxPerRun /\ Left(j) # {}
    /\ todo' = [todo EXCEPT ![j] = {}]
    /\ UNCHANGED <<world, pc, base, behind, notified, since, sent>>

\* Variant: no limit on the messages of a poll.
ReadyUnlimited(j, e) == pc[j] = "polling" /\ IsNext(j, e)

Ready(j, e) == pc[j] = "polling" /\ IsNext(j, e) /\ sent[j] < MaxPerRun

\* Variant: an event that is too old is left unmarked, and the loop stops.
ExpireUnmarked(j, e) ==
    /\ Ready(j, e) /\ time[e] < since[j]
    /\ todo' = [todo EXCEPT ![j] = {}]
    /\ UNCHANGED <<world, pc, base, behind, notified, since, sent>>

Expire(j, e) ==
    /\ Ready(j, e) /\ time[e] < since[j]
    /\ notified' = [notified EXCEPT ![j] = @ \cup {e}]
    /\ Visited(j, e)
    /\ UNCHANGED <<world, pc, base, behind, since, sent>>

\* Variant: the id is not added to the set.
SendUnmarked(j, e) ==
    /\ Ready(j, e) /\ time[e] >= since[j]
    /\ channel' = [channel EXCEPT ![e] = @ + 1]
    /\ sent' = [sent EXCEPT ![j] = @ + 1]
    /\ Visited(j, e)
    /\ UNCHANGED <<now, time, repo, upsets, pc, base, behind, notified, since>>

Send(j, e) ==
    /\ Ready(j, e) /\ time[e] >= since[j]
    /\ channel' = [channel EXCEPT ![e] = @ + 1]
    /\ notified' = [notified EXCEPT ![j] = @ \cup {e}]
    /\ sent' = [sent EXCEPT ![j] = @ + 1]
    /\ Visited(j, e)
    /\ UNCHANGED <<now, time, repo, upsets, pc, base, behind, since>>

\* send_telegram_message returns False: the message was refused, or it was
\* posted and the answer did not arrive.  Neither is marked or counted.
SendFails(j, e) ==
    /\ Ready(j, e) /\ time[e] >= since[j]
    /\ \/ UNCHANGED <<channel, upsets>>
       \/ Upset /\ channel' = [channel EXCEPT ![e] = @ + 1]
    /\ Visited(j, e)
    /\ UNCHANGED <<now, time, repo, pc, base, behind, notified, since, sent>>

\* The loop raises on a feature it would send: no place, magnitude or geometry.
\* The save is skipped, and what this poll posted is forgotten with it.
LoopFails(j, e) ==
    /\ Ready(j, e) /\ time[e] >= since[j]
    /\ IF sent[j] = 0 THEN UNCHANGED upsets ELSE Upset
    /\ Ends(j)
    /\ UNCHANGED <<now, time, channel>>

Save(j) ==
    /\ pc[j] = "polling" /\ Left(j) = {}
    /\ pc' = [pc EXCEPT ![j] = "saved"]
    /\ UNCHANGED <<world, base, behind, notified, since, todo, sent>>

\* The file cannot be opened and is left as it was, or the write fails after
\* open emptied it: the next poll finds a file it cannot read, which counts as
\* one without events.
SaveFails(j) ==
    /\ pc[j] = "polling" /\ Left(j) = {} /\ Upset
    /\ \/ Ends(j)
       \/ /\ pc' = [pc EXCEPT ![j] = "saved"] /\ notified' = [notified EXCEPT ![j] = {}]
          /\ UNCHANGED <<repo, base, behind, since, todo, sent>>
    /\ UNCHANGED <<now, time, channel>>

\* git push of the changed file: refused, with the job's state lost, when the
\* branch has moved since the checkout.
Push(j) ==
    /\ pc[j] = "saved"
    /\ IF File(notified[j]) = base[j] \/ behind[j]
         THEN Ends(j)
         ELSE Gone(j) /\ repo' = File(notified[j]) /\ behind' = Moved(j)
    /\ UNCHANGED <<now, time, channel, upsets>>

\* The runner dies or reaches timeout-minutes.
Crash(j) ==
    /\ pc[j] # "idle" /\ Upset
    /\ Ends(j)
    /\ UNCHANGED <<now, time, channel>>

-----------------------------------------------------------------------------

Progress(j) ==
    \/ Query(j) \/ QueryFails(j) \/ Throttle(j) \/ Save(j) \/ SaveFails(j) \/ Push(j)
    \/ \E e \in Event : Expire(j, e) \/ Send(j, e) \/ SendFails(j, e) \/ LoopFails(j, e)

Next ==
    \/ Tick \/ OtherPush
    \/ \E e \in Event, t \in 0 .. MaxNow : Report(e, t)
    \/ \E j \in Job : Checkout(j) \/ Progress(j) \/ Crash(j)

Spec == Init /\ [][Next]_vars

\* Time passes, the schedule goes on triggering jobs, a job runs on, the source
\* does not fail every request for ever, and writes fail MaxUpsets times at most.
\* That messages are ever accepted, or features ever complete, is not assumed.
FairSpec ==
    /\ Spec /\ WF_vars(Tick) /\ WF_vars(\E j \in Job : Checkout(j))
    /\ \A j \in Job : WF_vars(Progress(j)) /\ SF_vars(Query(j))

-----------------------------------------------------------------------------
(* Safety                                                                     *)

\* The state is committed back so that notices are not repeated between runs:
\* no event is posted twice, unless a lost answer, a dead runner, a foreign
\* commit, a poll whose loop raised after it had posted or one whose save failed
\* came between, and each of them repeats an event once at most.
NoRepeat == \A e \in Event : channel[e] <= 1 + upsets

\* An event enters the state of the branch only for a reason: it was there or
\* is part of the baseline, it was posted, or it is past the age limit.
MarkedForAReason ==
    [][\A e \in Event :
        repo # Absent /\ e \in (UNION repo') \ (UNION repo) =>
            channel[e] > 0 \/ time[e] + MaxAge < now]_vars

-----------------------------------------------------------------------------
(* Liveness                                                                   *)

\* Every reported event is settled, posted or marked in the state, unless others
\* as new push it out of the source's answer first.
Reachable(e) == \A S \in Newest : e \in S
EveryEventSettles ==
    \A e \in Event : e \in Reported ~> e \in UNION repo \/ ~Reachable(e)

=============================================================================
