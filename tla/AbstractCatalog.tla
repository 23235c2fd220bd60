-------------------------- MODULE AbstractCatalog --------------------------
(* What the event catalog promises, without runs, transactions or locks: an   *)
(* append-only, bitemporal log.  A retrieval draws a time; later it adds one  *)
(* batch of rows under that time, or none.                                    *)
EXTENDS Naturals

CONSTANTS Event, Version

VARIABLES
    clock,   \* the latest time drawn
    open,    \* times drawn whose batch may still be added
    revs,    \* event revisions
    mem      \* canonical memberships

vars == <<clock, open, revs, mem>>

Init == clock = 0 /\ open = {} /\ revs = {} /\ mem = {}

Open ==
    /\ clock' = clock + 1
    /\ open' = open \cup {clock + 1}
    /\ UNCHANGED <<revs, mem>>

\* Nothing is altered or removed; the new rows carry the time t; a content is
\* recorded once per event; a first revision brings the membership of its event.
Append(t) ==
    /\ t \in open /\ open' = open \ {t}
    /\ revs \subseteq revs' /\ mem \subseteq mem'
    /\ \A x \in revs' \ revs :
        /\ x.avail = t
        /\ \A y \in revs' : y.ev = x.ev /\ y.ver = x.ver => y = x
        /\ \E m \in mem' : m.ev = x.ev
    /\ \A m \in mem' \ mem :
        /\ m.from = t
        /\ \E x \in revs' \ revs : x.ev = m.ev
        /\ \A n \in mem' : n.ev = m.ev => n = m
    /\ UNCHANGED clock

Drop(t) ==
    /\ t \in open /\ open' = open \ {t}
    /\ UNCHANGED <<clock, revs, mem>>

Next == Open \/ \E t \in open : Append(t) \/ Drop(t)

Spec == Init /\ [][Next]_vars

=============================================================================
