---------------------------- MODULE CatalogReads ----------------------------
(* The queries the catalog answers, as functions of its two append-only       *)
(* tables.  `revs` is a set of event revisions [ev, ver, avail]: source event, *)
(* content version (the revision_hash) and available_at.  `mem` is a set of   *)
(* canonical memberships [ev, canon, from]: source event, canonical event and *)
(* valid_from.  No code sets valid_until, so every membership is open-ended   *)
(* and the filter on it is left out.  A canonical event is named by the       *)
(* source event that founded it.                                              *)
EXTENDS Naturals

CONSTANTS
    Event,      \* source events (the rows of source_events)
    Source,     \* registered sources
    SourceOf,   \* the source of each source event
    Priority,   \* preference between sources, 0 first
    Version,    \* contents a source may publish for one event
    Place       \* Place[e][v]: where and when version v puts event e, on a line

ASSUME CatalogAssumption ==
    /\ SourceOf \in [Event -> Source]
    /\ Priority \in [Source -> Nat]
    /\ Place \in [Event -> [Version -> Nat]]

-----------------------------------------------------------------------------

\* Rows of event_revisions and of canonical_event_memberships.
Revision == [ev : Event, ver : Version, avail : Nat]
Membership == [ev : Event, canon : Event, from : Nat]

\* row_number() over (partition by source_event_id order by available_at desc) = 1.
LatestOf(R) == {r \in R : \A x \in R : x.ev = r.ev => x.avail <= r.avail}

\* Variant: the as-of cut is missing.
EveryRev(revs, t) == revs

VisibleRevs(revs, t) == {r \in revs : r.avail <= t}
VisibleMembers(mem, t) == {m \in mem : m.from <= t}

\* DatasetVersionService._latest_revisions
LatestRevisions(revs, t) == LatestOf(VisibleRevs(revs, t))

Projections(revs, mem, t) ==
    LET latest == LatestRevisions(revs, t)
    IN  UNION {{[canon |-> m.canon, rev |-> x] : x \in {y \in latest : y.ev = m.ev}} :
                 m \in VisibleMembers(mem, t)}

\* order_by(source_priority, available_at desc)
RanksBefore(p, q) ==
    LET a == Priority[SourceOf[p.rev.ev]]
        b == Priority[SourceOf[q.rev.ev]]
    IN  a < b \/ (a = b /\ p.rev.avail > q.rev.avail)

\* canonical_rank = 1.  Rows that tie are all kept: the database returns any one.
PreferredProjection(revs, mem, t) ==
    LET rows == Projections(revs, mem, t)
    IN  {p \in rows : \A q \in rows : q.canon = p.canon => ~RanksBefore(q, p)}

\* list_events: the time window applies to the preferred revision only, after
\* the ranking.
ListEvents(revs, mem, t, from, to) ==
    {p \in PreferredProjection(revs, mem, t) :
        /\ from <= Place[p.rev.ev][p.rev.ver]
        /\ Place[p.rev.ev][p.rev.ver] < to}

=============================================================================
