------------------------------ MODULE ReadModels ------------------------------
(***************************************************************************)
(* What the dashboard reads of the decisions and refusals in ClickHouse    *)
(* (features/audit, query_scope.py, BlockedAttemptsPanel).  A table keeps  *)
(* every row that was inserted; a retried one twice, until some merge.     *)
(* A query sees the table of one moment.  A read may take several queries  *)
(* and rows arrive, and merge, between them.                               *)
(***************************************************************************)
EXTENDS Integers, FiniteSets, SequencesExt

CONSTANTS
    Samples,            \* rows: agent, tool, user, roles, outcome
    Roles,              \* role names that occur in them
    Window,             \* hours of a rolling window
    Skew, Retention,    \* CLOCK_SKEW_FUTURE, RETENTION_WINDOW
    Hour,               \* _WINDOW_TD
    MinRequests,        \* _ANOMALY_MIN_REQUESTS
    Medium, High,       \* _DENY_RATE_MEDIUM, _DENY_RATE_HIGH in percent
    PageSize,           \* rows of a page of the feed
    MaxRows, MaxClock,  \* bounds: events, the last moment
    MaxDoubled,         \* bound: events the table holds twice at once
    None

ASSUME ReadAssumption ==
    /\ {Window, Skew, Retention, Hour, Medium, High, MaxClock} \subseteq Nat
    /\ {MinRequests, PageSize} \subseteq Nat \ {0}
    /\ Medium <= High
ASSUME NoneAssumption ==
    /\ None \notin Roles \union {"agent", "tool", "user", "high", "medium"}
    /\ IsFiniteSet(Roles)
ASSUME SamplesAssumption ==
    \A sample \in Samples : sample.roles \subseteq Roles /\ sample.outcome # None

VARIABLES
    rows,               \* events by the order of their first arrival
    copies,             \* how many rows the table holds of each
    clock,
    read                \* the read that is under way, and its answer

vars == <<rows, copies, clock, read>>

Ids == DOMAIN rows
Idle == [kind |-> "none"]

Init == rows = <<>> /\ copies = <<>> /\ clock = Window /\ read = Idle

Answered ==
    \/ read.kind = "summary" /\ read.byRole # None
    \/ read.kind = "feed" /\ ~read.more
    \/ read.kind = "anomalies" /\ read.found # None

\* The page shows it, and reads again after a while.
Show == Answered /\ read' = Idle /\ UNCHANGED <<rows, copies, clock>>

-----------------------------------------------------------------------------
(* Writes. *)

\* validate_event_window.
Accepted(at) == at <= clock + Skew /\ at >= clock - Retention

\* _decision_row: the columns that are read.
Event(time, sample) ==
    [at |-> time, agent |-> sample.agent, tool |-> sample.tool, user |-> sample.user,
     roles |-> sample.roles, outcome |-> sample.outcome]

Insert(at, sample) ==
    /\ Len(rows) < MaxRows /\ Accepted(at)
    /\ rows' = Append(rows, Event(at, sample))
    /\ copies' = Append(copies, 1)
    /\ UNCHANGED <<clock, read>>

\* The sender got no answer, or the batch failed half way: the same event again.
Retry(i) ==
    /\ copies[i] = 1 /\ Cardinality({j \in Ids : copies[j] = 2}) < MaxDoubled
    /\ copies' = [copies EXCEPT ![i] = 2]
    /\ UNCHANGED <<rows, clock, read>>

Merge(i) ==
    /\ copies[i] = 2
    /\ copies' = [copies EXCEPT ![i] = 1]
    /\ read' = IF read = Idle THEN Idle ELSE [read EXCEPT !.merged = TRUE]
    /\ UNCHANGED <<rows, clock>>

Tick == clock < MaxClock /\ clock' = clock + 1 /\ UNCHANGED <<rows, copies, read>>

-----------------------------------------------------------------------------
(* The scope of a read. *)

Rolling == [since |-> clock - Window, until |-> None]

\* prepare_date_range, then _date_range_valid: a range that is empty is no range.
Least(a, b) == IF a < b THEN a ELSE b
Scoped(range) ==
    IF range = None THEN Rolling
    ELSE LET end == Least(range[2], clock + Skew)
             start == -Least(-range[1], Retention - end) IN
         IF start > end THEN Rolling ELSE [since |-> start, until |-> end]

InScope(i, scope) == rows[i].at >= scope.since /\ (scope.until = None \/ rows[i].at <= scope.until)

\* The role of a filter: none, "" for no role at all, or one of the caller's.
HasRole(i, role) == role = None \/ IF role = "" THEN rows[i].roles = {} ELSE role \in rows[i].roles
Slice(scope, role) == {i \in Ids : InScope(i, scope) /\ HasRole(i, role)}
CountOf(c, S) == MapThenSumSet(LAMBDA i : c[i], S)
RowCount(S) == CountOf(copies, S)

-----------------------------------------------------------------------------
(* summarize. *)

\* Groups of the first scan: a dimension that is rolled up is None.
Group(S, dim) ==
    {[dim |-> dim, key |-> k, outcome |-> o, n |-> RowCount({i \in S : rows[i][dim] = k /\ rows[i].outcome = o})]
        : k \in {rows[i][dim] : i \in S}, o \in {rows[i].outcome : i \in S}}
Grouped(S) ==
    {[dim |-> None, key |-> None, outcome |-> None, n |-> RowCount(S)]}
        \union {[dim |-> None, key |-> None, outcome |-> o, n |-> RowCount({i \in S : rows[i].outcome = o})]
                    : o \in {rows[i].outcome : i \in S}}
        \union Group(S, "agent") \union Group(S, "tool") \union Group(S, "user")

\* arrayJoin of the roles, narrowed to the role of the filter.
Buckets(i) == IF rows[i].roles = {} THEN {""} ELSE rows[i].roles
ByRole(S, role) ==
    [k \in IF role \in Roles THEN {role} ELSE Roles \union {""} |-> RowCount({i \in S : k \in Buckets(i)})]

AskSummary(role, range) ==
    /\ LET scope == Scoped(range) IN
       read' = [kind |-> "summary", range |-> range, scope |-> scope, role |-> role, merged |-> FALSE,
                groups |-> Grouped(Slice(scope, role)), byRole |-> None]
    /\ UNCHANGED <<rows, copies, clock>>

\* Faulty variant: each scan has a now() of its own.
OwnScope == Scoped(read.range)

\* The window of both scans is bound once.
RoleScope == read.scope

RoleScan ==
    /\ read.kind = "summary" /\ read.byRole = None
    /\ read' = [read EXCEPT !.byRole = ByRole(Slice(RoleScope, read.role), read.role)]
    /\ UNCHANGED <<rows, copies, clock>>

-----------------------------------------------------------------------------
(* The feed of refusals: list_ban_enforcements by pages, BlockedAttemptsPanel. *)

\* Faulty variant: by time alone.
Newer(a, b) == rows[a].at > rows[b].at

\* ORDER BY occurred_at DESC, event_id DESC.
Before(a, b) == rows[a].at > rows[b].at \/ (rows[a].at = rows[b].at /\ a > b)

\* What the query may return: each order that has none before one it precedes.
Orders(S) ==
    {s \in SetToSeqs(S) : \A j, k \in DOMAIN s : j < k => ~Before(s[k], s[j])}
WithCopies(s) == FlattenSeq([k \in DOMAIN s |-> [c \in 1..copies[s[k]] |-> s[k]]])
Page(s, offset) == SubSeq(s, offset + 1, Least(offset + PageSize, Len(s)))

\* count() OVER (), or a plain count for a page past the end.
Fetched(offset, loaded) ==
    \E s \in Orders(Slice(Rolling, None)) :
        read' = [read EXCEPT !.scope = Rolling, !.ids = loaded \o Page(WithCopies(s), offset),
                             !.more = Page(WithCopies(s), offset) # <<>> /\ offset + PageSize < Len(WithCopies(s))]

OpenFeed ==
    /\ \E s \in Orders(Slice(Rolling, None)) :
           read' = [kind |-> "feed", scope |-> Rolling, merged |-> FALSE, first |-> ToSet(s),
                    ids |-> Page(WithCopies(s), 0), more |-> PageSize < Len(WithCopies(s))]
    /\ UNCHANGED <<rows, copies, clock>>

\* getNextPageParam: the rows loaded so far are the next offset.
MorePages ==
    /\ read.kind = "feed" /\ read.more
    /\ Fetched(Len(read.ids), read.ids)
    /\ UNCHANGED <<rows, copies, clock>>

-----------------------------------------------------------------------------
(* anomalies. *)

Users(S) == {rows[i].user : i \in S}
Qualifying(S) == {u \in Users(S) : RowCount({i \in S : rows[i].user = u}) >= MinRequests}

AskAnomalies(range) ==
    /\ LET scope == Scoped(range) IN
       read' = [kind |-> "anomalies", scope |-> scope, merged |-> FALSE,
                users |-> Qualifying(Slice(scope, None)), seen |-> None, found |-> None]
    /\ UNCHANGED <<rows, copies, clock>>

Denials(w) == Cardinality({k \in DOMAIN w : rows[w[k]].outcome = "deny"})
Level(w) ==
    IF Len(w) < MinRequests \/ 100 * Denials(w) < Medium * Len(w) THEN None
    ELSE IF 100 * Denials(w) >= High * Len(w) THEN "high" ELSE "medium"

\* The rate first, then the size.
AtLeast(w, v) ==
    LET a == Denials(w) * Len(v)
        b == Denials(v) * Len(w) IN
    a > b \/ (a = b /\ Len(w) >= Len(v))

\* Faulty variant: a burst that ends takes the current event with it.
EmptyWindow(w) == <<>>

\* After an eviction the current event starts anew; after a drop of the rate all
\* of the window is discarded.
WindowAfter(w) == IF Len(w) = 1 THEN w ELSE <<>>

\* popleft: what is more than an hour before the last event leaves the window.
LastHour(w) ==
    SubSeq(w, Min({k \in DOMAIN w : rows[w[Len(w)]].at - rows[w[k]].at <= Hour}), Len(w))

\* One event of one user: the window, the best burst of it, the bursts found.
Slide(acc, i) ==
    LET w == LastHour(Append(acc.window, i)) IN
    IF Level(w) # None
      THEN [acc EXCEPT !.window = w, !.best = IF acc.best = <<>> \/ AtLeast(w, acc.best) THEN w ELSE acc.best]
    ELSE IF acc.best # <<>>
      THEN [window |-> WindowAfter(w), best |-> <<>>, found |-> Append(acc.found, acc.best)]
    ELSE [acc EXCEPT !.window = w]

Bursts(s) ==
    LET scan[k \in 0..Len(s)] ==
            IF k = 0 THEN [window |-> <<>>, best |-> <<>>, found |-> <<>>] ELSE Slide(scan[k - 1], s[k])
        end == scan[Len(s)] IN
    IF end.best = <<>> THEN end.found ELSE Append(end.found, end.best)

Times(i, w) == Cardinality({k \in DOMAIN w : w[k] = i})

\* ORDER BY user_id, occurred_at: rows of one moment in any order, copies among others.
Timelines(S) ==
    {s \in [1..RowCount(S) -> S] :
        /\ \A j, k \in DOMAIN s : j < k => rows[s[j]].at <= rows[s[k]].at
        /\ \A i \in S : Times(i, s) = copies[i]}

\* _sliding_window_anomalies over the rows of one user after the other.
AnomalyScan ==
    /\ read.kind = "anomalies" /\ read.found = None
    /\ LET S == {i \in Slice(read.scope, None) : rows[i].user \in read.users} IN
       \E lines \in [read.users -> UNION {Timelines({i \in S : rows[i].user = u}) : u \in read.users}] :
           /\ \A u \in read.users : lines[u] \in Timelines({i \in S : rows[i].user = u})
           /\ read' = [read EXCEPT !.seen = [i \in S |-> copies[i]], !.found = [u \in read.users |-> Bursts(lines[u])]]
    /\ UNCHANGED <<rows, copies, clock>>

-----------------------------------------------------------------------------

Ranges == {None, <<Window, Window - 1>>, <<0, Window>>, <<0, MaxClock>>}

Writes ==
    \/ \E at \in 0..MaxClock + Skew + 1, sample \in Samples : Insert(at, sample)
    \/ \E i \in Ids : Retry(i) \/ Merge(i)
    \/ Tick

Asks ==
    /\ read = Idle
    /\ \/ \E range \in Ranges : AskAnomalies(range) \/ \E role \in Roles \union {"", None} : AskSummary(role, range)
       \/ OpenFeed

Next ==
    \/ ~Answered /\ (Writes \/ Asks \/ RoleScan \/ MorePages \/ AnomalyScan)
    \/ Show

Spec == Init /\ [][Next]_vars

-----------------------------------------------------------------------------
(* Properties. *)

Total(G) == CountOf([g \in G |-> g.n], G)
Dim(dim) == {g \in read.groups : g.dim = dim}
Grand == Total({g \in Dim(None) : g.outcome = None})

\* A summary adds up: the outcomes, agents, tools and users each to the grand total,
\* and the roles of the second scan to at least it ("sum(by_role[*].all) >=
\* totals["all"]"), or to the filtered role alone, whatever is inserted or however
\* much time goes by between the scans.  A merge in between may take copies away.
SummaryAddsUp ==
    read.kind = "summary" =>
        /\ Total({g \in Dim(None) : g.outcome # None}) = Grand
        /\ \A dim \in {"agent", "tool", "user"} : Total(Dim(dim)) = Grand
        /\ read.byRole # None /\ ~read.merged =>
               LET d == DOMAIN read.byRole IN
               /\ CountOf(read.byRole, d) >= Grand
               /\ read.role \in Roles => d = {read.role}

\* "Every row is reachable": when the feed offers no more pages it has shown every
\* refusal of the window that was there when it was opened, however many arrive,
\* late or twice, between the pages.  A merge in between moves rows past the offset.
NoneSkipped ==
    read.kind = "feed" /\ ~read.more /\ ~read.merged =>
        {i \in read.first : InScope(i, read.scope)} \subseteq ToSet(read.ids)

Calls(u) == {i \in DOMAIN read.seen : rows[i].user = u}
Between(a, b, S) == {i \in S : a <= rows[i].at /\ rows[i].at <= b}
Refused(S) == {i \in S : rows[i].outcome = "deny"}

\* An hour up to a call that is above the threshold.
Busy(calls, last) ==
    LET hour == Between(rows[last].at - Hour, rows[last].at, calls) IN
    /\ CountOf(read.seen, hour) >= MinRequests
    /\ 100 * CountOf(read.seen, Refused(hour)) >= Medium * CountOf(read.seen, hour)

\* A call that follows on enough calls, and refusals, to go on with a burst.
Hot(calls, c) ==
    LET hour == Between(rows[c].at - Hour, rows[c].at, calls) IN
    /\ CountOf(read.seen, {i \in hour : rows[i].at < rows[c].at}) + 1 >= MinRequests
    /\ 100 * CountOf(read.seen, Refused(hour)) >= Medium * MinRequests

\* From one moment to the other no call is calm.
Streak(calls, a, b) == \A c \in Between(a, b, calls) : rows[c].at = a \/ Hot(calls, c)

End(burst) == rows[burst[Len(burst)]].at

\* Bursts are reported "so the full peak window is captured": an hour above the threshold
\* is in one streak with a reported burst, or follows such a streak so closely, within
\* an hour of a call of it, that it began among the calls that were discarded with it.
\* And "one anomaly per above-threshold burst": no row is part of two of them.
BurstsFound ==
    read.kind = "anomalies" /\ read.found # None =>
        \A u \in read.users :
            LET calls == Calls(u) IN
            /\ \A last \in {c \in calls : Busy(calls, c)} :
                  \E k \in DOMAIN read.found[u], c \in Between(rows[last].at - 2 * Hour, rows[last].at, calls) :
                     LET e == End(read.found[u][k]) IN
                     Streak(calls, e, rows[c].at) /\ Streak(calls, rows[c].at, e)
            /\ \A i \in DOMAIN read.seen : Times(i, FlattenSeq(read.found[u])) <= read.seen[i]
=============================================================================
