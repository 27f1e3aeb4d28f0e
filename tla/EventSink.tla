------------------------------ MODULE EventSink ------------------------------
(***************************************************************************)
(* What the span enricher promises the topic it drains                     *)
(* (platform/api/hexgate_api/jobs/enricher): an offset is acknowledged     *)
(* only when every span up to it is a row of ClickHouse or an envelope of  *)
(* the dead-letter topic.  Group members, polls, retries and replays are   *)
(* not part of it.                                                         *)
(***************************************************************************)
EXTENDS Naturals, Sequences

CONSTANTS
    Records,            \* what the topic may carry
    Units(_),           \* the parts of a record that are accounted for
    Mappable(_),        \* those of its parts that may become rows
    Same(_, _)          \* two events with one identity

VARIABLES
    log,                \* the records of the partition
    acked,              \* how many of them are acknowledged
    rows,               \* the events recorded, duplicates merged
    dlq                 \* the envelopes: <<offset, part>>

vars == <<log, acked, rows, dlq>>

Init == log = << >> /\ acked = 0 /\ rows = {} /\ dlq = {}

\* A part is accounted for by its own envelope or by a row with its identity.
Settled(o) ==
    \A u \in Units(log[o]) :
        \/ <<o, u>> \in dlq
        \/ u \in Mappable(log[o]) /\ \E e \in rows : Same(e, u)

Produce ==
    /\ \E r \in Records : log' = Append(log, r)
    /\ UNCHANGED <<acked, rows, dlq>>

\* Some events of the log are recorded.
Record ==
    /\ rows \subseteq rows'
    /\ \A e \in rows' \ rows : \E o \in DOMAIN log : e \in Mappable(log[o])
    /\ UNCHANGED <<log, acked, dlq>>

\* One part of one record is parked.
Park ==
    /\ \E o \in DOMAIN log : \E u \in Units(log[o]) : dlq' = dlq \union {<<o, u>>}
    /\ UNCHANGED <<log, acked, rows>>

Acknowledge ==
    /\ acked' \in (acked + 1)..Len(log)
    /\ \A o \in 1..acked' : Settled(o)
    /\ UNCHANGED <<log, rows, dlq>>

Next == Produce \/ Record \/ Park \/ Acknowledge

Spec == Init /\ [][Next]_vars
=============================================================================
