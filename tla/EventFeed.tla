------------------------------- MODULE EventFeed -------------------------------
(***************************************************************************)
(* What GET /runs/:runId/events promises the reader of one run's execution  *)
(* events, over all the connections it uses: the events that were committed *)
(* in the order of their ids reach it once each, in that order, with none   *)
(* left out.  An event that commits after one with a greater id is "late":  *)
(* the reader may be given it in its place or never.                        *)
(***************************************************************************)
EXTENDS Integers, Sequences

CONSTANTS
    LastId      \* bound: the greatest execution_events.id of the run

Ids == 1..LastId

VARIABLES
    log,        \* the ids of the committed events
    late,       \* those that committed after a greater id
    received    \* the ids the reader was given, over all its connections

feedVars == <<log, late, received>>

LastOf(s) == IF s = <<>> THEN 0 ELSE s[Len(s)]

FeedInit == log = {} /\ late = {} /\ received = <<>>

Publishes(i) ==
    /\ log' = log \union {i}
    /\ late' = IF \E j \in log : j > i THEN late \union {i} ELSE late
    /\ UNCHANGED received

\* The next event: committed, after all those given, and skipping only late ones.
Delivers(i) ==
    /\ i \in log
    /\ i > LastOf(received)
    /\ \A j \in log : LastOf(received) < j /\ j < i => j \in late
    /\ received' = Append(received, i)
    /\ UNCHANGED <<log, late>>

FeedNext == \E i \in Ids : Publishes(i) \/ Delivers(i)

FeedSpec == FeedInit /\ [][FeedNext]_feedVars
=============================================================================
