------------------------------- MODULE EventLog -------------------------------
(***************************************************************************)
(* What the write side promises, whatever the number of requests in        *)
(* flight: an append-only log of events, in streams of consecutive         *)
(* versions, that grows by all of one command's events at once and         *)
(* announces exactly those in the outbox.                                  *)
(***************************************************************************)
EXTENDS Naturals

CONSTANTS Streams,     \* the event streams
          Requests,    \* the commands that may append
          NoRequest    \* the origin of the events the log starts with

VARIABLES log,         \* the events in the log
          announced    \* the ids of the events readers have been told of

Id(e) == <<e.req, e.stream>>

\* A stream's events in e are the next after those of the log.
Extends(e, rows) == /\ \A f \in rows : f.stream = e.stream => f.version < e.version
                    /\ \E f \in rows : f.stream = e.stream /\ f.version + 1 = e.version

Init == /\ \A e \in log : e.version = 1 /\ e.req = NoRequest
        /\ \A s \in Streams : \E e \in log : e.stream = s
        /\ announced = {Id(e) : e \in log}

\* One command appends: a new event on each stream it changes, all at once.
\* A command appends at most once.
Append(r) ==
    /\ log \subseteq log'
    /\ log' # log
    /\ \A e \in log : e.req # r
    /\ \A e \in log' \ log :
          /\ e.req = r
          /\ Extends(e, log)
          /\ \A f \in log' \ log : f.stream = e.stream => f = e
    /\ announced' = announced \cup {Id(e) : e \in log' \ log}

Next == \E r \in Requests : Append(r)

Spec == Init /\ [][Next]_<<log, announced>>

==============================================================================
