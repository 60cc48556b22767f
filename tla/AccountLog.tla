------------------------------- MODULE AccountLog -------------------------------
(* What the server promises its clients about one account: a log of versions   *)
(* that only grows. A write is appended only on top of the revision its author *)
(* named, above every sequence already given out, and at most once for each    *)
(* mutation id; nothing in the log is ever changed or removed.                 *)
EXTENDS Integers

CONSTANTS Object, Envelope, MutationId

VARIABLES
    log,           \* the versions of all objects
    receipts,      \* for each mutation id applied, the version it wrote
    top            \* the last sequence number given out

logVars == <<log, receipts, top>>

RevisionsOf(o) == {v.revision : v \in {w \in log : w.object = o}}

\* o is at revision n: its versions are numbered 1 to n.
AtRevision(o, n) == RevisionsOf(o) = 1 .. n

LogInit == log = {} /\ receipts = {} /\ top = 0

Append(m, o, expected, e, d) ==
    LET v == [object |-> o, revision |-> expected + 1, seq |-> top + 1,
              envelope |-> e, deleted |-> d]
    IN  /\ \A r \in receipts : r.mutation # m
        /\ AtRevision(o, expected)
        /\ \A w \in log : w.seq <= top
        /\ log' = log \cup {v}
        /\ receipts' = receipts \cup {[mutation |-> m, version |-> v]}
        /\ top' = top + 1

LogNext ==
    \E m \in MutationId, o \in Object, e \in Envelope, d \in BOOLEAN :
        \E n \in RevisionsOf(o) \cup {0} : Append(m, o, n, e, d)

LogSpec == LogInit /\ [][LogNext]_logVars
================================================================================
