------------------------------ MODULE EventLog ------------------------------
(***************************************************************************)
(* What the dispatch of events promises, without connections, threads or   *)
(* mutexes: every map has a log of the updates its hooks made, which grows *)
(* at its end only.  An update makes one or several writes of a hook for   *)
(* an event, each at most once for every time the event was taken; an      *)
(* event is taken at most once for every time it was sent.  All of it is   *)
(* lost with the server.                                                   *)
(***************************************************************************)
EXTENDS Integers, Sequences, FiniteSets

CONSTANTS
    Senders,
    Logs,        \* the maps
    Updates      \* what a hook may add: the "first" to the "last" of the
                 \* writes of "hook", for the event of the sender "by"

VARIABLES
    sent,        \* sender -> how often it sent its event
    taken,       \* sender -> how often the event was taken
    log          \* map -> the updates made to it

logVars == <<sent, taken, log>>

Makes(u, write) ==
    u.by = write.by /\ u.hook = write.hook /\ write.set \in u.first..u.last

Times(write, updates) == Cardinality({i \in DOMAIN updates : Makes(updates[i], write)})

LogInit ==
    /\ sent = [s \in Senders |-> 0]
    /\ taken = [s \in Senders |-> 0]
    /\ log = [m \in Logs |-> << >>]

Send(s) ==
    /\ sent' = [sent EXCEPT ![s] = @ + 1]
    /\ UNCHANGED <<taken, log>>

Take(s) ==
    /\ taken[s] < sent[s]
    /\ taken' = [taken EXCEPT ![s] = @ + 1]
    /\ UNCHANGED <<sent, log>>

Add(m, u) ==
    /\ \A n \in u.first..u.last :
           Times([by |-> u.by, hook |-> u.hook, set |-> n], log[m]) < taken[u.by]
    /\ log' = [log EXCEPT ![m] = Append(@, u)]
    /\ UNCHANGED <<sent, taken>>

Lose ==
    /\ sent' = [s \in Senders |-> 0]
    /\ taken' = [s \in Senders |-> 0]
    /\ log' = [m \in Logs |-> << >>]

LogNext ==
    \/ \E s \in Senders : Send(s) \/ Take(s)
    \/ \E m \in Logs, u \in Updates : Add(m, u)
    \/ Lose

LogSpec == LogInit /\ [][LogNext]_logVars
=============================================================================
