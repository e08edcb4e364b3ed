-------------------------- MODULE MCEventDispatch ---------------------------
EXTENDS EventDispatch, TLC

CONSTANTS c1, c2, c3, m1, m2

Event1(m) == [ kind |-> "event", map |-> m, upto |-> 0, batch |-> FALSE, fails |-> {},
               panics |-> {}, flaw |-> "none", tries |-> 1 ]
Batch(m)  == [Event1(m) EXCEPT !.batch = TRUE]
Read(m)   == [Event1(m) EXCEPT !.kind = "read", !.upto = 1]
\* A reader that asks for the newest id and then for the diff up to it.
Follow(m) == [Read(m) EXCEPT !.upto = Newest, !.tries = 2]
Silence   == [Read(m1) EXCEPT !.tries = 0]

Ask(a, b, c) == c1 :> a @@ c2 :> b @@ c3 :> c

MCScenarios ==
    { \* two events meet on one map; a reader's target may cut through what
      \* the hooks write
      Ask(Event1(m1), Batch(m1), [Read(m1) EXCEPT !.upto = 2]),
      \* the hooks go on while a reader asks for the id and for the diff
      Ask(Event1(m1), Follow(m1), Silence),
      \* an event is sent again
      Ask([Event1(m1) EXCEPT !.tries = 2], Read(m1), Silence),
      \* a hook fails, the other one and another event do not
      Ask([Event1(m1) EXCEPT !.fails = {1}], Batch(m1), Silence),
      Ask([Batch(m1) EXCEPT !.fails = {1}], Read(m1), Silence),
      \* a hook panics; one map is poisoned, the other one is not
      Ask([Event1(m1) EXCEPT !.panics = {1}], Event1(m2), Silence),
      Ask([Event1(m1) EXCEPT !.panics = {1}], Batch(m1), Silence),
      Ask([Batch(m1) EXCEPT !.panics = {1}], Read(m1), Silence),
      \* a panic under both mutexes
      Ask(Event1(m1), Event1(m2), [Read(m1) EXCEPT !.flaw = "backward"]),
      \* requests that are turned away
      Ask([Event1(m1) EXCEPT !.flaw = "garbled"],
          [Event1(m1) EXCEPT !.flaw = "stranger"], Read(m1)) }

\* One event, for which nothing fails but the transport.
OneEvent == { Ask(Event1(m1), Silence, Silence) }
=============================================================================
