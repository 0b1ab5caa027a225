------------------------- MODULE MCCommandLifecycle -------------------------
(* Small sets of units and commands for CommandLifecycle. *)
EXTENDS CommandLifecycle

CONSTANTS u1, u2

MCUnits == {u1, u2}

Plan(units, menu, commands, hands, faults) ==
    [units |-> units, menu |-> menu, commands |-> commands, hands |-> hands,
     faults |-> faults]

\* Edits of two units, selection and the gain lock; and of a unit that fails.
Edits == Plan({u1, u2}, {"drag", "gain", "select", "lock", "fx", "edit"}, 3, FALSE, 0)
Failing == Plan({u1}, {"drag", "gain", "select", "lock", "fx", "edit"}, 3, FALSE, 1)

\* Work of the other workers, calibration, and shutdown racing with submitters.
Asking == Plan({u1}, {"host", "prepare", "fx", "start", "record", "shutdown", "confirm"}, 3, FALSE, 1)
Sessions == Plan({u1}, {"start", "record", "cancel", "shutdown"}, 4, FALSE, 1)

\* Rows and scenes that a handover holds: cut off by a shutdown, a failure or a
\* hand; held for long; and among edits of the same gain.
Cut(hands, faults) == Plan({u1}, {"row", "scene", "shutdown"}, 2, hands, faults)
Long == Plan({u1}, {"row", "scene"}, 3, FALSE, 0)
Scenes == Plan({u1}, {"scene", "gain", "lock"}, 3, FALSE, 0)

\* One of each kind of work that another thread answers.
EveryWorker == Plan({u1}, {"row", "host", "start", "record", "drag", "prepare"}, 2, FALSE, 1)

AllPlans == {Edits, Failing, Asking, Sessions, Cut(TRUE, 0), Cut(FALSE, 1), Long, Scenes, EveryWorker}

\* A scene and an edit of the same gain.
ScenePlans == {Plan({u1}, {"scene", "gain"}, 2, FALSE, 0)}
=============================================================================
