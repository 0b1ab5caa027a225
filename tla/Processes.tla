----------------------------- MODULE Processes -----------------------------
(* Audio children of the program (process.rs): spawned through a helper that *)
(* ties the child to its owner, ended by signals that a child waiting in the *)
(* kernel does not see, and handed to a reaper thread when they do not help. *)
(* The handle pins the process until its exit status was collected.          *)
CONSTANT Children

VARIABLES
    child,      \* child -> what the process does
    handle      \* child -> what its owner holds

ProcessesInit == /\ child = [c \in Children |-> "none"]
                 /\ handle = [c \in Children |-> "none"]

Runs(c) == child[c] \in {"born", "live", "stuck"}

Spawn(c) == /\ child' = [child EXCEPT ![c] = "born"]
            /\ handle' = [handle EXCEPT ![c] = "held"]

\* exec_child: the death of the owner is to end it, and it looks whether the
\* owner died before that was in force.
Protect_Unchecked(c, owner) == child[c] = "born" /\ child' = [child EXCEPT ![c] = "live"]
Protect(c, owner) == child[c] = "born" /\ child' = [child EXCEPT ![c] = IF owner THEN "live" ELSE "dead"]

Dies(c)     == child[c] = "live" /\ child' = [child EXCEPT ![c] = "dead"]
Sticks(c)   == child[c] = "live" /\ child' = [child EXCEPT ![c] = "stuck"]
Released(c) == child[c] = "stuck" /\ child' = [child EXCEPT ![c] = "dead"]

\* The kernel signals what is tied to a process that died.
OwnerDies == child' = [c \in Children |-> IF child[c] = "live" THEN "dead" ELSE child[c]]

\* Process::stop and finish_reaper: one bounded attempt.
Terminated(c) == handle'[c] = "reaped"
Terminate_Forgets(c) == /\ handle' = [handle EXCEPT ![c] = "reaped"]
                        /\ child' = [child EXCEPT ![c] = IF @ = "stuck" THEN @ ELSE "dead"]
Terminate(c) ==
    \/ /\ handle[c] = "held" /\ child[c] # "stuck"
       /\ child' = [child EXCEPT ![c] = "dead"] /\ handle' = [handle EXCEPT ![c] = "reaped"]
    \/ /\ handle[c] = "held" /\ child[c] = "stuck"
       /\ handle' = [handle EXCEPT ![c] = "reaping"] /\ UNCHANGED child
    \/ /\ handle[c] = "reaping" /\ child[c] = "dead"
       /\ handle' = [handle EXCEPT ![c] = "reaped"] /\ UNCHANGED child
    \/ /\ handle[c] = "reaping" /\ child[c] # "dead" /\ UNCHANGED <<child, handle>>
    \/ /\ handle[c] = "reaped" /\ UNCHANGED <<child, handle>>
=============================================================================
