------------------------------ MODULE Backlog ------------------------------
(***************************************************************************)
(* What the job table promises (ingest/jobs.py), without the drainers,     *)
(* their claims, crashes and restarts, and without the photos' contents:   *)
(* work that was asked for stays owed until its output is there or every   *)
(* attempt at it has failed.                                               *)
(***************************************************************************)
EXTENDS Naturals

CONSTANTS
    Keys,          \* one per photo and stage
    Optional,      \* those of them that may end with nothing to show
    MaxAttempts    \* MAX_ATTEMPTS, at least one

VARIABLES
    state,         \* state[k]: "none", "owed", "done" or "parked"
    tries,         \* tries[k]: attempts that failed since it was asked for, while it is not done
    there          \* the work whose output is there

vars == <<state, tries, there>>

States == {"none", "owed", "done", "parked"}

Init ==
    /\ state = [k \in Keys |-> "none"]
    /\ tries = [k \in Keys |-> 0]
    /\ there = {}

\* Work is noted as owed; work that was done already may be noted as done.
Queue ==
    /\ state' \in [Keys -> States]
    /\ \A k \in Keys :
          \/ state'[k] = state[k]
          \/ state[k] = "none" /\ state'[k] = "owed"
          \/ state[k] = "none" /\ state'[k] = "done" /\ k \in there
    /\ UNCHANGED <<tries, there>>

\* Some of the work is asked for again, with all its attempts.
Renew ==
    /\ state' \in [Keys -> States] /\ tries' \in [Keys -> Nat]
    /\ \A k \in Keys :
          \/ state'[k] = state[k] /\ tries'[k] = tries[k]
          \/ state'[k] = "owed" /\ tries'[k] = 0
    /\ UNCHANGED there

\* The output of owed work comes, or goes to be made anew.
Work(k) ==
    /\ state[k] = "owed"
    /\ \/ there' = there \union {k}
       \/ there' = there \ {k}
    /\ UNCHANGED <<state, tries>>

\* Owed work is done with its output there, or found to have none.
Finish(k) ==
    /\ state[k] = "owed" /\ k \in there \union Optional
    /\ state' = [state EXCEPT ![k] = "done"]
    /\ tries' = [tries EXCEPT ![k] = 0]
    /\ UNCHANGED there

\* A failed attempt; after the last one the work is given up.
Fail(k) ==
    /\ state[k] = "owed"
    /\ tries' = [tries EXCEPT ![k] = @ + 1]
    /\ state' = [state EXCEPT ![k] = IF tries'[k] = MaxAttempts THEN "parked" ELSE "owed"]
    /\ UNCHANGED there

Next == Queue \/ Renew \/ \E k \in Keys : Work(k) \/ Finish(k) \/ Fail(k)

Spec == Init /\ [][Next]_vars
=============================================================================
