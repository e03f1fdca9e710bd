---------------------------- MODULE TimerService ----------------------------
(***************************************************************************)
(* What the timer functions of the runtime promise a script, without the   *)
(* clock, the heap or the nesting of event loops that implement them.      *)
(*                                                                         *)
(* A timer id is free until it is registered.  A registered timer is armed *)
(* until its callback starts; while the callback runs the timer is         *)
(* running; a repeating timer is then armed again and any other retired.   *)
(* Clearing an id is permanent: the timer may still be finishing the turn  *)
(* in which it was cleared, but its callback never starts again.           *)
(***************************************************************************)
EXTENDS Naturals

CONSTANT Id             \* the timer ids

VARIABLES
    status,             \* [Id -> Status]
    repeating,          \* the ids registered by setInterval
    cleared             \* the ids that were passed to a clear function

serviceVars == <<status, repeating, cleared>>

Status == {"free", "armed", "running", "retired"}

ServiceTypeOK ==
    /\ status \in [Id -> Status]
    /\ repeating \subseteq Id
    /\ cleared \subseteq Id

ServiceInit ==
    /\ status = [i \in Id |-> "free"]
    /\ repeating = {}
    /\ cleared = {}

(* A set function hands out an id that was never used.                      *)
Arm(i, every) ==
    /\ status[i] = "free"
    /\ status' = [status EXCEPT ![i] = "armed"]
    /\ repeating' = IF every THEN repeating \cup {i} ELSE repeating

(* A refresh clears the timer a handle stood for and arms another at once.  *)
Replace(i, old, every) ==
    /\ Arm(i, every)
    /\ cleared' = cleared \cup {old}

Drop(i) ==
    /\ cleared' = cleared \cup {i}
    /\ UNCHANGED <<status, repeating>>

(* Timers that were cleared leave quietly, and at most one that was not     *)
(* starts its callback.                                                     *)
Sweep(gone, start) ==
    /\ \A i, j \in start : i = j
    /\ status' = [i \in Id |-> IF i \in gone THEN "retired"
                               ELSE IF i \in start THEN "running"
                               ELSE status[i]]
    /\ UNCHANGED <<repeating, cleared>>

(* The callback returns: only a repeating timer is armed again.             *)
Finish(i) ==
    /\ status[i] = "running"
    /\ status' = [status EXCEPT ![i] = IF i \in repeating THEN "armed"
                                                          ELSE "retired"]
    /\ UNCHANGED <<repeating, cleared>>

ServiceNext ==
    \/ \E i \in Id, every \in BOOLEAN : Arm(i, every) /\ UNCHANGED cleared
    \/ \E i, old \in Id, every \in BOOLEAN : Replace(i, old, every)
    \/ \E i \in Id : Drop(i) \/ Finish(i)
    \/ \E gone \in SUBSET {i \in cleared : status[i] = "armed"},
          start \in SUBSET {i \in Id \ cleared : status[i] = "armed"} :
             Sweep(gone, start)

ServiceSpec == ServiceInit /\ [][ServiceNext]_serviceVars
=============================================================================
