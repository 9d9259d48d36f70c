---------------------------- MODULE ServiceControl ----------------------------
(***************************************************************************)
(* SystemdControlEngine of crates/runtime over the states of systemd units.*)
(* Each operation runs systemctl and ignores how it ended; quarantine runs *)
(* it three times, and others may start the unit in between.               *)
(***************************************************************************)
EXTENDS Naturals, FiniteSets

CONSTANTS Unit,
          MaxActions   \* bound of SystemdControlEngine.actions

ASSUME ServiceAssumption == MaxActions \in Nat

VARIABLES unit,      \* systemd: active, enabled and masked of each unit
          pending,   \* commands of the running quarantine, its unit
          actions,   \* how many actions are recorded, each as a success
          confined,  \* history: quarantined by commands that all succeeded
          raced      \* history: started by others since its quarantine began

serviceVars == <<unit, pending, actions, confined, raced>>

Idle == [unit |-> "none", left |-> 0, ok |-> TRUE]

ServiceTypeOK ==
  /\ unit \in [Unit -> [active : BOOLEAN, enabled : BOOLEAN, masked : BOOLEAN]]
  /\ pending \in [unit : Unit, left : 1..3, ok : BOOLEAN] \cup {Idle}
  /\ actions \in 0..MaxActions
  /\ confined \subseteq Unit /\ raced \subseteq Unit

ServiceInit ==
  /\ unit \in [Unit -> [active : BOOLEAN, enabled : BOOLEAN, masked : {FALSE}]]
  /\ pending = Idle /\ actions = 0 /\ confined = {} /\ raced = {}

-----------------------------------------------------------------------------
(* systemd.  A unit that is masked cannot be started.                      *)

Started(u) == [unit EXCEPT ![u].active = @ \/ ~unit[u].masked]

Command(u, k) ==
  unit' = CASE k = "restart" -> Started(u)
            [] k = "stop"    -> [unit EXCEPT ![u].active = FALSE]
            [] k = "disable" -> [unit EXCEPT ![u].enabled = FALSE]
            [] k = "mask"    -> [unit EXCEPT ![u].masked = TRUE]

StartedByOthers(u) == /\ unit' = Started(u)
                      /\ raced' = IF unit'[u].active THEN raced \cup {u} ELSE raced
                      /\ UNCHANGED <<pending, actions, confined>>

Exited(u) == /\ unit' = [unit EXCEPT ![u].active = FALSE]
             /\ UNCHANGED <<pending, actions, confined, raced>>

Boot == /\ unit' = [u \in Unit |-> [unit[u] EXCEPT !.active = unit[u].enabled /\ ~unit[u].masked]]
        /\ pending = Idle
        /\ UNCHANGED <<pending, actions, confined, raced>>

-----------------------------------------------------------------------------
(* SystemdControlEngine: one operation at a time, it is borrowed mutably.  *)

Recorded == actions < MaxActions /\ actions' = actions + 1

\* restart, stop or disable; a command that fails is recorded as a success.
Simple(u, k) == /\ pending = Idle
                /\ Command(u, k) \/ UNCHANGED unit
                /\ Recorded
                /\ UNCHANGED <<pending, confined, raced>>

\* The slice a unit is put into says nothing about whether it runs.
Isolate == /\ pending = Idle
           /\ Recorded
           /\ UNCHANGED <<unit, pending, confined, raced>>

Quarantine(u) == /\ pending = Idle
                 /\ actions < MaxActions
                 /\ pending' = [unit |-> u, left |-> 3, ok |-> TRUE]
                 /\ confined' = confined \ {u} /\ raced' = raced \ {u}
                 /\ UNCHANGED <<unit, actions>>

\* Mutant of Step: the unit is disabled twice and never masked.
Unmasked(left) == CASE left = 3 -> "stop" [] OTHER -> "disable"

Step(left) == CASE left = 3 -> "stop" [] left = 2 -> "disable" [] left = 1 -> "mask"

QuarantineStep ==
  /\ pending # Idle
  /\ \E ok \in BOOLEAN :
       /\ IF ok THEN Command(pending.unit, Step(pending.left)) ELSE UNCHANGED unit
       /\ IF pending.left > 1
          THEN /\ pending' = [pending EXCEPT !.left = @ - 1, !.ok = @ /\ ok]
               /\ UNCHANGED <<actions, confined>>
          ELSE /\ pending' = Idle
               /\ Recorded
               /\ confined' = IF ok /\ pending.ok THEN confined \cup {pending.unit}
                              ELSE confined
  /\ UNCHANGED raced

ServiceNext == \/ \E u \in Unit : StartedByOthers(u) \/ Exited(u) \/ Quarantine(u)
               \/ \E u \in Unit, k \in {"restart", "stop", "disable"} : Simple(u, k)
               \/ Isolate \/ Boot \/ QuarantineStep

ServiceSpec == ServiceInit /\ [][ServiceNext]_serviceVars
-----------------------------------------------------------------------------
(* A unit that was put under quarantine stays down over restarts of it and *)
(* boots of the host, unless somebody started it between the stop and the  *)
(* mask, which come in this order.                                         *)
QuarantinedStaysDown == \A u \in confined : unit[u].active => u \in raced

(* quarantine, a stop, disable and mask, leaves a unit that is down.       *)
QuarantinedIsDown == \A u \in confined : ~unit[u].active
=============================================================================
