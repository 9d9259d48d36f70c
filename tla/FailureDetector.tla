--------------------------- MODULE FailureDetector ---------------------------
(***************************************************************************)
(* What the health monitor promises to the tasks that act on its events:   *)
(* a process that is being watched is declared down only while the kernel  *)
(* has no entry for its pid, and is declared up again only once the kernel *)
(* has one.  How many checks that takes, and what the monitor remembers    *)
(* between them, is left to HealthMonitor, which implements this module.   *)
(*                                                                         *)
(* A pid is a slot of the kernel's process table: "free", "running", or    *)
(* "zombie" (exited, not yet waited for by its parent).                    *)
(***************************************************************************)
CONSTANT Pid

VARIABLES proc,     \* the kernel's process table
          watched,  \* pids the monitor has registered
          down      \* watched pids whose last verdict was "died"

vars == <<proc, watched, down>>

ProcState == {"free", "running", "zombie"}

TypeOK == /\ proc \in [Pid -> ProcState]
          /\ watched \subseteq Pid
          /\ down \subseteq watched

Init == /\ proc \in [Pid -> {"free", "running"}]
        /\ watched = {}
        /\ down = {}

-----------------------------------------------------------------------------
(* The kernel.  A pid that was freed may be given to another process.      *)

Start(p) == /\ proc[p] = "free"
            /\ proc' = [proc EXCEPT ![p] = "running"]
            /\ UNCHANGED <<watched, down>>

Exit(p) == /\ proc[p] = "running"
           /\ \E s \in {"free", "zombie"} : proc' = [proc EXCEPT ![p] = s]
           /\ UNCHANGED <<watched, down>>

Reap(p) == /\ proc[p] = "zombie"
           /\ proc' = [proc EXCEPT ![p] = "free"]
           /\ UNCHANGED <<watched, down>>

-----------------------------------------------------------------------------
(* The monitor.                                                            *)

Watch(p) == /\ watched' = watched \cup {p}
            /\ UNCHANGED <<proc, down>>

Unwatch(p) == /\ watched' = watched \ {p}
              /\ down' = down \ {p}
              /\ UNCHANGED proc

DeclareDown(p) == /\ p \in watched \ down
                  /\ proc[p] = "free"
                  /\ down' = down \cup {p}
                  /\ UNCHANGED <<proc, watched>>

DeclareUp(p) == /\ p \in down
                /\ proc[p] # "free"
                /\ down' = down \ {p}
                /\ UNCHANGED <<proc, watched>>

Next == \E p \in Pid : \/ Start(p) \/ Exit(p) \/ Reap(p)
                       \/ Watch(p) \/ Unwatch(p)
                       \/ DeclareDown(p) \/ DeclareUp(p)

Spec == Init /\ [][Next]_vars
=============================================================================
