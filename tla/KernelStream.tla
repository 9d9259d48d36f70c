---------------------------- MODULE KernelStream ----------------------------
(***************************************************************************)
(* Task 9 of the daemon: the sensor of crates/ebpf, by ring buffers or by  *)
(* scans of /proc, the discovery announcements, and AgentIdentityEngine,   *)
(* which both of them feed in whatever order select! takes them.           *)
(*                                                                         *)
(* Abstractions: of the events those that change an identity are kept; the *)
(* process tree, the lists of children and the pid history, which no       *)
(* service asks for, are left out.  An identity's number stands for its    *)
(* uuid.  The kernel's programs read at offset 8 what is not a pid: in the *)
(* record of an exit the first bytes of the process's name, in that of an  *)
(* exec the place of the file's name, on sys_enter the system call's       *)
(* number.  Taken for a pid, each may be any process's, or nobody's.       *)
(***************************************************************************)
EXTENDS Naturals, Sequences, FiniteSets

CONSTANTS Pid,
          MaxEvents,   \* the ring's size; bound of the channel
          MaxAnnounced,    \* bound of the channel of announcements
          MaxIds       \* bound of the identities

ASSUME KernelAssumption == /\ {MaxEvents, MaxAnnounced, MaxIds} \subseteq Nat
                           /\ IsFiniteSet(Pid) /\ Cardinality(Pid) <= MaxIds /\ "down" \notin Pid

Zero   == "pid 0"
Stray  == "no pid"     \* a number that is no process's
AllPid == Pid \cup {Zero, Stray}

VARIABLES process,      \* the parent of each process, "down" if there is none
          fallback,  \* load_programs: eBPF is not to be had
          prev,      \* the fallback's prev_pids
          events,    \* kernel_rx
          announced,     \* discovery_rx
          pidMap,    \* AgentIdentityEngine.pid_map, 0 for no entry
          ids,       \* AgentIdentityEngine.identities
          known,     \* AgentIdentityEngine.known_agent_pids
          unseen     \* history: registered while the sensor did not watch the
                     \* process, or its exit was lost

kernelVars == <<process, fallback, prev, events, announced, pidMap, ids, known, unseen>>
engine == <<pidMap, ids, known>>

Event == [kind : {"exec", "exit", "fork"}, pid : AllPid, ppid : AllPid]
Identity == [pid : AllPid, ppid : AllPid, parent : 0..MaxIds, depth : 0..MaxIds]

Sound(i) == LET up == ids[i].parent
            IN /\ up < i
               /\ ids[i].depth = IF up = 0 THEN 0 ELSE ids[up].depth + 1

KernelTypeOK ==
  /\ process \in [Pid -> AllPid \cup {"down"}] /\ fallback \in BOOLEAN /\ prev \subseteq Pid
  /\ events \in Seq(Event) /\ Len(events) <= MaxEvents
  /\ announced \in Seq(Pid) /\ Len(announced) <= MaxAnnounced
  /\ ids \in Seq(Identity) /\ Len(ids) <= MaxIds
  /\ \A i \in DOMAIN ids : Sound(i)
  /\ pidMap \in [AllPid -> 0..Len(ids)]
  /\ \A p \in AllPid : pidMap[p] # 0 => ids[pidMap[p]].pid = p
  /\ known \subseteq Pid /\ unseen \subseteq Pid

\* import_identities of what the database has of an earlier daemon.
Imported == {s \in UNION {[1..n -> Pid] : n \in 0..Cardinality(Pid)} :
               \A i, j \in DOMAIN s : s[i] = s[j] => i = j}

Root(p) == [pid |-> p, ppid |-> Zero, parent |-> 0, depth |-> 0]

KernelInit ==
  /\ process = [p \in Pid |-> "down"] /\ prev = {} /\ fallback \in BOOLEAN
  /\ events = <<>> /\ announced = <<>> /\ known = {} /\ unseen = {}
  /\ \E s \in Imported :
       /\ ids = [i \in DOMAIN s |-> Root(s[i])]
       /\ pidMap = [p \in AllPid |-> IF \E i \in DOMAIN s : s[i] = p
                                     THEN CHOOSE i \in DOMAIN s : s[i] = p ELSE 0]

-----------------------------------------------------------------------------
(* The kernel, its programs and the ring buffer's reader.                  *)

Running == {p \in Pid : process[p] # "down"}

\* A record that finds the ring full is dropped.
Emit(e) == IF ~fallback /\ Len(events) < MaxEvents THEN events' = Append(events, e)
           ELSE UNCHANGED events

\* sched_process_exec has no parent to tell, and reads r for the pid.
StartProcess(p, q, r) ==
  /\ process[p] = "down" /\ q \in Running \cup {Zero}
  /\ process' = [process EXCEPT ![p] = q]
  /\ Emit([kind |-> "exec", pid |-> r, ppid |-> Zero])
  /\ unseen' = IF fallback THEN unseen ELSE unseen \ {p}
  /\ UNCHANGED <<fallback, prev, announced, engine>>

Orphaned(p) == [q \in Pid |-> IF q = p THEN "down" ELSE IF process[q] = p THEN Zero ELSE process[q]]

\* sched_process_exit reads r for the pid.
ExitProcess(p, r) ==
  /\ process[p] # "down"
  /\ process' = Orphaned(p)
  /\ Emit([kind |-> "exit", pid |-> r, ppid |-> Zero])
  /\ unseen' = IF ~fallback /\ Len(events) = MaxEvents THEN unseen \cup {p} ELSE unseen
  /\ UNCHANGED <<fallback, prev, announced, engine>>

\* A process goes over to another program, or one of its threads ends: the
\* programs record these too.
OtherRecord(kind, r) ==
  /\ Running # {} /\ ~fallback /\ Len(events) < MaxEvents
  /\ events' = Append(events, [kind |-> kind, pid |-> r, ppid |-> Zero])
  /\ UNCHANGED <<process, fallback, prev, announced, engine, unseen>>

\* sys_enter_clone: no child's pid, and a system call for the parent's.
Clone(q) == /\ ~fallback /\ Len(events) < MaxEvents
            /\ events' = Append(events, [kind |-> "fork", pid |-> Zero, ppid |-> q])
            /\ UNCHANGED <<process, fallback, prev, announced, engine, unseen>>

-----------------------------------------------------------------------------
(* The fallback's scan.                                                    *)

Listings(S) == {s \in [1..Cardinality(S) -> S] : \A i, j \in DOMAIN s : s[i] = s[j] => i = j}

\* Mutant of Gone: a pid that is not listed is forgotten without an event.
NoneGone(listed) == prev \ (listed \cup prev)

Gone(listed) == prev \ listed

\* The processes new to the scan, in the order of a hash set, then those that
\* are gone.  A /proc that cannot be read is an empty one.
Scan ==
  /\ fallback
  /\ \E listed \in {Running, {}} :
       \E new \in Listings(listed \ prev), old \in Listings(Gone(listed)) :
         /\ events' = events \o [i \in DOMAIN new |-> [kind |-> "exec", pid |-> new[i],
                                                       ppid |-> process[new[i]]]]
                             \o [i \in DOMAIN old |-> [kind |-> "exit", pid |-> old[i],
                                                       ppid |-> Zero]]
         /\ Len(events') <= MaxEvents
         /\ prev' = listed
         /\ unseen' = unseen \ listed
  /\ UNCHANGED <<process, fallback, announced, engine>>

-----------------------------------------------------------------------------
(* AgentIdentityEngine.                                                    *)

ParentOf(q) == pidMap[q]

NewIdentity(p, q) ==
  /\ Len(ids) < MaxIds
  /\ ids' = Append(ids, [pid |-> p, ppid |-> q, parent |-> ParentOf(q),
                         depth |-> IF ParentOf(q) = 0 THEN 0 ELSE ids[ParentOf(q)].depth + 1])
  /\ pidMap' = [pidMap EXCEPT ![p] = Len(ids) + 1]

\* register_agent: a pid that has an identity keeps it.
RegisterAgent(p, q) ==
  /\ IF pidMap[p] # 0
     THEN ids' = [ids EXCEPT ![pidMap[p]].ppid = q] /\ UNCHANGED pidMap
     ELSE NewIdentity(p, q)
  /\ known' = known \cup {p}

\* record_exec: a process that is neither known nor a known one's child is
\* passed over.
RecordExec(p, q) ==
  /\ IF pidMap[p] = 0 /\ ParentOf(q) # 0 THEN NewIdentity(p, q) ELSE UNCHANGED <<pidMap, ids>>
  /\ UNCHANGED known

\* record_exit: the pid goes on to resolve to its identity.
RecordExit(p) == /\ known' = known \ {p}
                 /\ UNCHANGED <<pidMap, ids>>

\* record_fork: a new identity even for a pid that has one.
RecordFork(p, q) == /\ IF ParentOf(q) # 0 THEN NewIdentity(p, q) ELSE UNCHANGED <<pidMap, ids>>
                    /\ UNCHANGED known

-----------------------------------------------------------------------------
(* The discovery loop's messages and Task 9.                               *)

\* The field of /proc/<pid>/stat that is read for the parent is the name: an
\* announcement has no parent, and Task 9 takes 0 for it.
AnnounceProcess(p) == /\ p \in Running
                      /\ Len(announced) < MaxAnnounced
                      /\ announced' = Append(announced, p)
                      /\ UNCHANGED <<process, fallback, prev, events, engine, unseen>>

Watched(p) == IF fallback THEN p \in prev ELSE p \in Running

TakeAnnouncement ==
  /\ announced # <<>>
  /\ announced' = Tail(announced)
  /\ LET p == Head(announced)
     IN /\ RegisterAgent(p, Zero)
        /\ unseen' = IF Watched(p) THEN unseen ELSE unseen \cup {p}
  /\ UNCHANGED <<process, fallback, prev, events>>

TakeEvent ==
  /\ events # <<>>
  /\ events' = Tail(events)
  /\ LET e == Head(events)
     IN CASE e.kind = "exec" -> RecordExec(e.pid, e.ppid)
          [] e.kind = "exit" -> RecordExit(e.pid)
          [] e.kind = "fork" -> RecordFork(e.pid, e.ppid)
  /\ UNCHANGED <<process, fallback, prev, announced, unseen>>

KernelNext == \/ \E p \in Pid, q \in AllPid, r \in AllPid : StartProcess(p, q, r)
              \/ \E p \in Pid, r \in AllPid : ExitProcess(p, r)
              \/ \E kind \in {"exec", "exit"}, r \in AllPid : OtherRecord(kind, r)
              \/ \E p \in Pid : AnnounceProcess(p) \/ Clone(p)
              \/ Scan \/ TakeAnnouncement \/ TakeEvent

KernelSpec == KernelInit /\ [][KernelNext]_kernelVars
-----------------------------------------------------------------------------
\* The end of p will be told, is on its way, or was missed.
Told(p) == \/ Watched(p) \/ p \in unseen
           \/ \E i \in DOMAIN events : events[i].kind = "exit" /\ events[i].pid = p

(* With the scans, a pid that counts as an agent's is one whose end the    *)
(* sensor will tell, or has told; the others are those of announcements    *)
(* taken before a scan saw the process: they count as agents for ever.     *)
KnownAreWatched == fallback => \A p \in known : Told(p)

(* The list of tracepoints in ebpf-bpf has sched_process_exit for "process *)
(* exit events": with the ring too, only a record the ring had no room for *)
(* leaves an agent that has ended among the known.                         *)
EndsAreTold == \A p \in known : Told(p)

(* The comments of register_agent and record_exec: an agent with a parent  *)
(* is the child of a known agent; pid 0 is no agent.                       *)
ParentsAreAgents ==
  \A i \in DOMAIN ids : ids[i].parent # 0 => ids[ids[i].parent].pid # Zero

(* The comment on record_exit: a pid whose process has ended is no longer  *)
(* valid.                                                                  *)
ExitedPidsAreInvalid ==
  [][\A p \in Pid : (events # <<>> /\ Head(events) = [kind |-> "exit", pid |-> p, ppid |-> Zero]
                     /\ events' = Tail(events)) => pidMap'[p] = 0]_kernelVars
=============================================================================
