--------------------------- MODULE RuntimePipeline ---------------------------
(***************************************************************************)
(* Task 8 of the daemon and crates/runtime: decisions that block a         *)
(* destination through nftables, the recovery engine that is to take the   *)
(* blocks back, and the file monitor.  One select! waits for a decision or *)
(* for a timer that each turn of the loop makes anew.                      *)
(*                                                                         *)
(* Abstractions: one kernel rule stands for all addresses of a destination;*)
(* a second rule or record for the same destination changes nothing, so    *)
(* that both are sets.  The timer is the runtime's own and counts in halves*)
(* of its period; blocks expire by the wall clock, which an administrator  *)
(* or NTP may set to any reading.  Task 8 blocks what DECISION_MADE names  *)
(* as destination; the daemon's own messages name none (module             *)
(* SecurityPipeline), so that a Block comes from another publisher.        *)
(***************************************************************************)
EXTENDS Naturals, Sequences, FiniteSets

CONSTANTS Dest, Path,
          Expiry,       \* ticks after which a block is to be taken back
          TimerPeriod,  \* ticks until the timer fires
          MaxBlocks,    \* bound: blocks ever registered for recovery
          MaxClock      \* bound: the last reading of the wall clock

\* The path of an event whose watch descriptor is not in the map: that of a
\* full queue is -1.
Unmapped == "wd:-1"

ASSUME RuntimeAssumption == /\ {Expiry, MaxBlocks, MaxClock} \subseteq Nat
                            /\ TimerPeriod \in Nat \ {0}
                            /\ Unmapped \notin Path

VARIABLES idle,         \* ticks since the loop last turned
          clock,        \* chrono::Utc::now()
          chain,        \* destinations with a drop rule in the kernel
          rules,        \* destinations with a record in NetworkBlockEngine
          recoverable,  \* RecoveryEngine's list: destination, expires_at, rolled_back
          watches,      \* paths inotify has a watch on
          fileEvents,   \* paths with an event that is not drained
          lifted        \* history: RUNTIME_ROLLBACK was published since the
                        \* destination was last blocked

time        == <<idle, clock>>
blocks      == <<chain, rules, recoverable>>
files       == <<watches, fileEvents>>
runtimeVars == <<time, blocks, files, lifted>>

Recoverable == [dest : Dest, expires : 0..(MaxClock + Expiry), done : BOOLEAN]

RuntimeTypeOK == /\ idle \in 0..TimerPeriod
                 /\ clock \in 0..MaxClock
                 /\ rules \subseteq Dest
                 /\ chain \subseteq Dest
                 /\ recoverable \in Seq(Recoverable)
                 /\ Len(recoverable) <= MaxBlocks
                 /\ watches \subseteq Path /\ fileEvents \subseteq Path \cup {Unmapped}
                 /\ lifted \subseteq Dest

\* The host has just booted: the kernel has no rule yet.
RuntimeInit == /\ idle = 0 /\ clock = 0
               /\ chain = {} /\ rules = {} /\ recoverable = <<>>
               /\ watches \in SUBSET Path /\ fileEvents = {}
               /\ lifted = {}

-----------------------------------------------------------------------------
(* nftables.                                                               *)

\* block_domain: the name may not resolve, or nft may fail; the record is
\* made in any case.
BlockDomain(d) == /\ \/ chain' = chain \cup {d}
                     \/ UNCHANGED chain
                  /\ rules' = rules \cup {d}

\* unblock lists the chain, deletes no rule from it, and drops the records.
Unblock(d) == /\ rules' = rules \ {d}
              /\ UNCHANGED <<time, chain, recoverable, files, lifted>>

-----------------------------------------------------------------------------
(* RecoveryEngine.                                                         *)

RegisterAction(d) ==
  recoverable' = Append(recoverable, [dest |-> d, expires |-> clock + Expiry, done |-> FALSE])

Expired(i) == ~recoverable[i].done /\ clock > recoverable[i].expires

ExpiredDests == {recoverable[i].dest : i \in {j \in DOMAIN recoverable : Expired(j)}}

\* auto_recover marks the first entry of an expired destination, be it the
\* expired one or not.
Marks(i) == /\ recoverable[i].dest \in ExpiredDests
            /\ \A j \in DOMAIN recoverable :
                 recoverable[j].dest = recoverable[i].dest => i <= j

Marked == [i \in DOMAIN recoverable |->
             IF Marks(i) THEN [recoverable[i] EXCEPT !.done = TRUE] ELSE recoverable[i]]

\* Mutant of AutoRecover: entries are published by their place in the list.
AutoRecoverByPlace ==
  /\ recoverable' = Marked
  /\ lifted' = lifted \cup {i \in DOMAIN recoverable : Expired(i)}

AutoRecover == /\ recoverable' = Marked
               /\ lifted' = lifted \cup ExpiredDests

-----------------------------------------------------------------------------
(* The file monitor.  The inotify thread sends each event into a channel;  *)
(* check_file_access adds its own to the same list.                        *)

FileAccess(p) == /\ p \in watches
                 /\ fileEvents' = fileEvents \cup {p}
                 /\ UNCHANGED <<time, blocks, watches, lifted>>

\* The kernel's queue is full: accesses are lost, and the event that says so
\* belongs to no watch.
QueueOverflow == /\ watches # {}
                 /\ fileEvents' = fileEvents \cup {Unmapped}
                 /\ UNCHANGED <<time, blocks, watches, lifted>>

\* The watch is on the file, not on its name: who replaces the file, as most
\* editors and package managers do, ends it; its end is an event as well.
Replaced(p) == /\ p \in watches
               /\ watches' = watches \ {p}
               /\ fileEvents' = fileEvents \cup {p}
               /\ UNCHANGED <<time, blocks, lifted>>

\* A read that fails ends the thread.
ReaderEnds == /\ watches # {}
              /\ watches' = {}
              /\ UNCHANGED <<time, blocks, fileEvents, lifted>>

CheckFileAccess(p) == /\ p \in Path
                      /\ fileEvents' = fileEvents \cup {p}
                      /\ UNCHANGED <<time, blocks, watches, lifted>>

-----------------------------------------------------------------------------
(* The two branches of the select!.                                        *)

\* A Block decision with a destination while the gate is open.
DecideBlock(d) == /\ Len(recoverable) < MaxBlocks
                  /\ BlockDomain(d)
                  /\ RegisterAction(d)
                  /\ lifted' = lifted \ {d}
                  /\ idle' = 0
                  /\ UNCHANGED <<clock, files>>

\* Any other decision, and any decision that is gated or has no destination.
DecideOther == /\ idle' = 0
               /\ UNCHANGED <<clock, blocks, files, lifted>>

\* Mutant of Periodic: the file monitor alone is served.
PeriodicWithoutRecovery == /\ idle = TimerPeriod
                           /\ idle' = 0
                           /\ fileEvents' = {}
                           /\ UNCHANGED <<clock, blocks, watches, lifted>>

Periodic == /\ idle = TimerPeriod
            /\ idle' = 0
            /\ AutoRecover
            /\ fileEvents' = {}
            /\ UNCHANGED <<clock, chain, rules, watches>>

\* Nothing is late: when the timer is due, the loop turns before time goes on.
Tick == /\ idle < TimerPeriod
        /\ idle' = idle + 1
        /\ clock' = IF clock < MaxClock THEN clock + 1 ELSE clock
        /\ UNCHANGED <<blocks, files, lifted>>

SetClock(t) == /\ clock' = t
               /\ UNCHANGED <<idle, blocks, files, lifted>>

\* The daemon ends and comes back.  Records and recovery list were in its
\* memory; the nftables chain is the kernel's, and initialize_table only adds
\* what is not there.  If it ended while it blocked a destination, the rule is
\* there and nothing else.
DaemonRestart == /\ chain' \in {chain} \cup {chain \cup {d} : d \in Dest}
                 /\ rules' = {} /\ recoverable' = <<>>
                 /\ watches' \in SUBSET Path /\ fileEvents' = {}
                 /\ idle' = 0
                 /\ UNCHANGED <<clock, lifted>>

-----------------------------------------------------------------------------
RuntimeNext == \/ \E d \in Dest : DecideBlock(d) \/ Unblock(d)
               \/ \E p \in Path : FileAccess(p) \/ Replaced(p) \/ CheckFileAccess(p)
               \/ QueueOverflow \/ ReaderEnds \/ DecideOther \/ Periodic \/ Tick
               \/ \E t \in 0..MaxClock : SetClock(t)
               \/ DaemonRestart

RuntimeSpec == RuntimeInit /\ [][RuntimeNext]_runtimeVars

(* Time passes.  select! takes a ready branch at random: the timer's branch *)
(* is taken in the end if it is due again and again, although a decision    *)
(* may be there at the same moment each time.                               *)
RuntimeFairness == WF_runtimeVars(Tick) /\ SF_runtimeVars(Periodic)

FairRuntimeSpec == RuntimeSpec /\ RuntimeFairness
-----------------------------------------------------------------------------
(* A block whose time is over is reported as rolled back in the end, unless*)
(* the clock is set back before or the daemon ends, and a file access is   *)
(* published, provided that the decisions pause for a whole period of the  *)
(* timer again and again.                                                  *)
Pauses == []<>(idle = TimerPeriod)

PeriodicWorkIsDone ==
  Pauses => /\ \A d \in Dest : d \in ExpiredDests ~> (d \in lifted \/ d \notin ExpiredDests)
            /\ \A p \in Path \cup {Unmapped} : p \in fileEvents ~> p \notin fileEvents

(* main.rs calls the timer's branch periodic: an expired block is taken     *)
(* back, however the decisions come.                                       *)
PeriodicRecovery ==
  \A d \in Dest : d \in ExpiredDests ~> (d \in lifted \/ d \notin ExpiredDests)

(* recovery.rs promises automatic unblocking: what is reported as rolled   *)
(* back is not blocked by the kernel any more.                             *)
LiftedIsUnblocked == lifted \cap chain = {}

(* Timed restrictions: a destination is reported as rolled back only when  *)
(* the time of each block of it is over, the latest included.              *)
LiftedOnlyAfterExpiry ==
  [][\A d \in lifted' \ lifted : \A i \in DOMAIN recoverable :
       recoverable[i].dest = d => clock > recoverable[i].expires]_runtimeVars

(* auto_recover takes back each action that has expired: after its round   *)
(* none is left to be reported again.                                      *)
RoundsRecoverAll == [][Periodic => ExpiredDests' = {}]_runtimeVars

(* Everything is reversible: recovery has an entry for each rule in the    *)
(* kernel.                                                                 *)
BlocksAreRecoverable ==
  \A d \in chain : \E i \in DOMAIN recoverable : recoverable[i].dest = d
=============================================================================
