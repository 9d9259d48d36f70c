------------------------------ MODULE ModeGate ------------------------------
(***************************************************************************)
(* The operational mode, from POST /api/config/mode to the gate in front of*)
(* the kernel: the API's request handlers, the database row, the NATS      *)
(* subject, the daemon's listener with its two atomics, and the runtime    *)
(* pipeline that loads both before it carries out a decision.              *)
(*                                                                         *)
(* NATS keeps the order of one publisher's messages and may lose any of    *)
(* them, on the way or with a subscriber that dies.  The two loads are     *)
(* Relaxed, so that they may happen in either order.                       *)
(***************************************************************************)
EXTENDS Naturals, Sequences, FiniteSets

CONSTANTS Mode,      \* the modes that requests ask for
          Request,   \* handlers of concurrent requests
          SafeEnv,   \* values of OMNISEC_SAFE_MODE, "unset" among them
          RecEnv,    \* is OMNISEC_RECOMMENDATION_ONLY "1"
          None,
          MaxMail    \* bound: messages waiting for the listener

ASSUME ModeAssumption ==
  /\ Mode \subseteq {"safe", "recommendation", "enforcement"}
  /\ SafeEnv \subseteq {"unset", "0", "1"} /\ RecEnv \subseteq BOOLEAN
  /\ None \notin Request /\ None \notin Mode /\ None \notin BOOLEAN
  /\ MaxMail \in Nat

VARIABLES
  safeEnv, recEnv,    \* the environment both services are started with
  apiMode,            \* AppState.operational_mode
  lock,               \* the request holding AppState's write lock
  pc, asked,          \* where each request is, and the mode it asks for
  dbMode,             \* state_config's operational_mode, None if it holds no mode
  mailbox,            \* mode changes on their way to the daemon
  listener,           \* the mode whose second flag is yet to be stored
  safe, rec,          \* safe_mode and recommendation_only
  reading,            \* the runtime pipeline is deciding whether it is gated
  sawSafe, sawRec,    \* what it has loaded so far, None before
  inForce, verdicts,  \* history: is gating asked for by the daemon's mode; the
                      \* answers for each mode in force during the current read
  told,               \* history: the daemon was sent the API's mode
  stored              \* history: so was the database, and what happened since

environment == <<safeEnv, recEnv>>
api    == <<apiMode, lock, pc, asked, dbMode, stored>>
flags  == <<listener, safe, rec, inForce>>
reader == <<reading, sawSafe, sawRec, verdicts>>
modeVars == <<environment, api, mailbox, flags, reader, told>>

Loaded == BOOLEAN \cup {None}

Gates(m)  == m # "enforcement"
SafeOf(m) == m \notin {"enforcement", "recommendation"}
RecOf(m)  == m = "recommendation"

\* Mutant of ModeOfEnv: the variable is taken to hold the name of a mode.
ModeIsEnv(e) == e

ModeOfEnv(e) == IF e = "0" THEN "enforcement" ELSE "safe"

AnyMode == Mode \cup {"safe", "enforcement"}

ModeTypeOK == /\ safeEnv \in SafeEnv /\ recEnv \in RecEnv
              /\ apiMode \in AnyMode
              /\ lock \in Request \cup {None}
              /\ pc \in [Request -> {"idle", "persist", "publish"}]
              /\ asked \in [Request -> Mode \cup {None}]
              /\ dbMode \in AnyMode \cup {None}
              /\ mailbox \in Seq(Mode) /\ Len(mailbox) <= MaxMail
              /\ listener \in Mode \cup {None}
              /\ safe \in BOOLEAN /\ rec \in BOOLEAN /\ inForce \in BOOLEAN
              /\ reading \in BOOLEAN /\ sawSafe \in Loaded /\ sawRec \in Loaded
              /\ told \in BOOLEAN
              /\ verdicts \subseteq BOOLEAN
              /\ stored \in {"never", "current", "restarted", "overwritten"}

ModeInit == /\ safeEnv \in SafeEnv /\ recEnv \in RecEnv
            /\ apiMode = ModeOfEnv(safeEnv)
            /\ lock = None
            /\ pc = [r \in Request |-> "idle"] /\ asked = [r \in Request |-> None]
            /\ dbMode = None /\ stored = "never"
            /\ mailbox = <<>>
            /\ listener = None
            /\ safe = (safeEnv = "1") /\ rec = recEnv /\ inForce = (safe \/ rec)
            /\ reading = FALSE /\ sawSafe = None /\ sawRec = None /\ verdicts = {}
            /\ told = TRUE

-----------------------------------------------------------------------------
(* set_operational_mode holds the write lock from the assignment of the    *)
(* mode over both awaits.                                                  *)

\* Mutant of Acquire: the lock is not held while the handler waits.
AcquireUnlocked(r, m) ==
  /\ pc[r] = "idle"
  /\ lock' = r
  /\ apiMode' = m
  /\ asked' = [asked EXCEPT ![r] = m]
  /\ pc' = [pc EXCEPT ![r] = "persist"]
  /\ UNCHANGED <<environment, dbMode, stored, mailbox, flags, reader, told>>

Acquire(r, m) ==
  /\ lock = None
  /\ lock' = r
  /\ apiMode' = m
  /\ asked' = [asked EXCEPT ![r] = m]
  /\ pc' = [pc EXCEPT ![r] = "persist"]
  /\ UNCHANGED <<environment, dbMode, stored, mailbox, flags, reader, told>>

\* The result of set_config is ignored; without a database it is not called.
Persist(r) ==
  /\ pc[r] = "persist"
  /\ pc' = [pc EXCEPT ![r] = "publish"]
  /\ \/ dbMode' = asked[r] /\ stored' = "current"
     \/ UNCHANGED dbMode /\ stored' = "never"
  /\ UNCHANGED <<environment, apiMode, lock, asked, mailbox, flags, reader, told>>

\* Refused, lost, or queued at the daemon: the handler answers "ok".
Publish(r) ==
  /\ pc[r] = "publish"
  /\ pc' = [pc EXCEPT ![r] = "idle"]
  /\ asked' = [asked EXCEPT ![r] = None]
  /\ lock' = None
  /\ \/ /\ Len(mailbox) < MaxMail
        /\ mailbox' = Append(mailbox, asked[r])
        /\ told' = TRUE
     \/ UNCHANGED mailbox /\ told' = FALSE
  /\ UNCHANGED <<environment, apiMode, dbMode, stored, flags, reader>>

\* set_config, POST /api/config/{key}, takes the read lock, so that no mode is
\* being set meanwhile, and writes any value to the row of the key; the mode
\* that the API shows stays, and the daemon is told nothing.
SetConfig(value) ==
  /\ lock = None
  /\ dbMode' = value
  /\ stored' = "overwritten"
  /\ UNCHANGED <<environment, apiMode, lock, pc, asked, mailbox, flags, reader, told>>

\* The mode of a restarted API is the environment's, not the database's.
ApiRestart ==
  /\ apiMode' = ModeOfEnv(safeEnv)
  /\ lock' = None
  /\ pc' = [r \in Request |-> "idle"] /\ asked' = [r \in Request |-> None]
  /\ told' = FALSE
  /\ stored' = IF stored = "current" THEN "restarted" ELSE stored
  /\ UNCHANGED <<environment, dbMode, mailbox, flags, reader>>

-----------------------------------------------------------------------------
(* The daemon's listener stores the two flags one after the other.         *)

ReceiveMode ==
  /\ listener = None
  /\ mailbox # <<>>
  /\ mailbox' = Tail(mailbox)
  /\ listener' = Head(mailbox)
  /\ safe' = SafeOf(Head(mailbox))
  /\ verdicts' = IF reading THEN verdicts \cup {Gates(Head(mailbox))} ELSE verdicts
  /\ UNCHANGED <<environment, api, rec, inForce, reading, sawSafe, sawRec, told>>

\* Mutant of StoreRec: the flag is set and never cleared.
RaiseRec == /\ listener # None
            /\ rec' = (rec \/ RecOf(listener))
            /\ inForce' = Gates(listener)
            /\ listener' = None
            /\ UNCHANGED <<environment, api, mailbox, safe, reader, told>>

StoreRec == /\ listener # None
            /\ rec' = RecOf(listener)
            /\ inForce' = Gates(listener)
            /\ listener' = None
            /\ UNCHANGED <<environment, api, mailbox, safe, reader, told>>

DaemonRestart ==
  /\ safe' = (safeEnv = "1") /\ rec' = recEnv /\ inForce' = (safe' \/ rec')
  /\ listener' = None
  /\ mailbox' = <<>>
  /\ reading' = FALSE /\ sawSafe' = None /\ sawRec' = None /\ verdicts' = {}
  /\ told' = FALSE
  /\ UNCHANGED <<environment, api>>

-----------------------------------------------------------------------------
(* The runtime pipeline and a decision: is_gated, then the kernel action.  *)

\* Mutant of BeginRead: safe_mode is read once for all decisions.
BeginReadCached ==
  /\ ~reading
  /\ reading' = TRUE
  /\ sawRec' = None
  /\ verdicts' = {inForce} \cup (IF listener = None THEN {} ELSE {Gates(listener)})
  /\ UNCHANGED <<environment, api, mailbox, flags, told, sawSafe>>

BeginRead ==
  /\ ~reading
  /\ reading' = TRUE
  /\ sawSafe' = None /\ sawRec' = None
  /\ verdicts' = {inForce} \cup (IF listener = None THEN {} ELSE {Gates(listener)})
  /\ UNCHANGED <<environment, api, mailbox, flags, told>>

LoadSafe == /\ reading /\ sawSafe = None
            /\ sawSafe' = safe
            /\ UNCHANGED <<environment, api, mailbox, flags, reading, sawRec,
                           verdicts, told>>

LoadRec == /\ reading /\ sawRec = None
           /\ sawRec' = rec
           /\ UNCHANGED <<environment, api, mailbox, flags, reading, sawSafe,
                          verdicts, told>>

GateShut == TRUE \in {sawSafe, sawRec}
GateOpen == sawSafe = FALSE /\ sawRec = FALSE

\* Block, restart and quarantine happen only where the gate is open.
CarryOut == /\ reading
            /\ GateShut \/ GateOpen
            /\ reading' = FALSE
            /\ UNCHANGED <<environment, api, mailbox, flags, sawSafe, sawRec,
                           verdicts, told>>

-----------------------------------------------------------------------------
ModeNext == \/ \E r \in Request : \/ \E m \in Mode : Acquire(r, m)
                                  \/ Persist(r) \/ Publish(r)
            \/ \E value \in AnyMode \cup {None} : SetConfig(value)
            \/ ApiRestart
            \/ ReceiveMode \/ StoreRec \/ DaemonRestart
            \/ BeginRead \/ LoadSafe \/ LoadRec \/ CarryOut

ModeSpec == ModeInit /\ [][ModeNext]_modeVars
-----------------------------------------------------------------------------
(* Once every message is handled, the daemon is in the mode the API shows, *)
(* provided the last change was not lost and neither restarted since: the  *)
(* changes reach the daemon in the order in which the API made them,       *)
(* however its handlers interleave, and no flag of an older mode is left.  *)
DaemonFollowsApi ==
  (lock = None /\ told /\ mailbox = <<>> /\ listener = None) =>
    safe = SafeOf(apiMode) /\ rec = RecOf(apiMode)

(* Between two requests the database has the API's mode, if the last write *)
(* of the row was the mode handler's and the API has not restarted since.  *)
DatabaseFollowsApi == (lock = None /\ stored = "current") => dbMode = apiMode

(* A decision is held back only if the daemon is in a mode that asks for it*)
(* at some moment while the decision is being handled.                     *)
HeldBackOnlyIfGated == (reading /\ GateShut) => TRUE \in verdicts

(* And it is carried out only if the daemon is in enforcement at some      *)
(* moment while the decision is being handled.                             *)
CarriedOutOnlyIfEnforcing == (reading /\ GateOpen) => FALSE \in verdicts

(* The mode that the mode handler wrote to the database, and nobody wrote  *)
(* over, survives restarts of the API.                                     *)
ModeSurvivesApiRestart ==
  (lock = None /\ stored \in {"current", "restarted"}) => dbMode = apiMode
=============================================================================
