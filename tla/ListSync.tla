------------------------------ MODULE ListSync ------------------------------
(***************************************************************************)
(* The dynamic enforcement lists of the API: handlers that change its      *)
(* memory under one lock and the database under another.  The daemon takes *)
(* its lists from the database when it starts (module Enforcement).        *)
(*                                                                         *)
(* Abstraction: of the four lists two stand for all: the block list, which *)
(* the API keeps in memory as well, and the allow list, which a removal    *)
(* leaves in memory; the lists of executables are those of the database.   *)
(***************************************************************************)
EXTENDS Naturals, FiniteSets

CONSTANTS Call,     \* requests the API handles at the same time
          Target,
          FreshList  \* entries a fresh list has

ASSUME ListAssumption == FreshList \subseteq Target

List == {"block", "allow"}

VARIABLES memory,   \* EnforcementManager of the API
          db,       \* state_enforcement_lists
          call,     \* what each handler has still to write to the database,
                    \* and (history) whether no other call was on the entry
          stored,   \* history: what the row was last made by a call that was
                    \* alone, "none" if another call or a failure came since
          shown     \* history: the same of the memory, for the block list

listVars == <<memory, db, call, stored, shown>>

Entry == List \X Target
Ended == [op |-> "none", list |-> "none", targets |-> {}, alone |-> TRUE]
Known3 == {"none", "in", "out"}

ListTypeOK ==
  /\ memory \in [List -> SUBSET Target] /\ db \in [List -> SUBSET Target]
  /\ call \in [Call -> [op : {"add", "remove", "sync"}, list : List,
                        targets : SUBSET Target, alone : BOOLEAN] \cup {Ended}]
  /\ stored \in [Entry -> Known3] /\ shown \in [Target -> Known3]

ListInit == /\ memory = [l \in List |-> FreshList]
            /\ db \in [List -> SUBSET Target]
            /\ call = [c \in Call |-> Ended]
            /\ stored = [e \in Entry |-> "none"] /\ shown = [t \in Target |-> "none"]

-----------------------------------------------------------------------------
Overlaps(c, l, targets) == call[c].list = l /\ call[c].targets \cap targets # {}

Begin(c, op, l, targets) ==
  /\ call[c] = Ended
  /\ call' = [b \in Call |->
       IF b = c THEN [op |-> op, list |-> l, targets |-> targets,
                      alone |-> \A a \in Call : ~Overlaps(a, l, targets)]
       ELSE [call[b] EXCEPT !.alone = @ /\ ~Overlaps(b, l, targets)]]
  /\ UNCHANGED <<db, stored>>

\* add_to_dynamic_list, the write lock.
BeginAdd(c, l, t) ==
  /\ Begin(c, "add", l, {t})
  /\ memory' = [memory EXCEPT ![l] = @ \cup {t}]
  /\ shown' = IF l = "block" THEN [shown EXCEPT ![t] = "none"] ELSE shown

\* Only the block list's removal reaches the memory.
RemovedFromMemory(l, t) ==
  IF l = "block" THEN [memory EXCEPT ![l] = @ \ {t}] ELSE memory

BeginRemove(c, l, t) ==
  /\ Begin(c, "remove", l, {t})
  /\ memory' = RemovedFromMemory(l, t)
  /\ shown' = IF l = "block" THEN [shown EXCEPT ![t] = "none"] ELSE shown

\* sync_dynamic_list: the database only, and nothing is taken off it.
BeginSync(c, l, targets) == /\ targets # {}
                            /\ Begin(c, "sync", l, targets)
                            /\ UNCHANGED <<memory, shown>>

\* Mutant of Rows: a row that is to go stays.
RowsKept(op, rows, t) == rows \cup {t}

Rows(op, rows, t) == IF op = "remove" THEN rows \ {t} ELSE rows \cup {t}

\* A row is written: of several entries one by one, in no transaction.
Write(c, t) ==
  /\ t \in call[c].targets
  /\ LET l   == call[c].list
         how == IF ~call[c].alone THEN "none"
                ELSE IF call[c].op = "remove" THEN "out" ELSE "in"
     IN /\ db' = [db EXCEPT ![l] = Rows(call[c].op, @, t)]
        /\ stored' = [stored EXCEPT ![<<l, t>>] = how]
        /\ shown' = IF l = "block" /\ call[c].op # "sync"
                    THEN [shown EXCEPT ![t] = how] ELSE shown
  /\ call' = [call EXCEPT ![c] = IF @.targets = {t} THEN Ended
                                 ELSE [call[c] EXCEPT !.targets = call[c].targets \ {t}]]
  /\ UNCHANGED memory

\* The statement fails: the call ends, with the answer it has in any case.
WriteFails(c) == /\ call[c] # Ended
                 /\ call' = [call EXCEPT ![c] = Ended]
                 /\ UNCHANGED <<memory, db, stored, shown>>

\* The calls end where they are, and the lists of the database are not read.
ApiRestart == /\ memory' = [l \in List |-> FreshList]
              /\ call' = [c \in Call |-> Ended]
              /\ shown' = [t \in Target |-> "none"]
              /\ UNCHANGED <<db, stored>>

ListNext == \/ \E c \in Call, l \in List, t \in Target : BeginAdd(c, l, t) \/ BeginRemove(c, l, t)
            \/ \E c \in Call, l \in List, targets \in SUBSET Target : BeginSync(c, l, targets)
            \/ \E c \in Call : WriteFails(c) \/ \E t \in Target : Write(c, t)
            \/ ApiRestart

ListSpec == ListInit /\ [][ListNext]_listVars
-----------------------------------------------------------------------------
(* A row is what the last call that was alone with it and did not fail has *)
(* made it, and the block list the API shows is what the last such addition *)
(* or removal has asked for, although no lock covers the two writes of a    *)
(* call: other calls come between them.                                     *)
ListsFollowTheCalls ==
  \A t \in Target :
    /\ \A l \in List : stored[<<l, t>>] # "none" =>
         (t \in db[l] <=> stored[<<l, t>>] = "in")
    /\ shown[t] # "none" => (t \in memory["block"] <=> shown[t] = "in")

(* What the API shows as blocked is what the daemon finds when it restarts. *)
MemoryIsDatabase == (\A c \in Call : call[c] = Ended) => memory["block"] \subseteq db["block"]
=============================================================================
