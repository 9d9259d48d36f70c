--------------------------- MODULE ModeGate_proofs ---------------------------
(***************************************************************************)
(* Proofs about the operational mode, for any number of concurrent requests*)
(* and any number of messages under way.                                   *)
(***************************************************************************)
EXTENDS ModeGate, TLAPS

\* The write lock is held by exactly the request that is under way, and what
\* that request persists and publishes is the mode of the API.
LockDiscipline ==
  \A r \in Request :
    /\ pc[r] # "idle" <=> lock = r
    /\ lock = r => asked[r] = apiMode /\ apiMode \in Mode

\* The same for a request that has written and not yet published.
DatabaseIsCurrent ==
  stored = "current" =>
    /\ lock = None => dbMode = apiMode
    /\ \A r \in Request : pc[r] = "publish" => dbMode = apiMode

\* The newest of the modes on their way to the two flags.
NewestIs(m) ==
  IF mailbox # <<>> THEN mailbox[Len(mailbox)] = m
  ELSE IF listener # None THEN listener = m
  ELSE safe = SafeOf(m) /\ rec = RecOf(m)

ApiModeIsUnderWay ==
  /\ lock = None /\ told => NewestIs(apiMode)
  /\ listener # None => safe = SafeOf(listener)

Inv == ModeTypeOK /\ LockDiscipline /\ DatabaseIsCurrent

-----------------------------------------------------------------------------
(* Types, the lock and the database.                                       *)

LEMMA InitInv == ModeInit => Inv
<1> SUFFICES ASSUME ModeInit PROVE Inv
  OBVIOUS
<1>1. safe \in BOOLEAN /\ rec \in BOOLEAN /\ inForce \in BOOLEAN
  BY ModeAssumption DEF ModeInit
<1>2. None \in Loaded
  BY DEF Loaded
<1>3. apiMode \in AnyMode
  BY DEF ModeInit, AnyMode, ModeOfEnv
<1>4. ModeTypeOK
  <2>1. mailbox \in Seq(Mode) /\ Len(mailbox) <= MaxMail
    BY ModeAssumption DEF ModeInit
  <2>2. /\ lock \in Request \cup {None}
        /\ pc \in [Request -> {"idle", "persist", "publish"}]
        /\ asked \in [Request -> Mode \cup {None}]
    BY DEF ModeInit
  <2>3. sawSafe \in Loaded /\ sawRec \in Loaded /\ reading \in BOOLEAN /\ told \in BOOLEAN
    BY <1>2 DEF ModeInit
  <2> QED BY <1>1, <1>3, <2>1, <2>2, <2>3 DEF ModeInit, ModeTypeOK
<1>5. LockDiscipline /\ DatabaseIsCurrent
  BY ModeAssumption DEF ModeInit, LockDiscipline, DatabaseIsCurrent
<1> QED BY <1>4, <1>5 DEF Inv

LEMMA NextInv == Inv /\ [ModeNext]_modeVars => Inv'
<1> SUFFICES ASSUME Inv, [ModeNext]_modeVars PROVE Inv'
  OBVIOUS
<1> USE ModeAssumption
    DEF Inv, ModeTypeOK, LockDiscipline, DatabaseIsCurrent, environment, api, flags, reader
<1>1. ASSUME NEW r \in Request, NEW m \in Mode, Acquire(r, m) PROVE Inv'
  BY <1>1 DEF Acquire, AnyMode
<1>2. ASSUME NEW r \in Request, Persist(r) PROVE Inv'
  BY <1>2 DEF Persist
<1>3. ASSUME NEW r \in Request, Publish(r) PROVE Inv'
  <2>1. lock = r /\ asked[r] \in Mode /\ asked[r] = apiMode
    BY <1>3 DEF Publish
  <2>2. mailbox' \in Seq(Mode) /\ Len(mailbox') <= MaxMail
    BY <1>3, <2>1 DEF Publish
  <2>3. ModeTypeOK'
    BY <1>3, <2>2 DEF Publish
  <2>4. LockDiscipline' /\ DatabaseIsCurrent'
    BY <1>3, <2>1 DEF Publish
  <2> QED BY <2>3, <2>4
<1>4. CASE ApiRestart
  <2>1. apiMode' \in AnyMode /\ stored' # "current"
    BY <1>4 DEF ApiRestart, AnyMode, ModeOfEnv
  <2>2. /\ UNCHANGED <<environment, dbMode, mailbox, flags, reader>>
        /\ lock' \in Request \cup {None} /\ told' \in BOOLEAN
        /\ pc' \in [Request -> {"idle", "persist", "publish"}]
        /\ asked' \in [Request -> Mode \cup {None}]
        /\ stored' \in {"never", "current", "restarted", "overwritten"}
    BY <1>4 DEF ApiRestart
  <2>4. ModeTypeOK'
    BY <2>1, <2>2
  <2>3. LockDiscipline' /\ DatabaseIsCurrent'
    BY <1>4, <2>1 DEF ApiRestart
  <2> QED BY <2>3, <2>4
<1>5. CASE ReceiveMode
  <2>1. mailbox' \in Seq(Mode) /\ Len(mailbox') <= MaxMail /\ Head(mailbox) \in Mode
    BY <1>5 DEF ReceiveMode
  <2> QED BY <1>5, <2>1 DEF ReceiveMode, SafeOf, Gates
<1>6. CASE StoreRec
  BY <1>6 DEF StoreRec, RecOf, Gates
<1>7. CASE DaemonRestart
  <2>1. safe' \in BOOLEAN /\ rec' \in BOOLEAN /\ inForce' \in BOOLEAN
    BY <1>7 DEF DaemonRestart
  <2>2. UNCHANGED <<environment, api>> /\ told' = FALSE /\ reading' = FALSE
        /\ sawSafe' = None /\ sawRec' = None /\ verdicts' = {}
        /\ listener' = None /\ mailbox' = <<>>
    BY <1>7 DEF DaemonRestart
  <2>3. None \in Loaded
    BY DEF Loaded
  <2>4. mailbox' \in Seq(Mode) /\ Len(mailbox') <= MaxMail
    BY <2>2
  <2>5. /\ sawSafe' \in Loaded /\ sawRec' \in Loaded /\ reading' \in BOOLEAN
        /\ told' \in BOOLEAN /\ verdicts' \subseteq BOOLEAN
    BY <2>2, <2>3
  <2>6. ModeTypeOK'
    BY <2>1, <2>2, <2>4, <2>5
  <2>7. LockDiscipline' /\ DatabaseIsCurrent'
    BY <2>2
  <2> QED BY <2>6, <2>7
<1>8. CASE BeginRead
  BY <1>8 DEF BeginRead, Loaded, Gates
<1>9. CASE LoadSafe \/ LoadRec \/ CarryOut
  <2>1. sawSafe' \in Loaded /\ sawRec' \in Loaded /\ reading' \in BOOLEAN
    BY <1>9 DEF LoadSafe, LoadRec, CarryOut, Loaded
  <2>2. UNCHANGED <<environment, api, mailbox, flags, verdicts, told>>
    BY <1>9 DEF LoadSafe, LoadRec, CarryOut
  <2> QED BY <2>1, <2>2
<1>10. ASSUME NEW value \in AnyMode \cup {None}, SetConfig(value) PROVE Inv'
  BY <1>10 DEF SetConfig
<1>11. CASE UNCHANGED modeVars
  BY <1>11 DEF modeVars
<1> QED BY <1>1, <1>2, <1>3, <1>4, <1>5, <1>6, <1>7, <1>8, <1>9, <1>10, <1>11 DEF ModeNext

LEMMA InvHolds == ModeSpec => []Inv
BY InitInv, NextInv, PTL DEF ModeSpec

(* Type correctness of the mode and its gate.                              *)
THEOREM TypeCorrectness == ModeSpec => []ModeTypeOK
<1>1. Inv => ModeTypeOK
  BY DEF Inv
<1> QED BY <1>1, InvHolds, PTL

(* Between two requests the database has the mode of the API, if the mode  *)
(* handler wrote the row last and the API has not restarted since.         *)
THEOREM DatabaseFollows == ModeSpec => []DatabaseFollowsApi
<1>1. Inv => DatabaseFollowsApi
  BY DEF Inv, DatabaseIsCurrent, DatabaseFollowsApi
<1> QED BY <1>1, InvHolds, PTL

-----------------------------------------------------------------------------
(* The mode changes arrive in the order in which the API makes them.       *)

LEMMA InitUnderWay ==
  ASSUME SafeEnv \subseteq {"0", "1"}, RecEnv = {FALSE}
  PROVE  ModeInit => ApiModeIsUnderWay
<1> SUFFICES ASSUME ModeInit PROVE ApiModeIsUnderWay
  OBVIOUS
<1>1. /\ mailbox = <<>> /\ listener = None
      /\ apiMode = IF safeEnv = "0" THEN "enforcement" ELSE "safe"
      /\ safeEnv \in {"0", "1"}
      /\ safe = (safeEnv = "1")
      /\ rec = FALSE
  BY DEF ModeInit, ModeOfEnv
<1>2. safe = SafeOf(apiMode) /\ rec = RecOf(apiMode)
  <2>1. CASE safeEnv = "0"
    BY <1>1, <2>1 DEF SafeOf, RecOf
  <2>2. CASE safeEnv = "1"
    BY <1>1, <2>2 DEF SafeOf, RecOf
  <2> QED BY <1>1, <2>1, <2>2
<1> QED BY <1>1, <1>2 DEF ApiModeIsUnderWay, NewestIs

LEMMA NextUnderWay ==
  Inv /\ ApiModeIsUnderWay /\ [ModeNext]_modeVars => ApiModeIsUnderWay'
<1> SUFFICES ASSUME Inv, ApiModeIsUnderWay, [ModeNext]_modeVars PROVE ApiModeIsUnderWay'
  OBVIOUS
<1> USE ModeAssumption DEF environment, api, flags, reader
<1>0. mailbox \in Seq(Mode) /\ None \notin Mode /\ None \notin Request
  BY DEF Inv, ModeTypeOK
<1>1. ASSUME NEW r \in Request, NEW m \in Mode, Acquire(r, m)
      PROVE  ApiModeIsUnderWay'
  BY <1>0, <1>1 DEF Acquire, ApiModeIsUnderWay
<1>2. ASSUME NEW r \in Request, Persist(r) PROVE ApiModeIsUnderWay'
  BY <1>2 DEF Persist, ApiModeIsUnderWay, NewestIs
<1>3. ASSUME NEW r \in Request, Publish(r) PROVE ApiModeIsUnderWay'
  <2>1. asked[r] = apiMode /\ asked[r] \in Mode
    BY <1>3 DEF Publish, Inv, LockDiscipline
  <2>2. UNCHANGED <<apiMode, listener, safe, rec>>
    BY <1>3 DEF Publish
  <2>3. CASE told' = FALSE
    BY <2>2, <2>3 DEF ApiModeIsUnderWay
  <2>4. CASE mailbox' = Append(mailbox, asked[r])
    <3>1. mailbox' # <<>> /\ mailbox'[Len(mailbox')] = apiMode
      BY <1>0, <2>1, <2>4
    <3> QED BY <2>2, <3>1 DEF ApiModeIsUnderWay, NewestIs
  <2> QED BY <1>3, <2>3, <2>4 DEF Publish
<1>4. CASE ApiRestart \/ DaemonRestart
  BY <1>4 DEF ApiRestart, DaemonRestart, ApiModeIsUnderWay
<1>5. CASE ReceiveMode
  <2>1. /\ mailbox # <<>> /\ mailbox' = Tail(mailbox) /\ listener' = Head(mailbox)
        /\ safe' = SafeOf(Head(mailbox))
        /\ UNCHANGED <<apiMode, lock, told>>
    BY <1>5 DEF ReceiveMode
  <2>2. Head(mailbox) \in Mode
    BY <1>0, <2>1
  <2>3. CASE mailbox' = <<>>
    <3>1. Len(mailbox) = 1
      <4>1. Len(mailbox') = Len(mailbox) - 1
        BY <1>0, <2>1
      <4>2. Len(mailbox) \in Nat
        BY <1>0
      <4>3. Len(mailbox') = 0
        BY <2>3
      <4> QED BY <4>1, <4>2, <4>3
    <3>2. mailbox[Len(mailbox)] = Head(mailbox)
      BY <1>0, <2>1, <3>1
    <3> QED BY <1>0, <2>1, <2>2, <2>3, <3>2 DEF ApiModeIsUnderWay, NewestIs
  <2>4. CASE mailbox' # <<>>
    <3>1. mailbox'[Len(mailbox')] = mailbox[Len(mailbox)]
      BY <1>0, <2>1, <2>4
    <3> QED BY <2>1, <2>4, <3>1 DEF ApiModeIsUnderWay, NewestIs
  <2> QED BY <2>3, <2>4
<1>6. CASE StoreRec
  BY <1>6 DEF StoreRec, ApiModeIsUnderWay, NewestIs
<1>7. CASE BeginRead \/ LoadSafe \/ LoadRec \/ CarryOut \/ UNCHANGED modeVars
  <2>1. UNCHANGED <<apiMode, lock, told, mailbox, listener, safe, rec>>
    BY <1>7 DEF BeginRead, LoadSafe, LoadRec, CarryOut, modeVars
  <2> QED BY <2>1 DEF ApiModeIsUnderWay, NewestIs
<1>8. ASSUME NEW value \in AnyMode \cup {None}, SetConfig(value)
      PROVE  ApiModeIsUnderWay'
  BY <1>8 DEF SetConfig, ApiModeIsUnderWay, NewestIs
<1> QED BY <1>1, <1>2, <1>3, <1>4, <1>5, <1>6, <1>7, <1>8 DEF ModeNext

(* Once every message is handled, the daemon is in the mode the API shows, *)
(* for services that are started with a value of OMNISEC_SAFE_MODE.        *)
THEOREM DaemonFollows ==
  ASSUME SafeEnv \subseteq {"0", "1"}, RecEnv = {FALSE}
  PROVE  ModeSpec => []DaemonFollowsApi
<1>1. ApiModeIsUnderWay => DaemonFollowsApi
  BY DEF ApiModeIsUnderWay, NewestIs, DaemonFollowsApi
<1> QED BY <1>1, InvHolds, InitUnderWay, NextUnderWay, PTL DEF ModeSpec

-----------------------------------------------------------------------------
(* With two modes the flag recommendation_only stays down, and the other   *)
(* one alone says what mode is in force.                                   *)
OneFlag ==
  /\ rec = FALSE /\ sawRec \in {None, FALSE}
  /\ listener = None => safe = inForce
  /\ listener # None => listener \in Mode /\ safe = Gates(listener)
  /\ reading => safe \in verdicts /\ (sawSafe = None \/ sawSafe \in verdicts)

LEMMA TwoModes ==
  ASSUME Mode \subseteq {"safe", "enforcement"}, NEW m \in Mode
  PROVE  SafeOf(m) = Gates(m) /\ RecOf(m) = FALSE
<1>1. m = "safe" \/ m = "enforcement"
  OBVIOUS
<1>2. CASE m = "safe"
  BY <1>2 DEF SafeOf, Gates, RecOf
<1>3. CASE m = "enforcement"
  BY <1>3 DEF SafeOf, Gates, RecOf
<1> QED BY <1>1, <1>2, <1>3

LEMMA InitOneFlag ==
  ASSUME RecEnv = {FALSE}
  PROVE  ModeInit => OneFlag
<1> SUFFICES ASSUME ModeInit PROVE OneFlag
  OBVIOUS
<1>1. rec = FALSE
  BY DEF ModeInit
<1>2. safe \in BOOLEAN /\ inForce = safe
  BY <1>1 DEF ModeInit
<1> QED BY <1>1, <1>2 DEF ModeInit, OneFlag

LEMMA NextOneFlag ==
  ASSUME Mode \subseteq {"safe", "enforcement"}, RecEnv = {FALSE}
  PROVE  Inv /\ OneFlag /\ [ModeNext]_modeVars => OneFlag'
<1> SUFFICES ASSUME Inv, OneFlag, [ModeNext]_modeVars PROVE OneFlag'
  OBVIOUS
<1> USE DEF environment, api, flags, reader
<1>1. ASSUME NEW r \in Request,
             Persist(r) \/ Publish(r) \/ \E m \in Mode : Acquire(r, m)
      PROVE  UNCHANGED <<flags, reader>>
  BY <1>1 DEF Acquire, Persist, Publish
<1>2. CASE UNCHANGED <<flags, reader>>
  BY <1>2 DEF OneFlag
<1>3. CASE ReceiveMode
  <2> DEFINE m == Head(mailbox)
  <2>1. m \in Mode
    BY <1>3 DEF ReceiveMode, Inv, ModeTypeOK
  <2>2. /\ listener' = m /\ safe' = SafeOf(m)
        /\ verdicts' = IF reading THEN verdicts \cup {Gates(m)} ELSE verdicts
        /\ UNCHANGED <<rec, reading, sawSafe, sawRec>>
    BY <1>3 DEF ReceiveMode
  <2>3. safe' = Gates(m) /\ m # None
    BY <2>1, <2>2, TwoModes, ModeAssumption
  <2> HIDE DEF m
  <2> QED BY <2>1, <2>2, <2>3 DEF OneFlag
<1>4. CASE StoreRec
  <2>1. listener \in Mode
    BY <1>4 DEF StoreRec, OneFlag
  <2>2. rec' = FALSE
    BY <1>4, <2>1, TwoModes DEF StoreRec
  <2>3. safe' = inForce' /\ listener' = None /\ UNCHANGED <<safe, reader>>
    BY <1>4 DEF StoreRec, OneFlag
  <2> QED BY <2>2, <2>3 DEF OneFlag
<1>5. CASE DaemonRestart
  <2>1. rec' = FALSE
    BY <1>5 DEF DaemonRestart, Inv, ModeTypeOK
  <2>2. safe' \in BOOLEAN /\ inForce' = safe'
    BY <1>5, <2>1 DEF DaemonRestart
  <2> QED BY <1>5, <2>1, <2>2 DEF DaemonRestart, OneFlag
<1>6. CASE BeginRead
  BY <1>6 DEF BeginRead, OneFlag
<1>7. CASE LoadSafe
  BY <1>7 DEF LoadSafe, OneFlag
<1>8. CASE LoadRec
  BY <1>8 DEF LoadRec, OneFlag
<1>9. CASE CarryOut
  BY <1>9 DEF CarryOut, OneFlag
<1>10. CASE ApiRestart \/ UNCHANGED modeVars
  <2>1. UNCHANGED <<flags, reader>>
    BY <1>10 DEF ApiRestart, modeVars
  <2> QED BY <1>2, <2>1
<1>11. ASSUME NEW value \in AnyMode \cup {None}, SetConfig(value)
       PROVE  UNCHANGED <<flags, reader>>
  BY <1>11 DEF SetConfig
<1> QED
  BY <1>1, <1>2, <1>3, <1>4, <1>5, <1>6, <1>7, <1>8, <1>9, <1>10, <1>11 DEF ModeNext

(* While only safe mode is switched on and off, a decision is carried out  *)
(* only if the daemon is in enforcement while the decision is handled.     *)
THEOREM CarriedOutInEnforcement ==
  ASSUME Mode \subseteq {"safe", "enforcement"}, RecEnv = {FALSE}
  PROVE  ModeSpec => []CarriedOutOnlyIfEnforcing
<1>1. OneFlag => CarriedOutOnlyIfEnforcing
  BY ModeAssumption DEF OneFlag, GateOpen, CarriedOutOnlyIfEnforcing
<1> QED BY <1>1, InvHolds, InitOneFlag, NextOneFlag, PTL DEF ModeSpec

-----------------------------------------------------------------------------
(* Whatever the modes are, a flag that is up was put up for a mode that    *)
(* gates, and a decision under way counts that mode among its verdicts.    *)
FlagsAreAskedFor ==
  /\ listener = None => inForce = (safe \/ rec)
  /\ rec => inForce
  /\ listener # None => listener \in Mode /\ safe = SafeOf(listener)
  /\ reading =>
       /\ safe \/ rec \/ sawSafe = TRUE \/ sawRec = TRUE => TRUE \in verdicts
       /\ listener # None => Gates(listener) \in verdicts

LEMMA GatingModes ==
  ASSUME NEW m \in Mode
  PROVE  Gates(m) = (SafeOf(m) \/ RecOf(m))
<1>1. m = "safe" \/ m = "recommendation" \/ m = "enforcement"
  BY ModeAssumption
<1>2. CASE m = "safe"
  BY <1>2 DEF SafeOf, Gates, RecOf
<1>3. CASE m = "recommendation"
  BY <1>3 DEF SafeOf, Gates, RecOf
<1>4. CASE m = "enforcement"
  BY <1>4 DEF SafeOf, Gates, RecOf
<1> QED BY <1>1, <1>2, <1>3, <1>4

LEMMA NextAskedFor == Inv /\ FlagsAreAskedFor /\ [ModeNext]_modeVars => FlagsAreAskedFor'
<1> SUFFICES ASSUME Inv, FlagsAreAskedFor, [ModeNext]_modeVars PROVE FlagsAreAskedFor'
  OBVIOUS
<1> USE DEF environment, api, flags, reader
<1>1. CASE UNCHANGED <<flags, reader>>
  BY <1>1 DEF FlagsAreAskedFor
<1>2. ASSUME NEW r \in Request,
             Persist(r) \/ Publish(r) \/ \E m \in Mode : Acquire(r, m)
      PROVE  UNCHANGED <<flags, reader>>
  BY <1>2 DEF Acquire, Persist, Publish
<1>3. CASE ReceiveMode
  <2> DEFINE m == Head(mailbox)
  <2>1. m \in Mode
    BY <1>3 DEF ReceiveMode, Inv, ModeTypeOK
  <2>2. /\ listener' = m /\ safe' = SafeOf(m) /\ listener = None
        /\ verdicts' = IF reading THEN verdicts \cup {Gates(m)} ELSE verdicts
        /\ UNCHANGED <<rec, inForce, reading, sawSafe, sawRec>>
    BY <1>3 DEF ReceiveMode
  <2>3. m # None /\ Gates(m) = (SafeOf(m) \/ RecOf(m))
    BY <2>1, GatingModes, ModeAssumption
  <2>4. Gates(m) \in BOOLEAN
    BY DEF Gates
  <2>5. SafeOf(m) => Gates(m) = TRUE
    BY <2>3, <2>4
  <2> HIDE DEF m
  <2> QED BY <2>1, <2>2, <2>3, <2>5 DEF FlagsAreAskedFor
<1>4. CASE StoreRec
  <2>1. /\ listener \in Mode /\ safe = SafeOf(listener)
        /\ rec' = RecOf(listener) /\ inForce' = Gates(listener) /\ listener' = None
        /\ UNCHANGED <<safe, reader>>
    BY <1>4 DEF StoreRec, FlagsAreAskedFor
  <2>2. Gates(listener) = (SafeOf(listener) \/ RecOf(listener)) /\ Gates(listener) \in BOOLEAN
    BY <2>1, GatingModes DEF Gates
  <2>3. RecOf(listener) => Gates(listener) = TRUE
    BY <2>2
  <2>4. reading => Gates(listener) \in verdicts
    BY <1>4 DEF StoreRec, FlagsAreAskedFor
  <2> QED BY <2>1, <2>2, <2>3, <2>4 DEF FlagsAreAskedFor
<1>5. CASE DaemonRestart
  BY <1>5 DEF DaemonRestart, FlagsAreAskedFor
<1>6. CASE BeginRead
  <2>1. /\ verdicts' = {inForce} \cup (IF listener = None THEN {} ELSE {Gates(listener)})
        /\ sawSafe' = None /\ sawRec' = None
        /\ UNCHANGED flags
    BY <1>6 DEF BeginRead
  <2>2. sawSafe' # TRUE /\ sawRec' # TRUE
    BY <2>1, ModeAssumption
  <2>3. inForce => inForce = TRUE
    BY DEF Inv, ModeTypeOK
  <2>4. ASSUME safe \/ rec PROVE TRUE \in verdicts'
    <3>1. CASE listener = None
      BY <2>1, <2>3, <2>4, <3>1 DEF FlagsAreAskedFor
    <3>2. CASE listener # None /\ rec
      BY <2>1, <2>3, <3>2 DEF FlagsAreAskedFor
    <3>3. CASE listener # None /\ safe
      <4>1. listener \in Mode /\ SafeOf(listener)
        BY <3>3 DEF FlagsAreAskedFor
      <4>2. Gates(listener) \in BOOLEAN
        BY DEF Gates
      <4>3. Gates(listener) = TRUE
        BY <4>1, <4>2, GatingModes
      <4> QED BY <2>1, <3>3, <4>3
    <3> QED BY <2>4, <3>1, <3>2, <3>3
  <2> QED BY <2>1, <2>2, <2>4 DEF FlagsAreAskedFor
<1>7. CASE LoadSafe \/ LoadRec \/ CarryOut
  <2>1. reading' => reading
    BY <1>7 DEF LoadSafe, LoadRec, CarryOut
  <2>2. UNCHANGED <<flags, verdicts>>
    BY <1>7 DEF LoadSafe, LoadRec, CarryOut
  <2>3. sawSafe' = TRUE => safe \/ sawSafe = TRUE
    BY <1>7 DEF LoadSafe, LoadRec, CarryOut
  <2>4. sawRec' = TRUE => rec \/ sawRec = TRUE
    BY <1>7 DEF LoadSafe, LoadRec, CarryOut
  <2> QED BY <2>1, <2>2, <2>3, <2>4 DEF FlagsAreAskedFor
<1>8. CASE ApiRestart \/ UNCHANGED modeVars
  <2>1. UNCHANGED <<flags, reader>>
    BY <1>8 DEF ApiRestart, modeVars
  <2> QED BY <1>1, <2>1
<1>9. ASSUME NEW value \in AnyMode \cup {None}, SetConfig(value)
      PROVE  UNCHANGED <<flags, reader>>
  BY <1>9 DEF SetConfig
<1> QED BY <1>1, <1>2, <1>3, <1>4, <1>5, <1>6, <1>7, <1>8, <1>9 DEF ModeNext

(* A decision is held back only if the daemon is in a mode that asks for it*)
(* while the decision is handled, whatever the modes and the environment.  *)
THEOREM HeldBackInGatedModes == ModeSpec => []HeldBackOnlyIfGated
<1>1. ModeInit => FlagsAreAskedFor
  BY DEF ModeInit, FlagsAreAskedFor, flags, reader
<1>2. FlagsAreAskedFor => HeldBackOnlyIfGated
  BY DEF FlagsAreAskedFor, GateShut, HeldBackOnlyIfGated
<1> QED BY <1>1, <1>2, InvHolds, NextAskedFor, PTL DEF ModeSpec
=============================================================================
