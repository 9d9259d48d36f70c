------------------------------ MODULE Detectors ------------------------------
(***************************************************************************)
(* The detectors of crates/reliability for one process: memory leak, CPU   *)
(* runaway, descriptor exhaustion, thread explosion and hang.  Their       *)
(* callers record samples and ask for a verdict whenever they like.        *)
(*                                                                         *)
(* Abstractions: each detector keeps samples of its own; here all are given*)
(* the same readings, of which those a verdict looks at are kept.  A       *)
(* reading has the seconds since the one before it, by a clock that may be *)
(* set back.  The work of a process is busy or not.                        *)
(***************************************************************************)
EXTENDS Integers, Sequences, FiniteSetsExt, SequencesExt

CONSTANTS Readings,      \* the readings that are enumerated
          Window,        \* window_size
          GrowthPct, GrowthLimit,   \* of the leak detector
          CpuPct, SustainedSecs, FdPct, ThreadPct, MaxThreads,
          RssNoise,      \* a change of the memory by no more means nothing
          HangAfter      \* ticks without a sample after which a process hangs

ASSUME DetectorAssumption ==
         /\ {GrowthPct, CpuPct, SustainedSecs, FdPct, ThreadPct, MaxThreads, RssNoise,
             HangAfter} \subseteq Nat
         /\ Window \in Nat \ {0} /\ GrowthLimit \in 1..Window
         /\ \A r \in Readings : r \in [rss : Nat, cpu : Nat, fds : Nat, fdLimit : Nat,
                                       threads : Nat, busy : BOOLEAN, gap : Int]

VARIABLES readings,   \* the last readings, at most one more than the window
          quiet,      \* ticks since the time the last one bears
          flags,      \* is_leaking, is_runaway, is_exhausted, is_exploded, is_hung
          judged      \* history: the flags are of these readings

detectorVars == <<readings, quiet, flags, judged>>

NoFlags == [leaking |-> FALSE, runaway |-> FALSE, exhausted |-> FALSE,
            exploded |-> FALSE, hung |-> FALSE]

DetectorTypeOK == /\ readings \in Seq(Readings) /\ Len(readings) <= Window + 1
                  /\ quiet \in 0..(HangAfter + 1)
                  /\ flags \in [DOMAIN NoFlags -> BOOLEAN] /\ judged \in BOOLEAN

DetectorInit == readings = <<>> /\ quiet = 0 /\ flags = NoFlags /\ judged = TRUE
-----------------------------------------------------------------------------
Size == Len(readings)

LastOne == readings[Size]

\* The oldest of the last Window readings, and the seconds from it to the last.
FirstOfWindow == readings[Size - Window + 1]
Duration == MapThenSumSet(LAMBDA i : readings[i].gap, (Size - Window + 2)..Size)

Grew(i) == readings[i].rss * 100 > readings[i - 1].rss * (100 + GrowthPct)

\* Mutant of CountGrowth: an interval without growth does not start anew.
CountGrowthAlways(n, i) == IF readings[i - 1].rss # 0 /\ Grew(i) THEN n + 1 ELSE n

\* detect_leak's loop: an interval that starts from nothing is passed over.
CountGrowth(n, i) == IF readings[i - 1].rss = 0 THEN n
                     ELSE IF Grew(i) THEN n + 1 ELSE 0

Leaking == FoldLeft(CountGrowth, 0, [k \in 1..Window |-> k + 1]) >= GrowthLimit

\* The duration is cast to an unsigned number: a negative one is a long one.
Sustained == Duration >= SustainedSecs \/ Duration < 0

\* With all readings above the threshold the average is above it, too.
Runaway == /\ Sustained
           /\ \A i \in (Size - Window + 1)..Size : readings[i].cpu > CpuPct

Exhausted == LastOne.fdLimit > 0 /\ LastOne.fds * 100 >= LastOne.fdLimit * FdPct

RapidGrowth == /\ FirstOfWindow.threads > 0 /\ Duration < 60
               /\ LastOne.threads * 100 > FirstOfWindow.threads * (100 + ThreadPct)

Exploded == RapidGrowth \/ LastOne.threads > MaxThreads

\* is_activity_significant: one reading alone is.
SignificantActivity ==
  Size < 2 \/ LastOne.busy
  \/ \E k \in {"fds", "threads"} : LastOne[k] # readings[Size - 1][k]
  \/ LastOne.rss \notin (readings[Size - 1].rss - RssNoise)..(readings[Size - 1].rss + RssNoise)

Hung == ~SignificantActivity /\ quiet > HangAfter

-----------------------------------------------------------------------------
\* record_sample of each detector.  A sample bears a time of its own, and may
\* be an old one.
RecordSample(r) ==
  /\ readings' = IF Size > Window THEN Append(Tail(readings), r) ELSE Append(readings, r)
  /\ quiet' \in {0, HangAfter + 1} /\ judged' = FALSE
  /\ UNCHANGED flags

Pause == /\ quiet <= HangAfter
         /\ quiet' = quiet + 1
         /\ UNCHANGED <<readings, flags, judged>>

\* Too few samples leave a flag as it is.
DetectLeak       == IF Size > Window THEN Leaking ELSE flags.leaking
DetectRunaway    == IF Size >= Window THEN Runaway ELSE flags.runaway
DetectExhaustion == IF Size > 0 THEN Exhausted ELSE flags.exhausted
DetectExplosion  == IF Size >= Window THEN Exploded ELSE flags.exploded
DetectHang       == IF Size > 0 THEN Hung ELSE flags.hung

Detect ==
  /\ flags' = [leaking |-> DetectLeak, runaway |-> DetectRunaway, exploded |-> DetectExplosion,
               exhausted |-> DetectExhaustion, hung |-> DetectHang]
  /\ judged' = TRUE
  /\ UNCHANGED <<readings, quiet>>

DetectorNext == (\E r \in Readings : RecordSample(r)) \/ Pause \/ Detect

DetectorSpec == DetectorInit /\ [][DetectorNext]_detectorVars
-----------------------------------------------------------------------------
(* A process leaks, by the verdict of detect_leak, exactly when its memory *)
(* grew in each of the last GrowthLimit intervals and a window is full,    *)
(* although the loop passes intervals over and starts at the window's      *)
(* oldest reading: earlier growth and readings of 0 count for nothing.     *)
LeakIsSteadyGrowth ==
  judged => (flags.leaking <=> /\ Len(readings) > Window
                               /\ \A i \in (Len(readings) - GrowthLimit + 1)..Len(readings) :
                                    readings[i - 1].rss # 0 /\ Grew(i))

(* cpu.rs: a runaway is sustained for the time given.                      *)
RunawayIsSustained == judged /\ flags.runaway => Duration >= SustainedSecs
=============================================================================
