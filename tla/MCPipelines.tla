------------------------------ MODULE MCPipelines ------------------------------
(***************************************************************************)
(* The small instances of the parts that do not share state: the initial   *)
(* state chooses one of them, and only that one takes steps.               *)
(***************************************************************************)
EXTENDS Enforcement, SecurityPipeline, Correlation, Containment,
        ServiceControl, AlertManager, ResponseCache, ListSync, KernelStream,
        Detectors

VARIABLE part

vars == <<part, enfVars, secVars, corVars, containVars, serviceVars, alertVars,
          cacheVars, listVars, kernelVars, detectorVars>>

-----------------------------------------------------------------------------
\* A Block and a Restart by the default policy.
MCSamples ==
  { [risk |-> 90, type |-> "NewDestination", dest |-> "none", far |-> FALSE, multi |-> FALSE],
    [risk |-> 50, type |-> "FingerprintDrift", dest |-> "new", far |-> FALSE, multi |-> FALSE] }

\* Each agent is quiet, idle with a high risk, or far above the others.
Kind(rate, risk, dests, active) ==
  [rateIn |-> rate, rateOut |-> rate, risk |-> risk, dests |-> dests, active |-> active]
MCSnapshots == [Agent -> {Kind(0, 10, {}, TRUE), Kind(0, 60, {}, FALSE), Kind(9000, 60, Endpoint, TRUE)}]

\* A process that grows, one that is idle with few descriptors and many
\* threads, one whose figures cannot be read while the clock is set back, and
\* one that grows on.
Reading(rss, cpu, fds, limit, threads, busy, gap) ==
  [rss |-> rss, cpu |-> cpu, fds |-> fds, fdLimit |-> limit, threads |-> threads,
   busy |-> busy, gap |-> gap]
MCReadings == { Reading(2, 90, 9, 10, 1, TRUE, 30), Reading(3, 10, 1, 10, 4, FALSE, 20),
                Reading(0, 90, 0, 0, 1, FALSE, -80), Reading(4, 90, 9, 10, 2, FALSE, 30) }

-----------------------------------------------------------------------------
PartNames == {"enforcement", "security", "correlation", "containment", "service",
          "alert", "cache", "list", "kernel", "detector"}

Init == /\ part \in PartNames
        /\ EnforcementInit /\ (part = "enforcement" \/ blockList = Defaults)
        /\ SecurityInit    /\ (part = "security" \/ ~gated)
        /\ CorrelationInit
        /\ ContainmentInit /\ (part = "containment" \/ \A p \in TargetPid : proc[p] = "none")
        /\ ServiceInit     /\ (part = "service" \/ \A u \in Unit : ~unit[u].active /\ ~unit[u].enabled)
        /\ AlertInit
        /\ CacheInit
        /\ ListInit        /\ (part = "list" \/ \A l \in List : db[l] = {})
        /\ KernelInit      /\ (IF part = "kernel" THEN Len(ids) <= 1 ELSE fallback /\ ids = <<>>)
        /\ DetectorInit

EnforcementPart == /\ part = "enforcement" /\ EnforcementNext
                   /\ UNCHANGED <<part, secVars, corVars, containVars, serviceVars,
                                  alertVars, cacheVars, listVars, kernelVars, detectorVars>>
SecurityPart == /\ part = "security" /\ SecurityNext
                /\ UNCHANGED <<part, enfVars, corVars, containVars, serviceVars,
                               alertVars, cacheVars, listVars, kernelVars, detectorVars>>
CorrelationPart == /\ part = "correlation" /\ CorrelationNext
                   /\ UNCHANGED <<part, enfVars, secVars, containVars, serviceVars,
                                  alertVars, cacheVars, listVars, kernelVars, detectorVars>>
ContainmentPart == /\ part = "containment" /\ ContainmentNext
                   /\ UNCHANGED <<part, enfVars, secVars, corVars, serviceVars,
                                  alertVars, cacheVars, listVars, kernelVars, detectorVars>>
ServicePart == /\ part = "service" /\ ServiceNext
               /\ UNCHANGED <<part, enfVars, secVars, corVars, containVars,
                              alertVars, cacheVars, listVars, kernelVars, detectorVars>>
AlertPart == /\ part = "alert" /\ AlertNext
             /\ UNCHANGED <<part, enfVars, secVars, corVars, containVars, serviceVars,
                            cacheVars, listVars, kernelVars, detectorVars>>
CachePart == /\ part = "cache" /\ CacheNext
             /\ UNCHANGED <<part, enfVars, secVars, corVars, containVars, serviceVars,
                            alertVars, listVars, kernelVars, detectorVars>>
ListPart == /\ part = "list" /\ ListNext
            /\ UNCHANGED <<part, enfVars, secVars, corVars, containVars, serviceVars,
                           alertVars, cacheVars, kernelVars, detectorVars>>
KernelPart == /\ part = "kernel" /\ KernelNext
              /\ UNCHANGED <<part, enfVars, secVars, corVars, containVars, serviceVars,
                             alertVars, cacheVars, listVars, detectorVars>>
DetectorPart == /\ part = "detector" /\ DetectorNext
                /\ UNCHANGED <<part, enfVars, secVars, corVars, containVars, serviceVars,
                               alertVars, cacheVars, listVars, kernelVars>>

Next == \/ EnforcementPart \/ SecurityPart \/ CorrelationPart \/ ContainmentPart
        \/ ServicePart \/ AlertPart \/ CachePart \/ ListPart \/ KernelPart \/ DetectorPart

Spec == Init /\ [][Next]_vars
-----------------------------------------------------------------------------
(* Each part's state is well typed.                                        *)
TypeOK == /\ EnforcementTypeOK /\ SecurityTypeOK /\ CorrelationTypeOK /\ ContainmentTypeOK
          /\ ServiceTypeOK /\ AlertTypeOK /\ CacheTypeOK /\ ListTypeOK /\ KernelTypeOK
          /\ DetectorTypeOK
=============================================================================
