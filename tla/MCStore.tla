------------------------------ MODULE MCStore ------------------------------
(* Six parts of the program that share no variable, each with the store's
   tables it alone writes: a behaviour is one part at work while the others
   rest, which loses nothing, because no step of one enables or disables a
   step of another. *)
EXTENDS Workload, Views, Migrations, Digest, SetupChecker, IndexPlans

CONSTANTS p1, p2, r1, r2, q1, q2

VARIABLE part

Parts == {"workload", "views", "file", "digest", "setup", "plans"}

storeVars == <<part, workloadVars, viewVars, fileVars, digestVars, setupVars, planVars>>

\* Collectors stand for those whose runs have the same steps.
MCCollectors == {"query_stats", "activity", "locks", "database_stats", "outage_risk", "settings"}
MCBatches == {{}, {1}, {2}}

MCInit ==
  /\ part \in Parts
  /\ WorkloadInit /\ OpenInit /\ DigestInit /\ SetupInit
  /\ ViewsInit /\ PlansInit
  /\ part # "views" => collector = "settings"
  /\ part # "setup" => reachable
  /\ part # "plans" => relation = [large |-> TRUE, indexed |-> FALSE]

MCNext ==
  /\ part' = part
  /\ \/ /\ part = "workload" /\ WorkloadNext
        /\ UNCHANGED <<viewVars, fileVars, digestVars, setupVars, planVars>>
     \/ /\ part = "views" /\ ViewsNext
        /\ UNCHANGED <<workloadVars, fileVars, digestVars, setupVars, planVars>>
     \/ /\ part = "file" /\ OpenNext
        /\ UNCHANGED <<workloadVars, viewVars, digestVars, setupVars, planVars>>
     \/ /\ part = "digest" /\ DigestNext
        /\ UNCHANGED <<workloadVars, viewVars, fileVars, setupVars, planVars>>
     \/ /\ part = "setup" /\ SetupNext
        /\ UNCHANGED <<workloadVars, viewVars, fileVars, digestVars, planVars>>
     \/ /\ part = "plans" /\ PlansNext
        /\ UNCHANGED <<workloadVars, viewVars, fileVars, digestVars, setupVars>>

Spec == MCInit /\ [][MCNext]_storeVars
=============================================================================
