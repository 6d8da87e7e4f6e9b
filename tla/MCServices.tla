----------------------------- MODULE MCServices -----------------------------
(***************************************************************************)
(* The components around the crawler that run with faults and timers, each *)
(* on a small instance.  They share no state: what one of them takes from  *)
(* another is part of its own environment.  A behaviour is one of one      *)
(* component, "part"; the others rest: no migration is queued, no request  *)
(* is sent, the dashboard is closed, which enables none of the actions     *)
(* whose fairness is assumed.                                              *)
(***************************************************************************)
EXTENDS ResponseCache, StorageMigration, ApiAccess, SourceFetch, CrawlerDashboard,
        BackfillAdmission

VARIABLE part

servicesVars == <<cacheVars, storageVars, accessVars, sourceVars, dashboardVars,
                  admissionVars, part>>

Components == {"cache", "storage", "access", "source", "dashboard", "admission"}

ServicesInit ==
  /\ part \in Components
  /\ CacheInit /\ AccessInit
  /\ StorageInit /\ (part # "storage" => stage = "raw_evidence" /\ kept = Nothing /\ chain = {})
  /\ SourceInit /\ (part # "source" => transport = "fetch")
  /\ AdmissionInit
  /\ DashboardInit /\ (part # "dashboard" => ~hidden /\ ~active)

Others(name) ==
  /\ UNCHANGED part
  /\ name # "cache" => UNCHANGED cacheVars
  /\ name # "storage" => UNCHANGED storageVars
  /\ name # "access" => UNCHANGED accessVars
  /\ name # "source" => UNCHANGED sourceVars
  /\ name # "dashboard" => UNCHANGED dashboardVars
  /\ name # "admission" => UNCHANGED admissionVars

ServicesNext ==
  \/ part = "cache" /\ CacheNext /\ Others("cache")
  \/ part = "storage" /\ StorageNext /\ Others("storage")
  \/ part = "access" /\ AccessNext /\ Others("access")
  \/ part = "source" /\ SourceNext /\ Others("source")
  \/ part = "dashboard" /\ DashboardNext /\ Others("dashboard")
  \/ part = "admission" /\ AdmissionNext /\ Others("admission")

ServicesSpec == ServicesInit /\ [][ServicesNext]_servicesVars
                /\ StorageFairness /\ SourceFairness /\ DashboardFairness

-----------------------------------------------------------------------------
(* The type invariants of the components.                                  *)
ServicesTypeOK ==
  /\ part \in Components
  /\ CacheTypeOK /\ StorageTypeOK /\ AccessTypeOK /\ SourceTypeOK /\ DashboardTypeOK
  /\ AdmissionTypeOK
=============================================================================
