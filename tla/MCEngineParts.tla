---------------------------- MODULE MCEngineParts ----------------------------
(* Small instances of six parts of the engine that share no state: a         *)
(* behaviour is one of one part, while the others rest in an initial state.  *)
EXTENDS WorkerLifecycle, ServiceStart, VolumeInitialization, AcceleratedStart, EventDelivery,
        MCManagedFiles

CONSTANTS
  p1, p2, here, there,
  MaxChanges   \* bound: calls, edits, cuts and losses of managed files together

VARIABLE part

\* The plan of services, the Landofile and the user's files are inputs of their parts alone.
PartsInit ==
  /\ part \in {"workers", "services", "volumes", "sync", "events", "files"}
  /\ Init /\ ScheduleInit /\ ClaimsInit /\ AcceleratedInit /\ EventsInit /\ FilesInit
  /\ part # "services" => plan = {}
  /\ part # "sync" => landofile = {}
  /\ kind["q"] = "file" /\ tree["q"] = NoFile
  /\ part # "files" => kind["p"] = "file" /\ tree["p"] = NoFile

PartsNext ==
  \/ part = "workers" /\ Next
       /\ UNCHANGED <<part, scheduleVars, claimsVars, acceleratedVars, eventsVars, filesVars>>
  \/ part = "services" /\ ScheduleNext
       /\ UNCHANGED <<part, vars, claimsVars, acceleratedVars, eventsVars, filesVars>>
  \/ part = "volumes" /\ ClaimsNext
       /\ UNCHANGED <<part, vars, scheduleVars, acceleratedVars, eventsVars, filesVars>>
  \/ part = "sync" /\ AcceleratedNext
       /\ UNCHANGED <<part, vars, scheduleVars, claimsVars, eventsVars, filesVars>>
  \/ part = "events" /\ EventsNext
       /\ UNCHANGED <<part, vars, scheduleVars, claimsVars, acceleratedVars, filesVars>>
  \/ part = "files" /\ FilesNext /\ (calls + edits + cuts + losses)' <= MaxChanges
       /\ UNCHANGED <<part, vars, scheduleVars, claimsVars, acceleratedVars, eventsVars>>

PartsSpec ==
  /\ PartsInit
  /\ [][PartsNext]_<<part, vars, scheduleVars, claimsVars, acceleratedVars, eventsVars, filesVars>>
  /\ \A p \in Command : WF_vars(Operating(p))
=============================================================================
