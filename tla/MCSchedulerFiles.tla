-------------------------- MODULE MCSchedulerFiles --------------------------
(***************************************************************************)
(* Scheduler and StateFile for TLC, side by side: they share nothing (the  *)
(* state files of the scheduler are Scheduler's own), so that a behaviour  *)
(* is one of the scheduler or one of the save manager, and the other       *)
(* rests.                                                                  *)
(***************************************************************************)
EXTENDS MCScheduler, MCStateFile

VARIABLES
  part,   \* which of the two the behaviour is about
  runs    \* of the program: bound, a file is read in the run that wrote it or the next

\* The part that rests: machines with no time slice yet, a new save manager.
SchedulerRests == Init /\ machine = MCFiles
ManagerRests == SaveInit /\ game \in Supporting /\ msbFirst

SchedulerFilesInit ==
  /\ runs = 1
  /\ \/ part = "scheduler" /\ Init /\ ManagerRests
     \/ part = "files" /\ SaveInit /\ SchedulerRests

FilesNext ==
  \/ SaveNext /\ ~NewRun /\ UNCHANGED runs
  \/ runs = 1 /\ NewRun /\ runs' = 2
  \/ runs = 2 /\ registration = "dead" /\ UNCHANGED <<saveVars, runs>>

SchedulerFilesNext ==
  \/ part = "scheduler" /\ Next /\ UNCHANGED <<saveVars, part, runs>>
  \/ part = "files" /\ FilesNext /\ UNCHANGED <<vars, part>>

\* The fairness of FairSpec; the save manager needs none.
SchedulerFilesSpec ==
  /\ SchedulerFilesInit /\ [][SchedulerFilesNext]_<<vars, saveVars, part, runs>>
  /\ WF_vars(part = "scheduler" /\ Timeslice)
=============================================================================
