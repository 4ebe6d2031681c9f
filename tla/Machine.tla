------------------------------ MODULE Machine ------------------------------
(***************************************************************************)
(* The life of a machine: running_machine::run with the requests made of   *)
(* it (exit, hard and soft reset, save, load, pause), the state files that *)
(* have to wait until no anonymous timer is pending, the keys of the user  *)
(* interface that make those requests, and the loop of                     *)
(* machine_manager::execute that replaces one machine by the next.         *)
(* A timeslice is what TimerQueue and Scheduler model in detail; here it   *)
(* lets time pass or not, starts or fires anonymous timers and calls back  *)
(* into the machine any number of times.                                   *)
(***************************************************************************)
EXTENDS Naturals

CONSTANTS Files,        \* names of state files
          AutoFile,     \* the name the autosave option uses
          None,         \* no file, no driver
          Empty,        \* the internal driver that shows the menu
          Game,         \* a driver that supports save states
          Options,      \* the options the program is started with, of OptionRec
          Scripts,      \* callbacks and scripts make requests
          Debugger,     \* the debugger saves and loads at once
          CanFail,      \* files fail to open, to read, to write; errors are thrown
          PatientUser,  \* the user makes no request of a paused machine's debugger and
                        \* does not pause while a request is pending
          Second,       \* bound: time units in the second a request may wait
          MaxAsks       \* bound: requests in a run of the program

\* The driver; a state to load at startup; whether to save at exit and load at
\* startup; whether to ask before an exit.
OptionRec == [system : {Empty, Game}, state : Files \cup {None}, autosave : BOOLEAN,
              confirm_quit : BOOLEAN]

ASSUME MachineAssumption ==
  /\ AutoFile \in Files /\ None \notin Files \cup {Empty, Game} /\ Empty # Game
  /\ Options \subseteq OptionRec /\ Second \in Nat \ {0} /\ MaxAsks \in Nat
  /\ {Scripts, Debugger, CanFail, PatientUser} \subseteq BOOLEAN

VARIABLES
  options,      \* the options of this run of the program
  system,       \* the driver of the machine
  startedEmpty, \* started_empty: the program was started without a driver
  newDriver,    \* m_new_driver_pending, or None
  pc,           \* where the main thread is
  paused,       \* m_paused
  hardReset,    \* m_hard_reset_pending
  exitPending,  \* m_exit_pending
  schedule,     \* m_saveload_schedule
  pendingFile,  \* m_saveload_pending_file, or None
  waited,       \* time() - m_saveload_schedule_time, at most a unit over Second
  resetArmed,   \* m_soft_reset_timer is running
  anon,         \* an anonymous timer is pending: can_save() is false
  began,        \* time() > attotime::zero
  ui,           \* m_handler_callback of the user interface
  disk,         \* the state files
  asks          \* bound: requests made so far

request == <<schedule, pendingFile, waited>>
flow    == <<hardReset, exitPending, paused>>
world   == <<options, system, startedEmpty, newDriver>>
clock   == <<resetArmed, anon, began>>
lifeVars == <<request, flow, world, clock, pc, ui, disk, asks>>

NoFile == [armed |-> FALSE, began |-> FALSE, there |-> FALSE]
State  == [armed : BOOLEAN, began : BOOLEAN, there : {TRUE}]

Supports(s) == s = Game        \* MACHINE_SUPPORTS_SAVE
Busy        == schedule # "none" \/ resetArmed \/ exitPending \/ hardReset

----------------------------------------------------------------------------
(* Requests.  Each is a relation between the variables of request and flow *)
(* and resetArmed, used by the actions that make it.                       *)

Pend(op, f) == schedule' = op /\ pendingFile' = f /\ waited' = 0

\* Mutant: the machine stays paused.
ScheduleSavePaused(f) == Pend("save", f) /\ UNCHANGED paused

ScheduleSave(f) == Pend("save", f) /\ paused' = FALSE

ScheduleLoad(f) == Pend("load", f) /\ paused' = FALSE

ScheduleExitFrom(p) ==
  /\ exitPending' = TRUE
  /\ IF options.autosave /\ Supports(system) /\ began
       THEN ScheduleSave(AutoFile)
       ELSE UNCHANGED request /\ paused' = p
  /\ UNCHANGED <<hardReset, resetArmed>>

ScheduleExit == ScheduleExitFrom(paused)

ScheduleHardReset ==
  hardReset' = TRUE /\ UNCHANGED <<request, exitPending, paused, resetArmed>>

\* Mutant: the machine stays paused.
ScheduleSoftResetPaused ==
  resetArmed' = TRUE /\ UNCHANGED <<request, flow>>

ScheduleSoftReset ==
  /\ resetArmed' = TRUE /\ paused' = FALSE
  /\ UNCHANGED <<request, hardReset, exitPending>>

Pause  == paused' = TRUE
Resume == paused' = FALSE

Ask == asks < MaxAsks /\ asks' = asks + 1

----------------------------------------------------------------------------
(* The state files. *)

\* Mutant: the name of the file stays.
CancelKeepsName == schedule' = "none" /\ UNCHANGED pendingFile /\ waited' = 0

Cancel == schedule' = "none" /\ pendingFile' = None /\ waited' = 0

\* Written, or an error: the file is removed, or could not be opened.
WriteFile(f) ==
  /\ \/ disk' = [disk EXCEPT ![f] =
                   [armed |-> resetArmed, began |-> began, there |-> TRUE]]
     \/ CanFail /\ disk' \in {disk, [disk EXCEPT ![f] = NoFile]}
  /\ UNCHANGED <<resetArmed, began>>

\* Read, or an error: nothing has been read, or a part of it.
ReadFile(f) ==
  /\ UNCHANGED disk
  /\ \/ /\ disk[f].there /\ Supports(system)
        /\ resetArmed' = disk[f].armed /\ began' = disk[f].began
     \/ /\ disk[f].there /\ Supports(system) /\ CanFail
        /\ resetArmed' \in {resetArmed, disk[f].armed}
        /\ began' \in {began, disk[f].began}
     \/ /\ CanFail \/ ~disk[f].there \/ ~Supports(system)
        /\ UNCHANGED <<resetArmed, began>>

\* handle_saveload for operation op on file f that has waited for w.
HandleSaveload(op, f, w) ==
  IF anon
    THEN /\ IF w > Second
              THEN Cancel
              ELSE schedule' = op /\ pendingFile' = f /\ waited' = w
         /\ UNCHANGED <<disk, resetArmed, began>>
    ELSE /\ IF op = "save" THEN WriteFile(f) ELSE ReadFile(f)
         /\ Cancel

----------------------------------------------------------------------------
(* The machine's run. *)

\* What start loads: -state goes before -autosave, and for any system.
StartupFile(s) ==
  IF options.state # None THEN options.state
  ELSE IF options.autosave /\ Supports(s) THEN AutoFile ELSE None

NewMachine(s) ==
  /\ system' = s /\ newDriver' = None /\ pc' = "startup" /\ ui' = "ingame"
  /\ hardReset' = FALSE /\ exitPending' = FALSE /\ resetArmed' = FALSE
  /\ began' = FALSE /\ anon' \in BOOLEAN
  /\ IF StartupFile(s) # None
       THEN ScheduleLoad(StartupFile(s))
       ELSE Cancel /\ paused' = FALSE

\* soft_reset, called by run itself: the reset callbacks may start timers.
FirstReset ==
  /\ pc = "startup" /\ pc' = "first"
  /\ anon' \in {anon, TRUE}
  /\ UNCHANGED <<request, flow, world, resetArmed, began, ui, disk, asks>>

EnterLoop ==
  /\ pc = "first" /\ pc' = "loop"
  /\ IF schedule # "none"
       THEN HandleSaveload(schedule, pendingFile, waited)
       ELSE UNCHANGED <<request, disk, resetArmed, began>>
  /\ hardReset' = FALSE
  /\ UNCHANGED <<exitPending, paused, world, anon, ui, asks>>

\* Mutant: the loop does not wait for a request.
GoesOnExits == ~hardReset /\ ~exitPending

\* Mutant: the loop looks at an exit only.
GoesOnHard == ~exitPending \/ schedule # "none"

GoesOn == (~hardReset /\ ~exitPending) \/ schedule # "none"

Loop ==
  /\ pc = "loop"
  /\ pc' = IF ~GoesOn THEN "leave" ELSE IF paused THEN "frame" ELSE "slice"
  /\ UNCHANGED <<request, flow, world, clock, ui, disk, asks>>

\* The end of a timeslice that took t units of time.
EndSlice(t) ==
  /\ pc = "slice" /\ pc' = "handle"
  /\ anon' \in BOOLEAN /\ began' = (began \/ t > 0)
  /\ waited' = IF schedule = "none" \/ waited + t > Second + 1 THEN waited ELSE waited + t
  /\ UNCHANGED <<schedule, pendingFile, flow, world, resetArmed, ui, disk, asks>>

\* m_soft_reset_timer expires: soft_reset.
FireReset ==
  /\ pc = "slice" /\ resetArmed /\ resetArmed' = FALSE
  /\ anon' \in {anon, TRUE}
  /\ UNCHANGED <<request, flow, world, began, pc, ui, disk, asks>>

Handle ==
  /\ pc = "handle" /\ pc' = "loop"
  /\ IF schedule # "none"
       THEN HandleSaveload(schedule, pendingFile, waited)
       ELSE UNCHANGED <<request, disk, resetArmed, began>>
  /\ UNCHANGED <<flow, world, anon, ui, asks>>

\* The exit phase: NVRAM and configuration are saved, the machine goes away.
Leave ==
  /\ pc = "leave" /\ pc' = "gone"
  /\ UNCHANGED <<request, flow, world, clock, ui, disk, asks>>

\* run catches every exception; execute stops at an error.
Throw ==
  /\ CanFail /\ pc \in {"startup", "slice", "frame"} /\ pc' = "end"
  /\ UNCHANGED <<request, flow, world, clock, ui, disk, asks>>

\* Mutant: an exit does not take away the name of the system.
NextMachineSame ==
  /\ pc = "gone"
  /\ IF exitPending /\ (~startedEmpty \/ system = Empty)
       THEN /\ pc' = "end"
            /\ UNCHANGED <<request, flow, system, newDriver, clock, ui>>
       ELSE NewMachine(IF newDriver # None THEN newDriver ELSE system)
  /\ UNCHANGED <<options, startedEmpty, disk, asks>>

\* The loop of execute, after run.
NextMachine ==
  /\ pc = "gone"
  /\ IF exitPending /\ (~startedEmpty \/ system = Empty)
       THEN /\ pc' = "end"
            /\ UNCHANGED <<request, flow, system, newDriver, clock, ui>>
       ELSE NewMachine(IF newDriver # None THEN newDriver
                       ELSE IF exitPending THEN Empty ELSE system)
  /\ UNCHANGED <<options, startedEmpty, disk, asks>>

----------------------------------------------------------------------------
(* The user interface: frame_update calls its handler once, for a frame of *)
(* the paused machine or at a VBLANK in a timeslice.                       *)

UiTurn ==
  /\ pc \in {"slice", "frame"}
  /\ pc' = IF pc = "frame" THEN "handle" ELSE "slice"
  /\ UNCHANGED <<options, system, startedEmpty, anon, began, disk>>

MayPause == PatientUser => ~Busy

NoKey ==
  /\ UiTurn
  /\ IF ui = "quit" THEN Pause ELSE UNCHANGED paused
  /\ UNCHANGED <<request, hardReset, exitPending, newDriver, resetArmed, ui, asks>>

QuitKey ==
  /\ UiTurn /\ ui = "ingame" /\ Ask /\ (options.confirm_quit => MayPause)
  /\ IF options.confirm_quit
       THEN ui' = "quit" /\ UNCHANGED <<request, flow, resetArmed>>
       ELSE ScheduleExit /\ UNCHANGED ui
  /\ UNCHANGED newDriver

ResetKey ==
  /\ UiTurn /\ ui = "ingame" /\ system = Game /\ Ask
  /\ ScheduleHardReset \/ ScheduleSoftReset
  /\ UNCHANGED <<ui, newDriver>>

PauseKey ==
  /\ UiTurn /\ ui = "ingame" /\ system = Game
  /\ IF paused THEN Resume ELSE MayPause /\ Pause
  /\ UNCHANGED <<request, hardReset, exitPending, newDriver, resetArmed, ui, asks>>

SlotKey ==
  /\ UiTurn /\ ui = "ingame" /\ system = Game /\ MayPause
  /\ Pause /\ ui' \in {"saving", "loading"}
  /\ UNCHANGED <<request, hardReset, exitPending, newDriver, resetArmed, asks>>

\* A driver chosen in the menu.
GameKey ==
  /\ UiTurn /\ ui = "ingame" /\ system = Empty /\ Ask
  /\ newDriver' = Game /\ ScheduleHardReset
  /\ UNCHANGED ui

\* handler_confirm_quit pauses in every frame, then looks at the keys.
ConfirmKey ==
  /\ UiTurn /\ ui = "quit" /\ Ask
  /\ ScheduleExitFrom(TRUE)
  /\ UNCHANGED <<newDriver, ui>>

\* handler_load_save, a slot chosen.
ChooseSlot ==
  /\ UiTurn /\ ui \in {"saving", "loading"} /\ ui' = "ingame" /\ Ask
  /\ \E f \in Files \ {AutoFile} :
       IF ui = "saving" THEN ScheduleSave(f) ELSE ScheduleLoad(f)
  /\ UNCHANGED <<hardReset, exitPending, newDriver, resetArmed>>

CancelKey ==
  /\ UiTurn /\ ui # "ingame" /\ ui' = "ingame" /\ Resume
  /\ UNCHANGED <<request, hardReset, exitPending, newDriver, resetArmed, asks>>

----------------------------------------------------------------------------
(* Requests from elsewhere. *)

\* Scripts, images and the watchdog, at startup and in a timeslice; the
\* message boxes shown at startup can exit.
CallRequest ==
  /\ Scripts /\ pc \in {"startup", "slice"} /\ Ask
  /\ ScheduleExit \/ ScheduleHardReset \/ ScheduleSoftReset
  /\ UNCHANGED <<world, anon, began, pc, ui, disk>>

\* immediate_save and immediate_load, commands of the debugger: they leave the
\* machine paused.
Immediate(op, f) ==
  /\ Debugger /\ pc = "slice" /\ Ask /\ (PatientUser => ~paused)
  /\ HandleSaveload(op, f, 0)
  /\ UNCHANGED <<flow, world, anon, pc, ui>>

ImmediateCall == \E op \in {"save", "load"}, f \in Files : Immediate(op, f)

----------------------------------------------------------------------------
LifeInit ==
  /\ options \in Options
  /\ system = options.system /\ startedEmpty = (system = Empty) /\ newDriver = None
  /\ pc = "startup" /\ ui = "ingame" /\ paused = FALSE
  /\ hardReset = FALSE /\ exitPending = FALSE /\ resetArmed = FALSE
  /\ began = FALSE /\ anon \in BOOLEAN /\ waited = 0
  /\ asks = 0 /\ disk \in [Files -> {NoFile, [NoFile EXCEPT !.there = TRUE, !.began = TRUE]}]
  /\ pendingFile = StartupFile(system)
  /\ schedule = IF pendingFile # None THEN "load" ELSE "none"

UiKey == QuitKey \/ ResetKey \/ PauseKey \/ SlotKey \/ GameKey \/ ConfirmKey
           \/ ChooseSlot \/ CancelKey

TimeStands == EndSlice(0)
TimePasses == EndSlice(1)
PausedFrame == pc = "frame" /\ NoKey

MainStep == FirstReset \/ EnterLoop \/ Loop \/ TimeStands \/ TimePasses
              \/ PausedFrame \/ Handle \/ Leave \/ NextMachine

\* The program has ended.
Ended == pc = "end" /\ UNCHANGED lifeVars

LifeNext == MainStep \/ FireReset \/ Throw \/ NoKey \/ UiKey \/ CallRequest
          \/ ImmediateCall \/ Ended

LifeSpec == LifeInit /\ [][LifeNext]_lifeVars

(***************************************************************************)
(* The main thread never stops; time passes, for a timeslice that starts   *)
(* with a timer already due only fires it and the periodic timers and the  *)
(* quanta make the next one longer; a timer that is due fires.             *)
(***************************************************************************)
LifeFairSpec == LifeSpec /\ WF_lifeVars(MainStep) /\ SF_lifeVars(TimePasses) /\ SF_lifeVars(FireReset)

----------------------------------------------------------------------------
(* Properties. *)

\* The variables keep their types.
LifeTypeOK ==
  /\ options \in OptionRec
  /\ system \in {Empty, Game} /\ startedEmpty \in BOOLEAN /\ newDriver \in {None, Game}
  /\ pc \in {"startup", "first", "loop", "slice", "frame", "handle", "leave", "gone", "end"}
  /\ {paused, hardReset, exitPending, resetArmed, anon, began} \subseteq BOOLEAN
  /\ schedule \in {"none", "save", "load"} /\ pendingFile \in Files \cup {None}
  /\ waited \in 0 .. Second + 1 /\ asks \in 0 .. MaxAsks
  /\ ui \in {"ingame", "quit", "saving", "loading"}
  /\ disk \in [Files -> State \cup {NoFile}]

\* save_or_load_pending, which the debugger asks, looks at the name and run at
\* the operation: whatever request replaces another or is given up, they agree.
PendingAgree == schedule = "none" <=> pendingFile = None

\* A machine that leaves its loop has no request left: the save that an exit
\* schedules is not forgotten with the machine.
NothingLeft == pc \in {"leave", "gone"} => schedule = "none"

\* A request is known to all who ask for it, and outlives no machine.
RequestKept == PendingAgree /\ NothingLeft

\* Exits that are not confirmed: handler_confirm_quit, which pauses the machine in
\* every frame, is never installed.
Unasked == ~options.confirm_quit

\* A request is carried out or given up, also while anonymous timers start
\* again and again, if the user does not pause and no error is thrown.
RequestEnds == (Unasked /\ schedule # "none") ~> schedule = "none" \/ pc = "end"

\* The program has ended, or gone back to the menu it was started with.
ExitDone == pc = "end" \/ (startedEmpty /\ system = Empty /\ pc = "startup")

\* An exit ends the program, or goes back to the menu.
ExitEnds == (Unasked /\ exitPending) ~> ExitDone

\* A hard reset asked of a machine in its loop ends the machine.
HardResetEnds ==
  (Unasked /\ hardReset /\ pc \notin {"startup", "first"}) ~> pc \in {"gone", "end"}

\* A soft reset that has been asked for takes place, unless a state is loaded
\* over it or the machine goes first.
ResetHappens == (Unasked /\ resetArmed) ~> ~resetArmed \/ pc \in {"gone", "end"}

\* Every request made of the machine comes to its end.
RequestsEnd == RequestEnds /\ ExitEnds /\ HardResetEnds /\ ResetHappens
=============================================================================
