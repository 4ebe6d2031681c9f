--------------------------- MODULE MachineProofs ---------------------------
(***************************************************************************)
(* Theorems about the life of a machine (Machine) and about the input      *)
(* lines of the devices it executes (InputLines).  They share no state.    *)
(*                                                                         *)
(* Machine, for any files, any options and any number of requests: the     *)
(* variables keep their types, the name and the operation of a request     *)
(* agree, and a machine that goes away has no request left.                *)
(*                                                                         *)
(* InputLines, for any sets of lines and vectors and queues of any length: *)
(* the variables keep their types, no queue is overrun, an event that is   *)
(* queued has a timer or a loop that will apply it, and each line settles  *)
(* as it was asked to.                                                     *)
(***************************************************************************)
EXTENDS Machine, InputLines, TLAPS

----------------------------------------------------------------------------
(* The life of a machine. *)

RequestType ==
  /\ schedule \in {"none", "save", "load"} /\ pendingFile \in Files \cup {None}
  /\ waited \in 0 .. Second + 1
FlowType == hardReset \in BOOLEAN /\ exitPending \in BOOLEAN /\ paused \in BOOLEAN
WorldType ==
  /\ options \in OptionRec
  /\ system \in {Empty, Game} /\ startedEmpty \in BOOLEAN /\ newDriver \in {None, Game}
ClockType == resetArmed \in BOOLEAN /\ anon \in BOOLEAN /\ began \in BOOLEAN
DiskType == disk \in [Files -> State \cup {NoFile}]
PlaceType ==
  /\ pc \in {"startup", "first", "loop", "slice", "frame", "handle", "leave", "gone", "end"}
  /\ ui \in {"ingame", "quit", "saving", "loading"} /\ asks \in 0 .. MaxAsks

LEMMA LifeTypeParts ==
  LifeTypeOK <=> RequestType /\ FlowType /\ WorldType /\ ClockType /\ DiskType /\ PlaceType
  BY DEF LifeTypeOK, RequestType, FlowType, WorldType, ClockType, DiskType, PlaceType

\* The inductive invariant.
LifeInv == LifeTypeOK /\ PendingAgree /\ NothingLeft

\* What a request and its end leave behind.
RequestOK == RequestType /\ PendingAgree

LEMMA RequestIsOK == LifeInv => RequestOK
  BY LifeTypeParts DEF LifeInv, RequestOK

LEMMA PendOK ==
  ASSUME NEW op \in {"save", "load"}, NEW f \in Files, Pend(op, f)
  PROVE  RequestOK'
  BY MachineAssumption DEF Pend, RequestOK, RequestType, PendingAgree

LEMMA CancelOK == Cancel => RequestOK' /\ schedule' = "none"
  BY MachineAssumption DEF Cancel, RequestOK, RequestType, PendingAgree

LEMMA SameOK == RequestOK /\ UNCHANGED request => RequestOK'
  BY DEF RequestOK, RequestType, PendingAgree, request

\* An exit, as it is asked for by every caller.
LEMMA ExitOK ==
  ASSUME LifeInv, NEW p \in BOOLEAN, ScheduleExitFrom(p)
  PROVE  RequestOK' /\ FlowType' /\ resetArmed' \in BOOLEAN
<1>3. paused' \in BOOLEAN => FlowType' /\ resetArmed' \in BOOLEAN
  BY LifeTypeParts DEF LifeInv, ScheduleExitFrom, FlowType, ClockType
<1>1. CASE ScheduleSave(AutoFile)
  <2>1. Pend("save", AutoFile) /\ AutoFile \in Files
    BY <1>1, MachineAssumption DEF ScheduleSave
  <2>2. RequestOK'
    BY <2>1, PendOK
  <2>3. paused' = FALSE
    BY <1>1 DEF ScheduleSave
  <2>. QED  BY <2>2, <2>3, <1>3
<1>2. CASE UNCHANGED request /\ paused' = p
  <2>1. RequestOK'
    BY <1>2, RequestIsOK, SameOK
  <2>. QED  BY <1>2, <2>1, <1>3
<1>. QED  BY <1>1, <1>2 DEF ScheduleExitFrom

LEMMA HardResetOK ==
  ASSUME LifeInv, ScheduleHardReset
  PROVE  RequestOK' /\ FlowType' /\ resetArmed' \in BOOLEAN
  BY LifeTypeParts, RequestIsOK, SameOK DEF LifeInv, ScheduleHardReset, FlowType, ClockType

LEMMA SoftResetOK ==
  ASSUME LifeInv, ScheduleSoftReset
  PROVE  RequestOK' /\ FlowType' /\ resetArmed' \in BOOLEAN
  BY LifeTypeParts, RequestIsOK, SameOK DEF LifeInv, ScheduleSoftReset, FlowType

\* Whatever becomes of a save or load.
LEMMA HandleOK ==
  ASSUME LifeInv, NEW op \in {"save", "load"}, NEW f \in Files, NEW w \in 0 .. Second + 1,
         HandleSaveload(op, f, w)
  PROVE  RequestOK' /\ DiskType' /\ resetArmed' \in BOOLEAN /\ began' \in BOOLEAN
<1>1. /\ resetArmed \in BOOLEAN /\ began \in BOOLEAN
      /\ disk \in [Files -> State \cup {NoFile}]
  BY LifeTypeParts DEF LifeInv, ClockType, DiskType
<1>3. CASE anon
  <2>1. RequestOK'
    <3>1. CASE Cancel
      BY <3>1, CancelOK
    <3>2. CASE schedule' = op /\ pendingFile' = f /\ waited' = w
      BY <3>2, MachineAssumption DEF RequestOK, RequestType, PendingAgree
    <3>. QED  BY <1>3, <3>1, <3>2 DEF HandleSaveload
  <2>. QED  BY <1>1, <1>3, <2>1 DEF HandleSaveload, DiskType
<1>4. CASE ~anon
  <2>1. RequestOK'
    BY <1>4, CancelOK DEF HandleSaveload
  <2>2. CASE WriteFile(f)
    <3>1. [armed |-> resetArmed, began |-> began, there |-> TRUE] \in State
      BY <1>1 DEF State
    <3>. QED  BY <1>1, <2>1, <2>2, <3>1 DEF WriteFile, DiskType
  <2>3. CASE ReadFile(f)
    <3>1. disk[f].there => disk[f] \in State
      BY <1>1 DEF NoFile
    <3>2. disk[f].there => disk[f].armed \in BOOLEAN /\ disk[f].began \in BOOLEAN
      BY <3>1 DEF State
    <3>. QED  BY <1>1, <2>1, <2>3, <3>2 DEF ReadFile, DiskType
  <2>. QED  BY <1>4, <2>2, <2>3 DEF HandleSaveload
<1>. QED  BY <1>3, <1>4

----------------------------------------------------------------------------
\* A step that keeps the types and the agreement, and does not leave the loop.
LEMMA Stays ==
  ASSUME RequestOK', FlowType', WorldType', ClockType', DiskType', PlaceType',
         pc' \notin {"leave", "gone"}
  PROVE  LifeInv'
  BY LifeTypeParts DEF LifeInv, RequestOK, NothingLeft, LifeTypeOK, RequestType, FlowType, WorldType,
     ClockType, DiskType, PlaceType

LEMMA Parts ==
  LifeInv => RequestOK /\ FlowType /\ WorldType /\ ClockType /\ DiskType /\ PlaceType
  BY LifeTypeParts DEF LifeInv, RequestOK

LEMMA AskType == LifeInv /\ Ask => asks' \in 0 .. MaxAsks
  BY Parts, MachineAssumption DEF Ask, PlaceType

\* handle_saveload as the loop calls it.
LEMMA LoopHandles ==
  ASSUME LifeInv,
         IF schedule # "none"
           THEN HandleSaveload(schedule, pendingFile, waited)
           ELSE UNCHANGED <<request, disk, resetArmed, began>>
  PROVE  RequestOK' /\ DiskType' /\ resetArmed' \in BOOLEAN /\ began' \in BOOLEAN
<1>1. CASE schedule # "none"
  <2>1. schedule \in {"save", "load"} /\ pendingFile \in Files /\ waited \in 0 .. Second + 1
    BY <1>1, Parts DEF RequestOK, RequestType, PendingAgree
  <2>2. HandleSaveload(schedule, pendingFile, waited)
    BY <1>1
  <2>. QED  BY <2>1, <2>2, HandleOK
<1>2. CASE schedule = "none"
  <2>1. UNCHANGED <<request, disk, resetArmed, began>>
    BY <1>2
  <2>. QED  BY <2>1, Parts, SameOK DEF DiskType, ClockType
<1>. QED  BY <1>1, <1>2

LEMMA StartupFileOK ==
  ASSUME WorldType, NEW s
  PROVE  StartupFile(s) \in Files \cup {None}
BY MachineAssumption DEF StartupFile, WorldType, OptionRec

LEMMA NewMachineStep ==
  ASSUME LifeInv, NEW s \in {Empty, Game}, NewMachine(s),
         UNCHANGED <<options, startedEmpty, disk, asks>>
  PROVE  LifeInv'
<1>1. RequestOK' /\ paused' = FALSE
  <2>1. CASE StartupFile(s) # None /\ ScheduleLoad(StartupFile(s))
    <3>1. /\ Pend("load", StartupFile(s)) /\ StartupFile(s) \in Files /\ paused' = FALSE
      BY <2>1, Parts, StartupFileOK DEF ScheduleLoad
    <3>. QED  BY <3>1, PendOK
  <2>2. CASE Cancel /\ paused' = FALSE
    BY <2>2, CancelOK
  <2>. QED  BY <2>1, <2>2 DEF NewMachine
<1>2. FlowType' /\ WorldType' /\ ClockType' /\ DiskType' /\ PlaceType'
  BY <1>1, Parts DEF NewMachine, FlowType, WorldType, ClockType, DiskType, PlaceType
<1>3. pc' = "startup"
  BY DEF NewMachine
<1>. QED  BY <1>1, <1>2, <1>3, Stays

LEMMA MainStepKeeps ==
  ASSUME LifeInv, MainStep
  PROVE  LifeInv'
<1>. USE Parts
<1>1. CASE FirstReset
  <2>1. RequestOK' /\ pc' = "first"
    BY <1>1, SameOK DEF FirstReset
  <2>2. FlowType' /\ WorldType' /\ DiskType' /\ PlaceType'
    BY <1>1 DEF FirstReset, flow, world, FlowType, WorldType, DiskType, PlaceType
  <2>3. ClockType'
    BY <1>1 DEF FirstReset, ClockType
  <2>. QED  BY <2>1, <2>2, <2>3, Stays
<1>2. CASE EnterLoop
  <2>1. RequestOK' /\ DiskType' /\ resetArmed' \in BOOLEAN /\ began' \in BOOLEAN
    BY <1>2, LoopHandles DEF EnterLoop
  <2>2. FlowType' /\ WorldType' /\ ClockType' /\ PlaceType' /\ pc' = "loop"
    BY <1>2, <2>1 DEF EnterLoop, world, FlowType, WorldType, ClockType, PlaceType
  <2>. QED  BY <2>1, <2>2, Stays
<1>3. CASE Loop
  <2>1. RequestOK' /\ UNCHANGED schedule
    BY <1>3, SameOK DEF Loop, request
  <2>2. FlowType' /\ WorldType' /\ ClockType' /\ DiskType' /\ PlaceType'
    BY <1>3 DEF Loop, flow, world, clock, FlowType, WorldType, ClockType, DiskType, PlaceType
  <2>3. pc' # "gone" /\ (pc' = "leave" => schedule = "none")
    BY <1>3 DEF Loop, GoesOn
  <2>4. NothingLeft'
    BY <2>1, <2>3 DEF NothingLeft
  <2>. QED  BY <2>1, <2>2, <2>4 DEF LifeInv, RequestOK, LifeTypeOK, RequestType, FlowType, WorldType,
            ClockType, DiskType, PlaceType
<1>4. ASSUME NEW t \in {0, 1}, EndSlice(t) PROVE LifeInv'
  <2>1. waited' \in 0 .. Second + 1
    BY <1>4, MachineAssumption DEF EndSlice, RequestOK, RequestType
  <2>2. RequestOK'
    BY <1>4, <2>1 DEF EndSlice, RequestOK, RequestType, PendingAgree
  <2>3. FlowType' /\ WorldType' /\ ClockType' /\ DiskType' /\ PlaceType' /\ pc' = "handle"
    BY <1>4 DEF EndSlice, flow, world, FlowType, WorldType, ClockType, DiskType, PlaceType
  <2>. QED  BY <2>2, <2>3, Stays
<1>5. CASE Handle
  <2>1. RequestOK' /\ DiskType' /\ resetArmed' \in BOOLEAN /\ began' \in BOOLEAN
    BY <1>5, LoopHandles DEF Handle
  <2>2. FlowType' /\ WorldType' /\ ClockType' /\ PlaceType' /\ pc' = "loop"
    BY <1>5, <2>1 DEF Handle, flow, world, FlowType, WorldType, ClockType, PlaceType
  <2>. QED  BY <2>1, <2>2, Stays
<1>6. CASE Leave
  <2>1. schedule = "none" /\ UNCHANGED schedule /\ RequestOK'
    BY <1>6, SameOK DEF Leave, LifeInv, NothingLeft, request
  <2>2. FlowType' /\ WorldType' /\ ClockType' /\ DiskType' /\ PlaceType'
    BY <1>6 DEF Leave, flow, world, clock, FlowType, WorldType, ClockType, DiskType, PlaceType
  <2>. QED  BY <2>1, <2>2 DEF NothingLeft, LifeInv, RequestOK, LifeTypeOK, RequestType, FlowType,
            WorldType, ClockType, DiskType, PlaceType
<1>7. CASE NextMachine
  <2>1. CASE exitPending /\ (~startedEmpty \/ system = Empty)
    <3>1. RequestOK' /\ pc' = "end"
      BY <1>7, <2>1, SameOK DEF NextMachine
    <3>2. FlowType' /\ WorldType' /\ ClockType' /\ DiskType' /\ PlaceType'
      BY <1>7, <2>1 DEF NextMachine, flow, clock, FlowType, WorldType, ClockType, DiskType,
         PlaceType
    <3>. QED  BY <3>1, <3>2, Stays
  <2>2. CASE ~(exitPending /\ (~startedEmpty \/ system = Empty))
    <3>. DEFINE s == IF newDriver # None THEN newDriver
                     ELSE IF exitPending THEN Empty ELSE system
    <3>1. s \in {Empty, Game} /\ NewMachine(s) /\ UNCHANGED <<options, startedEmpty, disk, asks>>
      BY <1>7, <2>2 DEF NextMachine, WorldType
    <3>. HIDE DEF s
    <3>. QED  BY <3>1, NewMachineStep
  <2>. QED  BY <2>1, <2>2
<1>8. CASE PausedFrame
  <2>1. RequestOK' /\ pc' = "handle"
    BY <1>8, SameOK DEF PausedFrame, NoKey, UiTurn
  <2>2. FlowType' /\ WorldType' /\ ClockType' /\ DiskType' /\ PlaceType'
    BY <1>8 DEF PausedFrame, NoKey, UiTurn, Pause, FlowType, WorldType, ClockType, DiskType,
       PlaceType
  <2>. QED  BY <2>1, <2>2, Stays
<1>. QED  BY <1>1, <1>2, <1>3, <1>4, <1>5, <1>6, <1>7, <1>8
          DEF MainStep, TimeStands, TimePasses

\* What a turn of the user interface leaves to the handler.
LEMMA UiKeeps ==
  ASSUME LifeInv, UiTurn, RequestOK', FlowType', resetArmed' \in BOOLEAN,
         newDriver' \in {None, Game}, asks' \in 0 .. MaxAsks,
         ui' \in {"ingame", "quit", "saving", "loading"}
  PROVE  LifeInv'
<1>1. pc' \in {"handle", "slice"}
  BY DEF UiTurn
<1>2. WorldType' /\ ClockType' /\ DiskType'
  BY Parts DEF UiTurn, WorldType, ClockType, DiskType
<1>3. PlaceType'
  BY <1>1 DEF PlaceType
<1>. QED  BY <1>1, <1>2, <1>3, Stays

LEMMA UiStep ==
  ASSUME LifeInv, NoKey \/ UiKey
  PROVE  LifeInv'
<1>1. /\ RequestOK /\ FlowType /\ resetArmed \in BOOLEAN /\ newDriver \in {None, Game}
      /\ asks \in 0 .. MaxAsks /\ ui \in {"ingame", "quit", "saving", "loading"}
  BY Parts DEF ClockType, WorldType, PlaceType
<1>2. ASSUME UNCHANGED <<request, hardReset, exitPending, resetArmed>>, paused' \in BOOLEAN
      PROVE  RequestOK' /\ FlowType' /\ resetArmed' \in BOOLEAN
  BY <1>1, <1>2, SameOK DEF FlowType
<1>3. CASE NoKey
  BY <1>1, <1>2, <1>3, UiKeeps DEF NoKey, Pause, FlowType
<1>4. CASE QuitKey
  <2>1. RequestOK' /\ FlowType' /\ resetArmed' \in BOOLEAN
    <3>1. CASE options.confirm_quit
      BY <1>1, <1>4, <3>1, SameOK DEF QuitKey, flow, FlowType
    <3>2. CASE ~options.confirm_quit
      BY <1>1, <1>4, <3>2, ExitOK DEF QuitKey, ScheduleExit, FlowType
    <3>. QED  BY <3>1, <3>2
  <2>2. /\ UiTurn /\ asks' \in 0 .. MaxAsks /\ newDriver' \in {None, Game}
        /\ ui' \in {"ingame", "quit", "saving", "loading"}
    BY <1>1, <1>4, AskType DEF QuitKey
  <2>. QED  BY <2>1, <2>2, UiKeeps
<1>5. CASE ResetKey
  <2>1. RequestOK' /\ FlowType' /\ resetArmed' \in BOOLEAN
    BY <1>5, HardResetOK, SoftResetOK DEF ResetKey
  <2>. QED  BY <1>1, <1>5, <2>1, AskType, UiKeeps DEF ResetKey
<1>6. CASE PauseKey
  BY <1>1, <1>2, <1>6, UiKeeps DEF PauseKey, Pause, Resume
<1>7. CASE SlotKey
  BY <1>1, <1>2, <1>7, UiKeeps DEF SlotKey, Pause
<1>8. CASE GameKey
  BY <1>1, <1>8, HardResetOK, AskType, UiKeeps DEF GameKey
<1>9. CASE ConfirmKey
  <2>1. RequestOK' /\ FlowType' /\ resetArmed' \in BOOLEAN
    BY <1>9, ExitOK DEF ConfirmKey
  <2>. QED  BY <1>1, <1>9, <2>1, AskType, UiKeeps DEF ConfirmKey
<1>10. CASE ChooseSlot
  <2>1. PICK f \in Files \ {AutoFile} :
          IF ui = "saving" THEN ScheduleSave(f) ELSE ScheduleLoad(f)
    BY <1>10 DEF ChooseSlot
  <2>2. PICK op \in {"save", "load"} : Pend(op, f) /\ paused' = FALSE
    BY <2>1 DEF ScheduleSave, ScheduleLoad
  <2>3. RequestOK'
    BY <2>2, PendOK
  <2>4. FlowType'
    BY <1>1, <1>10, <2>2 DEF FlowType, ChooseSlot
  <2>. QED  BY <1>1, <1>10, <2>3, <2>4, AskType, UiKeeps DEF ChooseSlot
<1>11. CASE CancelKey
  BY <1>1, <1>2, <1>11, UiKeeps DEF CancelKey, Resume
<1>. QED  BY <1>3, <1>4, <1>5, <1>6, <1>7, <1>8, <1>9, <1>10, <1>11 DEF UiKey

LEMMA OtherStep ==
  ASSUME LifeInv, FireReset \/ Throw \/ CallRequest \/ ImmediateCall
  PROVE  LifeInv'
<1>. USE Parts
<1>1. CASE FireReset
  <2>1. RequestOK' /\ pc' = "slice"
    BY <1>1, SameOK DEF FireReset
  <2>2. FlowType' /\ WorldType' /\ DiskType' /\ PlaceType'
    BY <1>1 DEF FireReset, flow, world, FlowType, WorldType, DiskType, PlaceType
  <2>3. ClockType'
    BY <1>1 DEF FireReset, ClockType
  <2>. QED  BY <2>1, <2>2, <2>3, Stays
<1>2. CASE Throw
  <2>1. RequestOK' /\ pc' = "end"
    BY <1>2, SameOK DEF Throw
  <2>2. FlowType' /\ WorldType' /\ ClockType' /\ DiskType' /\ PlaceType'
    BY <1>2 DEF Throw, flow, world, clock, FlowType, WorldType, ClockType, DiskType, PlaceType
  <2>. QED  BY <2>1, <2>2, Stays
<1>3. CASE CallRequest
  <2>1. RequestOK' /\ FlowType' /\ resetArmed' \in BOOLEAN
    <3>1. paused \in BOOLEAN
      BY DEF FlowType
    <3>. QED  BY <1>3, <3>1, ExitOK, HardResetOK, SoftResetOK DEF CallRequest, ScheduleExit
  <2>2. pc' \in {"startup", "slice"}
    BY <1>3 DEF CallRequest
  <2>3. asks' \in 0 .. MaxAsks
    BY <1>3, AskType DEF CallRequest
  <2>4. WorldType' /\ ClockType' /\ DiskType' /\ PlaceType'
    BY <1>3, <2>1, <2>3 DEF CallRequest, world, WorldType, ClockType, DiskType, PlaceType
  <2>. QED  BY <2>1, <2>2, <2>4, Stays
<1>4. CASE ImmediateCall
  <2>1. PICK op \in {"save", "load"}, f \in Files : Immediate(op, f)
    BY <1>4 DEF ImmediateCall
  <2>2. 0 \in 0 .. Second + 1 /\ HandleSaveload(op, f, 0)
    BY <2>1, MachineAssumption DEF Immediate
  <2>3. RequestOK' /\ DiskType' /\ resetArmed' \in BOOLEAN /\ began' \in BOOLEAN
    BY <2>2, HandleOK
  <2>4. asks' \in 0 .. MaxAsks /\ pc' = "slice"
    BY <2>1, AskType DEF Immediate
  <2>5. FlowType' /\ WorldType' /\ ClockType' /\ PlaceType'
    BY <2>1, <2>3, <2>4 DEF Immediate, flow, world, FlowType, WorldType, ClockType, PlaceType
  <2>. QED  BY <2>3, <2>4, <2>5, Stays
<1>. QED  BY <1>1, <1>2, <1>3, <1>4

LEMMA InitLifeInv == LifeInit => LifeInv
<1>. SUFFICES ASSUME LifeInit PROVE LifeInv
  OBVIOUS
<1>1. RequestType /\ PendingAgree
  <2>1. options \in OptionRec
    BY MachineAssumption DEF LifeInit
  <2>2. StartupFile(system) \in Files \cup {None}
    BY <2>1, MachineAssumption DEF StartupFile, OptionRec
  <2>. QED  BY <2>2, MachineAssumption DEF LifeInit, RequestType, PendingAgree
<1>2. NoFile.there = FALSE /\ [NoFile EXCEPT !.there = TRUE, !.began = TRUE] \in State
  BY DEF NoFile, State
<1>3. DiskType
  BY <1>2 DEF LifeInit, DiskType
<1>4. FlowType /\ WorldType /\ ClockType /\ PlaceType
  <2>1. FlowType
    BY DEF LifeInit, FlowType
  <2>4. PlaceType
    BY MachineAssumption DEF LifeInit, PlaceType
  <2>2. WorldType
    <3>1. options \in OptionRec
      BY MachineAssumption DEF LifeInit
    <3>2. options.system \in {Empty, Game}
      BY <3>1 DEF OptionRec
    <3>. QED  BY <3>1, <3>2 DEF LifeInit, WorldType
  <2>3. ClockType
    BY DEF LifeInit, ClockType
  <2>. QED  BY <2>1, <2>2, <2>3, <2>4
<1>5. NothingLeft
  BY DEF LifeInit, NothingLeft
<1>. QED  BY <1>1, <1>3, <1>4, <1>5, LifeTypeParts DEF LifeInv

LEMMA LifeStutters == LifeInv /\ UNCHANGED lifeVars => LifeInv'
  BY DEF LifeInv, lifeVars, request, flow, world, clock, LifeTypeOK, PendingAgree, NothingLeft

LEMMA NextLifeInv ==
  ASSUME LifeInv, [LifeNext]_lifeVars
  PROVE  LifeInv'
<1>1. CASE MainStep
  BY <1>1, MainStepKeeps
<1>2. CASE NoKey \/ UiKey
  BY <1>2, UiStep
<1>3. CASE FireReset \/ Throw \/ CallRequest \/ ImmediateCall
  BY <1>3, OtherStep
<1>4. CASE Ended \/ UNCHANGED lifeVars
  BY <1>4, LifeStutters DEF Ended
<1>. QED  BY <1>1, <1>2, <1>3, <1>4 DEF LifeNext

\* Requests from keys, scripts and the debugger, failing files, one machine after
\* another: the variables keep their types.
THEOREM LifeTypeCorrect == LifeSpec => []LifeTypeOK
<1>1. LifeInv => LifeTypeOK
  BY DEF LifeInv
<1>. QED  BY <1>1, InitLifeInv, NextLifeInv, PTL DEF LifeSpec

\* Whoever asks for the operation or for the file name gets the same answer, and a
\* machine that leaves its loop has carried out or given up every request, the
\* save that its own exit scheduled included.
THEOREM NoRequestLost == LifeSpec => []RequestKept
<1>1. LifeInv => RequestKept
  BY DEF LifeInv, RequestKept
<1>. QED  BY <1>1, InitLifeInv, NextLifeInv, PTL DEF LifeSpec

----------------------------------------------------------------------------
(* Input lines. *)

\* What is left to set of a call of set_state_synced.
Todos == {<<"ASSERT", "CLEAR">>, <<>>} \cup {<<s>> : s \in States}

LEMMA TodoType ==
  /\ \A todo \in Todos : todo # <<>> => Head(todo) \in States /\ Tail(todo) \in Todos
  /\ Todos \subseteq Seq(States)
<1>1. States # {} /\ "CLEAR" \in States /\ "ASSERT" \in States
  BY DEF States
<1>2. ASSUME NEW todo \in Todos
      PROVE  todo \in Seq(States) /\ (todo # <<>> => Head(todo) \in States /\ Tail(todo) \in Todos)
  <2>1. CASE todo = <<"ASSERT", "CLEAR">>
    <3>1. todo \in Seq(States) /\ Head(todo) = "ASSERT" /\ Tail(todo) = <<"CLEAR">>
      BY <2>1, <1>1
    <3>. QED  BY <3>1, <1>1 DEF Todos
  <2>2. CASE todo = <<>>
    BY <2>2
  <2>3. CASE \E s \in States : todo = <<s>>
    <3>1. PICK s \in States : todo = <<s>>
      BY <2>3
    <3>2. todo \in Seq(States) /\ Head(todo) = s /\ Tail(todo) = <<>>
      BY <3>1
    <3>. QED  BY <3>2 DEF Todos
  <2>. QED  BY <2>1, <2>2, <2>3 DEF Todos
<1>. QED  BY <1>2

\* The calls, one kind at a time.
LEMMA CallIntro ==
  /\ \A l \in Lines, todo \in Todos, v \in Vectors \cup {UseStored} :
       SetCall(l, todo, v) \in Call
  /\ \A l \in Lines, n \in 0 .. QueueSize : EmptyCall(l, n) \in Call
  /\ \A l \in Interrupts : InputCall(l) \in Call /\ AckCall(l) \in Call
  /\ \A b \in BOOLEAN : ResetCall(b) \in Call
<1>1. \A l \in Lines, todo \in Todos, v \in Vectors \cup {UseStored} :
        SetCall(l, todo, v) \in Call
  BY DEF Call, Todos
<1>2. \A l \in Lines, n \in 0 .. QueueSize : EmptyCall(l, n) \in Call
  BY DEF Call
<1>3. \A l \in Interrupts : InputCall(l) \in Call /\ AckCall(l) \in Call
  BY DEF Call
<1>4. \A b \in BOOLEAN : ResetCall(b) \in Call
  BY DEF Call
<1>. QED  BY <1>1, <1>2, <1>3, <1>4

LEMMA CallCases ==
  ASSUME NEW c \in Call
  PROVE  \/ \E l \in Lines, todo \in Todos, v \in Vectors \cup {UseStored} :
              c = SetCall(l, todo, v)
         \/ \E l \in Lines, n \in 0 .. QueueSize : c = EmptyCall(l, n)
         \/ \E l \in Interrupts : c = InputCall(l)
         \/ \E l \in Interrupts : c = AckCall(l)
         \/ \E b \in BOOLEAN : c = ResetCall(b)
  BY DEF Call, Todos

LEMMA SetCallType ==
  ASSUME NEW c \in Call, c.fn = "set"
  PROVE  c.line \in Lines /\ c.todo \in Todos /\ c.vector \in Vectors \cup {UseStored}
  BY CallCases DEF SetCall, EmptyCall, InputCall, AckCall, ResetCall

LEMMA EmptyCallType ==
  ASSUME NEW c \in Call, c.fn = "empty"
  PROVE  c.line \in Lines /\ c.curevent \in 0 .. QueueSize
  BY CallCases DEF SetCall, EmptyCall, InputCall, AckCall, ResetCall

LEMMA DeviceCallType ==
  ASSUME NEW c \in Call, c.fn \in {"input", "acknowledge"}
  PROVE  c.line \in Interrupts /\ c.line \in Lines
  BY CallCases DEF SetCall, EmptyCall, InputCall, AckCall, ResetCall, Interrupts

\* The innermost call, and the stack it was made on.
LEMMA StackType ==
  ASSUME stack \in Seq(Call), stack # <<>>
  PROVE  /\ Head(stack) \in Call /\ Tail(stack) \in Seq(Call)
         /\ stack = <<Head(stack)>> \o Tail(stack)
  OBVIOUS

LEMMA StackCat ==
  ASSUME NEW s \in Seq(Call), NEW c \in Call
  PROVE  /\ <<c>> \in Seq(Call)
         /\ <<c>> \o s \in Seq(Call)
         /\ Len(<<c>> \o s) = Len(s) + 1
         /\ (<<c>> \o s)[1] = c
         /\ \A i \in 1 .. Len(s) : (<<c>> \o s)[i + 1] = s[i]
  OBVIOUS

\* A loop over the events of line l is among the calls of s.
WorkingIn(s, l) == \E i \in 1 .. Len(s) : s[i].fn = "empty" /\ s[i].line = l

LEMMA WorkingIsIn == \A l : Working(l) <=> WorkingIn(stack, l)
  BY DEF Working, WorkingIn

LEMMA WorkingCat ==
  ASSUME NEW s \in Seq(Call), NEW c \in Call, NEW l
  PROVE  WorkingIn(<<c>> \o s, l) <=> (c.fn = "empty" /\ c.line = l) \/ WorkingIn(s, l)
<1>. DEFINE t == <<c>> \o s
<1>1. Len(t) = Len(s) + 1 /\ t[1] = c /\ \A i \in 1 .. Len(s) : t[i + 1] = s[i]
  BY StackCat
<1>2. Len(s) \in Nat
  OBVIOUS
<1>. HIDE DEF t
<1>3. ASSUME WorkingIn(t, l) PROVE (c.fn = "empty" /\ c.line = l) \/ WorkingIn(s, l)
  <2>1. PICK i \in 1 .. Len(t) : t[i].fn = "empty" /\ t[i].line = l
    BY <1>3 DEF WorkingIn
  <2>2. CASE i = 1
    BY <2>1, <2>2, <1>1
  <2>3. CASE i # 1
    <3>1. i - 1 \in 1 .. Len(s) /\ t[(i - 1) + 1] = s[i - 1] /\ (i - 1) + 1 = i
      BY <2>1, <2>3, <1>1, <1>2
    <3>. QED  BY <3>1, <2>1 DEF WorkingIn
  <2>. QED  BY <2>2, <2>3
<1>4. ASSUME c.fn = "empty", c.line = l PROVE WorkingIn(t, l)
  <2>1. 1 \in 1 .. Len(t)
    BY <1>1, <1>2
  <2>. QED  BY <2>1, <1>1, <1>4 DEF WorkingIn
<1>5. ASSUME WorkingIn(s, l) PROVE WorkingIn(t, l)
  <2>1. PICK i \in 1 .. Len(s) : s[i].fn = "empty" /\ s[i].line = l
    BY <1>5 DEF WorkingIn
  <2>2. i + 1 \in 1 .. Len(t) /\ t[i + 1] = s[i]
    BY <1>1, <1>2, <2>1
  <2>. QED  BY <2>1, <2>2 DEF WorkingIn
<1>. QED  BY <1>3, <1>4, <1>5 DEF t

\* A call is made: the loops under way stay so.
LEMMA PushKeeps ==
  ASSUME NEW s \in Seq(Call), NEW c \in Call
  PROVE  <<c>> \o s \in Seq(Call) /\ \A l : WorkingIn(s, l) => WorkingIn(<<c>> \o s, l)
  BY StackCat, WorkingCat

\* The innermost call returns: only its own loop is over.
LEMMA PopKeeps ==
  ASSUME stack \in Seq(Call), stack # <<>>
  PROVE  \A l : WorkingIn(stack, l) => WorkingIn(Tail(stack), l)
                  \/ (Head(stack).fn = "empty" /\ Head(stack).line = l)
<1>1. stack = <<Head(stack)>> \o Tail(stack) /\ Head(stack) \in Call /\ Tail(stack) \in Seq(Call)
  BY StackType
<1>. DEFINE h == Head(stack)  t == Tail(stack)
<1>2. h \in Call /\ t \in Seq(Call) /\ stack = <<h>> \o t
  BY <1>1
<1>. HIDE DEF h, t
<1>3. \A l : WorkingIn(<<h>> \o t, l) <=> (h.fn = "empty" /\ h.line = l) \/ WorkingIn(t, l)
  BY <1>2, WorkingCat
<1>4. \A l : WorkingIn(stack, l) <=> (h.fn = "empty" /\ h.line = l) \/ WorkingIn(t, l)
  BY <1>2, <1>3
<1>. QED  BY <1>4 DEF h, t

\* The innermost call goes on as call c.
LEMMA ReplaceKeeps ==
  ASSUME stack \in Seq(Call), stack # <<>>, NEW c \in Call,
         Head(stack).fn = "empty" => c.fn = "empty" /\ c.line = Head(stack).line
  PROVE  /\ <<c>> \o Tail(stack) \in Seq(Call)
         /\ \A l : WorkingIn(stack, l) => WorkingIn(<<c>> \o Tail(stack), l)
<1>1. Tail(stack) \in Seq(Call)
  BY StackType
<1>2. \A l : WorkingIn(<<c>> \o Tail(stack), l)
              <=> (c.fn = "empty" /\ c.line = l) \/ WorkingIn(Tail(stack), l)
  BY <1>1, WorkingCat
<1>. QED  BY <1>1, <1>2, PopKeeps, StackCat

----------------------------------------------------------------------------
\* The inductive invariant, and the parts of the type invariant.
IInv == TypeOK /\ QueueHasTimer

QueueType == queue \in [Lines -> Seq(Event)] /\ \A l \in Lines : Len(queue[l]) <= QueueSize
LineType == /\ curstate \in [Lines -> States] /\ curvector \in [Lines -> Vectors]
            /\ stored \in [Lines -> Vectors]
DeviceType == /\ suspend \subseteq {"RESET", "HALT", "TRIGGER"}
              /\ cpuline \in [Lines -> BOOLEAN] /\ asked \in [Lines -> Event]
              /\ device \in Devices

LEMMA TypeParts ==
  TypeOK <=> /\ QueueType /\ LineType /\ DeviceType
             /\ file \in SavedType /\ timers \in [Lines -> Nat] /\ stack \in Seq(Call)
  BY DEF TypeOK, QueueType, LineType, DeviceType, Saved, SavedType

\* A step that leaves the queue and the timers alone and ends no loop.
LEMMA SameQueue ==
  ASSUME QueueHasTimer, queue' = queue, timers' = timers,
         \A l : WorkingIn(stack, l) => WorkingIn(stack', l)
  PROVE  QueueHasTimer'
  BY DEF QueueHasTimer, Working, WorkingIn

LEMMA EventOfType ==
  ASSUME TypeOK, NEW c \in Call, c.fn = "set", c.todo # <<>>
  PROVE  EventOf(c) \in Event
<1>1. c.line \in Lines /\ c.vector \in Vectors \cup {UseStored} /\ Head(c.todo) \in States
  BY SetCallType, TodoType
<1>2. (IF c.vector = UseStored THEN stored[c.line] ELSE c.vector) \in Vectors
  BY <1>1, TypeParts DEF LineType
<1>. QED  BY <1>1, <1>2 DEF EventOf, Event

LEMMA SetLineStep ==
  ASSUME IInv, NEW l \in Lines, NEW state \in States \cup {"PULSE"},
         NEW v \in Vectors \cup {UseStored}, SetLine(l, state, v)
  PROVE  IInv'
<1>. DEFINE todo == IF state = "PULSE" THEN <<"ASSERT", "CLEAR">> ELSE <<state>>
<1>1. todo \in Todos
  BY DEF Todos
<1>2. SetCall(l, todo, v) \in Call
  BY <1>1, CallIntro
<1>3. stack \in Seq(Call) /\ stack' = <<SetCall(l, todo, v)>> \o stack
  BY TypeParts DEF IInv, SetLine
<1>. HIDE DEF todo
<1>4. stack' \in Seq(Call) /\ \A k : WorkingIn(stack, k) => WorkingIn(stack', k)
  BY <1>2, <1>3, PushKeeps
<1>5. TypeOK'
  BY <1>4 DEF IInv, TypeOK, SetLine, Saved, lineVars
<1>6. QueueHasTimer'
  BY <1>4, SameQueue DEF IInv, SetLine
<1>. QED  BY <1>5, <1>6 DEF IInv

LEMMA EnqueueStep ==
  ASSUME IInv, Enqueue
  PROVE  IInv'
<1>. DEFINE call == Head(stack)  l == call.line
            c == SetCall(l, Tail(call.todo), call.vector)
<1>1. /\ stack \in Seq(Call) /\ stack # <<>> /\ call.fn = "set" /\ call.todo # <<>>
      /\ Len(queue[l]) < QueueSize
      /\ queue' = [queue EXCEPT ![l] = Append(@, EventOf(call))]
      /\ timers' = [timers EXCEPT ![l] = IF queue[l] = <<>> THEN @ + 1 ELSE @]
      /\ asked' = [asked EXCEPT ![l] = EventOf(call)]
      /\ stack' = <<c>> \o Tail(stack)
      /\ UNCHANGED <<lineVars, suspend, cpuline, file, device>>
  BY TypeParts DEF IInv, Enqueue, InCall
<1>2. call \in Call /\ l \in Lines /\ EventOf(call) \in Event /\ c \in Call /\ c.fn = "set"
  <2>1. call \in Call
    BY <1>1, StackType
  <2>2. l \in Lines /\ call.todo \in Todos /\ call.vector \in Vectors \cup {UseStored}
    BY <1>1, <2>1, SetCallType
  <2>3. Tail(call.todo) \in Todos
    BY <1>1, <2>2, TodoType
  <2>4. c \in Call
    BY <2>2, <2>3, CallIntro
  <2>. QED  BY <1>1, <2>1, <2>2, <2>4, EventOfType DEF IInv, SetCall
<1>. HIDE DEF call, l, c
<1>3. stack' \in Seq(Call) /\ \A k : WorkingIn(stack, k) => WorkingIn(stack', k)
  BY <1>1, <1>2, ReplaceKeeps DEF call
<1>4. QueueType' /\ timers' \in [Lines -> Nat] /\ asked' \in [Lines -> Event]
  BY <1>1, <1>2, TypeParts, InputLinesAssumption DEF IInv, QueueType, DeviceType
<1>5. TypeOK'
  BY <1>1, <1>3, <1>4, TypeParts DEF IInv, TypeOK, QueueType, LineType, DeviceType, Saved,
     SavedType, lineVars
<1>6. ASSUME NEW k \in Lines, queue'[k] # <<>>
      PROVE  timers'[k] > 0 \/ WorkingIn(stack', k)
  <2>1. timers \in [Lines -> Nat] /\ queue \in [Lines -> Seq(Event)]
    BY TypeParts DEF IInv, QueueType
  <2>2. queue[k] # <<>> => timers[k] > 0 \/ WorkingIn(stack', k)
    BY <1>3, WorkingIsIn DEF IInv, QueueHasTimer
  <2>3. timers[k] > 0 => timers'[k] > 0
    BY <1>1, <1>2, <2>1
  <2>4. queue[k] = <<>> => k = l
    BY <1>1, <1>2, <1>6, <2>1
  <2>5. queue[l] = <<>> => timers'[l] = timers[l] + 1
    BY <1>1, <1>2, <2>1
  <2>. QED  BY <2>1, <2>2, <2>3, <2>4, <2>5, <1>2
<1>7. QueueHasTimer'
  BY <1>6 DEF QueueHasTimer, Working, WorkingIn
<1>. QED  BY <1>5, <1>7 DEF IInv

LEMMA FlushStep ==
  ASSUME IInv, Flush
  PROVE  IInv'
<1>. DEFINE c == EmptyCall(Head(stack).line, 0)
<1>1. /\ stack \in Seq(Call) /\ stack # <<>> /\ Head(stack).fn = "set"
      /\ stack' = <<c>> \o stack
  BY TypeParts DEF IInv, Flush, InCall
<1>2. c \in Call
  <2>1. Head(stack) \in Call
    BY <1>1, StackType
  <2>2. Head(stack).line \in Lines
    BY <1>1, <2>1, SetCallType
  <2>3. 0 \in 0 .. QueueSize
    BY InputLinesAssumption
  <2>. QED  BY <2>2, <2>3, CallIntro
<1>. HIDE DEF c
<1>3. stack' \in Seq(Call) /\ \A k : WorkingIn(stack, k) => WorkingIn(stack', k)
  BY <1>1, <1>2, PushKeeps
<1>4. TypeOK'
  BY <1>3, TypeParts DEF Flush, IInv, TypeOK, Saved, lineVars
<1>5. QueueHasTimer'
  BY <1>3, SameQueue DEF IInv, Flush
<1>. QED  BY <1>4, <1>5 DEF IInv

LEMMA SetReturnsStep ==
  ASSUME IInv, SetReturns
  PROVE  IInv'
<1>1. /\ stack \in Seq(Call) /\ stack # <<>> /\ Head(stack).fn # "empty"
      /\ stack' = Tail(stack)
  BY TypeParts DEF IInv, SetReturns, InCall
<1>2. stack' \in Seq(Call) /\ \A k : WorkingIn(stack, k) => WorkingIn(stack', k)
  BY <1>1, StackType, PopKeeps
<1>3. TypeOK'
  BY <1>2 DEF SetReturns, IInv, TypeOK, Saved, lineVars
<1>4. QueueHasTimer'
  BY <1>2, SameQueue DEF IInv, SetReturns
<1>. QED  BY <1>3, <1>4 DEF IInv

LEMMA InputReturnsStep ==
  ASSUME IInv, InputReturns
  PROVE  IInv'
<1>1. /\ stack \in Seq(Call) /\ stack # <<>> /\ Head(stack).fn # "empty"
      /\ stack' = Tail(stack)
  BY TypeParts DEF IInv, InputReturns, InCall
<1>2. stack' \in Seq(Call) /\ \A k : WorkingIn(stack, k) => WorkingIn(stack', k)
  BY <1>1, StackType, PopKeeps
<1>3. TypeOK'
  BY <1>2, TypeParts DEF IInv, TypeOK, QueueType, LineType, DeviceType,
     Saved, SavedType, lineVars, InputReturns
<1>4. QueueHasTimer'
  BY <1>2, SameQueue DEF IInv, InputReturns
<1>. QED  BY <1>3, <1>4 DEF IInv

LEMMA AckReturnsStep ==
  ASSUME IInv, AckReturns
  PROVE  IInv'
<1>1. /\ stack \in Seq(Call) /\ stack # <<>> /\ Head(stack).fn # "empty"
      /\ stack' = Tail(stack)
  BY TypeParts DEF IInv, AckReturns, InCall
<1>2. stack' \in Seq(Call) /\ \A k : WorkingIn(stack, k) => WorkingIn(stack', k)
  BY <1>1, StackType, PopKeeps
<1>5. Head(stack) \in Call /\ Head(stack).fn = "acknowledge" /\ Head(stack).line \in Lines
  BY <1>1, StackType, DeviceCallType DEF AckReturns, InCall
<1>6. curstate' \in [Lines -> States]
  BY <1>5, TypeParts DEF IInv, LineType, AckReturns, States
<1>3. TypeOK'
  BY <1>2, <1>6, TypeParts DEF IInv, TypeOK, QueueType, LineType, DeviceType,
     Saved, SavedType, lineVars, AckReturns
<1>4. QueueHasTimer'
  BY <1>2, SameQueue DEF IInv, AckReturns
<1>. QED  BY <1>3, <1>4 DEF IInv

LEMMA FireTimerStep ==
  ASSUME IInv, NEW l \in Lines, FireTimer(l)
  PROVE  IInv'
<1>1. /\ stack = <<>> /\ timers \in [Lines -> Nat] /\ timers[l] > 0
      /\ timers' = [timers EXCEPT ![l] = @ - 1]
      /\ stack' = <<EmptyCall(l, 0)>>
  BY TypeParts DEF IInv, FireTimer
<1>2. EmptyCall(l, 0) \in Call
  BY CallIntro, InputLinesAssumption
<1>3. stack' \in Seq(Call) /\ WorkingIn(stack', l) /\ \A k : ~WorkingIn(stack, k)
  BY <1>1, <1>2 DEF WorkingIn, EmptyCall
<1>4. timers' \in [Lines -> Nat] /\ \A k \in Lines : k # l => timers'[k] = timers[k]
  BY <1>1
<1>5. TypeOK'
  BY <1>3, <1>4, TypeParts DEF FireTimer, IInv, TypeOK, Saved, lineVars
<1>6. ASSUME NEW k \in Lines, queue'[k] # <<>>
      PROVE  timers'[k] > 0 \/ WorkingIn(stack', k)
  BY <1>3, <1>4, <1>6, WorkingIsIn DEF IInv, QueueHasTimer, FireTimer
<1>7. QueueHasTimer'
  BY <1>6 DEF QueueHasTimer, Working, WorkingIn
<1>. QED  BY <1>5, <1>7 DEF IInv

\* The loop of empty_event_queue has taken an event; c is what it calls, if any.
LEMMA NextEventStep ==
  ASSUME IInv, NEW l \in Lines, NEW event \in Event, NEW calls,
         calls = <<>> \/ \E c \in Call : calls = <<c>>,
         NextEvent(l, event, calls),
         suspend' \subseteq {"RESET", "HALT", "TRIGGER"}, cpuline' \in [Lines -> BOOLEAN]
  PROVE  IInv'
<1>. DEFINE e == EmptyCall(l, Head(stack).curevent + 1)
            s == <<e>> \o Tail(stack)
<1>1. /\ stack \in Seq(Call) /\ stack # <<>>
      /\ Head(stack).fn = "empty" /\ Head(stack).line = l
      /\ Head(stack).curevent < Len(queue[l])
      /\ stack' = calls \o s
      /\ curstate' = [curstate EXCEPT ![l] = event.state]
      /\ curvector' = [curvector EXCEPT ![l] = event.vector]
      /\ UNCHANGED <<queue, stored, timers, asked, file, device>>
  BY TypeParts DEF IInv, NextEvent, InCall
<1>2. e \in Call /\ e.fn = "empty" /\ e.line = l
  <2>1. Head(stack).curevent \in 0 .. QueueSize
    BY <1>1, StackType, EmptyCallType
  <2>2. Len(queue[l]) <= QueueSize /\ Len(queue[l]) \in Nat
    BY TypeParts DEF IInv, QueueType
  <2>3. Head(stack).curevent + 1 \in 0 .. QueueSize
    BY <1>1, <2>1, <2>2, InputLinesAssumption
  <2>4. e \in Call
    BY <2>3, CallIntro
  <2>. QED  BY <2>4 DEF EmptyCall
<1>. HIDE DEF e
<1>3. s \in Seq(Call) /\ \A k : WorkingIn(stack, k) => WorkingIn(s, k)
  BY <1>1, <1>2, ReplaceKeeps
<1>. HIDE DEF s
<1>4. calls \o s \in Seq(Call) /\ \A k : WorkingIn(s, k) => WorkingIn(calls \o s, k)
  <2>1. CASE calls = <<>>
    BY <1>3, <2>1
  <2>2. CASE \E c \in Call : calls = <<c>>
    BY <1>3, <2>2, PushKeeps
  <2>. QED  BY <2>1, <2>2
<1>5. stack' \in Seq(Call) /\ \A k : WorkingIn(stack, k) => WorkingIn(stack', k)
  BY <1>1, <1>3, <1>4
<1>6. curstate' \in [Lines -> States] /\ curvector' \in [Lines -> Vectors]
  BY <1>1, TypeParts DEF IInv, LineType, Event
<1>7. TypeOK'
  BY <1>1, <1>5, <1>6, TypeParts DEF IInv, TypeOK, QueueType, LineType, DeviceType,
     Saved, SavedType, lineVars
<1>8. QueueHasTimer'
  BY <1>1, <1>5, SameQueue DEF IInv
<1>. QED  BY <1>7, <1>8 DEF IInv

LEMMA ApplyStep ==
  ASSUME IInv, AssertReset \/ ClearReset \/ ApplyHalt \/ \E l \in Interrupts : ApplyInput(l)
  PROVE  IInv'
<1>1. /\ suspend \subseteq {"RESET", "HALT", "TRIGGER"} /\ cpuline \in [Lines -> BOOLEAN]
      /\ stack \in Seq(Call)
  BY TypeParts DEF IInv, DeviceType
<1>2. ASSUME NEW l, NEW event, NEW calls, NextEvent(l, event, calls)
      PROVE  l \in Lines
  BY <1>1, <1>2, StackType, EmptyCallType DEF NextEvent, InCall
<1>3. CASE AssertReset
  <2>1. PICK event \in Event : NextEvent("RESET", event, <<>>)
                               /\ suspend' = suspend \cup {"RESET"} /\ UNCHANGED cpuline
    BY <1>3 DEF AssertReset
  <2>. QED  BY <1>1, <1>2, <2>1, NextEventStep
<1>4. CASE ClearReset
  <2>1. PICK event \in Event :
          /\ \/ NextEvent("RESET", event, <<ResetCall(TRUE)>>) /\ suspend' = {}
             \/ NextEvent("RESET", event, <<>>) /\ UNCHANGED suspend
          /\ UNCHANGED cpuline
    BY <1>4 DEF ClearReset
  <2>2. ResetCall(TRUE) \in Call
    BY CallIntro
  <2>3. CASE NextEvent("RESET", event, <<ResetCall(TRUE)>>) /\ suspend' = {}
    BY <1>1, <1>2, <2>1, <2>2, <2>3, NextEventStep
  <2>4. CASE NextEvent("RESET", event, <<>>) /\ UNCHANGED suspend
    BY <1>1, <1>2, <2>1, <2>4, NextEventStep
  <2>. QED  BY <2>1, <2>3, <2>4
<1>5. CASE ApplyHalt
  <2>1. PICK event \in Event :
          /\ NextEvent("HALT", event, <<>>) /\ UNCHANGED cpuline
          /\ suspend' = CASE event.state = "ASSERT" -> suspend \cup {"HALT"}
                          [] event.state = "CLEAR" -> suspend \ {"HALT"}
                          [] OTHER -> suspend
    BY <1>5 DEF ApplyHalt
  <2>2. suspend' \subseteq {"RESET", "HALT", "TRIGGER"}
    BY <1>1, <2>1
  <2>. QED  BY <1>1, <1>2, <2>1, <2>2, NextEventStep
<1>6. CASE \E l \in Interrupts : ApplyInput(l)
  <2>1. PICK l \in Interrupts, event \in Event :
          /\ NextEvent(l, event, <<InputCall(l)>>) /\ UNCHANGED suspend
          /\ cpuline' = [cpuline EXCEPT ![l] = event.state # "CLEAR"]
    BY <1>6 DEF ApplyInput
  <2>2. InputCall(l) \in Call /\ cpuline' \in [Lines -> BOOLEAN]
    BY <1>1, <2>1, CallIntro
  <2>. QED  BY <1>1, <1>2, <2>1, <2>2, NextEventStep
<1>. QED  BY <1>3, <1>4, <1>5, <1>6

LEMMA LoopEndsStep ==
  ASSUME IInv, LoopEnds
  PROVE  IInv'
<1>. DEFINE l == Head(stack).line
<1>1. /\ stack \in Seq(Call) /\ stack # <<>> /\ Head(stack).fn = "empty"
      /\ queue' = [queue EXCEPT ![l] = <<>>] /\ stack' = Tail(stack)
      /\ UNCHANGED <<lineVars, timers, suspend, cpuline, asked, file, device>>
  BY TypeParts DEF IInv, LoopEnds, InCall
<1>2. l \in Lines /\ stack' \in Seq(Call)
  BY <1>1, StackType, EmptyCallType
<1>3. \A k : WorkingIn(stack, k) => WorkingIn(stack', k) \/ k = l
  BY <1>1, PopKeeps
<1>. HIDE DEF l
<1>4. QueueType'
  BY <1>1, <1>2, TypeParts, InputLinesAssumption DEF IInv, QueueType
<1>5. TypeOK'
  BY <1>1, <1>2, <1>4, TypeParts DEF IInv, TypeOK, QueueType, LineType, DeviceType,
     Saved, SavedType, lineVars
<1>6. ASSUME NEW k \in Lines, queue'[k] # <<>>
      PROVE  timers'[k] > 0 \/ WorkingIn(stack', k)
  <2>1. queue \in [Lines -> Seq(Event)]
    BY TypeParts DEF IInv, QueueType
  <2>2. k # l /\ queue'[k] = queue[k]
    BY <1>1, <1>2, <1>6, <2>1
  <2>3. timers[k] > 0 \/ WorkingIn(stack, k)
    BY <1>6, <2>2, WorkingIsIn DEF IInv, QueueHasTimer
  <2>. QED  BY <1>1, <1>3, <2>2, <2>3
<1>7. QueueHasTimer'
  BY <1>6 DEF QueueHasTimer, Working, WorkingIn
<1>. QED  BY <1>5, <1>7 DEF IInv

LEMMA ResetReturnsStep ==
  ASSUME IInv, ResetReturns
  PROVE  IInv'
<1>1. /\ stack \in Seq(Call) /\ stack # <<>> /\ stack' = Tail(stack)
      /\ queue' = [l \in Lines |-> <<>>] /\ suspend' \subseteq suspend
  BY TypeParts DEF IInv, ResetReturns, InCall
<1>2. stack' \in Seq(Call)
  BY <1>1, StackType
<1>3. QueueType'
  BY <1>1, InputLinesAssumption DEF QueueType
<1>4. LineType'
  BY TypeParts, InputLinesAssumption DEF ResetReturns, IInv, LineType
<1>7. asked' \in [Lines -> Event]
  <2>1. \A l \in Lines : [state |-> curstate[l], vector |-> DefaultVector] \in Event
    BY TypeParts, InputLinesAssumption DEF IInv, LineType, Event
  <2>. QED  BY <2>1, TypeParts DEF ResetReturns, IInv, DeviceType
<1>5. TypeOK'
  BY <1>1, <1>2, <1>3, <1>4, <1>7, TypeParts DEF ResetReturns, IInv, TypeOK, QueueType, LineType,
     DeviceType, Saved, SavedType
<1>6. QueueHasTimer'
  BY <1>1 DEF QueueHasTimer
<1>. QED  BY <1>5, <1>6 DEF IInv

\* A call made when none is under way.
LEMMA FirstCall ==
  ASSUME NEW c \in Call, stack = <<>>
  PROVE  <<c>> \in Seq(Call) /\ \A k : ~WorkingIn(stack, k)
<1>1. <<c>> \in Seq(Call)
  OBVIOUS
<1>2. Len(stack) = 0
  OBVIOUS
<1>. QED  BY <1>1, <1>2 DEF WorkingIn

\* The steps of the device, outside any call or from within one.
LEMMA DeviceStep ==
  ASSUME IInv,
         \/ ResetDevice \/ WaitForInterrupt
         \/ \E l \in Interrupts : TakeInterrupt(l)
         \/ \E l \in Lines, v \in Vectors : SetVector(l, v)
  PROVE  IInv'
<1>1. stack \in Seq(Call)
  BY TypeParts DEF IInv
<1>2. CASE ResetDevice
  <2>1. stack' = <<ResetCall(FALSE)>> /\ ResetCall(FALSE) \in Call /\ stack = <<>>
    BY <1>2, CallIntro DEF ResetDevice
  <2>2. stack' \in Seq(Call) /\ \A k : ~WorkingIn(stack, k)
    BY <2>1, FirstCall
  <2>3. TypeOK'
    BY <1>2, <2>2, TypeParts DEF IInv, TypeOK, QueueType, LineType, DeviceType,
     Saved, SavedType, lineVars, ResetDevice
  <2>4. QueueHasTimer'
    BY <1>2, <2>2, SameQueue DEF IInv, ResetDevice
  <2>. QED  BY <2>3, <2>4 DEF IInv
<1>3. CASE WaitForInterrupt
  <2>1. TypeOK'
    BY <1>3, TypeParts DEF IInv, TypeOK, QueueType, LineType, DeviceType,
     Saved, SavedType, lineVars, WaitForInterrupt
  <2>2. QueueHasTimer'
    BY <1>3, SameQueue DEF IInv, WaitForInterrupt
  <2>. QED  BY <2>1, <2>2 DEF IInv
<1>4. CASE \E l \in Interrupts : TakeInterrupt(l)
  <2>1. PICK l \in Interrupts : TakeInterrupt(l)
    BY <1>4
  <2>2. stack' = <<AckCall(l)>> /\ AckCall(l) \in Call /\ stack = <<>>
    BY <2>1, CallIntro DEF TakeInterrupt
  <2>3. stack' \in Seq(Call) /\ \A k : ~WorkingIn(stack, k)
    BY <2>2, FirstCall
  <2>4. TypeOK'
    BY <2>1, <2>3, TypeParts DEF IInv, TypeOK, QueueType, LineType, DeviceType,
     Saved, SavedType, lineVars, TakeInterrupt
  <2>5. QueueHasTimer'
    BY <2>1, <2>3, SameQueue DEF IInv, TakeInterrupt
  <2>. QED  BY <2>4, <2>5 DEF IInv
<1>5. CASE \E l \in Lines, v \in Vectors : SetVector(l, v)
  <2>1. PICK l \in Lines, v \in Vectors : SetVector(l, v)
    BY <1>5
  <2>2. stored' \in [Lines -> Vectors]
    BY <2>1, TypeParts DEF IInv, LineType, SetVector
  <2>3. TypeOK'
    BY <2>1, <2>2, TypeParts DEF IInv, TypeOK, QueueType, LineType, DeviceType,
     Saved, SavedType, lineVars, SetVector
  <2>4. QueueHasTimer'
    BY <2>1, SameQueue DEF IInv, SetVector
  <2>. QED  BY <2>3, <2>4 DEF IInv
<1>. QED  BY <1>2, <1>3, <1>4, <1>5

\* The queue is neither saved nor loaded; no event waits when a state is.
LEMMA FileStep ==
  ASSUME IInv, SaveState \/ LoadState
  PROVE  IInv'
<1>1. CASE SaveState
  <2>1. TypeOK'
    BY <1>1, TypeParts DEF IInv, TypeOK, QueueType, LineType, DeviceType,
     Saved, SavedType, lineVars, SaveState
  <2>2. QueueHasTimer'
    BY <1>1, SameQueue DEF IInv, SaveState
  <2>. QED  BY <2>1, <2>2 DEF IInv
<1>2. CASE LoadState
  <2>1. TypeOK'
    BY <1>2, TypeParts DEF IInv, TypeOK, QueueType, LineType, DeviceType,
     Saved, SavedType, lineVars, LoadState
  <2>2. QueueHasTimer'
    BY <1>2, SameQueue DEF IInv, LoadState
  <2>. QED  BY <2>1, <2>2 DEF IInv
<1>. QED  BY <1>1, <1>2

LEMMA InitIInv == Init => IInv
<1>. SUFFICES ASSUME Init PROVE IInv
  OBVIOUS
<1>1. QueueType /\ QueueHasTimer
  BY InputLinesAssumption DEF Init, QueueType, QueueHasTimer
<1>2. LineType /\ DeviceType /\ timers \in [Lines -> Nat] /\ stack \in Seq(Call)
  BY InputLinesAssumption DEF Init, LineType, DeviceType, States, Event
<1>3. file \in SavedType
  BY <1>2 DEF Init, Saved, SavedType, LineType, DeviceType
<1>. QED  BY <1>1, <1>2, <1>3, TypeParts DEF IInv

LEMMA StutterStep == IInv /\ UNCHANGED vars => IInv'
  BY DEF IInv, vars, lineVars, TypeOK, Saved, QueueHasTimer, Working

LEMMA NextIInv ==
  ASSUME IInv, [Next]_vars
  PROVE  IInv'
<1>1. CASE \E l \in Lines, state \in States \cup {"PULSE"}, v \in Vectors \cup {UseStored} :
             SetLine(l, state, v)
  BY <1>1, SetLineStep
<1>2. CASE \E l \in Lines : FireTimer(l)
  BY <1>2, FireTimerStep
<1>3. CASE CallStep
  BY <1>3, EnqueueStep, FlushStep, SetReturnsStep, ApplyStep, InputReturnsStep, LoopEndsStep,
     ResetReturnsStep, AckReturnsStep DEF CallStep
<1>4. CASE UNCHANGED vars
  BY <1>4, StutterStep
<1>. QED  BY <1>1, <1>2, <1>3, <1>4, DeviceStep, FileStep DEF Next

\* Calls of a device that re-enter the code, resets in the middle of a loop,
\* state files: the variables keep their types and no queue overruns its array.
THEOREM TypeCorrect == Spec => []TypeOK
<1>1. IInv => TypeOK
  BY DEF IInv
<1>. QED  BY <1>1, InitIInv, NextIInv, PTL DEF Spec

\* An event that is queued is not forgotten: a timer waits to empty the queue,
\* or the loop that will take it is under way.
THEOREM NoEventForgotten == Spec => []QueueHasTimer
<1>1. IInv => QueueHasTimer
  BY DEF IInv
<1>. QED  BY <1>1, InitIInv, NextIInv, PTL DEF Spec
----------------------------------------------------------------------------
(* Lines settle as they were asked to. *)

\* Call c is under way in s.
In(s, c) == \E i \in 1 .. Len(s) : s[i] = c

\* The calls that can be under way: nothing, or a line that is set; over it a loop over its
\* events; over that what the loop calls; a reset or an acknowledge by themselves; and a
\* line that is set in any of these.
Bottom(s) == s = <<>> \/ (s # <<>> /\ Head(s).fn = "set" /\ Tail(s) = <<>>)
LoopOn(s) == s # <<>> /\ Head(s).fn = "empty" /\ Bottom(Tail(s))
DeviceOn(s) ==
  /\ s # <<>>
  /\ \/ Head(s).fn = "input" /\ LoopOn(Tail(s))
     \/ /\ Head(s).fn = "reset" /\ Head(s).byline
        /\ LoopOn(Tail(s)) /\ Head(Tail(s)).line = "RESET"
     \/ Head(s).fn = "reset" /\ ~Head(s).byline /\ Tail(s) = <<>>
     \/ Head(s).fn = "acknowledge" /\ Tail(s) = <<>>
SetOn(s) == s # <<>> /\ Head(s).fn = "set" /\ DeviceOn(Tail(s))

\* A line that is set from within a call finds room in its queue.
Shape ==
  /\ Bottom(stack) \/ LoopOn(stack) \/ DeviceOn(stack) \/ SetOn(stack)
  /\ SetOn(stack) => Len(queue[Head(stack).line]) + Len(Head(stack).todo) <= QueueSize

\* State, vector and request of a line agree, now or in a state file.
Agree(r, l) ==
  /\ r.curstate[l] = r.asked[l].state
       \/ (r.asked[l].state = "HOLD" /\ r.curstate[l] = "CLEAR")
  /\ r.curvector[l] = r.asked[l].vector
Told(r, l) == r.cpuline[l] <=> r.curstate[l] # "CLEAR"

\* What is queued ends in what was asked for last; a loop has applied the event before its
\* index; and where nothing is queued, the line is as asked for.
Requests ==
  \A l \in Lines \ {"RESET"} :
    /\ queue[l] = <<>> => Agree(Saved, l)
    /\ queue[l] # <<>> => queue[l][Len(queue[l])] = asked[l]
    /\ \A n \in 0 .. QueueSize : In(stack, EmptyCall(l, n)) =>
         /\ n <= Len(queue[l])
         /\ n >= 1 => curstate[l] = queue[l][n].state /\ curvector[l] = queue[l][n].vector

\* The device knows the state of its lines, except of one that it has just acknowledged.
DeviceTold ==
  \A l \in Interrupts :
    IF In(stack, AckCall(l)) THEN curstate[l] = "HOLD" /\ ~cpuline[l] ELSE Told(Saved, l)

FileAgrees ==
  /\ \A l \in Lines \ {"RESET"} : Agree(file, l)
  /\ \A l \in Interrupts : Told(file, l)

SettledInv == Shape /\ Requests /\ DeviceTold /\ FileAgrees

LEMMA ConsCall ==
  ASSUME NEW s \in Seq(Call), NEW c \in Call
  PROVE  /\ <<c>> \o s \in Seq(Call) /\ <<c>> \o s # <<>>
         /\ Head(<<c>> \o s) = c /\ Tail(<<c>> \o s) = s
         /\ \A d : In(<<c>> \o s, d) <=> c = d \/ In(s, d)
<1>. DEFINE t == <<c>> \o s
<1>1. Len(t) = Len(s) + 1 /\ t[1] = c /\ \A i \in 1 .. Len(s) : t[i + 1] = s[i]
  BY StackCat
<1>2. t \in Seq(Call) /\ t # <<>> /\ Head(t) = c /\ Tail(t) = s /\ Len(s) \in Nat
  OBVIOUS
<1>. HIDE DEF t
<1>3. ASSUME NEW d, In(t, d), c # d PROVE In(s, d)
  <2>1. PICK i \in 1 .. Len(t) : t[i] = d
    BY <1>3 DEF In
  <2>2. i - 1 \in 1 .. Len(s) /\ t[(i - 1) + 1] = s[i - 1] /\ (i - 1) + 1 = i
    BY <2>1, <1>1, <1>2, <1>3
  <2>. QED  BY <2>1, <2>2 DEF In
<1>4. In(t, c)
  BY <1>1, <1>2 DEF In
<1>5. ASSUME NEW d, In(s, d) PROVE In(t, d)
  <2>1. PICK i \in 1 .. Len(s) : s[i] = d
    BY <1>5 DEF In
  <2>2. i + 1 \in 1 .. Len(t) /\ t[i + 1] = s[i]
    BY <1>1, <1>2, <2>1
  <2>. QED  BY <2>1, <2>2 DEF In
<1>. QED  BY <1>2, <1>3, <1>4, <1>5 DEF t

LEMMA Uncons ==
  ASSUME NEW s \in Seq(Call)
  PROVE  /\ s = <<>> => \A d : ~In(s, d)
         /\ s # <<>> => /\ Head(s) \in Call /\ Tail(s) \in Seq(Call)
                        /\ \A d : In(s, d) <=> Head(s) = d \/ In(Tail(s), d)
<1>1. s = <<>> => \A d : ~In(s, d)
  BY DEF In
<1>2. ASSUME s # <<>>
      PROVE  /\ Head(s) \in Call /\ Tail(s) \in Seq(Call)
             /\ \A d : In(s, d) <=> Head(s) = d \/ In(Tail(s), d)
  <2>. DEFINE h == Head(s)  t == Tail(s)
  <2>1. h \in Call /\ t \in Seq(Call) /\ s = <<h>> \o t
    BY <1>2
  <2>. HIDE DEF h, t
  <2>2. \A d : In(<<h>> \o t, d) <=> h = d \/ In(t, d)
    BY <2>1, ConsCall
  <2>3. \A d : In(s, d) <=> h = d \/ In(t, d)
    BY <2>1, <2>2
  <2>. QED  BY <2>1, <2>3 DEF h, t
<1>. QED  BY <1>1, <1>2

\* A call is what it is called.
LEMMA CallNames ==
  /\ \A l, n : /\ EmptyCall(l, n).fn = "empty" /\ EmptyCall(l, n).line = l
               /\ AckCall(l).fn = "acknowledge"
  /\ \A l, n, k, m : EmptyCall(l, n) = EmptyCall(k, m) => l = k /\ n = m
  /\ \A l, k : AckCall(l) = AckCall(k) => l = k
  /\ \A c \in Call : c.fn = "empty" => c = EmptyCall(c.line, c.curevent)
  /\ \A c \in Call : c.fn = "acknowledge" => c = AckCall(c.line)
<1>1. \A l, n : /\ EmptyCall(l, n).fn = "empty" /\ AckCall(l).fn = "acknowledge"
                /\ EmptyCall(l, n).line = l /\ EmptyCall(l, n).curevent = n
                /\ AckCall(l).line = l
  BY DEF EmptyCall, AckCall
<1>2. \A c \in Call : c.fn = "empty" => c = EmptyCall(c.line, c.curevent)
  BY <1>1, CallCases DEF SetCall, InputCall, AckCall, ResetCall
<1>3. \A c \in Call : c.fn = "acknowledge" => c = AckCall(c.line)
  BY <1>1, CallCases DEF SetCall, InputCall, EmptyCall, ResetCall
<1>. QED  BY <1>1, <1>2, <1>3

\* Which loops and acknowledges are under way in stacks of each shape.
LEMMA ShapeFacts ==
  ASSUME NEW s \in Seq(Call), NEW l
  PROVE  /\ Bottom(s) => ~In(s, AckCall(l)) /\ \A n : ~In(s, EmptyCall(l, n))
         /\ LoopOn(s) => /\ ~In(s, AckCall(l))
                         /\ \A n : /\ In(s, EmptyCall(l, n)) <=> Head(s) = EmptyCall(l, n)
                                   /\ ~In(Tail(s), EmptyCall(l, n))
         /\ DeviceOn(s) =>
              /\ Head(s).fn # "acknowledge" => ~In(s, AckCall(l))
              /\ Head(s).fn = "acknowledge" =>
                   /\ In(s, AckCall(l)) <=> Head(s).line = l
                   /\ \A n : ~In(s, EmptyCall(l, n))
              /\ Head(s).fn = "reset" /\ l # "RESET" => \A n : ~In(s, EmptyCall(l, n))
<1>1. ASSUME NEW t \in Seq(Call), Bottom(t)
      PROVE  ~In(t, AckCall(l)) /\ \A n : ~In(t, EmptyCall(l, n))
  <2>1. CASE t = <<>>
    BY <2>1, Uncons
  <2>2. CASE t # <<>> /\ Head(t).fn = "set" /\ Tail(t) = <<>>
    <3>1. \A d : In(t, d) <=> Head(t) = d \/ In(<<>>, d)
      BY <2>2, Uncons
    <3>2. \A d : ~In(<<>>, d)
      BY DEF In
    <3>. QED  BY <2>2, <3>1, <3>2, CallNames
  <2>. QED  BY <1>1, <2>1, <2>2 DEF Bottom
<1>2. ASSUME NEW t \in Seq(Call), LoopOn(t)
      PROVE  /\ ~In(t, AckCall(l))
             /\ \A n : /\ In(t, EmptyCall(l, n)) <=> Head(t) = EmptyCall(l, n)
                       /\ ~In(Tail(t), EmptyCall(l, n))
  BY <1>1, <1>2, Uncons, CallNames DEF LoopOn
<1>3. ASSUME DeviceOn(s)
      PROVE  /\ Head(s).fn # "acknowledge" => ~In(s, AckCall(l))
             /\ Head(s).fn = "acknowledge" =>
                  /\ In(s, AckCall(l)) <=> Head(s).line = l
                  /\ \A n : ~In(s, EmptyCall(l, n))
             /\ Head(s).fn = "reset" /\ l # "RESET" => \A n : ~In(s, EmptyCall(l, n))
  <2>1. Head(s) \in Call /\ Tail(s) \in Seq(Call) /\ s # <<>>
        /\ \A d : In(s, d) <=> Head(s) = d \/ In(Tail(s), d)
    BY <1>3, Uncons DEF DeviceOn
  <2>2. CASE LoopOn(Tail(s)) /\ Head(s).fn \in {"input", "reset"}
             /\ (Head(s).fn = "reset" => Head(Tail(s)).line = "RESET")
    <3>1. \A n : Head(Tail(s)) = EmptyCall(l, n) => Head(Tail(s)).line = l
      BY CallNames
    <3>2. ~In(Tail(s), AckCall(l))
          /\ \A n : In(Tail(s), EmptyCall(l, n)) => Head(Tail(s)) = EmptyCall(l, n)
      BY <1>2, <2>1, <2>2
    <3>3. \A n : Head(s) # EmptyCall(l, n) /\ Head(s) # AckCall(l)
      BY <2>2, CallNames
    <3>. QED  BY <2>1, <2>2, <3>1, <3>2, <3>3
  <2>3. CASE Tail(s) = <<>> /\ Head(s).fn \in {"reset", "acknowledge"}
    <3>1. \A d : In(s, d) <=> Head(s) = d
      BY <2>1, <2>3, Uncons
    <3>. QED  BY <2>1, <2>3, <3>1, CallNames DEF AckCall
  <2>. QED  BY <1>3, <2>2, <2>3 DEF DeviceOn
<1>. QED  BY <1>1, <1>2, <1>3

\* A step that leaves the lines alone, makes no acknowledge, and starts loops at most.
LEMMA QuietStep ==
  ASSUME Requests, DeviceTold, UNCHANGED <<queue, curstate, curvector, asked, cpuline>>,
         queue \in [Lines -> Seq(Event)],
         \A l, n : In(stack', EmptyCall(l, n)) => n = 0 \/ In(stack, EmptyCall(l, n)),
         \A l : In(stack', AckCall(l)) <=> In(stack, AckCall(l))
  PROVE  Requests' /\ DeviceTold'
<1>1. \A l \in Lines : Len(queue[l]) \in Nat
  OBVIOUS
<1>2. Requests'
  BY <1>1 DEF Requests, Agree, Saved
<1>3. DeviceTold'
  BY DEF DeviceTold, Told, Saved
<1>. QED  BY <1>2, <1>3

LEMMA QuietInv ==
  ASSUME IInv, SettledInv, UNCHANGED <<queue, curstate, curvector, asked, cpuline, file>>,
         Shape',
         \A l, n : In(stack', EmptyCall(l, n)) => n = 0 \/ In(stack, EmptyCall(l, n)),
         \A l : In(stack', AckCall(l)) <=> In(stack, AckCall(l))
  PROVE  SettledInv'
<1>1. Requests' /\ DeviceTold'
  BY QuietStep, TypeParts DEF SettledInv, IInv, QueueType
<1>2. FileAgrees'
  BY DEF SettledInv, FileAgrees, Agree, Told
<1>. QED  BY <1>1, <1>2 DEF SettledInv

\* What the innermost call says of the calls under way.
LEMMA HeadShape ==
  ASSUME Shape, stack # <<>>
  PROVE  /\ Head(stack).fn = "set" => Bottom(stack) \/ SetOn(stack)
         /\ Head(stack).fn = "empty" => LoopOn(stack)
         /\ Head(stack).fn \in {"input", "reset", "acknowledge"} => DeviceOn(stack)
  BY DEF Shape, Bottom, LoopOn, DeviceOn, SetOn

\* Lines are set only from outside any call or by a device that is called back.
LEMMA NoRoomNeeded ==
  ASSUME NEW s, Bottom(s) \/ LoopOn(s) \/ DeviceOn(s)
  PROVE  ~SetOn(s)
  BY DEF Bottom, LoopOn, DeviceOn, SetOn

\* The first call of all.
LEMMA FirstOn ==
  ASSUME NEW c \in Call
  PROVE  /\ <<c>> = <<c>> \o <<>> /\ <<>> \in Seq(Call)
         /\ <<c>> # <<>> /\ Head(<<c>>) = c /\ Tail(<<c>>) = <<>>
         /\ \A d : In(<<c>>, d) <=> c = d
<1>1. <<c>> = <<c>> \o <<>> /\ <<>> \in Seq(Call)
  OBVIOUS
<1>2. <<c>> # <<>> /\ Head(<<c>>) = c /\ Tail(<<c>>) = <<>>
  OBVIOUS
<1>3. \A d : ~In(<<>>, d)
  BY <1>1, Uncons
<1>4. \A d : In(<<c>> \o <<>>, d) <=> c = d \/ In(<<>>, d)
  BY <1>1, ConsCall
<1>. QED  BY <1>1, <1>2, <1>3, <1>4

LEMMA TodoLength ==
  \A todo \in Todos : /\ Len(todo) \in Nat
                      /\ todo # <<>> => Len(todo) >= 1 /\ Len(Tail(todo)) = Len(todo) - 1
  BY TodoType

LEMMA SetLineSettles ==
  ASSUME IInv, SettledInv, NEW l \in Lines, NEW state \in States \cup {"PULSE"},
         NEW v \in Vectors \cup {UseStored}, SetLine(l, state, v)
  PROVE  SettledInv'
<1>. DEFINE todo == IF state = "PULSE" THEN <<"ASSERT", "CLEAR">> ELSE <<state>>
            c == SetCall(l, todo, v)
<1>1. todo \in Todos /\ Len(todo) = Events(state)
  BY DEF Todos, Events
<1>2. c \in Call /\ c.fn = "set" /\ c.line = l /\ c.todo = todo
  BY <1>1, CallIntro DEF SetCall
<1>3. stack \in Seq(Call) /\ stack' = <<c>> \o stack /\ Len(queue[l]) \in Nat
  BY TypeParts DEF IInv, SetLine, QueueType
<1>. HIDE DEF todo, c
<1>4. /\ stack' # <<>> /\ Head(stack') = c /\ Tail(stack') = stack
      /\ \A d : In(stack', d) <=> c = d \/ In(stack, d)
  BY <1>2, <1>3, ConsCall
<1>5. Shape'
  <2>1. CASE stack = <<>>
    <3>1. Bottom(stack')
      BY <1>2, <1>4, <2>1 DEF Bottom
    <3>. QED  BY <3>1, NoRoomNeeded DEF Shape
  <2>2. CASE stack # <<>>
    <3>1. Head(stack).fn \in {"input", "reset", "acknowledge"}
          /\ Len(queue[l]) <= QueueSize - Events(state) /\ queue' = queue
      BY <2>2 DEF SetLine, CodeRuns, InCall
    <3>2. DeviceOn(stack)
      BY <2>2, <3>1, HeadShape DEF SettledInv
    <3>3. SetOn(stack')
      BY <1>2, <1>4, <3>2 DEF SetOn
    <3>4. Len(queue'[l]) + Len(todo) <= QueueSize
      <4>1. Events(state) \in 1 .. 2 /\ QueueSize \in Nat
        BY InputLinesAssumption DEF Events
      <4>. QED  BY <1>1, <1>3, <3>1, <4>1
    <3>. QED  BY <1>2, <1>4, <3>3, <3>4 DEF Shape
  <2>. QED  BY <2>1, <2>2
<1>6. \A k, n : c # EmptyCall(k, n) /\ c # AckCall(k)
  BY <1>2, CallNames
<1>7. UNCHANGED <<queue, curstate, curvector, asked, cpuline, file>>
  BY DEF SetLine, lineVars
<1>. QED  BY <1>4, <1>5, <1>6, <1>7, QuietInv

LEMMA FlushSettles ==
  ASSUME IInv, SettledInv, Flush
  PROVE  SettledInv'
<1>. DEFINE call == Head(stack)  c == EmptyCall(call.line, 0)
<1>1. /\ stack \in Seq(Call) /\ stack # <<>> /\ call.fn = "set" /\ call.todo # <<>>
      /\ Len(queue[call.line]) = QueueSize /\ stack' = <<c>> \o stack
  BY TypeParts DEF IInv, Flush, InCall
<1>2. call \in Call /\ call.line \in Lines /\ call.todo \in Todos
  BY <1>1, StackType, SetCallType
<1>3. c \in Call
  <2>1. 0 \in 0 .. QueueSize
    BY InputLinesAssumption
  <2>. QED  BY <1>2, <2>1, CallIntro
<1>6. c.fn = "empty" /\ \A k, n : (c = EmptyCall(k, n) => n = 0) /\ c # AckCall(k)
  BY CallNames
<1>. HIDE DEF c
<1>4. /\ stack' # <<>> /\ Head(stack') = c /\ Tail(stack') = stack
      /\ \A d : In(stack', d) <=> c = d \/ In(stack, d)
  BY <1>1, <1>3, ConsCall
<1>5. Shape'
  <2>1. Len(call.todo) \in Nat /\ Len(call.todo) >= 1
    BY <1>1, <1>2, TodoLength
  <2>2. ~SetOn(stack)
    BY <1>1, <2>1, InputLinesAssumption DEF SettledInv, Shape
  <2>3. Bottom(stack)
    BY <1>1, <2>2, HeadShape DEF SettledInv
  <2>4. LoopOn(stack')
    BY <1>4, <1>6, <2>3 DEF LoopOn
  <2>. QED  BY <2>4, NoRoomNeeded DEF Shape
<1>7. UNCHANGED <<queue, curstate, curvector, asked, cpuline, file>>
  BY DEF Flush, lineVars
<1>. QED  BY <1>4, <1>5, <1>6, <1>7, QuietInv

\* A call returns that is neither a loop nor an acknowledge.
LEMMA ReturnSettles ==
  ASSUME IInv, SettledInv, SetReturns \/ InputReturns
  PROVE  SettledInv'
<1>1. /\ stack \in Seq(Call) /\ stack # <<>> /\ Head(stack).fn \in {"set", "input"}
      /\ stack' = Tail(stack)
  BY TypeParts DEF IInv, SetReturns, InputReturns, InCall
<1>2. \A d : In(stack, d) <=> Head(stack) = d \/ In(stack', d)
  BY <1>1, Uncons
<1>3. \A k, n : Head(stack) # EmptyCall(k, n) /\ Head(stack) # AckCall(k)
  BY <1>1, CallNames
<1>4. Bottom(stack') \/ LoopOn(stack') \/ DeviceOn(stack')
  <2>1. CASE Head(stack).fn = "set"
    BY <1>1, <2>1, HeadShape DEF SettledInv, Bottom, SetOn
  <2>2. CASE Head(stack).fn = "input"
    BY <1>1, <2>2, HeadShape DEF SettledInv, DeviceOn
  <2>. QED  BY <1>1, <2>1, <2>2
<1>5. Shape'
  BY <1>4, NoRoomNeeded DEF Shape
<1>6. UNCHANGED <<queue, curstate, curvector, asked, cpuline, file>>
  BY DEF SetReturns, InputReturns, lineVars
<1>. QED  BY <1>2, <1>3, <1>5, <1>6, QuietInv

\* The timer calls the loop, or a parent resets the device: the first call.
LEMMA FirstCallSettles ==
  ASSUME IInv, SettledInv, ResetDevice \/ \E l \in Lines : FireTimer(l)
  PROVE  SettledInv'
<1>1. PICK c \in Call : /\ stack = <<>> /\ stack' = <<c>>
                        /\ c = ResetCall(FALSE) \/ \E l \in Lines : c = EmptyCall(l, 0)
  <2>1. 0 \in 0 .. QueueSize /\ FALSE \in BOOLEAN
    BY InputLinesAssumption
  <2>. QED  BY <2>1, CallIntro DEF ResetDevice, FireTimer
<1>2. /\ stack' # <<>> /\ Head(stack') = c /\ Tail(stack') = <<>>
      /\ \A d : In(stack', d) <=> c = d
  BY <1>1, FirstOn
<1>3. \A d : ~In(stack, d)
  BY <1>1, Uncons, FirstOn
<1>4. \A k, n : (c = EmptyCall(k, n) => n = 0) /\ c # AckCall(k)
  BY <1>1, CallNames DEF ResetCall
<1>5. LoopOn(stack') \/ DeviceOn(stack')
  BY <1>1, <1>2, CallNames DEF LoopOn, DeviceOn, Bottom, ResetCall
<1>6. Shape'
  BY <1>5, NoRoomNeeded DEF Shape
<1>7. UNCHANGED <<queue, curstate, curvector, asked, cpuline, file>>
  BY DEF ResetDevice, FireTimer, lineVars
<1>. QED  BY <1>2, <1>3, <1>4, <1>6, <1>7, QuietInv

\* Steps that make no call and leave the lines alone.
LEMMA StillSettles ==
  ASSUME IInv, SettledInv,
         \/ UNCHANGED vars \/ WaitForInterrupt
         \/ \E l \in Lines, v \in Vectors : SetVector(l, v)
  PROVE  SettledInv'
<1>1. stack' = stack /\ UNCHANGED <<queue, curstate, curvector, asked, cpuline, file>>
  BY DEF WaitForInterrupt, SetVector, vars, lineVars
<1>2. Shape'
  BY <1>1 DEF SettledInv, Shape
<1>. QED  BY <1>1, <1>2, QuietInv

LEMMA TakeInterruptSettles ==
  ASSUME IInv, SettledInv, NEW l \in Interrupts, TakeInterrupt(l)
  PROVE  SettledInv'
<1>. DEFINE c == AckCall(l)
<1>1. /\ stack = <<>> /\ stack' = <<c>> /\ c \in Call /\ c.fn = "acknowledge"
      /\ curstate[l] = "HOLD"
      /\ cpuline' = [cpuline EXCEPT ![l] = FALSE] /\ cpuline \in [Lines -> BOOLEAN]
      /\ l \in Lines /\ UNCHANGED <<queue, curstate, curvector, asked, file>>
  BY CallIntro, CallNames, TypeParts DEF TakeInterrupt, IInv, DeviceType, Interrupts, lineVars
<1>2. \A k, n : c # EmptyCall(k, n) /\ (c = AckCall(k) <=> k = l)
  BY CallNames
<1>. HIDE DEF c
<1>3. /\ stack' # <<>> /\ Head(stack') = c /\ Tail(stack') = <<>>
      /\ \A d : In(stack', d) <=> c = d
  BY <1>1, FirstOn
<1>4. \A d : ~In(stack, d)
  BY <1>1, Uncons, FirstOn
<1>5. Shape'
  <2>1. DeviceOn(stack')
    BY <1>1, <1>3 DEF DeviceOn
  <2>. QED  BY <2>1, NoRoomNeeded DEF Shape
<1>6. Requests'
  BY <1>1, <1>2, <1>3 DEF SettledInv, Requests, Agree, Saved
<1>7. DeviceTold'
  <2>1. \A k \in Interrupts : cpuline'[k] = IF k = l THEN FALSE ELSE cpuline[k]
    BY <1>1 DEF Interrupts
  <2>2. \A k \in Interrupts : In(stack', AckCall(k)) <=> k = l
    BY <1>2, <1>3
  <2>3. \A k \in Interrupts : cpuline[k] <=> curstate[k] # "CLEAR"
    BY <1>4 DEF SettledInv, DeviceTold, Told, Saved
  <2>. QED  BY <1>1, <2>1, <2>2, <2>3 DEF DeviceTold, Told, Saved
<1>8. FileAgrees'
  BY <1>1 DEF SettledInv, FileAgrees, Agree, Told
<1>. QED  BY <1>5, <1>6, <1>7, <1>8 DEF SettledInv

LEMMA AckReturnsSettles ==
  ASSUME IInv, SettledInv, AckReturns
  PROVE  SettledInv'
<1>. DEFINE l == Head(stack).line
<1>1. /\ stack \in Seq(Call) /\ stack # <<>> /\ Head(stack).fn = "acknowledge"
      /\ curstate' = [curstate EXCEPT ![l] = "CLEAR"] /\ curstate \in [Lines -> States]
      /\ UNCHANGED <<queue, curvector, asked, cpuline, file>> /\ stack' = Tail(stack)
  BY TypeParts DEF AckReturns, InCall, IInv, LineType
<1>2. Head(stack) \in Call /\ l \in Interrupts /\ l \in Lines
  BY <1>1, StackType, DeviceCallType
<1>3. DeviceOn(stack) /\ Tail(stack) = <<>>
  BY <1>1, HeadShape DEF SettledInv, DeviceOn
<1>4. /\ \A k : In(stack, AckCall(k)) <=> k = l
      /\ \A d : ~In(stack', d)
  BY <1>1, <1>3, ShapeFacts, Uncons, FirstOn
<1>. HIDE DEF l
<1>5. Shape'
  <2>1. Bottom(stack')
    BY <1>1, <1>3 DEF Bottom
  <2>. QED  BY <2>1, NoRoomNeeded DEF Shape
<1>6. \A k \in Lines : curstate'[k] = IF k = l THEN "CLEAR" ELSE curstate[k]
  BY <1>1
<1>7. curstate[l] = "HOLD" /\ ~cpuline[l]
  BY <1>2, <1>4 DEF SettledInv, DeviceTold
<1>8. Requests'
  BY <1>1, <1>4, <1>6, <1>7 DEF SettledInv, Requests, Agree, Saved
<1>9. DeviceTold'
  <2>1. \A k \in Interrupts : k # l => (cpuline[k] <=> curstate[k] # "CLEAR")
    BY <1>4 DEF SettledInv, DeviceTold, Told, Saved
  <2>. QED  BY <1>1, <1>4, <1>6, <1>7, <2>1 DEF DeviceTold, Told, Saved, Interrupts
<1>10. FileAgrees'
  BY <1>1 DEF SettledInv, FileAgrees, Agree, Told
<1>. QED  BY <1>5, <1>8, <1>9, <1>10 DEF SettledInv

LEMMA ResetReturnsSettles ==
  ASSUME IInv, SettledInv, ResetReturns
  PROVE  SettledInv'
<1>1. /\ stack \in Seq(Call) /\ stack # <<>> /\ Head(stack).fn = "reset" /\ stack' = Tail(stack)
      /\ queue' = [l \in Lines |-> <<>>] /\ curvector' = [l \in Lines |-> DefaultVector]
      /\ UNCHANGED <<curstate, cpuline, file>>
  BY TypeParts DEF ResetReturns, InCall, IInv
<1>2. \A l \in Lines \ {"RESET"} :
        asked'[l].state = curstate[l] /\ asked'[l].vector = DefaultVector
  BY DEF ResetReturns
<1>3. DeviceOn(stack) /\ stack' \in Seq(Call)
  BY <1>1, HeadShape, StackType DEF SettledInv
<1>4. LoopOn(stack') \/ stack' = <<>>
  BY <1>1, <1>3 DEF DeviceOn
<1>5. \A k, n : /\ ~In(stack, AckCall(k)) /\ ~In(stack', AckCall(k))
                /\ k # "RESET" => ~In(stack', EmptyCall(k, n))
  <2>1. \A k, n : /\ ~In(stack, AckCall(k))
                  /\ k # "RESET" => ~In(stack, EmptyCall(k, n))
    BY <1>1, <1>3, ShapeFacts
  <2>2. \A d : In(stack', d) => In(stack, d)
    BY <1>1, Uncons
  <2>. QED  BY <2>1, <2>2
<1>6. Shape'
  <2>1. LoopOn(stack') \/ Bottom(stack')
    BY <1>4 DEF Bottom
  <2>. QED  BY <2>1, NoRoomNeeded DEF Shape
<1>7. Requests'
  BY <1>1, <1>2, <1>5 DEF Requests, Agree, Saved
<1>8. DeviceTold'
  BY <1>1, <1>5 DEF SettledInv, DeviceTold, Told, Saved
<1>9. FileAgrees'
  BY <1>1 DEF SettledInv, FileAgrees, Agree, Told
<1>. QED  BY <1>6, <1>7, <1>8, <1>9 DEF SettledInv

\* Nothing waits when a state is saved or loaded.
LEMMA FileSettles ==
  ASSUME IInv, SettledInv, SaveState \/ LoadState
  PROVE  SettledInv'
<1>1. stack = <<>> /\ stack' = stack /\ queue' = queue /\ \A l \in Lines : queue[l] = <<>>
  <2>1. stack = <<>> /\ \A l \in Lines : timers[l] = 0
    BY DEF SaveState, LoadState, CanSave
  <2>2. \A l : ~Working(l)
    BY <2>1 DEF Working
  <2>. QED  BY <2>1, <2>2 DEF IInv, QueueHasTimer, SaveState, LoadState
<1>2. \A d : ~In(stack, d)
  <2>1. Len(stack) = 0
    BY <1>1
  <2>. QED  BY <2>1 DEF In
<1>3. Shape'
  BY <1>1 DEF SettledInv, Shape
<1>4. /\ \A l \in Lines \ {"RESET"} : Agree(Saved, l)
      /\ \A l \in Interrupts : Told(Saved, l)
  BY <1>1, <1>2 DEF SettledInv, Requests, DeviceTold
<1>5. CASE SaveState
  <2>1. file' = Saved /\ UNCHANGED <<curstate, curvector, asked, cpuline>>
    BY <1>5 DEF SaveState, lineVars
  <2>2. Requests' /\ DeviceTold'
    BY <1>1, <1>2, <2>1 DEF SettledInv, Requests, DeviceTold, Agree, Told, Saved
  <2>3. FileAgrees'
    BY <1>4, <2>1 DEF FileAgrees, Agree, Told
  <2>. QED  BY <1>3, <2>2, <2>3 DEF SettledInv
<1>6. CASE LoadState
  <2>1. /\ curstate' = file.curstate /\ curvector' = file.curvector
        /\ cpuline' = file.cpuline /\ asked' = file.asked /\ file' = file
    BY <1>6 DEF LoadState
  <2>2. /\ \A l \in Lines \ {"RESET"} : Agree(file, l)
        /\ \A l \in Interrupts : Told(file, l)
    BY DEF SettledInv, FileAgrees
  <2>3. Requests'
    BY <1>1, <1>2, <2>1, <2>2 DEF Requests, Agree, Saved
  <2>4. DeviceTold'
    BY <1>1, <1>2, <2>1, <2>2 DEF DeviceTold, Told, Saved
  <2>5. FileAgrees'
    BY <2>1, <2>2 DEF FileAgrees, Agree, Told
  <2>. QED  BY <1>3, <2>3, <2>4, <2>5 DEF SettledInv
<1>. QED  BY <1>5, <1>6

LEMMA EnqueueSettles ==
  ASSUME IInv, SettledInv, Enqueue
  PROVE  SettledInv'
<1>. DEFINE call == Head(stack)  l == call.line  e == EventOf(call)
            c == SetCall(l, Tail(call.todo), call.vector)
<1>1. /\ stack \in Seq(Call) /\ stack # <<>> /\ call.fn = "set" /\ call.todo # <<>>
      /\ queue' = [queue EXCEPT ![l] = Append(@, e)] /\ asked' = [asked EXCEPT ![l] = e]
      /\ stack' = <<c>> \o Tail(stack)
      /\ UNCHANGED <<curstate, curvector, cpuline, file>>
  BY TypeParts DEF IInv, Enqueue, InCall, lineVars
<1>2. /\ queue \in [Lines -> Seq(Event)] /\ asked \in [Lines -> Event]
      /\ \A k \in Lines : Len(queue[k]) \in Nat /\ Len(queue[k]) <= QueueSize
  BY TypeParts DEF IInv, QueueType, DeviceType
<1>3. call \in Call /\ Tail(stack) \in Seq(Call)
  BY <1>1, StackType
<1>4. /\ l \in Lines /\ call.todo \in Todos /\ call.vector \in Vectors \cup {UseStored}
      /\ e \in Event
  BY <1>1, <1>3, SetCallType, EventOfType DEF IInv
<1>5. c \in Call /\ c.fn = "set" /\ c.line = l /\ c.todo = Tail(call.todo)
  <2>1. Tail(call.todo) \in Todos
    BY <1>1, <1>4, TodoType
  <2>. QED  BY <1>4, <2>1, CallIntro DEF SetCall
<1>. HIDE DEF c, e
<1>6. /\ stack' # <<>> /\ Head(stack') = c /\ Tail(stack') = Tail(stack)
      /\ \A d : In(stack', d) <=> c = d \/ In(Tail(stack), d)
  BY <1>1, <1>3, <1>5, ConsCall
<1>7. \A d : In(stack, d) <=> call = d \/ In(Tail(stack), d)
  BY <1>1, Uncons
<1>8. \A k, n : /\ In(stack', EmptyCall(k, n)) <=> In(stack, EmptyCall(k, n))
                /\ In(stack', AckCall(k)) <=> In(stack, AckCall(k))
  <2>1. \A k, n : /\ call # EmptyCall(k, n) /\ c # EmptyCall(k, n)
                  /\ call # AckCall(k) /\ c # AckCall(k)
    BY <1>1, <1>5, CallNames
  <2>. QED  BY <1>6, <1>7, <2>1
<1>. HIDE DEF call, l
<1>9. /\ \A k \in Lines : k # l => queue'[k] = queue[k] /\ asked'[k] = asked[k]
      /\ queue'[l] = Append(queue[l], e) /\ asked'[l] = e
  BY <1>1, <1>2, <1>4
<1>10. /\ Len(queue'[l]) = Len(queue[l]) + 1 /\ queue'[l] # <<>>
       /\ queue'[l][Len(queue'[l])] = e
       /\ \A n \in 1 .. Len(queue[l]) : queue'[l][n] = queue[l][n]
  <2>1. \A q \in Seq(Event) : /\ Len(Append(q, e)) = Len(q) + 1 /\ Append(q, e) # <<>>
                              /\ Append(q, e)[Len(q) + 1] = e
                              /\ \A n \in 1 .. Len(q) : Append(q, e)[n] = q[n]
    BY <1>4
  <2>. QED  BY <1>2, <1>4, <1>9, <2>1
<1>11. Shape'
  <2>1. CASE Bottom(stack)
    <3>1. Bottom(stack')
      BY <1>1, <1>5, <1>6, <2>1 DEF Bottom, call
    <3>. QED  BY <3>1, NoRoomNeeded DEF Shape
  <2>2. CASE SetOn(stack)
    <3>1. SetOn(stack')
      BY <1>5, <1>6, <2>2 DEF SetOn
    <3>2. Len(queue[l]) + Len(call.todo) <= QueueSize
      BY <2>2 DEF SettledInv, Shape, call, l
    <3>3. Len(call.todo) \in Nat /\ Len(c.todo) = Len(call.todo) - 1
      BY <1>1, <1>4, <1>5, TodoLength
    <3>4. Len(queue'[l]) + Len(c.todo) <= QueueSize
      <4>1. Len(queue[l]) \in Nat /\ QueueSize \in Nat
        BY <1>2, <1>4, InputLinesAssumption
      <4>2. Len(queue'[l]) = Len(queue[l]) + 1
        BY <1>10
      <4>3. \A a, b, q \in Nat : a + b <= q => (a + 1) + (b - 1) <= q
        OBVIOUS
      <4>. QED  BY <3>2, <3>3, <4>1, <4>2, <4>3
    <3>. QED  BY <1>5, <1>6, <3>1, <3>4 DEF Shape
  <2>. QED  BY <1>1, <2>1, <2>2, HeadShape DEF SettledInv, call
<1>12. Requests'
  <2>. SUFFICES ASSUME NEW k \in Lines \ {"RESET"}
       PROVE  /\ queue'[k] = <<>> => Agree(Saved, k)'
              /\ queue'[k] # <<>> => queue'[k][Len(queue'[k])] = asked'[k]
              /\ \A n \in 0 .. QueueSize : In(stack', EmptyCall(k, n)) =>
                   /\ n <= Len(queue'[k])
                   /\ n >= 1 => curstate[k] = queue'[k][n].state
                                /\ curvector[k] = queue'[k][n].vector
    BY <1>1 DEF Requests
  <2>1. \A n \in 0 .. QueueSize : In(stack', EmptyCall(k, n)) =>
          /\ n <= Len(queue[k])
          /\ n >= 1 => curstate[k] = queue[k][n].state /\ curvector[k] = queue[k][n].vector
    BY <1>8 DEF SettledInv, Requests
  <2>2. CASE k # l
    BY <1>1, <1>9, <2>1, <2>2 DEF SettledInv, Requests, Agree, Saved
  <2>3. CASE k = l
    BY <1>2, <1>4, <1>9, <1>10, <2>1, <2>3
  <2>. QED  BY <2>2, <2>3
<1>13. DeviceTold' /\ FileAgrees'
  BY <1>1, <1>8 DEF SettledInv, DeviceTold, FileAgrees, Agree, Told, Saved
<1>. QED  BY <1>11, <1>12, <1>13 DEF SettledInv

\* The loop takes the next event, and calls what it is to call.
LEMMA NextEventSettles ==
  ASSUME IInv, SettledInv, NEW l \in Lines, NEW event \in Event, NEW calls,
         NextEvent(l, event, calls),
         \/ calls = <<>>
         \/ l \in Interrupts /\ calls = <<InputCall(l)>>
         \/ l = "RESET" /\ calls = <<ResetCall(TRUE)>>,
         IF l \in Interrupts THEN cpuline' = [cpuline EXCEPT ![l] = event.state # "CLEAR"]
                             ELSE cpuline' = cpuline
  PROVE  SettledInv'
<1>. DEFINE n == Head(stack).curevent
            e == EmptyCall(l, n + 1)
            s == <<e>> \o Tail(stack)
<1>1. /\ stack \in Seq(Call) /\ stack # <<>> /\ Head(stack).fn = "empty" /\ Head(stack).line = l
      /\ n < Len(queue[l]) /\ event = queue[l][n + 1]
      /\ stack' = calls \o s
      /\ curstate' = [curstate EXCEPT ![l] = event.state]
      /\ curvector' = [curvector EXCEPT ![l] = event.vector]
      /\ UNCHANGED <<queue, asked, file>>
  BY TypeParts DEF IInv, NextEvent, InCall
<1>2. /\ curstate \in [Lines -> States] /\ curvector \in [Lines -> Vectors]
      /\ cpuline \in [Lines -> BOOLEAN] /\ queue \in [Lines -> Seq(Event)]
      /\ \A k \in Lines : Len(queue[k]) \in Nat /\ Len(queue[k]) <= QueueSize
  BY TypeParts DEF IInv, LineType, DeviceType, QueueType
<1>3. Tail(stack) \in Seq(Call) /\ n \in 0 .. QueueSize
  BY <1>1, StackType, EmptyCallType
<1>4. e \in Call /\ e.fn = "empty" /\ e.line = l
  <2>1. n + 1 \in 0 .. QueueSize
    BY <1>1, <1>2, <1>3, InputLinesAssumption
  <2>. QED  BY <2>1, CallIntro, CallNames
<1>5. \A k, m : (e = EmptyCall(k, m) <=> k = l /\ m = n + 1) /\ e # AckCall(k)
  BY CallNames
<1>. HIDE DEF e, n
<1>6. /\ s \in Seq(Call) /\ s # <<>> /\ Head(s) = e /\ Tail(s) = Tail(stack)
  BY <1>3, <1>4, ConsCall
<1>. HIDE DEF s
<1>7. LoopOn(stack)
  BY <1>1, HeadShape DEF SettledInv
<1>8. LoopOn(s)
  BY <1>4, <1>6, <1>7 DEF LoopOn
<1>9. \A k, m : /\ ~In(stack, AckCall(k)) /\ ~In(s, AckCall(k))
                /\ In(s, EmptyCall(k, m)) <=> k = l /\ m = n + 1
  BY <1>1, <1>5, <1>6, <1>7, <1>8, ShapeFacts
<1>10. /\ LoopOn(stack') \/ DeviceOn(stack')
       /\ \A k, m : /\ In(stack', EmptyCall(k, m)) <=> In(s, EmptyCall(k, m))
                    /\ In(stack', AckCall(k)) <=> In(s, AckCall(k))
  <2>1. CASE calls = <<>>
    BY <1>1, <1>6, <1>8, <2>1
  <2>2. ASSUME NEW c \in Call, calls = <<c>>,
               c.fn = "input" \/ (c.fn = "reset" /\ c.byline /\ l = "RESET")
        PROVE  /\ DeviceOn(stack')
               /\ \A k, m : /\ In(stack', EmptyCall(k, m)) <=> In(s, EmptyCall(k, m))
                            /\ In(stack', AckCall(k)) <=> In(s, AckCall(k))
    <3>1. /\ stack' # <<>> /\ Head(stack') = c /\ Tail(stack') = s
          /\ \A d : In(stack', d) <=> c = d \/ In(s, d)
      BY <1>1, <1>6, <2>2, ConsCall
    <3>2. \A k, m : c # EmptyCall(k, m) /\ c # AckCall(k)
      BY <2>2, CallNames
    <3>3. DeviceOn(stack')
      BY <1>4, <1>6, <1>8, <2>2, <3>1 DEF DeviceOn
    <3>. QED  BY <3>1, <3>2, <3>3
  <2>3. CASE l \in Interrupts /\ calls = <<InputCall(l)>>
    <3>1. InputCall(l) \in Call /\ InputCall(l).fn = "input"
      BY <2>3, CallIntro DEF InputCall
    <3>. QED  BY <2>2, <2>3, <3>1
  <2>4. CASE l = "RESET" /\ calls = <<ResetCall(TRUE)>>
    <3>1. ResetCall(TRUE) \in Call /\ ResetCall(TRUE).fn = "reset" /\ ResetCall(TRUE).byline
      BY CallIntro DEF ResetCall
    <3>. QED  BY <2>2, <2>4, <3>1
  <2>. QED  BY <2>1, <2>3, <2>4
<1>11. Shape'
  BY <1>10, NoRoomNeeded DEF Shape
<1>12. \A k \in Lines :
         /\ curstate'[k] = IF k = l THEN event.state ELSE curstate[k]
         /\ curvector'[k] = IF k = l THEN event.vector ELSE curvector[k]
  BY <1>1, <1>2
<1>13. Requests'
  <2>1. queue[l] # <<>> /\ n + 1 <= Len(queue[l])
    BY <1>1, <1>2, <1>3, InputLinesAssumption
  <2>. QED  BY <1>1, <1>9, <1>10, <1>12, <2>1 DEF SettledInv, Requests, Agree, Saved
<1>14. DeviceTold'
  <2>1. \A k \in Interrupts : cpuline'[k] = IF k = l THEN event.state # "CLEAR" ELSE cpuline[k]
    BY <1>2 DEF Interrupts
  <2>2. \A k \in Interrupts : cpuline[k] <=> curstate[k] # "CLEAR"
    BY <1>9 DEF SettledInv, DeviceTold, Told, Saved
  <2>. QED  BY <1>9, <1>10, <1>12, <2>1, <2>2 DEF DeviceTold, Told, Saved, Interrupts
<1>15. FileAgrees'
  BY <1>1 DEF SettledInv, FileAgrees, Agree, Told
<1>. QED  BY <1>11, <1>13, <1>14, <1>15 DEF SettledInv

LEMMA ApplySettles ==
  ASSUME IInv, SettledInv,
         AssertReset \/ ClearReset \/ ApplyHalt \/ \E l \in Interrupts : ApplyInput(l)
  PROVE  SettledInv'
<1>1. ASSUME NEW l, NEW event, NEW calls, NextEvent(l, event, calls)
      PROVE  l \in Lines
  BY <1>1, TypeParts, StackType, EmptyCallType DEF IInv, NextEvent, InCall
<1>2. CASE AssertReset \/ ClearReset \/ ApplyHalt
  <2>1. PICK event \in Event, l \in {"RESET", "HALT"},
               calls \in {<<>>, <<ResetCall(TRUE)>>} :
          /\ NextEvent(l, event, calls) /\ cpuline' = cpuline
          /\ calls = <<>> \/ (l = "RESET" /\ calls = <<ResetCall(TRUE)>>)
    BY <1>2 DEF AssertReset, ClearReset, ApplyHalt
  <2>2. l \in Lines /\ l \notin Interrupts
    BY <1>1, <2>1 DEF Interrupts
  <2>. QED  BY <2>1, <2>2, NextEventSettles
<1>3. CASE \E l \in Interrupts : ApplyInput(l)
  <2>1. PICK l \in Interrupts, event \in Event :
          /\ NextEvent(l, event, <<InputCall(l)>>)
          /\ cpuline' = [cpuline EXCEPT ![l] = event.state # "CLEAR"]
    BY <1>3 DEF ApplyInput
  <2>. QED  BY <1>1, <2>1, NextEventSettles
<1>. QED  BY <1>2, <1>3

\* The loop ends behind the last event, which was what was asked for.
LEMMA LoopEndsSettles ==
  ASSUME IInv, SettledInv, LoopEnds
  PROVE  SettledInv'
<1>. DEFINE l == Head(stack).line  n == Head(stack).curevent
<1>1. /\ stack \in Seq(Call) /\ stack # <<>> /\ Head(stack).fn = "empty" /\ n >= Len(queue[l])
      /\ queue' = [queue EXCEPT ![l] = <<>>] /\ stack' = Tail(stack)
      /\ UNCHANGED <<curstate, curvector, asked, cpuline, file>>
  BY TypeParts DEF IInv, LoopEnds, InCall, lineVars
<1>2. Head(stack) \in Call /\ l \in Lines /\ n \in 0 .. QueueSize /\ stack' \in Seq(Call)
  BY <1>1, StackType, EmptyCallType
<1>3. Head(stack) = EmptyCall(l, n)
  BY <1>1, <1>2, CallNames
<1>4. LoopOn(stack) /\ Bottom(stack')
  BY <1>1, HeadShape DEF SettledInv, LoopOn
<1>. HIDE DEF l, n
<1>5. /\ In(stack, EmptyCall(l, n))
      /\ \A k, m : /\ ~In(stack', EmptyCall(k, m)) /\ ~In(stack', AckCall(k))
                   /\ ~In(stack, AckCall(k))
  BY <1>1, <1>2, <1>3, <1>4, ShapeFacts
<1>6. queue \in [Lines -> Seq(Event)] /\ Len(queue[l]) \in Nat
  BY <1>2, TypeParts DEF IInv, QueueType
<1>7. \A k \in Lines : queue'[k] = IF k = l THEN <<>> ELSE queue[k]
  BY <1>1, <1>6
<1>8. Shape'
  BY <1>4, NoRoomNeeded DEF Shape
<1>9. l # "RESET" => Agree(Saved, l)
  <2>1. SUFFICES ASSUME l # "RESET", queue[l] # <<>> PROVE Agree(Saved, l)
    BY <1>2 DEF SettledInv, Requests
  <2>2. n = Len(queue[l]) /\ n >= 1
    <3>1. n <= Len(queue[l])
      BY <1>2, <1>5, <2>1 DEF SettledInv, Requests
    <3>2. Len(queue[l]) # 0
      BY <1>2, <1>6, <2>1
    <3>. QED  BY <1>1, <1>2, <1>6, <3>1, <3>2, InputLinesAssumption
  <2>3. curstate[l] = queue[l][n].state /\ curvector[l] = queue[l][n].vector
        /\ queue[l][Len(queue[l])] = asked[l]
    BY <1>2, <1>5, <2>1, <2>2 DEF SettledInv, Requests
  <2>. QED  BY <2>2, <2>3 DEF Agree, Saved
<1>10. Requests'
  BY <1>1, <1>5, <1>7, <1>9 DEF SettledInv, Requests, Agree, Saved
<1>11. DeviceTold' /\ FileAgrees'
  BY <1>1, <1>5 DEF SettledInv, DeviceTold, FileAgrees, Agree, Told, Saved
<1>. QED  BY <1>8, <1>10, <1>11 DEF SettledInv

LEMMA InitSettles == Init => SettledInv
<1>. SUFFICES ASSUME Init PROVE SettledInv
  OBVIOUS
<1>1. \A d : ~In(stack, d)
  <2>1. Len(stack) = 0
    BY DEF Init
  <2>. QED  BY <2>1 DEF In
<1>2. Shape
  <2>1. Bottom(stack)
    BY DEF Init, Bottom
  <2>. QED  BY <2>1, NoRoomNeeded DEF Shape
<1>3. Requests
  BY <1>1 DEF Init, Requests, Agree, Saved
<1>4. DeviceTold
  BY <1>1 DEF Init, DeviceTold, Told, Saved, Interrupts
<1>5. FileAgrees
  BY DEF Init, FileAgrees, Agree, Told, Saved, Interrupts
<1>. QED  BY <1>2, <1>3, <1>4, <1>5 DEF SettledInv

LEMMA NextSettles ==
  ASSUME IInv, SettledInv, [Next]_vars
  PROVE  SettledInv'
<1>1. CASE \E l \in Lines, state \in States \cup {"PULSE"}, v \in Vectors \cup {UseStored} :
             SetLine(l, state, v)
  BY <1>1, SetLineSettles
<1>2. CASE CallStep
  BY <1>2, EnqueueSettles, FlushSettles, ReturnSettles, ApplySettles, LoopEndsSettles,
     ResetReturnsSettles, AckReturnsSettles DEF CallStep
<1>3. CASE \E l \in Interrupts : TakeInterrupt(l)
  BY <1>3, TakeInterruptSettles
<1>. QED  BY <1>1, <1>2, <1>3, FirstCallSettles, StillSettles, FileSettles DEF Next

\* Events of one line that overtake no other, a queue emptied on the spot, a reset
\* while the loop is under way, an acknowledge, state files: when nothing is queued
\* for a line, it is as it was last asked to be, and the device was told.
THEOREM LinesSettle == Spec => []SettledAsAsked
<1>1. IInv /\ SettledInv => SettledAsAsked
  <2>. SUFFICES ASSUME IInv, SettledInv PROVE SettledAsAsked
    OBVIOUS
  <2>1. \A l \in Lines \ {"RESET"} : Settled(l)
    BY DEF SettledInv, Requests, Agree, Saved, Settled
  <2>2. ASSUME stack = <<>> PROVE \A l \in Interrupts : cpuline[l] <=> curstate[l] # "CLEAR"
    <3>1. \A d : ~In(stack, d)
      <4>1. Len(stack) = 0
        BY <2>2
      <4>. QED  BY <4>1 DEF In
    <3>. QED  BY <3>1 DEF SettledInv, DeviceTold, Told, Saved
  <2>. QED  BY <2>1, <2>2 DEF SettledAsAsked
<1>2. Init => IInv /\ SettledInv
  BY InitIInv, InitSettles
<1>3. IInv /\ SettledInv /\ [Next]_vars => (IInv /\ SettledInv)'
  BY NextIInv, NextSettles
<1>. QED  BY <1>1, <1>2, <1>3, PTL DEF Spec
=============================================================================
