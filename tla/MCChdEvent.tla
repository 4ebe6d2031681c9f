----------------------------- MODULE MCChdEvent -----------------------------
(***************************************************************************)
(* ChdCompressor and Event for TLC.  They share nothing, and run one after *)
(* the other: when the smallest of the images has been compressed, threads *)
(* begin to use an event.                                                  *)
(***************************************************************************)
EXTENDS MCChdCompressor, Event

CONSTANTS w3, w4, s1

\* A compression is followed until a read of the parent has been overtaken; that of
\* the image that is not compressed and has no parent also when an item is noted late.
Followed == slips = {} \/ ("overtaken" \notin slips /\ ~HasParent /\ ~job.compressed)

Compressed ==
  /\ job = Smallest /\ outcome = "none" /\ slips = {}
  /\ queue = <<>> /\ \A w \in Workers : worker[w].pc = "idle"

ChdEventInit ==
  /\ Init /\ EventInit
  /\ job # Smallest => ~autoreset /\ ~signalled

ChdEventNext ==
  \/ Followed /\ Next /\ UNCHANGED eventVars
  \/ ~Followed /\ UNCHANGED <<vars, eventVars>>
  \/ Compressed /\ EventNext /\ UNCHANGED vars

\* The fairness of FairSpec and of EventFairSpec.
ChdEventSpec ==
  /\ ChdEventInit /\ [][ChdEventNext]_<<vars, eventVars>>
  /\ WF_vars(Followed /\ CallerStep) /\ WF_vars(Followed /\ ReaderStep)
  /\ \A w \in Workers : WF_vars(Followed /\ WorkerStep(w))
  /\ \A t \in Waiters : WF_eventVars(Compressed /\ t \in woken /\ Awake(t))
=============================================================================
