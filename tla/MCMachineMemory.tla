-------------------------- MODULE MCMachineMemory --------------------------
(***************************************************************************)
(* Machine and AddressSpace for TLC, side by side: what a machine's life   *)
(* and its memory do does not depend on each other, so that a behaviour is *)
(* one of the machine or one of the address space, and the other rests.    *)
(* Machines: a game saved at exit, one that is loaded with -state too, a   *)
(* game whose exit is confirmed, and the menu.                             *)
(***************************************************************************)
EXTENDS Machine, MCAddressSpace

CONSTANTS auto, slot

Opt(s, f, a, c) == [system |-> s, state |-> f, autosave |-> a, confirm_quit |-> c]
MCOptions ==
  {Opt(Game, None, TRUE, FALSE), Opt(Game, slot, TRUE, FALSE), Opt(Game, None, FALSE, TRUE),
   Opt(Empty, None, TRUE, FALSE)}

VARIABLE part   \* which of the two the behaviour is about

\* The part that rests: a machine that has not begun, a new address space.
MachineRests ==
  /\ LifeInit /\ system = Empty /\ ~anon /\ schedule = "none"
  /\ \A f \in Files : disk[f] = NoFile
MemoryRests == Init /\ \A b \in Banks : base[b] = "p"

MachineMemoryInit ==
  \/ part = "machine" /\ LifeInit /\ MemoryRests
  \/ part = "memory" /\ Init /\ MachineRests

MachineMemoryNext ==
  \/ part = "machine" /\ LifeNext /\ UNCHANGED <<vars, part>>
  \/ part = "memory" /\ Next /\ UNCHANGED <<lifeVars, part>>

MachineRuns == part = "machine" /\ MainStep

\* The fairness of LifeFairSpec; the address space needs none.
MachineMemorySpec ==
  /\ MachineMemoryInit /\ [][MachineMemoryNext]_<<lifeVars, vars, part>>
  /\ WF_lifeVars(MachineRuns) /\ SF_lifeVars(TimePasses) /\ SF_lifeVars(FireReset)
=============================================================================
