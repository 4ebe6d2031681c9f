---------------------------- MODULE MCScheduler ----------------------------
(***************************************************************************)
(* Instances of Scheduler for TLC: machines with two devices, one often    *)
(* with a faster clock, whose code uses a few operations each.             *)
(***************************************************************************)
EXTENDS Scheduler

CONSTANTS a, b

MCOrder == <<a, b>>

MCEqual == [d \in Devices |-> 1]
MCFaster == [d \in Devices |-> IF d = a THEN 1 ELSE 2]

Machine(ops, period, cycles, horizon) ==
  [disabled |-> {}, period |-> period, cycles |-> cycles, quantum |-> 2, ops |-> ops,
   others |-> FALSE, horizon |-> horizon, alarms |-> 1, saves |-> 0]

MCYields == Machine({"yield", "spin", "halt", "eat"}, MCFaster, {1, 2}, 8)
MCSpins == [Machine({"time", "after", "trigger", "reset"}, MCFaster, {1}, 4)
              EXCEPT !.quantum = 3, !.alarms = 2]
MCFiles == [Machine({"time", "after", "halt", "reset"}, MCEqual, {1}, 3)
              EXCEPT !.disabled = {a}, !.saves = 1]
MCClocks == Machine({"clock", "boost"}, MCFaster, {1}, 3)

MCMachines == {MCYields, MCSpins, MCFiles, MCClocks}

MCBoosts == {<<1, 1>>, <<2, 3>>}
=============================================================================
