---------------------------- MODULE MCInputLines ----------------------------
(***************************************************************************)
(* Instances of InputLines for TLC, with queues of two events where the    *)
(* code has 32.                                                            *)
(***************************************************************************)
EXTENDS InputLines

Dev(lines, vectors, calls, files) ==
  [lines |-> lines, vectors |-> vectors, calls |-> calls, files |-> files]

\* Devices with state files; one with two vectors and one that is reset by its line,
\* which set lines when they are called back.
MCDevices == {Dev({"IRQ"}, {0}, FALSE, TRUE), Dev({"HALT"}, {0}, FALSE, TRUE),
              Dev({"IRQ"}, {0, 1}, TRUE, FALSE), Dev({"IRQ", "RESET"}, {0}, TRUE, FALSE)}
=============================================================================
