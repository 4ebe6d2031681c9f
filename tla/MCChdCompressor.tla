--------------------------- MODULE MCChdCompressor ---------------------------
(***************************************************************************)
(* Images of at most a dozen hunks of two units, in a ring of four slots.  *)
(***************************************************************************)
EXTENDS ChdCompressor
CONSTANTS w1, w2

Zeros == <<0, 0>>
A == <<1, 2>>
B == <<2, 1>>
C == <<1, 1>>
D == <<2, 2>>

\* Hunks of equal units compress to half their length.
MCHunks == [1..2 -> 0..2]
MCCodec == [h \in MCHunks |-> IF h[1] = h[2] THEN h[1] ELSE NoCodec]
MCPacked == [h \in MCHunks |-> IF h[1] = h[2] THEN 1 ELSE 2]

Job(source, parent, compressed) ==
  [source |-> source, parent |-> parent, compressed |-> compressed,
   fails |-> FALSE]
Failing(j) == [j EXCEPT !.fails = TRUE]

Smallest == Job(<<D>>, <<C, B>>, TRUE)

\* B is in the parents, but at no hunk's start; D is in none.  One parent is short.
MCSessions ==
  { Failing(Job(<<A, C, A, B, C>>, <<>>, TRUE)),
    Failing(Job(<<A, Zeros, A, B, Zeros>>, <<>>, FALSE)),
    Job(<<B, D, B, C, A>>, <<A, A, C, C, Zeros, A>>, TRUE),
    Job(<<D, A, C, Zeros, A, A, C>>, <<A, C, Zeros, A, A, C, C>>, TRUE),
    Job(<<A, B, Zeros, A>>, <<B, B, Zeros, A>>, FALSE),
    Smallest,
    Job(<<B, B, A>>, <<A, C>>, TRUE),
    Job(<<C, D, D, D, D, D, D, D, B, C, D, D>>, <<>>, TRUE) }

\* Images with a parent, for the end of its walk.
MCWalks == { Job(<<B, D, B, C, A>>, <<A, A, C, C, Zeros, A>>, TRUE) }
=============================================================================
