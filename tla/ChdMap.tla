------------------------------- MODULE ChdMap -------------------------------
(***************************************************************************)
(* The hunk map of a compressed image of version 5, as compress_v5_map     *)
(* writes it and decompress_v5_map reads it: types of hunks are promoted   *)
(* to relative ones and run-length coded, then follow the fields that the  *)
(* types do not imply, in as many bits as the largest of them needs.       *)
(* Checksums and the Huffman code, which transmit symbols as they are, are *)
(* left out; the position of the first hunk's data is 0.                   *)
(***************************************************************************)
EXTENDS Integers, Sequences, SequencesExt, FiniteSetsExt

CONSTANTS
  HunkBytes,   \* m_hunkbytes
  HunkUnits,   \* m_hunkbytes / m_unitbytes
  Radix        \* the counts of runs are sent as digits of this radix (16)

\* COMPRESSION_TYPE_0 .. 3 are the codecs 0 .. 3.
Codecs == 0..3
NoCodec == 4
Self == 5
Parent == 6
RleSmall == 7
RleLarge == 8
Self0 == 9
Self1 == 10
ParentSelf == 11
Parent0 == 12
Parent1 == 13

\* An entry of m_rawmap.
Entry(type, length, offset) == [type |-> type, length |-> length, offset |-> offset]

----------------------------------------------------------------------------
(* Writing. *)

PromoteSelf(acc, offset) ==
  CASE offset = acc.self     -> Self0
    [] offset = acc.self + 1 -> Self1
    [] OTHER                 -> Self

PromoteParent(acc, hunk, offset) ==
  CASE offset = hunk * HunkUnits        -> ParentSelf
    [] offset = acc.parent              -> Parent0
    [] offset = acc.parent + HunkUnits  -> Parent1
    [] OTHER                            -> Parent

\* Mutant of Promote: a relative reference does not become the last one.
PromoteForgets(acc, e) ==
  LET type == CASE e.type = Self   -> PromoteSelf(acc, e.offset)
                [] e.type = Parent -> PromoteParent(acc, Len(acc.types), e.offset)
                [] OTHER           -> e.type
      larger(field, isSent, v) == IF isSent /\ v > field THEN v ELSE field
  IN  [types     |-> Append(acc.types, type),
       self      |-> IF type = Self THEN e.offset ELSE acc.self,
       parent    |-> IF type = Parent THEN e.offset ELSE acc.parent,
       maxSelf   |-> larger(acc.maxSelf, type = Self, e.offset),
       maxParent |-> larger(acc.maxParent, type = Parent, e.offset),
       maxLength |-> larger(acc.maxLength, e.type \notin {Self, Parent}, e.length)]

\* One turn of the loop over the hunks: the type sent for the entry, the last
\* references, and the largest value of every field that is sent.
Promote(acc, e) ==
  LET type == CASE e.type = Self   -> PromoteSelf(acc, e.offset)
                [] e.type = Parent -> PromoteParent(acc, Len(acc.types), e.offset)
                [] OTHER           -> e.type
      larger(field, isSent, v) == IF isSent /\ v > field THEN v ELSE field
  IN  [types     |-> Append(acc.types, type),
       self      |-> IF e.type = Self THEN e.offset ELSE acc.self,
       parent    |-> IF e.type = Parent THEN e.offset ELSE acc.parent,
       maxSelf   |-> larger(acc.maxSelf, type = Self, e.offset),
       maxParent |-> larger(acc.maxParent, type = Parent, e.offset),
       maxLength |-> larger(acc.maxLength, e.type \notin {Self, Parent}, e.length)]

Promoted(map) ==
  FoldLeft(Promote, [types |-> <<>>, self |-> 0, parent |-> 0,
                     maxSelf |-> 0, maxParent |-> 0, maxLength |-> 0], map)

\* The symbols for a type that repeats the last one count times.
Repeats(type, count) ==
  LET LargeMax == 3 + Radix + (Radix * Radix - 1)
      symbols[n \in 0..count] ==
        IF n = 0 THEN <<>>
        ELSE IF n < 3 THEN <<type>> \o symbols[n - 1]
        ELSE IF n <= 3 + (Radix - 1) THEN <<RleSmall, n - 3>>
        ELSE LET now == Min({n, LargeMax})
                 c   == now - 3 - Radix
             IN  <<RleLarge, c \div Radix, c % Radix>> \o symbols[n - now]
  IN  symbols[count]

RunLengths(types) ==
  LET step(acc, t) ==
        IF t = acc.last THEN [acc EXCEPT !.count = @ + 1]
        ELSE [out |-> Append(acc.out \o Repeats(acc.last, acc.count), t),
              last |-> t, count |-> 0]
      end == FoldLeft(step, [out |-> <<>>, last |-> 0, count |-> 0], types)
  IN  end.out \o Repeats(end.last, end.count)

\* bits_for_value, and what is left of a value written in so many bits.
Bits(value) == CHOOSE n \in 0..value : 2^n > value /\ \A m \in 0..value : 2^m > value => n <= m
Written(value, bits) == value % 2^bits

Fields(map, p) ==
  LET lengthBits == Bits(p.maxLength)
      selfBits   == Bits(p.maxSelf)
      parentBits == Bits(p.maxParent)
      field(i) == CASE p.types[i] \in Codecs -> <<Written(map[i].length, lengthBits)>>
                    [] p.types[i] = Self     -> <<Written(map[i].offset, selfBits)>>
                    [] p.types[i] = Parent   -> <<Written(map[i].offset, parentBits)>>
                    [] OTHER                 -> <<>>
  IN  FlattenSeq([i \in DOMAIN map |-> field(i)])

CompressedMap(map) ==
  LET p == Promoted(map)
  IN  [symbols |-> RunLengths(p.types), fields |-> Fields(map, p)]

----------------------------------------------------------------------------
(* Reading. *)

\* The types of count hunks: a symbol, or the rest of a run.
ReadType(symbols, acc) ==
  LET val == symbols[acc.pos]
      digit(i) == symbols[acc.pos + i]
  IN  IF acc.rep > 0
      THEN [acc EXCEPT !.types = Append(@, acc.last), !.rep = @ - 1]
      ELSE CASE val = RleSmall ->
                  [acc EXCEPT !.types = Append(@, acc.last),
                              !.rep = 2 + digit(1), !.pos = @ + 2]
             [] val = RleLarge ->
                  [acc EXCEPT !.types = Append(@, acc.last),
                              !.rep = 2 + Radix + digit(1) * Radix + digit(2), !.pos = @ + 3]
             [] OTHER ->
                  [acc EXCEPT !.types = Append(@, val), !.last = val, !.pos = @ + 1]

TypesOf(symbols, count) ==
  LET after[n \in 0..count] ==
        IF n = 0 THEN [types |-> <<>>, pos |-> 1, last |-> 0, rep |-> 0]
        ELSE ReadType(symbols, after[n - 1])
  IN  after[count].types

\* One turn of the second loop: the entry, from its type, the fields to come, the
\* position in the file and the last references.
ReadEntry(acc, type) ==
  LET hunk  == Len(acc.map)
      field == acc.fields[1]
      data(length) == [acc EXCEPT !.map = Append(@, Entry(type, length, acc.offset)),
                                  !.offset = @ + length]
      self(ref)    == [acc EXCEPT !.map = Append(@, Entry(Self, 0, ref)), !.self = ref]
      parent(ref)  == [acc EXCEPT !.map = Append(@, Entry(Parent, 0, ref)), !.parent = ref]
      sent(after)  == [after EXCEPT !.fields = Tail(@)]
  IN  CASE type \in Codecs    -> sent(data(field))
        [] type = NoCodec     -> data(HunkBytes)
        [] type = Self        -> sent(self(field))
        [] type = Self0       -> self(acc.self)
        [] type = Self1       -> self(acc.self + 1)
        [] type = Parent      -> sent(parent(field))
        [] type = ParentSelf  -> parent(hunk * HunkUnits)
        [] type = Parent0     -> parent(acc.parent)
        [] type = Parent1     -> parent(acc.parent + HunkUnits)

DecompressedMap(file, count) ==
  FoldLeft(ReadEntry, [map |-> <<>>, fields |-> file.fields, offset |-> 0,
                       self |-> 0, parent |-> 0],
           TypesOf(file.symbols, count)).map
=============================================================================
