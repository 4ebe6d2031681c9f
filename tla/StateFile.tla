----------------------------- MODULE StateFile -----------------------------
(***************************************************************************)
(* The save manager: a machine registers memory and callbacks, writes a    *)
(* state file and reads the file that an earlier run has left, of the same *)
(* or another machine, on a host of the same or the other byte order.      *)
(*                                                                         *)
(* A value is a sequence of bytes.  The first item is one that a device    *)
(* does not keep as it is saved: its presave callback packs a live value   *)
(* into it, its postload callback unpacks it.                              *)
(***************************************************************************)
EXTENDS Integers, SequencesExt

CONSTANTS
  Games,       \* the machines that are run, which may register the same items
  HostOrders,  \* of the hosts they run on: TRUE when the first byte is the top one
  Items,       \* names of entries, ordered as their strings compare
  Packed,      \* the item with a presave and a postload callback
  TypeSize,    \* the size of the elements of each item
  TypeCount,   \* their number
  Values,      \* the values of each item, the least significant byte first
  Supporting,  \* the machines with MACHINE_SUPPORTS_SAVE
  CanFail,     \* files cannot be written, or are cut short
  Cuts         \* bound: to these numbers of bytes

Total(i) == TypeSize[i] * TypeCount[i]

ASSUME StateFileAssumption ==
  /\ Items \subseteq Nat /\ Packed \in Items /\ HostOrders \subseteq BOOLEAN
  /\ TypeSize \in [Items -> {1, 2, 4, 8}] /\ TypeCount \in [Items -> Nat \ {0}]
  /\ \A i \in Items : Values[i] # {} /\ \A v \in Values[i] : v \in Seq(0 .. 255) /\ Len(v) = Total(i)
  /\ Supporting \subseteq Games /\ CanFail \in BOOLEAN /\ Cuts \subseteq Nat

VARIABLES
  game,      \* machine().system().name
  msbFirst,  \* the byte order of the host
  entries,   \* m_entry_list: the names, in the order of the list
  callbacks, \* m_presave_list and m_postload_list
  registration, \* m_reg_allowed is "open"; a fatal error is "dead"
  illegal,   \* m_illegal_regs > 0
  memory,    \* the memory of the items, in the byte order of the host
  live,      \* what Packed is packed from, least significant byte first
  file,      \* the state file; history: the content saved, whether it was packed
  result     \* what read_file or write_file returned, when that was the last step

saveVars == <<game, msbFirst, entries, callbacks, registration, illegal, memory, live, file,
              result>>

\* Zero bytes of an item.
Zeros(i) == [n \in 1 .. Total(i) |-> 0]

\* No file, or less than a header of one.
NoFile == [header |-> FALSE]

----------------------------------------------------------------------------
\* flip_data: the bytes of each element are reversed.
Flip(i, bytes) ==
  [n \in 1 .. Total(i) |->
     LET first == ((n - 1) \div TypeSize[i]) * TypeSize[i]
     IN  bytes[first + TypeSize[i] - (n - 1 - first)]]

\* Bytes with the least significant first as the host keeps them, and back.
Native(i, bytes) == IF msbFirst THEN Flip(i, bytes) ELSE bytes

\* The values of the items that the machine goes on from.
Content ==
  [i \in ToSet(entries) |->
     IF i = Packed THEN live ELSE Native(i, memory[i])]

\* The signature: a CRC of names, sizes and counts, here the list itself.
Signature == [k \in 1 .. Len(entries) |->
  <<entries[k], TypeCount[entries[k]], TypeSize[entries[k]]>>]

----------------------------------------------------------------------------
(* Registration. *)

\* Mutant: new entries go to the end of the list.
InsertLast(list, i) == Append(list, i)

\* Entries are kept in the order of their names: a new one goes before the first
\* that is after it.
Insert(list, i) ==
  InsertAt(list, CHOOSE k \in 1 .. Len(list) + 1 :
                   /\ \A l \in 1 .. k - 1 : list[l] < i
                   /\ k <= Len(list) => list[k] > i, i)

SaveMemory(i) ==
  /\ registration # "dead"
  /\ CASE registration = "closed" /\ game \in Supporting ->
            registration' = "dead" /\ UNCHANGED <<illegal, entries>>
       [] registration = "closed" /\ game \notin Supporting ->
            illegal' = TRUE /\ UNCHANGED <<registration, entries>>
       [] registration = "open" /\ Contains(entries, i) ->
            registration' = "dead" /\ UNCHANGED <<illegal, entries>>
       [] OTHER ->
            entries' = Insert(entries, i) /\ UNCHANGED <<registration, illegal>>
  /\ result' = "running" /\ UNCHANGED <<game, msbFirst, callbacks, memory, live, file>>

\* register_presave and register_postload.
RegisterCallback(cb) ==
  /\ registration # "dead"
  /\ IF registration = "closed" \/ cb \in callbacks
       THEN registration' = "dead" /\ UNCHANGED callbacks
       ELSE callbacks' = callbacks \cup {cb} /\ UNCHANGED registration
  /\ result' = "running" /\ UNCHANGED <<game, msbFirst, entries, illegal, memory, live, file>>

\* allow_registration(false).
CloseRegistration ==
  /\ registration = "open" /\ registration' = "closed"
  /\ result' = "running" /\ UNCHANGED <<game, msbFirst, entries, callbacks, illegal, memory, live, file>>

----------------------------------------------------------------------------
(* Writing. *)

\* Where the data of each entry of a list begins, and where those of the last end.
Offset(list) ==
  LET at[k \in 1 .. Len(list) + 1] ==
        IF k = 1 THEN 0 ELSE at[k - 1] + Total(list[k - 1])
  IN  at

\* The data of the entries of a list, one after the other.
Data(list, mem) ==
  LET at == Offset(list)
      Entry(n) == CHOOSE k \in DOMAIN list : at[k] < n /\ n <= at[k + 1]
  IN  [n \in 1 .. at[Len(list) + 1] |-> mem[list[Entry(n)]][n - at[Entry(n)]]]

\* The memory once the presave callbacks have been called.
DispatchPresave ==
  IF "presave" \in callbacks
    THEN [memory EXCEPT ![Packed] = Native(Packed, live)]
    ELSE memory

\* What write_file leaves of a state file.
Written ==
  [header |-> TRUE, game |-> game, msb |-> msbFirst, sig |-> Signature,
   data |-> Data(entries, DispatchPresave),
   saved |-> Content, packed |-> "presave" \in callbacks]

\* The machine removes the file of a write that has not succeeded.
WriteFile ==
  /\ registration = "closed"
  /\ \/ /\ illegal
        /\ result' = "illegal" /\ file' = NoFile /\ UNCHANGED memory
     \/ /\ ~illegal
        /\ result' = "none" /\ file' = Written
        /\ memory' = DispatchPresave
     \/ /\ ~illegal /\ CanFail   \* in the header or in the data
        /\ result' = "write" /\ file' = NoFile
        /\ memory' \in {memory, DispatchPresave}
  /\ UNCHANGED <<game, msbFirst, entries, callbacks, registration, illegal, live>>

\* A disk that fills up, a crash in the middle: a part of the file is left.
CutShort ==
  /\ CanFail /\ file.header
  /\ \E n \in {m \in Cuts : m < Len(file.data)} :
       file' \in {NoFile, [file EXCEPT !.data = SubSeq(@, 1, n)]}
  /\ result' = "running"
  /\ UNCHANGED <<game, msbFirst, entries, callbacks, registration, illegal, memory, live>>

----------------------------------------------------------------------------
(* Reading. *)

\* Mutant: the structure is not compared.
ValidateHeaderNoSig == file.game = game

\* Magic, version, game; then the signature, unless it is that of no entries.
ValidateHeader ==
  file.game = game /\ (entries # <<>> => file.sig = Signature)

\* The file has the data of the entry at index k.
Complete(k) == Offset(entries)[k + 1] <= Len(file.data)

\* They are read over the memory of the entry, as far as the file has them.
Read(k) ==
  [n \in 1 .. Total(entries[k]) |->
     LET at == Offset(entries)[k] + n
     IN  IF at <= Len(file.data) THEN file.data[at] ELSE memory[entries[k]][n]]

\* Mutant: the bytes of the whole item are reversed.
LoadedWhole(i, bytes) == IF file.msb # msbFirst THEN Reverse(bytes) ELSE bytes

\* What entry i becomes when all its bytes have been read.
Loaded(i, bytes) == IF file.msb # msbFirst THEN Flip(i, bytes) ELSE bytes

\* The memory after the entries have been read; a short one is left as it is.
ReadEntries ==
  [i \in Items |->
     IF ~Contains(entries, i) THEN memory[i]
     ELSE LET k == CHOOSE k \in DOMAIN entries : entries[k] = i
          IN  IF Complete(k) THEN Loaded(i, Read(k)) ELSE Read(k)]

\* The live value once the postload callbacks have been called.
DispatchPostload(mem) ==
  IF "postload" \in callbacks THEN Native(Packed, mem[Packed]) ELSE live

ReadFile ==
  /\ registration = "closed"
  /\ CASE illegal ->
            result' = "illegal" /\ UNCHANGED <<memory, live>>
       [] ~illegal /\ ~file.header ->
            result' = "read" /\ UNCHANGED <<memory, live>>
       [] ~illegal /\ file.header /\ ~ValidateHeader ->
            result' = "header" /\ UNCHANGED <<memory, live>>
       [] OTHER ->
            /\ memory' = ReadEntries
            /\ IF \A k \in DOMAIN entries : Complete(k)
                 THEN /\ result' = "none"
                      /\ live' = DispatchPostload(ReadEntries)
                 ELSE result' = "read" /\ UNCHANGED live
  /\ UNCHANGED <<game, msbFirst, entries, callbacks, registration, illegal, file>>

----------------------------------------------------------------------------
(* The machine. *)

\* The machine runs and changes its state.
Run ==
  /\ registration = "closed"
  /\ \/ \E v \in Values[Packed] : live' = v /\ UNCHANGED memory
     \/ \E i \in Items \ {Packed} : \E v \in Values[i] :
          memory' = [memory EXCEPT ![i] = Native(i, v)] /\ UNCHANGED live
  /\ result' = "running"
  /\ UNCHANGED <<game, msbFirst, entries, callbacks, registration, illegal, file>>

\* A run of the program: a machine with a new save manager.
NewRun ==
  /\ game' \in Games /\ msbFirst' \in HostOrders
  /\ entries' = <<>> /\ callbacks' = {} /\ registration' = "open" /\ illegal' = FALSE
  /\ memory' = [i \in Items |-> Zeros(i)] /\ live' = Zeros(Packed)
  /\ result' = "running"
  /\ UNCHANGED file

SaveInit ==
  /\ game \in Games /\ msbFirst \in HostOrders
  /\ entries = <<>> /\ callbacks = {} /\ registration = "open" /\ illegal = FALSE
  /\ memory = [i \in Items |-> Zeros(i)] /\ live = Zeros(Packed)
  /\ file = NoFile /\ result = "running"

SaveNext ==
  \/ \E i \in Items : SaveMemory(i)
  \/ \E cb \in {"presave", "postload"} : RegisterCallback(cb)
  \/ CloseRegistration \/ WriteFile \/ ReadFile \/ Run \/ NewRun \/ CutShort

SaveSpec == SaveInit /\ [][SaveNext]_saveVars

----------------------------------------------------------------------------
(* Properties. *)

\* A load that succeeds leaves the machine with what the machine that wrote the
\* file had when it wrote it, on whatever host and after whatever it did before.
LoadsWhatWasSaved ==
  [][(/\ ReadFile /\ result' = "none" /\ entries # <<>>
      /\ Packed \in ToSet(entries) => file.packed /\ "postload" \in callbacks)
     => Content' = file.saved]_saveVars

\* Only a foreign file is refused, and always: a file of another game, or of another
\* version of it that has other items, changes nothing; and two runs that have
\* registered the same items have the same signature, whatever the order they
\* registered them in, so that the one can read the file of the other.
OnlyForeignRefused ==
  [][/\ (/\ ReadFile /\ file.header
         /\ file.game # game \/ (DOMAIN file.saved # ToSet(entries) /\ entries # <<>>))
        => memory' = memory /\ live' = live
     /\ file'.header /\ DOMAIN file'.saved = ToSet(entries') => file'.sig = Signature']_saveVars
=============================================================================
