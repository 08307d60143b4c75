---------------------------- MODULE ConfigStorage -----------------------------
(***************************************************************************)
(* The configuration in flash: entries of several types, each with its     *)
(* words and a checksum over its type and its words.  store() erases the   *)
(* region page by page and programs the entries word by word; the power    *)
(* may fail between any two of these, and the firmware that starts next    *)
(* may have its entries in another order.                                  *)
(*                                                                         *)
(* A value is a number; each word of its entry holds that number.          *)
(***************************************************************************)
EXTENDS Integers, Sequences, FiniteSets

CONSTANTS
  WordsOf,       \* words of the value of each type
  Layouts,       \* orders of the types, of the firmwares
  RegionWords, PageWords,  \* of the region, of what is erased at once
  MaxEdits,      \* bound: changes of the configuration
  MaxStores,     \* bound: calls of store()
  MaxBadCells,   \* bound: pages and words that fail
  MaxPowerCuts   \* bound: times the power fails

Types == DOMAIN WordsOf

\* Where the entries of a layout end: each is followed by its checksum.
EntryEnds(l) ==
  LET end[e \in 0..Len(l)] == IF e = 0 THEN 0 ELSE end[e - 1] + WordsOf[l[e]] + 1
  IN end

\* The region of a firmware has space for its configuration: nothing checks that.
ASSUME StorageAssumption ==
  /\ WordsOf \in [Types -> Nat \ {0}]
  /\ Layouts \subseteq Seq(Types)
  /\ \A l \in Layouts : EntryEnds(l)[Len(l)] <= RegionWords
  /\ {RegionWords, PageWords} \subseteq Nat \ {0} /\ RegionWords % PageWords = 0
  /\ {MaxEdits, MaxStores, MaxBadCells, MaxPowerCuts} \subseteq Nat

VARIABLES
  family,     \* of the controller: F7 erases what is not blank only
  layout,     \* of the firmware that runs
  writable,   \* the region may be written, and the flash is not protected
  memory,     \* words of the region
  locked,     \* the flash accepts no command
  storing,    \* store(): where it is, and the next page or word
  shadow,     \* the configuration in RAM, 0: defaults
  stored,     \* history: what each store() had to store
  kept,       \* history: what the last of them stored if it succeeded
  edits, stores, badCells, powerCuts

storageBounds == <<edits, stores, badCells, powerCuts>>
storageVars == <<family, layout, writable, memory, locked, storing, shadow, stored, kept,
                 storageBounds>>

Erased   == [kind |-> "erased"]
Word(v)  == [kind |-> "word", value |-> v]
Crc(t, words) == [kind |-> "crc", type |-> t, words |-> words]
Torn     == [kind |-> "torn"]
NotKept  == [t \in Types |-> -1]
AtRest   == [at |-> "off", next |-> 0]
Pages    == 1..(RegionWords \div PageWords)

-----------------------------------------------------------------------------
(* ConfigRwHandler: where the entry of place e is, and what is in it. *)

Offset(e)  == EntryEnds(layout)[e - 1]
Length     == Offset(Len(layout) + 1)
\* The entry that word i belongs to.
EntryOf(i) == CHOOSE e \in 1..Len(layout) : Offset(e) < i /\ i <= Offset(e + 1)

\* The words of an entry, with its checksum behind them.
EntryWord(i) ==
  LET e == EntryOf(i)  t == layout[e]
      words == [k \in 1..WordsOf[t] |-> Word(shadow[t])]
  IN IF i = Offset(e + 1) THEN Crc(t, words) ELSE Word(shadow[t])

Read(e)     == SubSeq(memory, Offset(e) + 1, Offset(e + 1) - 1)
Checksum(e) == memory[Offset(e + 1)]

\* An erased checksum is never right.
Valid(e) == Checksum(e) # Erased /\ Checksum(e) = Crc(layout[e], Read(e))

\* load() takes the entries in order, up to the first that is not valid.
Loaded == {e \in 1..Len(layout) : \A k \in 1..e : Valid(k)}
Load   == [t \in Types |-> IF \E e \in Loaded : layout[e] = t
                           THEN Read(CHOOSE e \in Loaded : layout[e] = t)[1].value ELSE 0]

-----------------------------------------------------------------------------
\* The application changes an entry of the shadow.
SetEntry(t) ==
  /\ storing = AtRest /\ edits < MaxEdits /\ edits' = edits + 1
  /\ shadow' = [shadow EXCEPT ![t] = edits + 1]
  /\ UNCHANGED <<family, layout, writable, memory, locked, storing, stored, kept, stores, badCells,
                 powerCuts>>

\* The end of store(): the flash is locked, whatever came of it.
Ends(result) ==
  /\ storing' = AtRest /\ locked' = TRUE
  /\ kept' = IF result THEN shadow ELSE kept

\* A region that may not be written is not touched.
StoreStarts ==
  /\ storing = AtRest /\ stores < MaxStores /\ stores' = stores + 1
  /\ IF writable
     THEN /\ storing' = [at |-> "erase", next |-> 1] /\ locked' = FALSE
          /\ stored' = stored \union {shadow} /\ kept' = NotKept
     ELSE Ends(FALSE) /\ UNCHANGED stored
  /\ UNCHANGED <<family, layout, writable, memory, shadow, edits, badCells, powerCuts>>

Page(p)  == ((p - 1) * PageWords + 1)..(p * PageWords)
Blank(p) == \A i \in Page(p) : memory[i] = Erased

ErasePage ==
  /\ storing.at = "erase"
  /\ LET p == storing.next
     IN /\ memory' = [i \in DOMAIN memory |-> IF i \in Page(p) THEN Erased ELSE memory[i]]
        /\ storing' = IF p + 1 \in Pages THEN [storing EXCEPT !.next = p + 1]
                      ELSE [at |-> "write", next |-> 1]
  /\ UNCHANGED <<family, layout, writable, locked, shadow, stored, kept, storageBounds>>

\* Flash::erase locks the flash and fails; store() writes nothing then.
EraseFails ==
  /\ storing.at = "erase" /\ badCells < MaxBadCells /\ badCells' = badCells + 1
  /\ ~(family = "F7" /\ Blank(storing.next))
  /\ Ends(FALSE)
  /\ UNCHANGED <<family, layout, writable, memory, shadow, stored, edits, stores, powerCuts>>

WriteWord ==
  /\ storing.at = "write" /\ storing.next <= Length
  /\ memory' = [memory EXCEPT ![storing.next] = EntryWord(storing.next)]
  /\ storing' = [storing EXCEPT !.next = @ + 1]
  /\ UNCHANGED <<family, layout, writable, locked, shadow, stored, kept, storageBounds>>

\* Slip: the result of the write is not looked at.
WriteFailsUnseen ==
  /\ storing.at = "write" /\ storing.next <= Length
  /\ badCells < MaxBadCells /\ badCells' = badCells + 1
  /\ memory' = [memory EXCEPT ![storing.next] = Torn]
  /\ storing' = [storing EXCEPT !.next = @ + 1]
  /\ UNCHANGED <<family, layout, writable, locked, kept, shadow, stored, edits, stores, powerCuts>>

\* Flash::write locks the flash and fails; what it leaves is not known.
WriteFails ==
  /\ storing.at = "write" /\ storing.next <= Length
  /\ badCells < MaxBadCells /\ badCells' = badCells + 1
  /\ memory' \in {memory, [memory EXCEPT ![storing.next] = Torn]}
  /\ Ends(FALSE)
  /\ UNCHANGED <<family, layout, writable, shadow, stored, edits, stores, powerCuts>>

StoreEnds ==
  /\ storing.at = "write" /\ storing.next > Length
  /\ Ends(TRUE)
  /\ UNCHANGED <<family, layout, writable, memory, shadow, stored, storageBounds>>

\* The power fails; the firmware that starts, another one maybe, loads what is there.
Restart ==
  /\ powerCuts < MaxPowerCuts /\ powerCuts' = powerCuts + 1
  /\ layout' \in Layouts
  /\ UNCHANGED <<family, writable, memory, stored, edits, stores, badCells>>
  /\ storing' = AtRest /\ locked' = TRUE /\ shadow' = Load'
  /\ kept' = IF layout' = layout THEN kept ELSE NotKept

StorageInit ==
  /\ family \in {"F0", "F7"} /\ layout \in Layouts /\ writable \in BOOLEAN
  /\ memory = [i \in 1..RegionWords |-> Erased] /\ locked = TRUE /\ storing = AtRest
  /\ shadow = [t \in Types |-> 0] /\ stored = {} /\ kept = NotKept
  /\ edits = 0 /\ stores = 0 /\ badCells = 0 /\ powerCuts = 0

StorageNext ==
  \/ \E t \in Types : SetEntry(t)
  \/ StoreStarts \/ ErasePage \/ EraseFails \/ WriteWord \/ WriteFails \/ StoreEnds \/ Restart

-----------------------------------------------------------------------------
\* What load() would take now: nothing but values that one store() had for those
\* types, never a torn one, never those of two stores; and once a store() has
\* succeeded, until the next, all it stored.  The flash is locked between them.
StorageSurvivesCrash ==
  /\ Loaded # {} => \E s \in stored : \A e \in Loaded : Load[layout[e]] = s[layout[e]]
  /\ \A e \in Loaded : \A k \in 1..WordsOf[layout[e]] : Read(e)[k] = Word(Load[layout[e]])
  /\ kept # NotKept =>
       Loaded = 1..Len(layout) /\ \A e \in Loaded : Load[layout[e]] = kept[layout[e]]
  /\ storing = AtRest => locked
=============================================================================
