------------------------------ MODULE IoChannels ------------------------------
(***************************************************************************)
(* The addresses of the PLC's inputs and outputs: generate_mapping_report  *)
(* of services/io_mapping_engine.py over the list of signals that the      *)
(* plant graph and the logic name, in that order.  A tag counts where it   *)
(* is first named; the tags of each IO type fill channels from its base    *)
(* slot on, in the order of their tags.                                    *)
(*                                                                         *)
(* Tags are numbers in the order of their names; what else a row says is   *)
(* left out.                                                               *)
(***************************************************************************)
EXTENDS Integers, Sequences, FiniteSets, PythonNone

CONSTANTS
    SignalTags, \* normalised signal tags
    Width,      \* channels of a slot: 16
    MaxNamed    \* bound: signals named

ASSUME ChannelsAssumption ==
    /\ SignalTags \subseteq Nat
    /\ Width \in Nat \ {0}
    /\ MaxNamed \in Nat
    /\ None \notin {"DI", "DO", "AI", "AO"}

IoTypes == {"DI", "DO", "AI", "AO"}
Candidates == [tag : SignalTags, io : IoTypes \cup {None}]

VARIABLE named  \* the candidates, in the order in which they are collected

\* _collect_signal_candidates: a device whose type says nothing has no IO type.
NameSignal(tag, io) ==
    /\ Len(named) < MaxNamed
    /\ named' = Append(named, [tag |-> tag, io |-> io])

ChannelsInit == named = <<>>
ChannelsNext == \E tag \in SignalTags, io \in IoTypes \cup {None} : NameSignal(tag, io)
ChannelsSpec == ChannelsInit /\ [][ChannelsNext]_named

-----------------------------------------------------------------------------
\* Mutant: a tag counts once for each type.
RowsOfEachType(list) ==
    {[tag |-> list[i].tag, io |-> IF list[i].io = None THEN "DI" ELSE list[i].io] :
        i \in DOMAIN list}

\* _dedupe_candidates and the rows made of what is left; without a type a row is DI.
RowsOf(list) ==
    {[tag |-> list[i].tag, io |-> IF list[i].io = None THEN "DI" ELSE list[i].io] :
        i \in {i \in DOMAIN list : \A j \in 1..(i - 1) : list[j].tag # list[i].tag}}

\* _assign_channels: the counter of the row's type when its turn comes, and the address.
BaseSlot == [DI |-> 1, DO |-> 2, AI |-> 3, AO |-> 4]
Counter(rows, row) == Cardinality({r \in rows : r.io = row.io /\ r.tag < row.tag})
Slot(rows, row) == BaseSlot[row.io] + (Counter(rows, row) \div Width)
Channel(rows, row) == (Counter(rows, row) % Width) + 1
Address(rows, row) == <<Slot(rows, row), Channel(rows, row)>>

OfType(rows, io) == {r \in rows : r.io = io}

-----------------------------------------------------------------------------
\* However often a tag is named, it has one row; and two signals share an address only
\* when the signals of a type need more than one slot: those past the first slot get the
\* addresses of the next type.
DistinctUnlessOverflow(rows) ==
    \A r, s \in rows :
        r # s =>
            /\ r.tag # s.tag
            /\ Address(rows, r) = Address(rows, s) =>
                    /\ r.io # s.io
                    /\ \E io \in {r.io, s.io} : Cardinality(OfType(rows, io)) > Width

ChannelsAreDistinct == DistinctUnlessOverflow(RowsOf(named))
===============================================================================
