----------------------------- MODULE SampleReading -----------------------------
(***************************************************************************)
(* How a poll of a Modbus or a SQL connector becomes samples: registers    *)
(* are read in windows and cut out of the replies; the rows of a query      *)
(* become samples, of which the last one of a tag is its live value.       *)
(*                                                                         *)
(* A register's content is its type and address, and what is decoded of    *)
(* registers is the sequence of their bytes; numbers, scaling and texts    *)
(* are made of that.  Rows are numbered by age, the newest last.           *)
(***************************************************************************)
EXTENDS Integers, SequencesExt, PythonNone

CONSTANTS
    Registers,   \* the mappings a connector may have
    WindowSize,  \* max_registers_per_request
    MaxMappings, \* bound: mappings of a connector
    RowTags,     \* the tags that a row may speak of: all that are mapped, or the one it names
    MaxRows      \* bound: rows of the table

RegisterTypes == {"coil", "discrete_input", "holding_register", "input_register"}
DataTypes == {"bool", "uint16", "int16", "uint32", "int32", "float32", "uint64", "int64", "float64",
              "string"}

ASSUME ReadingAssumption ==
    /\ WindowSize \in Nat \ {0}
    /\ {MaxMappings, MaxRows} \subseteq Nat
    /\ \A m \in Registers :
        /\ m.register \in RegisterTypes /\ m.data \in DataTypes
        /\ m.address \in Nat /\ m.quantity \in Nat \ {0}

VARIABLES
    mappings,  \* the mappings of a Modbus connector, in their order
    table      \* the tags of each row of the table of a SQL connector

readingVars == <<mappings, table>>

-----------------------------------------------------------------------------
(* Modbus *)

BitTypes == {"coil", "discrete_input"}

Words(m) ==
    CASE m.data \in {"bool", "uint16", "int16"} -> 1
      [] m.data \in {"uint32", "int32", "float32"} -> 2
      [] m.data \in {"uint64", "int64", "float64"} -> 4
      [] m.data = "string" -> m.quantity

Span(m) == IF m.register \in BitTypes THEN m.quantity ELSE Words(m)

End(m) == m.address + Span(m)

\* The mappings of a type in the order of their addresses, those of one in the given order.
Ordered(register) ==
    LET mine == {i \in DOMAIN mappings : mappings[i].register = register}
        Before(i, j) ==
            \/ mappings[i].address < mappings[j].address
            \/ mappings[i].address = mappings[j].address /\ i < j
    IN [n \in 1..Cardinality(mine) |->
            mappings[CHOOSE i \in mine : Cardinality({j \in mine : Before(j, i)}) = n - 1]]

Window(list) ==
    [start |-> list[1].address,
     count |-> (CHOOSE e \in {End(list[i]) : i \in DOMAIN list} :
                    \A i \in DOMAIN list : End(list[i]) <= e) - list[1].address,
     mappings |-> list]

\* Mutant: a gap is bridged.
JoinsOver(list, m) == End(m) - list[1].address <= WindowSize

\* Whether the next mapping still fits into a window: no gap, and not too many.
Joins(list, m) ==
    LET w == Window(list) IN
    /\ m.address <= w.start + w.count
    /\ End(m) - w.start <= WindowSize

\* _build_windows: the next mapping goes into the window that is being filled or begins one.
Put(lists, m, batch) ==
    IF batch /\ lists # <<>> /\ Joins(Last(lists), m)
    THEN Append(Front(lists), Append(Last(lists), m))
    ELSE Append(lists, <<m>>)

ListsOf(ordered, batch) ==
    LET upTo[n \in 0..Len(ordered)] ==
            IF n = 0 THEN <<>> ELSE Put(upTo[n - 1], ordered[n], batch)
    IN upTo[Len(ordered)]

WindowsOf(ordered, batch) ==
    LET lists == ListsOf(ordered, batch) IN [w \in DOMAIN lists |-> Window(lists[w])]

\* What a device answers to a window, and what of it is a mapping's.
Reply(register, window) == [i \in 1..window.count |-> <<register, window.start + i - 1>>]

Cut(m, window) ==
    SubSeq(Reply(m.register, window), m.address - window.start + 1, m.address - window.start + Span(m))

\* _decode_registers: the words in their order, or swapped, and then the bytes.
Bytes(words) == [i \in 1..(2 * Len(words)) |-> <<words[(i + 1) \div 2], i % 2>>]

Decoded(m, cut) ==
    IF m.register \in BitTypes THEN cut
    ELSE LET swapped == IF m.swap THEN Reverse(cut) ELSE cut IN
         IF m.little /\ m.data # "string" THEN Reverse(Bytes(swapped)) ELSE Bytes(swapped)

\* What a device holds for a mapping that is read alone.
ReadAlone(m) == Decoded(m, [i \in 1..Span(m) |-> <<m.register, m.address + i - 1>>])

-----------------------------------------------------------------------------
(* SQL *)

\* _build_table_query with a column of times: the newest row first, one row or all.  What
\* comes without such a column, or from the user's own query, has no order to speak of.
Answer(latest) ==
    LET n == Len(table) IN
    IF latest /\ n > 0 THEN <<n>> ELSE [i \in 1..n |-> n + 1 - i]

\* _normalize_samples gives a sample for each tag a row speaks of, and record_sample keeps
\* the last of a tag: the row its live value is of.
Live(answer, tag) ==
    LET of == {i \in DOMAIN answer : tag \in table[answer[i]]} IN
    IF of = {} THEN None ELSE answer[CHOOSE i \in of : \A j \in of : j <= i]

-----------------------------------------------------------------------------
ReadingInit == mappings = <<>> /\ table = <<>>

AddMapping(m) ==
    /\ Len(mappings) < MaxMappings
    /\ mappings' = Append(mappings, m)
    /\ UNCHANGED table

AddRow(tags) ==
    /\ Len(table) < MaxRows
    /\ table' = Append(table, tags)
    /\ UNCHANGED mappings

\* A connector is of one of the two kinds.
ReadingNext ==
    \/ table = <<>> /\ \E m \in Registers : AddMapping(m)
    \/ mappings = <<>> /\ \E tags \in RowTags : AddRow(tags)

ReadingSpec == ReadingInit /\ [][ReadingNext]_readingVars

-----------------------------------------------------------------------------
\* Reading in windows shows in nothing but the number of requests: every mapping is read once
\* and gets what it would get alone, no register is asked for that no mapping names, and no
\* window is longer than allowed but for a mapping that is so itself.
BatchingIsInvisible ==
    \A register \in RegisterTypes, batch \in BOOLEAN :
        LET ordered == Ordered(register)
            windows == WindowsOf(ordered, batch)
        IN
        /\ FlattenSeq([w \in DOMAIN windows |-> windows[w].mappings]) = ordered
        /\ \A w \in Range(windows) :
            /\ \A m \in Range(w.mappings) : Decoded(m, Cut(m, w)) = ReadAlone(m)
            /\ \A a \in w.start..(w.start + w.count - 1) :
                \E m \in Range(w.mappings) : m.address <= a /\ a < End(m)
            /\ w.count <= WindowSize \/ \E m \in Range(w.mappings) : Span(m) > WindowSize

\* The live value of a tag is of the newest row if one row is read and rows have times.  If all
\* are read it is of the oldest that speaks of the tag, since they come newest first.
LiveTellsTheOrder ==
    \A tag \in UNION RowTags :
        LET of == {r \in DOMAIN table : tag \in table[r]}
            oldest == Live(Answer(FALSE), tag)
        IN
        /\ Live(Answer(TRUE), tag) = (IF Len(table) \in of THEN Len(table) ELSE None)
        /\ of # {} => oldest \in of /\ \A r \in of : oldest <= r

\* However a poll reads, each tag gets the value it is to get.
PollsReadTheTags == BatchingIsInvisible /\ LiveTellsTheOrder
================================================================================
