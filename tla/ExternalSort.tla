---------------------------- MODULE ExternalSort ----------------------------
(***************************************************************************)
(* util/stream/sort.hh: Sort<SuffixOrder, CombineCounts>, which sorts what *)
(* does not fit in memory.  BlockSorter sorts each block that arrives and  *)
(* writes it to a file, noting its length; Merge merges as many runs at a  *)
(* time as there are buffers for, from one file to the other and back,     *)
(* until the rest can be merged while it is read; Output does that, and    *)
(* StealCompleted hands over the file when it is a single run.             *)
(*                                                                         *)
(* Lengths, offsets and addresses are in bytes, but EntrySize divides them *)
(* all: data.records[i] is at (i - 1) * EntrySize, and memory maps an      *)
(* address to the record that begins there.                                *)
(***************************************************************************)
EXTENDS CorpusCount

CONSTANTS EntrySize,
          LazyMemories, \* the callers' lazy_memory
          Jobs          \* [file, config: a SortConfig, use: one of Uses]

\* A caller asks for Output with some lazy_memory; or it calls Merge first, and
\* gives Output what Merge returned (then "promised"); or it takes the file.
Uses == {"output", "promise", "steal"}

ASSUME EntryAssumption == EntrySize \in Nat \ {0} /\ LazyMemories \subseteq Nat
ASSUME JobsAssumption ==
  \A job \in Jobs :
    IsFile(job.file) /\ job.config \in [buffer_size : Nat, total_memory : Nat] /\ job.use \in Uses

Hole == [gram |-> << >>, count |-> 0]   \* in a file: punched, or never written
Nothing == [gram |-> << >>, count |-> -1]

VARIABLES config,    \* config_, buffer_size a multiple of EntrySize
          use,       \* what the caller does with the sort
          data, offsets,      \* the file the runs are in, and their lengths
          data2, offsets2,    \* the file a pass writes, and the lengths
          phase,     \* "counting", "idle", in Merge's loop "merge", in a reader "group",
                     \* "push" or "pop", "done"
          lazy,      \* lazy_memory of the call of Merge
          returned,  \* what it returned; -1 before
          reading,   \* total_memory_ of the MergingReader
          assert_one,\* it is the lazy one
          per_buffer, buf, queue, memory,  \* buf from the beginning of the memory
          head,      \* the record at str, or Nothing
          written,
          out,       \* what the user of the sort reads
          aborted

reader == <<reading, assert_one, per_buffer, buf, queue, memory, head, written>>
files == <<data, offsets, data2, offsets2>>
sorting == <<config, use, files, phase, lazy, returned, reader, out, aborted>>
vars == <<counting, sorting>>

AtLeast(a, b) == IF a < b THEN b ELSE a

-----------------------------------------------------------------------------
(* Files, and class Offsets                                                *)

NewFile == [records |-> << >>, at |-> 0]
SizeOf(f) == Len(f.records) * EntrySize

\* write(2) of records, at the file's position
Write(f, records) ==
  LET end == f.at + Len(records)
  IN  [at |-> end,
       records |-> [i \in 1 .. AtLeast(end, Len(f.records)) |->
                      IF i > f.at /\ i <= end THEN records[i - f.at]
                      ELSE IF i <= Len(f.records) THEN f.records[i] ELSE Hole]]

Seek0(f) == [f EXCEPT !.at = 0]

\* Reset.  log is what is in the log file from its position.
NewOffsets == [log |-> << >>, cur |-> [length |-> 0, run |-> 0], blocks |-> 0, sum |-> 0]

AppendLength(o, length) ==
  IF length = 0 THEN o
  ELSE IF length = o.cur.length
    THEN [o EXCEPT !.blocks = @ + 1, !.cur.run = @ + 1]
    ELSE [o EXCEPT !.blocks = @ + 1, !.log = Append(@, o.cur), !.cur = [length |-> length, run |-> 1]]

\* The first entry of the log, 0,0, is skipped.
FinishedAppending(o) ==
  LET log == Append(o.log, o.cur)
  IN  IF o.blocks = 0 THEN [o EXCEPT !.log = Tail(log), !.cur.run = 0]
      ELSE [o EXCEPT !.log = SubSeq(log, 3, Len(log)), !.cur = log[2]]

\* The object after NextSize, which returns cur.length.
NextSize(o) ==
  LET used == [o EXCEPT !.sum = @ + o.cur.length, !.blocks = @ - 1, !.cur.run = @ - 1]
  IN  IF used.cur.run = 0 /\ used.blocks > 0
        THEN [used EXCEPT !.log = Tail(@), !.cur = Head(used.log)] ELSE used

-----------------------------------------------------------------------------
(* The constructor and BlockSorter                                         *)

\* "Make buffer_size a multiple of the entry_size."  Memory for fewer than four
\* buffers throws BadSortConfig.
SortInit(c, u) ==
  /\ config = [c EXCEPT !.buffer_size = @ - (@ % EntrySize)]
  /\ config.buffer_size > 0 /\ config.total_memory >= 4 * config.buffer_size
  /\ use = u
  /\ data = NewFile /\ offsets = NewOffsets
  /\ data2 = NewFile /\ offsets2 = NewOffsets
  /\ phase = "counting"
  /\ lazy \in IF use = "steal" THEN {0}
              ELSE LazyMemories \cup
                   {(config.total_memory * (config.total_memory \div config.buffer_size - 1))
                      \div (config.total_memory \div config.buffer_size)}  \* DefaultLazy
  /\ returned = -1
  /\ reading = 0 /\ assert_one = FALSE /\ per_buffer = 0 /\ buf = 0
  /\ queue = {} /\ memory = << >> /\ head = Nothing /\ written = 0
  /\ out = << >> /\ aborted = FALSE

Init == \E job \in Jobs : CountInit(job.file) /\ SortInit(job.config, job.use)

RecordLess(a, b) == SuffixLess(a.gram, b.gram)

\* What std::sort may make of a block.
Sorted(records) ==
  {s \in [DOMAIN records -> Range(records)] :
     \A i, j \in DOMAIN records : i < j => RecordLess(s[i], s[j])}

\* BlockSorter, then WriteAndRecycle
SortBlock ==
  /\ phase = "counting" /\ sent # << >>
  /\ offsets' = AppendLength(offsets, Len(Head(sent)) * EntrySize)
  /\ \E sorted \in Sorted(Head(sent)) : data' = Write(data, sorted)
  /\ sent' = Tail(sent)
  /\ UNCHANGED <<piece, context, block, dedupe, closed,
                 config, use, data2, offsets2, phase, lazy, returned, reader, out, aborted>>

AllSorted ==
  /\ phase = "counting" /\ closed /\ sent = << >>
  /\ offsets' = FinishedAppending(offsets)
  /\ phase' = "idle"
  /\ UNCHANGED <<counting, config, use, data, data2, offsets2, lazy, returned, reader, out, aborted>>

-----------------------------------------------------------------------------
(* Merge                                                                   *)

\* Fault: no memory, no arity.
LazyArityOrNone == lazy \div config.buffer_size

LazyArity == AtLeast(1, lazy \div config.buffer_size)

Enough == offsets.blocks <= LazyArity \/ SizeOf(data) <= lazy

\* Fault of LazySize: the runs may have whole buffers.
LazyBuffers == IF offsets.blocks <= 1 THEN 0 ELSE offsets.blocks * config.buffer_size

\* What Merge returns.
LazySize ==
  IF offsets.blocks <= 1 THEN 0
  ELSE AtMost(SizeOf(data), offsets.blocks * config.buffer_size)

\* The names data and offsets stay with the file that has the runs.
MergeReturns ==
  /\ phase \in {"idle", "merge"} /\ returned = -1
  /\ Enough \/ (phase = "idle" /\ offsets.blocks <= 1)
  /\ returned' = LazySize
  /\ data' = IF phase = "merge" THEN Seek0(data) ELSE data
  /\ phase' = "idle"
  /\ UNCHANGED <<counting, config, use, offsets, data2, offsets2, lazy, reader, out, aborted>>

\* One turn of Merge's loop: a MergingReader runs.
BeginPass ==
  /\ phase \in {"idle", "merge"} /\ returned = -1
  /\ ~Enough /\ (phase = "idle" => offsets.blocks > 1)
  /\ data' = Seek0(data)
  /\ reading' = AtMost(config.total_memory - 2 * config.buffer_size, SizeOf(data))
  /\ assert_one' = FALSE
  /\ phase' = "group"
  /\ UNCHANGED <<counting, config, use, offsets, data2, offsets2, lazy, returned,
                 per_buffer, buf, queue, memory, head, written, out, aborted>>

\* The pass has written a file of longer runs; the files change places.
EndPass ==
  /\ phase = "group" /\ offsets.blocks = 0 /\ ~assert_one
  /\ data' = data2 /\ offsets' = FinishedAppending(offsets2)
  /\ data2' = [data EXCEPT !.records = << >>] /\ offsets2' = NewOffsets
  /\ phase' = "merge"
  /\ UNCHANGED <<counting, config, use, lazy, returned, reader, out, aborted>>

-----------------------------------------------------------------------------
(* MergingReader::Run and its MergeQueue                                   *)

BeginGroup ==
  /\ phase = "group" /\ offsets.blocks > 0
  /\ LET bytes == AtLeast(config.buffer_size, reading \div offsets.blocks)
     IN  per_buffer' = bytes - (bytes % EntrySize)
  /\ buf' = 0 /\ memory' = << >> /\ written' = 0
  /\ phase' = "push"
  /\ UNCHANGED <<counting, config, use, files, lazy, returned,
                 reading, assert_one, queue, head, out, aborted>>

\* Fault: a short run still gets a buffer of full length to itself.
FitsWhole == buf + per_buffer <= reading

Fits == buf + AtMost(per_buffer, offsets.cur.length) <= reading

\* Entry::Read: the next bytes of the run go into its buffer.
ReadInto(e) ==
  LET amount == AtMost(per_buffer, e.remaining)
      current == e.end - per_buffer
  IN  [current |-> current,
       end |-> IF per_buffer < e.remaining THEN e.end ELSE current + amount,
       remaining |-> e.remaining - amount,
       offset |-> e.offset + amount]

\* Where ReadInto's bytes come from and go to, as numbers of records.
From(e) == e.offset \div EntrySize
Records(e) == 0 .. AtMost(per_buffer, e.remaining) \div EntrySize - 1

Load(e) ==
  [a \in DOMAIN memory \cup {e.end - per_buffer + i * EntrySize : i \in Records(e)} |->
     LET i == (a - (e.end - per_buffer)) \div EntrySize
     IN  IF i \in Records(e) THEN data.records[From(e) + i + 1] ELSE memory[a]]

\* HolePunch, behind what has been read
Punched(e) ==
  [data EXCEPT !.records = [i \in DOMAIN @ |->
     IF i - From(e) - 1 \in Records(e) THEN Hole ELSE @[i]]]

Push ==
  /\ phase = "push" /\ offsets.blocks > 0 /\ Fits
  /\ LET run == [end |-> buf + per_buffer, offset |-> offsets.sum,
                 remaining |-> offsets.cur.length]
     IN  /\ queue' = queue \cup {ReadInto(run)}
         /\ memory' = Load(run)
         /\ data' = Punched(run)
  /\ buf' = buf + AtMost(offsets.cur.length, per_buffer)
  /\ offsets' = NextSize(offsets)
  /\ UNCHANGED <<counting, config, use, data2, offsets2, phase, lazy, returned,
                 reading, assert_one, per_buffer, head, written, out, aborted>>

\* "This shouldn't happen but it's probably better to die than loop."
Populated ==
  /\ phase = "push" /\ ~(offsets.blocks > 0 /\ Fits)
  /\ aborted' = (offsets.blocks > 0 /\ (Cardinality(queue) < 2 \/ assert_one))
  /\ phase' = IF aborted' THEN "done" ELSE "pop"
  /\ UNCHANGED <<counting, config, use, files, lazy, returned, reader, out>>

\* ++str: the record goes to the file, or to the user.
Emit(record) ==
  IF assert_one THEN out' = Append(out, record) /\ UNCHANGED data2
  ELSE data2' = Write(data2, <<record>>) /\ UNCHANGED out

\* CombineCounts
Combined(first, second) == [first EXCEPT !.count = @ + second.count]

\* MergeQueue::Pop of an entry with the least record, which becomes the one at
\* str or is combined with it.
Pop ==
  /\ phase = "pop"
  /\ \E e \in queue :
       LET top == memory[e.current]
           next == [e EXCEPT !.current = @ + EntrySize]
       IN  /\ \A f \in queue : ~RecordLess(memory[f.current], top)
           /\ IF head # Nothing /\ head.gram = top.gram
                THEN head' = Combined(head, top) /\ UNCHANGED <<written, data2, out>>
                ELSE /\ head' = top
                     /\ IF head = Nothing THEN UNCHANGED <<written, data2, out>>
                        ELSE written' = written + 1 /\ Emit(head)
           /\ \/ /\ next.current # e.end
                 /\ queue' = (queue \ {e}) \cup {next}
                 /\ UNCHANGED <<memory, data>>
              \/ /\ next.current = e.end /\ e.remaining > 0
                 /\ queue' = (queue \ {e}) \cup {ReadInto(e)}
                 /\ memory' = Load(e)
                 /\ data' = Punched(e)
              \/ /\ next.current = e.end /\ e.remaining = 0
                 /\ queue' = queue \ {e}
                 /\ UNCHANGED <<memory, data>>
  /\ UNCHANGED <<counting, config, use, offsets, offsets2, phase, lazy, returned,
                 reading, assert_one, per_buffer, buf, aborted>>

\* The last record of the group, and its length.
EndGroup ==
  /\ phase = "pop" /\ queue = {}
  /\ Emit(head)
  /\ head' = Nothing /\ written' = written + 1
  /\ offsets2' = IF assert_one THEN offsets2
                 ELSE AppendLength(offsets2, written' * EntrySize)
  /\ phase' = "group"
  /\ UNCHANGED <<counting, config, use, data, offsets, lazy, returned,
                 reading, assert_one, per_buffer, buf, queue, memory, aborted>>

-----------------------------------------------------------------------------
(* Output and StealCompleted                                               *)

\* A caller that gives back what Merge returned calls Merge again.
MergeAgain ==
  /\ phase = "idle" /\ returned # -1 /\ use = "promise"
  /\ lazy' = returned /\ returned' = -1 /\ use' = "promised"
  /\ UNCHANGED <<counting, config, files, phase, reader, out, aborted>>

\* OwningMergingReader: nothing, a single run, or one group.
Output ==
  /\ phase = "idle" /\ returned # -1 /\ use \in {"output", "promised"}
  /\ reading' = lazy /\ assert_one' = TRUE
  /\ IF offsets.blocks > 1
       THEN phase' = "group" /\ UNCHANGED <<offsets, out>>
       ELSE /\ phase' = "done"
            /\ IF offsets.blocks = 0 THEN UNCHANGED <<offsets, out>>
               ELSE LET first == offsets.sum \div EntrySize
                    IN  /\ out' = SubSeq(data.records, first + 1, first + offsets.cur.length \div EntrySize)
                        /\ offsets' = NextSize(offsets)
  /\ UNCHANGED <<counting, config, use, data, data2, offsets2, lazy, returned,
                 per_buffer, buf, queue, memory, head, written, aborted>>

OutputEnds ==
  /\ phase = "group" /\ offsets.blocks = 0 /\ assert_one
  /\ phase' = "done"
  /\ UNCHANGED <<counting, config, use, files, lazy, returned, reader, out, aborted>>

\* The file is read from its beginning.
StealCompleted ==
  /\ phase = "idle" /\ returned # -1 /\ use = "steal"
  /\ data' = Seek0(data)
  /\ out' = data.records
  /\ phase' = "done"
  /\ UNCHANGED <<counting, config, use, offsets, data2, offsets2, lazy, returned, reader, aborted>>

-----------------------------------------------------------------------------
Sorting ==
  \/ SortBlock \/ AllSorted
  \/ MergeReturns \/ BeginPass \/ EndPass
  \/ BeginGroup \/ Push \/ Populated \/ Pop \/ EndGroup
  \/ MergeAgain \/ Output \/ OutputEnds \/ StealCompleted

Next == (Count /\ UNCHANGED sorting) \/ Sorting \/ ((phase = "done" \/ source = Broken) /\ UNCHANGED vars)

Spec == Init /\ [][Next]_vars /\ WF_vars((Count /\ UNCHANGED sorting) \/ Sorting)

-----------------------------------------------------------------------------
(* Properties                                                              *)

\* The user reads every N-gram of the corpus once, in suffix order, with the
\* number of its occurrences: what a block deduplicated, what runs shared and
\* what passes carried over is all in it.
OutputIsSortedCounts == phase = "done" /\ ~aborted => out = SortedCounts(Lines)

\* The two "Bug in sort implementation" messages never come.
NeverAborts == ~aborted

\* The part of the memory an entry of the queue will still read or write.
Extent(e) ==
  IF e.remaining > 0 THEN e.end - per_buffer .. e.end - 1 ELSE e.current .. e.end - 1

\* The buffers of a group fit the memory allocated, apart from each other.
BuffersApart ==
  \A e \in queue :
    /\ Extent(e) \subseteq 0 .. reading - 1
    /\ \A f \in queue : f # e => Extent(e) \cap Extent(f) = {}

\* The log still to be read, and how many runs and bytes come before each entry.
Entering(o) == <<o.cur>> \o o.log
RunsBefore(log) ==
  LET before[k \in 1 .. Len(log) + 1] == IF k = 1 THEN 0 ELSE before[k - 1] + log[k - 1].run
  IN  before
BytesBefore(log) ==
  LET before[k \in 1 .. Len(log) + 1] ==
        IF k = 1 THEN 0 ELSE before[k - 1] + log[k - 1].run * log[k - 1].length
  IN  before

\* Where a run begins or ends.
Bounds(log) ==
  UNION {{BytesBefore(log)[k] + n * log[k].length : n \in 0 .. log[k].run} : k \in DOMAIN log}

\* Between passes the log of lengths divides the file into runs, each of them
\* sorted and free of repeats.
LogTellsTheRuns ==
  phase \in {"idle", "merge"} =>
    LET log == Entering(offsets)
    IN  /\ RunsBefore(log)[Len(log) + 1] = offsets.blocks
        /\ BytesBefore(log)[Len(log) + 1] = SizeOf(data)
        /\ \A j \in 1 .. Len(data.records) - 1 :
             j * EntrySize \notin Bounds(log) => RecordLess(data.records[j], data.records[j + 1])

Runs == [length : Nat, run : Nat]
Logs == [log : Seq(Runs), cur : Runs, blocks : Nat, sum : Nat]
RecordFiles == [records : Seq(Entries \cup {Hole}), at : Nat]

\* Every variable of the sort keeps its type.
TypeOK ==
  /\ config \in [buffer_size : Nat, total_memory : Nat] /\ use \in Uses \cup {"promised"}
  /\ {data, data2} \subseteq RecordFiles /\ {offsets, offsets2} \subseteq Logs
  /\ phase \in {"counting", "idle", "merge", "group", "push", "pop", "done"}
  /\ {lazy, reading, per_buffer, buf, written} \subseteq Nat /\ returned \in Nat \cup {-1}
  /\ queue \subseteq [current : Nat, end : Nat, remaining : Nat, offset : Nat]
  /\ memory \in [DOMAIN memory -> Entries]
  /\ head \in Entries \cup {Nothing} /\ out \in Seq(Entries)
  /\ {assert_one, aborted} \subseteq BOOLEAN

\* What Merge returns is no more than it was given, and "the minimum memory
\* necessary to do lazy merge": Output with that much makes no more passes.
LazyFits ==
  /\ returned # -1 => returned <= lazy
  /\ phase = "group" /\ ~assert_one => use # "promised"

\* What holds of the window, blocks, memory and files at any time.
SorterInvariant ==
  /\ CountTypeOK /\ TypeOK
  /\ ~closed => WindowShowsTheFile /\ TableTellsTheBlock
  /\ BuffersApart /\ LogTellsTheRuns /\ LazyFits

\* The sort ends, unless the file is broken.
Finishes == <>(phase = "done" \/ source = Broken)
=============================================================================
