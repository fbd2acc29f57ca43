-------------------------- MODULE FilterController --------------------------
(***************************************************************************)
(* lm/filter/thread.hh over util/thread_pool.hh: the multithreaded n-gram  *)
(* filter.  The main thread reads n-grams into batches; a pool of filter   *)
(* workers runs the filter on whole batches in any order; one output       *)
(* worker puts the batches back in order by sequence number, writes them   *)
(* and returns them to the main thread.  Batches go round in a fixed set.  *)
(*                                                                         *)
(* The input is a script of lines, numbered by position: a line has an     *)
(* n-gram, or none at the end of an ARPA section, at which the main thread *)
(* flushes the filter and then writes to the output itself.  Raw count     *)
(* files have no sections.  The condition of the filter (see               *)
(* FilterPredicates) says where an n-gram goes: to all outputs or to those *)
(* of some systems.  In multiple mode there is an output file for each     *)
(* system, and the batches' output is a MultipleOutputBuffer; otherwise    *)
(* there is one file and a BinaryOutputBuffer.  Queues are PCQueues, taken *)
(* as atomic FIFOs (see PCQueue).                                          *)
(*                                                                         *)
(* The strings of an InputBuffer keep their memory from one filling of the *)
(* batch to the next.  All lines are taken to be equally long, so that a   *)
(* StringPiece of a line is its place in the batch.                        *)
(***************************************************************************)
EXTENDS Naturals, Sequences, FiniteSets, SequencesExt

CONSTANTS Batches,     \* the batches of the Controller (its queue argument)
          Null,        \* poison: a NULL request, and an empty place in ordering_
          Filters,     \* the filter workers' threads
          BatchSize,
          Inputs,      \* the scripts considered, each with its condition
          Systems,     \* the output files of multiple mode
          Chosen(_, _),   \* where the filter with a condition sends an n-gram
          Meant(_, _)     \* where it is to go, by the filter's description

ASSUME BatchesAssumption == IsFiniteSet(Batches) /\ Batches # {} /\ Null \notin Batches
ASSUME FiltersAssumption == IsFiniteSet(Filters)
ASSUME BatchSizeAssumption == BatchSize \in Nat \ {0}
ASSUME InputsAssumption == \A in \in Inputs : in.script \in Seq(Seq(Nat))

Answers == [all : BOOLEAN, systems : SUBSET Systems]
ASSUME ChosenAssumption ==
  \A in \in Inputs : \A ngram \in ToSet(in.script) \ {<< >>} :
    {Chosen(in.condition, ngram), Meant(in.condition, ngram)} \subseteq Answers

QueueSize == Cardinality(Batches)

VARIABLES
  script, condition,  \* the input and what it is filtered by
  next,               \* the position to be read next
  main,               \* where the main thread is
  after,              \* where the caller of FlushInput goes on
  poisons,            \* poison the filter pool's destructor has yet to produce
  local_read,         \* batches the main thread owns, a stack, top last
  sequence,           \* the next sequence number
  number,             \* batch -> its sequence_
  input,              \* batch -> the n-grams in its input buffer
  kept,               \* batch -> its output buffer
  to_read, to_filter, to_output,   \* the three queues
  filter,             \* filter thread -> [at, batch]
  writer,             \* where the output worker is
  ordering,           \* the output worker's deque of batches
  base_sequence,      \* sequence number of the deque's front
  output              \* lines written, each with its systems

mainVars == <<script, condition, next, main, after, poisons, local_read, sequence, number, input>>
filterVars == <<kept, filter>>
writerVars == <<writer, ordering, base_sequence>>
vars == <<mainVars, filterVars, writerVars, to_read, to_filter, to_output, output>>

Top == Last(local_read)

\* NewInput: the top batch gets the next sequence number and an empty buffer.
NewInput(stack) ==
  /\ number' = [number EXCEPT ![Last(stack)] = sequence]
  /\ input' = [input EXCEPT ![Last(stack)] = << >>]
  /\ sequence' = sequence + 1

Init ==
  /\ \E in \in Inputs : script = in.script /\ condition = in.condition
  /\ next = 1
  /\ main = "read"
  /\ after = "new_input"
  /\ poisons = 0
  /\ local_read = SetToSeq(Batches)
  /\ number = [b \in Batches |-> 0]
  /\ sequence = 1
  /\ input = [b \in Batches |-> << >>]
  /\ kept = [b \in Batches |-> [lines |-> << >>, last |-> 0, undefined |-> FALSE]]
  /\ to_read = << >> /\ to_filter = << >> /\ to_output = << >>
  /\ filter = [f \in Filters |-> [at |-> "consume", batch |-> Null]]
  /\ writer = "consume"
  /\ ordering = << >>
  /\ base_sequence = 0
  /\ output = << >>

-----------------------------------------------------------------------------
(* Faults: plausible mistakes in the actions below, each of which breaks a *)
(* property.  No specification uses them.                                  *)

\* Flush does not wait for the batches under way.
CollectSome ==
  /\ main = "collect"
  /\ local_read # << >>
  /\ NewInput(local_read)
  /\ main' = "end_length"
  /\ UNCHANGED <<script, condition, poisons, next, after, local_read, filterVars, writerVars,
                 to_read, to_filter, to_output, output>>

\* The filter pool's destructor produces one poison for all its workers.
EndOfInputOnce ==
  /\ main = "read"
  /\ next > Len(script)
  /\ main' = "close_filters"
  /\ poisons' = 1
  /\ UNCHANGED <<script, condition, next, after, local_read, sequence, number, input, filterVars,
                 writerVars, to_read, to_filter, to_output, output>>

\* The output worker takes the batches as they come.
WriterAnyOrder ==
  /\ writer = "consume"
  /\ to_output # << >>
  /\ to_output' = Tail(to_output)
  /\ IF Head(to_output) = Null
       THEN writer' = "exit" /\ UNCHANGED ordering
       ELSE writer' = "assemble" /\ ordering' = Append(ordering, Head(to_output))
  /\ UNCHANGED <<mainVars, filterVars, base_sequence, to_read, to_filter, output>>

-----------------------------------------------------------------------------
(* The main thread                                                         *)

\* AddNGram: a full batch is handed over at once.
ReadNGram ==
  /\ main = "read"
  /\ next <= Len(script) /\ script[next] # << >>
  /\ input' = [input EXCEPT ![Top] = Append(@, next)]
  /\ next' = next + 1
  /\ main' = IF Len(input'[Top]) = BatchSize THEN "flush_input" ELSE "read"
  /\ after' = "new_input"
  /\ UNCHANGED <<script, condition, poisons, local_read, sequence, number, filterVars, writerVars,
                 to_read, to_filter, to_output, output>>

\* EndLength starts with Flush, and Flush with FlushInput.
ReadEnd ==
  /\ main = "read"
  /\ next <= Len(script) /\ script[next] = << >>
  /\ main' = "flush_input"
  /\ after' = "collect"
  /\ UNCHANGED <<script, condition, poisons, next, local_read, sequence, number, input, filterVars, writerVars,
                 to_read, to_filter, to_output, output>>

FlushInputEmpty ==
  /\ main = "flush_input"
  /\ input[Top] = << >>
  /\ main' = after
  /\ UNCHANGED <<script, condition, poisons, next, after, local_read, sequence, number, input, filterVars,
                 writerVars, to_read, to_filter, to_output, output>>

FlushInput ==
  /\ main = "flush_input"
  /\ input[Top] # << >>
  /\ Len(to_filter) < QueueSize
  /\ to_filter' = Append(to_filter, Top)
  /\ local_read' = Front(local_read)
  /\ main' = IF local_read' = << >> THEN "move_read" ELSE after
  /\ UNCHANGED <<script, condition, poisons, next, after, sequence, number, input, filterVars, writerVars,
                 to_read, to_output, output>>

\* MoveRead blocks until the output worker has returned a batch.
Received == to_read # << >> /\ to_read' = Tail(to_read)
                            /\ local_read' = Append(local_read, Head(to_read))
MoveRead ==
  /\ main = "move_read"
  /\ Received
  /\ main' = after
  /\ UNCHANGED <<script, condition, poisons, next, after, sequence, number, input, filterVars, writerVars,
                 to_filter, to_output, output>>

StartInput ==
  /\ main = "new_input"
  /\ NewInput(local_read)
  /\ main' = "read"
  /\ UNCHANGED <<script, condition, poisons, next, after, local_read, filterVars, writerVars,
                 to_read, to_filter, to_output, output>>

\* The loop of Flush: wait until every batch is back.
Collect ==
  /\ main = "collect"
  /\ Len(local_read) < QueueSize
  /\ Received
  /\ UNCHANGED <<script, condition, poisons, next, main, after, sequence, number, input, filterVars, writerVars,
                 to_filter, to_output, output>>

CollectDone ==
  /\ main = "collect"
  /\ Len(local_read) = QueueSize
  /\ NewInput(local_read)
  /\ main' = "end_length"
  /\ UNCHANGED <<script, condition, poisons, next, after, local_read, filterVars, writerVars,
                 to_read, to_filter, to_output, output>>

\* The main thread writes to the output itself.
EndLength ==
  /\ main = "end_length"
  /\ output' = Append(output, [line |-> next, systems |-> {}])
  /\ next' = next + 1
  /\ main' = "read"
  /\ UNCHANGED <<script, condition, poisons, after, local_read, sequence, number, input, filterVars, writerVars,
                 to_read, to_filter, to_output>>

-----------------------------------------------------------------------------
(* ~Controller at the end of the file destroys filter_, then output_.  Each  *)
(* pool's destructor produces one poison per worker and joins the workers.   *)

EndOfInput ==
  /\ main = "read"
  /\ next > Len(script)
  /\ main' = "close_filters"
  /\ poisons' = Cardinality(Filters)
  /\ UNCHANGED <<script, condition, next, after, local_read, sequence, number, input, filterVars,
                 writerVars, to_read, to_filter, to_output, output>>

PoisonFilter ==
  /\ main = "close_filters"
  /\ poisons > 0
  /\ Len(to_filter) < QueueSize
  /\ to_filter' = Append(to_filter, Null)
  /\ poisons' = poisons - 1
  /\ UNCHANGED <<script, condition, next, main, after, local_read, sequence, number, input, filterVars,
                 writerVars, to_read, to_output, output>>

JoinFilters ==
  /\ main = "close_filters"
  /\ poisons = 0
  /\ \A f \in Filters : filter[f].at = "exit"
  /\ Len(to_output) < QueueSize
  /\ to_output' = Append(to_output, Null)
  /\ main' = "close_output"
  /\ UNCHANGED <<script, condition, poisons, next, after, local_read, sequence, number, input,
                 filterVars, writerVars, to_read, to_filter, output>>

JoinWriter ==
  /\ main = "close_output"
  /\ writer = "exit"
  /\ main' = "done"
  /\ UNCHANGED <<script, condition, poisons, next, after, local_read, sequence, number, input,
                 filterVars, writerVars, to_read, to_filter, to_output, output>>

MainStep ==
  \/ ReadNGram \/ ReadEnd \/ FlushInputEmpty \/ FlushInput \/ MoveRead \/ StartInput
  \/ Collect \/ CollectDone \/ EndLength
  \/ EndOfInput \/ PoisonFilter \/ JoinFilters \/ JoinWriter

-----------------------------------------------------------------------------
(* A filter worker: Worker::operator() around FilterWorker::operator()     *)

FilterConsume(f) ==
  /\ filter[f].at = "consume"
  /\ to_filter # << >>
  /\ to_filter' = Tail(to_filter)
  /\ filter' = [filter EXCEPT ![f] =
                  [at |-> IF Head(to_filter) = Null THEN "exit" ELSE "call_filter",
                   batch |-> Head(to_filter)]]
  /\ UNCHANGED <<mainVars, kept, writerVars, to_read, to_output, output>>

\* BinaryOutputBuffer::AddNGram, and MultipleOutputBuffer's for a line that goes
\* to all systems, which is what no system means.
AddNGram(buffer, place) ==
  [buffer EXCEPT !.lines = Append(@, [place |-> place, systems |-> {}])]

\* Fault of SameLine: only the lengths are compared, which are all the same.
SameLineByLength(buffer, place) == buffer.last # 0

\* Is this the line of the last call?  last_ outlives Flush.
SameLine(buffer, place) == buffer.last = place

\* MultipleOutputBuffer::SingleAddNGram for each of the systems.  The back() of
\* an empty annotated_ is undefined.
SingleAddNGram(buffer, place, systems) ==
  IF SameLine(buffer, place)
    THEN IF buffer.lines = << >>
           THEN [buffer EXCEPT !.undefined = TRUE]
           ELSE [buffer EXCEPT !.lines[Len(buffer.lines)].systems = @ \cup systems]
    ELSE [buffer EXCEPT !.lines = Append(@, [place |-> place, systems |-> systems]),
                        !.last = place]

\* The filter says where a line goes.
FilterLine(buffer, line, place) ==
  LET to == Chosen(condition, script[line])
  IN  CASE to.all -> AddNGram(buffer, place)
        [] ~to.all /\ to.systems = {} -> buffer
        [] ~to.all /\ to.systems # {} -> SingleAddNGram(buffer, place, to.systems)

\* The lines of a batch, one after another.
FilterLines(buffer, lines) ==
  LET upTo[n \in 0 .. Len(lines)] ==
        IF n = 0 THEN buffer ELSE FilterLine(upTo[n - 1], lines[n], n)
  IN  upTo[Len(lines)]

\* The output buffer refers to the lines of the input buffer.  main stands for
\* the process when its behaviour has become undefined.
CallFilter(f) ==
  /\ filter[f].at = "call_filter"
  /\ LET b == filter[f].batch
     IN  kept' = [kept EXCEPT ![b] = FilterLines(@, input[b])]
  /\ main' = IF kept'[filter[f].batch].undefined THEN "undefined" ELSE main
  /\ filter' = [filter EXCEPT ![f].at = "produce"]
  /\ UNCHANGED <<script, condition, next, after, poisons, local_read, sequence, number, input,
                 writerVars, to_read, to_filter, to_output, output>>

FilterProduce(f) ==
  /\ filter[f].at = "produce"
  /\ Len(to_output) < QueueSize
  /\ to_output' = Append(to_output, filter[f].batch)
  /\ filter' = [filter EXCEPT ![f] = [at |-> "consume", batch |-> Null]]
  /\ UNCHANGED <<mainVars, kept, writerVars, to_read, to_filter, output>>

FilterStep(f) == FilterConsume(f) \/ CallFilter(f) \/ FilterProduce(f)

-----------------------------------------------------------------------------
(* The output worker                                                       *)

\* Its handler first puts the batch at its place in the deque.
WriterConsume ==
  /\ writer = "consume"
  /\ to_output # << >>
  /\ to_output' = Tail(to_output)
  /\ IF Head(to_output) = Null
       THEN writer' = "exit" /\ UNCHANGED ordering
       ELSE LET pos == number[Head(to_output)] - base_sequence + 1
            IN  /\ ordering' = [i \in 1 .. Max({pos, Len(ordering)}) |->
                                  IF i = pos THEN Head(to_output)
                                  ELSE IF i <= Len(ordering) THEN ordering[i] ELSE Null]
                /\ writer' = "assemble"
  /\ UNCHANGED <<mainVars, filterVars, base_sequence, to_read, to_filter, output>>

\* while (!ordering_.empty() && ordering_.front()) ...
FrontReady == ordering # << >> /\ Head(ordering) # Null

\* ... write the front batch ...
WriterFlush ==
  /\ writer = "assemble"
  /\ FrontReady
  /\ LET b == Head(ordering)
         lines == kept[b].lines
     IN  /\ output' = output \o [i \in DOMAIN lines |-> [line |-> input[b][lines[i].place],
                                                        systems |-> lines[i].systems]]
         /\ kept' = [kept EXCEPT ![b].lines = << >>]
  /\ writer' = "return"
  /\ UNCHANGED <<mainVars, filter, ordering, base_sequence, to_read, to_filter, to_output>>

\* ... and give it back.
WriterReturn ==
  /\ writer = "return"
  /\ Len(to_read) < QueueSize
  /\ to_read' = Append(to_read, Head(ordering))
  /\ ordering' = Tail(ordering)
  /\ base_sequence' = base_sequence + 1
  /\ writer' = "assemble"
  /\ UNCHANGED <<mainVars, filterVars, to_filter, to_output, output>>

WriterPause ==
  /\ writer = "assemble"
  /\ ~FrontReady
  /\ writer' = "consume"
  /\ UNCHANGED <<mainVars, filterVars, ordering, base_sequence, to_read, to_filter,
                 to_output, output>>

WriterStep == WriterConsume \/ WriterFlush \/ WriterReturn \/ WriterPause

-----------------------------------------------------------------------------
\* The process has ended.
Finished == main \in {"done", "undefined"} /\ UNCHANGED vars

Next ==
  \/ main # "undefined" /\ (MainStep \/ (\E f \in Filters : FilterStep(f)) \/ WriterStep)
  \/ Finished

Spec == Init /\ [][Next]_vars

\* Every thread that can take its next step eventually takes it.
FairSpec ==
  /\ Spec
  /\ WF_vars(MainStep)
  /\ WF_vars(WriterStep)
  /\ \A f \in Filters : WF_vars(FilterStep(f))

-----------------------------------------------------------------------------
(* Properties                                                              *)

Requests == Batches \cup {Null}

\* Every variable keeps its type.
TypeOK ==
  /\ \E in \in Inputs : script = in.script /\ condition = in.condition
  /\ next \in 1 .. Len(script) + 1
  /\ main \in {"read", "flush_input", "move_read", "new_input", "collect", "end_length",
               "close_filters", "close_output", "done", "undefined"}
  /\ after \in {"new_input", "collect"}
  /\ poisons \in 0 .. Cardinality(Filters)
  /\ local_read \in Seq(Batches)
  /\ sequence \in Nat /\ base_sequence \in Nat
  /\ number \in [Batches -> Nat]
  /\ input \in [Batches -> Seq(1 .. Len(script))]
  /\ kept \in [Batches -> [lines : Seq([place : 1 .. BatchSize, systems : SUBSET Systems]),
                          last : 0 .. BatchSize, undefined : BOOLEAN]]
  /\ \A q \in {to_read, to_filter, to_output, ordering} : q \in Seq(Requests)
  /\ filter \in [Filters -> [at : {"consume", "call_filter", "produce", "exit"},
                             batch : Requests]]
  /\ writer \in {"consume", "assemble", "return", "exit"}
  /\ output \in Seq([line : 1 .. Len(script), systems : SUBSET Systems])

\* What the program is to write: the ends of sections and the lines that are to
\* pass, in order, each to the systems it is to pass for.
Where(i) == IF script[i] = << >> THEN [all |-> TRUE, systems |-> {}] ELSE Meant(condition, script[i])
Passes(i) == Where(i).all \/ Where(i).systems # {}
ExpectedOf(i) == IF Passes(i) THEN << [line |-> i, systems |-> Where(i).systems] >> ELSE << >>
ExpectedTo(i) ==
  LET upTo[n \in 0 .. Len(script)] == IF n = 0 THEN << >> ELSE upTo[n - 1] \o ExpectedOf(n)
  IN  upTo[i]
Expected == ExpectedTo(Len(script))

\* "Assemble the output in order": however the filter workers interleave, the
\* output is always a beginning of what the filter promises, with every section's
\* n-grams before its end.
OutputInOrder == IsPrefix(output, Expected)

\* No n-gram that is to pass is lost, by the predicates or by the batches: when the
\* program ends the output is the whole of it.
OutputComplete == main = "done" => output = Expected

\* "A separate file is created for each sentence" (filter_main.cc): every line
\* the filter has sent to some systems goes to them and no others, whatever was
\* in the batch before.
Sent(b) == {[line |-> input[b][entry.place], systems |-> entry.systems] :
              entry \in ToSet(kept[b].lines)}
LinesGoWhereTheyPassed ==
  /\ main # "undefined"
  /\ \A b \in Batches : Sent(b) \subseteq ToSet(Expected)

\* While the main thread writes to the output (EndLength), the output worker
\* has nothing left to write: the two share the stream without a lock.
OutputNotShared == main = "end_length" => (to_output = << >> /\ ~FrontReady)

\* Every batch is in exactly one place, so none is refilled while its output
\* still refers to its lines, and none is lost to the reader.
Copies(q, b) == Cardinality({i \in DOMAIN q : q[i] = b})
OneOwner ==
  \A b \in Batches :
    Copies(local_read, b) + Copies(to_read, b) + Copies(to_filter, b)
      + Copies(to_output, b) + Copies(ordering, b)
      + Cardinality({f \in Filters : filter[f].batch = b}) = 1

\* What holds of the batches at any time, wherever they are.
BatchInvariant == TypeOK /\ OneOwner /\ LinesGoWhereTheyPassed

\* The run comes to its end.
Terminates == <>(main = "done")
=============================================================================
