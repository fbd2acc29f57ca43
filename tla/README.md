# A verification of KenLM's core and of the RNNG's search

This directory holds TLA+ specifications of the n-gram language model toolkit
under `src/src/language_models/n-gram/kenlm` and of the recurrent neural network
grammar under `src/src/language_models/RNNG`, TLC configurations that check them
on small instances, and proofs checked by TLAPS. Paths below are relative to
KenLM's directory unless they begin with `src/`; `rnng-pytorch/...` is short for
`src/src/language_models/RNNG/rnng-pytorch/...`.

## 1. The repository

The repository computes word surprisals with five kinds of language model and
relates them to reading times. Almost all of it is a sequential pipeline of
scripts from file to file. Two parts have a logic of their own: KenLM, a C++
library and a set of programs with threads, bounded queues, shared buffers,
in-place algorithms, external sorting and streams that several threads pass
along; and the search of the RNNG, which keeps many partial trees in tensors of
fixed size. Their behaviour is what is modelled.

| component | state it keeps | operations | with whom it interacts | what is hard | what makes it correct |
|---|---|---|---|---|---|
| **PCQueue** `util/pcqueue.hh` | ring of slots, two semaphores, two mutexes, two pointers | Produce, Consume | every threaded part | two mutexes protect one array; assignments may throw | tokens conserved, no race on a slot, atomic FIFO, no lost wake-up |
| **Chain and Link** `util/stream/chain.*`, `io.cc` | blocks, a ring of queues, one thread per worker, poison | `>>`, CompleteLoop, Wait, Link's `++`, Poison, ~Link | PCQueue; every stream algorithm runs in it | blocks shared without a lock; end of data; failing workers; reuse | one holder per block, no deadlock, no truncation, nothing dangles, in-order exactly-once delivery |
| **Threaded filter** `lm/filter/thread.hh`, `format.hh`, `util/thread_pool.hh` | batches, three queues, sequence numbers, the deque that orders output | AddNGram, Flush, handlers of two pools, destructors | PCQueue; the predicates; output files | batches finish out of order and are reused; sections; shutdown | the output is what the filter promises; the program ends |
| **Filter predicates** `lm/filter/phrase.*`, `vocab.*`, `wrapper.hh`, `util/multi_intersection.hh` | sets of sentences per word or phrase, a graph of phrases per n-gram | PassNGram of all modes, AllIntersection, the lazy search of phrase.cc | threaded filter | arcs are read lazily and kept between calls | an n-gram passes for the sentences that can contain it |
| **RewindableStream** `util/stream/rewindable_stream.*` | buffered blocks, a cursor, a mark | `++`, Mark, Rewind, Poison | the queues of a Chain; `lm/interpolate/normalize.cc` | the buffer shares the chain's limited blocks | it is a tape; it never starves the chain |
| **Probing hash table** `util/probing_hash_table.hh` | buckets, count, threshold | Insert, FindOrInsert, Find, Clear, Double | vocabularies, the hashed search, CorpusCount | doubling in place while entries wrap around | a set of keys, always with a gap |
| **File reading** `util/file_piece.*`, `read_compressed.*` | a window on the file, mapped or read; a chain of decompressing readers | ReadDelimited, ReadLine, Shift, the fall back from mapping to reading | CorpusCount, ARPA readers | windows end inside a word; a map fails in mid-file; members of compressed files | what is read is what the file holds, or an exception |
| **Corpus counting** `lm/builder/corpus_count.*` | a block of n-grams, a dedupe table | Writer::Append, StartSentence | FilePiece before it, the chain that sorts after it | block boundaries | the blocks sum to the corpus' counts |
| **External merge sort** `util/stream/sort.hh` | offset files of sorted runs, buffers, a queue of heads | BlockSorter, MergingReader, Merge's passes, Output, StealCompleted | chains on both sides | memory split among runs, lazy last pass | a sorted permutation, combined; it ends and never gives up |
| **Adjusted counts** `lm/builder/adjust_counts.*` | one open record per order, statistics, `CollapseStream`'s two cursors in a block | the merge loop, `CollapseStream::operator++` | reads the sorted highest order, writes all lower ones, in chains | records are open for many steps; entries are overwritten while the block is read | Kneser-Ney's counts, in suffix order, complete; each entry read once |
| **Discounts, probabilities, interpolation of orders** `lm/builder/{initial_probabilities,interpolate}.*`, `joint_order.hh` | one stream per order, a stack of contexts, streams of gammas | AddRight, MergeRight, PruneNGramStream, JointOrder's Enter and Exit | adjusted counts before, the ARPA or binary writers after | streams advance at different rates; pruned n-grams are in some of them | the streams stay aligned and the model sums to one |
| **Log-linear interpolation** `lm/interpolate/*` | models' n-grams merged, packed orders, a recursion over contexts with matrices, a queue of backoffs | Merge, normalise, reunify backoffs | lmplz' intermediate files | n-grams that some models lack | the normalised product of the models |
| **Search structures** `lm/search_hashed.*`, `search_trie.*`, `trie.*`, `value_build.hh` | tables or arrays of n-grams with weights and marks | building from an ARPA file; lookups | ARPA reader; queries | files leave out suffixes: blanks, messages to contexts | every context and every suffix is there, and marked |
| **Queries and states** `lm/model.cc`, `left.hh`, `partial.hh` | states of words and backoffs; left pointers | FullScore, GetState, ExtendLeft, RuleScore, RevealBefore/After, Subsume | the search structures; decoders | left and right context arrive in any order | equal to the file's backed-off probability; states are enough and no more |
| **Binary files and vocabulary** `lm/binary_format.*`, `vocab.*` | a file of header, vocabulary, search and words, through a mapping or written | SetupJustVocab, GrowForSearch, WriteVocabWords, FinishFile; InitializeBinary, LoadBinary | the search structures | a crash in between | what is accepted is complete |
| **RNNG stacks** `rnng-pytorch/fixed_stack_models.py`, `fixed_stack_in_order_models.py`; `models.py`, `in_order_models.py` | stacks, paths, counts and scores as tensors; the older ones as lists | do_shift, do_nt, do_reduce, masks of invalid actions, moving elements | PyTorch | fixed sizes at their limit; copies between beams; two implementations of the same stacks | stacks are what the actions say, and those of the other implementation |
| **RNNG search** `rnng-pytorch/beam_search.py`, `fixed_stack_models.py`, `action_dict.py`, `preprocess.py`, `utils.py` | two beams of elements, a word beam | word-synchronous beam search, particle filter, retry, oracle actions | the stacks | small beams, small stacks | surprisals not negative; trees of the oracle are found |
| PCFG, transformer, n-gram scripts, corpus preparation, GAMMs, statistics, figures, SLURM jobs; Python wrapper, double-conversion | files | run once | - | sequential, numerical, generated or third-party | - |

`PROJECT.json` lists every component with its sources, what is left out of it
and, for those not modelled, the reason.

The programs these parts make up are four pipelines, and the models are composed
the same way:

    corpus --FilePiece--> CorpusCount --blocks--> ExternalSort --> sorted counts
    sorted counts --CollapseStream--> AdjustCounts --> InitialProbabilities
                  --> Interpolate --> model --MergeModels--> LogLinear --> model
    ARPA file --> HashedSearch or TrieSearch --> BinaryFormat --> ModelQueries
                  --> ChartScore
    n-grams --FilterController (batches, pools)--> FilterPredicates --> files

## 2. Plan

The order is that of importance: what everything else rests on comes first.

1. **Done.** `PCQueue` and its abstract specification `BlockingFifo`, with
   proofs of its invariants and of the refinement for any number of threads.
   `Chain` and `Pipeline`, with proofs of the ring's invariant and of the
   refinement for any number of blocks and workers. `FilterController` and its
   predicates, with proofs about the batches' ownership and order and, with one
   output file, that the output is in order and complete.
   `RewindableStream` and `Tape`, with proofs of the invariant and of the
   refinement for any blocks that are not empty. `ProbingHashTable` and `KeySet`,
   with proofs of the invariants and of the refinement for any keys, hash
   functions and sizes. The counting pipeline from the bytes of a file to sorted counts, with proofs
   that its buffers fit, its logs tell its files and it never gives up, for any
   corpus, sizes and memory. The estimation pipeline
   from sorted counts to the interpolated model, and the log-linear
   interpolation behind it. Both search structures, queries, states, chart and
   partial scores, binary files. The RNNG's fixed stacks and beam search, with a
   proof that their tensors suffice for any sentence, limits and sizes.
2. **Next modules.** The Links that the main thread holds in
   `lm/interpolate/tune_instances.cc`; the RNNG's search over lists
   (`rnng-pytorch/models.py`); quantisation and bit widths of the
   trie; order 1 of `AdjustCounts`.
3. **Next theorems.** `ExternalSort`: the content of the runs (LogTellsTheRuns:
   each run the log tells is sorted), on top of what `SortProofs` has of their
   lengths and places. `FilePiece`: WindowShowsTheFile. `CollapseStream`:
   HandsOnTheRest.

The modules are written to be proved about: parameters are CONSTANTS, each
operation is an action and invariants are conjunctions of named parts. RECURSIVE
operators occur only in `ParseTrees` and `FilterPredicates`, where the code
itself recurses and TLC is all that is asked, and the properties of the search
that compare it with trees stand in `ParseTrees`, behind it; `FilterController` takes
the predicates as constants, so it does not depend on them.

## 3. The modules

Each module's heading comment says what its state stands for; `map` in
`PROJECT.json` gives the source lines of each definition. Operators whose names
say so in their comment ("Fault of ...", or in a section "Faults") are deliberate
mistakes used to test that the properties can fail; no specification uses them.
`MC...` modules only define sets of values for TLC.

### Threads and buffers

**BlockingFifo** is the promise of a queue: each call takes effect at one
instant between its start and its return, and a call that fails has no effect.

**PCQueue** has one action per statement of Produce and Consume: wait for the
semaphore, lock, assign (which may throw and leave a half-written slot), advance
and unlock, post. `pc` is the statement a thread executes next; unwinding of an
exception is a step of its own, because the handler posts the semaphore while
the lock is still held. Refinement mapping: the queue's abstract content is what
lies between the two pointers, and a call takes effect when its pointer moves.

**Pipeline** is the promise of a chain: blocks reach each worker once, in order,
and a run ends after all of them have.

**Chain** has the main thread (add workers, close the loop, join, drain, start
again) and a thread per worker, each in the code of its Link. Queues are atomic
FIFOs of unbounded length; that no Produce ever needs to wait is a property
(ProduceNeverWaits, a part of RingInvariant), which justifies that, and
PCQueue's refinement justifies the atomic steps. A worker's work is reduced to
which data it has seen. The first worker is `io.cc`'s Read, which fills blocks
and poisons its Link; the closing one is Recycler, which also resets the block's
size.

A worker may throw (`failing`), at the places where the workers of this code do:
before it has a Link (PRead), in its loop (any worker, WriteAndRecycle at the
closing end too), and after its loop, when its poison has gone on (PWrite,
AdjustCounts). An exception that leaves the loop destroys the Link, which passes
nothing on, its block being a real one. CorpusCount is different: its ~Writer
hands on what is in the block and poisons the Link, whether the corpus is over or
an exception is leaving (WriterThrow; the destructor of RewindableStream poisons
in the same way). The workers behind it then take the beginning of a corpus for
all of it, and end as usual. The handler in `Thread::operator()` aborts the process
in a later step: what other threads do in between is checked. Only the main
thread's join of the failed worker keeps it from going on with such a run, which
is what FailureHasNoResult says.

**FilterController** has the main thread (reading, Flush, the end of a section,
the destructors of the two pools in their order), each filter worker and the
output worker, each with a step per queue operation or access to shared state.
An input is a script of n-grams and section ends with a condition; which systems
an n-gram passes for is the constant operator `Chosen`, and what the help text
promises is `Meant`. A batch's output buffer holds references into its input
buffer, as StringPieces do, so that a batch that is refilled too early changes
what is written. Both buffers, BinaryOutputBuffer and MultipleOutputBuffer, are
modelled; `back()` of an empty vector leads to `main = "undefined"`.

**FilterPredicates** is what `Chosen` and `Meant` are in the runs: the
vocabulary filter by intersection of sentence lists, and the phrase filter with
its graph over the n-gram's positions, whose arcs intersect lazily and whose
vertices keep what they have found (`phrase.cc`), against a definition of "the
n-gram could be assembled from this sentence's vocabulary or phrases", which is
what the help text of `filter_main.cc` says.

**Tape** is a cursor with a mark, and a front of records sent on that never
passes the mark. **RewindableStream** has addresses for pointers and one action
per call or, where AppendBlock or Poison wait for a block, per part of a call.
The chain around it is three actions (give a block, end the input, recycle).

**KeySet** is a set of keys. **ProbingHashTable** has a step per call, but
Double's two loops take a step per bucket and per entry put aside; the hash
function is chosen in the initial state. AutoProbing's calls that double
continue after it.

### From a file to sorted counts

**NGrams** has what the following modules say about n-grams: the special words,
contexts, suffix order, and the counts of a corpus by definition.

**ReadCompressed** is the chain of readers behind one file descriptor: the magic
bytes are looked for, a member is inflated a buffer at a time, what follows it is
looked at again, and data that follows as plain is handed on. Compressed bytes
are units whose content is a constant; the codec itself is external.

**FilePiece** is the window: MMapShift and ReadShift, the fall back from the one
to the other when a map fails, ReadDelimited, SkipSpaces and ReadLine as used by
the reader of a corpus. An address is a place in the file. That the window shows
the file (WindowShowsTheFile) is part of SorterInvariant.

**CorpusCount** reads words through FilePiece, one step per word; the Writer
fills a block of n-grams, dedupes with a table of positions and hands the block
on when it is full.

**ExternalSort** takes these blocks as BlockSorter does, writes each sorted and
combined run to a file with its length in the run-length encoded `Offsets`, and
merges (what std::sort makes of a block is any order that the comparison
allows): MergingReader with its queue of heads and its buffers per run, passes
until what is left fits the lazy memory, and the last pass on the way to the
consumer, or StealCompleted. Memory is in entries; a buffer that is refilled is
a step.

### From counts to a model

**CollapseStream** has addresses for pointers and a step per `operator++`.
**AdjustCounts** extends it and translates the loop of `AdjustCounts::Run` for
orders from 2 on, one step per n-gram the stream hands on, and the end that
outputs the open records. `lower` are the records being made; the statistics are
StatCollector's.

**Numbers** has exact fractions, and numbers modulo a prime: residues of
fractions whose equality, not order, matters. **InitialProbabilities** has the discounts made
of the statistics, AddRight's sums of a context and MergeRight's
probabilities, with pruning as PruneNGramStream does it; **Interpolate** the
joint traversal of all orders with its streams of gammas. One step is one Enter
or Exit.

**MergeModels** is the first pass of the log-linear interpolation
(vocabularies merged, n-grams of all models merged with the probability and the
order each model has them from), **LogLinear** the second and third
(normalisation with its recursion over contexts, ModelBuffer, the queue of
backoffs and their reunification with the n-grams). **TwoPrograms** is the
composition: what `lmplz` has made is interpolated with another model by
`interpolate`.

### From a model to scores

**BackoffModel** has the promise: an ARPA file defines the probability of a word
after any words. **HashedSearch** and **TrieSearch** build from the file's
records what `search_hashed.cc` and `search_trie.cc` build: blanks for what the
file leaves out, the marks that an n-gram extends to the left or to the right,
rest costs; for the trie, the sorted files, the two passes and the messages to
contexts. **ModelQueries** has lookups, FullScore with and without a state,
GetState and ExtendLeft on either structure. **BinaryFormat** saves a structure
to a file and loads it again; a kill or a power failure may come at any step.
Each area of the file has what is in the page cache and what is surely on the
disk, and a power failure leaves any content between the two. The vocabularies
number the words, one by insertion and one by the order of their hashes, and find
them again. What is loaded is what the queries of the following modules use. **ChartScore** is a decoder that
applies rules to words and earlier fragments with RuleScore; it also has the
three functions of `partial.hh` on two fragments.

### The grammar

**ParserStacks** has a stack element of both strategies (top-down and in-order):
the stack, its pointers, the counts of open and consecutive nonterminals, the
path, the score, and the masks of invalid actions. It also has the same of
the older implementation, whose stacks are Python lists, and says how far the two
agree: the same stack after the same actions, and the same actions allowed,
where the tensors have room.
**BeamSearch** is the search: two beams of elements, the word beam, moving
elements within and between beams, the shift of forced elements, and the second
parse after a failure; and the particle filter (`variable_beam_search`), whose
particles are rounded at every action and whose beams grow. Which elements of
beams that may not grow any more are dropped depends on their places, which the
sets of the model do not have: any are. The network is a distribution over the allowed actions
(made of a list of preferences), so that scores can be compared exactly.
**ParseTrees** has trees, the oracle's actions and MaxStackSize from
preprocessing, the printed trees, and what the search has to do with them.

## 4. The runs

Every passing run explores its whole state space. Bounds are the smallest at
which the cases listed occur.

| run | what it shows | bounds, and why they are enough |
|---|---|---|
| `pcqueue` | TokensConserved, NoDataRace, the refinement of BlockingFifo, and Progress (no lost wake-up at either end), in every interleaving with throwing assignments | 2 producers, 2 consumers, 2 slots, 2 values: the ring wraps, both ends are contended, the queue is full and empty; the theorems of section 6 lift the bounds |
| `chain` | RingInvariant (one holder per block, a Produce never waits, poison comes after all data that was handed on, nothing dangles, blocks arrive at their full size), FailureHasNoResult, the refinement of Pipeline, WaitReturns | 2 blocks, up to 3 workers and the closing one, up to 3 filled blocks per run (more than there are blocks, so they circulate), 2 runs (state left by the first), workers throw before they have a Link, in the loop, and behind the poison, and the first one also as ~Writer does; the safety part is proved without these bounds (section 6) |
| `filter` | BatchInvariant (a batch has one owner, lines go where they passed), OutputInOrder, OutputComplete (what is written is what `Meant` promises), OutputNotShared, Terminates | 2 filter threads and, as `filter_main.cc` has it, twice as many batches, of 2 lines; ARPA sections whose last batch is partly filled and more batches than the pool holds, raw files of whole batches, multiple mode with every batch filled once (ownership, OutputNotShared and the order of batches are proved for all of them, and with one output file the other invariants too, section 6); 384 conditions (6 kinds of filter, every choice of 3 sentences of 4) with 6 scripts of n-grams up to length 4 in which phrases overlap |
| `rewind` | BufferInvariant (the cursor is on a record, the buffer fits, every record is sent on once), the refinement of Tape, CallsReturn | 3 blocks of 2 records, 8 records walked: the memory is used more than once, a mark may be in any place of a block, blocks arrive full (first in the chain) or with 1 or 2 records |
| `probing` | TableInvariant (a gap remains, the count is right), TakesWhatItIsSizedFor, the refinement of KeySet | 4 keys, tables asked for 0 or 2 entries, doubled up to 8 buckets; hash values that collide before and after doubling and wrap around; every such function up to the names of the keys |
| `chart_score` | WhatIsLoadedIsComplete; TablesAreClosed; ScoreOfAnyBracketing (a decoder's score is the file's, whatever the order); StateInvariant and StateForgetsNothing (states are what their words need, no more and no less); RevealingIsJoining | order 4, words 1, 2 and `<s>`; every choice of 8 optional n-grams with at least one 4-gram, with and without backoffs: blanks of one and two orders, contexts that are blanks, files that lack a context; the trie of files that leave something out; rules of up to 4 parts, charts of up to 2 fragments; 2 files saved with both structures, both write methods, with and without words, two orders of the words in the file, kill or power failure at each step |
| `external_sort` | OutputIsSortedCounts, NeverAborts, SorterInvariant (Offsets, buffers, dedupe table and window agree with what they stand for), Finishes | order 2, blocks of 2 records, entries of size 2, two configurations and lazy memories 0, 5 and 9, so that there are one to several passes; one line of up to 7 words (from 5 on the first is given), two lines of up to 2, last lines without newline; pages of 2 bytes, windows of 4, files of any content of up to 4 bytes (5 and 7 with a given beginning), words longer than a window; regular files, ones whose map fails in mid-file, pipes; compressed files of one and two members, truncated ones, and ones followed by plain data |
| `interpolate` | HandsOnTheRest and StreamsComplete (the adjusted counts), StreamInvariant, ModelSumsToOne; NormalizedProduct and InStep (the log-linear interpolation) | order 4; corpora of up to 2 sentences of up to 3 words, up to 3 of up to 2, and six-line ones with three sentences once, twice and three times, whose discounts come from counts; 3 lists of thresholds, with and without a pruned word, blocks of 3 records; log-linear stage for corpora of at most 3 n-grams of the highest order, with a model of order 4 that has other words and one of order 2, weights 1 and 2 |
| `beam_search` | StacksAreWhatActionsSay, StorageSuffices, NoNegativeSurprisal, FindsTheTrees, MaxStackSizeIsExact | 2 labels, up to 3 open and 2 (top-down) or 3 (in order) consecutive nonterminals (100, 8 and 3 in the code), sentences of 1 to 3 tokens with words of one and two pieces, beams of 1, 2, 3 and one that holds everything, stack bounds -1 (none given), 2 and 4; 3 pairs of preference lists; 1, 3 and 7 particles in beams that grow from 2 to 5 rows (100 to 3000 in the code): stacks fill, beams are cut, paths run out of actions, parses fail and are tried again with success and without, the last row is reached, no particle is left; the second stack, of at least 10 items more than tokens, cannot be filled by 3 tokens |
| `filter_whole_batches`, `filter_raw_tail`, `trie_blanks` | that the code departs from what its comments say: section 7 | the smallest input that does |

`PROJECT.json` pairs every property with a mutant, a plausible mistake in one
definition that makes TLC find it violated. Type invariants (`TypeOK`) are
conjuncts of the invariants named, or part of what the refinement needs, and not
checked separately.

Three properties have exceptions that are the code's, stated as conjuncts of the
property or of the inputs, and explained in section 7: WhatIsLoadedIsComplete
(two ways an incomplete file is accepted), InStep (the streams of different size
that `interpolate` reports), and `SomeThresholds` and the files with terminated
last lines, for which ModelSumsToOne is stated.

## 5. Fairness

Fairness is only what an operating system's scheduler gives: a thread that can
take its next step, and stays able to, takes it (weak fairness per thread).
Nothing obliges a program to start a call: PCQueue's threads may stay idle, a
Chain's main thread need not go on adding workers, but finishes a wait it has
begun; a RewindableStream's user may stop, but a call in progress goes on, and
the chain around it turns. FilterController's main thread reads a file, which
ends; so does ExternalSort's program, whose specification has weak fairness of
its single sequence of steps (Finishes: no pass merges so few runs that passes
go on for ever). Semaphores and mutexes are not assumed to be fair: Progress
says that *some* consumer (producer) keeps going, not each one. The other
specifications are sequential and safety is all that is asked of them; that
they do not stop in between is the absence of deadlock, which TLC checks.

## 6. The proofs

`PCQueueProofs` proves, for any finite sets of producers and consumers, any set of values and any capacity of at least 1, whether
assignments throw or not (the assumptions named in `PCQueue`):

- `TypeCorrect`: `Spec => []TypeOK`;
- `TokensAreConserved`: `Spec => []TokensConserved`;
- `DataRaceFree`: `Spec => []NoDataRace`;
- `TakesWholeElements`: what is consumed was completely written (the invariant
  `OnlyWholeElements`, which no run checks by itself: it follows from the
  refinement there);
- `Refinement`: `Spec => ImplementsFifo`.

None of the invariants is inductive alone. NoDataRace does not follow from the
locks, as the two ends have different ones: it follows from counting. A producer
and a consumer in their locked parts each hold a token, so by TokensConserved the
number of filled slots is at least 1 and at most Size - 1, and the pointers,
being that far apart around the ring, differ. TokensConserved in turn needs to
know that at most one thread per end is in the locked part (LockedScopes), or
the pointer would not move with the tokens. And that an element is whole when it
is announced needs that the thread past its assignment has written what it was
given (CopiesMade). The inductive invariant is

    IInv == TypeOK /\ LockedScopes /\ TokensConserved /\ OnlyWholeElements /\ CopiesMade

The proof has a lemma per conjunct and per end of the queue (LocksProduce,
FilledProduce, ElementsProduce, and their counterparts), over lemmas that count
the threads in a set of places before and after one of them moves (AtMove,
AtCount). The refinement is proved from IInv: each statement maps to the
abstract call's start, effect, return or failure, or leaves the abstract state
unchanged; the lemmas Content... say what a write at one end and a pointer's
movement at the other do to the content as a sequence.

**Chain.** `ChainProofs` proves, for any finite set of
blocks, any numbers of workers and runs and any data (the assumptions
BlocksAssumption and BoundsAssumption of `Chain`), with workers that throw at the
places named in section 3:

- `RingInvariantHolds`: `Spec => []RingInvariant` (TypeOK, OneHolder,
  ProduceNeverWaits, PoisonMeansComplete, NothingDangles, ArrivesWhole);
- `FailureNeverHasResult`: `Spec => []FailureHasNoResult`: the main thread does not
  get past joining a worker that has thrown, and the workers behind it learn of
  an end only from a poison the failing one sends;
- `EndsWithPoison`: Wait's drain never has to give up with "Chain ending without
  poison.";
- `Refinement`: `Spec => ImplementsPipeline`.

RingInvariant is a statement about queues' lengths and holders that no single
step can be shown to keep. Why a Produce finds room depends on where the poison
is: the source gives up its block when it sends the poison, so that *one block is
nowhere* from then on and the poison has its room. The inductive invariant is

    IInv == TypeOK /\ Shape /\ Links /\ Failures /\ PoisonFollows /\ PoisonLast
            /\ BlockLost /\ Apart /\ Whole /\ Flow /\ Drained

Shape and Links tie the program counters to the main thread's phase and to what
a Link owns, Failures a failure to a thread that has not been joined. PoisonFollows says that behind a worker that has got the poison all
earlier ones have sent it on, PoisonLast that nothing comes after it in a queue,
Apart that each block is in one hand or at one place of one queue, BlockLost
what was said above. From Apart and BlockLost the lengths follow by counting.
Flow says that a queue holds just what its writer has passed on and its reader
not yet received, in order: the refinement rests on it. Whole says that the blocks
between the closing worker and the first one have their full size. Drained is the same for
Wait's drain. Every step of a worker has one of a few effects on the ring
(RingStep in the module); each conjunct is proved to survive each effect once,
and each action to have one of the effects.

**Threaded filter.** `FilterProofs` proves, for any finite sets of batches and
filter workers, any batch size, any inputs and any predicates (BatchesAssumption,
FiltersAssumption, BatchSizeAssumption; a thread pool's number of workers is finite):

- `BatchesHaveOneOwner`: `Spec => []OneOwner`, a conjunct of BatchInvariant;
- `OutputIsNotShared`: `Spec => []OutputNotShared`;
- `RefilledAtHome`: an input buffer changes only while the main thread alone has
  its batch, which is what lets an output buffer hold StringPieces into it;
- `WrittenInSequence`: the batch written is the one with the number
  base_sequence_, so batches are written in the order they were filled;
- `PoolsDrain`: at the end no batch is in a queue of a pool or with a worker
  (there is a filter worker, `Filters # {}`).

The inductive invariant is

    IInv == BatchTypes /\ Phases /\ OneOwner /\ Numbers

OneOwner counts a batch's copies in the stack, three queues, the deque and the
workers' hands. It is not inductive: the output worker assigns the batch to the
place in `ordering_` that its sequence number gives, and nothing in the code
checks that the place is empty. Numbers says why it is: the batches that the
main thread does not have carry different numbers, all from base_sequence_ on
and below the number of the batch being filled, and a batch in the deque is at
its own number's place. Phases says that the stack is not empty when its top is
taken, and that Flush ends with all batches on it, from which OutputNotShared
follows by the pigeonhole principle: as many places as batches, no batch twice,
so no batch missing.

For PoolsDrain, Draining says that poison is the last thing in its queue and
that a worker that has exited has left only poison behind it, and that the output
worker does not go back to its queue while the front of `ordering_` could be
written.

What the batches *hold* is proved for one output file (OneOutput): the filter
answers for each n-gram of the input what it is meant to, and the answer is that
the line passes or does not. That Chosen is Meant is the business of
`FilterPredicates`, whose oracles TLC compares. Multiple mode is left out
because there an output buffer also depends on what a batch held the time before
(section 7). Under it, for any inputs,

- `ContentHolds`: `Spec => []Content`, the invariant below;
- `BatchesAreRight`: `Spec => []BatchInvariant`;
- `OutputStaysInOrder`: `Spec => []OutputInOrder`;
- `OutputIsComplete`: `Spec => []OutputComplete` if each input ends with the end
  of a section, as an ARPA file does (EndsWithSection);
- `RawFilesLoseTheTail`: of a raw count file (Raw: no sections) exactly the lines
  up to the last whole batch have been written when the program ends. It is the
  finding of section 7 for all sizes, and shows that nothing else is lost;
- `WholeRawFiles`: `Spec => []OutputComplete` for raw files whose lines fill whole
  batches.

The inputs of the run `filter` without multiple mode satisfy these hypotheses:
its ARPA files OneOutput and EndsWithSection, its raw files OneOutput, Raw and
WholeBatches; the input of `filter_raw_tail` satisfies OneOutput and Raw.

    Content == Reading /\ Filled /\ Keeps /\ \E w \in 0 .. next - 1 : Through(w)

Reading and Filled say where in the script the main thread is and that each
input buffer has a run of lines, the top one those just read. Keeps is what makes
the refilling of buffers right: an output buffer is empty or what the filter
leaves of the batch's own lines, from FilterConsume to WriterFlush and at no other
time. Through(w) relates the buffers to the output: the lines up to w have been
dealt with, every line read since is in a pending batch, a pending batch has no
other lines, and batches with smaller numbers have earlier lines. WriterFlush
takes the batch with the smallest number, so that its run starts at w + 1, and
moves w behind it. For raw files two invariants are added: Rounds (every
batch handed over was full) and Unbroken (every number from base_sequence_ on
belongs to a batch under way), so that at the end, when the pools are drained,
nothing is left but the batch being filled. In an ARPA file numbers may have gaps
(the finding `filter_whole_batches`), but there the program does not end unless
all batches have come back.

FilterLines and ExpectedTo are recursive functions over the lines. The induction
theorems of the library take an operator, which the provers do not instantiate;
here the set of the numbers for which a statement holds is shown to contain 0 and,
with n, n + 1 (Induction, from the fact that a set of numbers has a least one), and
a function given by its steps is shown to exist (BuiltExists).

**Rewindable stream.** `RewindProofs` proves, for any number and length of
blocks and any number of records (CountAssumption, SizesAssumption, PosAssumption
and NoneAssumption of `RewindableStream`), provided that no block is empty:

- `BufferInvariantHolds`: `Spec => []BufferInvariant` (TypeOK, CursorOnRecord,
  FitsVocabulary, EveryRecordOnce);
- `Refinement`: `Spec => ImplementsTape`.

The theorems' hypothesis `0 \notin Sizes` is needed: the stream takes the first
position of a block that it fetches for a record (section 7). The run `rewind` has
blocks of one and of two records.

    IInv == TypeOK /\ (Open => Flow /\ Places)

The code knows a block by its address, the properties by the number of its first
record. Flow ties the two: the blocks in the queue behind the stream, in its
buffer and in the queue before it follow each other without a gap (Run), poison
comes last, and in the first phase every block is full. From Run follows by
induction on the number of blocks that blocks from record a to record b hold
b - a records (RunRecords), so what AppendBlock, Mark and Poison hand on, in
whatever portions, adds up to the cursor's number. Places says where the cursor
and the mark are in each phase; the mark is always in the first block because
Mark hands on all blocks before it, and while there is a mark AppendBlock hands on
none. Each action has a lemma that says
how it moves the cursor, the mark and the end of what was handed on; the
invariant and the refinement both follow from these. The library's induction
theorems take an operator, so the induction is done on a set of numbers, from
the well-foundedness of < on Nat.

Once the stream is closed, only TypeOK is left of the invariant: the last block
may be cut, so the records no longer follow each other, and nothing is buffered.
What holds then, that the data end at the cursor, is the tape's Close.

**Probing hash table.** `ProbingProofs` proves, for any finite set of keys, any
hash function and any number of entries asked for, without the bound on the
number of buckets (KeysAssumption, NullAssumption, HashesAssumption and
RequestsAssumption of `ProbingHashTable`):

- `TableInvariantHolds`: `Spec => []TableInvariant`, with GapRemains and
  EntriesCount;
- `TakesWhatItIsSizedForHolds`: `Spec => []TakesWhatItIsSizedFor`;
- `Refinement`: `Spec => ImplementsKeySet`.

    IInv == TypeOK /\ Control /\ Apart /\ Order /\ Counts

Counts bounds the number of keys (Members: in the table or put aside) below the
number of buckets, from which GapRemains follows by the pigeonhole principle, as
Apart keeps a key from being in two places. For AutoProbing it needs the
threshold, which is below the number of buckets and at least half of it. Order is
why a key is found: between calls no bucket from the ideal one of a key to the
key is empty (Reached). In Double's first loop that does not hold, and a weaker
statement of the same kind is not inductive: a key yet to be moved is not at
its place in the table of twice the size at all. Moving says what is: the moved
keys are reached without going round the end, those in the buckets from `at` to
Half - 1 lie at their ideal bucket *modulo the old size* or after it (the entries
that do not are those put aside), and the buckets from Half + at on are empty.
As hash % 2b is hash % b or hash % b + b (ModDouble), the key of bucket `at`
finds an empty bucket up to `at` or up to Half + at (ReinsertFacts); at the end
of the loop Moving is Reached again (ReinsertDone). The refinement is shown with
the invariant, action by action: a step is one of KeySet for Members, and
Contents, what the calls find, is Members (ContentsAreMembers).

So that tlapm can reason about sizes, powers of two are numbers without an odd
divisor but 1 (PowerOfTwo); that Power2Mod finds one from n up to 2 * n is
proved (PowerBetween).

**Binary files.** `BinaryProofs` proves, for any ARPA files, any order of their
words and any hash function (SavedAssumption, ListingsAssumption, and
HashAssumption: hashes tell the words of a file apart, which the vocabularies take
for granted, as 64 bits do):

- `WhatIsLoadedIsCompleteHolds`: `Spec => []WhatIsLoadedIsComplete`, of
  ChartScore's specification, so that the file is written while either structure
  is built and loaded before anything is scored.

The property speaks of a file that is loaded after a stop at any step, so the
invariant has to say of every state what a stop would leave:

    IInv == Shape(binary) /\ Phases(binary) /\ Protected(binary) /\ WhatIsLoadedIsComplete

Shape has the levels: what is on the disk is below what is cached. Phases says how
far each area has come when a statement is next, which differs for the two
methods of writing. Protected is what they are for: where anything of the header
but the incomplete magic is cached, the tables are on the disk, and with
WRITE_AFTER the header is whole and the words are on the disk too. Whatever
survives lies between the two levels, so a file with that header has its tables
(TablesFound), and the cases of Refuses leave the two gaps and no other. That the
search is read where it was written is arithmetic on the padding for `<unk>`
(SamePlace). That words are given the numbers the vocabulary finds them under
(NumbersAgree) is a statement about sorting: of n strings, one has k smaller
hashes for each k below n (RanksAreAll: these are n different numbers), so the order
that Sorted chooses exists (CanBeSorted), and its i-th string has i - 1 smaller
hashes (Place).

**Counting and sorting.** `SortProofs` proves of ExternalSort's specification, from the
first byte read to the last record handed out, for any files, order, block size,
entry size, configurations and lazy memories:

- `SortKeepsItsShape`: `Spec => []Shape`, the inductive invariant;
- `NeverDiesMerging`: `Spec => []NeverAborts`: neither of the two messages "Bug
  in sort implementation" of MergingReader::Run ever comes;
- `EveryBufferFits`: `Spec => [](BuffersApart /\ LazyFits)`: the buffers of the
  runs that are merged are in the memory that was allocated and do not overlap,
  and Output can read in one go what Merge has left for it;
- `BlocksAreTold`: `Spec => [](CountTypeOK /\ (~closed => TableTellsTheBlock))`: types of the
  reading and counting, and that the dedupe table has just the n-grams of the
  block, which has room.

It assumes that an order is at least 2, that blocks, entries, pages and the
buffers have a size, that a window holds more than a magic number, and of a job
that its file is text or begins with a whole magic number and that its numbers
are natural ones (OrderAssumption, PerBlockAssumption, EntryAssumption,
PageAssumption, SizesAssumption, InflatedAssumption, JobsAssumption). How much
read(2) returns, whether a map fails and what the sort makes of a block are
choices of the model, so the theorems hold for all of them.

That the merge never gives up is a promise between four pieces of code that see
different numbers: the constructor rounds the buffer, Merge decides from the
arity whether a pass is needed, Output recomputes what the buffers of the last
pass need, and Run divides its memory by the runs that the *log* has left and
takes from it what each run's first read takes, which is less for short runs.
NeverAborts holds of a step only if the log's sum of lengths is what is left of
the file, so the invariant is about lengths and places, whatever the records are:

    Shape == CountOK /\ ConfigOK /\ PartsOK /\ CountingOK /\ BetweenOK
             /\ PromiseOK /\ PassOK /\ PushOK /\ QueueOK

CountOK has the types of the reader and of the counting and the dedupe table.
CountingOK and PassOK say what the logs tell (Appending while one is written,
Telling once it is complete: its lengths add up to the bytes of the file that no
group has taken, its runs to their number). PromiseOK is what Merge has promised
to Output. PushOK has RoomFor: everything fits, or two buffers do, or all
buffers of the runs to come. It is kept by a push because a run takes no more
than its buffer and no more than its length, and it is why the queue has
two runs when Run looks (PopulatedShape). QueueOK says that an entry has
a record in its buffer, and a whole buffer of its own if it has more to come, so that a
refill goes where the last one was. What the recursive functions of the model
compute (the sum of a log, the number of a word, the bytes of compressed units) is
proved by induction on a set of numbers (AppendTotals, ConsLog and others), which needs
no induction theorem with an operator.

**Beam search.** `BeamProofs` proves of BeamSearch's specification, for any finite
set of labels, any limits on open and consecutive brackets, any sentence of at
least one token with words of any pieces, any preferences of the network, any
sizes of beams, numbers of particles and stack bounds, with both strategies
(LabelsAssumption, LimitsAssumption, CasesAssumption and UnitAssumption):

- `StorageAlwaysSuffices`: `Spec => []StorageSuffices`: the path has a place for
  the next action, the stack and the index of brackets are inside their tensors,
  and the two beams have no more elements than rows.
- `ListsAlwaysAgree`: `Spec => []ListsSayTheSame`, a conjunct of the run's
  StacksAreWhatActionsSay: in a sentence whose tokens are all words, every element
  holds what the Python lists of `models.py` and `in_order_models.py` hold after the
  same actions; its mask leaves nothing that theirs does not, and all that theirs
  does while the stack has more than two places and the path enough for what is to
  come (top-down, but for one more bracket that may be open).

The code decides what may be done (invalid_action_mask) from counts, and writes
to places that earlier actions have left in tensors. What connects them is
ItemOK, of which StorageSuffices is a consequence and which the mask alone keeps
up, action by action (ShiftKeeps, NtKeeps, ReduceKeeps):

    PlacesOK   the numbers are in range; there is an index for each open bracket
    BracketsOK the i-th open bracket is above i other things and below the top,
               and above the bracket before it
    WordOK     in order, what a bracket is put below begins above all brackets
    Spent      actions done + tokens to read + brackets to close, and in order
               FINISH, are fewer than max_actions

BracketsOK is why closing a bracket never leaves less on the stack than the
brackets that are still open need, and it depends in order on WordOK, as the
bracket goes below the last word, which may be of several pieces: the mask does
not allow a bracket inside a word, and last_subword_begin_idx is not the place of
a complete element right after an NT, when no NT is allowed. Spent is the
reckoning behind the constants 3 and 4 in the mask: they are just what keeps it
up (without them, the mutant TopDownAllowedUnsaved, paths get too long). FINISH ends this:
after it only the weaker ItemFits holds, and that it is the last action of an
element needs that all elements of a beam have read the same tokens, which is
part of the invariant of the beams:

    BeamInv == Given /\ pointer \in Nat /\ BeamsHaveRows /\ ElementsAreInStep

BeamsHaveRows is shown of topk, of what does not fit and is dropped, and of
resize, from what they leave of a finite set (BestFits, FittingFits, ResizedIs).
StorageAlwaysSuffices does not say that an element always has an action left: it does not,
and a parse may fail, the second one too (section 7).

ListsAlwaysAgree has an invariant of its own on top of BeamInv:

    ListInv    the elements of both beams are Listed; the parses agree
    Listed     the first top_position trees, and the first nt_index_pos + 1
               brackets and labels, read as lists, are ListOf(actions)
    Corner     in order, what a bracket goes below is the top of the stack, the
               first bracket is below the first thing, and without an open
               bracket there is one thing on the stack, or none

ListOf is a recursive function; that it goes on by ListDo with one more action
(ListOfIs) is shown with a least number at which two such functions differ. Then
one lemma per action does the same to both (ListedShift, ListedNt, ListedReduce,
FinishAgrees): a shift of a part of a tensor is an InsertAt in a list
(UptoInsert), a new top_position is a SubSeq (UptoReduce). Corner is why the
fixed stack's mask may ask top_position = 1 of FINISH where the lists do not, and
why the lists may put a bracket second from the top where the tensors go by
last_subword_begin_idx: with words of several pieces these differ, and the lists
know nothing of them. Nothing is proved about
StackBrackets, the other conjunct, as the tree of a path is a RECURSIVE operator.

Only model-checked, so far: the content of what is sorted (the rest of
SorterInvariant: that runs are in order and that the window shows the file), the
content of batches in the filter's multiple mode, the filter's predicates, and
everything about the other modules (section 2 lists
what is to be proved). Out of the prover's reach: progress under fairness
(Progress, WaitReturns, Terminates, CallsReturn, Finishes); what a recursion or a
fold over a whole sequence computes (the sorted corpus, PlainCount, the
probability an ARPA file defines, the sum of a model, the trees of the oracle);
and anything about the two modules with RECURSIVE operators.

## 7. Where the code departs from its documentation

Runs that TLC ends with a counterexample:

- `filter_whole_batches`: `Controller::Flush` takes a new sequence number even
  if the batch it is for was empty and never sent (`lm/filter/thread.hh:132`).
  When the number of n-grams of a section is a multiple of the batch size, the
  output worker waits for the missing number and the program hangs.
- `filter_raw_tail`: nothing flushes the filter at the end of a raw count file
  (`lm/filter/format.hh:131`): with more than one thread the last, partly filled
  batch is lost. RawFilesLoseTheTail (section 6) proves that it is all that is
  lost, for any file and batch size.
- `trie_blanks`: `BackoffMessages::Apply` drops the messages to contexts that
  sort after the last n-gram of their order (`lm/search_trie.cc:106`), those to
  earlier ones it writes down. A blank there does not know that it extends, and
  a state forgets it.

Seen with TLC, and excluded from a passing run by a stated condition:

- *Binary files.* WriteHeader copies the magic before the fixed parameters and
  the counts (`lm/binary_format.cc:68-81`). A program killed in between, with
  WRITE_MMAP and without words in the file (`build_binary -v`), leaves a file
  that is accepted with counts of zero, although kMagicIncomplete "indicates an
  incomplete binary file (i.e. build failed)" (line 23). With words, the check
  for `<unk>` in ReadWords refuses it. Also with WRITE_MMAP, the words lie behind
  the mapping and are not synced before the header; ReadWords
  (`lm/vocab.cc:35-53`) checks only `<unk>` and the number of words, so that after
  a power failure a file cut inside its last word is accepted. Both are
  exceptions written in WhatIsLoadedIsComplete.
- *Log-linear interpolation of models of different orders.* SetupInputs leaves
  each model's own highest order out of the backoff streams
  (`lm/interpolate/pipeline.cc`), so an n-gram of that order that no longer model
  has gets a probability and no backoff, and "Streams were not the same size
  during merging" is thrown (`lm/interpolate/backoff_reunification.cc:32`),
  although the code allows different orders elsewhere
  (`lm/interpolate/interpolate_info.hh`, "maximum ngram order for each model").
  InStep says that this is thrown only if a model has a lower order.
- *A last line without newline* gets no `</s>` (`lm/builder/corpus_count.cc:255`),
  and the model made of such a corpus does not sum to one
  (`lm/builder/initial_probabilities.cc:186`: "Makes model sum to 1 with pruning (I
  hope)"). The corpora of `interpolate` have whole lines.
- *Thresholds for unigrams.* With one of 1 or more, special words are marked as
  pruned and the sum breaks; `lm/builder/lmplz_main.cc:40` says that it can only
  be 0, and does not check. `SomeThresholds` have 0.
- *Multiple mode of the filter.* `SingleAddNGram` recognises a line by address
  and length, and what it remembers outlives the batch
  (`lm/filter/format.hh:212`), while the batch's strings are reused: the first
  line of a refilled batch may be taken for the last one, and `back()` of an
  empty vector is used. The inputs in multiple mode fill every batch once.
- *Retry of a failed parse.* The search is tried again with a larger stack if
  `stack_size_bound < tokens.size(1)` (`rnng-pytorch/beam_search.py:175`). A
  sentence as long as the bound fails for the same reason and is not; then the
  list of parses is empty and line 188 raises IndexError. The second search may
  fail as well, as it has no more actions than the first: in order, an element
  whose bracket is closed with few actions left may neither open one nor shift
  (`fixed_stack_in_order_models.py:154`, `:170`), and a small beam may hold no
  other; top-down, a stack with one free place stops in the middle of a word
  (`fixed_stack_models.py:1175`). In the run `beam_search` second searches do fail
  for want of actions, and nothing claims that they do not.

Noted while modelling, from the code only or with small variants of the models:
the records that are open at the end of AdjustCounts enter the statistics with
their plain count (`lm/builder/adjust_counts.cc:338`), all others with the
adjusted one; an n-gram whose count equals the threshold is pruned
(`adjust_counts.cc:271`), where the header says "below"; `CollapseStream` reads
and may mark a record behind the last block (`adjust_counts.cc:158`: the model's
address behind the memory). RewindableStream does not cope with blocks of valid
size 0 as its comment promises (`util/stream/rewindable_stream.cc:47`, `:110`),
sends no poison when nothing is buffered (`:79`), and buffers up to block_count
blocks, not two as `rewindable_stream.hh:16` says (the model's inputs have at
least one record per block). CheckConsistency reports "Completely full" for a
table whose only gap is bucket 0 (`util/probing_hash_table.hh:281`). The comment
in Double that entries may wrap around and be revisited (`:258`) describes what
cannot happen, as those entries have been put aside (ReinsertFacts).
`FilePiece::peek` throws EndOfFileException when the last window has just been
mapped although bytes remain (`util/file_piece.hh:84`), which reaches
`lm/read_arpa.cc` after a '\r' at the end of a window; a truncated .bz2 file may
make the reading loop turn for ever, as libbz2 returns BZ_OK without input; after
falling back from mapping, compression magic is looked for in mid-file. In
phrase mode, tags other than a first one and `</s>` are hashed like words (a TODO
at `lm/filter/phrase.hh:97`). WRITE_AFTER does not sync the header after the magic
is set: a power failure then leaves a file that is refused although everything
was written. The trie throws for a file with a context that is only a blank,
where the hashed structure does not. In `fixed_stack_models.py`,
`word_completed_beam.disc_ll`, which `--original_reweight` uses, does not exist;
when no particle has read a word (action Collapse), the weights are not numbers and
the rows are taken for parses, whatever they hold; the loop over particles stops
when all but exactly one row of the word-completed beam is in use, and goes on
when all are;
in-order, `nopen_parens` is not bounded by `max_open_nts` while words are left;
top-down, `models.py:546` lets one bracket more be open (`>` max_open_nts) than
`fixed_stack_models.py` does, so the two can find different parses of one model.

## 8. What is not modelled

Within the modelled parts:

- *Threads.* Exceptions thrown by a filter (the pool's handler aborts), the
  filter's copy mode, single-threaded path and text parsing; Links owned by the
  main thread, which do not send poison when an exception destroys them; memory
  orders weaker than sequential consistency (all sharing goes through mutexes
  and semaphores, or a queue); failures of allocation and of system calls,
  except as "a worker throws" and "a map fails".
- *Reading.* ReadNumber, `peek` and `get`, istreams, the bzip2 and xz codecs (the
  zlib one is a stream of units); `mapped_offset_` after a fall back, which is in
  messages only; a file shorter than the magic is text, as in the code.
- *Counting and sorting.* Counts of tokens and types, the prune vocabulary, the
  THROW_UP mode for special words (they are skipped); the progress bar.
- *Estimation.* Order 1 of AdjustCounts and of the models; the output of q,
  vocabulary padding, the division of memory among chains in `pipeline.cc`; the
  check of threshold lists in `lmplz_main.cc`; the empty corpus. Discounts and
  probabilities are exact fractions, so rounding is not.
- *Log-linear interpolation.* Tuning, PrintARPA, the clamp of probabilities at 1,
  weights other than whole numbers (a weight is a power), numbers that need 65
  bits or more to encode orders. Residues modulo a prime are enough for
  equations and not for comparisons, and nothing here compares; the sorts
  between the passes are sorts. `<s>` is not predicted: the code takes its 1 out
  of the sum.
- *Queries.* LowerRestBuild, quantisation, bit packing and pointer compression,
  collisions of hashes; weights are whole numbers. An n-gram that is nobody's
  context has no backoff, as the programs that write ARPA files have it. The
  trie's merge of sorted batch files is a sort. `<unk>` is in no table.
- *Binary files.* Overwriting an old one, errors of write and full disks,
  ComputeRenumbering, GrowableVocab, the old 32-bit format; loading a file that
  another process is still building finds what a kill at that time leaves, and
  is not an action of its own. A write of the header reaches the disk as a
  whole; a page cache survives a kill and may not survive a power failure.
- *RNNG.* The search of `models.py` over its lists (its stacks and masks are modelled), the
  option `--original_reweight`, batches of several sentences and training. The network is
  abstracted to its actions' probabilities, powers of 1/2, equal ones in any
  order; of a batch one sentence is followed. `test_beam_search` asserts that
  surprisals are positive: with a beam that keeps everything they may be 0.

Of the rest: floating-point arithmetic, I/O, generated and third-party code (a
generated Python wrapper of more than 11000 lines and a vendored library for
number conversion are most of the C++ that no definition maps), and the
sequential scripts, for the reasons given in `PROJECT.json`.
