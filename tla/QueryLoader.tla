---------------------------- MODULE QueryLoader ----------------------------
(***************************************************************************)
(* The bulk loader of the store query test: test() in                      *)
(* src/src/tests/store/query.rs, lines 101-207.                            *)
(*                                                                         *)
(* Inside a rayon scope_fifo, the scope's closure reads the CSV records    *)
(* and spawns one builder task per record; each builder turns its record   *)
(* into a Document and pushes it onto a shared Mutex<Vec>. The closure     *)
(* then locks the vector, drains it into chunks and spawns one writer task *)
(* per chunk; the scope ends when every spawned task has finished, and the *)
(* filter and sort tests then query the store. The pool has eight threads, *)
(* so builders run while the closure is still reading and draining.        *)
(*                                                                         *)
(* A record is a model value; a document is the record it was built from.  *)
(***************************************************************************)
EXTENDS Naturals, Sequences, SequencesExt, Functions

CONSTANTS
    Records,     \* the CSV records, in file order (a sequence)
    ChunkSize    \* documents per write batch (1000 in the test)

ASSUME LoaderAssumption ==
    /\ Records \in Seq(ToSet(Records))
    /\ IsInjective(Records)
    /\ ChunkSize \in Nat \ {0}

VARIABLES
    csv,         \* the records the closure has still to read
    builders,    \* records whose builder task is spawned and not yet done
    documents,   \* the shared Vec<Document>
    main,        \* where the scope's closure is
    held,        \* the closure holds the documents mutex (lines 171-206)
    len,         \* documents_len
    pos,         \* the position of the drain
    chunk,       \* document_chunk
    writers,     \* chunks whose writer task is spawned and not yet done
    stored       \* records the writer tasks have written

vars == <<csv, builders, documents, main, held, len, pos, chunk, writers,
          stored>>

RecordSet == ToSet(Records)

-----------------------------------------------------------------------------

Init ==
    /\ csv = Records
    /\ builders = {}
    /\ documents = <<>>
    /\ main = "spawn"
    /\ held = FALSE
    /\ len = 0
    /\ pos = 0
    /\ chunk = <<>>
    /\ writers = {}
    /\ stored = {}

\* Lines 115-124: read the next record, assign its id and spawn its builder.
Spawn ==
    /\ main = "spawn"
    /\ csv # <<>>
    /\ builders' = builders \cup {Head(csv)}
    /\ csv' = Tail(csv)
    /\ UNCHANGED <<documents, main, held, len, pos, chunk, writers, stored>>

\* Lines 125-167: a builder task builds the document and pushes it under
\* the mutex.
Build(r) ==
    /\ r \in builders
    /\ ~held
    /\ documents' = Append(documents, r)
    /\ builders' = builders \ {r}
    /\ UNCHANGED <<csv, main, held, len, pos, chunk, writers, stored>>

\* Lines 171-172: every record is spawned; the closure locks the vector and
\* takes its length.
Lock ==
    /\ main = "spawn"
    /\ csv = <<>>
    /\ ~held
    /\ held' = TRUE
    /\ len' = Len(documents)
    /\ pos' = 0
    /\ main' = "drain"
    /\ UNCHANGED <<csv, builders, documents, chunk, writers, stored>>

\* Mutant: only full chunks are written.
FlushFullOnly(c, p) == Len(c) = ChunkSize

\* Mutant: the whole drain goes into one chunk.
FlushLastOnly(c, p) == p = len - 1

\* Line 183: a chunk is handed to a writer when it is full or holds the
\* last document.
Flush(c, p) == Len(c) = ChunkSize \/ p = len - 1

\* Lines 181-204: the next drained document joins the chunk; a flushed
\* chunk is given to a new writer task.
Drain ==
    /\ main = "drain"
    /\ documents # <<>>
    /\ LET c == Append(chunk, Head(documents))
       IN  IF Flush(c, pos)
           THEN /\ writers' = writers \cup {c}
                /\ chunk' = <<>>
           ELSE /\ chunk' = c
                /\ UNCHANGED writers
    /\ documents' = Tail(documents)
    /\ pos' = pos + 1
    /\ UNCHANGED <<csv, builders, main, held, len, stored>>

\* Line 206: the drain is over and the guard is dropped with the closure.
Release ==
    /\ main = "drain"
    /\ documents = <<>>
    /\ held' = FALSE
    /\ main' = "done"
    /\ UNCHANGED <<csv, builders, documents, len, pos, chunk, writers, stored>>

\* Lines 188-203: a writer task writes its chunk in one batch.
Write(c) ==
    /\ c \in writers
    /\ stored' = stored \cup ToSet(c)
    /\ writers' = writers \ {c}
    /\ UNCHANGED <<csv, builders, documents, main, held, len, pos, chunk>>

\* Line 207: scope_fifo returns once every spawned task has finished; the
\* filter and sort tests run on the store (lines 209-213).
ScopeEnd ==
    /\ main = "done"
    /\ builders = {}
    /\ writers = {}
    /\ main' = "tested"
    /\ UNCHANGED <<csv, builders, documents, held, len, pos, chunk, writers,
                   stored>>

Tested ==
    /\ main = "tested"
    /\ UNCHANGED vars

Next ==
    \/ Spawn
    \/ \E r \in builders : Build(r)
    \/ Lock
    \/ Drain
    \/ Release
    \/ \E c \in writers : Write(c)
    \/ ScopeEnd
    \/ Tested

Spec == Init /\ [][Next]_vars

-----------------------------------------------------------------------------
(* Properties                                                              *)

\* Every variable is of its type; a chunk under construction never holds
\* ChunkSize documents and every writer gets a non-empty chunk of at most
\* ChunkSize (line 183).
TypeOK ==
    /\ csv \in Seq(RecordSet)
    /\ builders \subseteq RecordSet
    /\ documents \in Seq(RecordSet)
    /\ main \in {"spawn", "drain", "done", "tested"}
    /\ held \in BOOLEAN
    /\ len \in 0..Len(Records)
    /\ pos \in 0..Len(Records)
    /\ chunk \in BoundedSeq(RecordSet, ChunkSize - 1)
    /\ writers \subseteq BoundedSeq(RecordSet, ChunkSize) \ {<<>>}
    /\ stored \subseteq RecordSet

\* Once the scope has ended, every record the drain took from the vector has
\* been written: the chunking of lines 181-204 hands the last, partial chunk
\* to a writer too. What is not written is still in the vector.
DrainedStored ==
    main = "tested" => stored = RecordSet \ ToSet(documents)

\* The filter and sort tests run on the whole CSV: once the scope has ended
\* every record is in the store.
AllRecordsStored ==
    main = "tested" => stored = RecordSet

=============================================================================
