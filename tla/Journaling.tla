----------------------------- MODULE Journaling -----------------------------
(***************************************************************************)
(* The journaling store (linera-views/src/backends/journaling.rs): batches *)
(* that are too large for one transaction of the database are written in   *)
(* blocks first, then a header with their number makes them persistent,    *)
(* and then they are executed block by block.                              *)
(*                                                                         *)
(* The database (external) executes each of its transactions atomically.   *)
(* A batch is simplified already (module Batch): a sequence of             *)
(* <<key, value>> pairs with distinct keys, the deletions first.  Lengths  *)
(* are below 128, so that the length of a vector is serialized in a byte.  *)
(***************************************************************************)
EXTENDS KeyValues, Integers, SequencesExt

CONSTANTS Batches,               \* the batches that are written
          KeyLen, ValueLen,      \* the length of every key and of each value
          MAX_BATCH_SIZE, MAX_BATCH_TOTAL_SIZE, MAX_VALUE_SIZE,  \* limits of the database
          Writers,               \* the tasks that write under one root key
          MaxBlocks,             \* bound: blocks of one batch
          is_root_context,       \* the store is opened with create_root_context
          TransientErrors        \* where transactions may fail and the process goes on

ASSUME SizesAssumption ==
    /\ KeyLen \in 0 .. 126 /\ ValueLen \in [Values -> 0 .. 126] /\ Absent \notin Values
    /\ MAX_BATCH_SIZE \in Nat \ (0 .. 2) /\ MAX_BATCH_TOTAL_SIZE \in Nat /\ MAX_VALUE_SIZE \in Nat
    /\ is_root_context \in BOOLEAN /\ TransientErrors \subseteq {"opening", "writing", "resolving"}

VARIABLES db,        \* the keys and values in the database
          entries,   \* [i]: the i-th block in the database, or <<>> for none
          header,    \* the journal header's block_count, or 0 if there is none
          tasks,     \* [w]: what the task is doing
          results    \* [w]: how its last call of write_batch ended, "none" before

vars == <<db, entries, header, tasks, results>>

-----------------------------------------------------------------------------
(***************************************************************************)
(* Sizes, in bytes, of a SimpleUnorderedBatch: deletions and insertions    *)
(* (DynamoDB).  An UnorderedBatch (ScyllaDB) also has a vector of deleted  *)
(* prefixes, which are not modelled, and overhead_size is 3.               *)
(***************************************************************************)
key_len                 == 6
header_value_len        == 4
overhead_size           == 2
journal_len_upper_bound == key_len + header_value_len

max_block_size ==
    LET rest == MAX_BATCH_TOTAL_SIZE - key_len - journal_len_upper_bound
    IN  IF MAX_VALUE_SIZE < rest THEN MAX_VALUE_SIZE ELSE rest

num_bytes(op)       == KeyLen + IF op[2] = Absent THEN 0 ELSE ValueLen[op[2]]
serialized_size(op) == KeyLen + 1 + IF op[2] = Absent THEN 0 ELSE ValueLen[op[2]] + 1

SumOf(size(_), batch) ==
    LET sum[i \in 0 .. Len(batch)] == IF i = 0 THEN 0 ELSE sum[i - 1] + size(batch[i])
    IN  sum[Len(batch)]

block_len(block) == SumOf(serialized_size, block) + overhead_size

is_fastpath_feasible(batch) ==
    Len(batch) <= MAX_BATCH_SIZE /\ SumOf(num_bytes, batch) <= MAX_BATCH_TOTAL_SIZE

(***************************************************************************)
(* The loop of write_journal: operation by operation, block is filled; it  *)
(* is added to the transaction when it is full, and the transaction to the *)
(* transactions.                                                           *)
(***************************************************************************)
Start == [block |-> <<>>, block_size |-> 0, block_count |-> 0,
          transaction |-> <<>>, transaction_size |-> 0, transactions |-> <<>>]

\* A mutant of is_block_full: there is no room for the changes of the journal.
is_block_full_of(j, next_block_size) ==
    Len(j.block) = MAX_BATCH_SIZE \/ next_block_size > max_block_size

is_block_full(j, next_block_size) ==
    Len(j.block) = MAX_BATCH_SIZE - 2 \/ next_block_size > max_block_size

flush_block(j) ==
    LET size == j.block_size + overhead_size
    IN  [j EXCEPT !.transaction = Append(@, <<j.block_count, j.block>>),
                  !.transaction_size = @ + size + key_len,
                  !.block_count = @ + 1, !.block = <<>>, !.block_size = 0]

flush_transaction(j) ==
    [j EXCEPT !.transactions = Append(@, j.transaction), !.transaction = <<>>, !.transaction_size = 0]

write_next_value(j, op) ==
    [j EXCEPT !.block = Append(@, op), !.block_size = @ + serialized_size(op)]

\* One iteration, for the i-th operation of the batch.
write_journal_step(j0, batch, i) ==
    LET j    == write_next_value(j0, batch[i])
        last == i = Len(batch) \/ Len(j.transaction) = MAX_BATCH_SIZE - 1
        next_block_size       == j.block_size + serialized_size(batch[i + 1]) + overhead_size
        next_transaction_size == j.transaction_size + next_block_size + key_len
        transaction_flush     == last \/ next_transaction_size > MAX_BATCH_TOTAL_SIZE
        block_flush           == transaction_flush \/ is_block_full(j, next_block_size)
    IN  IF transaction_flush THEN flush_transaction(flush_block(j))
        ELSE IF block_flush THEN flush_block(j) ELSE j

journal(batch) ==
    LET after[i \in 0 .. Len(batch)] ==
            IF i = 0 THEN Start ELSE write_journal_step(after[i - 1], batch, i)
    IN  after[Len(batch)]

-----------------------------------------------------------------------------
(***************************************************************************)
(* A transaction of the database: operations on keys, blocks to be written *)
(* (or deleted, if they are <<>>), and optionally a new header.            *)
(***************************************************************************)
Write(data, blocks, new_header) == [data |-> data, blocks |-> blocks, header |-> new_header]

\* A mutant of journal_writes: the header comes first.
journal_writes_header_first(batch) ==
    LET j == journal(batch)
    IN  <<Write(<<>>, <<>>, {j.block_count})>>
            \o [i \in DOMAIN j.transactions |-> Write(<<>>, j.transactions[i], {})]

\* The transactions of write_journal.
journal_writes(batch) ==
    LET j == journal(batch)
    IN  [i \in DOMAIN j.transactions |-> Write(<<>>, j.transactions[i], {})]
            \o <<Write(<<>>, <<>>, {j.block_count})>>

\* A mutant of resolve_write: the header is only removed at the end.
resolve_write_at_end(i, block) ==
    Write(block, <<<<i, <<>>>>>>, IF i = 0 THEN {0} ELSE {})

\* Another one: the header's count is off by one.
resolve_write_off_by_one(i, block) == Write(block, <<<<i, <<>>>>>>, {i - 1})

\* The transaction that executes the i-th block and deletes it.
resolve_write(i, block) == Write(block, <<<<i, <<>>>>>>, {i})

(***************************************************************************)
(* A task has no context yet, opens one, is ready, or writes.  The last    *)
(* two execute transactions: first writes, then those that the first       *)
(* block_count blocks give.  batch is what the last of writes makes        *)
(* persistent.                                                             *)
(***************************************************************************)
Task(pc, batch, writes, block_count) ==
    [pc |-> pc, batch |-> batch, writes |-> writes, block_count |-> block_count]

Unloaded == Task("unloaded", {}, <<>>, 0)
Ready    == Task("ready", {}, <<>>, 0)

is_running(w) == tasks[w].pc \in {"opening", "writing"}

\* An error ends what a task does; its caller goes on.
Failed(w) == IF tasks[w].pc = "opening" THEN Unloaded ELSE Ready

\* The results when the calls of the given tasks end, as far as they are calls of write_batch.
results_of(ws, result) ==
    [w \in Writers |-> IF w \in ws /\ tasks[w].pc = "writing" THEN result ELSE results[w]]

Init ==
    /\ db = [k \in Keys |-> Absent]
    /\ entries = [i \in 0 .. MaxBlocks - 1 |-> <<>>]
    /\ header = 0
    /\ tasks = [w \in Writers |-> Unloaded]
    /\ results = [w \in Writers |-> "none"]

\* create_root_context clears the journal.  Other stores are just opened.
open(w) ==
    /\ tasks[w].pc = "unloaded"
    /\ tasks' = [tasks EXCEPT ![w] =
          IF is_root_context THEN Task("opening", {}, <<>>, header) ELSE Ready]
    /\ UNCHANGED <<db, entries, header, results>>

write_batch(w, batch) ==
    /\ tasks[w].pc = "ready"
    /\ tasks' = [tasks EXCEPT ![w] =
          IF is_fastpath_feasible(batch)
          THEN Task("writing", {batch}, <<Write(batch, <<>>, {})>>, 0)
          ELSE Task("writing", {batch}, journal_writes(batch), journal(batch).block_count)]
    /\ UNCHANGED <<db, entries, header, results>>

\* The database executes the next transaction.
execute(w) ==
    /\ is_running(w) /\ tasks[w].writes # <<>>
    /\ LET write == Head(tasks[w].writes)
           todo  == Tail(tasks[w].writes)
       IN  /\ db' = Apply(db, Range(write.data))
           /\ entries' = [i \in DOMAIN entries |->
                 IF \E b \in Range(write.blocks) : b[1] = i
                 THEN (CHOOSE b \in Range(write.blocks) : b[1] = i)[2] ELSE entries[i]]
           /\ header' = IF write.header = {} THEN header ELSE CHOOSE n \in write.header : TRUE
           /\ tasks' = [tasks EXCEPT ![w].writes = todo,
                                     ![w].batch = IF todo = <<>> THEN {} ELSE @]
    /\ UNCHANGED results

\* coherently_resolve_journal reads its next block.  It fails if there is none.
read_block(w) ==
    /\ is_running(w) /\ tasks[w].writes = <<>> /\ tasks[w].block_count > 0
    /\ LET i == tasks[w].block_count - 1
           missing == entries[i] = <<>>
       IN  /\ tasks' = [tasks EXCEPT ![w] =
                 IF missing THEN Failed(w)
                 ELSE Task(@.pc, {}, <<resolve_write(i, entries[i])>>, i)]
           /\ results' = IF missing THEN results_of({w}, "failed") ELSE results
    /\ UNCHANGED <<db, entries, header>>

return(w) ==
    /\ is_running(w) /\ tasks[w].writes = <<>> /\ tasks[w].block_count = 0
    /\ tasks' = [tasks EXCEPT ![w] = Ready]
    /\ results' = results_of({w}, "ok")
    /\ UNCHANGED <<db, entries, header>>

\* Where a transaction belongs to: clear_journal, write_journal (or the fast path)
\* or the resolution of the journal just written.
phase(w) ==
    IF tasks[w].pc = "opening" THEN "opening"
    ELSE IF tasks[w].batch # {} THEN "writing" ELSE "resolving"

\* The database refuses a transaction.
fail(w) ==
    /\ is_running(w) /\ tasks[w].writes # <<>>
    /\ phase(w) \in TransientErrors
    /\ tasks' = [tasks EXCEPT ![w] = Failed(w)]
    /\ results' = results_of({w}, "failed")
    /\ UNCHANGED <<db, entries, header>>

\* A caller whose task ends in a crash has no answer: for it, the call failed.
crash ==
    /\ tasks' = [w \in Writers |-> Unloaded]
    /\ results' = results_of(Writers, "failed")
    /\ UNCHANGED <<db, entries, header>>

Next ==
    \/ \E w \in Writers :
          \/ open(w) \/ execute(w) \/ read_block(w) \/ return(w) \/ fail(w)
          \/ \E batch \in Batches : write_batch(w, batch)
    \/ crash

Safety == Init /\ [][Next]_vars

(***************************************************************************)
(* Stores are opened again after a crash, and what runs does not stop; if  *)
(* it crashes again and again, it still gets to execute a transaction now  *)
(* and then.                                                               *)
(***************************************************************************)
Fairness ==
    \A w \in Writers : /\ WF_vars(open(w)) /\ SF_vars(read_block(w))
                       /\ SF_vars(execute(w)) /\ SF_vars(return(w))

Spec == Safety /\ Fairness

-----------------------------------------------------------------------------
TypeOK ==
    /\ db \in Content
    /\ \A i \in 0 .. MaxBlocks - 1 : Range(entries[i]) \subseteq Operation
    /\ header \in 0 .. MaxBlocks
    /\ \A w \in Writers : /\ tasks[w].pc \in {"unloaded", "opening", "ready", "writing"}
                          /\ tasks[w].batch \subseteq Batches
                          /\ tasks[w].block_count \in 0 .. MaxBlocks
                          /\ results[w] \in {"none", "ok", "failed"}

\* The content of the store when the journal is resolved.
Journaled == UNION {Range(entries[i]) : i \in 0 .. header - 1}

Atomic == INSTANCE AtomicStore WITH
             Batches <- {Range(batch) : batch \in Batches},
             content <- Apply(db, Journaled),
             pending <- [w \in Writers |-> {Range(batch) : batch \in tasks[w].batch}],
             status <- results_of(Writers, "running")

\* "Journaling aims to allow writing arbitrarily large batches of data in an
\* atomic way": a batch is made persistent as a whole by one transaction, no
\* matter when the process crashes, nothing else changes the content, and
\* write_batch returns without an error only if that transaction was executed.
WritesAreAtomic == Atomic!Spec

\* "The journal block could not be retrieved, it could be missing or corrupted"
\* is never reported: the header only counts blocks that are there.
JournalIsComplete == \A i \in 0 .. header - 1 : entries[i] # <<>>

\* A journal is resolved in the end: the blocks that were executed before a
\* crash need not be executed again.
JournalIsResolved == header > 0 ~> header = 0

\* The operations and the bytes of a transaction.
batch_len(write)   == Len(write.data) + Len(write.blocks) + Cardinality(write.header)
batch_bytes(write) ==
    LET block_bytes(b) == key_len + IF b[2] = <<>> THEN 0 ELSE block_len(b[2])
    IN  SumOf(num_bytes, write.data) + SumOf(block_bytes, write.blocks)
            + IF write.header = {} THEN 0 ELSE key_len + header_value_len

\* "The number of blocks per transaction doesn't exceed MAX_BATCH_SIZE", "the
\* size of each block doesn't exceed MAX_VALUE_SIZE", and a transaction that
\* executes a block respects both limits together with the journal's changes.
WritesFitTheStore ==
    \A w \in Writers : \A write \in Range(tasks[w].writes) :
        /\ batch_len(write) <= MAX_BATCH_SIZE
        /\ \A b \in Range(write.blocks) : block_len(b[2]) <= MAX_VALUE_SIZE
        /\ write.data # <<>> => batch_bytes(write) <= MAX_BATCH_TOTAL_SIZE
=============================================================================
