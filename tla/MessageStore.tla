------------------------------ MODULE MessageStore ------------------------------
(***************************************************************************)
(* The message log of PilotProbe: class MessageStore of store/database.py  *)
(* and its shutdown by main.py.  Proxy threads put captured messages into  *)
(* a queue; a daemon thread takes them out and inserts them into SQLite in *)
(* batches; main stops the store by clearing _running, joining the writer  *)
(* for five seconds and flushing what is left in the queue itself.  When   *)
(* main ends, the process ends and the writer with it.                     *)
(*                                                                         *)
(* A message is its index in the order of the put calls.  A message whose  *)
(* task_id or sn is a JSON object or list cannot be bound to a column:     *)
(* executemany raises, nothing of the batch is committed, and the caller   *)
(* of _write_batch ends with the exception.                                *)
(***************************************************************************)
EXTENDS Integers, Sequences, SequencesExt

CONSTANTS
    BatchSize,    \* batch_size of the writer loop
    MaxMessages,  \* bound: messages captured in a behaviour
    Unbindable    \* the messages SQLite cannot bind

ASSUME BatchAssumption == BatchSize \in Nat \ {0}
ASSUME MessagesAssumption == MaxMessages \in Nat

VARIABLES
    captured,     \* how many messages were put
    queue,        \* self._queue
    running,      \* self._running
    writer,       \* the writer thread: where it is
    batch,        \* the writer's batch, of messages
    main,         \* the main thread: where it is in stop
    givenUp,      \* the join timed out: stop went on beside a live writer
    flush,        \* the batch of _flush_queue
    table,        \* the rows of the table messages, in the order of their ids
    totalStored,  \* self._total_stored
    stopMark      \* how many messages had been put when stop was called

vars == <<captured, queue, running, writer, batch, main, givenUp, flush,
          table, totalStored, stopMark>>

\* start: the thread is running.  main = "up" until stop is called.
Init ==
    /\ captured = 0
    /\ queue = <<>>
    /\ running = TRUE
    /\ writer = "loop"
    /\ batch = <<>>
    /\ main = "up"
    /\ givenUp = FALSE
    /\ flush = <<>>
    /\ table = <<>>
    /\ totalStored = 0
    /\ stopMark = 0

Bindable(msgs) == \A i \in DOMAIN msgs : msgs[i] \notin Unbindable

\* Thread.is_alive
Alive == writer \notin {"ended", "dead", "killed"}

--------------------------------------------------------------------------------
\* store: a proxy thread puts a message.  The proxies are joined for three
\* seconds only, so one may still capture while the store is being stopped.
Store ==
    /\ main # "exited"
    /\ captured < MaxMessages
    /\ captured' = captured + 1
    /\ queue' = Append(queue, captured + 1)
    /\ UNCHANGED <<running, writer, batch, main, givenUp, flush, table, totalStored, stopMark>>

--------------------------------------------------------------------------------
\* _writer_loop: the condition of the loop reads _running, ...
CheckRunning ==
    /\ writer = "loop"
    /\ writer' = IF running THEN "get" ELSE "check"
    /\ UNCHANGED <<captured, queue, running, batch, main, givenUp, flush, table, totalStored, stopMark>>

\* Mutant: the writer ends without its final write.
CheckQueueOnly ==
    /\ writer = "check"
    /\ writer' = IF queue # <<>> THEN "get" ELSE "ended"
    /\ UNCHANGED <<captured, queue, running, batch, main, givenUp, flush, table, totalStored, stopMark>>

\* ... and then the queue.
CheckQueue ==
    /\ writer = "check"
    /\ writer' = IF queue # <<>> THEN "get" ELSE IF batch # <<>> THEN "last" ELSE "ended"
    /\ UNCHANGED <<captured, queue, running, batch, main, givenUp, flush, table, totalStored, stopMark>>

\* Mutant: the batch is one message too long.
GetBeyondSize ==
    /\ writer = "get"
    /\ queue # <<>>
    /\ queue' = Tail(queue)
    /\ batch' = Append(batch, Head(queue))
    /\ writer' = IF Len(batch) >= BatchSize THEN "write" ELSE "loop"
    /\ UNCHANGED <<captured, running, main, givenUp, flush, table, totalStored, stopMark>>

\* Mutant: a LifoQueue.
GetNewest ==
    /\ writer = "get"
    /\ queue # <<>>
    /\ queue' = Front(queue)
    /\ batch' = Append(batch, Last(queue))
    /\ writer' = IF Len(batch) + 1 >= BatchSize THEN "write" ELSE "loop"
    /\ UNCHANGED <<captured, running, main, givenUp, flush, table, totalStored, stopMark>>

\* The queue yields a message.
Get ==
    /\ writer = "get"
    /\ queue # <<>>
    /\ queue' = Tail(queue)
    /\ batch' = Append(batch, Head(queue))
    /\ writer' = IF Len(batch) + 1 >= BatchSize THEN "write" ELSE "loop"
    /\ UNCHANGED <<captured, running, main, givenUp, flush, table, totalStored, stopMark>>

\* Mutant: a partial batch waits until it is full.
GetTimesOutIdly ==
    /\ writer = "get"
    /\ queue = <<>>
    /\ writer' = "loop"
    /\ UNCHANGED <<captured, queue, running, batch, main, givenUp, flush, table, totalStored, stopMark>>

\* Mutant: a partial batch is cleared without being written.
GetTimesOutClearing ==
    /\ writer = "get"
    /\ queue = <<>>
    /\ writer' = "loop"
    /\ batch' = <<>>
    /\ UNCHANGED <<captured, queue, running, main, givenUp, flush, table, totalStored, stopMark>>

\* The queue was empty for 0.2 seconds: a partial batch is written.
GetTimesOut ==
    /\ writer = "get"
    /\ queue = <<>>
    /\ writer' = IF batch # <<>> THEN "write" ELSE "loop"
    /\ UNCHANGED <<captured, queue, running, batch, main, givenUp, flush, table, totalStored, stopMark>>

\* _write_batch by the writer: insert and commit, all of the batch or nothing.
CommitBatch ==
    /\ writer \in {"write", "last"}
    /\ Bindable(batch)
    /\ table' = table \o batch
    /\ writer' = IF writer = "write" THEN "count" ELSE "lastcount"
    /\ UNCHANGED <<captured, queue, running, batch, main, givenUp, flush, totalStored, stopMark>>

\* _write_batch raised; nothing in _writer_loop catches it.
WriterDies ==
    /\ writer \in {"write", "last"}
    /\ ~Bindable(batch)
    /\ writer' = "dead"
    /\ UNCHANGED <<captured, queue, running, batch, main, givenUp, flush, table, totalStored, stopMark>>

\* Mutant: batch.clear() is missing.
CountWithoutClear ==
    /\ writer \in {"count", "lastcount"}
    /\ totalStored' = totalStored + Len(batch)
    /\ writer' = IF writer = "count" THEN "loop" ELSE "ended"
    /\ UNCHANGED <<captured, queue, running, batch, main, givenUp, flush, table, stopMark>>

\* The rows are counted, and the writer goes on with an empty batch or ends.
CountBatch ==
    /\ writer \in {"count", "lastcount"}
    /\ totalStored' = totalStored + Len(batch)
    /\ batch' = <<>>
    /\ writer' = IF writer = "count" THEN "loop" ELSE "ended"
    /\ UNCHANGED <<captured, queue, running, main, givenUp, flush, table, stopMark>>

WriterStep ==
    \/ CheckRunning \/ CheckQueue \/ Get \/ GetTimesOut
    \/ CommitBatch \/ WriterDies \/ CountBatch

--------------------------------------------------------------------------------
\* stop, called once by main after the proxies were stopped.
Stop ==
    /\ main = "up"
    /\ running' = FALSE
    /\ stopMark' = captured
    /\ main' = IF Alive THEN "join" ELSE "flush"
    /\ UNCHANGED <<captured, queue, writer, batch, givenUp, flush, table, totalStored>>

\* join returns: the writer has ended, or the five seconds are over.
Joined ==
    /\ main = "join"
    /\ main' = "flush"
    /\ givenUp' = Alive
    /\ UNCHANGED <<captured, queue, running, writer, batch, flush, table, totalStored, stopMark>>

\* _flush_queue: take a message; the writer may be taking them as well.
FlushGet ==
    /\ main = "flush"
    /\ queue # <<>>
    /\ queue' = Tail(queue)
    /\ flush' = Append(flush, Head(queue))
    /\ UNCHANGED <<captured, running, writer, batch, main, givenUp, table, totalStored, stopMark>>

FlushDrained ==
    /\ main = "flush"
    /\ queue = <<>>
    /\ main' = IF flush # <<>> THEN "write" ELSE "stopped"
    /\ UNCHANGED <<captured, queue, running, writer, batch, givenUp, flush, table, totalStored, stopMark>>

\* _write_batch by main.
CommitFlush ==
    /\ main = "write"
    /\ Bindable(flush)
    /\ table' = table \o flush
    /\ main' = "count"
    /\ UNCHANGED <<captured, queue, running, writer, batch, givenUp, flush, totalStored, stopMark>>

CountFlush ==
    /\ main = "count"
    /\ totalStored' = totalStored + Len(flush)
    /\ main' = "stopped"
    /\ UNCHANGED <<captured, queue, running, writer, batch, givenUp, flush, table, stopMark>>

\* The process ends: because main is through, because _write_batch raised in
\* stop, or because a second signal made handle_signal exit.
Exit ==
    /\ \/ main = "stopped"
       \/ main = "write" /\ ~Bindable(flush)
       \/ main \in {"join", "flush", "write", "count"}
    /\ main' = "exited"
    /\ writer' = IF Alive THEN "killed" ELSE writer
    /\ UNCHANGED <<captured, queue, running, batch, givenUp, flush, table, totalStored, stopMark>>

MainStep == Joined \/ FlushGet \/ FlushDrained \/ CommitFlush \/ CountFlush \/ Exit

Next == Store \/ WriterStep \/ Stop \/ MainStep

Spec == Init /\ [][Next]_vars

\* The writer thread and, once it stops the store, the main thread are
\* scheduled; join returns within five seconds.  Nothing has to be captured
\* and nobody has to stop the store.
FairSpec == Spec /\ WF_vars(WriterStep) /\ WF_vars(MainStep)

--------------------------------------------------------------------------------
(***************************************************************************)
(* Type invariant of the store.  The batch never outgrows batch_size, and  *)
(* total_stored never runs ahead of the table.                             *)
(***************************************************************************)
Message == 1 .. captured

TypeOK ==
    /\ captured \in 0 .. MaxMessages
    /\ queue \in Seq(Message)
    /\ batch \in Seq(Message)
    /\ Len(batch) <= BatchSize
    /\ flush \in Seq(Message)
    /\ table \in Seq(Message)
    /\ running \in BOOLEAN
    /\ givenUp \in BOOLEAN
    /\ writer \in {"loop", "check", "get", "write", "count", "last", "lastcount",
                   "ended", "dead", "killed"}
    /\ main \in {"up", "join", "flush", "write", "count", "stopped", "exited"}
    /\ totalStored \in 0 .. Len(table)
    /\ stopMark \in 0 .. captured

\* The messages the writer holds and has not written yet, ...
InHand == IF writer \in {"loop", "check", "get", "write", "last"} THEN batch ELSE <<>>

\* ... and those main holds.
InFlush == IF main \in {"flush", "write"} THEN flush ELSE <<>>

(***************************************************************************)
(* No message has two rows, although the writer keeps its batch across the *)
(* commit and main drains the same queue when the join was given up.       *)
(***************************************************************************)
EachMessageOnce == IsInjective(table)

(***************************************************************************)
(* The ids of the rows follow the order of capture, also across the hand-  *)
(* over from the writer to the final flush, unless the join was given up.  *)
(* The replay engine pairs responses with requests by that order.          *)
(***************************************************************************)
RowsInOrder ==
    ~givenUp => \A i, j \in DOMAIN table : i < j => table[i] < table[j]

(***************************************************************************)
(* As long as no batch has failed and the process lives, every captured    *)
(* message is in the table, in a batch or in the queue.                    *)
(***************************************************************************)
Accounted ==
    writer # "dead" /\ main # "exited" =>
        Message \subseteq ToSet(table) \cup ToSet(InHand) \cup ToSet(InFlush) \cup ToSet(queue)

(***************************************************************************)
(* After a stop that ran to its end, with a writer that ended by itself,   *)
(* every message put before stop was called is in the table, and           *)
(* total_stored is the number of rows.                                     *)
(***************************************************************************)
StopStores ==
    main = "stopped" /\ writer = "ended" =>
        /\ 1 .. stopMark \subseteq ToSet(table)
        /\ totalStored = Len(table)

(***************************************************************************)
(* A captured message does not wait for others to fill its batch: it is    *)
(* stored, unless a batch failed or the process ended.                     *)
(***************************************************************************)
EventuallyStored ==
    \A m \in 1 .. MaxMessages :
        m <= captured ~> m \in ToSet(table) \/ writer = "dead" \/ main = "exited"

(***************************************************************************)
(* The docstring of stop: "Flush remaining messages and shut down the      *)
(* writer."  When stop has returned after a join that was not given up,      *)
(* every message put before it that can be stored is stored.  A message    *)
(* that cannot be bound takes the rest of its batch with it, and ends the  *)
(* writer.                                                                 *)
(***************************************************************************)
StopFlushesRemaining ==
    main = "stopped" /\ ~givenUp => 1 .. stopMark \ Unbindable \subseteq ToSet(table)
================================================================================
