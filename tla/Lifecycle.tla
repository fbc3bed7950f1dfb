----------------------------- MODULE Lifecycle -----------------------------
(***************************************************************************)
(* The life of an engine: open takes the lock of the store and spawns the  *)
(* consolidation worker, handles (Arc<Engine>) are cloned, used, dropped   *)
(* and closed by several threads, close stops and joins the worker,        *)
(* flushes the full-text index and releases the store; and the process may *)
(* crash at any time.                                                      *)
(*                                                                         *)
(* The store commits every document at once.  The full-text index commits  *)
(* after commit_every documents or on flush; the rest is lost when the     *)
(* engine goes.  What the two other modules say of the content of a write  *)
(* or a consolidation is cut down to "one document to the store, then to   *)
(* the full-text index", and the second of the two may fail.               *)
(***************************************************************************)
EXTENDS Integers, FiniteSets

CONSTANTS
    Handles,   \* the threads' handles
    Docs,      \* bound: the documents ever written
    MaxSteps,  \* bound: sleeping steps of an interval
    NoHandle

ASSUME LifecycleAssumption ==
    /\ MaxSteps \in Nat
    /\ NoHandle \notin Handles
    /\ IsFiniteSet(Docs)

VARIABLES
    alive,      \* the engine exists and holds the lock of the store
    pc,         \* handle -> what its thread does with it
    doc,        \* handle -> the document between the store and the index
    stored,     \* documents in the store
    committed,  \* documents in the full-text index on disk
    pending,    \* documents added to the writer since its last commit
    every,      \* commit_every; 0 for manual commits
    slot,       \* consolidation_worker holds Some(worker)
    guard,      \* the handle whose close holds the mutex of consolidation_worker
    stop,       \* the stop flag
    interval,   \* sleeping steps between consolidations; 0 for no worker
    worker,     \* "none", "sleep", "work", "text", "exited"
    sleep,      \* steps left of the interval
    summary,    \* the worker's document between the store and the index
    lost        \* history: documents that a crash, a step of the index that returned
                \* an error, or dropping the last handle without close may have lost

vars == <<alive, pc, doc, stored, committed, pending, every, slot, guard, stop,
          interval, worker, sleep, summary, lost>>
textVars == <<committed, pending>>
workerVars == <<slot, guard, stop, interval, worker, sleep, summary>>

\* The worker thread owns a clone of the Arc as long as it runs.
Running == worker \in {"sleep", "work", "text"}

Init ==
    /\ alive = FALSE
    /\ pc = [h \in Handles |-> "none"] /\ doc = [h \in Handles |-> {}]
    /\ stored = {} /\ committed = {} /\ pending = {}
    /\ every = 1
    /\ slot = FALSE /\ guard = NoHandle /\ stop = FALSE
    /\ interval = 0 /\ worker = "none" /\ sleep = 0 /\ summary = {}
    /\ lost = {}

\* Engine::open fails while the lock is held.  n is consolidate_interval_ms in
\* sleeping steps.
Open(h, n) ==
    /\ ~ alive
    /\ alive' = TRUE
    /\ pc' = [pc EXCEPT ![h] = "held"]
    /\ pending' = {} /\ every' = 1
    /\ slot' = (n > 0) /\ guard' = NoHandle /\ stop' = FALSE
    /\ worker' = IF n > 0 THEN "sleep" ELSE "none"
    /\ interval' = n /\ sleep' = n /\ summary' = {}
    /\ UNCHANGED <<doc, stored, committed, lost>>

Clone(h, g) ==
    /\ pc[h] = "held" /\ pc[g] = "none"
    /\ pc' = [pc EXCEPT ![g] = "held"]
    /\ UNCHANGED <<alive, doc, stored, textVars, every, workerVars, lost>>

(***************************************************************************)
(* Documents: first the store, then the full-text index.                   *)
(***************************************************************************)
\* The code counts adds, and a failed commit leaves its count: the next commit may then
\* come an add earlier than here, as if flush_fulltext followed.
CommitDue(x) == every > 0 /\ Cardinality(pending \cup x) >= every

\* add_document_tokenized
AddDocument(x) ==
    IF CommitDue(x)
    THEN committed' = committed \cup pending \cup x /\ pending' = {}
    ELSE committed' = committed /\ pending' = pending \cup x

\* FulltextIndex::flush
CommitAll == committed' = committed \cup pending /\ pending' = {}

\* A commit that returns an error: the writer keeps some of its documents for the
\* next commit, or none.  (If only the reload after it fails, it took place.)
CommitFails(all) ==
    \E kept \in SUBSET all :
        /\ pending' = kept /\ committed' = committed
        /\ lost' = lost \cup (all \ kept)

\* add_document_tokenized returns an error: the document was not added, or it was
\* and the commit failed.
AddFails(x) ==
    \/ pending' = pending /\ committed' = committed /\ lost' = lost \cup x
    \/ CommitDue(x) /\ CommitFails(pending \cup x)

WriteStore(h, x) ==
    /\ pc[h] = "held"
    /\ x \in Docs \ stored
    /\ stored' = stored \cup {x}
    /\ doc' = [doc EXCEPT ![h] = {x}]
    /\ pc' = [pc EXCEPT ![h] = "text"]
    /\ UNCHANGED <<alive, textVars, every, workerVars, lost>>

WriteText(h) ==
    /\ pc[h] = "text"
    /\ AddDocument(doc[h])
    /\ doc' = [doc EXCEPT ![h] = {}]
    /\ pc' = [pc EXCEPT ![h] = "held"]
    /\ UNCHANGED <<alive, stored, every, workerVars, lost>>

\* The write returns the error; its unit stays in the store.
WriteTextFails(h) ==
    /\ pc[h] = "text"
    /\ AddFails(doc[h])
    /\ doc' = [doc EXCEPT ![h] = {}]
    /\ pc' = [pc EXCEPT ![h] = "held"]
    /\ UNCHANGED <<alive, stored, every, workerVars>>

\* set_fulltext_commit_every
SetCommitEvery(h, n) ==
    /\ pc[h] = "held"
    /\ every' = n
    /\ UNCHANGED <<alive, pc, doc, stored, textVars, workerVars, lost>>

\* flush_fulltext
FlushFulltext(h) ==
    /\ pc[h] = "held"
    /\ CommitAll
    /\ UNCHANGED <<alive, pc, doc, stored, every, workerVars, lost>>

FlushFulltextFails(h) ==
    /\ pc[h] = "held"
    /\ CommitFails(pending)
    /\ UNCHANGED <<alive, pc, doc, stored, every, workerVars>>

(***************************************************************************)
(* The consolidation worker: it looks at the flag before every sleeping    *)
(* step and before the consolidation, and never during one.                *)
(***************************************************************************)
\* Mutant: the steps of the interval are not counted down to the end.
SleepUnchecked ==
    /\ worker = "sleep" /\ ~ stop
    /\ sleep' = sleep - 1
    /\ UNCHANGED <<alive, pc, doc, stored, textVars, every, slot, guard, stop, interval,
                   worker, summary, lost>>

\* Mutant: every step starts the interval again.
SleepRestarts ==
    /\ worker = "sleep" /\ ~ stop /\ sleep > 0
    /\ sleep' = interval
    /\ UNCHANGED <<alive, pc, doc, stored, textVars, every, slot, guard, stop, interval,
                   worker, summary, lost>>

WorkerSleep ==
    /\ worker = "sleep" /\ ~ stop /\ sleep > 0
    /\ sleep' = sleep - 1
    /\ UNCHANGED <<alive, pc, doc, stored, textVars, every, slot, guard, stop, interval,
                   worker, summary, lost>>

WorkerBegin ==
    /\ worker = "sleep" /\ ~ stop /\ sleep = 0
    /\ worker' = "work"
    /\ UNCHANGED <<alive, pc, doc, stored, textVars, every, slot, guard, stop, interval,
                   sleep, summary, lost>>

\* Nothing to summarise, or a failure, which is only reported.
WorkerNothing ==
    /\ worker = "work"
    /\ worker' = "sleep" /\ sleep' = interval
    /\ UNCHANGED <<alive, pc, doc, stored, textVars, every, slot, guard, stop,
                   interval, summary, lost>>

WorkerStore(x) ==
    /\ worker = "work"
    /\ x \in Docs \ stored
    /\ stored' = stored \cup {x} /\ summary' = {x}
    /\ worker' = "text"
    /\ UNCHANGED <<alive, pc, doc, textVars, every, slot, guard, stop, interval, sleep, lost>>

WorkerText ==
    /\ worker = "text"
    /\ AddDocument(summary)
    /\ summary' = {}
    /\ worker' = "sleep" /\ sleep' = interval
    /\ UNCHANGED <<alive, pc, doc, stored, every, slot, guard, stop, interval, lost>>

\* The error ends the consolidation and is printed; the summary stays in the store.
WorkerTextFails ==
    /\ worker = "text"
    /\ AddFails(summary)
    /\ summary' = {}
    /\ worker' = "sleep" /\ sleep' = interval
    /\ UNCHANGED <<alive, pc, doc, stored, every, slot, guard, stop, interval>>

\* The thread ends and drops its Arc.
WorkerExit ==
    /\ worker = "sleep" /\ stop
    /\ worker' = "exited"
    /\ alive' = (\E h \in Handles : pc[h] # "none")
    /\ pending' = IF alive' THEN pending ELSE {}
    /\ UNCHANGED <<pc, doc, stored, committed, every, slot, guard, stop, interval, sleep, summary,
                   lost>>

Worker ==
    \/ WorkerSleep
    \/ WorkerBegin
    \/ WorkerNothing
    \/ \E x \in Docs : WorkerStore(x)
    \/ WorkerText
    \/ WorkerTextFails
    \/ WorkerExit

(***************************************************************************)
(* close                                                                   *)
(***************************************************************************)
CloseCall(h) ==
    /\ pc[h] = "held"
    /\ pc' = [pc EXCEPT ![h] = "take"]
    /\ UNCHANGED <<alive, doc, stored, textVars, every, workerVars, lost>>

\* Mutant: the mutex is released before the join.
TakeUnguarded(h) ==
    /\ pc[h] = "take"
    /\ slot' = FALSE
    /\ stop' = (stop \/ slot)
    /\ pc' = [pc EXCEPT ![h] = IF slot THEN "join" ELSE "flush"]
    /\ UNCHANGED <<alive, doc, stored, textVars, every, guard, interval, worker, sleep,
                   summary, lost>>

\* Mutant: the worker is joined without being told to stop.
TakeWithoutStop(h) ==
    /\ pc[h] = "take" /\ guard = NoHandle
    /\ slot' = FALSE
    /\ guard' = IF slot THEN h ELSE NoHandle
    /\ pc' = [pc EXCEPT ![h] = IF slot THEN "join" ELSE "flush"]
    /\ UNCHANGED <<alive, doc, stored, textVars, every, stop, interval, worker, sleep,
                   summary, lost>>

\* consolidation_worker.lock().take(), and the flag.  The mutex guard is a
\* temporary of the `if let` and lives until the end of its body, the join.
CloseTake(h) ==
    /\ pc[h] = "take" /\ guard = NoHandle
    /\ slot' = FALSE
    /\ stop' = (stop \/ slot)
    /\ guard' = IF slot THEN h ELSE NoHandle
    /\ pc' = [pc EXCEPT ![h] = IF slot THEN "join" ELSE "flush"]
    /\ UNCHANGED <<alive, doc, stored, textVars, every, interval, worker, sleep, summary, lost>>

CloseJoin(h) ==
    /\ pc[h] = "join" /\ ~ Running
    /\ guard' = NoHandle
    /\ pc' = [pc EXCEPT ![h] = "flush"]
    /\ UNCHANGED <<alive, doc, stored, textVars, every, slot, stop, interval, worker, sleep,
                   summary, lost>>

\* Mutant: close counts on the automatic commits.
FlushSkipped(h) ==
    /\ pc[h] = "flush"
    /\ pc' = [pc EXCEPT ![h] = "drop"]
    /\ UNCHANGED <<alive, doc, stored, textVars, every, workerVars, lost>>

CloseFlush(h) ==
    /\ pc[h] = "flush"
    /\ pc' = [pc EXCEPT ![h] = "drop"]
    /\ CommitAll
    /\ UNCHANGED <<alive, doc, stored, every, workerVars, lost>>

\* A failed flush is printed and does not stop the close.
CloseFlushFails(h) ==
    /\ pc[h] = "flush"
    /\ pc' = [pc EXCEPT ![h] = "drop"]
    /\ pending' \in SUBSET pending /\ committed' = committed
    /\ lost' = lost \cup pending
    /\ UNCHANGED <<alive, doc, stored, every, workerVars>>

\* What a handle does as long as its close, if it calls it, is still to flush.
Unflushed == {"held", "text", "take", "join", "flush"}

\* The handle goes; with the last one the engine, its lock and what its index
\* writer has not committed.
Release(h) ==
    /\ pc' = [pc EXCEPT ![h] = "none"]
    /\ alive' = (Running \/ \E g \in Handles \ {h} : pc[g] # "none")
    /\ pending' = IF alive' THEN pending ELSE {}

\* Mutant: the store is not released when close returns.
DropForgotten(h) ==
    /\ pc[h] = "drop"
    /\ pc' = [pc EXCEPT ![h] = "none"]
    /\ UNCHANGED <<alive, doc, stored, textVars, every, workerVars, lost>>

\* Arc::try_unwrap: the engine is taken apart if this is the last Arc; if not,
\* the Arc is dropped as the Err value.
CloseDrop(h) ==
    /\ pc[h] = "drop"
    /\ Release(h)
    /\ UNCHANGED <<doc, stored, committed, every, workerVars, lost>>

\* A handle that goes out of scope without close; if it is the last from which a
\* flush could still come, the pending documents go with the engine.
DropHandle(h) ==
    /\ pc[h] = "held"
    /\ Release(h)
    /\ lost' = IF Running \/ \E g \in Handles \ {h} : pc[g] \in Unflushed
               THEN lost ELSE lost \cup pending
    /\ UNCHANGED <<doc, stored, committed, every, workerVars>>

\* The process ends; the operating system frees the lock.
Crash ==
    /\ alive
    /\ alive' = FALSE /\ pending' = {}
    /\ lost' = lost \cup pending \cup summary \cup UNION {doc[h] : h \in Handles}
    /\ pc' = [h \in Handles |-> "none"] /\ doc' = [h \in Handles |-> {}]
    /\ slot' = FALSE /\ guard' = NoHandle /\ stop' = FALSE
    /\ worker' = "none" /\ sleep' = 0 /\ summary' = {}
    /\ UNCHANGED <<stored, committed, every, interval>>

Close(h) ==
    \/ CloseTake(h)
    \/ CloseJoin(h)
    \/ CloseFlush(h)
    \/ CloseFlushFails(h)
    \/ CloseDrop(h)

Use(h) ==
    \/ \E n \in 0..MaxSteps : Open(h, n)
    \/ \E g \in Handles : Clone(h, g)
    \/ \E x \in Docs : WriteStore(h, x)
    \/ WriteText(h)
    \/ WriteTextFails(h)
    \/ \E n \in 0..2 : SetCommitEvery(h, n)
    \/ FlushFulltext(h)
    \/ FlushFulltextFails(h)
    \/ CloseCall(h)
    \/ DropHandle(h)

Next ==
    \/ Worker
    \/ Crash
    \/ \E h \in Handles : Use(h) \/ Close(h)

Spec == Init /\ [][Next]_vars

\* A thread that is in close goes on, and so does the worker; no client has to
\* call anything, and a crash need not happen.
Fairness == WF_vars(Worker) /\ \A h \in Handles : WF_vars(Close(h))

FairSpec == Spec /\ Fairness

(***************************************************************************)
(* Properties                                                              *)
(***************************************************************************)
TypeOK ==
    /\ alive \in BOOLEAN /\ slot \in BOOLEAN /\ stop \in BOOLEAN
    /\ pc \in [Handles -> {"none", "held", "text", "take", "join", "flush", "drop"}]
    /\ doc \in [Handles -> SUBSET Docs] /\ summary \in SUBSET Docs
    /\ stored \in SUBSET Docs /\ committed \in SUBSET Docs /\ pending \in SUBSET Docs
    /\ lost \in SUBSET Docs
    /\ every \in 0..2
    /\ guard \in Handles \cup {NoHandle}
    /\ worker \in {"none", "sleep", "work", "text", "exited"}
    /\ interval \in 0..MaxSteps /\ sleep \in 0..MaxSteps

\* Once any close has got past the join, the worker has ended: no consolidation
\* is writing when the index is flushed and the store released, also for a
\* second close that found no worker to join because the first one took it.
ClosedQuiesces == \A h \in Handles : pc[h] \in {"flush", "drop"} => ~ Running

\* When the engine is gone, every document in the store is in the full-text
\* index on disk, in whatever batches it was committed and whoever closed last,
\* but for those on their way or pending when the process crashed, when adding,
\* committing or flushing returned an error, or when the last handle was dropped
\* without close.  A document is never missing because another one was lost.
ClosedIsComplete == ~ alive => stored \ committed \subseteq lost

\* When all handles are gone and at least one of them was closed, the lock of the
\* store is free again: a reopen succeeds.  (If all were dropped the worker's Arc
\* keeps engine and lock.)
LockReleased == (\A h \in Handles : pc[h] = "none") /\ ~ slot => ~ alive

\* Every close returns: the worker sees the flag within a step or after the
\* consolidation it is in, and closes do not wait for each other in a circle.
CloseReturns == \A h \in Handles : pc[h] \in {"take", "join", "flush", "drop"} ~> pc[h] = "none"

\* A worker that is not stopped keeps consolidating.
ConsolidationRecurs == worker = "sleep" ~> worker \in {"work", "exited", "none"}
=============================================================================
