--------------------------- MODULE LifecycleProofs ---------------------------
(***************************************************************************)
(* For any handles, documents and interval: no close gets past the join    *)
(* while the worker runs, the lock is free once the handles are gone, and  *)
(* a closed engine leaves every stored document in the full-text index.    *)
(*                                                                         *)
(* None of the three is inductive.  The handshake of close and the worker  *)
(* is held together by the mutex (HandleInv, WorkerInv): as long as the    *)
(* worker runs, either it is still in the slot or the close that took it   *)
(* holds the mutex at the join.  The documents follow from it: DocInv says *)
(* where a stored document can be, FlushInv who is left to flush it.       *)
(***************************************************************************)
EXTENDS Lifecycle, TLAPS

HandleInv ==
    /\ \A h \in Handles : pc[h] = "join" <=> guard = h
    /\ alive <=> (Running \/ \E h \in Handles : pc[h] # "none")

WorkerInv ==
    /\ slot => Running /\ ~ stop
    /\ Running => slot \/ guard # NoHandle

DocInv ==
    /\ \A h \in Handles : doc[h] # {} => pc[h] = "text"
    /\ summary # {} => worker = "text"
    /\ \A x \in stored : \/ x \in committed \cup pending \cup summary \cup lost
                        \/ \E h \in Handles : x \in doc[h]

FlushInv ==
    /\ ~ alive => pending = {}
    /\ Running \/ (\E h \in Handles : pc[h] \in Unflushed) \/ pending \subseteq lost

Inv == TypeOK /\ HandleInv /\ WorkerInv /\ ClosedQuiesces /\ DocInv /\ FlushInv

USE LifecycleAssumption

\* Every action keeps the types.
LEMMA TypeStep ==
    ASSUME Inv, [Next]_vars
    PROVE  TypeOK'
<1>1. ASSUME WorkerSleep PROVE TypeOK'
    BY <1>1 DEF WorkerSleep, Inv, TypeOK, textVars, workerVars
<1>2. ASSUME WorkerBegin PROVE TypeOK'
    BY <1>2 DEF WorkerBegin, Inv, TypeOK, textVars, workerVars
<1>3. ASSUME WorkerNothing PROVE TypeOK'
    BY <1>3 DEF WorkerNothing, Inv, TypeOK, textVars, workerVars
<1>4. ASSUME NEW x \in Docs, WorkerStore(x) PROVE TypeOK'
    BY <1>4 DEF WorkerStore, Inv, TypeOK, textVars, workerVars
<1>5. ASSUME WorkerText PROVE TypeOK'
    BY <1>5 DEF WorkerText, AddDocument, Inv, TypeOK, textVars, workerVars
<1>6. ASSUME WorkerExit PROVE TypeOK'
    BY <1>6 DEF WorkerExit, Inv, TypeOK, textVars, workerVars
<1>7. ASSUME Crash PROVE TypeOK'
  <2>1. pc' \in [Handles -> {"none", "held", "text", "take", "join", "flush", "drop"}]
    BY <1>7 DEF Crash
  <2>2. doc' \in [Handles -> SUBSET Docs]
    BY <1>7 DEF Crash
  <2>3. alive' \in BOOLEAN /\ slot' \in BOOLEAN /\ stop' \in BOOLEAN
    BY <1>7 DEF Crash, Inv, TypeOK
  <2>4. interval' \in 0..MaxSteps /\ sleep' \in 0..MaxSteps /\ every' \in 0..2
    BY <1>7 DEF Crash, Inv, TypeOK
  <2>5. guard' \in Handles \cup {NoHandle} /\ worker' \in {"none", "sleep", "work", "text", "exited"}
    BY <1>7 DEF Crash, Inv, TypeOK
  <2>6. /\ summary' \in SUBSET Docs /\ stored' \in SUBSET Docs
        /\ committed' \in SUBSET Docs /\ pending' \in SUBSET Docs /\ lost' \in SUBSET Docs
    BY <1>7 DEF Crash, Inv, TypeOK
  <2> QED
    BY <2>1, <2>2, <2>3, <2>4, <2>5, <2>6 DEF TypeOK
<1>8. ASSUME NEW h \in Handles, NEW n \in 0..MaxSteps, Open(h, n) PROVE TypeOK'
  <2>1. (n > 0) \in BOOLEAN
    OBVIOUS
  <2>2. slot' \in BOOLEAN
    BY <1>8, <2>1, Zenon DEF Open
  <2>3. alive' \in BOOLEAN /\ slot' \in BOOLEAN /\ stop' \in BOOLEAN
    BY <1>8, <2>2 DEF Open, Inv, TypeOK
  <2>4. interval' \in 0..MaxSteps /\ sleep' \in 0..MaxSteps /\ every' \in 0..2
    BY <1>8 DEF Open, Inv, TypeOK
  <2>5. guard' \in Handles \cup {NoHandle} /\ worker' \in {"none", "sleep", "work", "text", "exited"}
    BY <1>8 DEF Open, Inv, TypeOK
  <2>6. /\ summary' \in SUBSET Docs /\ stored' \in SUBSET Docs
        /\ committed' \in SUBSET Docs /\ pending' \in SUBSET Docs /\ lost' \in SUBSET Docs
    BY <1>8 DEF Open, Inv, TypeOK
  <2>7. /\ pc' \in [Handles -> {"none", "held", "text", "take", "join", "flush", "drop"}]
        /\ doc' \in [Handles -> SUBSET Docs]
    BY <1>8 DEF Open, Inv, TypeOK
  <2> QED
    BY <2>3, <2>4, <2>5, <2>6, <2>7 DEF TypeOK
<1>9. ASSUME NEW h \in Handles, NEW g \in Handles, Clone(h, g) PROVE TypeOK'
    BY <1>9 DEF Clone, Inv, TypeOK, textVars, workerVars
<1>10. ASSUME NEW h \in Handles, NEW x \in Docs, WriteStore(h, x) PROVE TypeOK'
    BY <1>10 DEF WriteStore, Inv, TypeOK, textVars, workerVars
<1>11. ASSUME NEW h \in Handles, WriteText(h) PROVE TypeOK'
    BY <1>11 DEF WriteText, AddDocument, Inv, TypeOK, textVars, workerVars
<1>12. ASSUME NEW h \in Handles, NEW n \in 0..2, SetCommitEvery(h, n) PROVE TypeOK'
    BY <1>12 DEF SetCommitEvery, Inv, TypeOK, textVars, workerVars
<1>13. ASSUME NEW h \in Handles, FlushFulltext(h) PROVE TypeOK'
    BY <1>13 DEF FlushFulltext, CommitAll, Inv, TypeOK, textVars, workerVars
<1>14. ASSUME NEW h \in Handles, CloseCall(h) PROVE TypeOK'
    BY <1>14 DEF CloseCall, Inv, TypeOK, textVars, workerVars
<1>15. ASSUME NEW h \in Handles, DropHandle(h) PROVE TypeOK'
    BY <1>15 DEF DropHandle, Release, Inv, TypeOK, textVars, workerVars
<1>16. ASSUME NEW h \in Handles, CloseTake(h) PROVE TypeOK'
    BY <1>16 DEF CloseTake, Inv, TypeOK, textVars, workerVars
<1>17. ASSUME NEW h \in Handles, CloseJoin(h) PROVE TypeOK'
    BY <1>17 DEF CloseJoin, Inv, TypeOK, textVars, workerVars
<1>18. ASSUME NEW h \in Handles, CloseFlush(h) PROVE TypeOK'
    BY <1>18 DEF CloseFlush, CommitAll, Inv, TypeOK, textVars, workerVars
<1>19. ASSUME NEW h \in Handles, CloseFlushFails(h) PROVE TypeOK'
    BY <1>19 DEF CloseFlushFails, Inv, TypeOK, textVars, workerVars
<1>20. ASSUME NEW h \in Handles, CloseDrop(h) PROVE TypeOK'
    BY <1>20 DEF CloseDrop, Release, Inv, TypeOK, textVars, workerVars
<1>21. ASSUME UNCHANGED vars PROVE TypeOK'
    BY <1>21 DEF vars, Inv, TypeOK, textVars, workerVars
<1>22. ASSUME WorkerTextFails PROVE TypeOK'
    BY <1>22
       DEF WorkerTextFails, AddFails, CommitFails, Inv, TypeOK, textVars, workerVars
<1>23. ASSUME NEW h \in Handles, WriteTextFails(h) PROVE TypeOK'
    BY <1>23
       DEF WriteTextFails, AddFails, CommitFails, Inv, TypeOK, textVars, workerVars
<1>24. ASSUME NEW h \in Handles, FlushFulltextFails(h) PROVE TypeOK'
    BY <1>24
       DEF FlushFulltextFails, CommitFails, Inv, TypeOK, textVars, workerVars
<1> QED
    BY <1>1, <1>2, <1>3, <1>4, <1>5, <1>6, <1>7, <1>8, <1>9, <1>10, <1>11, <1>12, <1>13, <1>14,
       <1>15, <1>16, <1>17, <1>18, <1>19, <1>20, <1>21, <1>22, <1>23,
       <1>24, Zenon DEF Next, Worker, Use, Close

\* The mutex is held by the close that is at the join; the engine lives as long as a handle or
\* the worker's clone does.
LEMMA HandleStep ==
    ASSUME Inv, [Next]_vars
    PROVE  HandleInv'
<1>1. ASSUME WorkerSleep PROVE HandleInv'
    BY <1>1 DEF WorkerSleep, Inv, TypeOK, HandleInv, WorkerInv, Running, textVars, workerVars
<1>2. ASSUME WorkerBegin PROVE HandleInv'
    BY <1>2 DEF WorkerBegin, Inv, TypeOK, HandleInv, WorkerInv, Running, textVars, workerVars
<1>3. ASSUME WorkerNothing PROVE HandleInv'
    BY <1>3 DEF WorkerNothing, Inv, TypeOK, HandleInv, WorkerInv, Running, textVars, workerVars
<1>4. ASSUME NEW x \in Docs, WorkerStore(x) PROVE HandleInv'
    BY <1>4 DEF WorkerStore, Inv, TypeOK, HandleInv, WorkerInv, Running, textVars, workerVars
<1>5. ASSUME WorkerText PROVE HandleInv'
    BY <1>5
       DEF WorkerText, AddDocument, Inv, TypeOK, HandleInv, WorkerInv, Running, textVars,
           workerVars
<1>6. ASSUME WorkerExit PROVE HandleInv'
    BY <1>6 DEF WorkerExit, Inv, TypeOK, HandleInv, WorkerInv, Running, textVars, workerVars
<1>7. ASSUME Crash PROVE HandleInv'
    BY <1>7 DEF Crash, Inv, TypeOK, HandleInv, WorkerInv, Running, textVars, workerVars
<1>8. ASSUME NEW h \in Handles, NEW n \in 0..MaxSteps, Open(h, n) PROVE HandleInv'
    BY <1>8 DEF Open, Inv, TypeOK, HandleInv, WorkerInv, Running, textVars, workerVars
<1>9. ASSUME NEW h \in Handles, NEW g \in Handles, Clone(h, g) PROVE HandleInv'
    BY <1>9 DEF Clone, Inv, TypeOK, HandleInv, WorkerInv, Running, textVars, workerVars
<1>10. ASSUME NEW h \in Handles, NEW x \in Docs, WriteStore(h, x) PROVE HandleInv'
    BY <1>10 DEF WriteStore, Inv, TypeOK, HandleInv, WorkerInv, Running, textVars, workerVars
<1>11. ASSUME NEW h \in Handles, WriteText(h) PROVE HandleInv'
    BY <1>11
       DEF WriteText, AddDocument, Inv, TypeOK, HandleInv, WorkerInv, Running, textVars,
           workerVars
<1>12. ASSUME NEW h \in Handles, NEW n \in 0..2, SetCommitEvery(h, n) PROVE HandleInv'
    BY <1>12
       DEF SetCommitEvery, Inv, TypeOK, HandleInv, WorkerInv, Running, textVars, workerVars
<1>13. ASSUME NEW h \in Handles, FlushFulltext(h) PROVE HandleInv'
    BY <1>13
       DEF FlushFulltext, CommitAll, Inv, TypeOK, HandleInv, WorkerInv, Running, textVars,
           workerVars
<1>14. ASSUME NEW h \in Handles, CloseCall(h) PROVE HandleInv'
    BY <1>14 DEF CloseCall, Inv, TypeOK, HandleInv, WorkerInv, Running, textVars, workerVars
<1>15. ASSUME NEW h \in Handles, DropHandle(h) PROVE HandleInv'
    BY <1>15
       DEF DropHandle, Release, Inv, TypeOK, HandleInv, WorkerInv, Running, textVars, workerVars
<1>16. ASSUME NEW h \in Handles, CloseTake(h) PROVE HandleInv'
    BY <1>16 DEF CloseTake, Inv, TypeOK, HandleInv, WorkerInv, Running, textVars, workerVars
<1>17. ASSUME NEW h \in Handles, CloseJoin(h) PROVE HandleInv'
    BY <1>17 DEF CloseJoin, Inv, TypeOK, HandleInv, WorkerInv, Running, textVars, workerVars
<1>18. ASSUME NEW h \in Handles, CloseFlush(h) PROVE HandleInv'
    BY <1>18
       DEF CloseFlush, CommitAll, Inv, TypeOK, HandleInv, WorkerInv, Running, textVars,
           workerVars
<1>19. ASSUME NEW h \in Handles, CloseFlushFails(h) PROVE HandleInv'
    BY <1>19
       DEF CloseFlushFails, Inv, TypeOK, HandleInv, WorkerInv, Running, textVars, workerVars
<1>20. ASSUME NEW h \in Handles, CloseDrop(h) PROVE HandleInv'
    BY <1>20
       DEF CloseDrop, Release, Inv, TypeOK, HandleInv, WorkerInv, Running, textVars, workerVars
<1>21. ASSUME UNCHANGED vars PROVE HandleInv'
    BY <1>21 DEF vars, Inv, TypeOK, HandleInv, WorkerInv, Running, textVars, workerVars
<1>22. ASSUME WorkerTextFails PROVE HandleInv'
    BY <1>22
       DEF WorkerTextFails, AddFails, CommitFails, Inv, TypeOK, HandleInv, WorkerInv, Running, textVars,
           workerVars
<1>23. ASSUME NEW h \in Handles, WriteTextFails(h) PROVE HandleInv'
    BY <1>23
       DEF WriteTextFails, AddFails, CommitFails, Inv, TypeOK, HandleInv, WorkerInv, Running, textVars,
           workerVars
<1>24. ASSUME NEW h \in Handles, FlushFulltextFails(h) PROVE HandleInv'
    BY <1>24
       DEF FlushFulltextFails, CommitFails, Inv, TypeOK, HandleInv, WorkerInv, Running, textVars,
           workerVars
<1> QED
    BY <1>1, <1>2, <1>3, <1>4, <1>5, <1>6, <1>7, <1>8, <1>9, <1>10, <1>11, <1>12, <1>13, <1>14,
       <1>15, <1>16, <1>17, <1>18, <1>19, <1>20, <1>21, <1>22, <1>23,
       <1>24, Zenon DEF Next, Worker, Use, Close

\* The worker is in the slot, or a close that holds the mutex waits for it.
LEMMA SlotStep ==
    ASSUME Inv, [Next]_vars
    PROVE  WorkerInv'
<1>1. ASSUME WorkerSleep PROVE WorkerInv'
    BY <1>1 DEF WorkerSleep, Inv, TypeOK, HandleInv, WorkerInv, Running, textVars, workerVars
<1>2. ASSUME WorkerBegin PROVE WorkerInv'
    BY <1>2 DEF WorkerBegin, Inv, TypeOK, HandleInv, WorkerInv, Running, textVars, workerVars
<1>3. ASSUME WorkerNothing PROVE WorkerInv'
    BY <1>3 DEF WorkerNothing, Inv, TypeOK, HandleInv, WorkerInv, Running, textVars, workerVars
<1>4. ASSUME NEW x \in Docs, WorkerStore(x) PROVE WorkerInv'
    BY <1>4 DEF WorkerStore, Inv, TypeOK, HandleInv, WorkerInv, Running, textVars, workerVars
<1>5. ASSUME WorkerText PROVE WorkerInv'
    BY <1>5
       DEF WorkerText, AddDocument, Inv, TypeOK, HandleInv, WorkerInv, Running, textVars,
           workerVars
<1>6. ASSUME WorkerExit PROVE WorkerInv'
    BY <1>6 DEF WorkerExit, Inv, TypeOK, HandleInv, WorkerInv, Running, textVars, workerVars
<1>7. ASSUME Crash PROVE WorkerInv'
    BY <1>7 DEF Crash, Inv, TypeOK, HandleInv, WorkerInv, Running, textVars, workerVars
<1>8. ASSUME NEW h \in Handles, NEW n \in 0..MaxSteps, Open(h, n) PROVE WorkerInv'
    BY <1>8 DEF Open, Inv, TypeOK, HandleInv, WorkerInv, Running, textVars, workerVars
<1>9. ASSUME NEW h \in Handles, NEW g \in Handles, Clone(h, g) PROVE WorkerInv'
    BY <1>9 DEF Clone, Inv, TypeOK, HandleInv, WorkerInv, Running, textVars, workerVars
<1>10. ASSUME NEW h \in Handles, NEW x \in Docs, WriteStore(h, x) PROVE WorkerInv'
    BY <1>10 DEF WriteStore, Inv, TypeOK, HandleInv, WorkerInv, Running, textVars, workerVars
<1>11. ASSUME NEW h \in Handles, WriteText(h) PROVE WorkerInv'
    BY <1>11
       DEF WriteText, AddDocument, Inv, TypeOK, HandleInv, WorkerInv, Running, textVars,
           workerVars
<1>12. ASSUME NEW h \in Handles, NEW n \in 0..2, SetCommitEvery(h, n) PROVE WorkerInv'
    BY <1>12
       DEF SetCommitEvery, Inv, TypeOK, HandleInv, WorkerInv, Running, textVars, workerVars
<1>13. ASSUME NEW h \in Handles, FlushFulltext(h) PROVE WorkerInv'
    BY <1>13
       DEF FlushFulltext, CommitAll, Inv, TypeOK, HandleInv, WorkerInv, Running, textVars,
           workerVars
<1>14. ASSUME NEW h \in Handles, CloseCall(h) PROVE WorkerInv'
    BY <1>14 DEF CloseCall, Inv, TypeOK, HandleInv, WorkerInv, Running, textVars, workerVars
<1>15. ASSUME NEW h \in Handles, DropHandle(h) PROVE WorkerInv'
    BY <1>15
       DEF DropHandle, Release, Inv, TypeOK, HandleInv, WorkerInv, Running, textVars, workerVars
<1>16. ASSUME NEW h \in Handles, CloseTake(h) PROVE WorkerInv'
    BY <1>16 DEF CloseTake, Inv, TypeOK, HandleInv, WorkerInv, Running, textVars, workerVars
<1>17. ASSUME NEW h \in Handles, CloseJoin(h) PROVE WorkerInv'
    BY <1>17 DEF CloseJoin, Inv, TypeOK, HandleInv, WorkerInv, Running, textVars, workerVars
<1>18. ASSUME NEW h \in Handles, CloseFlush(h) PROVE WorkerInv'
    BY <1>18
       DEF CloseFlush, CommitAll, Inv, TypeOK, HandleInv, WorkerInv, Running, textVars,
           workerVars
<1>19. ASSUME NEW h \in Handles, CloseFlushFails(h) PROVE WorkerInv'
    BY <1>19
       DEF CloseFlushFails, Inv, TypeOK, HandleInv, WorkerInv, Running, textVars, workerVars
<1>20. ASSUME NEW h \in Handles, CloseDrop(h) PROVE WorkerInv'
    BY <1>20
       DEF CloseDrop, Release, Inv, TypeOK, HandleInv, WorkerInv, Running, textVars, workerVars
<1>21. ASSUME UNCHANGED vars PROVE WorkerInv'
    BY <1>21 DEF vars, Inv, TypeOK, HandleInv, WorkerInv, Running, textVars, workerVars
<1>22. ASSUME WorkerTextFails PROVE WorkerInv'
    BY <1>22
       DEF WorkerTextFails, AddFails, CommitFails, Inv, TypeOK, HandleInv, WorkerInv, Running, textVars,
           workerVars
<1>23. ASSUME NEW h \in Handles, WriteTextFails(h) PROVE WorkerInv'
    BY <1>23
       DEF WriteTextFails, AddFails, CommitFails, Inv, TypeOK, HandleInv, WorkerInv, Running, textVars,
           workerVars
<1>24. ASSUME NEW h \in Handles, FlushFulltextFails(h) PROVE WorkerInv'
    BY <1>24
       DEF FlushFulltextFails, CommitFails, Inv, TypeOK, HandleInv, WorkerInv, Running, textVars,
           workerVars
<1> QED
    BY <1>1, <1>2, <1>3, <1>4, <1>5, <1>6, <1>7, <1>8, <1>9, <1>10, <1>11, <1>12, <1>13, <1>14,
       <1>15, <1>16, <1>17, <1>18, <1>19, <1>20, <1>21, <1>22, <1>23,
       <1>24, Zenon DEF Next, Worker, Use, Close

\* Behind the join the worker does not run: a second close found the mutex free.
LEMMA QuiesceStep ==
    ASSUME Inv, [Next]_vars
    PROVE  ClosedQuiesces'
<1>1. ASSUME WorkerSleep PROVE ClosedQuiesces'
    BY <1>1
       DEF WorkerSleep, Inv, TypeOK, HandleInv, WorkerInv, ClosedQuiesces, Running, textVars,
           workerVars
<1>2. ASSUME WorkerBegin PROVE ClosedQuiesces'
    BY <1>2
       DEF WorkerBegin, Inv, TypeOK, HandleInv, WorkerInv, ClosedQuiesces, Running, textVars,
           workerVars
<1>3. ASSUME WorkerNothing PROVE ClosedQuiesces'
    BY <1>3
       DEF WorkerNothing, Inv, TypeOK, HandleInv, WorkerInv, ClosedQuiesces, Running, textVars,
           workerVars
<1>4. ASSUME NEW x \in Docs, WorkerStore(x) PROVE ClosedQuiesces'
    BY <1>4
       DEF WorkerStore, Inv, TypeOK, HandleInv, WorkerInv, ClosedQuiesces, Running, textVars,
           workerVars
<1>5. ASSUME WorkerText PROVE ClosedQuiesces'
    BY <1>5
       DEF WorkerText, AddDocument, Inv, TypeOK, HandleInv, WorkerInv, ClosedQuiesces, Running,
           textVars, workerVars
<1>6. ASSUME WorkerExit PROVE ClosedQuiesces'
    BY <1>6
       DEF WorkerExit, Inv, TypeOK, HandleInv, WorkerInv, ClosedQuiesces, Running, textVars,
           workerVars
<1>7. ASSUME Crash PROVE ClosedQuiesces'
    BY <1>7
       DEF Crash, Inv, TypeOK, HandleInv, WorkerInv, ClosedQuiesces, Running, textVars,
           workerVars
<1>8. ASSUME NEW h \in Handles, NEW n \in 0..MaxSteps, Open(h, n) PROVE ClosedQuiesces'
    BY <1>8
       DEF Open, Inv, TypeOK, HandleInv, WorkerInv, ClosedQuiesces, Running, textVars,
           workerVars
<1>9. ASSUME NEW h \in Handles, NEW g \in Handles, Clone(h, g) PROVE ClosedQuiesces'
    BY <1>9
       DEF Clone, Inv, TypeOK, HandleInv, WorkerInv, ClosedQuiesces, Running, textVars,
           workerVars
<1>10. ASSUME NEW h \in Handles, NEW x \in Docs, WriteStore(h, x) PROVE ClosedQuiesces'
    BY <1>10
       DEF WriteStore, Inv, TypeOK, HandleInv, WorkerInv, ClosedQuiesces, Running, textVars,
           workerVars
<1>11. ASSUME NEW h \in Handles, WriteText(h) PROVE ClosedQuiesces'
    BY <1>11
       DEF WriteText, AddDocument, Inv, TypeOK, HandleInv, WorkerInv, ClosedQuiesces, Running,
           textVars, workerVars
<1>12. ASSUME NEW h \in Handles, NEW n \in 0..2, SetCommitEvery(h, n) PROVE ClosedQuiesces'
    BY <1>12
       DEF SetCommitEvery, Inv, TypeOK, HandleInv, WorkerInv, ClosedQuiesces, Running, textVars,
           workerVars
<1>13. ASSUME NEW h \in Handles, FlushFulltext(h) PROVE ClosedQuiesces'
    BY <1>13
       DEF FlushFulltext, CommitAll, Inv, TypeOK, HandleInv, WorkerInv, ClosedQuiesces, Running,
           textVars, workerVars
<1>14. ASSUME NEW h \in Handles, CloseCall(h) PROVE ClosedQuiesces'
    BY <1>14
       DEF CloseCall, Inv, TypeOK, HandleInv, WorkerInv, ClosedQuiesces, Running, textVars,
           workerVars
<1>15. ASSUME NEW h \in Handles, DropHandle(h) PROVE ClosedQuiesces'
    BY <1>15
       DEF DropHandle, Release, Inv, TypeOK, HandleInv, WorkerInv, ClosedQuiesces, Running,
           textVars, workerVars
<1>16. ASSUME NEW h \in Handles, CloseTake(h) PROVE ClosedQuiesces'
    BY <1>16
       DEF CloseTake, Inv, TypeOK, HandleInv, WorkerInv, ClosedQuiesces, Running, textVars,
           workerVars
<1>17. ASSUME NEW h \in Handles, CloseJoin(h) PROVE ClosedQuiesces'
    BY <1>17
       DEF CloseJoin, Inv, TypeOK, HandleInv, WorkerInv, ClosedQuiesces, Running, textVars,
           workerVars
<1>18. ASSUME NEW h \in Handles, CloseFlush(h) PROVE ClosedQuiesces'
    BY <1>18
       DEF CloseFlush, CommitAll, Inv, TypeOK, HandleInv, WorkerInv, ClosedQuiesces, Running,
           textVars, workerVars
<1>19. ASSUME NEW h \in Handles, CloseFlushFails(h) PROVE ClosedQuiesces'
    BY <1>19
       DEF CloseFlushFails, Inv, TypeOK, HandleInv, WorkerInv, ClosedQuiesces, Running,
           textVars, workerVars
<1>20. ASSUME NEW h \in Handles, CloseDrop(h) PROVE ClosedQuiesces'
    BY <1>20
       DEF CloseDrop, Release, Inv, TypeOK, HandleInv, WorkerInv, ClosedQuiesces, Running,
           textVars, workerVars
<1>21. ASSUME UNCHANGED vars PROVE ClosedQuiesces'
    BY <1>21
       DEF vars, Inv, TypeOK, HandleInv, WorkerInv, ClosedQuiesces, Running, textVars,
           workerVars
<1>22. ASSUME WorkerTextFails PROVE ClosedQuiesces'
    BY <1>22
       DEF WorkerTextFails, AddFails, CommitFails, Inv, TypeOK, HandleInv, WorkerInv, ClosedQuiesces,
           Running, textVars, workerVars
<1>23. ASSUME NEW h \in Handles, WriteTextFails(h) PROVE ClosedQuiesces'
    BY <1>23
       DEF WriteTextFails, AddFails, CommitFails, Inv, TypeOK, HandleInv, WorkerInv, ClosedQuiesces,
           Running, textVars, workerVars
<1>24. ASSUME NEW h \in Handles, FlushFulltextFails(h) PROVE ClosedQuiesces'
    BY <1>24
       DEF FlushFulltextFails, CommitFails, Inv, TypeOK, HandleInv, WorkerInv, ClosedQuiesces,
           Running, textVars, workerVars
<1> QED
    BY <1>1, <1>2, <1>3, <1>4, <1>5, <1>6, <1>7, <1>8, <1>9, <1>10, <1>11, <1>12, <1>13, <1>14,
       <1>15, <1>16, <1>17, <1>18, <1>19, <1>20, <1>21, <1>22, <1>23,
       <1>24, Zenon DEF Next, Worker, Use, Close

\* A stored document is in the index, with the writer, or still carried to it.
LEMMA DocStep ==
    ASSUME Inv, [Next]_vars
    PROVE  DocInv'
<1>1. ASSUME WorkerSleep PROVE DocInv'
    BY <1>1
       DEF WorkerSleep, Inv, TypeOK, HandleInv, WorkerInv, ClosedQuiesces, FlushInv, DocInv,
           Running, textVars, workerVars
<1>2. ASSUME WorkerBegin PROVE DocInv'
    BY <1>2
       DEF WorkerBegin, Inv, TypeOK, HandleInv, WorkerInv, ClosedQuiesces, FlushInv, DocInv,
           Running, textVars, workerVars
<1>3. ASSUME WorkerNothing PROVE DocInv'
    BY <1>3
       DEF WorkerNothing, Inv, TypeOK, HandleInv, WorkerInv, ClosedQuiesces, FlushInv, DocInv,
           Running, textVars, workerVars
<1>4. ASSUME NEW x \in Docs, WorkerStore(x) PROVE DocInv'
    BY <1>4
       DEF WorkerStore, Inv, TypeOK, HandleInv, WorkerInv, ClosedQuiesces, FlushInv, DocInv,
           Running, textVars, workerVars
<1>5. ASSUME WorkerText PROVE DocInv'
    BY <1>5
       DEF WorkerText, AddDocument, Inv, TypeOK, HandleInv, WorkerInv, ClosedQuiesces, FlushInv,
           DocInv, Running, textVars, workerVars
<1>6. ASSUME WorkerExit PROVE DocInv'
    BY <1>6
       DEF WorkerExit, Inv, TypeOK, HandleInv, WorkerInv, ClosedQuiesces, FlushInv, DocInv,
           Running, textVars, workerVars
<1>7. ASSUME Crash PROVE DocInv'
    BY <1>7
       DEF Crash, Inv, TypeOK, HandleInv, WorkerInv, ClosedQuiesces, FlushInv, DocInv, Running,
           textVars, workerVars
<1>8. ASSUME NEW h \in Handles, NEW n \in 0..MaxSteps, Open(h, n) PROVE DocInv'
    BY <1>8
       DEF Open, Inv, TypeOK, HandleInv, WorkerInv, ClosedQuiesces, FlushInv, DocInv, Running,
           textVars, workerVars
<1>9. ASSUME NEW h \in Handles, NEW g \in Handles, Clone(h, g) PROVE DocInv'
    BY <1>9
       DEF Clone, Inv, TypeOK, HandleInv, WorkerInv, ClosedQuiesces, FlushInv, DocInv, Running,
           textVars, workerVars
<1>10. ASSUME NEW h \in Handles, NEW x \in Docs, WriteStore(h, x) PROVE DocInv'
    BY <1>10
       DEF WriteStore, Inv, TypeOK, HandleInv, WorkerInv, ClosedQuiesces, FlushInv, DocInv,
           Running, textVars, workerVars
<1>11. ASSUME NEW h \in Handles, WriteText(h) PROVE DocInv'
    BY <1>11
       DEF WriteText, AddDocument, Inv, TypeOK, HandleInv, WorkerInv, ClosedQuiesces, FlushInv,
           DocInv, Running, textVars, workerVars
<1>12. ASSUME NEW h \in Handles, NEW n \in 0..2, SetCommitEvery(h, n) PROVE DocInv'
    BY <1>12
       DEF SetCommitEvery, Inv, TypeOK, HandleInv, WorkerInv, ClosedQuiesces, FlushInv, DocInv,
           Running, textVars, workerVars
<1>13. ASSUME NEW h \in Handles, FlushFulltext(h) PROVE DocInv'
    BY <1>13
       DEF FlushFulltext, CommitAll, Inv, TypeOK, HandleInv, WorkerInv, ClosedQuiesces,
           FlushInv, DocInv, Running, textVars, workerVars
<1>14. ASSUME NEW h \in Handles, CloseCall(h) PROVE DocInv'
    BY <1>14
       DEF CloseCall, Inv, TypeOK, HandleInv, WorkerInv, ClosedQuiesces, FlushInv, DocInv,
           Running, textVars, workerVars
<1>15. ASSUME NEW h \in Handles, DropHandle(h) PROVE DocInv'
    BY <1>15
       DEF DropHandle, Release, Inv, TypeOK, HandleInv, WorkerInv, ClosedQuiesces, FlushInv, Unflushed,
           DocInv, Running, textVars, workerVars
<1>16. ASSUME NEW h \in Handles, CloseTake(h) PROVE DocInv'
    BY <1>16
       DEF CloseTake, Inv, TypeOK, HandleInv, WorkerInv, ClosedQuiesces, FlushInv, DocInv,
           Running, textVars, workerVars
<1>17. ASSUME NEW h \in Handles, CloseJoin(h) PROVE DocInv'
    BY <1>17
       DEF CloseJoin, Inv, TypeOK, HandleInv, WorkerInv, ClosedQuiesces, FlushInv, DocInv,
           Running, textVars, workerVars
<1>18. ASSUME NEW h \in Handles, CloseFlush(h) PROVE DocInv'
    BY <1>18
       DEF CloseFlush, CommitAll, Inv, TypeOK, HandleInv, WorkerInv, ClosedQuiesces, FlushInv, Unflushed,
           DocInv, Running, textVars, workerVars
<1>19. ASSUME NEW h \in Handles, CloseFlushFails(h) PROVE DocInv'
    BY <1>19
       DEF CloseFlushFails, Inv, TypeOK, HandleInv, WorkerInv, ClosedQuiesces, FlushInv, DocInv,
           Running, textVars, workerVars
<1>20. ASSUME NEW h \in Handles, CloseDrop(h) PROVE DocInv'
    BY <1>20
       DEF CloseDrop, Release, Inv, TypeOK, HandleInv, WorkerInv, ClosedQuiesces, FlushInv, Unflushed,
           DocInv, Running, textVars, workerVars
<1>21. ASSUME UNCHANGED vars PROVE DocInv'
    BY <1>21
       DEF vars, Inv, TypeOK, HandleInv, WorkerInv, ClosedQuiesces, FlushInv, DocInv, Running,
           textVars, workerVars
<1>22. ASSUME WorkerTextFails PROVE DocInv'
    BY <1>22
       DEF WorkerTextFails, AddFails, CommitFails, Inv, TypeOK, HandleInv, WorkerInv, ClosedQuiesces,
           FlushInv, DocInv, Running, textVars, workerVars
<1>23. ASSUME NEW h \in Handles, WriteTextFails(h) PROVE DocInv'
    BY <1>23
       DEF WriteTextFails, AddFails, CommitFails, Inv, TypeOK, HandleInv, WorkerInv, ClosedQuiesces,
           FlushInv, DocInv, Running, textVars, workerVars
<1>24. ASSUME NEW h \in Handles, FlushFulltextFails(h) PROVE DocInv'
    BY <1>24
       DEF FlushFulltextFails, CommitFails, Inv, TypeOK, HandleInv, WorkerInv, ClosedQuiesces,
           FlushInv, DocInv, Running, textVars, workerVars
<1> QED
    BY <1>1, <1>2, <1>3, <1>4, <1>5, <1>6, <1>7, <1>8, <1>9, <1>10, <1>11, <1>12, <1>13, <1>14,
       <1>15, <1>16, <1>17, <1>18, <1>19, <1>20, <1>21, <1>22, <1>23,
       <1>24, Zenon DEF Next, Worker, Use, Close

\* As long as documents are pending somebody is there who still flushes them.
LEMMA FlushStep ==
    ASSUME Inv, [Next]_vars
    PROVE  FlushInv'
<1>1. ASSUME WorkerSleep PROVE FlushInv'
    BY <1>1
       DEF WorkerSleep, Inv, TypeOK, HandleInv, WorkerInv, ClosedQuiesces, FlushInv, Unflushed, Running,
           textVars, workerVars
<1>2. ASSUME WorkerBegin PROVE FlushInv'
    BY <1>2
       DEF WorkerBegin, Inv, TypeOK, HandleInv, WorkerInv, ClosedQuiesces, FlushInv, Unflushed, Running,
           textVars, workerVars
<1>3. ASSUME WorkerNothing PROVE FlushInv'
    BY <1>3
       DEF WorkerNothing, Inv, TypeOK, HandleInv, WorkerInv, ClosedQuiesces, FlushInv, Unflushed, Running,
           textVars, workerVars
<1>4. ASSUME NEW x \in Docs, WorkerStore(x) PROVE FlushInv'
    BY <1>4
       DEF WorkerStore, Inv, TypeOK, HandleInv, WorkerInv, ClosedQuiesces, FlushInv, Unflushed, Running,
           textVars, workerVars
<1>5. ASSUME WorkerText PROVE FlushInv'
    BY <1>5
       DEF WorkerText, AddDocument, Inv, TypeOK, HandleInv, WorkerInv, ClosedQuiesces, FlushInv,
           Unflushed, Running, textVars, workerVars
<1>6. ASSUME WorkerExit PROVE FlushInv'
    BY <1>6
       DEF WorkerExit, Inv, TypeOK, HandleInv, WorkerInv, ClosedQuiesces, FlushInv, Unflushed, Running,
           textVars, workerVars
<1>7. ASSUME Crash PROVE FlushInv'
    BY <1>7
       DEF Crash, Inv, TypeOK, HandleInv, WorkerInv, ClosedQuiesces, FlushInv, Unflushed, Running,
           textVars, workerVars
<1>8. ASSUME NEW h \in Handles, NEW n \in 0..MaxSteps, Open(h, n) PROVE FlushInv'
    BY <1>8
       DEF Open, Inv, TypeOK, HandleInv, WorkerInv, ClosedQuiesces, FlushInv, Unflushed, Running, textVars,
           workerVars
<1>9. ASSUME NEW h \in Handles, NEW g \in Handles, Clone(h, g) PROVE FlushInv'
    BY <1>9
       DEF Clone, Inv, TypeOK, HandleInv, WorkerInv, ClosedQuiesces, FlushInv, Unflushed, Running,
           textVars, workerVars
<1>10. ASSUME NEW h \in Handles, NEW x \in Docs, WriteStore(h, x) PROVE FlushInv'
    BY <1>10
       DEF WriteStore, Inv, TypeOK, HandleInv, WorkerInv, ClosedQuiesces, FlushInv, Unflushed, Running,
           textVars, workerVars
<1>11. ASSUME NEW h \in Handles, WriteText(h) PROVE FlushInv'
    BY <1>11
       DEF WriteText, AddDocument, Inv, TypeOK, HandleInv, WorkerInv, ClosedQuiesces, FlushInv,
           Unflushed, Running, textVars, workerVars
<1>12. ASSUME NEW h \in Handles, NEW n \in 0..2, SetCommitEvery(h, n) PROVE FlushInv'
    BY <1>12
       DEF SetCommitEvery, Inv, TypeOK, HandleInv, WorkerInv, ClosedQuiesces, FlushInv, Unflushed, Running,
           textVars, workerVars
<1>13. ASSUME NEW h \in Handles, FlushFulltext(h) PROVE FlushInv'
    BY <1>13
       DEF FlushFulltext, CommitAll, Inv, TypeOK, HandleInv, WorkerInv, ClosedQuiesces,
           FlushInv, Unflushed, Running, textVars, workerVars
<1>14. ASSUME NEW h \in Handles, CloseCall(h) PROVE FlushInv'
    BY <1>14
       DEF CloseCall, Inv, TypeOK, HandleInv, WorkerInv, ClosedQuiesces, FlushInv, Unflushed, Running,
           textVars, workerVars
<1>15. ASSUME NEW h \in Handles, DropHandle(h) PROVE FlushInv'
    BY <1>15
       DEF DropHandle, Release, Inv, TypeOK, HandleInv, WorkerInv, ClosedQuiesces, FlushInv,
           Unflushed, Running, textVars, workerVars
<1>16. ASSUME NEW h \in Handles, CloseTake(h) PROVE FlushInv'
    BY <1>16
       DEF CloseTake, Inv, TypeOK, HandleInv, WorkerInv, ClosedQuiesces, FlushInv, Unflushed, Running,
           textVars, workerVars
<1>17. ASSUME NEW h \in Handles, CloseJoin(h) PROVE FlushInv'
    BY <1>17
       DEF CloseJoin, Inv, TypeOK, HandleInv, WorkerInv, ClosedQuiesces, FlushInv, Unflushed, Running,
           textVars, workerVars
<1>18. ASSUME NEW h \in Handles, CloseFlush(h) PROVE FlushInv'
    BY <1>18
       DEF CloseFlush, CommitAll, Inv, TypeOK, HandleInv, WorkerInv, ClosedQuiesces, FlushInv,
           Unflushed, Running, textVars, workerVars
<1>19. ASSUME NEW h \in Handles, CloseFlushFails(h) PROVE FlushInv'
    BY <1>19
       DEF CloseFlushFails, Inv, TypeOK, HandleInv, WorkerInv, ClosedQuiesces, FlushInv,
           Unflushed, Running, textVars, workerVars
<1>20. ASSUME NEW h \in Handles, CloseDrop(h) PROVE FlushInv'
    BY <1>20
       DEF CloseDrop, Release, Inv, TypeOK, HandleInv, WorkerInv, ClosedQuiesces, FlushInv,
           Unflushed, Running, textVars, workerVars
<1>21. ASSUME UNCHANGED vars PROVE FlushInv'
    BY <1>21
       DEF vars, Inv, TypeOK, HandleInv, WorkerInv, ClosedQuiesces, FlushInv, Unflushed, Running, textVars,
           workerVars
<1>22. ASSUME WorkerTextFails PROVE FlushInv'
    BY <1>22
       DEF WorkerTextFails, AddFails, CommitFails, Inv, TypeOK, HandleInv, WorkerInv, ClosedQuiesces,
           FlushInv, Unflushed, Running, textVars, workerVars
<1>23. ASSUME NEW h \in Handles, WriteTextFails(h) PROVE FlushInv'
    BY <1>23
       DEF WriteTextFails, AddFails, CommitFails, Inv, TypeOK, HandleInv, WorkerInv, ClosedQuiesces,
           FlushInv, Unflushed, Running, textVars, workerVars
<1>24. ASSUME NEW h \in Handles, FlushFulltextFails(h) PROVE FlushInv'
    BY <1>24
       DEF FlushFulltextFails, CommitFails, Inv, TypeOK, HandleInv, WorkerInv, ClosedQuiesces,
           FlushInv, Unflushed, Running, textVars, workerVars
<1> QED
    BY <1>1, <1>2, <1>3, <1>4, <1>5, <1>6, <1>7, <1>8, <1>9, <1>10, <1>11, <1>12, <1>13, <1>14,
       <1>15, <1>16, <1>17, <1>18, <1>19, <1>20, <1>21, <1>22, <1>23,
       <1>24, Zenon DEF Next, Worker, Use, Close

\* The inductive invariant of close, worker and documents holds in every state of the engine.
THEOREM LifecycleInvariant == Spec => []Inv
<1>1. Init => Inv
  <2>1. ASSUME Init PROVE TypeOK
    <3>1. pc \in [Handles -> {"none", "held", "text", "take", "join", "flush", "drop"}]
        BY <2>1 DEF Init
    <3>2. doc \in [Handles -> SUBSET Docs]
        BY <2>1 DEF Init
    <3>3. interval \in 0..MaxSteps /\ sleep \in 0..MaxSteps /\ every \in 0..2
        BY <2>1 DEF Init
    <3>4. alive \in BOOLEAN /\ slot \in BOOLEAN /\ stop \in BOOLEAN
        BY <2>1 DEF Init
    <3> QED
        BY <2>1, <3>1, <3>2, <3>3, <3>4 DEF Init, TypeOK
  <2>2. ASSUME Init PROVE HandleInv /\ WorkerInv /\ ClosedQuiesces /\ DocInv /\ FlushInv
    BY <2>2 DEF Init, HandleInv, WorkerInv, ClosedQuiesces, DocInv, FlushInv, Running
  <2> QED
    BY <2>1, <2>2 DEF Inv
<1>2. Inv /\ [Next]_vars => Inv'
    BY TypeStep, HandleStep, SlotStep, QuiesceStep, DocStep, FlushStep DEF Inv
<1> QED
    BY <1>1, <1>2, PTL DEF Spec

\* Whatever handles, worker and crashes do, the state keeps its types; in particular the worker
\* counts an interval down to zero and no further.
THEOREM LifecycleTypeCorrect == Spec => []TypeOK
    BY LifecycleInvariant, PTL DEF Inv

\* Behind the join of any of several concurrent closes the worker has ended (Engine::close,
\* ConsolidationWorker::stop_and_join).
THEOREM ClosedEngineQuiesces == Spec => []ClosedQuiesces
    BY LifecycleInvariant, PTL DEF Inv

\* When the engine is gone, a stored document is in the full-text index unless it was itself on
\* its way or pending at a crash, at an error of the index or at a last drop without close
\* (add_document_tokenized, FulltextIndex::flush in Engine::close).
THEOREM ClosedEngineIsComplete == Spec => []ClosedIsComplete
<1>1. Inv => ClosedIsComplete
  <2>1. SUFFICES ASSUME Inv, ~ alive, NEW x \in stored, x \notin committed PROVE x \in lost
    BY DEF ClosedIsComplete, Inv, TypeOK
  <2>2. pending = {} /\ summary = {} /\ \A h \in Handles : doc[h] = {}
    BY <2>1 DEF Inv, HandleInv, DocInv, FlushInv, Running
  <2> QED
    BY <2>1, <2>2 DEF Inv, DocInv
<1> QED
    BY <1>1, LifecycleInvariant, PTL

\* With every handle gone and the worker taken by a close, the lock of the store is free: a close
\* at the join would still be a handle (Engine::close, Arc::try_unwrap).
THEOREM LockIsReleased == Spec => []LockReleased
<1>1. Inv => LockReleased
    BY DEF Inv, TypeOK, HandleInv, WorkerInv, LockReleased
<1> QED
    BY <1>1, LifecycleInvariant, PTL
=============================================================================
