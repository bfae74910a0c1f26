--------------------------- MODULE DatabaseProofs ---------------------------
(***************************************************************************)
(* What TLAPS proves of the two modules of the API whose state is in the   *)
(* database.  Of Jobs, for every set of jobs, every cap and every log:     *)
(* what is imported agrees with what is reported, no slot is lost but to a *)
(* request that escapes, and a row left at running is an orphan.  Of       *)
(* Reports, for every set of lanes, every length of an hour and a day and  *)
(* every number of rows: the hours, the totals and the summaries the       *)
(* routes answer agree with the rows.  The two share no variable and no    *)
(* theorem; the sums of Reports get a theory of their own, since a fold    *)
(* over a finite set says nothing until its recursion has been derived.    *)
(***************************************************************************)
EXTENDS Jobs, Reports, FiniteSetTheorems, WellFoundedInduction, TLAPS

----------------------------------------------------------------------------
(* Jobs.  One step lemma per inductive invariant, one step per action.     *)

(* Every step keeps the types.                                             *)
LEMMA TypeStep ==
  ASSUME TypeOK, [Next]_vars
  PROVE  TypeOK'
<1> USE CapsAssumption, MaxChangesAssumption
<1>1. ASSUME NEW j \in Jobs, Admit(j) PROVE TypeOK'
  BY <1>1
  DEF Admit, At, Goto, Retained, TypeOK, Statuses, Mishaps, InRequest,
      InThread, Rested
<1>2. ASSUME NEW j \in Jobs, Refuse(j) PROVE TypeOK'
  BY <1>2
  DEF Refuse, At, Goto, TypeOK, Statuses, Mishaps, InRequest, InThread,
      Rested
<1>3. ASSUME NEW j \in Jobs, RequestEscapes(j) PROVE TypeOK'
  BY <1>3
  DEF RequestEscapes, Goto, Suffer, OrphanIf, TypeOK, Statuses, Mishaps,
      InRequest, InThread, Rested
<1>4. ASSUME NEW j \in Jobs, Record(j) PROVE TypeOK'
  BY <1>4
  DEF Record, At, Goto, TypeOK, Statuses, Mishaps, InRequest, InThread,
      Rested
<1>5. ASSUME NEW j \in Jobs, RecordFails(j) PROVE TypeOK'
  BY <1>5
  DEF RecordFails, At, Goto, Suffer, OrphanIf, TypeOK, Statuses, Mishaps,
      InRequest, InThread, Rested
<1>6. ASSUME NEW j \in Jobs, Launch(j) PROVE TypeOK'
  BY <1>6
  DEF Launch, At, Goto, TypeOK, Statuses, Mishaps, InRequest, InThread,
      Rested
<1>7. ASSUME NEW j \in Jobs, PipelineEnds(j) PROVE TypeOK'
  BY <1>7
  DEF PipelineEnds, At, Goto, TypeOK, Statuses, Mishaps, InRequest,
      InThread, Rested
<1>8. ASSUME NEW j \in Jobs, PipelineRaises(j) PROVE TypeOK'
  BY <1>8
  DEF PipelineRaises, At, Goto, Suffer, TypeOK, Statuses, Mishaps,
      InRequest, InThread, Rested
<1>9. ASSUME NEW j \in Jobs, InsertChange(j) PROVE TypeOK'
  BY <1>9
  DEF InsertChange, At, Rows, TypeOK, Statuses, Mishaps, InRequest,
      InThread, Rested
<1>10. ASSUME NEW j \in Jobs, InsertsEnd(j) PROVE TypeOK'
  BY <1>10
  DEF InsertsEnd, At, Goto, Rows, TypeOK, Statuses, Mishaps, InRequest,
      InThread, Rested
<1>11. ASSUME NEW j \in Jobs, IngestRaises(j) PROVE TypeOK'
  BY <1>11
  DEF IngestRaises, At, Goto, Suffer, TypeOK, Statuses, Mishaps, InRequest,
      InThread, Rested
<1>12. ASSUME NEW j \in Jobs, CommitEvents(j) PROVE TypeOK'
  BY <1>12
  DEF CommitEvents, At, Goto, TypeOK, Statuses, Mishaps, InRequest,
      InThread, Rested
<1>13. ASSUME NEW j \in Jobs, CommitLocked(j) PROVE TypeOK'
  BY <1>13
  DEF CommitLocked, At, Suffer, TypeOK, Statuses, Mishaps, InRequest,
      InThread, Rested
<1>14. ASSUME NEW j \in Jobs, CommitAggregates(j) PROVE TypeOK'
  BY <1>14
  DEF CommitAggregates, At, Goto, TypeOK, Statuses, Mishaps, InRequest,
      InThread, Rested
<1>15. ASSUME NEW j \in Jobs, Tell(j) PROVE TypeOK'
  BY <1>15
  DEF Tell, At, Goto, TypeOK, Statuses, Mishaps, InRequest, InThread, Rested
<1>16. ASSUME NEW j \in Jobs, Save(j) PROVE TypeOK'
  BY <1>16
  DEF Save, At, Goto, TypeOK, Statuses, Mishaps, InRequest, InThread, Rested
<1>17. ASSUME NEW j \in Jobs, SaveRaises(j) PROVE TypeOK'
  BY <1>17
  DEF SaveRaises, At, Goto, Suffer, TypeOK, Statuses, Mishaps, InRequest,
      InThread, Rested
<1>18. ASSUME NEW j \in Jobs, Fail(j) PROVE TypeOK'
  <2>1. CASE jobs[j] = "absent"
    <3>1. /\ pc' = [pc EXCEPT ![j] = "end"] /\ jobs' = jobs
          /\ UNCHANGED <<cap, active, row, old, endless, log, pending, stored>>
      BY <1>18, <2>1 DEF Fail, Goto
    <3>2. PICK why \in SUBSET Mishaps :
             mishaps' = [mishaps EXCEPT ![j] = mishaps[j] \cup why]
      <4>1. mishaps' = [mishaps EXCEPT ![j] = mishaps[j] \cup OrphanIf(j, row[j])]
        BY <1>18, <2>1 DEF Fail, Suffer
      <4>2. OrphanIf(j, row[j]) \in SUBSET Mishaps
        BY DEF OrphanIf, Mishaps
      <4> QED BY <4>1, <4>2
    <3>3. mishaps[j] \cup why \in SUBSET Mishaps
      BY <3>2 DEF TypeOK
    <3>4. endless \subseteq {i \in Jobs : pc'[i] = "run"}
      BY <1>18, <3>1 DEF TypeOK, Fail, At
    <3> QED BY <3>1, <3>2, <3>3, <3>4 DEF TypeOK, InThread
  <2>2. CASE jobs[j] # "absent"
    <3>1. /\ pc' = [pc EXCEPT ![j] = "mark"]
          /\ jobs' = [jobs EXCEPT ![j] = "failed"]
          /\ UNCHANGED <<cap, active, row, old, endless, log, pending, stored,
                       mishaps>>
      BY <1>18, <2>2 DEF Fail, Goto
    <3>2. endless \subseteq {i \in Jobs : pc'[i] = "run"}
      BY <1>18, <3>1 DEF TypeOK, Fail, At
    <3> QED BY <3>1, <3>2 DEF TypeOK, InThread, Statuses
  <2> QED BY <2>1, <2>2
<1>19. ASSUME NEW j \in Jobs, Mark(j) PROVE TypeOK'
  BY <1>19
  DEF Mark, At, Goto, TypeOK, Statuses, Mishaps, InRequest, InThread, Rested
<1>20. ASSUME NEW j \in Jobs, MarkRaises(j) PROVE TypeOK'
  BY <1>20
  DEF MarkRaises, At, Goto, Suffer, OrphanIf, TypeOK, Statuses, Mishaps,
      InRequest, InThread, Rested
<1>21. ASSUME NEW j \in Jobs, End(j) PROVE TypeOK'
  BY <1>21
  DEF End, At, Goto, TypeOK, Statuses, Mishaps, InRequest, InThread, Rested
<1>22. ASSUME NEW j \in Jobs, Ages(j) PROVE TypeOK'
  BY <1>22 DEF Ages, TypeOK, Statuses, Mishaps, InRequest, InThread, Rested
<1>23. CASE TurnAway
  BY <1>23
  DEF TurnAway, Retained, TypeOK, Statuses, Mishaps, InRequest, InThread,
      Rested
<1>24. CASE SetCap
  BY <1>24 DEF SetCap, TypeOK, Statuses, Mishaps, InRequest, InThread, Rested
<1>25. CASE Restart
  BY <1>25
  DEF Restart, OrphanIf, TypeOK, Statuses, Mishaps, InRequest, InThread,
      Rested
<1>26. CASE UNCHANGED vars
  BY <1>26 DEF vars, TypeOK, Statuses, Mishaps, InRequest, InThread, Rested
<1>27. ASSUME NEW j \in Jobs, Hangs(j) PROVE TypeOK'
  BY <1>27 DEF Hangs, At, TypeOK, Statuses, Mishaps, InRequest, InThread, Rested
<1> QED
  BY <1>1, <1>2, <1>3, <1>4, <1>5, <1>6, <1>7, <1>8, <1>9, <1>10,
     <1>11, <1>12, <1>13, <1>14, <1>15, <1>16, <1>17, <1>18, <1>19,
     <1>20, <1>21, <1>22, <1>23, <1>24, <1>25, <1>26, <1>27
  DEF Next, Request, Thread

(* Every step keeps the account of a job's rows.                           *)
LEMMA ImportStep ==
  ASSUME TypeOK, ImportInv, [Next]_vars
  PROVE  ImportInv'
<1> SUFFICES ASSUME NEW k \in Jobs PROVE Imported(k)'
  BY DEF ImportInv
<1>0. Imported(k)
  BY DEF ImportInv
<1>1. ASSUME NEW j \in Jobs, Admit(j) PROVE Imported(k)'
  BY <1>1, <1>0
  DEF Admit, At, Goto, Retained, TypeOK, Imported, Unimported, InRequest,
      InThread, Finished, Rows
<1>2. ASSUME NEW j \in Jobs, Refuse(j) PROVE Imported(k)'
  BY <1>2, <1>0
  DEF Refuse, At, Goto, TypeOK, Imported, Unimported, InRequest, InThread,
      Finished, Rows
<1>3. ASSUME NEW j \in Jobs, RequestEscapes(j) PROVE Imported(k)'
  BY <1>3, <1>0
  DEF RequestEscapes, Goto, Suffer, OrphanIf, TypeOK, Imported, Unimported,
      InRequest, InThread, Finished, Rows
<1>4. ASSUME NEW j \in Jobs, Record(j) PROVE Imported(k)'
  BY <1>4, <1>0
  DEF Record, At, Goto, TypeOK, Imported, Unimported, InRequest, InThread,
      Finished, Rows
<1>5. ASSUME NEW j \in Jobs, RecordFails(j) PROVE Imported(k)'
  BY <1>5, <1>0
  DEF RecordFails, At, Goto, Suffer, OrphanIf, TypeOK, Imported, Unimported,
      InRequest, InThread, Finished, Rows
<1>6. ASSUME NEW j \in Jobs, Launch(j) PROVE Imported(k)'
  BY <1>6, <1>0
  DEF Launch, At, Goto, TypeOK, Imported, Unimported, InRequest, InThread,
      Finished, Rows
<1>7. ASSUME NEW j \in Jobs, PipelineEnds(j) PROVE Imported(k)'
  BY <1>7, <1>0
  DEF PipelineEnds, At, Goto, TypeOK, Imported, Unimported, InRequest,
      InThread, Finished, Rows
<1>8. ASSUME NEW j \in Jobs, PipelineRaises(j) PROVE Imported(k)'
  BY <1>8, <1>0
  DEF PipelineRaises, At, Goto, Suffer, TypeOK, Imported, Unimported,
      InRequest, InThread, Finished, Rows
<1>9. ASSUME NEW j \in Jobs, InsertChange(j) PROVE Imported(k)'
  BY <1>9, <1>0
  DEF InsertChange, At, Rows, TypeOK, Imported, Unimported, InRequest,
      InThread, Finished
<1>10. ASSUME NEW j \in Jobs, InsertsEnd(j) PROVE Imported(k)'
  BY <1>10, <1>0
  DEF InsertsEnd, At, Goto, Rows, TypeOK, Imported, Unimported, InRequest,
      InThread, Finished
<1>11. ASSUME NEW j \in Jobs, IngestRaises(j) PROVE Imported(k)'
  BY <1>11, <1>0
  DEF IngestRaises, At, Goto, Suffer, TypeOK, Imported, Unimported,
      InRequest, InThread, Finished, Rows
<1>12. ASSUME NEW j \in Jobs, CommitEvents(j) PROVE Imported(k)'
  BY <1>12, <1>0
  DEF CommitEvents, At, Goto, TypeOK, Imported, Unimported, InRequest,
      InThread, Finished, Rows
<1>13. ASSUME NEW j \in Jobs, CommitLocked(j) PROVE Imported(k)'
  BY <1>13, <1>0
  DEF CommitLocked, At, Suffer, TypeOK, Imported, Unimported, InRequest,
      InThread, Finished, Rows
<1>14. ASSUME NEW j \in Jobs, CommitAggregates(j) PROVE Imported(k)'
  BY <1>14, <1>0
  DEF CommitAggregates, At, Goto, TypeOK, Imported, Unimported, InRequest,
      InThread, Finished, Rows
<1>15. ASSUME NEW j \in Jobs, Tell(j) PROVE Imported(k)'
  BY <1>15, <1>0
  DEF Tell, At, Goto, TypeOK, Imported, Unimported, InRequest, InThread,
      Finished, Rows
<1>16. ASSUME NEW j \in Jobs, Save(j) PROVE Imported(k)'
  BY <1>16, <1>0
  DEF Save, At, Goto, TypeOK, Imported, Unimported, InRequest, InThread,
      Finished, Rows
<1>17. ASSUME NEW j \in Jobs, SaveRaises(j) PROVE Imported(k)'
  BY <1>17, <1>0
  DEF SaveRaises, At, Goto, Suffer, TypeOK, Imported, Unimported, InRequest,
      InThread, Finished, Rows
<1>18. ASSUME NEW j \in Jobs, Fail(j) PROVE Imported(k)'
  BY <1>18, <1>0
  DEF Fail, At, Goto, Suffer, OrphanIf, TypeOK, Imported, Unimported,
      InRequest, InThread, Finished, Rows
<1>19. ASSUME NEW j \in Jobs, Mark(j) PROVE Imported(k)'
  BY <1>19, <1>0
  DEF Mark, At, Goto, TypeOK, Imported, Unimported, InRequest, InThread,
      Finished, Rows
<1>20. ASSUME NEW j \in Jobs, MarkRaises(j) PROVE Imported(k)'
  BY <1>20, <1>0
  DEF MarkRaises, At, Goto, Suffer, OrphanIf, TypeOK, Imported, Unimported,
      InRequest, InThread, Finished, Rows
<1>21. ASSUME NEW j \in Jobs, End(j) PROVE Imported(k)'
  BY <1>21, <1>0
  DEF End, At, Goto, TypeOK, Imported, Unimported, InRequest, InThread,
      Finished, Rows
<1>22. ASSUME NEW j \in Jobs, Ages(j) PROVE Imported(k)'
  BY <1>22, <1>0
  DEF Ages, TypeOK, Imported, Unimported, InRequest, InThread, Finished,
      Rows
<1>23. CASE TurnAway
  BY <1>23, <1>0
  DEF TurnAway, Retained, TypeOK, Imported, Unimported, InRequest, InThread,
      Finished, Rows
<1>24. CASE SetCap
  BY <1>24, <1>0
  DEF SetCap, TypeOK, Imported, Unimported, InRequest, InThread, Finished,
      Rows
<1>25. CASE Restart
  BY <1>25, <1>0
  DEF Restart, OrphanIf, TypeOK, Imported, Unimported, InRequest, InThread,
      Finished, Rows
<1>26. CASE UNCHANGED vars
  BY <1>26, <1>0
  DEF vars, TypeOK, Imported, Unimported, InRequest, InThread, Finished,
      Rows
<1>27. ASSUME NEW j \in Jobs, Hangs(j) PROVE Imported(k)'
  BY <1>27, <1>0
  DEF Hangs, At, TypeOK, Imported, Unimported, InRequest, InThread, Finished,
      Rows
<1> QED
  BY <1>1, <1>2, <1>3, <1>4, <1>5, <1>6, <1>7, <1>8, <1>9, <1>10,
     <1>11, <1>12, <1>13, <1>14, <1>15, <1>16, <1>17, <1>18, <1>19,
     <1>20, <1>21, <1>22, <1>23, <1>24, <1>25, <1>26, <1>27
  DEF Next, Request, Thread

(* Every step keeps the account of the slots.                              *)
LEMMA SlotsStep ==
  ASSUME TypeOK, SlotsInv, [Next]_vars
  PROVE  SlotsInv'
<1>1. ASSUME NEW j \in Jobs, Admit(j) PROVE SlotsInv'
  BY <1>1 DEF Admit, At, Goto, Retained, TypeOK, SlotsInv, InRequest, InThread
<1>2. ASSUME NEW j \in Jobs, Refuse(j) PROVE SlotsInv'
  BY <1>2 DEF Refuse, At, Goto, TypeOK, SlotsInv, InRequest, InThread
<1>3. ASSUME NEW j \in Jobs, RequestEscapes(j) PROVE SlotsInv'
  BY <1>3
  DEF RequestEscapes, Goto, Suffer, OrphanIf, TypeOK, SlotsInv, InRequest,
      InThread
<1>4. ASSUME NEW j \in Jobs, Record(j) PROVE SlotsInv'
  BY <1>4 DEF Record, At, Goto, TypeOK, SlotsInv, InRequest, InThread
<1>5. ASSUME NEW j \in Jobs, RecordFails(j) PROVE SlotsInv'
  BY <1>5
  DEF RecordFails, At, Goto, Suffer, OrphanIf, TypeOK, SlotsInv, InRequest,
      InThread
<1>6. ASSUME NEW j \in Jobs, Launch(j) PROVE SlotsInv'
  BY <1>6 DEF Launch, At, Goto, TypeOK, SlotsInv, InRequest, InThread
<1>7. ASSUME NEW j \in Jobs, PipelineEnds(j) PROVE SlotsInv'
  BY <1>7 DEF PipelineEnds, At, Goto, TypeOK, SlotsInv, InRequest, InThread
<1>8. ASSUME NEW j \in Jobs, PipelineRaises(j) PROVE SlotsInv'
  BY <1>8
  DEF PipelineRaises, At, Goto, Suffer, TypeOK, SlotsInv, InRequest,
      InThread
<1>9. ASSUME NEW j \in Jobs, InsertChange(j) PROVE SlotsInv'
  BY <1>9 DEF InsertChange, At, Rows, TypeOK, SlotsInv, InRequest, InThread
<1>10. ASSUME NEW j \in Jobs, InsertsEnd(j) PROVE SlotsInv'
  BY <1>10
  DEF InsertsEnd, At, Goto, Rows, TypeOK, SlotsInv, InRequest, InThread
<1>11. ASSUME NEW j \in Jobs, IngestRaises(j) PROVE SlotsInv'
  BY <1>11
  DEF IngestRaises, At, Goto, Suffer, TypeOK, SlotsInv, InRequest, InThread
<1>12. ASSUME NEW j \in Jobs, CommitEvents(j) PROVE SlotsInv'
  BY <1>12 DEF CommitEvents, At, Goto, TypeOK, SlotsInv, InRequest, InThread
<1>13. ASSUME NEW j \in Jobs, CommitLocked(j) PROVE SlotsInv'
  BY <1>13 DEF CommitLocked, At, Suffer, TypeOK, SlotsInv, InRequest, InThread
<1>14. ASSUME NEW j \in Jobs, CommitAggregates(j) PROVE SlotsInv'
  BY <1>14
  DEF CommitAggregates, At, Goto, TypeOK, SlotsInv, InRequest, InThread
<1>15. ASSUME NEW j \in Jobs, Tell(j) PROVE SlotsInv'
  BY <1>15 DEF Tell, At, Goto, TypeOK, SlotsInv, InRequest, InThread
<1>16. ASSUME NEW j \in Jobs, Save(j) PROVE SlotsInv'
  BY <1>16 DEF Save, At, Goto, TypeOK, SlotsInv, InRequest, InThread
<1>17. ASSUME NEW j \in Jobs, SaveRaises(j) PROVE SlotsInv'
  BY <1>17
  DEF SaveRaises, At, Goto, Suffer, TypeOK, SlotsInv, InRequest, InThread
<1>18. ASSUME NEW j \in Jobs, Fail(j) PROVE SlotsInv'
  <2>0. pc[j] = "fail" /\ UNCHANGED active
    BY <1>18 DEF Fail, At
  <2>1. CASE jobs[j] = "absent"
    <3>1. /\ pc' = [pc EXCEPT ![j] = "end"]
          /\ mishaps' = [mishaps EXCEPT ![j] = mishaps[j] \cup OrphanIf(j, row[j])]
      BY <1>18, <2>1 DEF Fail, Goto, Suffer
    <3>2. "leaked" \notin OrphanIf(j, row[j])
      BY DEF OrphanIf
    <3>3. \A i \in Jobs : "leaked" \in mishaps'[i] <=> "leaked" \in mishaps[i]
      BY <3>1, <3>2 DEF TypeOK
    <3> QED BY <2>0, <3>1, <3>3 DEF TypeOK, SlotsInv, InRequest, InThread
  <2>2. CASE jobs[j] # "absent"
    <3>1. pc' = [pc EXCEPT ![j] = "mark"] /\ UNCHANGED mishaps
      BY <1>18, <2>2 DEF Fail, Goto
    <3> QED BY <2>0, <3>1 DEF TypeOK, SlotsInv, InRequest, InThread
  <2> QED BY <2>1, <2>2
<1>19. ASSUME NEW j \in Jobs, Mark(j) PROVE SlotsInv'
  BY <1>19 DEF Mark, At, Goto, TypeOK, SlotsInv, InRequest, InThread
<1>20. ASSUME NEW j \in Jobs, MarkRaises(j) PROVE SlotsInv'
  BY <1>20
  DEF MarkRaises, At, Goto, Suffer, OrphanIf, TypeOK, SlotsInv, InRequest,
      InThread
<1>21. ASSUME NEW j \in Jobs, End(j) PROVE SlotsInv'
  BY <1>21 DEF End, At, Goto, TypeOK, SlotsInv, InRequest, InThread
<1>22. ASSUME NEW j \in Jobs, Ages(j) PROVE SlotsInv'
  BY <1>22 DEF Ages, TypeOK, SlotsInv, InRequest, InThread
<1>23. CASE TurnAway
  BY <1>23 DEF TurnAway, Retained, TypeOK, SlotsInv, InRequest, InThread
<1>24. CASE SetCap
  BY <1>24 DEF SetCap, TypeOK, SlotsInv, InRequest, InThread
<1>25. CASE Restart
  BY <1>25 DEF Restart, OrphanIf, TypeOK, SlotsInv, InRequest, InThread
<1>26. CASE UNCHANGED vars
  BY <1>26 DEF vars, TypeOK, SlotsInv, InRequest, InThread
<1>27. ASSUME NEW j \in Jobs, Hangs(j) PROVE SlotsInv'
  BY <1>27 DEF Hangs, At, TypeOK, SlotsInv, InRequest, InThread
<1> QED
  BY <1>1, <1>2, <1>3, <1>4, <1>5, <1>6, <1>7, <1>8, <1>9, <1>10,
     <1>11, <1>12, <1>13, <1>14, <1>15, <1>16, <1>17, <1>18, <1>19,
     <1>20, <1>21, <1>22, <1>23, <1>24, <1>25, <1>26, <1>27
  DEF Next, Request, Thread

(* Every step keeps each row watched, or makes it an orphan.               *)
LEMMA RowsStep ==
  ASSUME TypeOK, RowsInv, [Next]_vars
  PROVE  RowsInv'
<1> SUFFICES ASSUME NEW k \in Jobs PROVE Watched(k)'
  BY DEF RowsInv
<1>0. Watched(k)
  BY DEF RowsInv
<1>1. ASSUME NEW j \in Jobs, Admit(j) PROVE Watched(k)'
  BY <1>1, <1>0
  DEF Admit, At, Goto, Retained, TypeOK, Watched, InRequest, InThread
<1>2. ASSUME NEW j \in Jobs, Refuse(j) PROVE Watched(k)'
  BY <1>2, <1>0 DEF Refuse, At, Goto, TypeOK, Watched, InRequest, InThread
<1>3. ASSUME NEW j \in Jobs, RequestEscapes(j) PROVE Watched(k)'
  BY <1>3, <1>0
  DEF RequestEscapes, Goto, Suffer, OrphanIf, TypeOK, Watched, InRequest,
      InThread
<1>4. ASSUME NEW j \in Jobs, Record(j) PROVE Watched(k)'
  BY <1>4, <1>0 DEF Record, At, Goto, TypeOK, Watched, InRequest, InThread
<1>5. ASSUME NEW j \in Jobs, RecordFails(j) PROVE Watched(k)'
  BY <1>5, <1>0
  DEF RecordFails, At, Goto, Suffer, OrphanIf, TypeOK, Watched, InRequest,
      InThread
<1>6. ASSUME NEW j \in Jobs, Launch(j) PROVE Watched(k)'
  BY <1>6, <1>0 DEF Launch, At, Goto, TypeOK, Watched, InRequest, InThread
<1>7. ASSUME NEW j \in Jobs, PipelineEnds(j) PROVE Watched(k)'
  BY <1>7, <1>0
  DEF PipelineEnds, At, Goto, TypeOK, Watched, InRequest, InThread
<1>8. ASSUME NEW j \in Jobs, PipelineRaises(j) PROVE Watched(k)'
  BY <1>8, <1>0
  DEF PipelineRaises, At, Goto, Suffer, TypeOK, Watched, InRequest, InThread
<1>9. ASSUME NEW j \in Jobs, InsertChange(j) PROVE Watched(k)'
  BY <1>9, <1>0
  DEF InsertChange, At, Rows, TypeOK, Watched, InRequest, InThread
<1>10. ASSUME NEW j \in Jobs, InsertsEnd(j) PROVE Watched(k)'
  BY <1>10, <1>0
  DEF InsertsEnd, At, Goto, Rows, TypeOK, Watched, InRequest, InThread
<1>11. ASSUME NEW j \in Jobs, IngestRaises(j) PROVE Watched(k)'
  BY <1>11, <1>0
  DEF IngestRaises, At, Goto, Suffer, TypeOK, Watched, InRequest, InThread
<1>12. ASSUME NEW j \in Jobs, CommitEvents(j) PROVE Watched(k)'
  BY <1>12, <1>0
  DEF CommitEvents, At, Goto, TypeOK, Watched, InRequest, InThread
<1>13. ASSUME NEW j \in Jobs, CommitLocked(j) PROVE Watched(k)'
  BY <1>13, <1>0
  DEF CommitLocked, At, Suffer, TypeOK, Watched, InRequest, InThread
<1>14. ASSUME NEW j \in Jobs, CommitAggregates(j) PROVE Watched(k)'
  BY <1>14, <1>0
  DEF CommitAggregates, At, Goto, TypeOK, Watched, InRequest, InThread
<1>15. ASSUME NEW j \in Jobs, Tell(j) PROVE Watched(k)'
  BY <1>15, <1>0 DEF Tell, At, Goto, TypeOK, Watched, InRequest, InThread
<1>16. ASSUME NEW j \in Jobs, Save(j) PROVE Watched(k)'
  BY <1>16, <1>0 DEF Save, At, Goto, TypeOK, Watched, InRequest, InThread
<1>17. ASSUME NEW j \in Jobs, SaveRaises(j) PROVE Watched(k)'
  BY <1>17, <1>0
  DEF SaveRaises, At, Goto, Suffer, TypeOK, Watched, InRequest, InThread
<1>18. ASSUME NEW j \in Jobs, Fail(j) PROVE Watched(k)'
  BY <1>18, <1>0
  DEF Fail, At, Goto, Suffer, OrphanIf, TypeOK, Watched, InRequest, InThread
<1>19. ASSUME NEW j \in Jobs, Mark(j) PROVE Watched(k)'
  BY <1>19, <1>0 DEF Mark, At, Goto, TypeOK, Watched, InRequest, InThread
<1>20. ASSUME NEW j \in Jobs, MarkRaises(j) PROVE Watched(k)'
  BY <1>20, <1>0
  DEF MarkRaises, At, Goto, Suffer, OrphanIf, TypeOK, Watched, InRequest,
      InThread
<1>21. ASSUME NEW j \in Jobs, End(j) PROVE Watched(k)'
  BY <1>21, <1>0 DEF End, At, Goto, TypeOK, Watched, InRequest, InThread
<1>22. ASSUME NEW j \in Jobs, Ages(j) PROVE Watched(k)'
  BY <1>22, <1>0 DEF Ages, TypeOK, Watched, InRequest, InThread
<1>23. CASE TurnAway
  BY <1>23, <1>0 DEF TurnAway, Retained, TypeOK, Watched, InRequest, InThread
<1>24. CASE SetCap
  BY <1>24, <1>0 DEF SetCap, TypeOK, Watched, InRequest, InThread
<1>25. CASE Restart
  BY <1>25, <1>0 DEF Restart, OrphanIf, TypeOK, Watched, InRequest, InThread
<1>26. CASE UNCHANGED vars
  BY <1>26, <1>0 DEF vars, TypeOK, Watched, InRequest, InThread
<1>27. ASSUME NEW j \in Jobs, Hangs(j) PROVE Watched(k)'
  BY <1>27, <1>0 DEF Hangs, At, TypeOK, Watched, InRequest, InThread
<1> QED
  BY <1>1, <1>2, <1>3, <1>4, <1>5, <1>6, <1>7, <1>8, <1>9, <1>10,
     <1>11, <1>12, <1>13, <1>14, <1>15, <1>16, <1>17, <1>18, <1>19,
     <1>20, <1>21, <1>22, <1>23, <1>24, <1>25, <1>26, <1>27
  DEF Next, Request, Thread

(* The rows that say running, as far as they are no orphans, have a slot.  *)
LEMMA RunningHasSlot ==
  ASSUME TypeOK, SlotsInv, RowsInv
  PROVE  StatsAgree
<1> DEFINE running  == {j \in Jobs : row[j] \in {"running"}}
           orphaned == {j \in Jobs : "orphaned" \in mishaps[j]}
<1>1. running \subseteq active \cup orphaned
  BY DEF SlotsInv, RowsInv, Watched
<1>2. IsFiniteSet(active) /\ IsFiniteSet(orphaned) /\ IsFiniteSet(active \cup orphaned)
  <2>1. active \subseteq Jobs /\ orphaned \subseteq Jobs /\ active \cup orphaned \subseteq Jobs
    BY DEF TypeOK
  <2> QED BY <2>1, JobsAssumption, FS_Subset
<1>3. Cardinality(running) <= Cardinality(active \cup orphaned)
  BY <1>1, <1>2, FS_Subset
<1>4. Cardinality(active \cup orphaned) <= Cardinality(active) + Cardinality(orphaned)
  <2>1. Cardinality(active \cup orphaned)
          = Cardinality(active) + Cardinality(orphaned) - Cardinality(active \cap orphaned)
    BY <1>2, FS_Union
  <2>2. IsFiniteSet(active \cap orphaned)
    BY <1>2, FS_Intersection
  <2>3. /\ Cardinality(active) \in Nat /\ Cardinality(orphaned) \in Nat
        /\ Cardinality(active \cap orphaned) \in Nat
    BY <1>2, <2>2, FS_CardinalityType
  <2> QED BY <2>1, <2>3
<1>5. IsFiniteSet(running)
  BY <1>1, <1>2, FS_Subset
<1>6. /\ Cardinality(running) \in Nat /\ Cardinality(active) \in Nat
      /\ Cardinality(orphaned) \in Nat /\ Cardinality(active \cup orphaned) \in Nat
  BY <1>2, <1>5, FS_CardinalityType
<1>7. Cardinality(running) <= Cardinality(active) + Cardinality(orphaned)
  BY <1>3, <1>4, <1>6
<1>8. JobStats(TRUE).active = Cardinality(running) /\ JobStats(FALSE).active = Cardinality(active)
  BY DEF JobStats
<1> QED BY <1>7, <1>8 DEF StatsAgree

-----------------------------------------------------------------------------
(* Every reachable state has its types, for all jobs, caps and logs.       *)
THEOREM JobTypes == Spec => []TypeOK
<1>1. Init => TypeOK
  BY CapsAssumption, MaxChangesAssumption
     DEF Init, TypeOK, InRequest, InThread, Rested, Statuses, Finished, Mishaps
<1> QED BY <1>1, TypeStep, PTL DEF Spec

(* A log is imported as a whole or not at all, and a job reported as       *)
(* completed has all of it stored, unless a lock rolled its rows back:     *)
(* whatever fails in the job's thread, in the database, or by a restart.   *)
THEOREM ImportedAsReported == Spec => []StoredAsReported
<1>1. Init => ImportInv
  BY DEF Init, ImportInv, Imported, Unimported, Rows
<1>2. ImportInv => StoredAsReported
  BY DEF ImportInv, Imported, StoredAsReported
<1> QED BY <1>1, <1>2, ImportStep, JobTypes, PTL DEF Spec

(* The slots taken are those of the request in hand, the living threads    *)
(* and the requests that escaped; and the number of jobs at work that the  *)
(* rows tell exceeds what memory tells by the orphaned rows at most.       *)
THEOREM SlotsAddUp == Spec => []SlotsAreUsed
<1>1. Init => SlotsInv /\ RowsInv
  BY DEF Init, SlotsInv, RowsInv, Watched, InRequest, InThread
<1>2. TypeOK /\ SlotsInv /\ RowsInv => SlotsAreUsed
  BY RunningHasSlot DEF SlotsInv, SlotsAreUsed
<1> QED BY <1>1, <1>2, SlotsStep, RowsStep, JobTypes, PTL DEF Spec

(* The thread's last words: a job that is done has given its slot back,    *)
(* and its row is final or an orphan.                                      *)
THEOREM DoneJobsAreSettled == Spec => []DoneIsSettled
<1>1. Init => SlotsInv /\ RowsInv
  BY DEF Init, SlotsInv, RowsInv, Watched, InRequest, InThread
<1>2. TypeOK /\ SlotsInv /\ RowsInv => DoneIsSettled
  BY DEF TypeOK, SlotsInv, RowsInv, Watched, DoneIsSettled, At,
         InRequest, InThread, Statuses, Finished
<1> QED BY <1>1, <1>2, SlotsStep, RowsStep, JobTypes, PTL DEF Spec

----------------------------------------------------------------------------
(* Sums over finite sets.  SumOver is a fold, and a fold a choice among    *)
(* the solutions of its recursion: it has one, by way of a smallest set    *)
(* without, and all of them agree, by way of a smallest set where two do   *)
(* not.  Every further fact about a sum comes from a smallest set that     *)
(* lacks it.                                                               *)

(* The element a sum begins with, and the equation its recursion solves.   *)
Pick(s) == CHOOSE x \in s : TRUE
Sums(g, f, S) ==
  g = [s \in SUBSET S |-> IF s = {} THEN 0 ELSE f[Pick(s)] + g[s \ {Pick(s)}]]

LEMMA SumIsChosen ==
  ASSUME NEW f, NEW S
  PROVE  SumOver(f, S) = (CHOOSE g : Sums(g, f, S))[S]
  BY DEF SumOver, MapThenSumSet, MapThenFoldSet, Sums, Pick

(* Of the finite sets that are not in a set of them one is smallest.       *)
LEMMA SmallestSet ==
  ASSUME NEW S, IsFiniteSet(S), NEW T \in SUBSET SUBSET S, T # {}
  PROVE  \E U \in T : \A V \in SUBSET U : V # U => V \notin T
<1>1. IsWellFoundedOn(StrictSubsetOrdering(S), FiniteSubsetsOf(S))
  BY FS_StrictSubsetOrderingWellFounded
<1>2. FiniteSubsetsOf(S) = SUBSET S
  BY FS_FiniteSubsetsOfFinite
<1>3. PICK U \in T : \A V \in T : ~(<<V, U>> \in StrictSubsetOrdering(S))
  BY <1>1, <1>2, WFMin
<1> QED BY <1>3 DEF StrictSubsetOrdering

(* Two solutions of the equation agree where both are defined.             *)
LEMMA SumsAgree ==
  ASSUME NEW f, NEW S, IsFiniteSet(S), NEW R \in SUBSET S,
         NEW g, Sums(g, f, S), NEW h, Sums(h, f, R)
  PROVE  \A U \in SUBSET R : g[U] = h[U]
<1> DEFINE T == {U \in SUBSET R : g[U] # h[U]}
<1> SUFFICES ASSUME T # {} PROVE FALSE
  OBVIOUS
<1>1. PICK U \in T : \A V \in SUBSET U : V # U => V \notin T
  <2>1. IsFiniteSet(R)
    BY FS_Subset
  <2>2. T \in SUBSET SUBSET R
    OBVIOUS
  <2> HIDE DEF T
  <2> QED BY <2>1, <2>2, SmallestSet
<1>2. U \in SUBSET R /\ U \in SUBSET S
  OBVIOUS
<1>3. CASE U = {}
  BY <1>2, <1>3 DEF Sums
<1>4. CASE U # {}
  <2>1. Pick(U) \in U
    BY <1>4 DEF Pick
  <2>2. g[U \ {Pick(U)}] = h[U \ {Pick(U)}]
    BY <1>1, <1>2, <2>1
  <2>3. g[U] = f[Pick(U)] + g[U \ {Pick(U)}]
    BY <1>2, <1>4 DEF Sums
  <2>4. h[U] = f[Pick(U)] + h[U \ {Pick(U)}]
    BY <1>2, <1>4 DEF Sums
  <2> QED BY <1>1, <2>2, <2>3, <2>4
<1> QED BY <1>3, <1>4

(* ... and there is one.                                                   *)
LEMMA SumsExist ==
  ASSUME NEW f, NEW S, IsFiniteSet(S)
  PROVE  \E g : Sums(g, f, S)
<1> DEFINE T == {U \in SUBSET S : ~\E g : Sums(g, f, U)}
<1> SUFFICES ASSUME T # {} PROVE FALSE
  OBVIOUS
<1>1. PICK U \in T : \A V \in SUBSET U : V # U => V \notin T
  <2>1. T \in SUBSET SUBSET S
    OBVIOUS
  <2> HIDE DEF T
  <2> QED BY <2>1, SmallestSet
<1>2. U \in SUBSET S
  OBVIOUS
<1>3. \A V \in SUBSET U : V # U => \E g : Sums(g, f, V)
  BY <1>1, <1>2
<1> DEFINE h(V) == CHOOSE g : Sums(g, f, V)
<1>4. \A V \in SUBSET U : V # U => Sums(h(V), f, V)
  BY <1>3
<1> DEFINE G == [s \in SUBSET U |-> IF s = {} THEN 0
                                    ELSE f[Pick(s)] + h(s \ {Pick(s)})[s \ {Pick(s)}]]
<1> HIDE DEF T, h
<1>5. ASSUME NEW V \in SUBSET U, V # U
      PROVE  G[V] = h(V)[V]
  <2>1. Sums(h(V), f, V)
    BY <1>4, <1>5
  <2>2. CASE V = {}
    BY <2>1, <2>2 DEF Sums
  <2>3. CASE V # {}
    <3> DEFINE W == V \ {Pick(V)}
    <3>1. Pick(V) \in V
      BY <2>3 DEF Pick
    <3>2. W \in SUBSET V /\ W \in SUBSET U /\ W # U /\ IsFiniteSet(V)
      BY <3>1, <1>5, <1>2, FS_Subset
    <3>3. Sums(h(W), f, W)
      BY <1>4, <3>2
    <3>4. h(V)[W] = h(W)[W]
      BY <2>1, <3>2, <3>3, SumsAgree
    <3>5. h(V)[V] = f[Pick(V)] + h(V)[W]
      BY <2>1, <2>3 DEF Sums
    <3>6. G[V] = f[Pick(V)] + h(W)[W]
      BY <2>3
    <3> QED BY <3>4, <3>5, <3>6
  <2> QED BY <2>2, <2>3
<1>6. ASSUME NEW s \in SUBSET U, s # {}
      PROVE  G[s \ {Pick(s)}] = h(s \ {Pick(s)})[s \ {Pick(s)}]
  <2>1. Pick(s) \in s
    BY <1>6 DEF Pick
  <2>2. s \ {Pick(s)} \in SUBSET U /\ s \ {Pick(s)} # U
    BY <2>1
  <2> QED BY <2>2, <1>5
<1>7. G = [s \in SUBSET U |-> IF s = {} THEN 0 ELSE f[Pick(s)] + G[s \ {Pick(s)}]]
  BY <1>6
<1>8. Sums(G, f, U)
  BY <1>7 DEF Sums
<1>9. U \in T
  OBVIOUS
<1> QED BY <1>8, <1>9 DEF T

(* The recursion: a sum is that of a picked element and of the rest.       *)
LEMMA SumPicks ==
  ASSUME NEW f, NEW S, IsFiniteSet(S)
  PROVE  SumOver(f, S) = IF S = {} THEN 0 ELSE f[Pick(S)] + SumOver(f, S \ {Pick(S)})
<1> DEFINE g == CHOOSE g : Sums(g, f, S)
           R == S \ {Pick(S)}
           h == CHOOSE h : Sums(h, f, R)
<1>0. IsFiniteSet(R)
  BY FS_Subset
<1>1. Sums(g, f, S) /\ Sums(h, f, R)
  BY <1>0, SumsExist
<1>2. SumOver(f, S) = g[S] /\ SumOver(f, R) = h[R]
  BY SumIsChosen
<1> HIDE DEF g, h
<1>3. g[R] = h[R]
  BY <1>1, SumsAgree
<1>4. g[S] = IF S = {} THEN 0 ELSE f[Pick(S)] + g[R]
  BY <1>1 DEF Sums
<1> QED BY <1>2, <1>3, <1>4

IsCount(f, S) == IsFiniteSet(S) /\ \A x \in S : f[x] \in Nat

LEMMA SumEmpty ==
  ASSUME NEW f
  PROVE  SumOver(f, {}) = 0
BY SumPicks, FS_EmptySet

LEMMA CountedPart ==
  ASSUME NEW f, NEW S, IsCount(f, S), NEW R \in SUBSET S
  PROVE  IsCount(f, R)
BY FS_Subset DEF IsCount

(* A sum of numbers is a number.                                           *)
LEMMA SumIsNat ==
  ASSUME NEW f, NEW S, IsCount(f, S)
  PROVE  SumOver(f, S) \in Nat
<1> DEFINE T == {U \in SUBSET S : SumOver(f, U) \notin Nat}
<1> SUFFICES ASSUME T # {} PROVE FALSE
  OBVIOUS
<1>1. PICK U \in T : \A V \in SUBSET U : V # U => V \notin T
  <2>1. T \in SUBSET SUBSET S /\ IsFiniteSet(S)
    BY DEF IsCount
  <2> HIDE DEF T
  <2> QED BY <2>1, SmallestSet
<1>2. U \in SUBSET S /\ SumOver(f, U) \notin Nat /\ IsFiniteSet(U)
  BY FS_Subset DEF IsCount
<1>3. SumOver(f, U) = IF U = {} THEN 0 ELSE f[Pick(U)] + SumOver(f, U \ {Pick(U)})
  BY <1>2, SumPicks
<1>4. U # {}
  BY <1>2, <1>3
<1>5. Pick(U) \in U
  BY <1>4 DEF Pick
<1>6. SumOver(f, U \ {Pick(U)}) \in Nat
  BY <1>1, <1>2, <1>5
<1> QED BY <1>2, <1>3, <1>4, <1>5, <1>6 DEF IsCount

(* Any element may be taken from a sum, not only the one it begins with.   *)
LEMMA SumTakes ==
  ASSUME NEW f, NEW S, IsCount(f, S), NEW x \in S
  PROVE  SumOver(f, S) = f[x] + SumOver(f, S \ {x})
<1> DEFINE T == {U \in SUBSET S : \E e \in U : SumOver(f, U) # f[e] + SumOver(f, U \ {e})}
<1> SUFFICES ASSUME T # {} PROVE FALSE
  OBVIOUS
<1>1. PICK U \in T : \A V \in SUBSET U : V # U => V \notin T
  <2>1. T \in SUBSET SUBSET S /\ IsFiniteSet(S)
    BY DEF IsCount
  <2> HIDE DEF T
  <2> QED BY <2>1, SmallestSet
<1>2. PICK e \in U : SumOver(f, U) # f[e] + SumOver(f, U \ {e})
  OBVIOUS
<1> DEFINE p == Pick(U)
<1>3. p \in U /\ U \in SUBSET S
  BY DEF Pick
<1>4. IsCount(f, U) /\ IsCount(f, U \ {p}) /\ IsCount(f, U \ {e}) /\ IsCount(f, (U \ {p}) \ {e})
  BY <1>3, CountedPart
<1>5. f[e] \in Nat /\ f[p] \in Nat
  BY <1>3, <1>4 DEF IsCount
<1>6. SumOver(f, U) = f[p] + SumOver(f, U \ {p})
  BY <1>3, <1>4, SumPicks DEF IsCount
<1>7. p # e
  BY <1>2, <1>6
<1> HIDE DEF p
<1>8. SumOver(f, U \ {p}) = f[e] + SumOver(f, (U \ {p}) \ {e})
  BY <1>1, <1>3, <1>7
<1>9. SumOver(f, U \ {e}) = f[p] + SumOver(f, (U \ {e}) \ {p})
  BY <1>1, <1>3, <1>7
<1>10. (U \ {e}) \ {p} = (U \ {p}) \ {e}
  OBVIOUS
<1>11. SumOver(f, (U \ {p}) \ {e}) \in Nat
  BY <1>4, SumIsNat
<1> QED BY <1>2, <1>5, <1>6, <1>8, <1>9, <1>10, <1>11

(* Sums over disjoint sets add up.                                         *)
LEMMA SumOfUnion ==
  ASSUME NEW f, NEW R, NEW S, IsCount(f, R), IsCount(f, S), R \cap S = {}
  PROVE  SumOver(f, R \cup S) = SumOver(f, R) + SumOver(f, S)
<1> DEFINE T == {U \in SUBSET S : SumOver(f, R \cup U) # SumOver(f, R) + SumOver(f, U)}
<1> SUFFICES ASSUME T # {} PROVE FALSE
  OBVIOUS
<1>1. PICK U \in T : \A V \in SUBSET U : V # U => V \notin T
  <2>1. T \in SUBSET SUBSET S /\ IsFiniteSet(S)
    BY DEF IsCount
  <2> HIDE DEF T
  <2> QED BY <2>1, SmallestSet
<1>2. U \in SUBSET S /\ SumOver(f, R \cup U) # SumOver(f, R) + SumOver(f, U)
  OBVIOUS
<1>3. IsCount(f, U) /\ IsCount(f, R \cup U) /\ SumOver(f, R) \in Nat
  <2>1. IsCount(f, U)
    BY <1>2, CountedPart
  <2>2. IsFiniteSet(R \cup U)
    BY <2>1, FS_Union DEF IsCount
  <2> QED BY <2>1, <2>2, SumIsNat DEF IsCount
<1>4. U # {}
  <2> SUFFICES ASSUME U = {} PROVE FALSE
    OBVIOUS
  <2>1. R \cup U = R /\ SumOver(f, U) = 0
    BY SumEmpty
  <2> QED BY <1>2, <1>3, <2>1
<1>5. PICK e \in U : TRUE
  BY <1>4
<1>6. SumOver(f, U) = f[e] + SumOver(f, U \ {e})
  BY <1>3, SumTakes
<1>7. SumOver(f, R \cup U) = f[e] + SumOver(f, R \cup (U \ {e}))
  <2>1. e \in R \cup U /\ (R \cup U) \ {e} = R \cup (U \ {e})
    BY <1>2
  <2> QED BY <1>3, <2>1, SumTakes
<1>8. SumOver(f, R \cup (U \ {e})) = SumOver(f, R) + SumOver(f, U \ {e})
  BY <1>1, <1>2
<1>9. f[e] \in Nat /\ SumOver(f, U \ {e}) \in Nat
  BY <1>3, CountedPart, SumIsNat DEF IsCount
<1> QED BY <1>2, <1>3, <1>6, <1>7, <1>8, <1>9

(* A part of a set sums to no more.                                        *)
LEMMA SumOfPart ==
  ASSUME NEW f, NEW S, IsCount(f, S), NEW R \in SUBSET S
  PROVE  SumOver(f, R) <= SumOver(f, S)
<1>1. IsCount(f, R) /\ IsCount(f, S \ R)
  BY CountedPart
<1>2. R \cap (S \ R) = {} /\ R \cup (S \ R) = S
  OBVIOUS
<1>3. SumOver(f, S) = SumOver(f, R) + SumOver(f, S \ R)
  BY <1>1, <1>2, SumOfUnion
<1> QED BY <1>1, <1>3, SumIsNat

(* Larger terms have the larger sum.                                       *)
LEMMA SumOfLess ==
  ASSUME NEW f, NEW g, NEW S, IsCount(f, S), IsCount(g, S), \A x \in S : f[x] <= g[x]
  PROVE  SumOver(f, S) <= SumOver(g, S)
<1> DEFINE T == {U \in SUBSET S : ~(SumOver(f, U) <= SumOver(g, U))}
<1> SUFFICES ASSUME T # {} PROVE FALSE
  OBVIOUS
<1>1. PICK U \in T : \A V \in SUBSET U : V # U => V \notin T
  <2>1. T \in SUBSET SUBSET S /\ IsFiniteSet(S)
    BY DEF IsCount
  <2> HIDE DEF T
  <2> QED BY <2>1, SmallestSet
<1>2. U \in SUBSET S /\ ~(SumOver(f, U) <= SumOver(g, U)) /\ IsCount(f, U) /\ IsCount(g, U)
  BY CountedPart
<1>3. U # {}
  BY <1>2, SumEmpty
<1>4. PICK e \in U : TRUE
  BY <1>3
<1>5. SumOver(f, U) = f[e] + SumOver(f, U \ {e}) /\ SumOver(g, U) = g[e] + SumOver(g, U \ {e})
  BY <1>2, SumTakes
<1>6. SumOver(f, U \ {e}) <= SumOver(g, U \ {e})
  BY <1>1, <1>2
<1>7. SumOver(f, U \ {e}) \in Nat /\ SumOver(g, U \ {e}) \in Nat
  BY <1>2, CountedPart, SumIsNat
<1>8. f[e] \in Nat /\ g[e] \in Nat /\ f[e] <= g[e]
  BY <1>2 DEF IsCount
<1> QED BY <1>2, <1>5, <1>6, <1>7, <1>8

(* The same terms have the same sum.                                       *)
LEMMA SumOfSame ==
  ASSUME NEW f, NEW g, NEW S, IsCount(f, S), \A x \in S : f[x] = g[x]
  PROVE  SumOver(f, S) = SumOver(g, S)
<1>1. IsCount(g, S)
  BY DEF IsCount
<1>2. \A x \in S : f[x] <= g[x] /\ g[x] <= f[x]
  BY DEF IsCount
<1>3. SumOver(f, S) <= SumOver(g, S) /\ SumOver(g, S) <= SumOver(f, S)
  BY <1>1, <1>2, SumOfLess
<1> QED BY <1>1, <1>3, SumIsNat

(* Where the terms of one set are sums over parts of another, the sum is   *)
(* that of the union of the parts.                                         *)
LEMMA SumOfSums ==
  ASSUME NEW f, NEW S, IsCount(f, S), NEW K, IsFiniteSet(K), NEW P \in [K -> SUBSET S],
         \A j, k \in K : j # k => P[j] \cap P[k] = {},
         NEW g, \A k \in K : g[k] = SumOver(f, P[k])
  PROVE  SumOver(g, K) = SumOver(f, UNION {P[k] : k \in K})
<1> DEFINE Parts(U) == UNION {P[k] : k \in U}
           T == {U \in SUBSET K : SumOver(g, U) # SumOver(f, Parts(U))}
<1> SUFFICES ASSUME T # {} PROVE FALSE
  OBVIOUS
<1>1. PICK U \in T : \A V \in SUBSET U : V # U => V \notin T
  <2>1. T \in SUBSET SUBSET K
    OBVIOUS
  <2> HIDE DEF T
  <2> QED BY <2>1, SmallestSet
<1>2. U \in SUBSET K /\ SumOver(g, U) # SumOver(f, Parts(U))
  OBVIOUS
<1>3. IsCount(g, U)
  <2>1. \A k \in U : g[k] \in Nat
    BY <1>2, CountedPart, SumIsNat
  <2> QED BY <1>2, <2>1, FS_Subset DEF IsCount
<1>4. U # {}
  <2> SUFFICES ASSUME U = {} PROVE FALSE
    OBVIOUS
  <2>1. Parts(U) = {}
    OBVIOUS
  <2> QED BY <1>2, <2>1, SumEmpty
<1>5. PICK e \in U : TRUE
  BY <1>4
<1>6. SumOver(g, U) = g[e] + SumOver(g, U \ {e})
  BY <1>3, SumTakes
<1>7. SumOver(g, U \ {e}) = SumOver(f, Parts(U \ {e}))
  BY <1>1, <1>2
<1>8. Parts(U) = P[e] \cup Parts(U \ {e}) /\ P[e] \cap Parts(U \ {e}) = {}
  BY <1>2
<1>9. IsCount(f, P[e]) /\ IsCount(f, Parts(U \ {e}))
  <2>1. P[e] \in SUBSET S /\ Parts(U \ {e}) \in SUBSET S
    BY <1>2
  <2> HIDE DEF Parts
  <2> QED BY <2>1, CountedPart
<1> HIDE DEF Parts, T
<1>10. SumOver(f, Parts(U)) = SumOver(f, P[e]) + SumOver(f, Parts(U \ {e}))
  BY <1>8, <1>9, SumOfUnion
<1>11. g[e] = SumOver(f, P[e])
  BY <1>2
<1> QED BY <1>2, <1>6, <1>7, <1>10, <1>11

(* Division by a slot length, as the queries use it.                       *)
LEMMA Division ==
  ASSUME NEW t \in Nat, NEW a \in Nat \ {0}
  PROVE  t \div a \in Nat /\ t % a \in 0 .. a - 1 /\ t = a * (t \div a) + (t % a)
OBVIOUS

LEMMA ProductGrows ==
  ASSUME NEW a \in Nat, NEW p \in Int, NEW q \in Int, p <= q
  PROVE  a * p <= a * q
OBVIOUS

(* Quotient and remainder are the only ones.                               *)
LEMMA OneQuotient ==
  ASSUME NEW t \in Nat, NEW a \in Nat \ {0}, NEW q \in Nat, NEW r \in 0 .. a - 1, t = a * q + r
  PROVE  t \div a = q /\ t % a = r
<1> DEFINE p == t \div a
           s == t % a
<1>1. p \in Nat /\ s \in 0 .. a - 1 /\ t = a * p + s
  BY Division
<1> HIDE DEF p, s
<1>2. ~(p < q)
  <2> SUFFICES ASSUME p < q PROVE FALSE
    OBVIOUS
  <2>1. a * (p + 1) <= a * q
    BY <1>1, ProductGrows
  <2>2. a * (p + 1) = a * p + a
    BY <1>1
  <2> QED BY <1>1, <2>1, <2>2
<1>3. ~(q < p)
  <2> SUFFICES ASSUME q < p PROVE FALSE
    OBVIOUS
  <2>1. a * (q + 1) <= a * p
    BY <1>1, ProductGrows
  <2>2. a * (q + 1) = a * q + a
    OBVIOUS
  <2> QED BY <1>1, <2>1, <2>2
<1>4. p = q
  BY <1>1, <1>2, <1>3
<1> QED BY <1>1, <1>4 DEF p, s

LEMMA SlotTypes ==
  /\ HourSlots \in Nat \ {0} /\ DayHours \in Nat \ {0} /\ RowLimit \in Nat \ {0}
  /\ Day \in Nat \ {0} /\ Day = HourSlots * DayHours
  /\ LastSlot \in Nat /\ Slots \subseteq Nat /\ Hours \subseteq Nat
  /\ IsFiniteSet(Hours) /\ IsFiniteSet(Cameras)
<1>1. {HourSlots, DayHours, RowLimit} \subseteq Nat \ {0} /\ {LastSlot, MaxLag, MaxRows} \subseteq Nat
  BY ReportsAssumption
<1>2. HourSlots * DayHours \in Nat \ {0}
  <2>1. HourSlots * 1 <= HourSlots * DayHours
    BY <1>1, ProductGrows
  <2> QED BY <1>1, <2>1
<1>3. IsFiniteSet(Hours)
  BY <1>1, FS_Interval DEF Hours
<1>4. IsFiniteSet(Cameras)
  <2>1. [l \in Lanes |-> l.camera] \in Surjection(Lanes, Cameras)
    BY DEF Surjection, Cameras
  <2> QED BY <2>1, ReportsAssumption, FS_Surjection
<1> QED BY <1>1, <1>2, <1>3, <1>4 DEF Day, Slots, Hours

(* The hours of a day: those that begin in it.                             *)
LEMMA HoursOfDay ==
  ASSUME NEW d \in Nat, d % Day = 0, NEW h \in Hours, NEW t \in Nat
  PROVE  (d <= t /\ t < d + Day /\ HourOfDay(t) = h) <=> HourOf(t) = d + HourSlots * h
<1> DEFINE a == HourSlots
           k == d \div Day
           r == t % a
           q == t \div a
<1>0. /\ a \in Nat \ {0} /\ DayHours \in Nat \ {0} /\ Day \in Nat \ {0} /\ Day = a * DayHours
      /\ h \in 0 .. DayHours - 1
  BY SlotTypes DEF Hours
<1>1. k \in Nat /\ d = Day * k
  <2>1. Day \in Nat \ {0}
    BY <1>0
  <2>2. k \in Nat /\ d = Day * k + (d % Day)
    BY <2>1, Division
  <2> HIDE DEF k
  <2>3. Day * k \in Int
    BY <2>1, <2>2
  <2> QED BY <2>2, <2>3
<1>2. q \in Nat /\ r \in 0 .. a - 1 /\ t = a * q + r
  BY <1>0, Division
<1>3. HourOf(t) = a * q
  <2>1. a * q \in Nat
    BY <1>0, <1>2
  <2> QED BY <1>0, <1>2, <2>1 DEF HourOf
<1>4. a * h \in Nat /\ d = a * (DayHours * k)
  BY <1>0, <1>1
<1> HIDE DEF a, k, r, q
<1>5. ASSUME d <= t, t < d + Day, HourOfDay(t) = h
      PROVE  HourOf(t) = d + a * h
  <2> DEFINE u == t - d
             s == u % a
  <2>1. u \in 0 .. Day - 1 /\ u \in Nat /\ t = Day * k + u
    BY <1>0, <1>1, <1>5
  <2>2. t % Day = u
    <3>1. Day \in Nat \ {0} /\ k \in Nat
      BY <1>0, <1>1
    <3> QED BY <2>1, <3>1, OneQuotient
  <2>3. u \div a = h
    BY <1>5, <2>2 DEF HourOfDay, a
  <2> HIDE DEF u
  <2>4. s \in 0 .. a - 1 /\ u = a * h + s
    BY <1>0, <2>1, <2>3, Division
  <2> HIDE DEF s
  <2>5. t = a * (DayHours * k + h) + s
    <3>1. t = d + (a * h + s)
      BY <1>1, <2>1, <2>4
    <3>2. a * (DayHours * k + h) = a * (DayHours * k) + a * h
      BY <1>0, <1>1
    <3> QED BY <1>0, <1>4, <2>4, <3>1, <3>2
  <2>6. q = DayHours * k + h
    <3>1. DayHours * k + h \in Nat
      BY <1>0, <1>1
    <3> QED BY <1>0, <2>4, <2>5, <3>1, OneQuotient DEF q
  <2>7. a * (DayHours * k + h) = a * (DayHours * k) + a * h
    BY <1>0, <1>1
  <2> QED BY <1>3, <1>4, <2>6, <2>7
<1>6. ASSUME HourOf(t) = d + a * h
      PROVE  d <= t /\ t < d + Day /\ HourOfDay(t) = h
  <2> DEFINE u == a * h + r
  <2>1. t = d + u
    BY <1>0, <1>2, <1>3, <1>4, <1>6
  <2>2. a * h + a <= Day
    <3>1. a * (h + 1) <= a * DayHours
      BY <1>0, ProductGrows
    <3>2. a * (h + 1) = a * h + a
      BY <1>0
    <3> QED BY <1>0, <3>1, <3>2
  <2>3. u \in 0 .. Day - 1
    BY <1>0, <1>2, <1>4, <2>2
  <2>4. u \div a = h
    BY <1>0, <1>2, <2>3, OneQuotient
  <2>5. t % Day = u
    <3>1. Day \in Nat \ {0} /\ k \in Nat /\ t = Day * k + u
      BY <1>0, <1>1, <2>1
    <3> HIDE DEF u
    <3> QED BY <2>3, <3>1, OneQuotient
  <2> HIDE DEF u
  <2>6. HourOfDay(t) = h
    BY <2>4, <2>5 DEF HourOfDay, a
  <2> QED BY <1>0, <2>1, <2>3, <2>6
<1> QED BY <1>5, <1>6 DEF a

(* Where an hour and a day begin.                                          *)
LEMMA HourBegins ==
  ASSUME NEW n \in Nat, NEW r \in 0 .. HourSlots - 1
  PROVE  HourSlots * n \in Nat /\ HourOf(HourSlots * n + r) = HourSlots * n
<1>1. HourSlots \in Nat \ {0}
  BY SlotTypes
<1>2. HourSlots * n \in Nat
  BY <1>1
<1> DEFINE m == HourSlots * n
           t == m + r
<1>3. t \in Nat /\ t = HourSlots * n + r
  BY <1>1, <1>2
<1>4. t % HourSlots = r
  BY <1>1, <1>3, OneQuotient
<1> QED BY <1>1, <1>2, <1>4 DEF HourOf

LEMMA HourTypes ==
  ASSUME NEW t \in Nat
  PROVE  /\ HourOf(t) \in Nat /\ HourOf(t) <= t
         /\ HourOf(HourOf(t)) = HourOf(t)
         /\ \E n \in Nat : HourOf(t) = HourSlots * n
<1> DEFINE n == t \div HourSlots
           r == t % HourSlots
<1>1. HourSlots \in Nat \ {0}
  BY SlotTypes
<1>2. n \in Nat /\ r \in 0 .. HourSlots - 1 /\ t = HourSlots * n + r
  BY <1>1, Division
<1> HIDE DEF n, r
<1>3. HourSlots * n \in Nat /\ HourOf(t) = HourSlots * n
  BY <1>2, HourBegins
<1>4. HourOf(HourSlots * n + 0) = HourSlots * n
  <2>1. 0 \in 0 .. HourSlots - 1
    BY <1>1
  <2> QED BY <1>2, <2>1, HourBegins
<1> QED BY <1>1, <1>2, <1>3, <1>4

LEMMA DayTypes ==
  ASSUME NEW t \in Nat
  PROVE  /\ DayOf(t) \in Nat /\ DayOf(t) <= t /\ t < DayOf(t) + Day
         /\ DayOf(t) % Day = 0
         /\ DayOf(DayOf(t)) = DayOf(t)
<1> DEFINE n == t \div Day
           r == t % Day
           d == Day * n
<1>1. Day \in Nat \ {0}
  BY SlotTypes
<1>2. n \in Nat /\ r \in 0 .. Day - 1 /\ t = Day * n + r
  BY <1>1, Division
<1>3. DayOf(t) = t - r
  BY DEF DayOf
<1> HIDE DEF n, r
<1>4. d \in Nat /\ d = Day * n + 0 /\ 0 \in 0 .. Day - 1
  BY <1>1, <1>2
<1>5. d % Day = 0
  BY <1>1, <1>2, <1>4, OneQuotient
<1>6. DayOf(t) = d
  BY <1>1, <1>2, <1>3, <1>4
<1>7. DayOf(d) = d
  BY <1>4, <1>5 DEF DayOf
<1> HIDE DEF d
<1>8. t = d + r
  BY <1>2 DEF d
<1> QED BY <1>1, <1>2, <1>4, <1>5, <1>6, <1>7, <1>8

(* An hour of a day that begins at d, by its number.                       *)
LEMMA HourInDay ==
  ASSUME NEW d \in Nat, d % Day = 0, NEW h \in Hours
  PROVE  /\ HourSlots * h \in Nat
         /\ HourOf(d + HourSlots * h) = d + HourSlots * h
         /\ HourOfDay(d + HourSlots * h) = h
         /\ d + HourSlots * h < d + Day
<1> DEFINE k == d \div Day
           n == DayHours * k + h
<1>1. Day \in Nat \ {0} /\ HourSlots \in Nat \ {0} /\ DayHours \in Nat \ {0} /\ h \in Nat
  BY SlotTypes
<1>2. k \in Nat /\ d = Day * k + (d % Day)
  BY <1>1, Division
<1> HIDE DEF k
<1>3. d = Day * k
  <2>1. Day * k \in Int
    BY <1>1, <1>2
  <2> QED BY <1>2, <2>1
<1>4. n \in Nat /\ HourSlots * n = HourSlots * (DayHours * k) + HourSlots * h
  BY <1>1, <1>2
<1>5. d = HourSlots * (DayHours * k)
  BY <1>1, <1>2, <1>3, SlotTypes
<1>6. HourSlots * h \in Nat
  BY <1>1
<1> HIDE DEF n
<1>7. HourOf(HourSlots * n + 0) = HourSlots * n /\ HourSlots * n \in Nat
  <2>1. 0 \in 0 .. HourSlots - 1 /\ n \in Nat
    BY <1>1, <1>4
  <2> QED BY <2>1, HourBegins
<1>8. HourSlots * n = d + HourSlots * h
  BY <1>4, <1>5
<1>9. HourOf(d + HourSlots * h) = d + HourSlots * h
  BY <1>7, <1>8
<1>10. d + HourSlots * h \in Nat
  BY <1>6
<1> QED BY <1>6, <1>9, <1>10, HoursOfDay

(* The beginning of the next day is in its first hour.                     *)
LEMMA NextDay ==
  ASSUME NEW d \in Nat, d % Day = 0
  PROVE  d + Day \in Nat /\ (d + Day) % Day = 0 /\ HourOfDay(d + Day) = 0 /\ 0 \in Hours
<1> DEFINE k == d \div Day
<1>1. Day \in Nat \ {0} /\ DayHours \in Nat \ {0}
  BY SlotTypes
<1>2. k \in Nat /\ d = Day * k + (d % Day)
  BY <1>1, Division
<1> HIDE DEF k
<1>3. d + Day = Day * (k + 1) + 0 /\ k + 1 \in Nat /\ 0 \in 0 .. Day - 1 /\ d + Day \in Nat
  <2>1. Day * k \in Int /\ Day * (k + 1) = Day * k + Day
    BY <1>1, <1>2
  <2> QED BY <1>1, <1>2, <2>1
<1>4. (d + Day) % Day = 0
  BY <1>1, <1>3, OneQuotient
<1>5. 0 \in Hours
  BY <1>1 DEF Hours
<1>6. HourOfDay((d + Day) + HourSlots * 0) = 0
  BY <1>3, <1>4, <1>5, HourInDay
<1>7. (d + Day) + HourSlots * 0 = d + Day
  BY <1>3, SlotTypes
<1> QED BY <1>3, <1>4, <1>5, <1>6, <1>7

----------------------------------------------------------------------------
(* A bag with one more.                                                    *)

LEMMA BagGrows ==
  ASSUME NEW B, IsABag(B), NEW r
  PROVE  LET C == B (+) SetToBag({r})
         IN  /\ IsABag(C) /\ BagToSet(C) = BagToSet(B) \cup {r}
             /\ \A e \in BagToSet(B) : C[e] \in Nat /\ B[e] \in Nat /\ B[e] <= C[e]
             /\ \A e \in BagToSet(B) \ {r} : C[e] = B[e]
             /\ C[r] = (IF r \in BagToSet(B) THEN B[r] ELSE 0) + 1
BY DEF IsABag, BagToSet, SetToBag, (+)

LEMMA SumGrows ==
  ASSUME NEW B, IsABag(B), IsFiniteSet(BagToSet(B)), NEW r,
         NEW S \in SUBSET (BagToSet(B) \cup {r})
  PROVE  SumOver(B (+) SetToBag({r}), S)
            = SumOver(B, S \cap BagToSet(B)) + (IF r \in S THEN 1 ELSE 0)
<1> DEFINE C == B (+) SetToBag({r})
           R == S \ {r}
<1>1. /\ IsABag(C) /\ BagToSet(C) = BagToSet(B) \cup {r}
      /\ \A e \in BagToSet(B) \ {r} : C[e] = B[e]
      /\ C[r] = (IF r \in BagToSet(B) THEN B[r] ELSE 0) + 1
  BY BagGrows
<1>2. (\A e \in BagToSet(B) : B[e] \in Nat) /\ (\A e \in BagToSet(C) : C[e] \in Nat)
  BY <1>1 DEF IsABag, BagToSet
<1> HIDE DEF C
<1>3. IsFiniteSet(BagToSet(C))
  BY <1>1, FS_AddElement
<1>4. IsCount(B, BagToSet(B)) /\ IsCount(C, BagToSet(C))
  BY <1>2, <1>3 DEF IsCount
<1>5. IsCount(B, R) /\ IsCount(C, R) /\ IsCount(C, S) /\ IsCount(B, S \cap BagToSet(B))
  BY <1>1, <1>4, CountedPart
<1>6. SumOver(C, R) = SumOver(B, R)
  BY <1>1, <1>5, SumOfSame
<1>7. CASE r \notin S
  <2>1. R = S /\ S \cap BagToSet(B) = S
    BY <1>7
  <2> QED BY <1>5, <1>6, <1>7, <2>1, SumIsNat DEF C
<1>8. CASE r \in S
  <2>1. SumOver(C, S) = C[r] + SumOver(C, R)
    BY <1>5, <1>8, SumTakes
  <2>2. CASE r \in BagToSet(B)
    <3>1. (S \cap BagToSet(B)) \ {r} = R
      BY <2>2
    <3>2. SumOver(B, S \cap BagToSet(B)) = B[r] + SumOver(B, R)
      BY <1>5, <1>8, <2>2, <3>1, SumTakes
    <3>3. B[r] \in Nat /\ SumOver(B, R) \in Nat
      BY <1>2, <1>5, <2>2, SumIsNat
    <3> QED BY <1>1, <1>6, <1>8, <2>1, <2>2, <3>2, <3>3 DEF C
  <2>3. CASE r \notin BagToSet(B)
    <3>1. S \cap BagToSet(B) = R
      BY <2>3
    <3>2. SumOver(B, R) \in Nat
      BY <1>5, SumIsNat
    <3> QED BY <1>1, <1>6, <1>8, <2>1, <2>3, <3>1, <3>2 DEF C
  <2> QED BY <2>2, <2>3
<1> QED BY <1>7, <1>8

----------------------------------------------------------------------------
(* The tables.                                                             *)

TablesInv ==
    /\ now \in Slots
    /\ IsABag(rows) /\ BagToSet(rows) \subseteq Row /\ IsFiniteSet(BagToSet(rows))
    /\ IsABag(buckets) /\ BagToSet(buckets) \subseteq Bucket /\ IsFiniteSet(BagToSet(buckets))
    /\ BucketsInv

(* What may be counted of a bag of a finite set.                           *)
LEMMA BagCounts ==
  ASSUME NEW B, IsABag(B), IsFiniteSet(BagToSet(B)), NEW S \in SUBSET BagToSet(B)
  PROVE  IsCount(B, S)
<1>1. IsCount(B, BagToSet(B))
  BY DEF IsCount, IsABag, BagToSet
<1> QED BY <1>1, CountedPart

LEMMA TablesBegin == ReportsInit => TablesInv
<1> SUFFICES ASSUME ReportsInit PROVE TablesInv
  OBVIOUS
<1>1. BagToSet(EmptyBag) = {} /\ IsABag(EmptyBag)
  BY DEF BagToSet, EmptyBag, SetToBag, IsABag
<1> QED BY <1>1, SlotTypes, FS_EmptySet DEF ReportsInit, TablesInv, BucketsInv, Slots

(* A row is added, and where it is rolled up its bucket grows by it.       *)
RowAdded(r) ==
    /\ r \in Row /\ r.at <= now
    /\ r.rolled => ~r.demo
    /\ rows' = rows (+) SetToBag({r})
    /\ buckets' = IF r.rolled THEN buckets (+) SetToBag({BucketOf(r)}) ELSE buckets
    /\ now' = now /\ request' = request

LEMMA TableSteps ==
  ASSUME TablesInv, ReportsNext
  PROVE  \/ \E r : RowAdded(r)
         \/ Tick
         \/ UNCHANGED <<now, rows, buckets>>
<1>1. ASSUME NEW l \in Lanes, NEW at \in Slots, Store(l, at)
      PROVE  RowAdded([lane |-> l, at |-> at, demo |-> FALSE, rolled |-> TRUE])
  BY <1>1, SlotTypes DEF Store, Insert, Upsert, RowAdded, Row, Times, BucketOf, TablesInv
<1>2. ASSUME NEW l \in Lanes, NEW at \in Slots, StoreStale(l, at)
      PROVE  RowAdded([lane |-> l, at |-> at, demo |-> FALSE, rolled |-> FALSE])
  BY <1>2, SlotTypes DEF StoreStale, Insert, RowAdded, Row, Times, TablesInv
<1>3. ASSUME NEW l \in Lanes, NEW at \in Slots, Seed(l, at)
      PROVE  RowAdded([lane |-> l, at |-> at, demo |-> TRUE, rolled |-> FALSE])
  BY <1>3, SlotTypes DEF Seed, Insert, RowAdded, Row, TablesInv
<1>4. ASSUME NEW cam, NEW since, NEW until, Ask(cam, since, until)
      PROVE  UNCHANGED <<now, rows, buckets>>
  BY <1>4 DEF Ask
<1>5. ReadLanes \/ ReadTotal \/ ReadWays \/ ReadLast \/ Answer => UNCHANGED <<now, rows, buckets>>
  BY DEF ReadLanes, ReadTotal, ReadWays, ReadLast, Answer, Query
<1> QED BY <1>1, <1>2, <1>3, <1>4, <1>5 DEF ReportsNext

LEMMA RowAddedKeepsTables ==
  ASSUME TablesInv, NEW r, RowAdded(r)
  PROVE  TablesInv'
<1> DEFINE k == BucketOf(r)
<1>0. r.at \in Nat /\ k \in Bucket
  <2>1. r.at \in Slots /\ r.lane \in Lanes
    BY DEF RowAdded, Row
  <2>2. HourOf(r.at) \in Nat /\ HourOf(r.at) <= r.at
    BY <2>1, SlotTypes, HourTypes
  <2> QED BY <2>1, <2>2, SlotTypes DEF BucketOf, Bucket, Slots
<1>1. /\ IsABag(rows') /\ BagToSet(rows') = BagToSet(rows) \cup {r}
  BY BagGrows DEF RowAdded, TablesInv
<1>2. IsFiniteSet(BagToSet(rows')) /\ BagToSet(rows') \subseteq Row
  <2>1. IsFiniteSet(BagToSet(rows)) /\ BagToSet(rows) \subseteq Row /\ r \in Row
    BY DEF RowAdded, TablesInv
  <2> QED BY <1>1, <2>1, FS_AddElement
<1>3. r.rolled => /\ IsABag(buckets') /\ BagToSet(buckets') = BagToSet(buckets) \cup {k}
                  /\ \A b \in BagToSet(buckets) \ {k} : buckets'[b] = buckets[b]
                  /\ buckets'[k] = (IF k \in BagToSet(buckets) THEN buckets[k] ELSE 0) + 1
  <2> SUFFICES ASSUME r.rolled
               PROVE  /\ IsABag(buckets') /\ BagToSet(buckets') = BagToSet(buckets) \cup {k}
                      /\ \A b \in BagToSet(buckets) \ {k} : buckets'[b] = buckets[b]
                      /\ buckets'[k] = (IF k \in BagToSet(buckets) THEN buckets[k] ELSE 0) + 1
    OBVIOUS
  <2>1. buckets' = buckets (+) SetToBag({k}) /\ IsABag(buckets)
    BY DEF RowAdded, TablesInv
  <2> HIDE DEF k
  <2> DEFINE C == buckets (+) SetToBag({k})
  <2>2. /\ IsABag(C) /\ BagToSet(C) = BagToSet(buckets) \cup {k}
        /\ \A e \in BagToSet(buckets) \ {k} : C[e] = buckets[e]
        /\ C[k] = (IF k \in BagToSet(buckets) THEN buckets[k] ELSE 0) + 1
    BY <2>1, BagGrows
  <2> HIDE DEF C
  <2>3. buckets' = C
    BY <2>1 DEF C
  <2> QED BY <2>2, <2>3
<1>4. ~r.rolled => buckets' = buckets
  BY DEF RowAdded
<1>5. IsABag(buckets') /\ IsFiniteSet(BagToSet(buckets')) /\ BagToSet(buckets') \subseteq Bucket
  BY <1>0, <1>3, <1>4, FS_AddElement DEF TablesInv
<1>6. \A b : RowsOf(b)' = RowsOf(b) \cup (IF r.rolled /\ k = b THEN {r} ELSE {})
  BY <1>1 DEF RowsOf, BucketOf
<1>7. ASSUME NEW b
      PROVE  Count(RowsOf(b))' = SumOver(rows, RowsOf(b)' \cap BagToSet(rows))
                                 + (IF r \in RowsOf(b)' THEN 1 ELSE 0)
  <2>1. RowsOf(b)' \in SUBSET (BagToSet(rows) \cup {r})
    BY <1>1 DEF RowsOf
  <2>2. IsABag(rows) /\ IsFiniteSet(BagToSet(rows)) /\ rows' = rows (+) SetToBag({r})
    BY DEF TablesInv, RowAdded
  <2> QED BY <2>1, <2>2, SumGrows DEF Count
<1>8. ASSUME NEW b
      PROVE  /\ RowsOf(b)' \cap BagToSet(rows) = RowsOf(b)
             /\ r \in RowsOf(b)' <=> r.rolled /\ k = b
  BY <1>1 DEF RowsOf, BucketOf
<1>9. ASSUME NEW b
      PROVE  /\ Count(RowsOf(b))' = Count(RowsOf(b)) + (IF r.rolled /\ k = b THEN 1 ELSE 0)
             /\ Count(RowsOf(b)) \in Nat
  <2>1. RowsOf(b) \in SUBSET BagToSet(rows)
    BY DEF RowsOf
  <2>2. Count(RowsOf(b)) \in Nat
    BY <2>1, BagCounts, SumIsNat DEF Count, TablesInv
  <2> QED BY <1>7, <1>8, <2>2 DEF Count
<1>10. ASSUME NEW b \in BagToSet(buckets')
       PROVE  buckets'[b] = Count(RowsOf(b))'
  <2>1. CASE b \in BagToSet(buckets)
    <3>1. buckets[b] = Count(RowsOf(b))
      BY <2>1 DEF TablesInv, BucketsInv
    <3> QED BY <1>3, <1>4, <1>9, <2>1, <3>1
  <2>2. CASE b \notin BagToSet(buckets)
    <3>1. r.rolled /\ b = k
      BY <1>3, <1>4, <1>10, <2>2
    <3>2. RowsOf(b) = {}
      BY <2>2 DEF RowsOf, TablesInv, BucketsInv
    <3>3. Count(RowsOf(b)) = 0
      BY <3>2, SumEmpty DEF Count
    <3> QED BY <1>3, <1>9, <2>2, <3>1, <3>3
  <2> QED BY <2>1, <2>2
<1>11. ASSUME NEW q \in BagToSet(rows')
       PROVE  q.at <= now' /\ (q.rolled => ~q.demo /\ BucketOf(q) \in BagToSet(buckets'))
  BY <1>1, <1>3, <1>4 DEF RowAdded, TablesInv, BucketsInv
<1>12. BucketsInv'
  BY <1>10, <1>11 DEF BucketsInv, BucketOf
<1>13. now' \in Slots
  BY DEF TablesInv, RowAdded
<1> QED BY <1>1, <1>2, <1>5, <1>12, <1>13 DEF TablesInv

LEMMA TablesStep ==
  ASSUME TablesInv, [ReportsNext]_reportVars
  PROVE  TablesInv'
<1>1. ASSUME UNCHANGED <<now, rows, buckets>>
      PROVE  TablesInv'
  BY <1>1 DEF TablesInv, BucketsInv, RowsOf, Count, BucketOf
<1>2. ASSUME Tick
      PROVE  TablesInv'
  <2>1. now' \in Slots /\ now <= now' /\ now \in Nat /\ rows' = rows /\ buckets' = buckets
    BY <1>2, SlotTypes DEF Tick, TablesInv, Slots
  <2>2. \A r \in BagToSet(rows) : r.at \in Nat
    BY SlotTypes DEF TablesInv, Row
  <2>3. BucketsInv'
    <3>1. /\ \A b \in BagToSet(buckets) : buckets[b] = Count(RowsOf(b))
          /\ \A r \in BagToSet(rows) : r.at <= now
          /\ \A r \in BagToSet(rows) : r.rolled => ~r.demo /\ BucketOf(r) \in BagToSet(buckets)
      BY DEF TablesInv, BucketsInv
    <3>2. \A r \in BagToSet(rows) : r.at <= now'
      BY <2>1, <2>2, <3>1, SlotTypes
    <3>3. \A b : Count(RowsOf(b))' = Count(RowsOf(b))
      BY <2>1 DEF Count, RowsOf, BucketOf
    <3> QED BY <2>1, <3>1, <3>2, <3>3 DEF BucketsInv, BucketOf
  <2> QED BY <2>1, <2>3 DEF TablesInv
<1> QED BY <1>1, <1>2, TableSteps, RowAddedKeepsTables DEF reportVars

----------------------------------------------------------------------------
(* The breakdowns by hour.                                                 *)

(* The rows of some buckets.                                               *)
RowsIn(B) == {r \in BagToSet(rows) : r.rolled /\ BucketOf(r) \in B}

LEMMA RowTypes ==
  ASSUME TablesInv, NEW r \in BagToSet(rows)
  PROVE  /\ r.at \in Nat /\ r.lane \in Lanes /\ r.lane.camera \in Cameras /\ r.at <= now
         /\ r.demo \in BOOLEAN /\ r.rolled \in BOOLEAN
         /\ HourOf(r.at) \in Nat /\ HourOf(HourOf(r.at)) = HourOf(r.at)
         /\ now \in Nat
<1>1. r \in Row /\ now \in Nat /\ r.at <= now
  BY SlotTypes DEF TablesInv, BucketsInv
<1>2. r.at \in Nat /\ r.lane \in Lanes /\ r.demo \in BOOLEAN /\ r.rolled \in BOOLEAN
  BY <1>1, SlotTypes DEF Row
<1>3. r.lane.camera \in Cameras
  BY <1>2 DEF Cameras
<1>4. HourOf(r.at) \in Nat /\ HourOf(HourOf(r.at)) = HourOf(r.at)
  BY <1>2, HourTypes
<1> QED BY <1>1, <1>2, <1>3, <1>4

LEMMA CountTypes ==
  ASSUME TablesInv, NEW R \in SUBSET BagToSet(rows)
  PROVE  IsCount(rows, R) /\ Count(R) \in Nat
<1>1. IsCount(rows, R)
  BY BagCounts DEF TablesInv
<1> QED BY <1>1, SumIsNat DEF Count

LEMMA SumTypes ==
  ASSUME TablesInv, NEW B \in SUBSET BagToSet(buckets)
  PROVE  IsCount(buckets, B) /\ Sum(B) \in Nat
<1>1. IsCount(buckets, B)
  BY BagCounts DEF TablesInv
<1> QED BY <1>1, SumIsNat DEF Sum

(* Some buckets add up to their rows.                                      *)
LEMMA BucketsCountRows ==
  ASSUME TablesInv, NEW B \in SUBSET BagToSet(buckets)
  PROVE  Sum(B) = Count(RowsIn(B))
<1> DEFINE P == [b \in B |-> RowsOf(b)]
<1>1. P \in [B -> SUBSET BagToSet(rows)]
  BY DEF RowsOf
<1>2. \A j, k \in B : j # k => P[j] \cap P[k] = {}
  BY DEF RowsOf
<1>3. \A b \in B : buckets[b] = SumOver(rows, P[b])
  BY DEF TablesInv, BucketsInv, Count
<1>4. IsFiniteSet(B) /\ IsCount(rows, BagToSet(rows))
  BY SumTypes, CountTypes DEF IsCount
<1>5. RowsIn(B) = UNION {P[b] : b \in B}
  BY DEF RowsIn, RowsOf
<1> HIDE DEF P
<1>6. SumOver(buckets, B) = SumOver(rows, UNION {P[b] : b \in B})
  BY <1>1, <1>2, <1>3, <1>4, SumOfSums
<1> QED BY <1>5, <1>6 DEF Sum, Count

(* What the row limit leaves of a series.                                  *)
LEMMA NewestOfSeries ==
  ASSUME NEW S, IsFiniteSet(S), NEW T \in Newest(S)
  PROVE  /\ T \subseteq S
         /\ T = {} <=> S = {}
         /\ Cardinality(S) <= RowLimit => T = S
<1> DEFINE m == Min({RowLimit, Cardinality(S)})
<1>1. T \in SUBSET S /\ Cardinality(T) = m
  BY DEF Newest
<1>2. RowLimit \in Nat \ {0} /\ Cardinality(S) \in Nat
  BY SlotTypes, FS_CardinalityType
<1>3. m = IF Cardinality(S) <= RowLimit THEN Cardinality(S) ELSE RowLimit
  <2> DEFINE X == {RowLimit, Cardinality(S)}
             y == IF Cardinality(S) <= RowLimit THEN Cardinality(S) ELSE RowLimit
  <2>1. y \in X /\ \A x \in X : y <= x
    BY <1>2
  <2>2. \A z \in X : (\A x \in X : z <= x) => z = y
    BY <1>2
  <2> QED BY <2>1, <2>2 DEF Min
<1>4. IsFiniteSet(T)
  BY <1>1, FS_Subset
<1>5. Cardinality(T) = Cardinality(S) => T = S
  BY <1>1, FS_Subset
<1>6. (T = {} <=> Cardinality(T) = 0) /\ (S = {} <=> Cardinality(S) = 0)
  BY <1>4, FS_EmptySet
<1> HIDE DEF m
<1> QED BY <1>1, <1>2, <1>3, <1>5, <1>6

(* dashboard_hourly against the rows.                                      *)
LEMMA DaysCountRows ==
  ASSUME TablesInv, NEW cams, NEW d \in Nat, d % Day = 0
  PROVE  DayCountsRows(cams, d)
<1> DEFINE series == BucketsIn(cams, {d}, {d + Day})
<1> DEFINE hours(T) == IF T = {} THEN HourlyFromEvents(cams, d, d + Day)
                       ELSE [i \in Hours |-> Sum({b \in T : HourOfDay(b.hour) = i})]
           hour(i)   == d + HourSlots * i
           rolled(i) == Count(Rolled(cams, hour(i)))
                        + (IF i = 0 THEN Count(Rolled(cams, d + Day)) ELSE 0)
<1>0. SUFFICES ASSUME NEW T \in Newest(series), NEW h \in Hours
               PROVE  IF series = {} THEN hours(T)[h] = Count(Raw(cams, hour(h)))
                      ELSE /\ hours(T)[h] <= rolled(h)
                           /\ Cardinality(series) <= RowLimit => hours(T)[h] = rolled(h)
  <2>1. HourlyBuckets(cams, d) = {hours(T) : T \in Newest(series)}
    BY DEF HourlyBuckets, CountsTimeseries
  <2>2. ASSUME NEW f \in HourlyBuckets(cams, d), NEW h \in Hours
        PROVE  IF series = {} THEN f[h] = Count(Raw(cams, hour(h)))
               ELSE f[h] <= rolled(h) /\ (Cardinality(series) <= RowLimit => f[h] = rolled(h))
    <3> HIDE DEF hours, hour, rolled, series
    <3>1. PICK T \in Newest(series) : f = hours(T)
      BY <2>1
    <3> QED BY <1>0, <3>1
  <2> QED BY <2>2 DEF DayCountsRows
<1>2. Day \in Nat \ {0} /\ d + Day \in Nat /\ hour(h) \in Nat
  BY SlotTypes, HourInDay
<1>3. series \in SUBSET BagToSet(buckets) /\ IsFiniteSet(series)
  BY FS_Subset DEF BucketsIn, TablesInv
<1>4. T \subseteq series /\ (T = {} <=> series = {}) /\ (Cardinality(series) <= RowLimit => T = series)
  <2> HIDE DEF series
  <2> QED BY <1>3, NewestOfSeries
<1>5. ASSUME NEW r \in BagToSet(rows)
      PROVE  (d <= r.at /\ r.at < d + Day /\ HourOfDay(r.at) = h) <=> HourOf(r.at) = hour(h)
  BY RowTypes, HoursOfDay
<1>6. CASE series = {}
  <2>1. {r \in Real(cams) : d <= r.at /\ r.at < d + Day /\ HourOfDay(r.at) = h} = Raw(cams, hour(h))
    BY <1>5 DEF Real, Raw
  <2>2. HourlyFromEvents(cams, d, d + Day)[h] = Count(Raw(cams, hour(h)))
    BY <2>1 DEF HourlyFromEvents
  <2> QED BY <1>4, <1>6, <2>2
<1>7. CASE series # {}
  <2> DEFINE B == {b \in T : HourOfDay(b.hour) = h}
             Q == Rolled(cams, hour(h))
             R == IF h = 0 THEN Rolled(cams, d + Day) ELSE {}
  <2>1. B \in SUBSET BagToSet(buckets)
    BY <1>3, <1>4
  <2>2. Q \in SUBSET BagToSet(rows) /\ R \in SUBSET BagToSet(rows) /\ Q \cap R = {}
    BY <1>2, SlotTypes DEF Rolled
  <2>3. Count(Q \cup R) = Count(Q) + (IF h = 0 THEN Count(Rolled(cams, d + Day)) ELSE 0)
    <3>1. IsCount(rows, Q) /\ IsCount(rows, R) /\ Count(Q) \in Nat
      BY <2>2, CountTypes
    <3> HIDE DEF Q, R
    <3>2. Count(Q \cup R) = Count(Q) + Count(R)
      BY <2>2, <3>1, SumOfUnion DEF Count
    <3>3. Count({}) = 0
      BY SumEmpty DEF Count
    <3> QED BY <3>1, <3>2, <3>3 DEF R
  <2>4. ASSUME NEW r \in RowsIn(B)
        PROVE  r \in Q \cup R
    <3> DEFINE t == HourOf(r.at)
    <3>1. /\ r \in BagToSet(rows) /\ r.rolled /\ ~r.demo /\ t \in Nat /\ HourOf(t) = t
          /\ r.lane.camera \in cams /\ d <= t /\ t <= d + Day /\ HourOfDay(t) = h
      BY <1>3, <1>4, RowTypes DEF RowsIn, BucketOf, BucketsIn, Within, TablesInv, BucketsInv
    <3>2. CASE t < d + Day
      <4>1. t = hour(h)
        BY <3>1, <3>2, HoursOfDay
      <4> QED BY <3>1, <4>1 DEF Rolled
    <3>3. CASE t = d + Day
      <4>1. h = 0
        BY <3>1, <3>3, NextDay
      <4> QED BY <3>1, <3>3, <4>1 DEF Rolled
    <3> QED BY <1>2, <3>1, <3>2, <3>3
  <2>5. ASSUME T = series, NEW r \in Q \cup R
        PROVE  r \in RowsIn(B)
    <3> DEFINE t == HourOf(r.at)
    <3>1. /\ r \in BagToSet(rows) /\ r.rolled /\ r.lane.camera \in cams
          /\ t = hour(h) \/ (h = 0 /\ t = d + Day)
      BY <2>5 DEF Rolled
    <3>2. d <= t /\ t <= d + Day /\ HourOfDay(t) = h
      BY <1>2, <3>1, HourInDay, NextDay, SlotTypes
    <3>3. BucketOf(r) \in BagToSet(buckets)
      BY <3>1 DEF TablesInv, BucketsInv
    <3>4. BucketOf(r).lane = r.lane /\ BucketOf(r).hour = t
      BY DEF BucketOf
    <3> HIDE DEF t
    <3>5. BucketOf(r) \in series
      BY <3>1, <3>2, <3>3, <3>4 DEF BucketsIn, Within
    <3> QED BY <2>5, <3>1, <3>2, <3>4, <3>5 DEF RowsIn
  <2>6. Sum(B) = Count(RowsIn(B))
    BY <2>1, BucketsCountRows
  <2>7. Q \cup R \in SUBSET BagToSet(rows) /\ RowsIn(B) \in SUBSET (Q \cup R)
    BY <2>2, <2>4
  <2> HIDE DEF B, Q, R
  <2>8. Count(RowsIn(B)) <= Count(Q \cup R)
    BY <2>7, CountTypes, SumOfPart DEF Count
  <2>9. T = series => RowsIn(B) = Q \cup R
    BY <2>5, <2>7
  <2>10. T # {}
    BY <1>4, <1>7
  <2> QED BY <1>4, <1>7, <2>3, <2>6, <2>8, <2>9, <2>10 DEF B, Q
<1> QED BY <1>6, <1>7

(* get_counts_timeseries of a camera from the present day's beginning.     *)
LEMMA SeriesHasRows ==
  ASSUME TablesInv, NEW cam
  PROVE  SeriesCountsRows(cam, DayOf(now))
<1> DEFINE since == DayOf(now)
           inBuckets == BucketsIn({cam}, {since}, {})
           byRow == HourlyFromEvents({cam}, since, now)
           chart(T) == IF T = {} THEN [h \in {since + HourSlots * i : i \in Hours} |-> byRow[HourOfDay(h)]]
                       ELSE [h \in {b.hour : b \in T} |-> Sum({b \in T : b.hour = h})]
           Right(f, h) == IF inBuckets = {} THEN f[h] = Count({r \in Raw({cam}, h) : r.at < now})
                          ELSE Cardinality(inBuckets) <= RowLimit => f[h] = Count(Rolled({cam}, h))
<1>1. /\ now \in Nat /\ since \in Nat /\ since <= now /\ now < since + Day
      /\ since % Day = 0 /\ DayOf(since) = since
  <2>1. now \in Nat
    BY SlotTypes DEF TablesInv
  <2> QED BY <2>1, DayTypes
<1>2. CountsSeries(cam, {since}, {}) = {chart(T) : T \in Newest(inBuckets)}
  <2>1. Max({since}) = since
    BY <1>1 DEF Max
  <2>2. Start({since}, now) = since
    BY <2>1 DEF Start
  <2> HIDE DEF since, chart
  <2>3. CountsSeries(cam, {since}, {}) = {Chart(cam, since, now, T) : T \in Newest(inBuckets)}
    BY <2>2 DEF CountsSeries, CountsTimeseries
  <2>4. \A T : Chart(cam, since, now, T) = chart(T)
    BY <1>1 DEF Chart, chart
  <2> QED BY <2>3, <2>4
<1>3. inBuckets \in SUBSET BagToSet(buckets) /\ IsFiniteSet(inBuckets)
  BY FS_Subset DEF BucketsIn, TablesInv
<1>4. ASSUME NEW T \in Newest(inBuckets), NEW h \in DOMAIN chart(T)
      PROVE  Right(chart(T), h)
  <2>1. T \subseteq inBuckets /\ (T = {} <=> inBuckets = {})
        /\ (Cardinality(inBuckets) <= RowLimit => T = inBuckets)
    <3> HIDE DEF inBuckets
    <3> QED BY <1>3, <1>4, NewestOfSeries
  <2>2. CASE inBuckets = {}
    <3>1. T = {}
      BY <2>1, <2>2
    <3>2. PICK i \in Hours : h = since + HourSlots * i
      BY <1>4, <3>1
    <3>3. HourOfDay(h) = i /\ chart(T)[h] = byRow[i]
      BY <1>1, <3>1, <3>2, HourInDay
    <3>4. ASSUME NEW r \in BagToSet(rows)
          PROVE  (since <= r.at /\ r.at < now /\ HourOfDay(r.at) = i)
                 <=> (HourOf(r.at) = h /\ r.at < now)
      <4>1. r.at \in Nat
        BY RowTypes
      <4>2. (since <= r.at /\ r.at < since + Day /\ HourOfDay(r.at) = i) <=> HourOf(r.at) = h
        BY <1>1, <3>2, <4>1, HoursOfDay
      <4>3. r.at < now => r.at < since + Day
        BY <1>1, <4>1, SlotTypes
      <4> HIDE DEF since
      <4> QED BY <4>2, <4>3
    <3>5. {r \in Real({cam}) : since <= r.at /\ r.at < now /\ HourOfDay(r.at) = i}
            = {r \in Raw({cam}, h) : r.at < now}
      BY <3>4 DEF Real, Raw
    <3>6. byRow[i] = Count({r \in Raw({cam}, h) : r.at < now})
      BY <3>5 DEF HourlyFromEvents
    <3> QED BY <2>2, <3>3, <3>6
  <2>3. CASE inBuckets # {} /\ Cardinality(inBuckets) <= RowLimit
    <3> DEFINE B == {b \in inBuckets : b.hour = h}
    <3>1. T = inBuckets /\ T # {}
      BY <2>1, <2>3
    <3>2. h \in {b.hour : b \in inBuckets} /\ chart(T)[h] = Sum(B)
      BY <1>4, <3>1
    <3>3. PICK b0 \in inBuckets : h = b0.hour
      BY <3>2
    <3>4. Within(h, {since}, {})
      BY <3>3 DEF BucketsIn
    <3>5. B \in SUBSET BagToSet(buckets)
      BY <1>3
    <3>6. RowsIn(B) = Rolled({cam}, h)
      <4>1. ASSUME NEW r \in RowsIn(B) PROVE r \in Rolled({cam}, h)
        BY DEF RowsIn, BucketsIn, BucketOf, Rolled, TablesInv, BucketsInv
      <4>2. ASSUME NEW r \in Rolled({cam}, h) PROVE r \in RowsIn(B)
        <5>1. r \in BagToSet(rows) /\ r.rolled /\ BucketOf(r) \in BagToSet(buckets)
          BY DEF Rolled, TablesInv, BucketsInv
        <5>2. BucketOf(r).lane.camera = cam /\ BucketOf(r).hour = h
          BY DEF Rolled, BucketOf
        <5> HIDE DEF since
        <5> QED BY <3>4, <5>1, <5>2 DEF RowsIn, BucketsIn
      <4> QED BY <4>1, <4>2
    <3>7. Sum(B) = Count(Rolled({cam}, h))
      BY <3>5, <3>6, BucketsCountRows
    <3> QED BY <2>3, <3>2, <3>7
  <2> QED BY <2>2, <2>3
<1>5. ASSUME NEW f \in CountsSeries(cam, {since}, {}), NEW h \in DOMAIN f
      PROVE  Right(f, h)
  <2> HIDE DEF chart, Right, inBuckets, since
  <2>1. PICK T \in Newest(inBuckets) : f = chart(T)
    BY <1>2
  <2> QED BY <1>4, <2>1
<1> QED BY <1>5 DEF SeriesCountsRows

LEMMA TablesGiveHours == TablesInv => HourlyCountsRows
<1> SUFFICES ASSUME TablesInv PROVE HourlyCountsRows
  OBVIOUS
<1>1. ASSUME NEW cams, NEW d \in Days
      PROVE  DayCountsRows(cams, d)
  <2>1. d \in Nat /\ d % Day = 0
    BY SlotTypes DEF Days, TablesInv
  <2> QED BY <2>1, DaysCountRows
<1> QED BY <1>1, SeriesHasRows DEF HourlyCountsRows

----------------------------------------------------------------------------
(* The dashboard's figures.                                                *)

(* What is stored of the cameras adds up to the crossings of the last day. *)
LEMMA FleetCountsRows ==
  ASSUME TablesInv
  PROVE  /\ IsCount(Stored(Cameras), Cameras)
         /\ Fleet(Stored(Cameras))
              = Count({r \in BagToSet(rows) : ~r.demo /\ r.at >= now - Day})
<1> DEFINE P == [c \in Cameras |-> Counted(c, {}, {})]
           U == {r \in BagToSet(rows) : ~r.demo /\ r.at >= now - Day}
           all == Stored(Cameras)
<1>1. P \in [Cameras -> SUBSET BagToSet(rows)]
  BY DEF Counted, Real
<1>2. \A c, e \in Cameras : c # e => P[c] \cap P[e] = {}
  BY DEF Counted, Real
<1>3. \A c \in Cameras : all[c] = SumOver(rows, P[c])
  BY DEF Stored, CountsTotal, Count
<1>4. UNION {P[c] : c \in Cameras} = U
  BY RowTypes DEF Counted, Real, Within
<1>5. IsFiniteSet(Cameras) /\ IsCount(rows, BagToSet(rows)) /\ DOMAIN all = Cameras
  BY SlotTypes, CountTypes DEF Stored
<1>6. \A c \in Cameras : all[c] \in Nat
  BY <1>1, <1>3, CountTypes DEF Count
<1> HIDE DEF P, U, all
<1>7. SumOver(all, Cameras) = SumOver(rows, UNION {P[c] : c \in Cameras})
  BY <1>1, <1>2, <1>3, <1>5, SumOfSums
<1> QED BY <1>4, <1>5, <1>6, <1>7 DEF IsCount, Fleet, Count, U, all

(* What is stored of some cameras and of the others make up all of it.     *)
LEMMA FleetHasParts ==
  ASSUME TablesInv, NEW files \in SUBSET Cameras
  PROVE  /\ DOMAIN Stored(files) = files /\ IsCount(Stored(files), files)
         /\ Fleet(Stored(Cameras)) = Fleet(Stored(files)) + Fleet(Stored(Cameras \ files))
         /\ Fleet(Stored(files)) \in Nat /\ Fleet(Stored(Cameras \ files)) \in Nat
<1> DEFINE all == Stored(Cameras)
<1>1. IsCount(all, Cameras) /\ DOMAIN all = Cameras
  BY FleetCountsRows DEF Stored
<1>2. ASSUME NEW cams \in SUBSET Cameras
      PROVE  /\ DOMAIN Stored(cams) = cams /\ IsCount(Stored(cams), cams)
             /\ IsCount(all, cams) /\ Fleet(Stored(cams)) = SumOver(all, cams)
             /\ Fleet(Stored(cams)) \in Nat
  <2>1. DOMAIN Stored(cams) = cams /\ \A c \in cams : Stored(cams)[c] = all[c]
    BY DEF Stored
  <2> HIDE DEF all
  <2>2. IsCount(all, cams)
    BY <1>1, CountedPart
  <2>3. IsCount(Stored(cams), cams)
    BY <2>1, <2>2 DEF IsCount
  <2>4. SumOver(Stored(cams), cams) = SumOver(all, cams) /\ SumOver(all, cams) \in Nat
    BY <2>1, <2>2, <2>3, SumOfSame, SumIsNat
  <2> QED BY <2>1, <2>2, <2>3, <2>4 DEF Fleet
<1>3. /\ files \cup (Cameras \ files) = Cameras /\ files \cap (Cameras \ files) = {}
      /\ Cameras \ files \in SUBSET Cameras
  OBVIOUS
<1> HIDE DEF all
<1>4. SumOver(all, Cameras) = SumOver(all, files) + SumOver(all, Cameras \ files)
  <2>1. IsCount(all, files) /\ IsCount(all, Cameras \ files)
    BY <1>2, <1>3
  <2> QED BY <1>3, <2>1, SumOfUnion
<1>5. Fleet(Stored(Cameras)) = SumOver(all, Cameras)
  BY <1>1 DEF Fleet, all
<1> QED BY <1>2, <1>3, <1>4, <1>5

(* The hours of the present day hold no more than that.                    *)
LEMMA HoursWithinFleet ==
  ASSUME TablesInv, NEW f \in HourlyBuckets(Cameras, DayOf(now))
  PROVE  SumOver(f, Hours) <= Fleet(Stored(Cameras))
<1> DEFINE d == DayOf(now)
           U == {r \in BagToSet(rows) : ~r.demo /\ r.at >= now - Day}
<1>1. /\ now \in Nat /\ Day \in Nat /\ d \in Nat /\ now < d + Day /\ IsFiniteSet(Hours)
  <2>1. now \in Nat
    BY SlotTypes DEF TablesInv
  <2> QED BY <2>1, SlotTypes, DayTypes
<1>2. PICK T \in CountsTimeseries(Cameras, {d}, {d + Day}) :
        f = IF T = {} THEN HourlyFromEvents(Cameras, d, d + Day)
            ELSE [h \in Hours |-> Sum({b \in T : HourOfDay(b.hour) = h})]
  BY DEF HourlyBuckets
<1>3. T \subseteq BucketsIn(Cameras, {d}, {d + Day})
  BY <1>2 DEF CountsTimeseries, Newest
<1> HIDE DEF d
<1> DEFINE R(h) == IF T = {} THEN {r \in Real(Cameras) : /\ d <= r.at /\ r.at < d + Day
                                                         /\ HourOfDay(r.at) = h}
                   ELSE RowsIn({b \in T : HourOfDay(b.hour) = h})
           P == [h \in Hours |-> R(h)]
<1>4. ASSUME NEW h \in Hours
      PROVE  f[h] = Count(R(h))
  <2>1. CASE T = {}
    BY <1>2, <2>1 DEF HourlyFromEvents
  <2>2. CASE T # {}
    <3> DEFINE B == {b \in T : HourOfDay(b.hour) = h}
    <3>1. B \in SUBSET BagToSet(buckets)
      BY <1>3 DEF BucketsIn
    <3>2. Sum(B) = Count(RowsIn(B))
      BY <3>1, BucketsCountRows
    <3> QED BY <1>2, <2>2, <3>2
  <2> QED BY <2>1, <2>2
<1>5. ASSUME NEW h \in Hours, NEW r \in R(h)
      PROVE  r \in U
  <2>1. CASE T = {}
    BY <1>1, <2>1, <1>5, RowTypes DEF Real
  <2>2. CASE T # {}
    <3>1. r \in BagToSet(rows) /\ ~r.demo /\ HourOf(r.at) >= d
      BY <1>3, <1>5, <2>2 DEF RowsIn, BucketOf, BucketsIn, Within, TablesInv, BucketsInv
    <3>2. r.at \in Nat /\ HourOf(r.at) \in Nat /\ HourOf(r.at) <= r.at
      BY <3>1, RowTypes, HourTypes
    <3>3. r.at >= now - Day
      BY <1>1, <3>1, <3>2
    <3> QED BY <3>1, <3>3
  <2> QED BY <2>1, <2>2
<1>6. \A j, k \in Hours : j # k => P[j] \cap P[k] = {}
  BY DEF RowsIn
<1>7. U \in SUBSET BagToSet(rows)
  OBVIOUS
<1> HIDE DEF U, R
<1>8. P \in [Hours -> SUBSET U]
  BY <1>5
<1>9. \A h \in Hours : f[h] = SumOver(rows, P[h])
  BY <1>4 DEF Count
<1> HIDE DEF P
<1>10. IsCount(rows, U)
  BY <1>7, CountTypes
<1>11. SumOver(f, Hours) = SumOver(rows, UNION {P[h] : h \in Hours})
  BY <1>1, <1>6, <1>8, <1>9, <1>10, SumOfSums
<1>12. UNION {P[h] : h \in Hours} \in SUBSET U
  BY <1>8
<1>13. SumOver(f, Hours) <= Count(U)
  BY <1>10, <1>11, <1>12, SumOfPart DEF Count
<1> QED BY <1>13, FleetCountsRows DEF U

(* A sum of nothing but zeros.                                             *)
LEMMA SumOfZeros ==
  ASSUME NEW f, NEW S, IsFiniteSet(S), \A x \in S : f[x] = 0
  PROVE  SumOver(f, S) = 0
<1> DEFINE P == [x \in S |-> {}]
<1>1. P \in [S -> SUBSET {}] /\ UNION {P[x] : x \in S} = {}
  OBVIOUS
<1>2. IsCount(f, {}) /\ SumOver(f, {}) = 0
  BY SumEmpty, FS_EmptySet DEF IsCount
<1>3. \A x \in S : f[x] = SumOver(f, P[x])
  BY <1>2
<1>4. \A x, y \in S : x # y => P[x] \cap P[y] = {}
  OBVIOUS
<1> HIDE DEF P
<1>5. SumOver(f, S) = SumOver(f, UNION {P[x] : x \in S})
  BY <1>1, <1>2, <1>3, <1>4, SumOfSums
<1> QED BY <1>1, <1>2, <1>5

(* A camera whose pipeline is not on has no tracks and is not live.        *)
LEMMA PipelineTypes ==
  ASSUME NEW live \in Snapshots, NEW c \in Cameras
  PROVE  live[c].tracks \in Nat /\ (~live[c].on => live[c].tracks = 0 /\ ~live[c].live)
<1> DEFINE on  == [on : {TRUE}, live : BOOLEAN, tracks : {0, 1}]
           off == [on |-> FALSE, live |-> FALSE, tracks |-> 0]
<1>1. \A p \in on : p.on /\ p.tracks \in {0, 1}
  OBVIOUS
<1>2. off.tracks = 0 /\ ~off.live
  OBVIOUS
<1>3. live[c] \in on \cup {off}
  BY DEF Snapshots, Pipelines
<1> HIDE DEF on, off
<1> QED BY <1>1, <1>2, <1>3

(* The rows of the dashboard add up to its total.                          *)
LEMMA RowsAddUp ==
  ASSUME TablesInv, NEW files \in SUBSET Cameras, NEW live \in Snapshots,
         \/ files # {} /\ \A c \in files : live[c].live /\ live[c].tracks > 0
         \/ \A c \in Cameras : live[c].on => c \in files /\ ~live[c].live
  PROVE  DashboardTotal(live, Stored(files)) = Fleet(CameraRow(live, Stored(files)))
<1> DEFINE tracks == [c \in Cameras |-> live[c].tracks]
           kept   == Stored(files)
           shown  == CameraRow(live, kept)
           D      == files \cup {c \in Cameras : live[c].on}
<1>1. DOMAIN kept = files /\ IsCount(kept, files)
  BY FleetHasParts
<1>2. IsCount(tracks, Cameras) /\ DOMAIN tracks = Cameras
  BY PipelineTypes, SlotTypes DEF IsCount
<1> HIDE DEF kept
<1>3. /\ DOMAIN shown = D
      /\ \A c \in D : shown[c] = IF c \in files /\ ~(live[c].live /\ live[c].tracks > 0)
                                 THEN kept[c] ELSE tracks[c]
  BY <1>1 DEF CameraRow
<1>4. CASE \A c \in Cameras : live[c].on => c \in files /\ ~live[c].live
  <2>1. D = files /\ \A c \in Cameras : ~live[c].live
    BY <1>4, PipelineTypes
  <2>2. \A c \in files : kept[c] = shown[c]
    BY <1>3, <2>1
  <2>3. DashboardTotal(live, kept) = Fleet(kept)
    BY <2>1 DEF DashboardTotal
  <2> HIDE DEF shown, D
  <2> QED BY <1>1, <1>3, <2>1, <2>2, <2>3, SumOfSame DEF Fleet, kept, shown
<1>5. CASE files # {} /\ \A c \in files : live[c].live /\ live[c].tracks > 0
  <2>1. \A c \in D : tracks[c] = shown[c]
    BY <1>3, <1>5
  <2>2. /\ D \in SUBSET Cameras /\ Cameras \ D \in SUBSET Cameras
        /\ D \cup (Cameras \ D) = Cameras /\ D \cap (Cameras \ D) = {}
        /\ \A c \in Cameras \ D : tracks[c] = 0
    BY PipelineTypes
  <2>3. PICK c \in files : live[c].live /\ tracks[c] > 0
    BY <1>5
  <2>4. c \in Cameras
    OBVIOUS
  <2> HIDE DEF shown, D
  <2>5. Fleet(tracks) > 0
    <3> HIDE DEF tracks
    <3>1. SumOver(tracks, Cameras) = tracks[c] + SumOver(tracks, Cameras \ {c})
      BY <1>2, <2>4, SumTakes
    <3>2. tracks[c] \in Nat /\ SumOver(tracks, Cameras \ {c}) \in Nat
      BY <1>2, <2>4, CountedPart, SumIsNat DEF IsCount
    <3> QED BY <1>2, <2>3, <3>1, <3>2 DEF Fleet
  <2>6. DashboardTotal(live, kept) = Fleet(tracks)
    BY <2>3, <2>4, <2>5 DEF DashboardTotal
  <2> HIDE DEF tracks
  <2>7. IsCount(tracks, D) /\ IsCount(tracks, Cameras \ D) /\ IsFiniteSet(Cameras \ D)
    BY <1>2, <2>2, CountedPart DEF IsCount
  <2>8. SumOver(tracks, Cameras) = SumOver(tracks, D) + SumOver(tracks, Cameras \ D)
    BY <2>2, <2>7, SumOfUnion
  <2>9. SumOver(tracks, Cameras \ D) = 0 /\ SumOver(tracks, D) \in Nat
    BY <2>2, <2>7, SumOfZeros, SumIsNat
  <2>10. SumOver(tracks, D) = SumOver(shown, D)
    BY <2>1, <2>7, SumOfSame
  <2>11. Fleet(tracks) = Fleet(shown)
    BY <1>2, <1>3, <2>8, <2>9, <2>10 DEF Fleet
  <2> QED BY <2>6, <2>11 DEF shown, kept
<1> QED BY <1>4, <1>5

LEMMA TablesGiveFleet == TablesInv => FleetAddsUp
<1> SUFFICES ASSUME TablesInv PROVE FleetAddsUp
  OBVIOUS
<1>1. ASSUME NEW files \in SUBSET Cameras, NEW live \in Snapshots,
             \A c \in Cameras : ~live[c].live,
             NEW f \in HourlyBuckets(Cameras, DayOf(now))
      PROVE  SumOver(f, Hours)
               <= DashboardTotal(live, Stored(files)) + Fleet(Stored(Cameras \ files))
  <2>1. DashboardTotal(live, Stored(files)) = Fleet(Stored(files))
    BY <1>1 DEF DashboardTotal
  <2>2. SumOver(f, Hours) <= Fleet(Stored(Cameras))
    BY HoursWithinFleet
  <2>3. Fleet(Stored(Cameras)) = Fleet(Stored(files)) + Fleet(Stored(Cameras \ files))
    BY FleetHasParts
  <2> QED BY <2>1, <2>2, <2>3
<1>2. ASSUME NEW files \in SUBSET Cameras, NEW live \in Snapshots
      PROVE  \/ files # {} /\ \A c \in files : live[c].live /\ live[c].tracks > 0
             \/ \A c \in Cameras : live[c].on => c \in files /\ ~live[c].live
             => DashboardTotal(live, Stored(files)) = Fleet(CameraRow(live, Stored(files)))
  BY <1>2, RowsAddUp
<1> QED BY <1>1, <1>2 DEF FleetAddsUp

----------------------------------------------------------------------------
(* The summary of a camera.                                                *)

(* A table of rows, and one that has grown from another.                   *)
IsTable(B)  == IsABag(B) /\ BagToSet(B) \subseteq Row /\ IsFiniteSet(BagToSet(B))
Grows(B, C) == BagToSet(B) \subseteq BagToSet(C) /\ \A r \in BagToSet(B) : B[r] <= C[r]

LEMMA TablesGrow ==
  ASSUME TablesInv, TablesInv', [ReportsNext]_reportVars
  PROVE  /\ IsTable(rows) /\ IsTable(rows') /\ Grows(rows, rows')
         /\ now \in Nat /\ now' \in Nat /\ now <= now'
<1>1. IsTable(rows) /\ IsTable(rows') /\ now \in Nat /\ now' \in Nat
  BY SlotTypes DEF TablesInv, IsTable
<1>2. \A r \in BagToSet(rows) : rows[r] \in Nat
  BY DEF TablesInv, IsABag, BagToSet
<1>3. ASSUME NEW r, RowAdded(r)
      PROVE  Grows(rows, rows')
  BY <1>3, <1>1, BagGrows DEF RowAdded, Grows, IsTable
<1>4. (\E r : RowAdded(r)) => now' = now
  BY DEF RowAdded
<1>5. Tick => rows' = rows /\ now' = now + 1
  BY DEF Tick
<1>6. (\E r : RowAdded(r)) \/ Tick \/ UNCHANGED <<now, rows, buckets>>
  BY TableSteps DEF reportVars
<1>7. rows' = rows => Grows(rows, rows')
  BY <1>2 DEF Grows
<1> QED BY <1>1, <1>3, <1>4, <1>5, <1>6, <1>7

LEMMA TableCounts ==
  ASSUME NEW B, IsTable(B), NEW S \in SUBSET BagToSet(B)
  PROVE  IsCount(B, S) /\ SumOver(B, S) \in Nat
<1>1. IsCount(B, S)
  BY BagCounts DEF IsTable
<1> QED BY <1>1, SumIsNat

LEMMA CountGrows ==
  ASSUME NEW B, IsTable(B), NEW C, IsTable(C), Grows(B, C),
         NEW R \in SUBSET BagToSet(B), NEW S \in SUBSET BagToSet(C), R \subseteq S
  PROVE  SumOver(B, R) <= SumOver(C, S)
<1>1. IsCount(B, R) /\ IsCount(C, R) /\ IsCount(C, S)
  BY TableCounts
<1>2. SumOver(B, R) <= SumOver(C, R)
  BY <1>1, SumOfLess DEF Grows
<1>3. SumOver(C, R) <= SumOver(C, S)
  BY <1>1, SumOfPart
<1> QED BY <1>1, <1>2, <1>3, SumIsNat

(* What is counted of a table B at the time n, and lane by lane.           *)
CountedOf(B, n, cam, since, until) ==
    {r \in BagToSet(B) : /\ ~r.demo /\ r.lane.camera = cam
                         /\ \A s \in since : r.at >= s
                         /\ IF until = {} THEN r.at >= n - Day ELSE \A u \in until : r.at <= u}
LanesOf(B, S) == [l \in {r.lane : r \in S} |-> SumOver(B, {r \in S : r.lane = l})]

LEMMA LanesOfCounts ==
  ASSUME NEW B, IsTable(B), NEW S \in SUBSET BagToSet(B)
  PROVE  /\ IsPerLane(LanesOf(B, S))
         /\ SumOver(LanesOf(B, S), DOMAIN LanesOf(B, S)) = SumOver(B, S)
<1> DEFINE K == {r.lane : r \in S}
           P == [l \in K |-> {r \in S : r.lane = l}]
           g == LanesOf(B, S)
<1>1. DOMAIN g = K /\ \A l \in K : g[l] = SumOver(B, P[l])
  BY DEF LanesOf
<1>2. P \in [K -> SUBSET S] /\ \A j, k \in K : j # k => P[j] \cap P[k] = {}
  OBVIOUS
<1>3. UNION {P[l] : l \in K} = S
  <2>1. ASSUME NEW r \in S
        PROVE  r \in P[r.lane] /\ r.lane \in K
    OBVIOUS
  <2>2. ASSUME NEW l \in K
        PROVE  P[l] \subseteq S
    OBVIOUS
  <2> HIDE DEF K, P
  <2> QED BY <2>1, <2>2
<1>4. K \subseteq Lanes
  BY DEF IsTable, Row
<1>5. \A l \in K : P[l] \in SUBSET BagToSet(B)
  OBVIOUS
<1> HIDE DEF K, P, g
<1>6. IsFiniteSet(K)
  BY <1>4, ReportsAssumption, FS_Subset
<1>7. SumOver(g, K) = SumOver(B, S)
  BY <1>1, <1>2, <1>3, <1>6, TableCounts, SumOfSums
<1>8. \A l \in K : g[l] \in Nat
  BY <1>1, <1>5, TableCounts
<1> QED BY <1>1, <1>4, <1>7, <1>8 DEF IsPerLane, g

LEMMA LanesOfGrow ==
  ASSUME NEW B, IsTable(B), NEW C, IsTable(C), Grows(B, C),
         NEW R \in SUBSET BagToSet(B), NEW S \in SUBSET BagToSet(C), R \subseteq S
  PROVE  NoMoreThan(LanesOf(B, R), LanesOf(C, S))
<1>1. ASSUME NEW l \in {r.lane : r \in R}
      PROVE  SumOver(B, {r \in R : r.lane = l}) <= SumOver(C, {r \in S : r.lane = l})
  <2> DEFINE Q == {r \in R : r.lane = l}
             T == {r \in S : r.lane = l}
  <2>1. Q \in SUBSET BagToSet(B) /\ T \in SUBSET BagToSet(C) /\ Q \subseteq T
    OBVIOUS
  <2> HIDE DEF Q, T
  <2>2. SumOver(B, Q) <= SumOver(C, T)
    BY <2>1, CountGrows
  <2> QED BY <2>2 DEF Q, T
<1>2. {r.lane : r \in R} \subseteq {r.lane : r \in S}
  OBVIOUS
<1> QED BY <1>1, <1>2 DEF NoMoreThan, LanesOf

(* Figures lane by lane, and their sums.                                   *)
LEMMA LanesCount ==
  ASSUME NEW f, IsPerLane(f)
  PROVE  IsCount(f, DOMAIN f) /\ SumOver(f, DOMAIN f) \in Nat
<1>1. IsFiniteSet(DOMAIN f)
  BY ReportsAssumption, FS_Subset DEF IsPerLane
<1>2. IsCount(f, DOMAIN f)
  BY <1>1 DEF IsPerLane, IsCount
<1> QED BY <1>2, SumIsNat

LEMMA NoMoreSums ==
  ASSUME NEW f, IsPerLane(f), NEW g, IsPerLane(g), NoMoreThan(f, g)
  PROVE  SumOver(f, DOMAIN f) <= SumOver(g, DOMAIN g)
<1>1. IsCount(f, DOMAIN f) /\ IsCount(g, DOMAIN g) /\ DOMAIN f \in SUBSET DOMAIN g
  BY LanesCount DEF NoMoreThan
<1>2. IsCount(g, DOMAIN f)
  BY <1>1, CountedPart
<1>3. SumOver(f, DOMAIN f) <= SumOver(g, DOMAIN f)
  BY <1>1, <1>2, SumOfLess DEF NoMoreThan
<1>4. SumOver(g, DOMAIN f) <= SumOver(g, DOMAIN g)
  BY <1>1, SumOfPart
<1> QED BY <1>1, <1>2, <1>3, <1>4, SumIsNat

LEMMA NoMoreFollows ==
  ASSUME NEW f, IsPerLane(f), NEW g, IsPerLane(g), NEW h, IsPerLane(h),
         NoMoreThan(f, g), NoMoreThan(g, h)
  PROVE  NoMoreThan(f, h)
<1>1. DOMAIN f \subseteq DOMAIN h
  BY DEF NoMoreThan
<1>2. ASSUME NEW l \in DOMAIN f
      PROVE  f[l] <= h[l]
  <2>1. l \in DOMAIN g /\ l \in DOMAIN h
    BY <1>2 DEF NoMoreThan
  <2>2. f[l] \in Nat /\ g[l] \in Nat /\ h[l] \in Nat
    BY <2>1 DEF IsPerLane
  <2>3. f[l] <= g[l] /\ g[l] <= h[l]
    BY <1>2, <2>1 DEF NoMoreThan
  <2> QED BY <2>2, <2>3
<1> QED BY <1>1, <1>2 DEF NoMoreThan

(* A finite set of numbers has a greatest one.                             *)
LEMMA MaxTypes ==
  ASSUME NEW S \in SUBSET Nat, IsFiniteSet(S), S # {}
  PROVE  Max(S) \in S /\ \A y \in S : Max(S) >= y
<1> DEFINE HasMax(U) == \E x \in U : \A y \in U : x >= y
           T == {U \in SUBSET S : U # {} /\ ~HasMax(U)}
<1>1. T = {}
  <2> SUFFICES ASSUME T # {} PROVE FALSE
    OBVIOUS
  <2>1. PICK U \in T : \A V \in SUBSET U : V # U => V \notin T
    <3>1. T \in SUBSET SUBSET S
      OBVIOUS
    <3> HIDE DEF T
    <3> QED BY <3>1, SmallestSet
  <2>2. U \in SUBSET S /\ ~HasMax(U)
    OBVIOUS
  <2>3. PICK x \in U : TRUE
    OBVIOUS
  <2> DEFINE V == U \ {x}
  <2>4. V \in SUBSET U /\ V \in SUBSET S /\ V # U
    BY <2>2, <2>3
  <2>5. V = {} \/ HasMax(V)
    BY <2>1, <2>4
  <2>6. CASE V = {}
    <3>1. U = {x} /\ x \in Nat
      BY <2>2, <2>3, <2>6
    <3> QED BY <2>2, <3>1
  <2>7. CASE HasMax(V)
    <3>1. PICK y \in V : \A z \in V : y >= z
      BY <2>7
    <3>2. x \in Nat /\ y \in Nat /\ y \in U /\ U \subseteq Nat
      BY <2>2, <2>3
    <3>3. x >= y => \A z \in U : x >= z
      BY <3>1, <3>2
    <3>4. y >= x => \A z \in U : y >= z
      BY <3>1, <3>2
    <3> QED BY <2>2, <3>2, <3>3, <3>4
  <2> QED BY <2>5, <2>6, <2>7
<1>2. HasMax(S)
  BY <1>1
<1> QED BY <1>2 DEF Max

(* The request, beside the tables.  Every window has a beginning.          *)
RequestTypes ==
    /\ DOMAIN request = DOMAIN Idle
    /\ request.at \in Steps /\ request.camera \in Cameras \cup {"none"}
    /\ request.since \subseteq Slots /\ request.until \subseteq Int
    /\ {request.asked, request.total} \subseteq Nat /\ request.last \subseteq Slots
    /\ IsPerLane(request.lanes) /\ IsPerLane(request.ways)
    /\ request.at # "idle" => request.since # {}

(* A query of the request fills in one field.                              *)
LEMMA QueryFills ==
  ASSUME RequestTypes, NEW here, NEW there \in Steps, NEW field \in {"lanes", "total", "ways", "last"},
         NEW answer, Query(here, there, field, answer)
  PROVE  /\ request.at = here /\ DOMAIN request' = DOMAIN Idle
         /\ request'.at = there /\ request'[field] = answer
         /\ request'.camera = request.camera /\ request'.since = request.since
         /\ request'.until = request.until /\ request'.asked = request.asked
         /\ field # "lanes" => request'.lanes = request.lanes
         /\ field # "total" => request'.total = request.total
         /\ field # "ways" => request'.ways = request.ways
         /\ field # "last" => request'.last = request.last
         /\ now' = now /\ rows' = rows /\ buckets' = buckets
<1>1. \A e \in {"at", "camera", "since", "until", "asked", "lanes", "total", "ways", "last"} :
         e \in DOMAIN request
  BY DEF RequestTypes, Idle
<1> QED BY <1>1 DEF Query, RequestTypes

(* What the queries answer, in the terms of a table and a time.            *)
LEMMA AnswersAre ==
  ASSUME TablesInv, NEW cam, NEW since, NEW until
  PROVE  LET S == CountedOf(rows, now, cam, since, until)
         IN  /\ S \in SUBSET BagToSet(rows) /\ Counted(cam, since, until) = S
             /\ CountsTotal(cam, since, until) = SumOver(rows, S)
             /\ CountsSummary(cam, since, until) = LanesOf(rows, S)
             /\ \E R \in SUBSET S : DirectionSummary(cam, since, until) = LanesOf(rows, R)
<1> DEFINE S == CountedOf(rows, now, cam, since, until)
           R == {r \in S : r.lane.way \in {"forward", "backward"}}
<1>1. S \in SUBSET BagToSet(rows)
  BY DEF CountedOf
<1>2. Counted(cam, since, until) = S
  BY DEF Counted, CountedOf, Real, Within
<1> HIDE DEF S
<1>3. CountsTotal(cam, since, until) = SumOver(rows, S)
  BY <1>2 DEF CountsTotal, Count
<1>4. \A Q : CountByLane(Q) = LanesOf(rows, Q)
  BY DEF CountByLane, LanesOf, Count
<1>5. CountsSummary(cam, since, until) = LanesOf(rows, S)
  BY <1>2, <1>4 DEF CountsSummary
<1>6. DirectionSummary(cam, since, until) = LanesOf(rows, R)
  BY <1>2, <1>4 DEF DirectionSummary
<1>7. R \in SUBSET S
  OBVIOUS
<1> HIDE DEF R
<1> QED BY <1>1, <1>2, <1>3, <1>5, <1>6, <1>7 DEF S

LEMMA RecentTypes ==
  ASSUME TablesInv, NEW cam
  PROVE  /\ RecentEvent(cam) \subseteq Slots
         /\ \A r \in Real({cam}) : \E t \in RecentEvent(cam) : t >= r.at
<1> DEFINE T == {r.at : r \in Real({cam})}
<1>1. T \subseteq Slots /\ T \in SUBSET Nat
  BY SlotTypes DEF Real, TablesInv, Row
<1>2. IsFiniteSet(T)
  <2>1. IsFiniteSet(Slots)
    BY SlotTypes, FS_Interval DEF Slots
  <2> HIDE DEF T
  <2> QED BY <1>1, <2>1, FS_Subset
<1>3. CASE Real({cam}) = {}
  BY <1>3 DEF RecentEvent
<1>4. CASE Real({cam}) # {}
  <2>1. T # {} /\ \A r \in Real({cam}) : r.at \in T
    BY <1>4
  <2>2. RecentEvent(cam) = {Max(T)}
    BY <1>4 DEF RecentEvent
  <2> HIDE DEF T
  <2>3. Max(T) \in T /\ \A y \in T : Max(T) >= y
    BY <1>1, <1>2, <2>1, MaxTypes
  <2> QED BY <1>1, <2>1, <2>2, <2>3
<1> QED BY <1>3, <1>4

(* The steps of a request.                                                 *)
LEMMA RequestSteps ==
  ASSUME ReportsNext
  PROVE  \/ UNCHANGED request
         \/ \E cam \in Cameras, d \in Days :
               Ask(cam, {d}, {}) \/ Ask(cam, {d}, {d + Day - 1})
         \/ ReadLanes \/ ReadTotal \/ ReadWays \/ ReadLast \/ Answer
BY DEF ReportsNext, Store, StoreStale, Seed, Tick

(* What a request reads next.                                              *)
Asked == CountedOf(rows, now, request.camera, request.since, request.until)

LEMMA ReadsAre ==
  ASSUME TablesInv
  PROVE  /\ Asked \in SUBSET BagToSet(rows)
         /\ Args(CountsTotal) = SumOver(rows, Asked)
         /\ Args(CountsSummary) = LanesOf(rows, Asked)
         /\ ReadLanes => Query("lanes", "total", "lanes", LanesOf(rows, Asked))
         /\ ReadTotal => Query("total", "ways", "total", SumOver(rows, Asked))
         /\ ReadWays  => \E R \in SUBSET Asked : Query("ways", "recent", "ways", LanesOf(rows, R))
<1>1. /\ Asked \in SUBSET BagToSet(rows)
      /\ CountsTotal(request.camera, request.since, request.until) = SumOver(rows, Asked)
      /\ CountsSummary(request.camera, request.since, request.until) = LanesOf(rows, Asked)
      /\ \E R \in SUBSET Asked :
            DirectionSummary(request.camera, request.since, request.until) = LanesOf(rows, R)
  BY AnswersAre DEF Asked
<1>2. /\ Args(CountsTotal) = CountsTotal(request.camera, request.since, request.until)
      /\ Args(CountsSummary) = CountsSummary(request.camera, request.since, request.until)
      /\ Args(DirectionSummary) = DirectionSummary(request.camera, request.since, request.until)
  BY DEF Args
<1> QED BY <1>1, <1>2 DEF ReadLanes, ReadTotal, ReadWays

LEMMA QueryTypes ==
  ASSUME RequestTypes, NEW here \in Steps \ {"idle"}, NEW there \in Steps,
         NEW field \in {"lanes", "total", "ways", "last"}, NEW answer,
         field \in {"lanes", "ways"} => IsPerLane(answer),
         field = "total" => answer \in Nat, field = "last" => answer \subseteq Slots,
         Query(here, there, field, answer)
  PROVE  RequestTypes'
<1>1. /\ request.at = here /\ DOMAIN request' = DOMAIN Idle
      /\ request'.at = there /\ request'[field] = answer
      /\ request'.camera = request.camera /\ request'.since = request.since
      /\ request'.until = request.until /\ request'.asked = request.asked
      /\ field # "lanes" => request'.lanes = request.lanes
      /\ field # "total" => request'.total = request.total
      /\ field # "ways" => request'.ways = request.ways
      /\ field # "last" => request'.last = request.last
  BY QueryFills
<1>2. /\ IsPerLane(request'.lanes) /\ IsPerLane(request'.ways)
      /\ request'.total \in Nat /\ request'.last \subseteq Slots
  <2>1. /\ IsPerLane(request.lanes) /\ IsPerLane(request.ways)
        /\ request.total \in Nat /\ request.last \subseteq Slots
    BY DEF RequestTypes
  <2>2. CASE field = "lanes"
    BY <1>1, <2>1, <2>2
  <2>3. CASE field = "total"
    BY <1>1, <2>1, <2>3
  <2>4. CASE field = "ways"
    BY <1>1, <2>1, <2>4
  <2>5. CASE field = "last"
    BY <1>1, <2>1, <2>5
  <2> QED BY <2>2, <2>3, <2>4, <2>5
<1> QED BY <1>1, <1>2 DEF RequestTypes

LEMMA RequestTypesStep ==
  ASSUME TablesInv, RequestTypes, [ReportsNext]_reportVars
  PROVE  RequestTypes'
<1>0. IsPerLane(None) /\ IsTable(rows)
  BY DEF IsPerLane, None, IsTable, TablesInv
<1>1. ASSUME NEW cam \in Cameras, NEW d \in Days, NEW until \in SUBSET Int, Ask(cam, {d}, until)
      PROVE  RequestTypes'
  <2>1. d \in Slots /\ CountsTotal(cam, {d}, until) \in Nat
    <3>1. d \in Slots
      BY SlotTypes DEF Days, Slots, TablesInv
    <3>2. CountsTotal(cam, {d}, until) \in Nat
      BY <1>0, AnswersAre, TableCounts
    <3> QED BY <3>1, <3>2
  <2>2. request' = [Idle EXCEPT !.at = "lanes", !.camera = cam, !.since = {d}, !.until = until,
                                !.asked = CountsTotal(cam, {d}, until)]
    BY <1>1 DEF Ask
  <2> QED BY <1>0, <2>1, <2>2 DEF RequestTypes, Idle, Steps
<1>2. ASSUME ReadLanes PROVE RequestTypes'
  <2>1. Query("lanes", "total", "lanes", LanesOf(rows, Asked)) /\ IsPerLane(LanesOf(rows, Asked))
    BY <1>0, <1>2, ReadsAre, LanesOfCounts
  <2> QED BY <2>1, QueryTypes DEF Steps
<1>3. ASSUME ReadTotal PROVE RequestTypes'
  <2>1. Query("total", "ways", "total", SumOver(rows, Asked)) /\ SumOver(rows, Asked) \in Nat
    BY <1>0, <1>3, ReadsAre, TableCounts
  <2> QED BY <2>1, QueryTypes DEF Steps
<1>4. ASSUME ReadWays PROVE RequestTypes'
  <2>1. PICK R \in SUBSET Asked : Query("ways", "recent", "ways", LanesOf(rows, R))
    BY <1>4, ReadsAre
  <2>2. IsPerLane(LanesOf(rows, R))
    BY <1>0, <2>1, ReadsAre, LanesOfCounts
  <2> QED BY <2>1, <2>2, QueryTypes DEF Steps
<1>5. ASSUME ReadLast PROVE RequestTypes'
  <2>1. Query("recent", "done", "last", RecentEvent(request.camera))
    BY <1>5 DEF ReadLast
  <2>2. RecentEvent(request.camera) \subseteq Slots
    BY RecentTypes
  <2> QED BY <2>1, <2>2, QueryTypes DEF Steps
<1>6. ASSUME request' = Idle PROVE RequestTypes'
  BY <1>0, <1>6 DEF RequestTypes, Idle, Steps
<1>7. ASSUME UNCHANGED request PROVE RequestTypes'
  BY <1>7 DEF RequestTypes
<1>8. ASSUME NEW cam \in Cameras, NEW d \in Days, Ask(cam, {d}, {}) \/ Ask(cam, {d}, {d + Day - 1})
      PROVE  RequestTypes'
  <2>1. {} \in SUBSET Int /\ {d + Day - 1} \in SUBSET Int
    <3>1. d \in Int /\ Day \in Int
      BY SlotTypes DEF Days
    <3> QED BY <3>1
  <2> QED BY <1>1, <1>8, <2>1
<1> QED BY <1>2, <1>3, <1>4, <1>5, <1>6, <1>7, <1>8, RequestSteps DEF Answer, reportVars

(* What a request q has been told, against a table B at the time n.        *)
Told(B, n, q) ==
    LET S     == CountedOf(B, n, q.camera, q.since, q.until)
        lanes == SumOver(q.lanes, DOMAIN q.lanes)
    IN  /\ q.at = "lanes" => q.asked <= SumOver(B, S)
        /\ q.at # "lanes" => q.asked <= lanes /\ NoMoreThan(q.lanes, LanesOf(B, S))
        /\ q.at \in {"ways", "recent", "done"} => lanes <= q.total /\ q.total <= SumOver(B, S)
        /\ q.at \in {"recent", "done"} => NoMoreThan(q.ways, LanesOf(B, S))
        /\ q.at = "done" /\ q.total > 0 => \E t \in q.last : \A s \in q.since : t >= s

(* The window of q holds at the time n.                                    *)
Holds(n, q) == q.until # {} \/ \A s \in q.since : s >= n - Day

LEMMA InvIsTold ==
  ASSUME TablesInv
  PROVE  RequestInv <=> (request.at # "idle" /\ Holds(now, request) => Told(rows, now, request))
<1>1. /\ Args(CountsTotal) = SumOver(rows, Asked)
      /\ Args(CountsSummary) = LanesOf(rows, Asked)
  BY ReadsAre
<1>2. WindowHolds <=> Holds(now, request)
  BY DEF WindowHolds, Holds
<1> QED BY <1>1, <1>2 DEF RequestInv, Told, Asked

(* In a window that holds, what is counted stays counted.                  *)
LEMMA CountedStays ==
  ASSUME NEW B, IsTable(B), NEW C, IsTable(C), Grows(B, C), NEW n \in Nat, NEW m \in Nat, n <= m,
         NEW q, q.since \subseteq Slots, q.since # {}, q.until \subseteq Int, Holds(m, q)
  PROVE  /\ Holds(n, q)
         /\ CountedOf(B, n, q.camera, q.since, q.until)
               \subseteq CountedOf(C, m, q.camera, q.since, q.until)
<1>1. Day \in Nat /\ q.since \subseteq Nat
  BY SlotTypes
<1>2. Holds(n, q)
  BY <1>1 DEF Holds
<1>3. ASSUME NEW r \in CountedOf(B, n, q.camera, q.since, q.until)
      PROVE  r \in CountedOf(C, m, q.camera, q.since, q.until)
  <2>1. r \in BagToSet(B) /\ r \in BagToSet(C) /\ r.at \in Nat
    BY SlotTypes DEF CountedOf, Grows, IsTable, Row
  <2>2. ~r.demo /\ r.lane.camera = q.camera /\ \A s \in q.since : r.at >= s
    BY DEF CountedOf
  <2>3. CASE q.until = {}
    <3>1. PICK s \in q.since : s >= m - Day
      BY <2>3 DEF Holds
    <3>2. r.at >= s /\ s \in Nat
      BY <1>1, <2>2
    <3>3. r.at >= m - Day
      BY <1>1, <2>1, <3>1, <3>2
    <3> QED BY <2>1, <2>2, <2>3, <3>3 DEF CountedOf
  <2>4. CASE q.until # {}
    BY <2>1, <2>2, <2>4 DEF CountedOf
  <2> QED BY <2>3, <2>4
<1> QED BY <1>2, <1>3

(* A request stands while the tables grow.                                 *)
LEMMA ToldStays ==
  ASSUME NEW B, IsTable(B), NEW C, IsTable(C), Grows(B, C), NEW n \in Nat, NEW m \in Nat, n <= m,
         NEW q, q.since \subseteq Slots, q.since # {}, q.until \subseteq Int, Holds(m, q),
         IsPerLane(q.lanes), IsPerLane(q.ways), q.asked \in Nat, q.total \in Nat,
         Told(B, n, q)
  PROVE  Told(C, m, q)
<1> DEFINE R == CountedOf(B, n, q.camera, q.since, q.until)
           S == CountedOf(C, m, q.camera, q.since, q.until)
           lanes == SumOver(q.lanes, DOMAIN q.lanes)
<1>1. R \in SUBSET BagToSet(B) /\ S \in SUBSET BagToSet(C) /\ R \subseteq S
  BY CountedStays DEF CountedOf
<1>2. /\ q.at = "lanes" => q.asked <= SumOver(B, R)
      /\ q.at # "lanes" => q.asked <= lanes /\ NoMoreThan(q.lanes, LanesOf(B, R))
      /\ q.at \in {"ways", "recent", "done"} => lanes <= q.total /\ q.total <= SumOver(B, R)
      /\ q.at \in {"recent", "done"} => NoMoreThan(q.ways, LanesOf(B, R))
      /\ q.at = "done" /\ q.total > 0 => \E t \in q.last : \A s \in q.since : t >= s
  BY DEF Told
<1> HIDE DEF R, S, lanes
<1>3. /\ SumOver(B, R) \in Nat /\ SumOver(C, S) \in Nat
      /\ SumOver(B, R) <= SumOver(C, S)
      /\ IsPerLane(LanesOf(B, R)) /\ IsPerLane(LanesOf(C, S))
      /\ NoMoreThan(LanesOf(B, R), LanesOf(C, S))
  BY <1>1, TableCounts, CountGrows, LanesOfCounts, LanesOfGrow
<1>4. /\ q.at = "lanes" => q.asked <= SumOver(C, S)
      /\ q.at \in {"ways", "recent", "done"} => q.total <= SumOver(C, S)
  BY <1>2, <1>3
<1>5. /\ q.at # "lanes" => NoMoreThan(q.lanes, LanesOf(C, S))
      /\ q.at \in {"recent", "done"} => NoMoreThan(q.ways, LanesOf(C, S))
  BY <1>2, <1>3, NoMoreFollows
<1> QED BY <1>2, <1>4, <1>5 DEF Told, S, lanes

(* RequestInv and its next state, in those terms.                          *)
LEMMA InvTold ==
  TablesInv => (RequestInv <=> (request.at # "idle" /\ Holds(now, request) => Told(rows, now, request)))
BY InvIsTold

LEMMA InvToldNext ==
  TablesInv' => (RequestInv' <=> (request'.at # "idle" /\ Holds(now', request')
                                  => Told(rows', now', request')))
<1>1. (TablesInv => (RequestInv <=> (request.at # "idle" /\ Holds(now, request)
                                     => Told(rows, now, request))))'
  BY InvTold, PTL
<1> QED BY <1>1

(* A query leaves a request told what it was told before.                  *)
LEMMA QueryTold ==
  ASSUME TablesInv, RequestTypes, RequestInv,
         NEW here \in Steps \ {"idle"}, NEW there \in Steps,
         NEW field \in {"lanes", "total", "ways", "last"},
         NEW answer, Query(here, there, field, answer), Holds(now', request')
  PROVE  /\ request.at = here /\ request'.at = there /\ request'[field] = answer
         /\ request'.camera = request.camera /\ request'.since = request.since
         /\ request'.until = request.until /\ request'.asked = request.asked
         /\ field # "lanes" => request'.lanes = request.lanes
         /\ field # "total" => request'.total = request.total
         /\ field # "ways" => request'.ways = request.ways
         /\ field # "last" => request'.last = request.last
         /\ now' = now /\ rows' = rows
         /\ Told(rows, now, request)
         /\ CountedOf(rows', now', request'.camera, request'.since, request'.until) = Asked
<1>1. /\ request.at = here /\ DOMAIN request' = DOMAIN Idle
      /\ request'.at = there /\ request'[field] = answer
      /\ request'.camera = request.camera /\ request'.since = request.since
      /\ request'.until = request.until /\ request'.asked = request.asked
      /\ field # "lanes" => request'.lanes = request.lanes
      /\ field # "total" => request'.total = request.total
      /\ field # "ways" => request'.ways = request.ways
      /\ field # "last" => request'.last = request.last
      /\ now' = now /\ rows' = rows /\ buckets' = buckets
  BY QueryFills
<1>2. Holds(now, request)
  BY <1>1 DEF Holds
<1>3. Told(rows, now, request)
  BY <1>1, <1>2, InvTold
<1> QED BY <1>1, <1>3 DEF Asked

LEMMA RequestStep ==
  ASSUME TablesInv, TablesInv', RequestTypes, RequestTypes', RequestInv, [ReportsNext]_reportVars
  PROVE  RequestInv'
<1> SUFFICES ASSUME request'.at # "idle", Holds(now', request')
             PROVE  Told(rows', now', request')
  BY InvToldNext
<1>1. /\ IsTable(rows) /\ IsTable(rows') /\ Grows(rows, rows')
      /\ now \in Nat /\ now' \in Nat /\ now <= now'
  BY TablesGrow
<1>2. /\ request.since \subseteq Slots /\ request.until \subseteq Int
      /\ request.asked \in Nat /\ request.total \in Nat
      /\ IsPerLane(request.lanes) /\ IsPerLane(request.ways)
      /\ request.at # "idle" => request.since # {}
  BY DEF RequestTypes
<1>3. request.at # "idle" /\ Holds(now, request) => Told(rows, now, request)
  BY InvTold
<1>4. CASE UNCHANGED request
  <2>1. request.since # {} /\ request.at # "idle" /\ Holds(now', request)
    BY <1>2, <1>4
  <2>2. Holds(now, request)
    BY <1>1, <1>2, <2>1, CountedStays
  <2>3. Told(rows', now', request)
    BY <1>1, <1>2, <1>3, <2>1, <2>2, ToldStays
  <2> QED BY <1>4, <2>3
<1>5. ASSUME NEW cam \in Cameras, NEW d, NEW until, Ask(cam, {d}, until)
      PROVE  Told(rows', now', request')
  <2>1. /\ request'.at = "lanes" /\ request'.camera = cam /\ request'.since = {d}
        /\ request'.until = until /\ request'.asked = CountsTotal(cam, {d}, until)
        /\ rows' = rows /\ now' = now
    BY <1>5 DEF Ask, Idle
  <2>2. CountsTotal(cam, {d}, until) = SumOver(rows, CountedOf(rows, now, cam, {d}, until))
    BY AnswersAre
  <2>3. SumOver(rows, CountedOf(rows, now, cam, {d}, until)) \in Nat
    BY <1>1, AnswersAre, TableCounts
  <2> QED BY <2>1, <2>2, <2>3 DEF Told
<1> DEFINE lanes == SumOver(request.lanes, DOMAIN request.lanes)
           now_   == SumOver(rows, Asked)
<1>6. /\ Asked \in SUBSET BagToSet(rows) /\ now_ \in Nat /\ lanes \in Nat
      /\ IsPerLane(LanesOf(rows, Asked))
      /\ SumOver(LanesOf(rows, Asked), DOMAIN LanesOf(rows, Asked)) = now_
      /\ NoMoreThan(LanesOf(rows, Asked), LanesOf(rows, Asked))
  <2>1. Asked \in SUBSET BagToSet(rows)
    BY ReadsAre
  <2>2. \A r \in BagToSet(rows) : rows[r] \in Nat
    BY DEF TablesInv, IsABag, BagToSet
  <2>3. Grows(rows, rows)
    BY <2>2 DEF Grows
  <2> QED BY <1>1, <1>2, <2>1, <2>3, TableCounts, LanesOfCounts, LanesOfGrow, LanesCount
<1>7. CASE ReadLanes
  <2> DEFINE answer == LanesOf(rows, Asked)
  <2>1. Query("lanes", "total", "lanes", answer)
    BY <1>7, ReadsAre
  <2> HIDE DEF answer
  <2>2. /\ request.at = "lanes" /\ request'.at = "total" /\ request'.lanes = answer
        /\ request'.asked = request.asked /\ rows' = rows
        /\ Told(rows, now, request)
        /\ CountedOf(rows', now', request'.camera, request'.since, request'.until) = Asked
    BY <2>1, QueryTold DEF Steps
  <2>3. request.asked <= now_
    BY <2>2 DEF Told, Asked
  <2> QED BY <1>6, <2>2, <2>3 DEF Told, answer
<1>8. CASE ReadTotal
  <2>1. Query("total", "ways", "total", now_)
    BY <1>8, ReadsAre
  <2> HIDE DEF now_
  <2>2. /\ request.at = "total" /\ request'.at = "ways" /\ request'.total = now_
        /\ request'.asked = request.asked /\ request'.lanes = request.lanes /\ rows' = rows
        /\ Told(rows, now, request)
        /\ CountedOf(rows', now', request'.camera, request'.since, request'.until) = Asked
    BY <2>1, QueryTold DEF Steps
  <2>3. request.asked <= lanes /\ NoMoreThan(request.lanes, LanesOf(rows, Asked))
    BY <2>2 DEF Told, Asked
  <2>4. lanes <= now_
    BY <1>2, <1>6, <2>3, NoMoreSums
  <2> QED BY <1>6, <2>2, <2>3, <2>4 DEF Told, now_
<1>9. CASE ReadWays
  <2>1. PICK R \in SUBSET Asked : Query("ways", "recent", "ways", LanesOf(rows, R))
    BY <1>9, ReadsAre
  <2> DEFINE answer == LanesOf(rows, R)
  <2>2. NoMoreThan(answer, LanesOf(rows, Asked))
    <3>1. \A r \in BagToSet(rows) : rows[r] \in Nat
      BY DEF TablesInv, IsABag, BagToSet
    <3>2. Grows(rows, rows)
      BY <3>1 DEF Grows
    <3> QED BY <1>1, <1>6, <2>1, <3>2, LanesOfGrow
  <2>3. Query("ways", "recent", "ways", answer)
    BY <2>1
  <2> HIDE DEF answer
  <2>4. /\ request.at = "ways" /\ request'.at = "recent" /\ request'.ways = answer
        /\ request'.asked = request.asked /\ request'.lanes = request.lanes
        /\ request'.total = request.total /\ rows' = rows
        /\ Told(rows, now, request)
        /\ CountedOf(rows', now', request'.camera, request'.since, request'.until) = Asked
    BY <2>3, QueryTold DEF Steps
  <2>5. /\ request.asked <= lanes /\ NoMoreThan(request.lanes, LanesOf(rows, Asked))
        /\ lanes <= request.total /\ request.total <= now_
    BY <2>4 DEF Told, Asked
  <2> QED BY <2>2, <2>4, <2>5 DEF Told
<1>10. CASE ReadLast
  <2> DEFINE answer == RecentEvent(request.camera)
  <2>1. Query("recent", "done", "last", answer)
    BY <1>10 DEF ReadLast
  <2> HIDE DEF answer
  <2>2. /\ request.at = "recent" /\ request'.at = "done" /\ request'.last = answer
        /\ request'.asked = request.asked /\ request'.lanes = request.lanes
        /\ request'.total = request.total /\ request'.ways = request.ways /\ rows' = rows
        /\ request'.since = request.since
        /\ Told(rows, now, request)
        /\ CountedOf(rows', now', request'.camera, request'.since, request'.until) = Asked
    BY <2>1, QueryTold DEF Steps
  <2>3. /\ request.asked <= lanes /\ NoMoreThan(request.lanes, LanesOf(rows, Asked))
        /\ lanes <= request.total /\ request.total <= now_
        /\ NoMoreThan(request.ways, LanesOf(rows, Asked))
    BY <2>2 DEF Told, Asked
  <2>4. ASSUME request.total > 0
        PROVE  \E t \in answer : \A s \in request.since : t >= s
    <3>1. now_ # 0
      BY <1>2, <1>6, <2>3, <2>4
    <3>2. PICK r \in Asked : TRUE
      BY <3>1, SumEmpty
    <3>3. /\ r \in Real({request.camera}) /\ r.at \in Nat
          /\ \A s \in request.since : r.at >= s
      BY <1>6, <3>2, RowTypes DEF Asked, CountedOf, Real
    <3>4. PICK t \in answer : t >= r.at
      BY <3>3, RecentTypes DEF answer
    <3>5. t \in Nat /\ request.since \subseteq Nat
      BY <1>2, <3>4, RecentTypes, SlotTypes DEF answer
    <3> QED BY <3>3, <3>4, <3>5
  <2> QED BY <2>2, <2>3, <2>4 DEF Told
<1>11. CASE Answer
  BY <1>11 DEF Answer, Idle
<1> QED BY <1>4, <1>5, <1>7, <1>8, <1>9, <1>10, <1>11, RequestSteps DEF reportVars

LEMMA ToldGivesSummary == TablesInv /\ RequestTypes /\ RequestInv => SummaryOnlyGrows
<1> SUFFICES ASSUME TablesInv, RequestTypes, RequestInv, request.at = "done", WindowHolds
             PROVE  SummaryOnlyGrows
  BY DEF SummaryOnlyGrows
<1> DEFINE lanes == SumOver(request.lanes, DOMAIN request.lanes)
           out   == LanesOut(request)
           shown == SumOver(out, DOMAIN out)
           storedNow == Args(CountsSummary)
           total  == Args(CountsTotal)
<1>1. /\ request.asked <= lanes /\ NoMoreThan(request.lanes, storedNow)
      /\ lanes <= request.total /\ request.total <= total
      /\ NoMoreThan(request.ways, storedNow)
      /\ request.total > 0 => \E t \in request.last : \A s \in request.since : t >= s
  <2> HIDE DEF storedNow, total, lanes
  <2> QED BY DEF RequestInv, storedNow, total, lanes
<1>2. /\ IsPerLane(storedNow) /\ SumOver(storedNow, DOMAIN storedNow) = total
      /\ total \in Nat
  <2>1. IsTable(rows)
    BY DEF TablesInv, IsTable
  <2>2. /\ Asked \in SUBSET BagToSet(rows)
        /\ storedNow = LanesOf(rows, Asked) /\ total = SumOver(rows, Asked)
    BY ReadsAre
  <2> HIDE DEF storedNow, total
  <2> QED BY <2>1, <2>2, LanesOfCounts, TableCounts
<1>3. /\ IsPerLane(request.lanes) /\ IsPerLane(request.ways)
      /\ request.asked \in Nat /\ request.total \in Nat
  BY DEF RequestTypes
<1> HIDE DEF storedNow, total
<1>4. /\ DOMAIN out = DOMAIN request.lanes \cup DOMAIN request.ways
      /\ \A l \in DOMAIN out : out[l] = IF l \in DOMAIN request.lanes
                                        THEN request.lanes[l] ELSE request.ways[l]
  BY DEF LanesOut
<1> HIDE DEF out, lanes, shown
<1>5. IsPerLane(out) /\ NoMoreThan(out, storedNow) /\ NoMoreThan(request.lanes, out)
  <2>1. IsPerLane(out)
    BY <1>3, <1>4 DEF IsPerLane
  <2>2. NoMoreThan(out, storedNow)
    BY <1>1, <1>4 DEF NoMoreThan
  <2>3. NoMoreThan(request.lanes, out)
    BY <1>3, <1>4 DEF NoMoreThan, IsPerLane
  <2> QED BY <2>1, <2>2, <2>3
<1>6. lanes <= shown /\ shown <= total /\ lanes \in Nat /\ shown \in Nat
  BY <1>2, <1>3, <1>5, NoMoreSums, LanesCount DEF lanes, shown
<1>7. ASSUME DOMAIN request.ways \subseteq DOMAIN request.lanes
      PROVE  shown <= request.total
  <2>1. NoMoreThan(out, request.lanes)
    BY <1>3, <1>4, <1>7 DEF NoMoreThan, IsPerLane
  <2>2. shown <= lanes
    BY <1>3, <1>5, <2>1, NoMoreSums DEF lanes, shown
  <2> QED BY <1>1, <1>3, <1>6, <2>2
<1>8. \A figure \in {shown, request.total} : request.asked <= figure /\ figure <= total
  BY <1>1, <1>2, <1>3, <1>6
<1>9. \A l \in DOMAIN out : l \in DOMAIN storedNow /\ out[l] <= storedNow[l]
  BY <1>5 DEF NoMoreThan
<1> QED BY <1>1, <1>7, <1>8, <1>9 DEF SummaryOnlyGrows, storedNow, total, shown, out

----------------------------------------------------------------------------
(* The theorems.                                                           *)

LEMMA RequestBegins ==
  ASSUME ReportsInit, TablesInv
  PROVE  RequestTypes /\ RequestInv
<1>1. IsPerLane(None)
  BY DEF IsPerLane, None
<1>2. request = Idle /\ request.at = "idle"
  BY DEF ReportsInit, Idle
<1> QED BY <1>1, <1>2 DEF RequestTypes, RequestInv, Idle, Steps

LEMMA ReportsInvariant == ReportsSpec => [](TablesInv /\ RequestTypes /\ RequestInv)
<1>1. ReportsInit => TablesInv /\ RequestTypes /\ RequestInv
  BY TablesBegin, RequestBegins
<1>2. TablesInv /\ RequestTypes /\ RequestInv /\ [ReportsNext]_reportVars
      => (TablesInv /\ RequestTypes /\ RequestInv)'
  BY TablesStep, RequestTypesStep, RequestStep
<1> QED BY <1>1, <1>2, PTL DEF ReportsSpec

THEOREM ReportsTypes == ReportsSpec => []ReportsTypeOK
<1>1. TablesInv /\ RequestTypes => ReportsTypeOK
  BY DEF TablesInv, RequestTypes, ReportsTypeOK
<1> QED BY <1>1, ReportsInvariant, PTL

THEOREM BucketsAreTheirRows == ReportsSpec => []BucketsInv
<1>1. TablesInv => BucketsInv
  BY DEF TablesInv
<1> QED BY <1>1, ReportsInvariant, PTL

THEOREM HoursCountRows == ReportsSpec => []HourlyCountsRows
BY TablesGiveHours, ReportsInvariant, PTL

THEOREM FleetTotalsAgree == ReportsSpec => []FleetAddsUp
BY TablesGiveFleet, ReportsInvariant, PTL

THEOREM SummariesGrow == ReportsSpec => []SummaryOnlyGrows
BY ToldGivesSummary, ReportsInvariant, PTL
=============================================================================
