------------------------ MODULE LibraryRuntimeProofs ------------------------
(***************************************************************************)
(* Proofs about LibraryRuntime, for any number of worker ids and of        *)
(* catalogue generations, with and without a library and a snapshot        *)
(* database.                                                               *)
(***************************************************************************)
EXTENDS LibraryRuntime, TLAPS

(* A step of the specification is one of these.                            *)
Actions ==
  \/ \E b \in BOOLEAN : \/ Boot(b) \/ BootFails(b)
                        \/ RequestScan(b) \/ RequestReap(b)
  \/ Ready \/ Signal
  \/ JoinWorker \/ Relock \/ Spawn \/ SpawnFails
  \/ BeginMutation \/ BuildMutation \/ SaveMutation \/ AbortMutation
  \/ MSwapBrowse \/ Dispose(Main, "loop")
  \/ ReadCatalog \/ ReadBrowse \/ EndRead
  \/ BeginShutdown \/ ShutCancel \/ ShutJoin \/ ShutClear \/ Free
  \/ \E t \in Thread : SwapCatalog(t)
  \/ \E w \in Worker : \/ WStart(w) \/ WScan(w) \/ WAdopt(w) \/ WSave(w)
                       \/ WFails(w) \/ WCancelled(w)
                       \/ WSwapBrowse(w) \/ Dispose(w, "exited")

LEMMA NextActions == Next => Actions
BY SMT DEF Next, Actions, Start, ScanRequest, Mutate, Read, Shutdown, WStep, Thread

(* Every step keeps every pointer in its type.                             *)
LEMMA PointersStep == PointersOK /\ BuildInv /\ [Next]_vars => PointersOK'
<1> SUFFICES ASSUME PointersOK /\ BuildInv, [Next]_vars PROVE PointersOK'
  OBVIOUS
<1> USE ThreadAssumption, GenAssumption DEF PointersOK, Pointer, Thread, PC,
    memory, shared, flags, outcome, locals
<1>1. ASSUME NEW b \in BOOLEAN, Boot(b) PROVE PointersOK'
  BY <1>1 DEF Boot, Goto, Fresh
<1>2. ASSUME NEW b \in BOOLEAN, BootFails(b) PROVE PointersOK'
  BY <1>2 DEF BootFails
<1>3. ASSUME NEW b \in BOOLEAN, RequestScan(b) PROVE PointersOK'
  BY <1>3 DEF RequestScan, Requesting, Polling, MayScan
<1>4. ASSUME NEW b \in BOOLEAN, RequestReap(b) PROVE PointersOK'
  BY <1>4 DEF RequestReap, Requesting, Polling, MayScan, UnlockForJoin
<1>5. CASE Ready
  BY <1>5 DEF Ready, Goto
<1>6. CASE Signal
  BY <1>6 DEF Signal
<1>7. CASE JoinWorker
  BY <1>7 DEF JoinWorker, Join
<1>8. CASE Relock
  BY <1>8 DEF Relock, ForgetWorker, Goto
<1>9. CASE Spawn
  BY <1>9 DEF Spawn, ResetCancel
<1>10. CASE SpawnFails
  BY <1>10 DEF SpawnFails, ResetCancel, Goto
<1>11. CASE BeginMutation
  BY <1>11 DEF BeginMutation, Polling, MayMutate, Fresh
<1>12. CASE BuildMutation
  BY <1>12 DEF BuildMutation, Goto, BuildInv, Building, Scanning
<1>13. CASE SaveMutation
  BY <1>13 DEF SaveMutation, Save, Goto
<1>14. CASE AbortMutation
  BY <1>14 DEF AbortMutation, Discard
<1>15. CASE MSwapBrowse
  BY <1>15 DEF MSwapBrowse, SwapBrowse, Goto
<1>16. CASE Dispose(Main, "loop")
  BY <1>16 DEF Dispose, Goto
<1>17. CASE ReadCatalog
  BY <1>17 DEF ReadCatalog, Polling
<1>18. CASE ReadBrowse
  BY <1>18 DEF ReadBrowse
<1>19. CASE EndRead
  BY <1>19 DEF EndRead, Goto
<1>20. CASE BeginShutdown
  BY <1>20 DEF BeginShutdown, Goto
<1>21. CASE ShutCancel
  BY <1>21 DEF ShutCancel, MustJoin, Goto
<1>22. CASE ShutJoin
  BY <1>22 DEF ShutJoin, Join
<1>23. CASE ShutClear
  BY <1>23 DEF ShutClear, Goto
<1>24. CASE Free
  BY <1>24 DEF Free, Goto
<1>25. ASSUME NEW t \in Thread, SwapCatalog(t) PROVE PointersOK'
  BY <1>25 DEF SwapCatalog, Goto
<1>26. ASSUME NEW w \in Worker, WStart(w) PROVE PointersOK'
  BY <1>26 DEF WStart, Goto, Fresh
<1>27. ASSUME NEW w \in Worker, WScan(w) PROVE PointersOK'
  BY <1>27 DEF WScan, Goto
<1>28. ASSUME NEW w \in Worker, WAdopt(w) PROVE PointersOK'
  BY <1>28 DEF WAdopt, Goto, BuildInv, Building, Scanning
<1>29. ASSUME NEW w \in Worker, WSave(w) PROVE PointersOK'
  BY <1>29 DEF WSave, Save, Goto
<1>30. ASSUME NEW w \in Worker, WFails(w) PROVE PointersOK'
  BY <1>30 DEF WFails, WEnds, Discard, Report
<1>31. ASSUME NEW w \in Worker, WCancelled(w) PROVE PointersOK'
  BY <1>31 DEF WCancelled, WEnds, Discard, Report
<1>32. ASSUME NEW w \in Worker, WSwapBrowse(w) PROVE PointersOK'
  BY <1>32 DEF WSwapBrowse, SwapBrowse, Goto
<1>33. ASSUME NEW w \in Worker, Dispose(w, "exited") PROVE PointersOK'
  BY <1>33 DEF Dispose, Goto
<1>34. CASE UNCHANGED vars
  BY <1>34 DEF vars
<1> HIDE DEF PointersOK, Pointer, Thread, PC, memory, shared, flags, outcome,
    locals
<1> QED   BY NextActions, <1>1, <1>2, <1>3, <1>4, <1>5, <1>6, <1>7, <1>8,
    <1>9, <1>10, <1>11, <1>12, <1>13, <1>14, <1>15, <1>16, <1>17, <1>18,
    <1>19, <1>20, <1>21, <1>22, <1>23, <1>24, <1>25, <1>26, <1>27, <1>28,
    <1>29, <1>30, <1>31, <1>32, <1>33, <1>34 DEF Actions

(* Every step keeps every flag in its type.                                *)
LEMMA FlagsStep == FlagsOK /\ [Next]_vars => FlagsOK'
<1> SUFFICES ASSUME FlagsOK, [Next]_vars PROVE FlagsOK'
  OBVIOUS
<1> USE DEF FlagsOK, Error, memory, shared, flags, outcome, locals
<1>1. ASSUME NEW b \in BOOLEAN, Boot(b) PROVE FlagsOK'
  BY <1>1, ConfigAssumption DEF Boot, ScannedOk, Goto, Fresh
<1>2. ASSUME NEW b \in BOOLEAN, BootFails(b) PROVE FlagsOK'
  BY <1>2 DEF BootFails
<1>3. ASSUME NEW b \in BOOLEAN, RequestScan(b) PROVE FlagsOK'
  BY <1>3 DEF RequestScan, Requesting, Polling, MayScan
<1>4. ASSUME NEW b \in BOOLEAN, RequestReap(b) PROVE FlagsOK'
  BY <1>4 DEF RequestReap, Requesting, Polling, MayScan, UnlockForJoin
<1>5. CASE Ready
  BY <1>5 DEF Ready, Goto
<1>6. CASE Signal
  BY <1>6 DEF Signal
<1>7. CASE JoinWorker
  BY <1>7 DEF JoinWorker, Join
<1>8. CASE Relock
  BY <1>8 DEF Relock, ForgetWorker, Goto
<1>9. CASE Spawn
  BY <1>9 DEF Spawn, ResetCancel
<1>10. CASE SpawnFails
  BY <1>10 DEF SpawnFails, ResetCancel, Goto
<1>11. CASE BeginMutation
  BY <1>11 DEF BeginMutation, Polling, MayMutate, Fresh
<1>12. CASE BuildMutation
  BY <1>12 DEF BuildMutation, Goto
<1>13. CASE SaveMutation
  BY <1>13 DEF SaveMutation, Save, Goto
<1>14. CASE AbortMutation
  BY <1>14 DEF AbortMutation, Discard
<1>15. CASE MSwapBrowse
  BY <1>15 DEF MSwapBrowse, SwapBrowse, Goto
<1>16. CASE Dispose(Main, "loop")
  BY <1>16 DEF Dispose, Goto
<1>17. CASE ReadCatalog
  BY <1>17 DEF ReadCatalog, Polling
<1>18. CASE ReadBrowse
  BY <1>18 DEF ReadBrowse
<1>19. CASE EndRead
  BY <1>19 DEF EndRead, Goto
<1>20. CASE BeginShutdown
  BY <1>20 DEF BeginShutdown, Goto
<1>21. CASE ShutCancel
  BY <1>21 DEF ShutCancel, MustJoin, Goto
<1>22. CASE ShutJoin
  BY <1>22 DEF ShutJoin, Join
<1>23. CASE ShutClear
  BY <1>23 DEF ShutClear, Goto
<1>24. CASE Free
  BY <1>24 DEF Free, Goto
<1>25. ASSUME NEW t \in Thread, SwapCatalog(t) PROVE FlagsOK'
  BY <1>25 DEF SwapCatalog, Goto
<1>26. ASSUME NEW w \in Worker, WStart(w) PROVE FlagsOK'
  BY <1>26 DEF WStart, Goto, Fresh
<1>27. ASSUME NEW w \in Worker, WScan(w) PROVE FlagsOK'
  BY <1>27 DEF WScan, Goto
<1>28. ASSUME NEW w \in Worker, WAdopt(w) PROVE FlagsOK'
  BY <1>28 DEF WAdopt, Goto
<1>29. ASSUME NEW w \in Worker, WSave(w) PROVE FlagsOK'
  BY <1>29 DEF WSave, Save, Goto
<1>30. ASSUME NEW w \in Worker, WFails(w) PROVE FlagsOK'
  BY <1>30 DEF WFails, WEnds, Discard, Report
<1>31. ASSUME NEW w \in Worker, WCancelled(w) PROVE FlagsOK'
  BY <1>31 DEF WCancelled, WEnds, Discard, Report
<1>32. ASSUME NEW w \in Worker, WSwapBrowse(w) PROVE FlagsOK'
  BY <1>32 DEF WSwapBrowse, SwapBrowse, Goto
<1>33. ASSUME NEW w \in Worker, Dispose(w, "exited") PROVE FlagsOK'
  BY <1>33 DEF Dispose, Goto
<1>34. CASE UNCHANGED vars
  BY <1>34 DEF vars
<1> HIDE DEF FlagsOK, Error, memory, shared, flags, outcome, locals
<1> QED   BY NextActions, <1>1, <1>2, <1>3, <1>4, <1>5, <1>6, <1>7, <1>8,
    <1>9, <1>10, <1>11, <1>12, <1>13, <1>14, <1>15, <1>16, <1>17, <1>18,
    <1>19, <1>20, <1>21, <1>22, <1>23, <1>24, <1>25, <1>26, <1>27, <1>28,
    <1>29, <1>30, <1>31, <1>32, <1>33, <1>34 DEF Actions

(* A catalogue under construction is dropped when its thread stops.        *)
LEMMA BuildStep == PointersOK /\ BuildInv /\ [Next]_vars => BuildInv'
<1> SUFFICES ASSUME PointersOK /\ BuildInv, [Next]_vars PROVE BuildInv'
  OBVIOUS
<1> USE ThreadAssumption, GenAssumption DEF PointersOK, Pointer, Thread,
    BuildInv, Building, Scanning, memory, shared, flags, outcome, locals
<1>1. ASSUME NEW b \in BOOLEAN, Boot(b) PROVE BuildInv'
  BY <1>1 DEF Boot, Goto, Fresh
<1>2. ASSUME NEW b \in BOOLEAN, BootFails(b) PROVE BuildInv'
  BY <1>2 DEF BootFails
<1>3. ASSUME NEW b \in BOOLEAN, RequestScan(b) PROVE BuildInv'
  BY <1>3 DEF RequestScan, Requesting, Polling, MayScan
<1>4. ASSUME NEW b \in BOOLEAN, RequestReap(b) PROVE BuildInv'
  BY <1>4 DEF RequestReap, Requesting, Polling, MayScan, UnlockForJoin
<1>5. CASE Ready
  BY <1>5 DEF Ready, Goto
<1>6. CASE Signal
  BY <1>6 DEF Signal
<1>7. CASE JoinWorker
  BY <1>7 DEF JoinWorker, Join
<1>8. CASE Relock
  BY <1>8 DEF Relock, ForgetWorker, Goto
<1>9. CASE Spawn
  BY <1>9 DEF Spawn, ResetCancel
<1>10. CASE SpawnFails
  BY <1>10 DEF SpawnFails, ResetCancel, Goto
<1>11. CASE BeginMutation
  BY <1>11 DEF BeginMutation, Polling, MayMutate, Fresh
<1>12. CASE BuildMutation
  BY <1>12 DEF BuildMutation, Goto
<1>13. CASE SaveMutation
  BY <1>13 DEF SaveMutation, Save, Goto
<1>14. CASE AbortMutation
  BY <1>14 DEF AbortMutation, Discard
<1>15. CASE MSwapBrowse
  BY <1>15 DEF MSwapBrowse, SwapBrowse, Goto
<1>16. CASE Dispose(Main, "loop")
  BY <1>16 DEF Dispose, Goto
<1>17. CASE ReadCatalog
  BY <1>17 DEF ReadCatalog, Polling
<1>18. CASE ReadBrowse
  BY <1>18 DEF ReadBrowse
<1>19. CASE EndRead
  BY <1>19 DEF EndRead, Goto
<1>20. CASE BeginShutdown
  BY <1>20 DEF BeginShutdown, Goto
<1>21. CASE ShutCancel
  BY <1>21 DEF ShutCancel, MustJoin, Goto
<1>22. CASE ShutJoin
  BY <1>22 DEF ShutJoin, Join
<1>23. CASE ShutClear
  BY <1>23 DEF ShutClear, Goto
<1>24. CASE Free
  BY <1>24 DEF Free, Goto
<1>25. ASSUME NEW t \in Thread, SwapCatalog(t) PROVE BuildInv'
  BY <1>25 DEF SwapCatalog, Goto
<1>26. ASSUME NEW w \in Worker, WStart(w) PROVE BuildInv'
  BY <1>26 DEF WStart, Goto, Fresh
<1>27. ASSUME NEW w \in Worker, WScan(w) PROVE BuildInv'
  BY <1>27 DEF WScan, Goto
<1>28. ASSUME NEW w \in Worker, WAdopt(w) PROVE BuildInv'
  BY <1>28 DEF WAdopt, Goto
<1>29. ASSUME NEW w \in Worker, WSave(w) PROVE BuildInv'
  BY <1>29 DEF WSave, Save, Goto
<1>30. ASSUME NEW w \in Worker, WFails(w) PROVE BuildInv'
  BY <1>30 DEF WFails, WEnds, Discard, Report
<1>31. ASSUME NEW w \in Worker, WCancelled(w) PROVE BuildInv'
  BY <1>31 DEF WCancelled, WEnds, Discard, Report
<1>32. ASSUME NEW w \in Worker, WSwapBrowse(w) PROVE BuildInv'
  BY <1>32 DEF WSwapBrowse, SwapBrowse, Goto
<1>33. ASSUME NEW w \in Worker, Dispose(w, "exited") PROVE BuildInv'
  BY <1>33 DEF Dispose, Goto
<1>34. CASE UNCHANGED vars
  BY <1>34 DEF vars
<1> HIDE DEF PointersOK, Pointer, Thread, BuildInv, Building, Scanning,
    memory, shared, flags, outcome, locals
<1> QED   BY NextActions, <1>1, <1>2, <1>3, <1>4, <1>5, <1>6, <1>7, <1>8,
    <1>9, <1>10, <1>11, <1>12, <1>13, <1>14, <1>15, <1>16, <1>17, <1>18,
    <1>19, <1>20, <1>21, <1>22, <1>23, <1>24, <1>25, <1>26, <1>27, <1>28,
    <1>29, <1>30, <1>31, <1>32, <1>33, <1>34 DEF Actions

(* The flags keep saying where the threads are.                            *)
LEMMA ControlStep == TypeOK /\ ControlInv /\ [Next]_vars => ControlInv'
<1> SUFFICES ASSUME TypeOK /\ ControlInv, [Next]_vars PROVE ControlInv'
  OBVIOUS
<1> USE ThreadAssumption, GenAssumption DEF TypeOK, PointersOK, FlagsOK, Thread,
    ControlInv, OutcomeTruthful, Running, Building, memory, shared, flags,
    outcome, locals
<1>1. ASSUME NEW b \in BOOLEAN, Boot(b) PROVE ControlInv'
  BY <1>1 DEF Boot, ScannedOk, HasSnapshot, Goto, Fresh
<1>2. ASSUME NEW b \in BOOLEAN, BootFails(b) PROVE ControlInv'
  BY <1>2 DEF BootFails
<1>3. ASSUME NEW b \in BOOLEAN, RequestScan(b) PROVE ControlInv'
  BY <1>3 DEF RequestScan, Requesting, Polling, MayScan
<1>4. ASSUME NEW b \in BOOLEAN, RequestReap(b) PROVE ControlInv'
  BY <1>4 DEF RequestReap, Requesting, Polling, MayScan, UnlockForJoin
<1>5. CASE Ready
  BY <1>5 DEF Ready, Goto
<1>6. CASE Signal
  BY <1>6 DEF Signal
<1>7. CASE JoinWorker
  BY <1>7 DEF JoinWorker, Join
<1>8. CASE Relock
  BY <1>8 DEF Relock, ForgetWorker, Goto
<1>9. CASE Spawn
  BY <1>9 DEF Spawn, ResetCancel
<1>10. CASE SpawnFails
  BY <1>10 DEF SpawnFails, ResetCancel, Goto
<1>11. CASE BeginMutation
  BY <1>11 DEF BeginMutation, Polling, MayMutate, Fresh
<1>12. CASE BuildMutation
  BY <1>12 DEF BuildMutation, Goto
<1>13. CASE SaveMutation
  BY <1>13 DEF SaveMutation, Save, Goto
<1>14. CASE AbortMutation
  BY <1>14 DEF AbortMutation, Discard
<1>15. CASE MSwapBrowse
  BY <1>15 DEF MSwapBrowse, SwapBrowse, Goto
<1>16. CASE Dispose(Main, "loop")
  BY <1>16 DEF Dispose, Goto
<1>17. CASE ReadCatalog
  BY <1>17 DEF ReadCatalog, Polling
<1>18. CASE ReadBrowse
  BY <1>18 DEF ReadBrowse
<1>19. CASE EndRead
  BY <1>19 DEF EndRead, Goto
<1>20. CASE BeginShutdown
  BY <1>20 DEF BeginShutdown, Goto
<1>21. CASE ShutCancel
  BY <1>21 DEF ShutCancel, MustJoin, Goto
<1>22. CASE ShutJoin
  BY <1>22 DEF ShutJoin, Join
<1>23. CASE ShutClear
  BY <1>23 DEF ShutClear, Goto
<1>24. CASE Free
  BY <1>24 DEF Free, Goto
<1>25. ASSUME NEW t \in Thread, SwapCatalog(t) PROVE ControlInv'
  BY <1>25 DEF SwapCatalog, Goto
<1>26. ASSUME NEW w \in Worker, WStart(w) PROVE ControlInv'
  BY <1>26 DEF WStart, Goto, Fresh
<1>27. ASSUME NEW w \in Worker, WScan(w) PROVE ControlInv'
  BY <1>27 DEF WScan, Goto
<1>28. ASSUME NEW w \in Worker, WAdopt(w) PROVE ControlInv'
  BY <1>28 DEF WAdopt, Goto
<1>29. ASSUME NEW w \in Worker, WSave(w) PROVE ControlInv'
  BY <1>29 DEF WSave, Save, Goto
<1>30. ASSUME NEW w \in Worker, WFails(w) PROVE ControlInv'
  BY <1>30 DEF WFails, WEnds, Discard, Report
<1>31. ASSUME NEW w \in Worker, WCancelled(w) PROVE ControlInv'
  BY <1>31 DEF WCancelled, WEnds, Discard, Report
<1>32. ASSUME NEW w \in Worker, WSwapBrowse(w) PROVE ControlInv'
  BY <1>32 DEF WSwapBrowse, SwapBrowse, Goto
<1>33. ASSUME NEW w \in Worker, Dispose(w, "exited") PROVE ControlInv'
  BY <1>33 DEF Dispose, Goto
<1>34. CASE UNCHANGED vars
  BY <1>34 DEF vars
<1> HIDE DEF TypeOK, PointersOK, FlagsOK, Thread, ControlInv,
    OutcomeTruthful, Running, Building, memory, shared, flags, outcome,
    locals
<1> QED   BY NextActions, <1>1, <1>2, <1>3, <1>4, <1>5, <1>6, <1>7, <1>8,
    <1>9, <1>10, <1>11, <1>12, <1>13, <1>14, <1>15, <1>16, <1>17, <1>18,
    <1>19, <1>20, <1>21, <1>22, <1>23, <1>24, <1>25, <1>26, <1>27, <1>28,
    <1>29, <1>30, <1>31, <1>32, <1>33, <1>34 DEF Actions

(* The pointers keep pointing at what is allocated.                        *)
LEMMA MemoryStep == IInv /\ [Next]_vars => MemoryInv'
<1> SUFFICES ASSUME IInv, [Next]_vars PROVE MemoryInv'
  OBVIOUS
<1> USE ThreadAssumption, GenAssumption DEF IInv, TypeOK, PointersOK, Pointer,
    FlagsOK, Thread, ControlInv, Running, BuildInv, Building, Scanning,
    MemoryInv, Serving, Fresh, memory, shared, flags, outcome, locals
<1>1. ASSUME NEW b \in BOOLEAN, Boot(b) PROVE MemoryInv'
  BY <1>1 DEF Boot, Goto, Fresh
<1>2. ASSUME NEW b \in BOOLEAN, BootFails(b) PROVE MemoryInv'
  BY <1>2 DEF BootFails
<1>3. ASSUME NEW b \in BOOLEAN, RequestScan(b) PROVE MemoryInv'
  BY <1>3 DEF RequestScan, Requesting, Polling, MayScan
<1>4. ASSUME NEW b \in BOOLEAN, RequestReap(b) PROVE MemoryInv'
  BY <1>4 DEF RequestReap, Requesting, Polling, MayScan, UnlockForJoin
<1>5. CASE Ready
  BY <1>5 DEF Ready, Goto
<1>6. CASE Signal
  BY <1>6 DEF Signal
<1>7. CASE JoinWorker
  BY <1>7 DEF JoinWorker, Join
<1>8. CASE Relock
  BY <1>8 DEF Relock, ForgetWorker, Goto
<1>9. CASE Spawn
  BY <1>9 DEF Spawn, ResetCancel
<1>10. CASE SpawnFails
  BY <1>10 DEF SpawnFails, ResetCancel, Goto
<1>11. CASE BeginMutation
  BY <1>11 DEF BeginMutation, Polling, MayMutate, Fresh
<1>12. CASE BuildMutation
  BY <1>12 DEF BuildMutation, Goto
<1>13. CASE SaveMutation
  BY <1>13 DEF SaveMutation, Save, Goto
<1>14. CASE AbortMutation
  BY <1>14 DEF AbortMutation, Discard
<1>15. CASE MSwapBrowse
  BY <1>15 DEF MSwapBrowse, SwapBrowse, Goto
<1>16. CASE Dispose(Main, "loop")
  BY <1>16 DEF Dispose, Goto
<1>17. CASE ReadCatalog
  BY <1>17 DEF ReadCatalog, Polling
<1>18. CASE ReadBrowse
  BY <1>18 DEF ReadBrowse
<1>19. CASE EndRead
  BY <1>19 DEF EndRead, Goto
<1>20. CASE BeginShutdown
  BY <1>20 DEF BeginShutdown, Goto
<1>21. CASE ShutCancel
  BY <1>21 DEF ShutCancel, MustJoin, Goto
<1>22. CASE ShutJoin
  BY <1>22 DEF ShutJoin, Join
<1>23. CASE ShutClear
  BY <1>23 DEF ShutClear, Goto
<1>24. CASE Free
  BY <1>24 DEF Free, Goto
<1>25. ASSUME NEW t \in Thread, SwapCatalog(t) PROVE MemoryInv'
  BY <1>25 DEF SwapCatalog, Goto
<1>26. ASSUME NEW w \in Worker, WStart(w) PROVE MemoryInv'
  BY <1>26 DEF WStart, Goto, Fresh
<1>27. ASSUME NEW w \in Worker, WScan(w) PROVE MemoryInv'
  BY <1>27 DEF WScan, Goto
<1>28. ASSUME NEW w \in Worker, WAdopt(w) PROVE MemoryInv'
  BY <1>28 DEF WAdopt, Goto
<1>29. ASSUME NEW w \in Worker, WSave(w) PROVE MemoryInv'
  BY <1>29 DEF WSave, Save, Goto
<1>30. ASSUME NEW w \in Worker, WFails(w) PROVE MemoryInv'
  BY <1>30 DEF WFails, WEnds, Discard, Report
<1>31. ASSUME NEW w \in Worker, WCancelled(w) PROVE MemoryInv'
  BY <1>31 DEF WCancelled, WEnds, Discard, Report
<1>32. ASSUME NEW w \in Worker, WSwapBrowse(w) PROVE MemoryInv'
  BY <1>32 DEF WSwapBrowse, SwapBrowse, Goto
<1>33. ASSUME NEW w \in Worker, Dispose(w, "exited") PROVE MemoryInv'
  BY <1>33 DEF Dispose, Goto
<1>34. CASE UNCHANGED vars
  BY <1>34 DEF vars
<1> HIDE DEF IInv, TypeOK, PointersOK, Pointer, FlagsOK, Thread, ControlInv,
    Running, BuildInv, Building, Scanning, MemoryInv, Serving, Fresh, memory,
    shared, flags, outcome, locals
<1> QED   BY NextActions, <1>1, <1>2, <1>3, <1>4, <1>5, <1>6, <1>7, <1>8,
    <1>9, <1>10, <1>11, <1>12, <1>13, <1>14, <1>15, <1>16, <1>17, <1>18,
    <1>19, <1>20, <1>21, <1>22, <1>23, <1>24, <1>25, <1>26, <1>27, <1>28,
    <1>29, <1>30, <1>31, <1>32, <1>33, <1>34 DEF Actions

(* What leaves one owner goes to another or is freed.                      *)
LEMMA LeakStep == IInv /\ NoLeak /\ [Next]_vars => NoLeak'
<1> SUFFICES ASSUME IInv /\ NoLeak, [Next]_vars PROVE NoLeak'
  OBVIOUS
<1> USE ThreadAssumption, GenAssumption DEF IInv, TypeOK, PointersOK, Pointer,
    Thread, ControlInv, BuildInv, Building, Scanning, MemoryInv, Serving,
    Fresh, NoLeak, Running, memory, shared, flags, outcome, locals
<1>1. ASSUME NEW b \in BOOLEAN, Boot(b) PROVE NoLeak'
  BY <1>1 DEF Boot, Goto, Fresh
<1>2. ASSUME NEW b \in BOOLEAN, BootFails(b) PROVE NoLeak'
  BY <1>2 DEF BootFails
<1>3. ASSUME NEW b \in BOOLEAN, RequestScan(b) PROVE NoLeak'
  BY <1>3 DEF RequestScan, Requesting, Polling, MayScan
<1>4. ASSUME NEW b \in BOOLEAN, RequestReap(b) PROVE NoLeak'
  BY <1>4 DEF RequestReap, Requesting, Polling, MayScan, UnlockForJoin
<1>5. CASE Ready
  BY <1>5 DEF Ready, Goto
<1>6. CASE Signal
  BY <1>6 DEF Signal
<1>7. CASE JoinWorker
  BY <1>7 DEF JoinWorker, Join
<1>8. CASE Relock
  BY <1>8 DEF Relock, ForgetWorker, Goto
<1>9. CASE Spawn
  BY <1>9 DEF Spawn, ResetCancel
<1>10. CASE SpawnFails
  BY <1>10 DEF SpawnFails, ResetCancel, Goto
<1>11. CASE BeginMutation
  BY <1>11 DEF BeginMutation, Polling, MayMutate, Fresh
<1>12. CASE BuildMutation
  BY <1>12 DEF BuildMutation, Goto
<1>13. CASE SaveMutation
  BY <1>13 DEF SaveMutation, Save, Goto
<1>14. CASE AbortMutation
  BY <1>14 DEF AbortMutation, Discard
<1>15. CASE MSwapBrowse
  BY <1>15 DEF MSwapBrowse, SwapBrowse, Goto
<1>16. CASE Dispose(Main, "loop")
  BY <1>16 DEF Dispose, Goto
<1>17. CASE ReadCatalog
  BY <1>17 DEF ReadCatalog, Polling
<1>18. CASE ReadBrowse
  BY <1>18 DEF ReadBrowse
<1>19. CASE EndRead
  BY <1>19 DEF EndRead, Goto
<1>20. CASE BeginShutdown
  BY <1>20 DEF BeginShutdown, Goto
<1>21. CASE ShutCancel
  BY <1>21 DEF ShutCancel, MustJoin, Goto
<1>22. CASE ShutJoin
  BY <1>22 DEF ShutJoin, Join
<1>23. CASE ShutClear
  BY <1>23 DEF ShutClear, Goto
<1>24. CASE Free
  BY <1>24 DEF Free, Goto
<1>25. ASSUME NEW t \in Thread, SwapCatalog(t) PROVE NoLeak'
  BY <1>25 DEF SwapCatalog, Goto
<1>26. ASSUME NEW w \in Worker, WStart(w) PROVE NoLeak'
  BY <1>26 DEF WStart, Goto, Fresh
<1>27. ASSUME NEW w \in Worker, WScan(w) PROVE NoLeak'
  BY <1>27 DEF WScan, Goto
<1>28. ASSUME NEW w \in Worker, WAdopt(w) PROVE NoLeak'
  BY <1>28 DEF WAdopt, Goto
<1>29. ASSUME NEW w \in Worker, WSave(w) PROVE NoLeak'
  BY <1>29 DEF WSave, Save, Goto
<1>30. ASSUME NEW w \in Worker, WFails(w) PROVE NoLeak'
  BY <1>30 DEF WFails, WEnds, Discard, Report
<1>31. ASSUME NEW w \in Worker, WCancelled(w) PROVE NoLeak'
  BY <1>31 DEF WCancelled, WEnds, Discard, Report
<1>32. ASSUME NEW w \in Worker, WSwapBrowse(w) PROVE NoLeak'
  BY <1>32 DEF WSwapBrowse, SwapBrowse, Goto
<1>33. ASSUME NEW w \in Worker, Dispose(w, "exited") PROVE NoLeak'
  BY <1>33 DEF Dispose, Goto
<1>34. CASE UNCHANGED vars
  BY <1>34 DEF vars
<1> HIDE DEF IInv, TypeOK, PointersOK, Pointer, Thread, ControlInv, BuildInv,
    Building, Scanning, MemoryInv, Serving, Fresh, NoLeak, Running, memory,
    shared, flags, outcome, locals
<1> QED   BY NextActions, <1>1, <1>2, <1>3, <1>4, <1>5, <1>6, <1>7, <1>8,
    <1>9, <1>10, <1>11, <1>12, <1>13, <1>14, <1>15, <1>16, <1>17, <1>18,
    <1>19, <1>20, <1>21, <1>22, <1>23, <1>24, <1>25, <1>26, <1>27, <1>28,
    <1>29, <1>30, <1>31, <1>32, <1>33, <1>34 DEF Actions


LEMMA InitIInv == Init => IInv
<1> SUFFICES ASSUME Init PROVE IInv
  OBVIOUS
<1> USE ThreadAssumption, GenAssumption DEF Init, Thread
<1>1. PointersOK
  BY DEF PointersOK, Pointer, PC
<1>2. FlagsOK
  BY DEF FlagsOK, Error
<1>3. BuildInv
  BY DEF BuildInv, Building, Scanning
<1>4. ControlInv
  BY DEF ControlInv, OutcomeTruthful, Running, Building
<1>5. MemoryInv
  BY DEF MemoryInv, Serving, Fresh
<1> QED
  BY <1>1, <1>2, <1>3, <1>4, <1>5 DEF IInv, TypeOK

LEMMA StepIInv == IInv /\ [Next]_vars => IInv'
BY PointersStep, FlagsStep, BuildStep, ControlStep, MemoryStep
   DEF IInv, TypeOK

(* The inductive invariant: where each thread is determines the flags, and *)
(* what its pointers are.                                                  *)
THEOREM Invariance == Spec => []IInv
BY InitIInv, StepIInv, PTL DEF Spec

(* Every variable keeps its type.                                          *)
THEOREM TypeCorrect == Spec => []TypeOK
<1>1. IInv => TypeOK
  BY DEF IInv
<1> QED
  BY <1>1, Invariance, PTL

(* No handler and no worker follows a pointer to freed memory.             *)
THEOREM MemorySafe == Spec => []NoUseAfterFree
<1>1. IInv => NoUseAfterFree
  BY ThreadAssumption
     DEF IInv, MemoryInv, ControlInv, BuildInv, Scanning, NoUseAfterFree,
         Serving, Thread, TypeOK, PointersOK
<1> QED
  BY <1>1, Invariance, PTL

(* Whatever is allocated has an owner that will free it.                   *)
THEOREM NothingLeaks == Spec => []NoLeak
<1>1. Init => NoLeak
  BY DEF Init, NoLeak
<1> QED
  BY <1>1, Invariance, LeakStep, PTL DEF Spec

(* At most one thread builds a catalogue, and the flags say so.            *)
THEOREM SingleBuilder == Spec => []OneBuilder
<1>1. IInv => OneBuilder
  BY DEF IInv, TypeOK, FlagsOK, ControlInv, OneBuilder, Running
<1> QED
  BY <1>1, Invariance, PTL

(* What a restart finds is what is served, or its direct successor.        *)
THEOREM SnapshotSafe == Spec => []SnapshotFollows
<1>1. IInv => SnapshotFollows
  BY DEF IInv, MemoryInv, SnapshotFollows
<1> QED
  BY <1>1, Invariance, PTL

(* A handler never pairs a catalogue with the index of another.            *)
THEOREM ReadsConsistent == Spec => []ReadsOneGeneration
<1>1. IInv => ReadsOneGeneration
  BY ThreadAssumption
     DEF IInv, MemoryInv, ControlInv, ReadsOneGeneration, Thread
<1> QED
  BY <1>1, Invariance, PTL

(* The status of an idle library is either ok or an error; without a       *)
(* library it is neither, as nothing is ever scanned.                      *)
THEOREM StatusTruthful == Spec => []OutcomeTruthful
<1>1. IInv => OutcomeTruthful
  BY DEF IInv, ControlInv
<1> QED
  BY <1>1, Invariance, PTL

(* The context is freed only when no worker is left.                       *)
THEOREM ThreadsEndFirst == Spec => []NoThreadOutlives
<1>1. IInv => NoThreadOutlives
  BY DEF IInv, ControlInv, NoThreadOutlives
<1> QED
  BY <1>1, Invariance, PTL

(* A catalogue replaces only the one it was built from.                    *)
THEOREM UpdatesKept == Spec => NoLostUpdate
<1>1. IInv /\ [Next]_vars
        => [catalog' # catalog /\ catalog # None
              => parent[catalog'] = catalog]_vars
  <2> SUFFICES ASSUME IInv, [Next]_vars, catalog' # catalog, catalog # None
               PROVE  parent[catalog'] = catalog
    OBVIOUS
  <2> USE DEF shared, vars
  <2>1. CASE \E t \in Thread : SwapCatalog(t)
    BY <2>1 DEF IInv, MemoryInv, SwapCatalog, Goto
  <2>2. CASE \E b \in BOOLEAN : Boot(b)
    BY <2>2 DEF IInv, MemoryInv, Boot, Goto
  <2> QED
    BY <2>1, <2>2, NextActions
       DEF Actions, BootFails, RequestScan, RequestReap, Ready, Signal,
           JoinWorker, Join, Relock, Spawn, SpawnFails, BeginMutation,
           BuildMutation, SaveMutation, Save, AbortMutation, MSwapBrowse,
           SwapBrowse, Dispose, ReadCatalog, ReadBrowse, EndRead,
           BeginShutdown, ShutCancel, ShutJoin, ShutClear, Free, WStart,
           WScan, WAdopt, WSave, WFails, WCancelled, WEnds, WSwapBrowse
<1> QED
  BY <1>1, Invariance, PTL DEF Spec, NoLostUpdate


(* A scan is cancelled only while someone waits for it.                    *)
THEOREM CancelNotInherited == Spec => CancelledOnRequest
<1>1. IInv /\ [Next]_vars
        => [err' = "cancelled" /\ err # "cancelled" =>
              pc[Main] \in {"join", "shutJoin"}]_vars
  <2> SUFFICES ASSUME IInv, [Next]_vars, err' = "cancelled",
                      err # "cancelled"
               PROVE  pc[Main] \in {"join", "shutJoin"}
    OBVIOUS
  <2>1. CASE \E w \in Worker : WCancelled(w)
    <3>1. PICK w \in Worker : cancel /\ pc[w] = "scan"
      BY <2>1 DEF WCancelled, WEnds
    <3>2. w = worker
      BY <3>1 DEF IInv, ControlInv
    <3>3. scanning
      BY <3>1, <3>2 DEF IInv, ControlInv, Running
    <3> QED
      BY <3>1, <3>3 DEF IInv, ControlInv
  <2> QED
    BY <2>1, NextActions
       DEF vars, outcome, Actions, Boot, BootFails, RequestScan, RequestReap, Ready, Signal,
           JoinWorker, Join, Relock, Spawn, SpawnFails, BeginMutation,
           BuildMutation, SaveMutation, Save, AbortMutation, MSwapBrowse,
           SwapCatalog, SwapBrowse, Dispose, ReadCatalog, ReadBrowse, EndRead,
           BeginShutdown, ShutCancel, ShutJoin, ShutClear, Free, WStart,
           WScan, WAdopt, WSave, WFails, WEnds, Report, WSwapBrowse
<1> QED
  BY <1>1, Invariance, PTL DEF Spec, CancelledOnRequest

-----------------------------------------------------------------------------
(***************************************************************************)
(* The refinement of CatalogCommit.  Only one thread builds at a time, so  *)
(* that the draft is what that thread builds.                              *)
(***************************************************************************)

Draws(t) == new[t] # None /\ pc[t] # "index"

LEMMA OneDraws ==
  ASSUME IInv, NEW t \in Thread, NEW u \in Thread, Draws(t), Draws(u)
  PROVE  t = u
BY ThreadAssumption
   DEF IInv, ControlInv, BuildInv, Building, Scanning, Running, Draws, Thread

DraftFact ==
  /\ \A t \in Thread : Draws(t) => Draft = new[t]
  /\ (\A t \in Thread : ~Draws(t)) => Draft = None

LEMMA DraftIs == IInv => DraftFact
<1> SUFFICES ASSUME IInv PROVE DraftFact
  OBVIOUS
<1>1. Builders = {t \in Thread : Draws(t)}
  BY DEF Builders, Draws
<1>2. ASSUME NEW t \in Thread, Draws(t) PROVE Draft = new[t]
  <2>1. t \in Builders
    BY <1>1, <1>2
  <2>2. (CHOOSE u \in Builders : TRUE) \in Builders
    BY <2>1
  <2>3. (CHOOSE u \in Builders : TRUE) = t
    BY <1>1, <1>2, <2>2, OneDraws
  <2> QED
    BY <2>1, <2>3 DEF Draft
<1> QED
  BY <1>1, <1>2 DEF Draft, DraftFact


LEMMA DraftIsNext == IInv' => DraftFact'
BY DraftIs, PTL

(* Every step of the threads is a step of the one writer, or none.         *)
LEMMA CommitStep ==
  IInv /\ IInv' /\ [Next]_vars => [Commit!Next]_(Commit!vars)
<1> SUFFICES ASSUME IInv, IInv', [Next]_vars
             PROVE  [Commit!Next]_(Commit!vars)
  OBVIOUS
<1>a. DraftFact
  BY DraftIs
<1>b. DraftFact'
  BY DraftIsNext
<1> USE <1>a, <1>b, ThreadAssumption, GenAssumption
    DEF IInv, TypeOK, PointersOK, Pointer, Thread, ControlInv, BuildInv,
        Building, Scanning, MemoryInv, Serving, Running, Draws, DraftFact,
        memory, shared, flags, outcome, locals
<1>1. ASSUME NEW b \in BOOLEAN, Boot(b) PROVE [Commit!Next]_(Commit!vars)
  BY <1>1 DEF Boot, Goto, Fresh, Commit!vars, Commit!Next, Commit!Open
<1>2. ASSUME NEW b \in BOOLEAN, BootFails(b) PROVE [Commit!Next]_(Commit!vars)
  BY <1>2 DEF BootFails, Fresh, Commit!vars
<1>3. ASSUME NEW b \in BOOLEAN, RequestScan(b) PROVE [Commit!Next]_(Commit!vars)
  BY <1>3 DEF RequestScan, Requesting, Polling, MayScan, Fresh, Commit!vars
<1>4. ASSUME NEW b \in BOOLEAN, RequestReap(b) PROVE [Commit!Next]_(Commit!vars)
  BY <1>4 DEF RequestReap, Requesting, Polling, MayScan, UnlockForJoin, Fresh,
    Commit!vars
<1>5. CASE Ready
  BY <1>5 DEF Ready, Goto, Fresh, Commit!vars
<1>6. CASE Signal
  BY <1>6 DEF Signal, Fresh, Commit!vars
<1>7. CASE JoinWorker
  BY <1>7 DEF JoinWorker, Join, Fresh, Commit!vars
<1>8. CASE Relock
  BY <1>8 DEF Relock, ForgetWorker, Goto, Fresh, Commit!vars
<1>9. CASE Spawn
  BY <1>9 DEF Spawn, ResetCancel, Fresh, Commit!vars
<1>10. CASE SpawnFails
  BY <1>10 DEF SpawnFails, ResetCancel, Goto, Fresh, Commit!vars
<1>11. CASE BeginMutation
  BY <1>11 DEF BeginMutation, Polling, MayMutate, Fresh, Commit!vars,
    Commit!Next, Commit!Begin
<1>12. CASE BuildMutation
  BY <1>12 DEF BuildMutation, Goto, Fresh, Commit!vars
<1>13. CASE SaveMutation
  BY <1>13 DEF SaveMutation, Save, Goto, Fresh, Commit!vars, Commit!Next,
    Commit!Persist
<1>14. CASE AbortMutation
  BY <1>14 DEF AbortMutation, Discard, Fresh, Commit!vars, Commit!Next,
    Commit!Abandon
<1>15. CASE MSwapBrowse
  BY <1>15 DEF MSwapBrowse, SwapBrowse, Goto, Fresh, Commit!vars
<1>16. CASE Dispose(Main, "loop")
  BY <1>16 DEF Dispose, Goto, Fresh, Commit!vars
<1>17. CASE ReadCatalog
  BY <1>17 DEF ReadCatalog, Polling, Fresh, Commit!vars
<1>18. CASE ReadBrowse
  BY <1>18 DEF ReadBrowse, Fresh, Commit!vars
<1>19. CASE EndRead
  BY <1>19 DEF EndRead, Goto, Fresh, Commit!vars
<1>20. CASE BeginShutdown
  BY <1>20 DEF BeginShutdown, Goto, Fresh, Commit!vars
<1>21. CASE ShutCancel
  BY <1>21 DEF ShutCancel, MustJoin, Goto, Fresh, Commit!vars
<1>22. CASE ShutJoin
  BY <1>22 DEF ShutJoin, Join, Fresh, Commit!vars
<1>23. CASE ShutClear
  BY <1>23 DEF ShutClear, Goto, Fresh, Commit!vars
<1>24. CASE Free
  BY <1>24 DEF Free, Goto, Fresh, Commit!vars, Commit!Next, Commit!Close
<1>25. ASSUME NEW t \in Thread, SwapCatalog(t) PROVE [Commit!Next]_(Commit!vars)
  BY <1>25 DEF SwapCatalog, Goto, Fresh, Commit!vars, Commit!Next,
    Commit!Publish
<1>26. ASSUME NEW w \in Worker, WStart(w) PROVE [Commit!Next]_(Commit!vars)
  BY <1>26 DEF WStart, Goto, Fresh, Commit!vars, Commit!Next, Commit!Begin
<1>27. ASSUME NEW w \in Worker, WScan(w) PROVE [Commit!Next]_(Commit!vars)
  BY <1>27 DEF WScan, Goto, Fresh, Commit!vars
<1>28. ASSUME NEW w \in Worker, WAdopt(w) PROVE [Commit!Next]_(Commit!vars)
  BY <1>28 DEF WAdopt, Goto, Fresh, Commit!vars
<1>29. ASSUME NEW w \in Worker, WSave(w) PROVE [Commit!Next]_(Commit!vars)
  BY <1>29 DEF WSave, Save, Goto, Fresh, Commit!vars, Commit!Next,
    Commit!Persist
<1>30. ASSUME NEW w \in Worker, WFails(w) PROVE [Commit!Next]_(Commit!vars)
  BY <1>30 DEF WFails, WEnds, Discard, Report, Fresh, Commit!vars, Commit!Next,
    Commit!Abandon
<1>31. ASSUME NEW w \in Worker, WCancelled(w) PROVE [Commit!Next]_(Commit!vars)
  BY <1>31 DEF WCancelled, WEnds, Discard, Report, Fresh, Commit!vars,
    Commit!Next, Commit!Abandon
<1>32. ASSUME NEW w \in Worker, WSwapBrowse(w) PROVE [Commit!Next]_(Commit!vars)
  BY <1>32 DEF WSwapBrowse, SwapBrowse, Goto, Fresh, Commit!vars
<1>33. ASSUME NEW w \in Worker, Dispose(w, "exited") PROVE [Commit!Next]_(Commit!vars)
  BY <1>33 DEF Dispose, Goto, Fresh, Commit!vars
<1>34. CASE UNCHANGED vars
  BY <1>34 DEF vars, Fresh, Commit!vars
<1> HIDE DEF IInv, TypeOK, PointersOK, Pointer, Thread, ControlInv, BuildInv,
    Building, Scanning, MemoryInv, Serving, Running, Draws, DraftFact,
    memory, shared, flags, outcome, locals
<1> QED   BY NextActions, <1>1, <1>2, <1>3, <1>4, <1>5, <1>6, <1>7, <1>8,
    <1>9, <1>10, <1>11, <1>12, <1>13, <1>14, <1>15, <1>16, <1>17, <1>18,
    <1>19, <1>20, <1>21, <1>22, <1>23, <1>24, <1>25, <1>26, <1>27, <1>28,
    <1>29, <1>30, <1>31, <1>32, <1>33, <1>34 DEF Actions

(* The threads, their lock and their flags implement CatalogCommit.        *)
THEOREM Implements == Spec => ImplementsCommit
<1>1. Init => Commit!Init
  <2> SUFFICES ASSUME Init PROVE Commit!Init
    OBVIOUS
  <2>1. Draft = None
    BY DEF Init, Draft, Builders
  <2> QED
    BY <2>1, GenAssumption DEF Init, Fresh, Commit!Init
<1> QED
  BY <1>1, Invariance, CommitStep, PTL DEF Spec, ImplementsCommit, Commit!Spec

=============================================================================
