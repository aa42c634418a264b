---------------------------- MODULE LogStreamProofs ----------------------------
(****************************************************************************)
(* Theorems about LogStream, for every number of lines and pages and every  *)
(* mix of faults: the records of a log agree (HistoryLeads), those of a run *)
(* that passed are whole (PassedIsComplete), and a page misses nothing      *)
(* while its queue is bound (PageFollows).                                  *)
(****************************************************************************)
EXTENDS LogStream, TLAPS

\* Every action but the worker's leaves the worker and the records alone.
PageStep == \E p \in Pages : PageNext(p)

LEMMA PageStepKeeps == PageStep => UNCHANGED <<workerVars, storeVars>>
BY DEF PageStep, PageNext, OpenPage, CheckConsumer, WaitTimesOut, LeavePage, ConsumerBind,
       ShowLine, ConsumerDies, ConsumerReconnects, workerVars, storeVars, vars

-----------------------------------------------------------------------------
\* Types.

WorkerTypeOK ==
    /\ pc \in WorkerPC
    /\ run \in Nat /\ line_no \in Nat /\ container \in BOOLEAN
    /\ status \in {"DISPATCHED", "RUNNING", "PASSED", "FAILED"}
    /\ influx \subseteq Line /\ logLines \subseteq Line /\ published \in Seq(Line)

PageTypeOK ==
    /\ handler \in [Pages -> HandlerPC]
    /\ consumer \in [Pages -> ConsumerPC]
    /\ queue \in [Pages -> Seq(Nat)]
    /\ shown \in [Pages -> Seq(Nat)]
    /\ since \in [Pages -> Nat]
    /\ base \in [Pages -> Nat]

LEMMA TypeParts == StreamTypeOK <=> WorkerTypeOK /\ PageTypeOK /\ budget \in 0..MaxFaults
BY DEF StreamTypeOK, WorkerTypeOK, PageTypeOK

LEMMA ThisLineType == WorkerTypeOK => ThisLine \in Line
BY DEF WorkerTypeOK, ThisLine, Line

LEMMA FanoutType ==
    ASSUME WorkerTypeOK, PageTypeOK, Fanout
    PROVE  published' \in Seq(Line) /\ queue' \in [Pages -> Seq(Nat)]
<1>1. published' \in Seq(Line)
  BY ThisLineType DEF WorkerTypeOK, Fanout
<1>2. Len(published') \in Nat
  BY <1>1
<1>3. QED
  BY <1>1, <1>2 DEF PageTypeOK, Fanout

LEMMA WorkerTypeStep ==
    ASSUME WorkerTypeOK, PageTypeOK, Next
    PROVE  WorkerTypeOK'
<1>1. ThisLine \in Line
  BY ThisLineType
<1>2. ASSUME Fanout PROVE published' \in Seq(Line)
  BY <1>2, FanoutType
<1>3. CASE PageStep
  BY <1>3, PageStepKeeps DEF WorkerTypeOK, workerVars, storeVars
<1>4. CASE Deliver \/ StartContainer \/ StartRefused
  <2>1. CASE Deliver
    BY <2>1 DEF WorkerTypeOK, WorkerPC, Deliver, Goto, storeVars
  <2>2. CASE StartContainer \/ StartRefused
    BY <2>2 DEF WorkerTypeOK, WorkerPC, StartContainer, StartRefused, Goto, storeVars
  <2>3. QED
    BY <1>4, <2>1, <2>2
<1>5. CASE WriteLine \/ WriteFails
  BY <1>1, <1>5 DEF WorkerTypeOK, WorkerPC, WriteLine, WriteFails, Goto, storeVars
<1>6. CASE PublishLine
  BY <1>2, <1>6 DEF WorkerTypeOK, WorkerPC, PublishLine
<1>7. CASE PublishFails
  BY <1>2, <1>7 DEF WorkerTypeOK, WorkerPC, PublishFails, Goto
<1>8. CASE IndexLine \/ IndexFails
  BY <1>1, <1>8 DEF WorkerTypeOK, WorkerPC, IndexLine, IndexFails, Goto, storeVars
<1>9. CASE StreamEnds \/ Except \/ Cleanup \/ Acknowledge \/ WorkerCrash \/ ProcessDies
  BY <1>9 DEF WorkerTypeOK, WorkerPC, StreamEnds, Except, Cleanup, Acknowledge,
     WorkerCrash, ProcessDies,
              Goto, storeVars
<1>10. QED
  BY <1>3, <1>4, <1>5, <1>6, <1>7, <1>8, <1>9 DEF Next, RunNext, PageStep

LEMMA PageTypeStep ==
    ASSUME WorkerTypeOK, PageTypeOK, Next
    PROVE  PageTypeOK'
<1>1. ASSUME UNCHANGED pageVars PROVE PageTypeOK'
  BY <1>1 DEF PageTypeOK, pageVars
<1>2. CASE UNCHANGED pageVars
  BY <1>1, <1>2
<1>3. CASE PublishLine \/ PublishFails
  BY <1>3, FanoutType DEF PageTypeOK, PublishLine, PublishFails
<1>4. ASSUME NEW p \in Pages, PageNext(p) PROVE PageTypeOK'
  <2>1. Len(published) \in Nat /\ Len(shown[p]) \in Nat
    BY DEF WorkerTypeOK, PageTypeOK
  <2>2. CASE OpenPage(p) \/ CheckConsumer(p) \/ WaitTimesOut(p)
    BY <2>2 DEF PageTypeOK, HandlerPC, ConsumerPC, OpenPage, CheckConsumer, WaitTimesOut
  <2>3. CASE LeavePage(p)
    BY <2>3 DEF PageTypeOK, HandlerPC, ConsumerPC, LeavePage
  <2>4. CASE ConsumerBind(p)
    BY <2>1, <2>4 DEF PageTypeOK, ConsumerPC, ConsumerBind
  <2>5. CASE ShowLine(p)
    <3>1. Head(queue[p]) \in Nat /\ Tail(queue[p]) \in Seq(Nat)
      BY <2>5 DEF PageTypeOK, ShowLine
    <3>2. Append(shown[p], Head(queue[p])) \in Seq(Nat)
      BY <3>1 DEF PageTypeOK
    <3>3. QED
      BY <2>5, <3>1, <3>2 DEF PageTypeOK, ShowLine
  <2>6. CASE ConsumerDies(p) \/ ConsumerReconnects(p)
    <3>1. <<>> \in Seq(Nat)
      OBVIOUS
    <3>2. queue' \in [Pages -> Seq(Nat)]
      BY <2>6, <3>1 DEF PageTypeOK, ConsumerDies, ConsumerReconnects
    <3>3. consumer' \in [Pages -> ConsumerPC]
      BY <2>6 DEF PageTypeOK, ConsumerPC, ConsumerDies, ConsumerReconnects
    <3>4. QED
      BY <2>6, <3>2, <3>3 DEF PageTypeOK, ConsumerDies, ConsumerReconnects
  <2>7. QED
    BY <1>4, <2>2, <2>3, <2>4, <2>5, <2>6 DEF PageNext
<1>5. QED
  BY <1>2, <1>3, <1>4 DEF Next, RunNext, Deliver, StartContainer, StartRefused, WriteLine,
     WriteFails, IndexLine, IndexFails, StreamEnds, Except, Cleanup, Acknowledge,
        WorkerCrash, ProcessDies

LEMMA BudgetStep ==
    ASSUME budget \in 0..MaxFaults, Next
    PROVE  budget' \in 0..MaxFaults
<1>1. ASSUME NEW k, Fault(k) PROVE budget' \in 0..MaxFaults
  BY <1>1, StreamFaultsAssumption DEF Fault
<1>2. CASE UNCHANGED budget
  BY <1>2
<1>3. CASE WriteFails \/ PublishFails \/ IndexFails \/ WorkerCrash \/ ProcessDies
  BY <1>1, <1>3 DEF WriteFails, PublishFails, IndexFails, WorkerCrash, ProcessDies
<1>4. ASSUME NEW p \in Pages, PageNext(p) PROVE budget' \in 0..MaxFaults
  BY <1>1, <1>2, <1>4 DEF PageNext, OpenPage, CheckConsumer, WaitTimesOut, LeavePage,
     ConsumerBind, ShowLine, ConsumerDies, ConsumerReconnects
<1>5. QED
  BY <1>2, <1>3, <1>4 DEF Next, RunNext, Deliver, StartContainer, StartRefused, WriteLine,
     PublishLine, IndexLine, StreamEnds, Except, Cleanup, Acknowledge

LEMMA InitTypes ==
    ASSUME Init
    PROVE  StreamTypeOK
<1>1. WorkerTypeOK
  <2>1. published \in Seq(Line) /\ influx \subseteq Line /\ logLines \subseteq Line
    BY DEF Init
  <2>2. pc \in WorkerPC /\ run \in Nat /\ line_no \in Nat /\ container \in BOOLEAN
    BY DEF Init, WorkerPC
  <2>3. QED
    BY <2>1, <2>2 DEF Init, WorkerTypeOK
<1>2. PageTypeOK
  <2>1. <<>> \in Seq(Nat)
    OBVIOUS
  <2>2. QED
    BY <2>1 DEF Init, PageTypeOK, HandlerPC, ConsumerPC
<1>3. budget \in 0..MaxFaults
  BY StreamFaultsAssumption DEF Init
<1>4. QED
  BY <1>1, <1>2, <1>3, TypeParts

\* Type correctness of the log and of the pages that follow it.
THEOREM StreamTypes == Spec => []StreamTypeOK
<1>1. Init => StreamTypeOK
  BY InitTypes
<1>2. StreamTypeOK /\ [Next]_vars => StreamTypeOK'
  <2> SUFFICES ASSUME StreamTypeOK, [Next]_vars PROVE StreamTypeOK'
    OBVIOUS
  <2>1. WorkerTypeOK /\ PageTypeOK /\ budget \in 0..MaxFaults
    BY TypeParts
  <2>2. CASE Next
    <3>1. WorkerTypeOK' /\ PageTypeOK' /\ budget' \in 0..MaxFaults
      BY <2>1, <2>2, WorkerTypeStep, PageTypeStep, BudgetStep
    <3>2. QED
      BY <3>1 DEF StreamTypeOK, WorkerTypeOK, PageTypeOK
  <2>3. CASE UNCHANGED vars
    BY <2>3 DEF StreamTypeOK, vars, workerVars, storeVars, pageVars
  <2>4. QED
    BY <2>2, <2>3
<1>3. QED
  BY <1>1, <1>2, PTL DEF Spec

-----------------------------------------------------------------------------
\* The records of a log.

Earlier == {[run |-> run, line_no |-> k] : k \in 0..line_no - 1}

\* What the loop knows of the lines before the one it is at, and of this one.
LoopInv ==
    /\ pc = "start" => line_no = 0
    /\ pc \in {"stream", "publish", "index"} =>
          /\ Earlier \subseteq influx \cap Published
          /\ {y \in Earlier : Due(y)} \subseteq logLines
    /\ pc \in {"publish", "index"} => ThisLine \in influx
    /\ pc = "index" => ThisLine \in Published /\ Due(ThisLine)

RecordInv == WorkerTypeOK /\ LoopInv /\ HistoryLeads

LEMMA BeforeThisLine == Before(ThisLine) = Earlier
BY DEF Before, ThisLine, Earlier

LEMMA FanoutPublished ==
    ASSUME WorkerTypeOK, Fanout
    PROVE  Published' = Published \cup {ThisLine}
<1>1. published' = Append(published, ThisLine) /\ ThisLine \in Line /\ published \in Seq(Line)
  BY ThisLineType DEF WorkerTypeOK, Fanout
<1>2. DOMAIN published' = DOMAIN published \cup {Len(published) + 1}
  BY <1>1
<1>3. \A i \in DOMAIN published : published'[i] = published[i]
  BY <1>1
<1>4. published'[Len(published) + 1] = ThisLine
  BY <1>1
<1>5. QED
  BY <1>2, <1>3, <1>4 DEF Published

\* The lines before the next one are those before this one, and this one.
LEMMA EarlierNext ==
    ASSUME WorkerTypeOK, run' = run, line_no' = line_no + 1
    PROVE  Earlier' = Earlier \cup {ThisLine}
<1>1. 0..line_no' - 1 = (0..line_no - 1) \cup {line_no}
  BY DEF WorkerTypeOK
<1>2. QED
  BY <1>1 DEF Earlier, ThisLine

\* Records only grow, and a larger record covers what a smaller one did.
LEMMA RecordsGrow ==
    ASSUME HistoryLeads, Published \subseteq Published', logLines \subseteq logLines',
           Published' \subseteq influx', influx \subseteq influx',
           \A x \in influx' \ influx :
              /\ Before(x) \subseteq influx \cap Published
              /\ {y \in Before(x) : Due(y)} \subseteq logLines,
           \A x \in logLines' \ logLines : x \in Published' /\ Due(x)
    PROVE  HistoryLeads'
<1>1. \A x \in influx' : /\ Before(x) \subseteq influx \cap Published
                         /\ {y \in Before(x) : Due(y)} \subseteq logLines
  BY DEF HistoryLeads
<1>2. \A x \in logLines' : x \in Published' /\ Due(x)
  BY DEF HistoryLeads
<1>3. \A x \in influx' : Before(x) \subseteq influx' \cap Published'
  BY <1>1
<1>4. \A x \in influx' : {y \in Before(x) : Due(y)} \subseteq logLines'
  BY <1>1
<1>5. \A x : Before(x)' = Before(x) /\ Due(x)' = Due(x)
  BY DEF Before, Due
<1>6. QED
  BY <1>2, <1>3, <1>4 DEF HistoryLeads, Before, Due

LEMMA RecordStep ==
    ASSUME RecordInv, WorkerTypeOK', Next
    PROVE  LoopInv' /\ HistoryLeads'
<1> USE DEF RecordInv
<1>1. Published \subseteq influx
  BY DEF HistoryLeads
<1>2. ASSUME UNCHANGED storeVars PROVE UNCHANGED <<influx, logLines, published, Published>> /\ HistoryLeads'
  <2>1. UNCHANGED <<influx, logLines, published, Published>>
    BY <1>2 DEF storeVars, Published
  <2>2. QED
    BY <2>1, <1>1, RecordsGrow
<1>3. CASE PageStep
  <2>1. UNCHANGED <<workerVars, storeVars>>
    BY <1>3, PageStepKeeps
  <2>2. QED
    BY <2>1, <1>2 DEF LoopInv, workerVars, storeVars, Earlier, ThisLine, Due
<1>4. CASE Deliver
  BY <1>2, <1>4 DEF LoopInv, Deliver, Goto
<1>5. CASE StartContainer
  <2>1. pc' = "stream" /\ run' = run /\ line_no' = line_no /\ UNCHANGED storeVars
    BY <1>5 DEF StartContainer, Goto
  <2>2. line_no' = 0
    BY <2>1, <1>5 DEF LoopInv, StartContainer, Goto
  <2>3. Earlier' = {}
    BY <2>2 DEF Earlier
  <2>4. QED
    BY <2>1, <2>3, <1>2 DEF LoopInv
<1>6. CASE StartRefused \/ StreamEnds \/ Except \/ Cleanup
           \/ Acknowledge \/ WorkerCrash \/ ProcessDies
  <2>1. pc' \notin {"stream", "publish", "index", "start"} /\ UNCHANGED storeVars
    BY <1>6 DEF StartRefused, StreamEnds, Except, Cleanup, Acknowledge,
       WorkerCrash, ProcessDies, Goto
  <2>2. QED
    BY <2>1, <1>2 DEF LoopInv
<1>7. CASE WriteLine \/ WriteFails
  <2>1. /\ pc = "stream" /\ pc' \in {"publish", "except"}
        /\ influx' \in {influx, influx \cup {ThisLine}}
        /\ pc' = "publish" => influx' = influx \cup {ThisLine}
        /\ UNCHANGED <<run, line_no, logLines, published>>
    BY <1>7 DEF WriteLine, WriteFails, Goto
  <2>2. /\ Earlier \subseteq influx \cap Published
        /\ {y \in Earlier : Due(y)} \subseteq logLines
    BY <2>1 DEF LoopInv
  <2>3. UNCHANGED <<Published, Earlier, ThisLine>>
    BY <2>1 DEF Published, Earlier, ThisLine
  <2>4. HistoryLeads'
    BY <2>1, <2>2, <2>3, <1>1, BeforeThisLine, RecordsGrow
  <2>5. LoopInv'
    BY <2>1, <2>2, <2>3 DEF LoopInv, Due
  <2>6. QED
    BY <2>4, <2>5
<1>8. CASE PublishLine \/ PublishFails
  <2>1. pc = "publish" /\ ThisLine \in influx
    BY <1>8 DEF PublishLine, PublishFails, Goto, LoopInv
  <2>2. /\ Earlier \subseteq influx \cap Published
        /\ {y \in Earlier : Due(y)} \subseteq logLines
    BY <2>1 DEF LoopInv
  <2>3. UNCHANGED <<influx, logLines, run>>
    BY <1>8 DEF PublishLine, PublishFails
  <2>4. Published' = Published \/ Published' = Published \cup {ThisLine}
    BY <1>8, FanoutPublished DEF PublishLine, PublishFails, Published
  <2>5. HistoryLeads'
    BY <2>1, <2>3, <2>4, <1>1, RecordsGrow
  <2>6. CASE PublishFails
    <3>1. pc' = "except"
      BY <2>6 DEF PublishFails, Goto
    <3>2. QED
      BY <3>1, <2>5 DEF LoopInv
  <2>7. CASE PublishLine
    <3>1. Published' = Published \cup {ThisLine}
      BY <2>7, FanoutPublished DEF PublishLine
    <3>2. CASE line_no % CheckpointEvery = 0
      <4>1. pc' = "index" /\ UNCHANGED line_no
        BY <2>7, <3>2 DEF PublishLine
      <4>2. UNCHANGED <<Earlier, ThisLine>>
        BY <4>1, <2>3 DEF Earlier, ThisLine
      <4>3. Due(ThisLine)
        BY <3>2 DEF Due, ThisLine
      <4>4. QED
        BY <4>1, <4>2, <4>3, <3>1, <2>1, <2>2, <2>3, <2>5 DEF LoopInv, Due
    <3>3. CASE line_no % CheckpointEvery # 0
      <4>1. pc' = "stream" /\ line_no' = line_no + 1
        BY <2>7, <3>3 DEF PublishLine
      <4>2. Earlier' = Earlier \cup {ThisLine}
        BY <4>1, <2>3, EarlierNext
      <4>3. ~Due(ThisLine)
        BY <3>3 DEF Due, ThisLine
      <4>4. QED
        BY <4>1, <4>2, <4>3, <3>1, <2>1, <2>2, <2>3, <2>5 DEF LoopInv, Due
    <3>4. QED
      BY <3>2, <3>3
  <2>8. QED
    BY <1>8, <2>6, <2>7
<1>9. CASE IndexLine \/ IndexFails
  <2>1. /\ pc = "index" /\ pc' \in {"stream", "except"}
        /\ logLines' \in {logLines, logLines \cup {ThisLine}}
        /\ pc' = "stream" => /\ logLines' = logLines \cup {ThisLine}
                            /\ line_no' = line_no + 1
        /\ UNCHANGED <<run, influx, published>>
    BY <1>9 DEF IndexLine, IndexFails, Goto
  <2>2. /\ Earlier \subseteq influx \cap Published
        /\ {y \in Earlier : Due(y)} \subseteq logLines
        /\ ThisLine \in influx /\ ThisLine \in Published /\ Due(ThisLine)
    BY <2>1 DEF LoopInv
  <2>3. UNCHANGED Published
    BY <2>1 DEF Published
  <2>4. pc' = "stream" => Earlier' = Earlier \cup {ThisLine}
    BY <2>1, EarlierNext
  <2>5. HistoryLeads'
    BY <2>1, <2>2, <2>3, <1>1, RecordsGrow
  <2>6. LoopInv'
    BY <2>1, <2>2, <2>3, <2>4 DEF LoopInv, Due
  <2>7. QED
    BY <2>5, <2>6
<1>10. QED
  BY <1>3, <1>4, <1>5, <1>6, <1>7, <1>8, <1>9 DEF Next, RunNext, PageStep

LEMMA RecordInvHolds == Spec => []RecordInv
<1>1. Init => RecordInv
  <2> SUFFICES ASSUME Init PROVE LoopInv /\ HistoryLeads
    BY InitTypes, TypeParts DEF RecordInv
  <2>1. Published = {}
    BY DEF Init, Published
  <2>2. QED
    BY <2>1 DEF Init, LoopInv, HistoryLeads
<1>2. RecordInv /\ WorkerTypeOK' /\ [Next]_vars => RecordInv'
  <2> SUFFICES ASSUME RecordInv, WorkerTypeOK', [Next]_vars PROVE LoopInv' /\ HistoryLeads'
    BY DEF RecordInv
  <2>1. CASE Next
    BY <2>1, RecordStep
  <2>2. CASE UNCHANGED vars
    BY <2>2 DEF RecordInv, LoopInv, HistoryLeads, Published, Earlier, ThisLine, Before, Due,
       vars, workerVars, storeVars
  <2>3. QED
    BY <2>1, <2>2
<1>3. StreamTypeOK => WorkerTypeOK
  BY TypeParts
<1>4. QED
  BY <1>1, <1>2, <1>3, StreamTypes, PTL DEF Spec

\* The history, the live view and the index agree at every moment, whatever
\* fails or dies in the loop of run_test_bundle.
THEOREM RecordsAgree == Spec => []HistoryLeads
<1>1. RecordInv => HistoryLeads
  BY DEF RecordInv
<1>2. QED
  BY <1>1, RecordInvHolds, PTL

-----------------------------------------------------------------------------
\* A run that passes.

\* The points of this execution are those of lines before the one it is at,
\* and perhaps of this one.
PassInv ==
    /\ \A x \in influx : x.run <= run
    /\ pc = "start" => \A x \in influx : x.run # run
    /\ pc \in {"stream", "publish", "index"} =>
          \A x \in influx : x.run = run => x \in Earlier \/ (pc # "stream" /\ x = ThisLine)
    /\ pc \in {"start", "stream", "publish", "index", "except"} => status # "PASSED"
    /\ PassedIsComplete

\* At the end of its log an execution has every line it read.
LEMMA LogIsComplete ==
    ASSUME RecordInv, PassInv, pc = "stream"
    PROVE  /\ {x \in influx : x.run = run} = Earlier
           /\ {x \in logLines : x.run = run} = {x \in Earlier : Due(x)}
<1>1. \A x \in Earlier : x.run = run
  BY DEF Earlier
<1>2. Earlier \subseteq influx /\ {y \in Earlier : Due(y)} \subseteq logLines
  BY DEF RecordInv, LoopInv
<1>3. \A x \in logLines : x \in influx /\ Due(x)
  BY DEF RecordInv, HistoryLeads
<1>4. \A x \in influx : x.run = run => x \in Earlier
  BY DEF PassInv
<1>5. QED
  BY <1>1, <1>2, <1>3, <1>4

LEMMA PassStep ==
    ASSUME RecordInv, PassInv, Next
    PROVE  PassInv'
<1> USE DEF PassInv
<1>1. run \in Nat /\ line_no \in Nat /\ influx \subseteq Line
  BY DEF RecordInv, WorkerTypeOK
<1>2. ASSUME UNCHANGED <<run, line_no, influx, logLines>>, status' # "PASSED" \/ status' = status
      PROVE  PassedIsComplete' /\ Earlier' = Earlier /\ ThisLine' = ThisLine
  BY <1>2 DEF PassedIsComplete, Earlier, ThisLine, Due
<1>3. CASE PageStep
  <2>1. UNCHANGED <<workerVars, storeVars>>
    BY <1>3, PageStepKeeps
  <2>2. QED
    BY <2>1, <1>2 DEF workerVars, storeVars
<1>4. CASE Deliver
  <2>1. pc' = "start" /\ run' = run + 1 /\ status' = "RUNNING" /\ influx' = influx
    BY <1>4 DEF Deliver, Goto, storeVars
  <2>2. \A x \in influx : x.run \in Nat /\ x.run <= run
    BY <1>1 DEF Line
  <2>3. \A x \in influx' : x.run <= run' /\ x.run # run'
    BY <2>1, <2>2, <1>1
  <2>4. PassedIsComplete'
    BY <2>1 DEF PassedIsComplete
  <2>5. QED
    BY <2>1, <2>3, <2>4
<1>5. CASE StartContainer \/ StartRefused
  <2>1. /\ pc = "start" /\ pc' \in {"stream", "except"}
        /\ UNCHANGED <<run, line_no, influx, logLines, status>>
    BY <1>5 DEF StartContainer, StartRefused, Goto, storeVars
  <2>2. QED
    BY <2>1, <1>2
<1>6. CASE WriteLine \/ WriteFails
  <2>1. /\ pc = "stream" /\ pc' \in {"publish", "except"}
        /\ influx' \in {influx, influx \cup {ThisLine}}
        /\ UNCHANGED <<run, line_no, logLines, status>>
    BY <1>6 DEF WriteLine, WriteFails, Goto
  <2>2. UNCHANGED <<Earlier, ThisLine>>
    BY <2>1 DEF Earlier, ThisLine
  <2>3. ThisLine.run = run
    BY DEF ThisLine
  <2>4. \A x \in influx' : x.run <= run
    BY <2>1, <2>3, <1>1
  <2>5. status' # "PASSED"
    BY <2>1
  <2>6. QED
    BY <2>1, <2>2, <2>4, <2>5 DEF PassedIsComplete
<1>7. CASE PublishLine \/ IndexLine
  <2>1. /\ pc \in {"publish", "index"} /\ pc' \in {"stream", "index"}
        /\ UNCHANGED <<run, influx, status>>
        /\ (pc' = "index" /\ line_no' = line_no) \/ line_no' = line_no + 1
    BY <1>7 DEF PublishLine, IndexLine, Goto
  <2>2. CASE pc' = "index" /\ line_no' = line_no
    <3>1. UNCHANGED <<Earlier, ThisLine>>
      BY <2>1, <2>2 DEF Earlier, ThisLine
    <3>2. QED
      BY <2>1, <2>2, <3>1 DEF PassedIsComplete
  <2>3. CASE line_no' = line_no + 1
    <3>1. Earlier' = Earlier \cup {ThisLine}
      BY <2>1, <2>3, EarlierNext DEF RecordInv
    <3>2. QED
      BY <2>1, <3>1 DEF PassedIsComplete
  <2>4. QED
    BY <2>1, <2>2, <2>3
<1>8. CASE PublishFails \/ IndexFails
  <2>1. /\ pc \in {"publish", "index"} /\ pc' = "except"
        /\ UNCHANGED <<run, influx, status>>
    BY <1>8 DEF PublishFails, IndexFails, Goto
  <2>2. QED
    BY <2>1 DEF PassedIsComplete
<1>9. CASE StreamEnds
  <2>1. pc = "stream" /\ pc' = "cleanup" /\ UNCHANGED <<run, line_no, influx, logLines>>
    BY <1>9 DEF StreamEnds, Goto, storeVars
  <2>2. PassedIsComplete'
    BY <2>1, LogIsComplete DEF PassedIsComplete, Earlier, Due
  <2>3. QED
    BY <2>1, <2>2
<1>10. CASE Except
  <2>1. pc' = "cleanup" /\ status' = "FAILED" /\ UNCHANGED <<run, influx>>
    BY <1>10 DEF Except, Goto, storeVars
  <2>2. QED
    BY <2>1 DEF PassedIsComplete
<1>11. CASE Cleanup \/ Acknowledge \/ WorkerCrash \/ ProcessDies
  <2>1. /\ pc' \in {"return", "done", "queued"}
        /\ UNCHANGED <<run, line_no, influx, logLines, status>>
    BY <1>11 DEF Cleanup, Acknowledge, WorkerCrash, ProcessDies, Goto, storeVars
  <2>2. QED
    BY <2>1, <1>2
<1>12. QED
  BY <1>3, <1>4, <1>5, <1>6, <1>7, <1>8, <1>9, <1>10, <1>11 DEF Next, RunNext, PageStep

\* No line of a run that PASSED is missing from InfluxDB or from the index,
\* although any store may fail and the worker die (run_test_bundle).
THEOREM PassedRunsAreComplete == Spec => []PassedIsComplete
<1>1. Init => PassInv
  BY DEF Init, PassInv, PassedIsComplete
<1>2. RecordInv /\ PassInv /\ [Next]_vars => PassInv'
  <2> SUFFICES ASSUME RecordInv, PassInv, [Next]_vars PROVE PassInv'
    OBVIOUS
  <2>1. CASE UNCHANGED vars
    BY <2>1 DEF PassInv, PassedIsComplete, Earlier, ThisLine, Due, vars, workerVars, storeVars
  <2>2. QED
    BY <2>1, PassStep
<1>3. PassInv => PassedIsComplete
  BY DEF PassInv
<1>4. QED
  BY <1>1, <1>2, <1>3, RecordInvHolds, PTL DEF Spec

-----------------------------------------------------------------------------
\* The pages.

Ordered(p) == \A i, j \in DOMAIN shown[p] : i < j => shown[p][i] < shown[p][j]

Complete(p) ==
    LET new == Len(shown[p]) - base[p]
    IN  /\ \A i \in 1..new : shown[p][base[p] + i] = since[p] + i
        /\ \A i \in DOMAIN queue[p] : queue[p][i] = since[p] + new + i
        /\ since[p] + new + Len(queue[p]) = Len(published)

\* What a page showed before its queue was bound was published before that, and
\* only a bound queue holds messages.
PageInv(p) ==
    /\ since[p] <= Len(published) /\ base[p] <= Len(shown[p])
    /\ \A i \in DOMAIN shown[p] : shown[p][i] <= Len(published)
    /\ ~Bound(p) => queue[p] = <<>>
    /\ Bound(p) => Complete(p) /\ \A i \in 1..base[p] : shown[p][i] <= since[p]
    /\ Ordered(p)

\* What the proofs below need of the types, for one page.
PageTypes(p) ==
    /\ published \in Seq(Line)
    /\ queue[p] \in Seq(Nat) /\ shown[p] \in Seq(Nat)
    /\ since[p] \in Nat /\ base[p] \in Nat

LEMMA PageQuiet ==
    ASSUME NEW p \in Pages, PageInv(p), published' = published, shown'[p] = shown[p],
           since'[p] = since[p], base'[p] = base[p],
           \/ Bound(p)' = Bound(p) /\ queue'[p] = queue[p]
           \/ ~Bound(p)' /\ queue'[p] = <<>>
    PROVE  PageInv(p)'
<1>1. UNCHANGED Ordered(p)
  BY DEF Ordered
<1>2. CASE Bound(p)' = Bound(p) /\ queue'[p] = queue[p]
  <2>1. UNCHANGED Complete(p)
    BY <1>2 DEF Complete
  <2>2. QED
    BY <1>1, <1>2, <2>1 DEF PageInv
<1>3. CASE ~Bound(p)' /\ queue'[p] = <<>>
  BY <1>1, <1>3 DEF PageInv
<1>4. QED
  BY <1>2, <1>3

LEMMA PageFanout ==
    ASSUME NEW p \in Pages, PageInv(p), PageTypes(p), ThisLine \in Line, Fanout,
           UNCHANGED <<consumer, shown, since, base>>
    PROVE  PageInv(p)'
<1> DEFINE n == Len(published)
<1>1. n \in Nat /\ Len(published') = n + 1
  BY DEF PageTypes, Fanout
<1>2. queue'[p] = IF Bound(p) THEN Append(queue[p], n + 1) ELSE queue[p]
  BY <1>1 DEF Fanout
<1>3. UNCHANGED <<Ordered(p), Bound(p), shown[p], since[p], base[p]>>
  BY DEF Ordered, Bound
<1>4. \A i \in DOMAIN shown[p] : shown[p][i] <= n + 1
  BY <1>1 DEF PageInv, PageTypes
<1>5. since[p] <= n + 1
  BY <1>1 DEF PageInv, PageTypes
<1>6. CASE Bound(p)
  <2> DEFINE new == Len(shown[p]) - base[p]
  <2>1. Complete(p)
    BY <1>6 DEF PageInv
  <2>2. Len(queue'[p]) = Len(queue[p]) + 1
    BY <1>1, <1>2, <1>6 DEF PageTypes
  <2>3. new \in Nat /\ Len(queue[p]) \in Nat
    BY DEF PageTypes, PageInv
  <2>4. since[p] + new + Len(queue'[p]) = n + 1
    <3>1. since[p] + new + Len(queue[p]) = n /\ since[p] \in Nat
      BY <2>1 DEF Complete, PageTypes
    <3>2. new \in Nat /\ n \in Nat /\ Len(queue[p]) \in Nat
      BY <2>3, <1>1
    <3> HIDE DEF new, n
    <3>3. since[p] + new + (Len(queue[p]) + 1) = n + 1
      BY <3>1, <3>2
    <3>4. QED
      BY <3>3, <2>2
  <2>5. ASSUME NEW i \in DOMAIN queue'[p] PROVE queue'[p][i] = since[p] + new + i
    <3>1. CASE i \in DOMAIN queue[p]
      BY <3>1, <2>1, <1>2, <1>6, <1>1 DEF Complete, PageTypes
    <3>2. CASE i = Len(queue[p]) + 1
      BY <3>2, <2>2, <2>4, <1>2, <1>6, <1>1, <2>3 DEF PageTypes
    <3>3. i \in DOMAIN queue[p] \/ i = Len(queue[p]) + 1
      BY <1>2, <1>6, <1>1, <2>2 DEF PageTypes
    <3>4. QED
      BY <3>1, <3>2, <3>3
  <2>6. Complete(p)'
    <3>1. \A i \in 1..new : shown[p][base[p] + i] = since[p] + i
      BY <2>1 DEF Complete
    <3>2. QED
      BY <3>1, <1>1, <1>3, <2>4, <2>5 DEF Complete
  <2>7. QED
    BY <1>1, <1>3, <1>4, <1>5, <1>6, <2>6 DEF PageInv
<1>7. CASE ~Bound(p)
  BY <1>1, <1>2, <1>3, <1>4, <1>5, <1>7 DEF PageInv
<1>8. QED
  BY <1>6, <1>7

LEMMA PageShow ==
    ASSUME NEW p \in Pages, PageInv(p), PageTypes(p), PageTypeOK, ShowLine(p)
    PROVE  PageInv(p)'
<1> DEFINE new == Len(shown[p]) - base[p]
           x == Head(queue[p])
<1>1. /\ Bound(p) /\ queue[p] # <<>> /\ Bound(p)' /\ published' = published
      /\ since'[p] = since[p] /\ base'[p] = base[p]
  BY DEF ShowLine, storeVars, Bound
<1>2. shown'[p] = Append(shown[p], x) /\ queue'[p] = Tail(queue[p])
  BY DEF ShowLine, PageTypeOK
<1>3. Complete(p) /\ new \in Nat
  BY <1>1 DEF PageInv, PageTypes
<1>4. x = since[p] + new + 1 /\ x \in Nat
  <2>1. 1 \in DOMAIN queue[p] /\ x = queue[p][1]
    BY <1>1 DEF PageTypes
  <2>2. QED
    BY <1>3, <2>1 DEF Complete, PageTypes
<1>5. /\ Len(shown'[p]) = Len(shown[p]) + 1
      /\ shown'[p][Len(shown[p]) + 1] = x
      /\ \A i \in DOMAIN shown[p] : shown'[p][i] = shown[p][i]
      /\ \A i \in DOMAIN shown'[p] : i \in DOMAIN shown[p] \/ i = Len(shown[p]) + 1
  BY <1>2, <1>4 DEF PageTypes
<1>6. /\ Len(queue'[p]) = Len(queue[p]) - 1 /\ Len(queue[p]) \in Nat \ {0}
      /\ \A i \in DOMAIN queue'[p] : i + 1 \in DOMAIN queue[p] /\ queue'[p][i] = queue[p][i + 1]
  BY <1>1, <1>2 DEF PageTypes
<1>7. \A i \in DOMAIN shown[p] : i \in 1..Len(shown[p]) /\ shown[p][i] \in Nat
  BY DEF PageTypes
<1>8. \A i \in DOMAIN shown[p] : shown[p][i] < x
  <2> SUFFICES ASSUME NEW i \in DOMAIN shown[p] PROVE shown[p][i] < x
    OBVIOUS
  <2>1. CASE i <= base[p]
    <3>1. i \in 1..base[p]
      BY <2>1, <1>7 DEF PageTypes
    <3>2. shown[p][i] <= since[p]
      BY <3>1, <1>1 DEF PageInv
    <3>3. QED
      BY <3>2, <1>3, <1>4, <1>7 DEF PageTypes
  <2>2. CASE ~(i <= base[p])
    <3>1. i - base[p] \in 1..new
      BY <2>2, <1>7, <1>3 DEF PageTypes
    <3>2. shown[p][base[p] + (i - base[p])] = since[p] + (i - base[p])
      BY <3>1, <1>3 DEF Complete
    <3>3. base[p] + (i - base[p]) = i
      BY <1>7 DEF PageTypes
    <3>4. shown[p][i] = since[p] + (i - base[p])
      BY <3>2, <3>3
    <3>5. since[p] \in Nat /\ i - base[p] <= new /\ i - base[p] \in Nat
      BY <3>1, <1>3 DEF PageTypes
    <3> HIDE DEF new, x
    <3>6. QED
      BY <3>4, <3>5, <1>3, <1>4
  <2>3. QED
    BY <2>1, <2>2
<1>9. Ordered(p)'
  <2> SUFFICES ASSUME NEW i \in DOMAIN shown'[p], NEW j \in DOMAIN shown'[p], i < j
               PROVE  shown'[p][i] < shown'[p][j]
    BY DEF Ordered
  <2>1. i \in DOMAIN shown[p]
    BY <1>5, <1>7 DEF PageTypes
  <2>2. CASE j \in DOMAIN shown[p]
    BY <2>1, <2>2, <1>5 DEF PageInv, Ordered
  <2>3. CASE j = Len(shown[p]) + 1
    BY <2>1, <2>3, <1>5, <1>8
  <2>4. QED
    BY <2>2, <2>3, <1>5
<1>10. Complete(p)'
  <2>1. Len(shown'[p]) - base'[p] = new + 1
    BY <1>1, <1>5 DEF PageTypes
  <2>2. ASSUME NEW i \in 1..(new + 1) PROVE shown'[p][base[p] + i] = since[p] + i
    <3>1. CASE i \in 1..new
      <4>1. base[p] + i \in DOMAIN shown[p]
        BY <3>1, <1>3 DEF PageTypes
      <4>2. QED
        BY <3>1, <4>1, <1>3, <1>5 DEF Complete
    <3>2. CASE i = new + 1
      <4>1. base[p] + i = Len(shown[p]) + 1
        BY <3>2 DEF PageTypes
      <4>2. QED
        <5>1. shown'[p][base[p] + i] = x /\ since[p] \in Nat
          BY <4>1, <1>5 DEF PageTypes
        <5> HIDE DEF new, x
        <5>2. QED
          BY <5>1, <3>2, <1>3, <1>4
    <3>3. QED
      BY <3>1, <3>2, <1>3
  <2>3. ASSUME NEW i \in DOMAIN queue'[p] PROVE queue'[p][i] = since[p] + (new + 1) + i
    <3>1. i + 1 \in DOMAIN queue[p] /\ queue'[p][i] = queue[p][i + 1] /\ i \in Nat
      BY <1>6, <1>2 DEF PageTypes
    <3>2. queue[p][i + 1] = since[p] + new + (i + 1)
      BY <3>1, <1>3 DEF Complete
    <3>3. since[p] \in Nat
      BY DEF PageTypes
    <3> HIDE DEF new, x
    <3>4. QED
      BY <3>1, <3>2, <3>3, <1>3
  <2>4. since[p] + (new + 1) + Len(queue'[p]) = Len(published)
    <3>1. since[p] + new + Len(queue[p]) = Len(published)
      BY <1>3 DEF Complete
    <3>2. since[p] \in Nat
      BY DEF PageTypes
    <3>3. Len(queue'[p]) = Len(queue[p]) - 1 /\ Len(queue[p]) \in Nat
      BY <1>6
    <3>4. new \in Nat
      BY <1>3
    <3> HIDE DEF new, x
    <3>5. QED
      BY <3>1, <3>2, <3>3, <3>4
  <2>5. QED
    BY <1>1, <2>1, <2>2, <2>3, <2>4 DEF Complete
<1>11. x <= Len(published)
  <2>1. since[p] + new + Len(queue[p]) = Len(published)
    BY <1>3 DEF Complete
  <2>2. Len(queue[p]) \in Nat /\ Len(queue[p]) >= 1
    BY <1>6
  <2>3. since[p] \in Nat /\ new \in Nat /\ x = since[p] + new + 1
    BY <1>3, <1>4 DEF PageTypes
  <2> HIDE DEF new, x
  <2>4. QED
    BY <2>1, <2>2, <2>3
<1>12. \A i \in DOMAIN shown'[p] : shown'[p][i] <= Len(published)
  BY <1>5, <1>11 DEF PageInv
<1>13. \A i \in 1..base[p] : shown'[p][i] <= since[p]
  <2>1. \A i \in 1..base[p] : i \in DOMAIN shown[p]
    BY DEF PageInv, PageTypes
  <2>2. QED
    BY <2>1, <1>1, <1>5 DEF PageInv
<1>14. base[p] <= Len(shown'[p])
  BY <1>5 DEF PageInv, PageTypes
<1>15. QED
  BY <1>1, <1>9, <1>10, <1>12, <1>13, <1>14 DEF PageInv

\* Binding the queue: from here on, what counts is what is published next.
LEMMA PageBind ==
    ASSUME NEW p \in Pages, PageInv(p), PageTypes(p), PageTypeOK, ConsumerBind(p)
    PROVE  PageInv(p)'
<1>1. /\ ~Bound(p) /\ queue[p] = <<>>
      /\ UNCHANGED <<published, queue[p], shown[p], Ordered(p)>>
      /\ since'[p] = Len(published) /\ base'[p] = Len(shown[p])
  BY DEF ConsumerBind, Bound, storeVars, PageTypeOK, PageInv, Ordered
<1>2. Len(published) \in Nat /\ Len(shown[p]) \in Nat /\ Len(queue[p]) = 0 /\ DOMAIN queue[p] = {}
  BY <1>1 DEF PageTypes
<1>3. \A i \in 1..Len(shown[p]) : shown[p][i] <= Len(published)
  BY DEF PageInv, PageTypes
<1>4. Complete(p)'
  BY <1>1, <1>2 DEF Complete
<1>5. QED
  BY <1>1, <1>2, <1>3, <1>4 DEF PageInv

Unopened == \A p \in Pages : handler[p] = "off" => consumer[p] = "none"

\* A page that was not opened has no consumer.
LEMMA NoConsumerUnopened == Spec => []Unopened
<1>1. Init => Unopened
  BY DEF Init, Unopened
<1>2. StreamTypeOK /\ Unopened /\ [Next]_vars => Unopened'
  <2> SUFFICES ASSUME StreamTypeOK, Unopened, [Next]_vars PROVE Unopened'
    OBVIOUS
  <2>1. PageTypeOK
    BY TypeParts
  <2>2. ASSUME UNCHANGED <<handler, consumer>> PROVE Unopened'
    BY <2>2 DEF Unopened
  <2>3. ASSUME NEW p \in Pages, PageNext(p) PROVE Unopened'
    <3>1. CASE OpenPage(p) \/ CheckConsumer(p) \/ WaitTimesOut(p) \/ LeavePage(p)
      BY <2>1, <3>1 DEF Unopened, PageTypeOK, OpenPage, CheckConsumer, WaitTimesOut, LeavePage
    <3>2. CASE ConsumerBind(p) \/ ShowLine(p) \/ ConsumerDies(p) \/ ConsumerReconnects(p)
      BY <2>1, <3>2 DEF Unopened, PageTypeOK, ConsumerBind, ShowLine, ConsumerDies,
         ConsumerReconnects, Bound
    <3>3. QED
      BY <2>3, <3>1, <3>2 DEF PageNext
  <2>4. CASE RunNext
    BY <2>2, <2>4 DEF RunNext, Deliver, StartContainer, StartRefused, WriteLine, WriteFails,
       PublishLine, PublishFails, IndexLine, IndexFails, StreamEnds, Except, Cleanup,
       Acknowledge, WorkerCrash, ProcessDies, pageVars
  <2>5. CASE UNCHANGED vars
    BY <2>2, <2>5 DEF vars, pageVars
  <2>6. QED
    BY <2>3, <2>4, <2>5 DEF Next
<1>3. QED
  BY <1>1, <1>2, StreamTypes, PTL DEF Spec

LEMMA PagesStep ==
    ASSUME StreamTypeOK, Unopened, \A p \in Pages : PageInv(p), [Next]_vars
    PROVE  \A p \in Pages : PageInv(p)'
<1> SUFFICES ASSUME NEW p \in Pages PROVE PageInv(p)'
  OBVIOUS
<1>1. PageTypes(p) /\ PageTypeOK /\ ThisLine \in Line /\ PageInv(p)
  BY TypeParts, ThisLineType DEF PageTypes, PageTypeOK, WorkerTypeOK
<1>2. ASSUME UNCHANGED <<published, pageVars>> PROVE PageInv(p)'
  <2>1. UNCHANGED <<consumer, queue, shown, since, base>>
    BY <1>2 DEF pageVars
  <2>2. Bound(p)' = Bound(p)
    BY <2>1 DEF Bound
  <2>3. QED
    BY <1>1, <1>2, <2>1, <2>2, PageQuiet
<1>3. ASSUME RunNext PROVE PageInv(p)'
  <2>1. CASE PublishLine \/ PublishFails
    <3>1. CASE Fanout
      BY <1>1, <2>1, <3>1, PageFanout DEF PublishLine, PublishFails
    <3>2. CASE UNCHANGED <<published, queue>>
      BY <1>2, <2>1, <3>2 DEF PublishLine, PublishFails, pageVars
    <3>3. QED
      BY <2>1, <3>1, <3>2 DEF PublishLine, PublishFails
  <2>2. CASE ~(PublishLine \/ PublishFails)
    <3>1. UNCHANGED <<published, pageVars>>
      BY <1>3, <2>2 DEF RunNext, Deliver, StartContainer, StartRefused, WriteLine, WriteFails,
         IndexLine, IndexFails, StreamEnds, Except, Cleanup, Acknowledge,
            WorkerCrash, ProcessDies, storeVars
    <3>2. QED
      BY <1>2, <3>1
  <2>3. QED
    BY <2>1, <2>2
<1>4. ASSUME NEW q \in Pages, PageNext(q) PROVE PageInv(p)'
  <2>1. UNCHANGED published
    BY <1>4, PageStepKeeps DEF PageStep, storeVars
  <2>2. CASE OpenPage(q) \/ CheckConsumer(q) \/ WaitTimesOut(q)
    <3>1. UNCHANGED <<queue, shown, since, base>>
      BY <2>2 DEF OpenPage, CheckConsumer, WaitTimesOut
    <3>2. \/ UNCHANGED consumer
          \/ consumer[q] = "none" /\ consumer' = [consumer EXCEPT ![q] = "connect"]
      BY <2>2 DEF OpenPage, CheckConsumer, WaitTimesOut, Unopened
    <3>3. \/ Bound(p)' = Bound(p) /\ queue'[p] = queue[p]
          \/ ~Bound(p)' /\ queue'[p] = <<>>
      BY <1>1, <3>1, <3>2 DEF Bound, PageTypeOK, PageInv
    <3>4. QED
      BY <1>1, <2>1, <3>1, <3>3, PageQuiet
  <2>3. CASE LeavePage(q) \/ ConsumerDies(q) \/ ConsumerReconnects(q)
    <3>1. UNCHANGED <<shown, since, base>> /\ queue' = [queue EXCEPT ![q] = <<>>]
      BY <2>3 DEF LeavePage, ConsumerDies, ConsumerReconnects
    <3>2. \E c \in {"dead", "cancelled", "connect"} : consumer' = [consumer EXCEPT ![q] = c]
      BY <2>3 DEF LeavePage, ConsumerDies, ConsumerReconnects
    <3>3. \/ Bound(p)' = Bound(p) /\ queue'[p] = queue[p]
          \/ ~Bound(p)' /\ queue'[p] = <<>>
      BY <1>1, <3>1, <3>2 DEF Bound, PageTypeOK
    <3>4. QED
      BY <1>1, <2>1, <3>1, <3>3, PageQuiet
  <2>4. CASE ConsumerBind(q) \/ ShowLine(q)
    <3>1. CASE p = q
      BY <1>1, <2>4, <3>1, PageBind, PageShow
    <3>2. CASE p # q
      <4>1. /\ Bound(p)' = Bound(p) /\ queue'[p] = queue[p] /\ shown'[p] = shown[p]
            /\ since'[p] = since[p] /\ base'[p] = base[p]
        BY <1>1, <2>4, <3>2 DEF ConsumerBind, ShowLine, Bound, PageTypeOK
      <4>2. QED
        BY <1>1, <2>1, <4>1, PageQuiet
    <3>3. QED
      BY <3>1, <3>2
  <2>5. QED
    BY <1>4, <2>2, <2>3, <2>4 DEF PageNext
<1>5. CASE UNCHANGED vars
  BY <1>2, <1>5 DEF vars, storeVars
<1>6. QED
  BY <1>3, <1>4, <1>5 DEF Next

\* A page shows what was published, in order and once, and misses nothing
\* while its queue is bound.
THEOREM PagesFollow == Spec => []PageFollows
<1> DEFINE Inv == \A p \in Pages : PageInv(p)
<1>1. Init => Inv
  BY DEF Init, PageInv, Bound, Ordered
<1>2. StreamTypeOK /\ Unopened /\ Inv /\ [Next]_vars => Inv'
  BY PagesStep
<1>3. Inv => PageFollows
  BY DEF PageInv, PageFollows, Ordered, Complete
<1>4. QED
  BY <1>1, <1>2, <1>3, StreamTypes, NoConsumerUnopened, PTL DEF Spec

================================================================================
