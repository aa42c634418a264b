--------------------------- MODULE AdminPollProofs ---------------------------
(****************************************************************************)
(* The safety of the admin poll for any number of hosts, polls and faults.  *)
(* It rests on TasksCurrent: whatever runs belongs to the poll asked for    *)
(* last, because _cancel_inflight comes before a new generation.  TallyInv  *)
(* then relates a poll's counter to its rows and its sentinel, which takes  *)
(* the arithmetic of the sum over the hosts.                                *)
(****************************************************************************)
EXTENDS AdminPoll, FiniteSetTheorems, TLAPS

TasksCurrent ==
    /\ handler \in {"clear", "bind"} => generation \in Polls
    /\ \A a \in InFlight : a[2] = generation /\ handler \in {"bind", "receive"}
    /\ \A a \in Tasks : a[2] > generation => task[a] = "none"
    /\ handler \in {"clear", "bind"} => task[Timer(generation)] = "none"

\* One task at a time emits, inside the lock; a sentinel on the screen is
\* latched, or its task has yet to latch it.
SentinelLatched ==
    /\ \A a \in Tasks : task[a] = "emit" => pollState[a[2]].locked
    /\ \A a, b \in Tasks : task[a] = "emit" /\ task[b] = "emit" => a = b
    /\ screen.emitted \in {0, 1}
    /\ screen.emitted = 1 /\ handler \in {"bind", "receive"} =>
          pollState[generation].completed \/ \E a \in Tasks : task[a] = "emit"

PollInv == PollTypeOK /\ TasksCurrent /\ NoCrossRender /\ SentinelLatched

LEMMA TaskNames ==
    /\ \A g \in Polls : /\ Consumer(g) \in Tasks /\ Consumer(g)[2] = g
                        /\ Timer(g) \in Tasks /\ Timer(g)[2] = g
                        /\ Consumer(g) # Timer(g)
    /\ \A a \in Tasks : a[2] \in Polls /\ a[1] \in {"consumer", "timer"}
    /\ \A a \in Tasks : a = Consumer(a[2]) \/ a = Timer(a[2])
    /\ Polls \subseteq Nat
BY PollsAssumption DEF Consumer, Timer, Tasks, Polls

LEMMA Unlinked ==
    ASSUME PollInv, NEW g, Unlink(g)
    PROVE  link' \in [Polls -> BOOLEAN] /\ inbox' \in [Polls -> [Hosts -> Nat]]
<1>1. link' \in [Polls -> BOOLEAN]
  BY DEF Unlink, PollInv, PollTypeOK
<1>2. inbox' \in [Polls -> [Hosts -> Nat]]
  BY DEF Unlink, NoReplies, PollInv, PollTypeOK
<1> QED BY <1>1, <1>2

\* What a cancellation leaves behind.
LEMMA Cancelled ==
    ASSUME PollInv, CancelInflight
    PROVE  /\ task' \in [Tasks -> TaskPC]
           /\ \A a \in Tasks : task'[a] \in {"none", "done", "cancelled"}
           /\ \A a \in Tasks : task[a] = "none" => task'[a] = "none"
           /\ pollState' \in [Polls -> [received : Nat, completed : BOOLEAN, locked : BOOLEAN]]
           /\ link' \in [Polls -> BOOLEAN]
           /\ inbox' \in [Polls -> [Hosts -> Nat]]
<1>1. \A a \in Tasks : task'[a] = IF a \in InFlight /\ a[2] = generation THEN "cancelled" ELSE task[a]
  BY DEF CancelInflight
<1>2. \A a \in InFlight : a[2] = generation
  BY DEF PollInv, TasksCurrent
<1>3. \A a \in Tasks : task'[a] \in {"none", "done", "cancelled"}
  BY <1>1, <1>2 DEF InFlight
<1>4. \A a \in Tasks : task[a] = "none" => task'[a] = "none"
  BY <1>1 DEF InFlight
<1>5. task' \in [Tasks -> TaskPC]
  BY <1>3 DEF CancelInflight, TaskPC
<1>6. pollState' \in [Polls -> [received : Nat, completed : BOOLEAN, locked : BOOLEAN]]
  BY DEF CancelInflight, PollInv, PollTypeOK
<1>7. link' \in [Polls -> BOOLEAN] /\ inbox' \in [Polls -> [Hosts -> Nat]]
  BY Unlinked DEF CancelInflight
<1> QED BY <1>3, <1>4, <1>5, <1>6, <1>7

-----------------------------------------------------------------------------
\* Types, action by action.
LEMMA StateUpdate ==
    ASSUME NEW S, NEW f \in [S -> [received : Nat, completed : BOOLEAN, locked : BOOLEAN]],
           NEW g, NEW c \in BOOLEAN, NEW l \in BOOLEAN
    PROVE  /\ [f EXCEPT ![g].locked = l]
                  \in [S -> [received : Nat, completed : BOOLEAN, locked : BOOLEAN]]
           /\ [f EXCEPT ![g].completed = c, ![g].locked = l]
                  \in [S -> [received : Nat, completed : BOOLEAN, locked : BOOLEAN]]
<1>1. [f EXCEPT ![g].locked = l] \in [S -> [received : Nat, completed : BOOLEAN, locked : BOOLEAN]]
  OBVIOUS
<1>2. [f EXCEPT ![g].completed = c] \in [S -> [received : Nat, completed : BOOLEAN, locked : BOOLEAN]]
  OBVIOUS
<1>3. [f EXCEPT ![g].completed = c, ![g].locked = l]
         \in [S -> [received : Nat, completed : BOOLEAN, locked : BOOLEAN]]
  BY <1>2
<1> QED BY <1>1, <1>3

LEMMA CountUpdate ==
    ASSUME NEW S, NEW f \in [S -> [received : Nat, completed : BOOLEAN, locked : BOOLEAN]],
           NEW g, NEW n \in Nat
    PROVE  [f EXCEPT ![g].received = n]
               \in [S -> [received : Nat, completed : BOOLEAN, locked : BOOLEAN]]
OBVIOUS

LEMMA HandlerType ==
    ASSUME PollInv, HandlerNext
    PROVE  PollTypeOK'
<1> USE PollFaultsAssumption DEF PollInv, PollTypeOK, handlerVars, queueVars
<1>1. ASSUME NEW hs \in SUBSET Hosts, Poll(hs) PROVE PollTypeOK'
  <2>1. generation + 1 \in Polls
    BY <1>1, PollsAssumption DEF Poll, Polls
  <2>2. asked' \in [Polls -> SUBSET Hosts]
    BY <1>1, <2>1 DEF Poll
  <2>3. generation' \in 0..MaxPolls
    BY <1>1, <2>1 DEF Poll, Polls
  <2>4. CancelInflight
    BY <1>1 DEF Poll
  <2> HIDE DEF PollInv
  <2>5. /\ task' \in [Tasks -> TaskPC]
        /\ pollState' \in [Polls -> [received : Nat, completed : BOOLEAN, locked : BOOLEAN]]
        /\ link' \in [Polls -> BOOLEAN] /\ inbox' \in [Polls -> [Hosts -> Nat]]
    BY <2>4, Cancelled
  <2> USE DEF PollInv
  <2> QED BY <1>1, <2>2, <2>3, <2>5 DEF Poll
<1>2. CASE StartConsumer
  BY <1>2 DEF StartConsumer, ClearScreen, NoReplies, NewState, TaskPC
<1>3. ASSUME NEW hs \in SUBSET Hosts, SendTo(hs)
      PROVE  job' \in [Polls -> [Hosts -> {"none", "queued", "handled"}]]
  <2>1. \A g \in Polls : job'[g] \in [Hosts -> {"none", "queued", "handled"}]
    BY <1>3 DEF SendTo
  <2> QED BY <1>3, <2>1 DEF SendTo
<1>4. CASE Dispatch
  <2>1. asked[generation] \in SUBSET Hosts
    BY <1>4 DEF Dispatch, TasksCurrent
  <2>2. job' \in [Polls -> [Hosts -> {"none", "queued", "handled"}]]
    BY <1>3, <1>4, <2>1 DEF Dispatch
  <2> QED BY <1>4, <2>2 DEF Dispatch, TaskPC
<1>5. ASSUME NEW hs \in SUBSET Hosts, DispatchFails(hs) PROVE PollTypeOK'
  <2>1. job' \in [Polls -> [Hosts -> {"none", "queued", "handled"}]]
    BY <1>3, <1>5 DEF DispatchFails
  <2>2. CancelInflight
    BY <1>5 DEF DispatchFails
  <2> HIDE DEF PollInv
  <2>3. /\ task' \in [Tasks -> TaskPC]
        /\ pollState' \in [Polls -> [received : Nat, completed : BOOLEAN, locked : BOOLEAN]]
        /\ link' \in [Polls -> BOOLEAN] /\ inbox' \in [Polls -> [Hosts -> Nat]]
    BY <2>2, Cancelled
  <2> USE DEF PollInv
  <2> QED BY <1>5, <2>1, <2>3 DEF DispatchFails, Fault
<1>6. CASE Disconnect
  <2>1. CancelInflight
    BY <1>6 DEF Disconnect
  <2> HIDE DEF PollInv
  <2>2. /\ task' \in [Tasks -> TaskPC]
        /\ pollState' \in [Polls -> [received : Nat, completed : BOOLEAN, locked : BOOLEAN]]
        /\ link' \in [Polls -> BOOLEAN] /\ inbox' \in [Polls -> [Hosts -> Nat]]
    BY <2>1, Cancelled
  <2> USE DEF PollInv
  <2> QED BY <1>6, <2>2 DEF Disconnect
<1> QED BY <1>1, <1>2, <1>4, <1>5, <1>6 DEF HandlerNext

LEMMA TaskType ==
    ASSUME PollInv, TaskNext
    PROVE  PollTypeOK'
<1> USE PollFaultsAssumption DEF PollInv, PollTypeOK, handlerVars, queueVars, TaskPC
<1>1. ASSUME NEW g \in Polls, ConsumerBind(g) PROVE PollTypeOK'
  BY <1>1 DEF ConsumerBind
<1>2. ASSUME NEW g \in Polls, ConsumerDies(g) \/ ConnectionDrops(g) PROVE PollTypeOK'
  <2>1. link' \in [Polls -> BOOLEAN] /\ inbox' \in [Polls -> [Hosts -> Nat]]
    <3> HIDE DEF PollInv, PollTypeOK
    <3> QED BY <1>2, Unlinked DEF ConsumerDies, ConnectionDrops
  <2>2. task' \in [Tasks -> TaskPC]
    BY <1>2 DEF ConsumerDies, ConnectionDrops
  <2>3. budget' \in 0..MaxFaults
    BY <1>2 DEF ConsumerDies, ConnectionDrops, Fault
  <2> QED BY <1>2, <2>1, <2>2, <2>3 DEF ConsumerDies, ConnectionDrops
<1>9. ASSUME NEW g \in Polls, ConnectionRestored(g) PROVE PollTypeOK'
  BY <1>9 DEF ConnectionRestored
<1>3. ASSUME NEW g \in Polls, NEW h \in Hosts, ConsumerTake(g, h) \/ ConsumerTakeBlank(g, h)
      PROVE  PollTypeOK'
  <2>0. Take(g, h)
    BY <1>3 DEF ConsumerTake, ConsumerTakeBlank
  <2>1. inbox[g][h] \in Nat /\ inbox[g][h] - 1 \in Nat
    BY <2>0 DEF Take
  <2>2. inbox' \in [Polls -> [Hosts -> Nat]] /\ task' \in [Tasks -> TaskPC]
    BY <2>0, <2>1 DEF Take
  <2>3. /\ screen'.rows \in [Polls -> [Hosts -> Nat]]
        /\ DOMAIN screen' = {"rows", "blank", "sentinel", "emitted"}
        /\ screen'.emitted \in Nat /\ screen'.blank \in Nat
    <3>1. CASE ConsumerTake(g, h)
      BY <3>1 DEF ConsumerTake
    <3>2. CASE ConsumerTakeBlank(g, h)
      BY <3>2 DEF ConsumerTakeBlank
    <3> QED BY <1>3, <3>1, <3>2
  <2>4. budget' \in 0..MaxFaults
    BY <1>3 DEF ConsumerTake, ConsumerTakeBlank, Fault
  <2> QED BY <2>0, <2>2, <2>3, <2>4 DEF Take
<1>4. ASSUME NEW g \in Polls, ConsumerCount(g) PROVE PollTypeOK'
  <2>1. Consumer(g) \in InFlight
    BY <1>4, TaskNames DEF ConsumerCount, InFlight
  <2>2. StateCell \in Polls
    BY <2>1, TaskNames DEF StateCell, TasksCurrent
  <2> DEFINE s == StateCell
             n == pollState[s].received + 1
  <2>3. n \in Nat
    BY <2>2
  <2>4. pollState' = [pollState EXCEPT ![s].received = n]
    BY <1>4 DEF ConsumerCount
  <2>5. pollState' \in [Polls -> [received : Nat, completed : BOOLEAN, locked : BOOLEAN]]
    <3>1. pollState \in [Polls -> [received : Nat, completed : BOOLEAN, locked : BOOLEAN]]
      OBVIOUS
    <3> HIDE DEF n, s, PollInv, PollTypeOK
    <3> QED BY <2>3, <2>4, <3>1, CountUpdate, Zenon
  <2>6. task' \in [Tasks -> TaskPC]
    BY <1>4 DEF ConsumerCount
  <2> QED BY <1>4, <2>5, <2>6 DEF ConsumerCount
<1>5. ASSUME NEW g \in Polls, TimerFires(g) PROVE PollTypeOK'
  BY <1>5 DEF TimerFires
<1>6. ASSUME NEW a \in Tasks, Emit(a) PROVE PollTypeOK'
  <2>1. /\ screen'.rows = screen.rows /\ screen'.emitted = screen.emitted + 1
        /\ screen'.blank = screen.blank
        /\ DOMAIN screen' = {"rows", "blank", "sentinel", "emitted"}
    BY <1>6 DEF Emit, Show
  <2>2. pollState' = [pollState EXCEPT ![a[2]].locked = TRUE]
    BY <1>6 DEF Emit
  <2>3. pollState' \in [Polls -> [received : Nat, completed : BOOLEAN, locked : BOOLEAN]]
    <3>1. pollState \in [Polls -> [received : Nat, completed : BOOLEAN, locked : BOOLEAN]]
      OBVIOUS
    <3>2. TRUE \in BOOLEAN /\ FALSE \in BOOLEAN
      OBVIOUS
    <3> HIDE DEF PollInv, PollTypeOK
    <3> QED BY <2>2, <3>1, <3>2, StateUpdate, Zenon
  <2> QED BY <1>6, <2>1, <2>3 DEF Emit
<1>7. ASSUME NEW a \in Tasks, EmitNothing(a) PROVE PollTypeOK'
  BY <1>7 DEF EmitNothing, AfterEmit
<1>8. ASSUME NEW a \in Tasks, Latch(a) PROVE PollTypeOK'
  <2>1. pollState' = [pollState EXCEPT ![a[2]].completed = TRUE, ![a[2]].locked = FALSE]
    BY <1>8 DEF Latch
  <2>2. pollState' \in [Polls -> [received : Nat, completed : BOOLEAN, locked : BOOLEAN]]
    <3>1. pollState \in [Polls -> [received : Nat, completed : BOOLEAN, locked : BOOLEAN]]
      OBVIOUS
    <3>2. TRUE \in BOOLEAN /\ FALSE \in BOOLEAN
      OBVIOUS
    <3> HIDE DEF PollInv, PollTypeOK
    <3> QED BY <2>1, <3>1, <3>2, StateUpdate, Zenon
  <2>3. task' \in [Tasks -> TaskPC]
    BY <1>8 DEF Latch, AfterEmit
  <2> QED BY <1>8, <2>2, <2>3 DEF Latch
<1> QED BY <1>1, <1>2, <1>3, <1>4, <1>5, <1>6, <1>7, <1>8, <1>9 DEF TaskNext

LEMMA WorkersType ==
    ASSUME PollInv, WorkersNext
    PROVE  PollTypeOK'
<1> USE PollFaultsAssumption DEF PollInv, PollTypeOK, handlerVars, queueVars
<1>1. ASSUME NEW g \in Polls, NEW h \in Hosts, NEW v \in {"queued", "handled"},
             job' = [job EXCEPT ![g][h] = v]
      PROVE  job' \in [Polls -> [Hosts -> {"none", "queued", "handled"}]]
  BY <1>1
<1>2. ASSUME NEW g \in Polls, NEW h \in Hosts, ReportPublish(g, h) PROVE PollTypeOK'
  <2>1. inbox' \in [Polls -> [Hosts -> Nat]]
    <3>1. CASE inbox' = [inbox EXCEPT ![g][h] = @ + 1]
      BY <3>1
    <3> QED BY <1>2, <3>1 DEF ReportPublish
  <2>2. dropped' \in BOOLEAN
    BY <1>2 DEF ReportPublish
  <2>3. job' \in [Polls -> [Hosts -> {"none", "queued", "handled"}]]
    BY <1>1, <1>2 DEF ReportPublish
  <2> QED BY <1>2, <2>1, <2>2, <2>3 DEF ReportPublish
<1>3. ASSUME NEW g \in Polls, NEW h \in Hosts, ReportFails(g, h) \/ WorkerCrash(g, h)
      PROVE  PollTypeOK'
  <2>1. job' \in [Polls -> [Hosts -> {"none", "queued", "handled"}]]
    BY <1>1, <1>3 DEF ReportFails, WorkerCrash
  <2> QED BY <1>3, <2>1 DEF ReportFails, WorkerCrash, Fault
<1> QED BY <1>2, <1>3 DEF WorkersNext

-----------------------------------------------------------------------------
\* A step that only changes the workers' side leaves the rest of PollInv alone.
LEMMA WorkersKeep ==
    ASSUME PollInv, UNCHANGED <<handler, generation, task, pollState, screen>>
    PROVE  TasksCurrent' /\ NoCrossRender' /\ SentinelLatched'
BY DEF PollInv, TasksCurrent, NoCrossRender, SentinelLatched, InFlight

\* A step that ends the poll: the frame that asks for the next one, a failed
\* dispatch, the end of the socket.
LEMMA EndOfPoll ==
    ASSUME PollInv, CancelInflight, UNCHANGED screen,
           \/ handler' = "clear" /\ generation' = generation + 1 /\ generation' \in Polls
           \/ handler' = "closed" /\ generation' = generation
    PROVE  TasksCurrent' /\ NoCrossRender' /\ SentinelLatched'
<1>1. \A a \in Tasks : /\ task'[a] \in {"none", "done", "cancelled"}
                       /\ task[a] = "none" => task'[a] = "none"
  BY Cancelled
<1>2. generation \in Nat
  BY PollsAssumption DEF PollInv, PollTypeOK
<1>3. TasksCurrent'
  <2>1. \A a \in Tasks : a[2] > generation => task'[a] = "none"
    BY <1>1 DEF PollInv, TasksCurrent
  <2>2. \A a \in Tasks : a[2] \in Nat
    BY TaskNames
  <2>3. generation' \in Nat /\ generation' >= generation
    BY <1>2
  <2>4. \A a \in Tasks : a[2] > generation' => a[2] > generation
    BY <1>2, <2>2, <2>3
  <2>5. \A a \in Tasks : a[2] > generation' => task'[a] = "none"
    BY <2>1, <2>4
  <2>6. InFlight' = {}
    BY <1>1 DEF InFlight
  <2>7. CASE handler' = "clear"
    <3>1. generation' \in Polls /\ generation' > generation
      BY <1>2, <2>7
    <3>2. task'[Timer(generation')] = "none"
      BY <2>1, <3>1, TaskNames
    <3> QED BY <2>5, <2>6, <3>1, <3>2 DEF TasksCurrent, Timer
  <2>8. CASE handler' = "closed"
    BY <2>5, <2>6, <2>8 DEF TasksCurrent
  <2> QED BY <2>7, <2>8
<1>4. NoCrossRender'
  BY DEF NoCrossRender, PollInv
<1>5. SentinelLatched'
  BY <1>1 DEF SentinelLatched, PollInv
<1> QED BY <1>3, <1>4, <1>5

LEMMA HandlerKeeps ==
    ASSUME PollInv, HandlerNext
    PROVE  TasksCurrent' /\ NoCrossRender' /\ SentinelLatched'
<1>0. generation \in Nat /\ task \in [Tasks -> TaskPC]
  BY PollsAssumption DEF PollInv, PollTypeOK
<1>1. ASSUME NEW hs \in SUBSET Hosts, Poll(hs)
      PROVE  TasksCurrent' /\ NoCrossRender' /\ SentinelLatched'
  <2>1. generation' = generation + 1 /\ generation' \in Polls
    BY <1>0, <1>1, PollsAssumption DEF Poll, Polls
  <2> QED BY <1>1, <2>1, EndOfPoll DEF Poll
<1>2. CASE StartConsumer
  <2>1. generation \in Polls /\ Consumer(generation) \in Tasks /\ Timer(generation) \in Tasks
        /\ Consumer(generation)[2] = generation /\ Timer(generation)[2] = generation
        /\ Consumer(generation) # Timer(generation)
    BY <1>2, TaskNames DEF StartConsumer, PollInv, TasksCurrent
  <2>2. \A a \in Tasks : task'[a] = IF a = Consumer(generation) THEN "connect" ELSE task[a]
    BY <1>0, <1>2 DEF StartConsumer
  <2>3. \A a \in Tasks : task[a] \in {"none", "done", "cancelled"}
    BY <1>2 DEF StartConsumer, PollInv, TasksCurrent, InFlight
  <2>4. /\ handler' = "bind" /\ generation' = generation
        /\ screen'.emitted = 0 /\ screen'.sentinel = NoSentinel
        /\ \A g \in Polls, h \in Hosts : screen'.rows[g][h] = 0
    BY <1>2 DEF StartConsumer, ClearScreen, NoReplies
  <2>5. TasksCurrent'
    <3>1. task'[Timer(generation)] \in {"none", "done", "cancelled"}
      BY <2>1, <2>2, <2>3
    <3>2. task[Timer(generation)] = "none"
      BY <1>2, <2>1 DEF StartConsumer, PollInv, TasksCurrent
    <3>3. \A a \in Tasks : a[2] > generation => task'[a] = "none"
      BY <1>0, <2>1, <2>2 DEF PollInv, TasksCurrent
    <3>4. \A a \in InFlight' : a[2] = generation
      BY <2>1, <2>2, <2>3 DEF InFlight
    <3> QED BY <2>1, <2>2, <2>4, <3>2, <3>3, <3>4 DEF TasksCurrent, Timer
  <2>6. NoCrossRender'
    BY <2>4 DEF NoCrossRender
  <2>7. SentinelLatched'
    BY <2>2, <2>3, <2>4 DEF SentinelLatched
  <2> QED BY <2>5, <2>6, <2>7
<1>3. CASE Dispatch
  <2>1. generation \in Polls /\ Timer(generation) \in Tasks /\ Timer(generation)[2] = generation
        /\ task[Timer(generation)] = "none"
    BY <1>3, TaskNames DEF Dispatch, PollInv, TasksCurrent
  <2>2. \A a \in Tasks : task'[a] = IF a = Timer(generation) THEN "sleep" ELSE task[a]
    BY <1>0, <1>3 DEF Dispatch
  <2>3. /\ handler = "bind" /\ handler' = "receive"
        /\ UNCHANGED <<generation, screen, pollState>>
    BY <1>3 DEF Dispatch
  <2>4. TasksCurrent'
    <3>1. \A a \in InFlight' : a[2] = generation
      BY <2>1, <2>2 DEF InFlight, PollInv, TasksCurrent
    <3>2. \A a \in Tasks : a[2] > generation => task'[a] = "none"
      BY <1>0, <2>1, <2>2 DEF PollInv, TasksCurrent
    <3> QED BY <2>3, <3>1, <3>2 DEF TasksCurrent
  <2>5. NoCrossRender'
    BY <2>3 DEF NoCrossRender, PollInv
  <2>6. \A a \in Tasks : task'[a] = "emit" <=> task[a] = "emit"
    BY <2>1, <2>2
  <2>7. SentinelLatched'
    BY <2>3, <2>6 DEF SentinelLatched, PollInv
  <2> QED BY <2>4, <2>5, <2>7
<1>4. ASSUME NEW hs \in SUBSET Hosts, DispatchFails(hs)
      PROVE  TasksCurrent' /\ NoCrossRender' /\ SentinelLatched'
  BY <1>4, EndOfPoll DEF DispatchFails
<1>5. CASE Disconnect
  BY <1>5, EndOfPoll DEF Disconnect
<1> QED BY <1>1, <1>2, <1>3, <1>4, <1>5 DEF HandlerNext

\* A step of one task of the current poll that emits nothing.
LEMMA QuietTaskStep ==
    ASSUME PollInv, NEW a \in InFlight, NEW pc \in {"listen", "count", "enter", "done"},
           task[a] # "emit", task' = [task EXCEPT ![a] = pc],
           UNCHANGED <<handler, generation>>, screen'.emitted = screen.emitted,
           \A g \in Polls : /\ pollState'[g].locked = pollState[g].locked
                            /\ pollState'[g].completed = pollState[g].completed
    PROVE  TasksCurrent' /\ SentinelLatched'
<1>1. /\ a \in Tasks /\ a[2] = generation /\ handler \in {"bind", "receive"}
      /\ generation \in Polls /\ task[a] # "none"
  BY TaskNames DEF InFlight, PollInv, TasksCurrent
<1>2. \A b \in Tasks : task'[b] = IF b = a THEN pc ELSE task[b]
  BY DEF PollInv, PollTypeOK
<1>3. \A b \in Tasks : task'[b] = "emit" <=> task[b] = "emit"
  BY <1>1, <1>2
<1>4. TasksCurrent'
  <2>1. \A b \in InFlight' : b[2] = generation
    BY <1>1, <1>2 DEF InFlight, PollInv, TasksCurrent
  <2>2. \A b \in Tasks : b[2] > generation => task'[b] = "none"
    BY <1>1, <1>2, TaskNames DEF PollInv, TasksCurrent
  <2>3. handler = "bind" => task'[Timer(generation)] = "none"
    BY <1>1, <1>2, TaskNames DEF PollInv, TasksCurrent
  <2> QED BY <1>1, <2>1, <2>2, <2>3 DEF TasksCurrent, Timer
<1>5. SentinelLatched'
  <2>1. \A b \in Tasks : task'[b] = "emit" => pollState'[b[2]].locked
    BY <1>3, TaskNames DEF SentinelLatched, PollInv
  <2>2. \A b, c \in Tasks : task'[b] = "emit" /\ task'[c] = "emit" => b = c
    BY <1>3 DEF SentinelLatched, PollInv
  <2>3. screen'.emitted = 1 /\ handler' \in {"bind", "receive"} =>
          pollState'[generation'].completed \/ \E b \in Tasks : task'[b] = "emit"
    BY <1>1, <1>3 DEF SentinelLatched, PollInv
  <2> QED BY <2>1, <2>2, <2>3 DEF SentinelLatched, PollInv
<1> QED BY <1>4, <1>5

\* Entering the lock with the latch open: nothing was emitted before.
LEMMA EmitKeeps ==
    ASSUME PollInv, NEW a \in Tasks, Emit(a)
    PROVE  TasksCurrent' /\ NoCrossRender' /\ SentinelLatched'
<1>1. /\ a \in InFlight /\ a[2] = generation /\ generation \in Polls
      /\ handler \in {"bind", "receive"} /\ task[a] = "enter"
      /\ ~pollState[generation].locked /\ ~pollState[generation].completed
  BY TaskNames DEF Emit, InFlight, PollInv, TasksCurrent
<1>2. \A b \in Tasks : task'[b] = IF b = a THEN "emit" ELSE task[b]
  BY DEF Emit, PollInv, PollTypeOK
<1>3. /\ UNCHANGED <<handler, generation>>
      /\ screen'.emitted = screen.emitted + 1 /\ screen'.rows = screen.rows
      /\ screen'.sentinel.poll = generation
  BY <1>1 DEF Emit, Show, handlerVars, PollInv, PollTypeOK
<1>4. pollState'[generation].locked
  BY <1>1 DEF Emit, PollInv, PollTypeOK
<1>5. \A b \in Tasks : task[b] # "emit"
  BY <1>1, TaskNames DEF PollInv, SentinelLatched, TasksCurrent, InFlight
<1>6. screen.emitted = 0
  BY <1>1, <1>5 DEF PollInv, SentinelLatched
<1>7. TasksCurrent'
  <2>1. \A b \in InFlight' : b[2] = generation
    BY <1>1, <1>2 DEF InFlight, PollInv, TasksCurrent
  <2>2. \A b \in Tasks : b[2] > generation => task'[b] = "none"
    BY <1>1, <1>2, TaskNames DEF PollInv, TasksCurrent
  <2>3. handler = "bind" => task'[Timer(generation)] = "none"
    BY <1>1, <1>2, TaskNames DEF PollInv, TasksCurrent
  <2> QED BY <1>1, <1>3, <2>1, <2>2, <2>3 DEF TasksCurrent, Timer
<1>8. NoCrossRender'
  BY <1>1, <1>3 DEF NoCrossRender, PollInv
<1>9. SentinelLatched'
  BY <1>1, <1>2, <1>3, <1>4, <1>5, <1>6 DEF SentinelLatched
<1> QED BY <1>7, <1>8, <1>9

\* Leaving the lock: the only task inside has latched.
LEMMA LatchKeeps ==
    ASSUME PollInv, NEW a \in Tasks, Latch(a)
    PROVE  TasksCurrent' /\ NoCrossRender' /\ SentinelLatched'
<1>1. /\ a \in InFlight /\ a[2] = generation /\ generation \in Polls
      /\ handler \in {"bind", "receive"} /\ task[a] = "emit"
  BY TaskNames DEF Latch, InFlight, PollInv, TasksCurrent
<1>2. /\ \A b \in Tasks : task'[b] = IF b = a THEN AfterEmit(a) ELSE task[b]
      /\ AfterEmit(a) \in {"done", "listen"}
  BY DEF Latch, AfterEmit, PollInv, PollTypeOK
<1>3. UNCHANGED <<handler, generation, screen>>
  BY DEF Latch, handlerVars
<1>4. pollState'[generation].completed
  <2>1. pollState' = [pollState EXCEPT ![generation].completed = TRUE, ![generation].locked = FALSE]
    BY <1>1 DEF Latch
  <2> QED BY <1>1, <2>1 DEF PollInv, PollTypeOK
<1>5. \A b \in Tasks : task'[b] # "emit"
  BY <1>1, <1>2 DEF PollInv, SentinelLatched
<1>6. TasksCurrent'
  <2>1. \A b \in InFlight' : b[2] = generation
    BY <1>1, <1>2 DEF InFlight, PollInv, TasksCurrent
  <2>2. \A b \in Tasks : b[2] > generation => task'[b] = "none"
    BY <1>1, <1>2, TaskNames DEF PollInv, TasksCurrent
  <2>3. handler = "bind" => task'[Timer(generation)] = "none"
    BY <1>1, <1>2, TaskNames DEF PollInv, TasksCurrent
  <2> QED BY <1>1, <1>3, <2>1, <2>2, <2>3 DEF TasksCurrent, Timer
<1>7. NoCrossRender'
  BY <1>3 DEF NoCrossRender, PollInv
<1>8. SentinelLatched'
  BY <1>1, <1>3, <1>4, <1>5 DEF SentinelLatched, PollInv
<1> QED BY <1>6, <1>7, <1>8

\* A consumer or a timer of the current poll takes a step.
LEMMA TaskKeeps ==
    ASSUME PollInv, TaskNext
    PROVE  TasksCurrent' /\ NoCrossRender' /\ SentinelLatched'
<1>0. /\ task \in [Tasks -> TaskPC]
      /\ pollState \in [Polls -> [received : Nat, completed : BOOLEAN, locked : BOOLEAN]]
  BY DEF PollInv, PollTypeOK
<1>1. ASSUME NEW a \in Tasks, task[a] \notin {"none", "done", "cancelled"}
      PROVE  /\ a \in InFlight /\ a[2] = generation /\ generation \in Polls
             /\ handler \in {"bind", "receive"}
  BY <1>1, TaskNames DEF InFlight, PollInv, TasksCurrent
<1>2. ASSUME NEW a \in Tasks, NEW pc \in {"listen", "count", "enter", "done"},
             task[a] \notin {"none", "done", "cancelled", "emit"},
             task' = [task EXCEPT ![a] = pc], UNCHANGED <<handler, generation, pollState, screen>>
      PROVE  TasksCurrent' /\ NoCrossRender' /\ SentinelLatched'
  <2>1. TasksCurrent' /\ SentinelLatched'
    <3>1. a \in InFlight /\ task[a] # "emit" /\ UNCHANGED <<handler, generation>>
      BY <1>1, <1>2
    <3>2. /\ screen'.emitted = screen.emitted
          /\ \A g \in Polls : /\ pollState'[g].locked = pollState[g].locked
                               /\ pollState'[g].completed = pollState[g].completed
      BY <1>2
    <3> QED BY <1>2, <3>1, <3>2, QuietTaskStep, Zenon
  <2>2. NoCrossRender'
    BY <1>2 DEF NoCrossRender, PollInv
  <2> QED BY <2>1, <2>2
<1>3. ASSUME NEW g \in Polls, ConsumerBind(g)
      PROVE  TasksCurrent' /\ NoCrossRender' /\ SentinelLatched'
  BY <1>2, <1>3, TaskNames DEF ConsumerBind
<1>4. ASSUME NEW g \in Polls, ConsumerDies(g)
      PROVE  TasksCurrent' /\ NoCrossRender' /\ SentinelLatched'
  BY <1>2, <1>4, TaskNames DEF ConsumerDies, handlerVars
<1>11. ASSUME NEW g \in Polls, ConnectionDrops(g) \/ ConnectionRestored(g)
      PROVE  TasksCurrent' /\ NoCrossRender' /\ SentinelLatched'
  <2>1. UNCHANGED <<handler, generation, task, pollState, screen>>
    BY <1>11 DEF ConnectionDrops, ConnectionRestored, handlerVars
  <2> QED BY <2>1, WorkersKeep
<1>5. ASSUME NEW g \in Polls, NEW h \in Hosts, ConsumerTake(g, h) \/ ConsumerTakeBlank(g, h)
      PROVE  TasksCurrent' /\ NoCrossRender' /\ SentinelLatched'
  <2>1. /\ Consumer(g) \in Tasks /\ task[Consumer(g)] = "listen" /\ g = generation
        /\ Consumer(g) \in InFlight /\ handler \in {"bind", "receive"}
    BY <1>1, <1>5, TaskNames DEF ConsumerTake, ConsumerTakeBlank, Take
  <2>2. /\ UNCHANGED <<handler, generation, pollState>>
        /\ task' = [task EXCEPT ![Consumer(g)] = "count"]
        /\ \/ screen' = [screen EXCEPT !.rows[g][h] = @ + 1]
           \/ screen' = [screen EXCEPT !.blank = @ + 1]
           \/ screen' = screen
    BY <1>5 DEF ConsumerTake, ConsumerTakeBlank, Take, handlerVars
  <2>3. screen'.emitted = screen.emitted /\ screen'.sentinel = screen.sentinel
    BY <2>2 DEF PollInv, PollTypeOK
  <2>4. TasksCurrent' /\ SentinelLatched'
    <3>1. task[Consumer(g)] # "emit" /\ UNCHANGED <<handler, generation>>
      BY <2>1, <2>2
    <3>2. \A k \in Polls : /\ pollState'[k].locked = pollState[k].locked
                           /\ pollState'[k].completed = pollState[k].completed
      BY <2>2
    <3>3. "count" \in {"listen", "count", "enter", "done"}
      OBVIOUS
    <3> QED BY <2>1, <2>2, <2>3, <3>1, <3>2, <3>3, QuietTaskStep, Zenon
  <2>5. \A k \in Polls, i \in Hosts : k # g => screen'.rows[k][i] = screen.rows[k][i]
    BY <2>2 DEF PollInv, PollTypeOK
  <2>6. NoCrossRender'
    BY <2>1, <2>2, <2>3, <2>5 DEF NoCrossRender, PollInv
  <2> QED BY <2>4, <2>6
<1>6. ASSUME NEW g \in Polls, ConsumerCount(g)
      PROVE  TasksCurrent' /\ NoCrossRender' /\ SentinelLatched'
  <2>1. Consumer(g) \in Tasks /\ Consumer(g) \in InFlight /\ task[Consumer(g)] # "emit"
    BY <1>1, <1>6, TaskNames DEF ConsumerCount
  <2>2. PICK pc \in {"listen", "count", "enter", "done"} : task' = [task EXCEPT ![Consumer(g)] = pc]
    BY <1>6 DEF ConsumerCount
  <2>3. UNCHANGED <<handler, generation, screen>>
    BY <1>6 DEF ConsumerCount, handlerVars
  <2>4. \A k \in Polls : /\ pollState'[k].locked = pollState[k].locked
                         /\ pollState'[k].completed = pollState[k].completed
    BY <1>0, <1>6 DEF ConsumerCount
  <2>5. UNCHANGED <<handler, generation>> /\ screen'.emitted = screen.emitted
    BY <2>3
  <2>6. TasksCurrent' /\ SentinelLatched'
    BY <2>1, <2>2, <2>4, <2>5, QuietTaskStep, Zenon
  <2>7. NoCrossRender'
    BY <2>3 DEF NoCrossRender, PollInv
  <2> QED BY <2>6, <2>7
<1>7. ASSUME NEW g \in Polls, TimerFires(g)
      PROVE  TasksCurrent' /\ NoCrossRender' /\ SentinelLatched'
  BY <1>2, <1>7, TaskNames DEF TimerFires, handlerVars
<1>8. ASSUME NEW a \in Tasks, EmitNothing(a)
      PROVE  TasksCurrent' /\ NoCrossRender' /\ SentinelLatched'
  BY <1>2, <1>8 DEF EmitNothing, AfterEmit, handlerVars
<1>9. ASSUME NEW a \in Tasks, Emit(a)
      PROVE  TasksCurrent' /\ NoCrossRender' /\ SentinelLatched'
  BY <1>9, EmitKeeps
<1>10. ASSUME NEW a \in Tasks, Latch(a)
      PROVE  TasksCurrent' /\ NoCrossRender' /\ SentinelLatched'
  BY <1>10, LatchKeeps
<1> QED BY <1>3, <1>4, <1>5, <1>6, <1>7, <1>8, <1>9, <1>10, <1>11 DEF TaskNext

-----------------------------------------------------------------------------
LEMMA InitPollInv == Init => PollInv
<1> SUFFICES ASSUME Init PROVE PollInv
  OBVIOUS
<1> USE PollsAssumption, PollFaultsAssumption
<1>1. screen.emitted = 0 /\ screen.sentinel = NoSentinel /\ \A a \in Tasks : task[a] = "none"
  BY DEF Init, ClearScreen
<1>2. \A g \in Polls, h \in Hosts : screen.rows[g][h] = 0
  BY DEF Init, ClearScreen, NoReplies
<1>3. PollTypeOK
  <2>1. NoReplies \in [Hosts -> Nat]
    BY DEF NoReplies
  <2>2. /\ DOMAIN screen = {"rows", "blank", "sentinel", "emitted"}
        /\ screen.blank \in Nat
        /\ screen.rows = [g \in Polls |-> NoReplies]
    BY DEF Init, ClearScreen
  <2>3. screen.rows \in [Polls -> [Hosts -> Nat]] /\ inbox \in [Polls -> [Hosts -> Nat]]
    BY <2>1, <2>2 DEF Init
  <2>4. NewState \in [received : Nat, completed : BOOLEAN, locked : BOOLEAN]
    BY DEF NewState
  <2>5. pollState \in [Polls -> [received : Nat, completed : BOOLEAN, locked : BOOLEAN]]
    BY <2>4 DEF Init
  <2>6. generation \in 0..MaxPolls /\ my_gen = generation /\ budget \in 0..MaxFaults
    BY DEF Init
  <2>7. /\ asked \in [Polls -> SUBSET Hosts]
        /\ job \in [Polls -> [Hosts -> {"none", "queued", "handled"}]]
        /\ task \in [Tasks -> TaskPC]
    BY DEF Init, TaskPC
  <2>8. /\ ready \in BOOLEAN /\ dropped \in BOOLEAN /\ late \in BOOLEAN
        /\ broken \in BOOLEAN /\ link \in [Polls -> BOOLEAN]
    BY DEF Init
  <2>9. handler = "receive" /\ screen.emitted \in Nat
    BY <1>1 DEF Init
  <2> QED BY <2>2, <2>3, <2>5, <2>6, <2>7, <2>8, <2>9 DEF PollTypeOK
<1>4. TasksCurrent
  <2>1. handler = "receive" /\ InFlight = {}
    BY <1>1 DEF Init, InFlight
  <2> QED BY <1>1, <2>1 DEF TasksCurrent
<1>5. NoCrossRender
  BY <1>1, <1>2 DEF NoCrossRender
<1>6. SentinelLatched
  BY <1>1 DEF SentinelLatched
<1> QED BY <1>3, <1>4, <1>5, <1>6 DEF PollInv

LEMMA NextPollInv == PollInv /\ [Next]_vars => PollInv'
<1> SUFFICES ASSUME PollInv, [Next]_vars PROVE PollInv'
  OBVIOUS
<1>1. CASE HandlerNext
  BY <1>1, HandlerType, HandlerKeeps DEF PollInv
<1>2. CASE TaskNext
  BY <1>2, TaskType, TaskKeeps DEF PollInv
<1>3. CASE WorkersNext
  <2>1. UNCHANGED <<handler, generation, task, pollState, screen>>
    BY <1>3 DEF WorkersNext, ReportPublish, ReportFails, WorkerCrash, handlerVars
  <2> QED BY <1>3, <2>1, WorkersType, WorkersKeep DEF PollInv
<1>4. CASE UNCHANGED vars
  <2>1. UNCHANGED <<handler, generation, task, pollState, screen>> /\ PollTypeOK'
    BY <1>4 DEF vars, handlerVars, queueVars, PollInv, PollTypeOK
  <2> QED BY <2>1, WorkersKeep DEF PollInv
<1> QED BY <1>1, <1>2, <1>3, <1>4 DEF Next

\* However many hosts answer however late, nothing of an earlier poll is ever
\* rendered into the table of the current one (_cancel_inflight).
THEOREM NoPollRendersIntoAnother == Spec => []NoCrossRender
<1>1. PollInv => NoCrossRender
  BY DEF PollInv
<1> QED BY <1>1, InitPollInv, NextPollInv, PTL DEF Spec

\* The completing reply and the grace timer never both show their sentinel
\* (_PollState.emit_sentinel).
THEOREM OneSentinelPerPoll == Spec => []SentinelOnce
<1>1. PollInv => SentinelOnce
  BY DEF PollInv, SentinelLatched, SentinelOnce
<1> QED BY <1>1, InitPollInv, NextPollInv, PTL DEF Spec

-----------------------------------------------------------------------------
\* Requests go out after ready is set, or late; and a queue that was bound is
\* there as long as its consumer and its connection are.
Served == {"listen", "count", "enter", "emit", "done", "cancelled"}

Sent(g) == \E h \in Hosts : job[g][h] # "none"

Open(g) == link[g] \/ broken \/ task[Consumer(g)] \in {"done", "cancelled"}

QueueInv ==
    /\ handler \in {"clear", "bind"} => ~dropped /\ ~Sent(generation)
    /\ handler = "clear" => ~ready
    /\ \A g \in Polls : g > generation => ~Sent(g)
    /\ ready => generation \in Polls /\ task[Consumer(generation)] \in Served /\ Open(generation)
    /\ generation \in Polls /\ Sent(generation) => late \/ ready
    /\ dropped => generation \in Polls
    /\ RepliesFindTheQueue

LEMMA CancelledConsumer ==
    ASSUME PollInv, CancelInflight, generation \in Polls
    PROVE  LET c == Consumer(generation)
           IN  task'[c] = "cancelled" \/ (task'[c] = task[c] /\ c \notin InFlight)
<1> DEFINE c == Consumer(generation)
<1>1. c \in Tasks /\ c[2] = generation
  BY TaskNames
<1>2. task'[c] = IF c \in InFlight /\ c[2] = generation THEN "cancelled" ELSE task[c]
  BY <1>1 DEF CancelInflight
<1> HIDE DEF c
<1>3. task'[c] = "cancelled" \/ (task'[c] = task[c] /\ c \notin InFlight)
  BY <1>1, <1>2
<1> QED BY <1>3 DEF c

\* Nothing that QueueInv speaks of changes, except that the current consumer
\* may move on from a bound queue or end.
LEMMA QueueKeeps ==
    ASSUME QueueInv, UNCHANGED <<generation, ready, late, job>>,
           handler' = handler \/ handler' \notin {"clear", "bind"},
           dropped' = dropped, broken => broken',
           ready /\ Open(generation) => Open(generation)',
           generation \in Polls =>
              LET c == Consumer(generation)
              IN  \/ task'[c] = task[c]
                  \/ task'[c] \in {"done", "cancelled"}
                  \/ task[c] \in {"listen", "count", "enter", "emit"}
                     /\ task'[c] \in {"listen", "count", "enter", "emit", "done"}
    PROVE  QueueInv'
<1>1. \A g : Sent(g)' <=> Sent(g)
  BY DEF Sent
<1>2. RepliesFindTheQueue'
  BY DEF QueueInv, RepliesFindTheQueue
<1>3. ready' => /\ generation' \in Polls /\ task'[Consumer(generation')] \in Served
                /\ Open(generation)'
  BY DEF QueueInv, Served, Open, Consumer
<1> QED BY <1>1, <1>2, <1>3 DEF QueueInv

LEMMA HandlerQueue ==
    ASSUME PollInv, QueueInv, HandlerNext
    PROVE  QueueInv'
<1>1. generation \in Nat /\ my_gen = generation /\ MaxPolls \in Nat
  BY PollsAssumption DEF PollInv, PollTypeOK
<1>2. ASSUME NEW hs \in SUBSET Hosts, Poll(hs) PROVE QueueInv'
  <2>1. /\ generation' = generation + 1 /\ generation' \in Polls /\ ready' = FALSE
        /\ dropped' = FALSE /\ handler' = "clear" /\ job' = job
    BY <1>1, <1>2 DEF Poll, Polls
  <2>2. \A g \in Polls : g >= generation' => ~Sent(g)'
    BY <1>1, <2>1 DEF QueueInv, Sent, Polls
  <2> QED BY <1>1, <2>1, <2>2 DEF QueueInv, RepliesFindTheQueue, Polls
<1>3. CASE StartConsumer
  BY <1>3 DEF StartConsumer, queueVars, QueueInv, Sent, RepliesFindTheQueue
<1>4. ASSUME NEW hs \in SUBSET Hosts, SendTo(hs), generation \in Polls
      PROVE  \A g \in Polls : g > generation => (Sent(g)' <=> Sent(g))
  BY <1>1, <1>4 DEF SendTo, Sent, PollInv, PollTypeOK
<1>5. CASE Dispatch
  <2>1. generation \in Polls /\ asked[generation] \in SUBSET Hosts /\ ~dropped
    BY <1>5 DEF Dispatch, PollInv, TasksCurrent, PollTypeOK, QueueInv
  <2>2. /\ UNCHANGED <<generation, ready, dropped, link, broken>> /\ late' = ~ready
        /\ handler' = "receive"
        /\ SendTo(asked[generation])
        /\ task'[Consumer(generation)] = task[Consumer(generation)]
    BY <1>5, <2>1, TaskNames DEF Dispatch, queueVars, PollInv, PollTypeOK
  <2>3. \A g \in Polls : g > generation => (Sent(g)' <=> Sent(g))
    BY <1>4, <2>1, <2>2
  <2>4. ready => Open(generation)'
    BY <2>2 DEF QueueInv, Open, Consumer
  <2> QED BY <2>1, <2>2, <2>3, <2>4 DEF QueueInv, RepliesFindTheQueue, Open
<1>6. ASSUME NEW hs \in SUBSET Hosts, DispatchFails(hs) PROVE QueueInv'
  <2>1. generation \in Polls /\ ~dropped
    BY <1>6 DEF DispatchFails, PollInv, TasksCurrent, QueueInv
  <2>2. /\ UNCHANGED <<generation, ready, dropped>> /\ late' = ~ready /\ handler' = "closed"
        /\ SendTo(hs) /\ CancelInflight
    BY <1>6 DEF DispatchFails
  <2>3. \A g \in Polls : g > generation => (Sent(g)' <=> Sent(g))
    BY <1>4, <2>1, <2>2
  <2>4. ready => task'[Consumer(generation)] \in {"done", "cancelled"}
    BY <2>1, <2>2, CancelledConsumer, TaskNames DEF QueueInv, Served, InFlight
  <2> QED BY <2>1, <2>2, <2>3, <2>4 DEF QueueInv, RepliesFindTheQueue, Served, Open, Consumer
<1>7. CASE Disconnect
  <2>1. generation \in Polls =>
          \/ task'[Consumer(generation)] = "cancelled"
          \/ task'[Consumer(generation)] = task[Consumer(generation)]
    BY <1>7, CancelledConsumer DEF Disconnect
  <2>2. UNCHANGED <<generation, ready, late, job, dropped, broken>> /\ handler' = "closed"
    BY <1>7 DEF Disconnect
  <2>3. ready => task'[Consumer(generation)] \in {"done", "cancelled"}
    BY <1>7, CancelledConsumer, TaskNames DEF Disconnect, QueueInv, Served, InFlight
  <2>4. ready => Open(generation)'
    BY <2>2, <2>3 DEF Open, Consumer
  <2> QED BY <2>1, <2>2, <2>4, QueueKeeps
<1> QED BY <1>2, <1>3, <1>5, <1>6, <1>7 DEF HandlerNext

LEMMA TaskQueue ==
    ASSUME PollInv, QueueInv, TaskNext
    PROVE  QueueInv'
<1>1. task \in [Tasks -> TaskPC]
  BY DEF PollInv, PollTypeOK
<1>2. ASSUME NEW g \in Polls, ConsumerBind(g) PROVE QueueInv'
  <2>1. g = generation
    BY <1>2, TaskNames DEF ConsumerBind, InFlight, PollInv, TasksCurrent
  <2>2. /\ ready' = TRUE /\ task'[Consumer(generation)] = "listen" /\ link'[generation]
        /\ UNCHANGED <<handler, generation, late, job, dropped, broken>>
    BY <1>1, <1>2, <2>1, TaskNames DEF ConsumerBind, PollInv, PollTypeOK
  <2>3. handler # "clear" /\ ~(dropped /\ ~late /\ ~broken)
    BY <1>2, <2>1, TaskNames
       DEF ConsumerBind, InFlight, PollInv, TasksCurrent, QueueInv, RepliesFindTheQueue
  <2>4. Open(generation)'
    BY <2>2 DEF Open
  <2> QED BY <2>1, <2>2, <2>3, <2>4 DEF QueueInv, RepliesFindTheQueue, Sent, Served
<1>3. ASSUME NEW g \in Polls,
             \/ ConsumerDies(g) \/ ConsumerCount(g) \/ TimerFires(g)
             \/ ConnectionDrops(g) \/ ConnectionRestored(g)
             \/ \E h \in Hosts : ConsumerTake(g, h) \/ ConsumerTakeBlank(g, h)
      PROVE  QueueInv'
  <2>0. ASSUME \E h \in Hosts : ConsumerTake(g, h) \/ ConsumerTakeBlank(g, h)
        PROVE  \E h \in Hosts : Take(g, h)
    BY <2>0 DEF ConsumerTake, ConsumerTakeBlank
  <2>1. UNCHANGED <<handler, generation, ready, late, job, dropped>> /\ (broken => broken')
    <3>1. CASE \E h \in Hosts : Take(g, h)
      BY <3>1 DEF Take, handlerVars
    <3>2. CASE ConsumerDies(g) \/ ConsumerCount(g) \/ TimerFires(g)
               \/ ConnectionDrops(g) \/ ConnectionRestored(g)
      <4>1. CASE ConnectionDrops(g)
        BY <4>1 DEF ConnectionDrops, handlerVars
      <4>2. CASE ConsumerDies(g)
        BY <4>2 DEF ConsumerDies, handlerVars
      <4> QED BY <3>2, <4>1, <4>2
              DEF ConnectionRestored, ConsumerCount, TimerFires, handlerVars, queueVars
    <3> QED BY <1>3, <2>0, <3>1, <3>2
  <2>2. generation \in Polls =>
          LET c == Consumer(generation)
          IN  \/ task'[c] = task[c] \/ task'[c] = "done"
              \/ task[c] \in {"listen", "count"} /\ task'[c] \in {"listen", "count", "enter"}
    <3>1. CASE \E h \in Hosts : Take(g, h)
      BY <1>1, <3>1, TaskNames DEF Take
    <3>2. CASE ConsumerDies(g) \/ ConsumerCount(g) \/ TimerFires(g)
               \/ ConnectionDrops(g) \/ ConnectionRestored(g)
      BY <1>1, <3>2, TaskNames
         DEF ConsumerDies, ConnectionDrops, ConnectionRestored, ConsumerCount, TimerFires
    <3> QED BY <1>3, <2>0, <3>1, <3>2
  <2>3. ready /\ Open(generation) => Open(generation)'
    <3> SUFFICES ASSUME ready, Open(generation) PROVE Open(generation)'
      OBVIOUS
    <3>0. generation \in Polls /\ link \in [Polls -> BOOLEAN]
      BY DEF QueueInv, PollInv, PollTypeOK
    <3>1. CASE task'[Consumer(generation)] = "done"
      BY <2>1, <3>1 DEF Open, Consumer
    <3>2. CASE task'[Consumer(generation)] # "done" /\ link'[generation] = link[generation]
      BY <2>1, <2>2, <3>0, <3>2 DEF Open, Consumer
    <3>3. CASE task'[Consumer(generation)] # "done" /\ link'[generation] # link[generation]
      <4>1. link' # link
        BY <3>3
      <4>2. CASE ConsumerDies(g)
        <5>1. g # generation
          BY <1>1, <3>0, <3>3, <4>2, TaskNames DEF ConsumerDies
        <5>2. link'[generation] = link[generation]
          BY <3>0, <4>2, <5>1 DEF ConsumerDies, Unlink
        <5> QED BY <3>3, <5>2
      <4>3. CASE ConnectionDrops(g)
        <5>1. g = generation
          BY <3>0, <3>3, <4>3 DEF ConnectionDrops, Unlink
        <5> QED BY <4>3, <5>1 DEF ConnectionDrops, Open
      <4>4. CASE ConnectionRestored(g)
        <5>1. link'[generation]
          BY <3>0, <3>3, <4>4 DEF ConnectionRestored
        <5> QED BY <2>1, <5>1 DEF Open
      <4>5. CASE ConsumerCount(g) \/ TimerFires(g) \/ \E h \in Hosts : Take(g, h)
        BY <4>1, <4>5 DEF Take, ConsumerCount, TimerFires, queueVars
      <4> QED BY <1>3, <2>0, <4>2, <4>3, <4>4, <4>5
    <3> QED BY <3>1, <3>2, <3>3
  <2> QED BY <2>1, <2>2, <2>3, QueueKeeps
<1>4. ASSUME NEW a \in Tasks, Emit(a) \/ EmitNothing(a) \/ Latch(a) PROVE QueueInv'
  <2>1. UNCHANGED <<handler, generation, ready, late, job, dropped, broken, link>>
    BY <1>4 DEF Emit, EmitNothing, Latch, handlerVars, queueVars
  <2>2. generation \in Polls =>
          LET c == Consumer(generation)
          IN  \/ task'[c] = task[c]
              \/ task[c] \in {"enter", "emit"} /\ task'[c] \in {"emit", "done", "listen"}
    BY <1>1, <1>4, TaskNames DEF Emit, EmitNothing, Latch, AfterEmit
  <2>3. ready /\ Open(generation) => Open(generation)'
    BY <2>1, <2>2 DEF QueueInv, Open, Consumer
  <2> QED BY <2>1, <2>2, <2>3, QueueKeeps
<1> QED BY <1>2, <1>3, <1>4 DEF TaskNext

LEMMA WorkersQueue ==
    ASSUME PollInv, QueueInv, WorkersNext
    PROVE  QueueInv'
<1>1. PICK g \in Polls, h \in Hosts : ReportPublish(g, h) \/ ReportFails(g, h) \/ WorkerCrash(g, h)
  BY DEF WorkersNext
<1>2. /\ UNCHANGED <<handler, generation, ready, late, task, link, broken>>
      /\ job[g][h] # "none" /\ \A p \in Polls : Sent(p)' <=> Sent(p)
  <2>1. PICK v \in {"handled", "queued"} : job' = [job EXCEPT ![g][h] = v]
    BY <1>1 DEF ReportPublish, ReportFails, WorkerCrash
  <2>2. job[g][h] # "none" /\ UNCHANGED <<handler, generation, ready, late, task, link, broken>>
    BY <1>1 DEF ReportPublish, ReportFails, WorkerCrash, handlerVars, queueVars
  <2>3. \A p \in Polls, k \in Hosts : job'[p][k] # "none" <=> job[p][k] # "none"
    BY <2>1, <2>2 DEF PollInv, PollTypeOK
  <2> QED BY <2>2, <2>3 DEF Sent
<1>3. handler \in {"clear", "bind"} => generation \in Polls
  BY DEF PollInv, TasksCurrent
<1>4. Sent(g)
  BY <1>2 DEF Sent
<1>5. \/ dropped' = dropped
      \/ ~link[g] /\ g = generation
  BY <1>1 DEF ReportPublish, ReportFails, WorkerCrash, queueVars, PollInv, PollTypeOK
<1>6. CASE dropped' = dropped
  BY <1>2, <1>3, <1>6 DEF QueueInv, RepliesFindTheQueue, Open
<1>7. CASE ~link[g] /\ g = generation
  <2>1. late \/ broken \/ task[Consumer(generation)] \in {"done", "cancelled"}
    BY <1>4, <1>7 DEF QueueInv, Open
  <2> QED BY <1>2, <1>3, <1>4, <1>7, <2>1 DEF QueueInv, RepliesFindTheQueue, Open
<1> QED BY <1>5, <1>6, <1>7

\* Whatever the hosts, polls and faults: a reply to the current poll that finds
\* no queue was asked for after the bind timeout, or its consumer has ended or
\* lost the connection that held the queue (ws_admin waits for ready before it
\* sends the requests; connect_robust restores the queue, not its messages).
THEOREM RepliesAreNotLost == Spec => []RepliesFindTheQueue
<1>1. QueueInv => RepliesFindTheQueue
  BY DEF QueueInv
<1>2. Init => QueueInv
  <2>1. ASSUME Init PROVE \A g \in Polls : ~Sent(g)
    BY <2>1 DEF Init, Sent
  <2> QED BY <2>1 DEF Init, QueueInv, RepliesFindTheQueue
<1>3. PollInv /\ QueueInv /\ [Next]_vars => QueueInv'
  <2> SUFFICES ASSUME PollInv, QueueInv, [Next]_vars PROVE QueueInv'
    OBVIOUS
  <2>1. CASE UNCHANGED vars
    <3>1. UNCHANGED <<handler, generation, ready, late, job, task, dropped, broken, link>>
      BY <2>1 DEF vars, handlerVars, queueVars
    <3>2. Open(generation)' <=> Open(generation)
      BY <3>1 DEF Open, Consumer
    <3> QED BY <3>1, <3>2, QueueKeeps
  <2> QED BY <2>1, HandlerQueue, TaskQueue, WorkersQueue DEF Next
<1> QED BY <1>1, <1>2, <1>3, InitPollInv, NextPollInv, PTL DEF Spec

-----------------------------------------------------------------------------
\* What MapThenSumSet does to the rows, one host at a time.
Pick(s) == CHOOSE x \in s : TRUE
Small(n) == {s \in SUBSET Hosts : Cardinality(s) <= n}
IsSum(iter, f, S) ==
    iter = [s \in S |-> IF s = {} THEN 0 ELSE f[Pick(s)] + iter[s \ {Pick(s)}]]

LEMMA PickLess ==
    ASSUME NEW s \in SUBSET Hosts, s # {}
    PROVE  /\ Pick(s) \in s /\ s \ {Pick(s)} \in SUBSET Hosts
           /\ Cardinality(s) \in Nat /\ Cardinality(s \ {Pick(s)}) = Cardinality(s) - 1
           /\ Cardinality(s \ {Pick(s)}) \in Nat
<1>1. Pick(s) \in s
  BY DEF Pick
<1>2. IsFiniteSet(s)
  BY PollsAssumption, FS_Subset
<1> QED BY <1>1, <1>2, FS_RemoveElement, FS_CardinalityType

\* A nonempty set of naturals has a least element: induction without an operator.
LEMMA Smallest ==
    ASSUME NEW B \in SUBSET Nat, B # {}
    PROVE  \E n \in B : \A m \in Nat : m < n => m \notin B
<1>1. PICK n \in B : \A y \in B : ~(<<y, n>> \in OpToRel(<, Nat))
  BY NatLessThanWellFounded, WFMin, Zenon
<1>2. \A y \in B : ~(y < n)
  BY <1>1 DEF OpToRel
<1> QED BY <1>2

\* The recursion over the subsets of Hosts is well defined.
LEMMA SumExists ==
    ASSUME NEW f
    PROVE  \E iter : IsSum(iter, f, SUBSET Hosts)
<1> DEFINE B == {n \in Nat : ~\E iter : IsSum(iter, f, Small(n))}
<1>1. B = {}
  <2> SUFFICES ASSUME B # {} PROVE FALSE
    OBVIOUS
  <2>1. PICK n \in B : \A m \in Nat : m < n => m \notin B
    <3> HIDE DEF B
    <3>1. B \in SUBSET Nat
      BY DEF B
    <3> QED BY <3>1, Smallest
  <2>2. CASE n = 0
    <3> DEFINE z == [s \in Small(0) |-> 0]
    <3>1. \A s \in Small(0) : s = {}
      BY PollsAssumption, FS_Subset, FS_EmptySet, FS_CardinalityType DEF Small
    <3>2. IsSum(z, f, Small(0))
      BY <3>1 DEF IsSum
    <3> QED BY <2>1, <2>2, <3>2
  <2>3. CASE n # 0
    <3>1. n - 1 \in Nat /\ n - 1 < n /\ n \in Nat
      BY <2>1, <2>3
    <3>2. PICK g : IsSum(g, f, Small(n - 1))
      BY <2>1, <3>1
    <3> DEFINE k == [s \in Small(n) |-> IF s = {} THEN 0 ELSE f[Pick(s)] + g[s \ {Pick(s)}]]
    <3>3. \A s \in Small(n) : s # {} => s \ {Pick(s)} \in Small(n - 1) /\ s \ {Pick(s)} \in Small(n)
      BY <3>1, PickLess DEF Small
    <3>4. \A s \in Small(n - 1) : s \in Small(n)
      BY <3>1, PollsAssumption, FS_Subset, FS_CardinalityType DEF Small
    <3>5. \A s \in Small(n - 1) : k[s] = g[s]
      BY <3>2, <3>4 DEF IsSum
    <3>6. IsSum(k, f, Small(n))
      <4>1. \A s \in Small(n) : k[s] = IF s = {} THEN 0 ELSE f[Pick(s)] + g[s \ {Pick(s)}]
        OBVIOUS
      <4>2. \A s \in Small(n) : k[s] = IF s = {} THEN 0 ELSE f[Pick(s)] + k[s \ {Pick(s)}]
        BY <3>3, <3>5, <4>1
      <4> QED BY <4>2 DEF IsSum
    <3> QED BY <2>1, <3>6
  <2> QED BY <2>2, <2>3
<1>2. Cardinality(Hosts) \in Nat /\ Small(Cardinality(Hosts)) = SUBSET Hosts
  BY PollsAssumption, FS_CardinalityType, FS_Subset DEF Small
<1>3. Cardinality(Hosts) \notin B
  BY <1>1
<1> HIDE DEF B
<1>4. \E iter : IsSum(iter, f, Small(Cardinality(Hosts)))
  BY <1>2, <1>3 DEF B
<1> QED BY <1>2, <1>4

LEMMA SumUnfold ==
    ASSUME NEW f
    PROVE  \E iter : IsSum(iter, f, SUBSET Hosts) /\ Shown(f) = iter[Hosts]
<1> DEFINE it == CHOOSE iter : IsSum(iter, f, SUBSET Hosts)
<1>1. Shown(f) = it[Hosts]
  BY DEF Shown, MapThenSumSet, MapThenFoldSet, Pick, IsSum
<1>2. IsSum(it, f, SUBSET Hosts)
  BY SumExists
<1> QED BY <1>1, <1>2

\* One reply more in the table makes the sum one larger.
LEMMA SumSteps ==
    ASSUME NEW f \in [Hosts -> Nat], NEW h
    PROVE  /\ Shown(f) \in Nat
           /\ h \in Hosts => Shown([f EXCEPT ![h] = @ + 1]) = Shown(f) + 1
<1> DEFINE e == [f EXCEPT ![h] = @ + 1]
<1>1. PICK p : IsSum(p, f, SUBSET Hosts) /\ Shown(f) = p[Hosts]
  BY SumUnfold
<1>2. PICK q : IsSum(q, e, SUBSET Hosts) /\ Shown(e) = q[Hosts]
  BY SumUnfold
<1> DEFINE Good(s) == p[s] \in Nat /\ q[s] = p[s] + IF h \in s THEN 1 ELSE 0
           B == {n \in Nat : \E s \in SUBSET Hosts : Cardinality(s) = n /\ ~Good(s)}
<1>3. B = {}
  <2> SUFFICES ASSUME B # {} PROVE FALSE
    OBVIOUS
  <2>1. PICK n \in B : \A m \in Nat : m < n => m \notin B
    <3>1. B \in SUBSET Nat
      OBVIOUS
    <3> HIDE DEF B
    <3> QED BY <3>1, Smallest
  <2>2. PICK s \in SUBSET Hosts : Cardinality(s) = n /\ ~Good(s)
    BY <2>1
  <2>3. s # {}
    BY <1>1, <1>2, <2>2 DEF IsSum
  <2> DEFINE x == Pick(s)
             t == s \ {x}
  <2>4. x \in s /\ t \in SUBSET Hosts /\ Cardinality(t) \in Nat /\ Cardinality(t) < n /\ x \notin t
    BY <2>2, <2>3, PickLess
  <2>5. Good(t)
    <3> HIDE DEF Good
    <3> QED BY <2>1, <2>4
  <2>6. p[s] = f[x] + p[t] /\ q[s] = e[x] + q[t]
    BY <1>1, <1>2, <2>3 DEF IsSum
  <2>7. f[x] \in Nat /\ e[x] = f[x] + IF x = h THEN 1 ELSE 0
    BY <2>4
  <2>8. h \in s <=> h = x \/ h \in t
    BY <2>4
  <2> HIDE DEF x, t, e
  <2>9. Good(s)
    BY <2>4, <2>5, <2>6, <2>7, <2>8
  <2> QED BY <2>2, <2>9
<1>4. Good(Hosts)
  <2>1. Cardinality(Hosts) \in Nat
    BY PollsAssumption, FS_CardinalityType
  <2> HIDE DEF Good
  <2> QED BY <1>3, <2>1
<1> QED BY <1>1, <1>2, <1>4

\* The replies counted, and the one that is rendered and has yet to be.
Counted ==
    pollState[generation].received + IF task[Consumer(generation)] = "count" THEN 1 ELSE 0

\* The replies rendered, to a row or to nothing.
Rendered == Shown(screen.rows[generation]) + screen.blank

\* A reply is rendered before it is counted, and counted before the sentinel
\* reads the counter; until then the latch is open.
TallyInv ==
    handler \in {"bind", "receive"} =>
        /\ generation \in Polls => Counted <= Rendered
        /\ screen.sentinel # NoSentinel =>
              /\ generation \in Polls
              /\ screen.sentinel.received \in 0..pollState[generation].received
        /\ generation \in Polls /\ screen.sentinel = NoSentinel =>
              ~pollState[generation].completed /\ ~pollState[generation].locked
        /\ TimerWillConclude

LEMMA RenderedIsNat ==
    ASSUME PollInv, generation \in Polls
    PROVE  /\ Shown(screen.rows[generation]) \in Nat /\ screen.blank \in Nat
           /\ Rendered \in Nat
           /\ Rendered = Shown(screen.rows[generation]) + screen.blank
<1>1. screen.rows[generation] \in [Hosts -> Nat] /\ screen.blank \in Nat
  BY DEF PollInv, PollTypeOK
<1>2. Shown(screen.rows[generation]) \in Nat
  BY <1>1, SumSteps
<1> QED BY <1>1, <1>2 DEF Rendered

\* A step that neither renders, counts, emits nor ends the timer.
LEMMA TallyKeeps ==
    ASSUME PollInv, TallyInv, UNCHANGED <<handler, generation, pollState, screen>>,
           generation \in Polls =>
              /\ task'[Consumer(generation)] = "count" => task[Consumer(generation)] = "count"
              /\ task[Timer(generation)] \in {"sleep", "enter"} =>
                    task'[Timer(generation)] \in {"sleep", "enter"}
    PROVE  TallyInv'
<1> SUFFICES ASSUME handler \in {"bind", "receive"}
             PROVE  TallyInv'
  BY DEF TallyInv
<1>1. ASSUME generation \in Polls PROVE Counted' <= Rendered'
  <2>1. pollState[generation].received \in Nat
    BY <1>1 DEF PollInv, PollTypeOK
  <2>2. Rendered \in Nat /\ Rendered' = Rendered
    BY <1>1, RenderedIsNat DEF Rendered
  <2>3. Counted' <= Counted /\ Counted \in Nat /\ Counted' \in Nat
    BY <1>1, <2>1 DEF Counted, Consumer
  <2>4. Counted <= Rendered
    BY <1>1 DEF TallyInv
  <2> QED BY <2>2, <2>3, <2>4
<1> QED BY <1>1 DEF TallyInv, TimerWillConclude

LEMMA HandlerTally ==
    ASSUME PollInv, TallyInv, HandlerNext
    PROVE  TallyInv'
<1>1. CASE handler' \notin {"bind", "receive"}
  BY <1>1 DEF TallyInv
<1>2. CASE StartConsumer
  <2>1. generation \in Polls /\ Consumer(generation) \in Tasks
    BY <1>2, TaskNames DEF StartConsumer, PollInv, TasksCurrent
  <2>2. /\ handler' = "bind" /\ generation' = generation
        /\ task'[Consumer(generation)] = "connect" /\ pollState'[generation] = NewState
        /\ screen'.sentinel = NoSentinel /\ screen'.rows[generation] = NoReplies
        /\ screen'.blank = 0
    BY <1>2, <2>1 DEF StartConsumer, ClearScreen, PollInv, PollTypeOK
  <2>3. NoReplies \in [Hosts -> Nat]
    BY DEF NoReplies
  <2>4. Counted' = 0
    BY <2>2 DEF Counted, NewState
  <2>5. Shown(NoReplies) \in Nat
    BY <2>3, SumSteps
  <2>6. Counted' <= Rendered'
    BY <2>2, <2>4, <2>5 DEF Rendered
  <2> QED BY <2>2, <2>6 DEF TallyInv, TimerWillConclude, NewState
<1>3. CASE Dispatch
  <2>1. generation \in Polls /\ Consumer(generation) \in Tasks /\ Timer(generation) \in Tasks
        /\ Consumer(generation) # Timer(generation) /\ handler = "bind"
    BY <1>3, TaskNames DEF Dispatch, PollInv, TasksCurrent
  <2>2. /\ handler' = "receive" /\ UNCHANGED <<generation, pollState, screen>>
        /\ task'[Consumer(generation)] = task[Consumer(generation)]
        /\ task'[Timer(generation)] = "sleep"
    BY <1>3, <2>1 DEF Dispatch, PollInv, PollTypeOK
  <2>3. Counted' = Counted /\ Rendered' = Rendered
    BY <2>2 DEF Counted, Consumer, Rendered
  <2> QED BY <2>1, <2>2, <2>3 DEF TallyInv, TimerWillConclude
<1> QED BY <1>1, <1>2, <1>3 DEF HandlerNext, Poll, DispatchFails, Disconnect

LEMMA TaskTally ==
    ASSUME PollInv, TallyInv, TaskNext
    PROVE  TallyInv'
<1>1. /\ task \in [Tasks -> TaskPC]
      /\ pollState \in [Polls -> [received : Nat, completed : BOOLEAN, locked : BOOLEAN]]
      /\ screen.rows \in [Polls -> [Hosts -> Nat]] /\ screen.blank \in Nat
  BY DEF PollInv, PollTypeOK
<1>2. ASSUME NEW a \in Tasks, task[a] \notin {"none", "done", "cancelled"}
      PROVE  a[2] = generation /\ generation \in Polls /\ handler \in {"bind", "receive"}
  BY <1>2, TaskNames DEF InFlight, PollInv, TasksCurrent
<1>3. ASSUME NEW g \in Polls,
             \/ ConsumerBind(g) \/ ConsumerDies(g) \/ TimerFires(g)
             \/ ConnectionDrops(g) \/ ConnectionRestored(g)
      PROVE  TallyInv'
  <2>1. UNCHANGED <<handler, generation, pollState, screen>>
    BY <1>3 DEF ConsumerBind, ConsumerDies, TimerFires, ConnectionDrops, ConnectionRestored,
                handlerVars
  <2>2. \A b \in Tasks : \/ task'[b] = task[b]
                         \/ b = Consumer(g) /\ task'[b] \in {"listen", "done"}
                         \/ b = Timer(g) /\ task'[b] = "enter"
    BY <1>1, <1>3, TaskNames
       DEF ConsumerBind, ConsumerDies, TimerFires, ConnectionDrops, ConnectionRestored
  <2>3. generation \in Polls =>
          /\ task'[Consumer(generation)] = "count" => task[Consumer(generation)] = "count"
          /\ task[Timer(generation)] \in {"sleep", "enter"} =>
                task'[Timer(generation)] \in {"sleep", "enter"}
    BY <2>2, TaskNames DEF Consumer, Timer
  <2> QED BY <2>1, <2>3, TallyKeeps
<1>4. ASSUME NEW g \in Polls, NEW h \in Hosts, ConsumerTake(g, h) \/ ConsumerTakeBlank(g, h)
      PROVE  TallyInv'
  <2>0. Take(g, h) /\ screen'.sentinel = screen.sentinel
    <3>1. CASE ConsumerTake(g, h)
      BY <3>1 DEF ConsumerTake, PollInv, PollTypeOK
    <3>2. CASE ConsumerTakeBlank(g, h)
      BY <3>2 DEF ConsumerTakeBlank, PollInv, PollTypeOK
    <3> QED BY <1>4, <3>1, <3>2
  <2>1. g = generation /\ generation \in Polls /\ Consumer(g) \in Tasks /\ Timer(g) \in Tasks
        /\ Consumer(g) # Timer(g) /\ task[Consumer(g)] = "listen" /\ IsCurrent
    BY <1>2, <2>0, TaskNames DEF Take, IsCurrent, PollInv, PollTypeOK
  <2>2. /\ UNCHANGED <<handler, generation, pollState>> /\ screen'.sentinel = screen.sentinel
        /\ task'[Consumer(g)] = "count" /\ task'[Timer(g)] = task[Timer(g)]
    BY <1>1, <2>0, <2>1 DEF Take, handlerVars
  <2>3. screen.rows[g] \in [Hosts -> Nat] /\ pollState[g].received \in Nat
    BY <1>1
  <2>4. /\ Shown(screen.rows[g]) \in Nat /\ screen.blank \in Nat
        /\ Rendered = Shown(screen.rows[g]) + screen.blank
    BY <2>1, RenderedIsNat
  <2>5. Rendered' = Rendered + 1 /\ Rendered \in Nat
    <3>1. CASE ConsumerTake(g, h)
      <4>1. /\ screen'.rows[g] = [screen.rows[g] EXCEPT ![h] = @ + 1]
            /\ screen'.blank = screen.blank
        BY <2>1, <3>1 DEF ConsumerTake, PollInv, PollTypeOK
      <4>2. Shown([screen.rows[g] EXCEPT ![h] = @ + 1]) = Shown(screen.rows[g]) + 1
        BY <2>3, SumSteps
      <4>3. Rendered' = Shown([screen.rows[g] EXCEPT ![h] = @ + 1]) + screen.blank
        BY <2>1, <2>2, <4>1 DEF Rendered
      <4> QED BY <2>4, <4>2, <4>3
    <3>2. CASE ConsumerTakeBlank(g, h)
      <4>1. screen'.rows = screen.rows /\ screen'.blank = screen.blank + 1
        BY <2>1, <3>2 DEF ConsumerTakeBlank, PollInv, PollTypeOK
      <4>2. Rendered' = Shown(screen.rows[g]) + (screen.blank + 1)
        BY <2>1, <2>2, <4>1 DEF Rendered
      <4> QED BY <2>4, <4>2
    <3> QED BY <1>4, <3>1, <3>2
  <2>6. handler \in {"bind", "receive"} /\ Counted = pollState[g].received
        /\ Counted' = pollState[g].received + 1
    BY <1>2, <2>1, <2>2, <2>3 DEF Counted
  <2>7. Counted' <= Rendered'
    BY <2>1, <2>3, <2>5, <2>6 DEF TallyInv
  <2> QED BY <2>1, <2>2, <2>6, <2>7 DEF TallyInv, TimerWillConclude
<1>5. ASSUME NEW g \in Polls, ConsumerCount(g) PROVE TallyInv'
  <2>1. g = generation /\ generation \in Polls /\ Consumer(g) \in Tasks /\ Timer(g) \in Tasks
        /\ Consumer(g) # Timer(g) /\ task[Consumer(g)] = "count" /\ StateCell = g
        /\ handler \in {"bind", "receive"}
    BY <1>2, <1>5, TaskNames DEF ConsumerCount, StateCell
  <2>2. /\ UNCHANGED <<handler, generation, screen>>
        /\ pollState'[g].received = pollState[g].received + 1
        /\ pollState'[g].completed = pollState[g].completed
        /\ pollState'[g].locked = pollState[g].locked
        /\ task'[Consumer(g)] # "count" /\ task'[Timer(g)] = task[Timer(g)]
    BY <1>1, <1>5, <2>1 DEF ConsumerCount, handlerVars
  <2>3. pollState[g].received \in Nat
    BY <1>1
  <2>4. Counted' = Counted /\ Rendered' = Rendered
    BY <2>1, <2>2, <2>3 DEF Counted, Rendered
  <2>5. screen.sentinel # NoSentinel => screen.sentinel.received \in 0..pollState'[g].received
    BY <2>1, <2>2, <2>3 DEF TallyInv
  <2> QED BY <2>1, <2>2, <2>4, <2>5 DEF TallyInv, TimerWillConclude
<1>6. ASSUME NEW a \in Tasks, task[a] \in {"enter", "emit"}
      PROVE  /\ a[2] = generation /\ generation \in Polls /\ handler \in {"bind", "receive"}
             /\ Consumer(generation) \in Tasks
  BY <1>2, <1>6, TaskNames
<1>7. ASSUME NEW a \in Tasks, Emit(a) PROVE TallyInv'
  <2>1. a[2] = generation /\ generation \in Polls /\ Consumer(generation) \in Tasks
    BY <1>6, <1>7 DEF Emit
  <2>2. /\ UNCHANGED <<handler, generation>> /\ screen'.rows = screen.rows
        /\ screen'.blank = screen.blank
        /\ screen'.sentinel = [poll |-> generation, received |-> pollState[generation].received,
                                total |-> Cardinality(asked[generation])]
        /\ pollState'[generation].received = pollState[generation].received
        /\ task'[Consumer(generation)] = "count" => task[Consumer(generation)] = "count"
    BY <1>1, <1>7, <2>1 DEF Emit, Show, handlerVars, PollInv, PollTypeOK
  <2>3. pollState[generation].received \in Nat
    BY <1>1, <2>1
  <2>4. Rendered \in Nat /\ Rendered' = Rendered
    BY <2>1, <2>2, RenderedIsNat DEF Rendered
  <2>5. handler \in {"bind", "receive"} => Counted' <= Rendered'
    <3>1. Counted' <= Counted /\ Counted \in Nat /\ Counted' \in Nat
      BY <2>1, <2>2, <2>3 DEF Counted, Consumer
    <3>2. handler \in {"bind", "receive"} => Counted <= Rendered
      BY <2>1 DEF TallyInv
    <3> QED BY <2>4, <3>1, <3>2
  <2>6. screen'.sentinel # NoSentinel
    <3>1. asked[generation] \in SUBSET Hosts
      BY <2>1 DEF PollInv, PollTypeOK
    <3>2. Cardinality(asked[generation]) \in Nat
      BY <3>1, PollsAssumption, FS_Subset, FS_CardinalityType
    <3>3. screen'.sentinel \in [poll : Polls, received : Nat, total : Nat]
      BY <2>1, <2>2, <2>3, <3>2
    <3> QED BY <3>3, NoSentinelAssumption
  <2> QED BY <2>1, <2>2, <2>3, <2>5, <2>6 DEF TallyInv, TimerWillConclude
<1>8. ASSUME NEW a \in Tasks, EmitNothing(a) \/ Latch(a) PROVE TallyInv'
  <2>1. /\ a[2] = generation /\ generation \in Polls /\ Consumer(generation) \in Tasks
        /\ handler \in {"bind", "receive"}
    BY <1>6, <1>8 DEF EmitNothing, Latch
  <2>2. pollState[generation].completed \/ pollState[generation].locked
    BY <1>8, <2>1 DEF EmitNothing, Latch, PollInv, SentinelLatched
  <2>3. screen.sentinel # NoSentinel
    BY <2>1, <2>2 DEF TallyInv
  <2>4. /\ UNCHANGED <<handler, generation, screen>>
        /\ pollState'[generation].received = pollState[generation].received
        /\ task'[Consumer(generation)] = "count" => task[Consumer(generation)] = "count"
    BY <1>1, <1>8, <2>1 DEF EmitNothing, Latch, AfterEmit, handlerVars
  <2>5. pollState[generation].received \in Nat
    BY <1>1, <2>1
  <2>6. Rendered \in Nat /\ Rendered' = Rendered
    BY <2>1, <2>4, RenderedIsNat DEF Rendered
  <2>7. Counted' <= Rendered'
    <3>1. Counted' <= Counted /\ Counted \in Nat /\ Counted' \in Nat
      BY <2>1, <2>4, <2>5 DEF Counted, Consumer
    <3>2. Counted <= Rendered
      BY <2>1 DEF TallyInv
    <3> QED BY <2>6, <3>1, <3>2
  <2> QED BY <2>1, <2>3, <2>4, <2>7 DEF TallyInv, TimerWillConclude
<1> QED BY <1>3, <1>4, <1>5, <1>7, <1>8 DEF TaskNext

LEMMA TallyInvariant == Spec => []TallyInv
<1>1. Init => TallyInv
  <2> SUFFICES ASSUME Init PROVE TallyInv
    OBVIOUS
  <2>1. handler = "receive" /\ generation \notin Polls /\ screen.sentinel = NoSentinel
    BY DEF Init, ClearScreen, Polls
  <2> QED BY <2>1 DEF TallyInv, TimerWillConclude
<1>2. PollInv /\ TallyInv /\ [Next]_vars => TallyInv'
  <2> SUFFICES ASSUME PollInv, TallyInv, [Next]_vars PROVE TallyInv'
    OBVIOUS
  <2>1. CASE WorkersNext \/ UNCHANGED vars
    <3>1. UNCHANGED <<handler, generation, task, pollState, screen>>
      BY <2>1 DEF WorkersNext, ReportPublish, ReportFails, WorkerCrash, vars, handlerVars
    <3> QED BY <3>1, TallyKeeps
  <2> QED BY <2>1, HandlerTally, TaskTally DEF Next
<1> QED BY <1>1, <1>2, InitPollInv, NextPollInv, PTL DEF Spec

\* However many hosts are asked and however their replies, the poll's end and
\* the timer race: the count in the sentinel is covered by the rows above it
\* and the replies whose body rendered to nothing (_consume_fanout).
THEOREM SentinelIsBacked == Spec => []SentinelCountsRows
<1>1. PollInv /\ TallyInv => SentinelCountsRows
  <2> SUFFICES ASSUME PollInv, TallyInv, handler \in {"bind", "receive"},
                      screen.sentinel # NoSentinel
               PROVE  screen.sentinel.received <= Shown(screen.rows[generation]) + screen.blank
    BY DEF SentinelCountsRows
  <2>1. generation \in Polls /\ screen.sentinel.received \in 0..pollState[generation].received
    BY DEF TallyInv
  <2>2. pollState[generation].received \in Nat
    BY <2>1 DEF PollInv, PollTypeOK
  <2>3. Rendered \in Nat /\ Rendered = Shown(screen.rows[generation]) + screen.blank
    BY <2>1, RenderedIsNat
  <2>4. Counted <= Rendered /\ Counted \in Nat
        /\ pollState[generation].received <= Counted
    BY <2>1, <2>2 DEF TallyInv, Counted
  <2> QED BY <2>1, <2>2, <2>3, <2>4
<1> QED BY <1>1, TallyInvariant, InitPollInv, NextPollInv, PTL DEF Spec

\* Whatever fails and however long it takes, the grace timer of the current poll
\* is there to show its sentinel (_emit_sentinel_after_grace).
THEOREM NoPollIsForgotten == Spec => []TimerWillConclude
<1>1. TallyInv => TimerWillConclude
  BY DEF TallyInv, TimerWillConclude
<1> QED BY <1>1, TallyInvariant, PTL
==============================================================================
