------------------------------ MODULE AdminPoll ------------------------------
(****************************************************************************)
(* The admin's live host-status poll: one ws_admin socket                   *)
(* (src/backend/main.py), the consumer and the grace timer it starts for    *)
(* every poll, and the report_status tasks that answer                      *)
(* (src/worker/tasks.py).                                                   *)
(*                                                                          *)
(* The handler, the consumers and the timers are coroutines of one event    *)
(* loop, so a step is the code between two awaits, and a cancelled task     *)
(* takes no further step.  Polls are numbered by their generation.  The     *)
(* handler is at                                                            *)
(*   receive  waiting for the next frame                                    *)
(*   clear    new generation minted, sending the fragments that clear       *)
(*   bind     consumer started, waiting for its queue or for the timeout    *)
(*   closed   disconnected, or ended by an exception                        *)
(****************************************************************************)
EXTENDS Naturals, FiniteSets, FiniteSetsExt

CONSTANTS
    Hosts,       \* the hosts of the inventory
    MaxPolls,    \* how many polls this instance follows
    PollFaults,  \* the kinds of fault it injects
    MaxFaults,   \* how many of them
    NoSentinel

ASSUME PollsAssumption == MaxPolls \in Nat /\ IsFiniteSet(Hosts)
ASSUME PollFaultsAssumption ==
    PollFaults \subseteq {"amqp", "send", "body", "report", "crash"} /\ MaxFaults \in Nat

VARIABLES
    handler,     \* where ws_admin is
    generation,  \* generation["current"]
    my_gen,      \* the variable all the closures of the handler share
    ready,       \* the Event of the current poll's bound queue
    asked,       \* each poll's host_ids
    pollState,   \* each poll's _PollState
    task,        \* each poll's consumer and timer
    job,         \* each poll's report_status message for each host
    link,        \* each poll's temporary queue is bound
    inbox,       \* replies waiting in it
    screen,      \* what the browser shows; blank: replies it was sent nothing for
    dropped,     \* history: a reply to the current poll found no queue
    broken,      \* history: the current poll's connection was lost after the bind
    late,        \* history: the current poll went out before its queue was bound
    budget

handlerVars == <<handler, generation, my_gen, ready, asked, late>>
queueVars == <<link, inbox, dropped, broken>>
vars == <<handlerVars, pollState, task, job, queueVars, screen, budget>>

Polls == 1..MaxPolls

ASSUME NoSentinelAssumption ==
    NoSentinel \notin [poll : Polls, received : Nat, total : Nat]

Consumer(g) == <<"consumer", g>>
Timer(g) == <<"timer", g>>
Tasks == {"consumer", "timer"} \X Polls

\* A consumer is connecting, listening, or done with the row of a reply it has
\* yet to count; a timer sleeps; both may be about to emit or emitting.
TaskPC == {"none", "connect", "listen", "count", "sleep", "enter", "emit", "done", "cancelled"}

NoReplies == [h \in Hosts |-> 0]
NewState == [received |-> 0, completed |-> FALSE, locked |-> FALSE]
ClearScreen == [rows |-> [g \in Polls |-> NoReplies], blank |-> 0,
                sentinel |-> NoSentinel, emitted |-> 0]

Fault(k) ==
    /\ k \in PollFaults
    /\ budget > 0
    /\ budget' = budget - 1

Init ==
    /\ handler = "receive"
    /\ generation = 0
    /\ my_gen = 0
    /\ ready = FALSE
    /\ asked = [g \in Polls |-> {}]
    /\ pollState = [g \in Polls |-> NewState]
    /\ task = [a \in Tasks |-> "none"]
    /\ job = [g \in Polls |-> [h \in Hosts |-> "none"]]
    /\ link = [g \in Polls |-> FALSE]
    /\ inbox = [g \in Polls |-> NoReplies]
    /\ screen = ClearScreen
    /\ dropped = FALSE
    /\ broken = FALSE
    /\ late = FALSE
    /\ budget = MaxFaults

PollTypeOK ==
    /\ handler \in {"receive", "clear", "bind", "closed"}
    /\ generation \in 0..MaxPolls
    /\ my_gen = generation
    /\ ready \in BOOLEAN
    /\ asked \in [Polls -> SUBSET Hosts]
    /\ pollState \in [Polls -> [received : Nat, completed : BOOLEAN, locked : BOOLEAN]]
    /\ task \in [Tasks -> TaskPC]
    /\ job \in [Polls -> [Hosts -> {"none", "queued", "handled"}]]
    /\ link \in [Polls -> BOOLEAN]
    /\ inbox \in [Polls -> [Hosts -> Nat]]
    /\ DOMAIN screen = {"rows", "blank", "sentinel", "emitted"}
    /\ screen.rows \in [Polls -> [Hosts -> Nat]]
    /\ screen.blank \in Nat
    /\ screen.emitted \in Nat
    /\ dropped \in BOOLEAN
    /\ broken \in BOOLEAN
    /\ late \in BOOLEAN
    /\ budget \in 0..MaxFaults

\* _is_current: every poll's closure reads the same my_gen, which the handler
\* overwrites together with the generation.  It never tells an old poll from
\* the current one; what keeps old polls quiet is that they are cancelled.
IsCurrent == generation = my_gen

\* The variable state of the handler, as the consumer's callback sees it: until
\* the screen is cleared it still holds the previous poll's object.
StateCell == IF handler = "clear" THEN generation - 1 ELSE generation

\* The queue of g goes with its connection.
Unlink(g) ==
    /\ link' = [p \in Polls |-> link[p] /\ p # g]
    /\ inbox' = [p \in Polls |-> IF p = g THEN NoReplies ELSE inbox[p]]

InFlight == {a \in Tasks : task[a] \notin {"none", "done", "cancelled"}}

\* Variant: only the timer of the old poll is cancelled.
CancelTimerOnly ==
    /\ task' = [a \in Tasks |->
          IF a \in InFlight /\ a = Timer(generation) THEN "cancelled" ELSE task[a]]
    /\ pollState' = [g \in Polls |->
          IF g = generation THEN [pollState[g] EXCEPT !.locked = FALSE] ELSE pollState[g]]
    /\ UNCHANGED <<link, inbox>>

\* _cancel_inflight.  A task cancelled while it emits gives up the lock, and a
\* cancelled consumer closes its connection, which takes the queue along.
CancelInflight ==
    /\ task' = [a \in Tasks |->
          IF a \in InFlight /\ a[2] = generation THEN "cancelled" ELSE task[a]]
    /\ pollState' = [g \in Polls |->
          IF g = generation THEN [pollState[g] EXCEPT !.locked = FALSE] ELSE pollState[g]]
    /\ Unlink(generation)

-----------------------------------------------------------------------------
\* ws_admin

\* A frame arrives: the old poll is cancelled and a new generation minted.
Poll(hs) ==
    /\ handler = "receive"
    /\ generation < MaxPolls
    /\ CancelInflight
    /\ generation' = generation + 1
    /\ my_gen' = generation + 1
    /\ asked' = [asked EXCEPT ![generation + 1] = hs]
    /\ ready' = FALSE
    /\ late' = FALSE
    /\ dropped' = FALSE
    /\ broken' = FALSE
    /\ handler' = "clear"
    /\ UNCHANGED <<job, screen, budget>>

\* The clearing fragments are out; then the state and the consumer are created.
StartConsumer ==
    /\ handler = "clear"
    /\ screen' = ClearScreen
    /\ pollState' = [pollState EXCEPT ![generation] = NewState]
    /\ task' = [task EXCEPT ![Consumer(generation)] = "connect"]
    /\ handler' = "bind"
    /\ UNCHANGED <<generation, my_gen, ready, asked, job, queueVars, late, budget>>

SendTo(hs) ==
    job' = [job EXCEPT ![generation] =
        [h \in Hosts |-> IF h \in hs THEN "queued" ELSE @[h]]]

\* Variant: the requests go out only once the queue is bound.
DispatchWhenBound ==
    /\ handler = "bind"
    /\ ready
    /\ SendTo(asked[generation])
    /\ task' = [task EXCEPT ![Timer(generation)] = "sleep"]
    /\ handler' = "receive"
    /\ UNCHANGED <<generation, my_gen, ready, asked, late, pollState, queueVars, screen, budget>>

\* Variant: without a bound queue no timer is started.
DispatchNoTimer ==
    /\ handler = "bind"
    /\ SendTo(asked[generation])
    /\ task' = IF ready THEN [task EXCEPT ![Timer(generation)] = "sleep"] ELSE task
    /\ late' = ~ready
    /\ handler' = "receive"
    /\ UNCHANGED <<generation, my_gen, ready, asked, pollState, queueVars, screen, budget>>

\* The queue is bound, or wait_for gives up on it: the requests go out and the
\* grace timer starts.
Dispatch ==
    /\ handler = "bind"
    /\ SendTo(asked[generation])
    /\ task' = [task EXCEPT ![Timer(generation)] = "sleep"]
    /\ late' = ~ready
    /\ handler' = "receive"
    /\ UNCHANGED <<generation, my_gen, ready, asked, pollState, queueVars, screen, budget>>

\* send_task raises after some of the requests: the handler ends.
DispatchFails(hs) ==
    /\ handler = "bind"
    /\ Fault("send")
    /\ hs \subseteq asked[generation] /\ hs # asked[generation]
    /\ SendTo(hs)
    /\ CancelInflight
    /\ late' = ~ready
    /\ handler' = "closed"
    /\ UNCHANGED <<generation, my_gen, ready, asked, screen, dropped, broken>>

\* The browser is gone, which a receive or the next send finds out, or reading
\* the inventory raises.
Disconnect ==
    /\ handler \in {"receive", "clear"}
    /\ CancelInflight
    /\ handler' = "closed"
    /\ UNCHANGED <<generation, my_gen, ready, asked, late, job, screen, dropped, broken, budget>>

-----------------------------------------------------------------------------
\* _consume_fanout

\* Variant: the Event is set before the queue is bound.
ConsumerReadyEarly(g) ==
    /\ task[Consumer(g)] = "connect"
    /\ ready' = (ready \/ g = generation)
    /\ IF ready THEN /\ task' = [task EXCEPT ![Consumer(g)] = "listen"]
                     /\ link' = [link EXCEPT ![g] = TRUE]
                ELSE UNCHANGED <<task, link>>
    /\ UNCHANGED <<handler, generation, my_gen, asked, late, pollState, job, inbox, screen,
                   dropped, broken, budget>>

ConsumerBind(g) ==
    /\ task[Consumer(g)] = "connect"
    /\ task' = [task EXCEPT ![Consumer(g)] = "listen"]
    /\ link' = [link EXCEPT ![g] = TRUE]
    /\ ready' = (ready \/ g = generation)
    /\ UNCHANGED <<handler, generation, my_gen, asked, late, pollState, job, inbox, screen,
                   dropped, broken, budget>>

\* The connection cannot be made, the iterator or send_text raises, or the reply
\* in hand cannot be acknowledged since its connection was lost; nobody looks at
\* the dead task.
ConsumerDies(g) ==
    /\ \/ task[Consumer(g)] \in {"connect", "listen"} /\ Fault("amqp")
       \/ task[Consumer(g)] = "listen" /\ ~link[g] /\ UNCHANGED budget
    /\ task' = [task EXCEPT ![Consumer(g)] = "done"]
    /\ Unlink(g)
    /\ UNCHANGED <<handlerVars, pollState, job, screen, dropped, broken>>

\* The connection is lost, while the consumer waits or works on a reply ...
ConnectionDrops(g) ==
    /\ link[g]
    /\ Fault("amqp")
    /\ Unlink(g)
    /\ broken' = (broken \/ g = generation)
    /\ UNCHANGED <<handlerVars, pollState, task, job, screen, dropped>>

\* ... and connect_robust restores it, declaring and binding the exclusive
\* queue again, empty.
ConnectionRestored(g) ==
    /\ task[Consumer(g)] \in {"listen", "count", "enter", "emit"}
    /\ ~link[g]
    /\ link' = [link EXCEPT ![g] = TRUE]
    /\ UNCHANGED <<handlerVars, pollState, task, job, inbox, screen, dropped, broken, budget>>

Take(g, h) ==
    /\ task[Consumer(g)] = "listen"
    /\ inbox[g][h] > 0
    /\ inbox' = [inbox EXCEPT ![g][h] = @ - 1]
    /\ task' = [task EXCEPT ![Consumer(g)] = "count"]
    /\ UNCHANGED <<handlerVars, pollState, job, link, dropped, broken>>

\* A reply is rendered ...
ConsumerTake(g, h) ==
    /\ Take(g, h)
    /\ screen' = IF IsCurrent THEN [screen EXCEPT !.rows[g][h] = @ + 1] ELSE screen
    /\ UNCHANGED budget

\* ... or, its body not being JSON, renders to nothing and is not sent ...
ConsumerTakeBlank(g, h) ==
    /\ Take(g, h)
    /\ Fault("body")
    /\ screen' = IF IsCurrent THEN [screen EXCEPT !.blank = @ + 1] ELSE screen

Complete(s, n) == asked[s] # {} /\ n >= Cardinality(asked[s])

\* Variant: a reply is counted when it is rendered and again by the callback.
ConsumerCountTwice(g) ==
    LET s == StateCell
        n == pollState[s].received + 1
    IN  /\ task[Consumer(g)] = "count"
        /\ IsCurrent
        /\ pollState' = [pollState EXCEPT ![s].received = n + 1]
        /\ task' = [task EXCEPT ![Consumer(g)] = IF Complete(s, n + 1) THEN "enter" ELSE "listen"]
        /\ UNCHANGED <<handlerVars, job, queueVars, screen, budget>>

\* ... and then counted either way (_guarded_on_reply, _PollState.on_reply).
ConsumerCount(g) ==
    LET s == StateCell
        n == pollState[s].received + 1
    IN  /\ task[Consumer(g)] = "count"
        /\ IsCurrent
        /\ pollState' = [pollState EXCEPT ![s].received = n]
        /\ task' = [task EXCEPT ![Consumer(g)] = IF Complete(s, n) THEN "enter" ELSE "listen"]
        /\ UNCHANGED <<handlerVars, job, queueVars, screen, budget>>

-----------------------------------------------------------------------------
\* _emit_sentinel_after_grace and _PollState.emit_sentinel

TimerFires(g) ==
    /\ task[Timer(g)] = "sleep"
    /\ IsCurrent
    /\ task' = [task EXCEPT ![Timer(g)] = "enter"]
    /\ UNCHANGED <<handlerVars, pollState, job, queueVars, screen, budget>>

AfterEmit(a) == IF a[1] = "timer" THEN "done" ELSE "listen"

Show(g) ==
    screen' = [screen EXCEPT
        !.sentinel = [poll |-> g, received |-> pollState[g].received,
                      total |-> Cardinality(asked[g])],
        !.emitted = @ + 1]

\* Variant: the latch is tested and set without the lock.
EmitUnlocked(a) ==
    LET g == a[2]
    IN  /\ task[a] = "enter"
        /\ ~pollState[g].completed
        /\ Show(g)
        /\ task' = [task EXCEPT ![a] = "emit"]
        /\ UNCHANGED <<handlerVars, pollState, job, queueVars, budget>>

\* Inside the lock, not latched: the sentinel is sent, which is an await.
Emit(a) ==
    LET g == a[2]
    IN  /\ task[a] = "enter"
        /\ ~pollState[g].locked
        /\ ~pollState[g].completed
        /\ Show(g)
        /\ pollState' = [pollState EXCEPT ![g].locked = TRUE]
        /\ task' = [task EXCEPT ![a] = "emit"]
        /\ UNCHANGED <<handlerVars, job, queueVars, budget>>

\* Inside the lock, latched already.
EmitNothing(a) ==
    /\ task[a] = "enter"
    /\ ~pollState[a[2]].locked
    /\ pollState[a[2]].completed
    /\ task' = [task EXCEPT ![a] = AfterEmit(a)]
    /\ UNCHANGED <<handlerVars, pollState, job, queueVars, screen, budget>>

\* The sentinel is out: latch, and leave the lock.
Latch(a) ==
    /\ task[a] = "emit"
    /\ pollState' = [pollState EXCEPT ![a[2]].completed = TRUE, ![a[2]].locked = FALSE]
    /\ task' = [task EXCEPT ![a] = AfterEmit(a)]
    /\ UNCHANGED <<handlerVars, job, queueVars, screen, budget>>

-----------------------------------------------------------------------------
\* report_status on the workers

\* A fanout exchange without a queue drops what it is given.
ReportPublish(g, h) ==
    /\ job[g][h] = "queued"
    /\ job' = [job EXCEPT ![g][h] = "handled"]
    /\ IF link[g] THEN inbox' = [inbox EXCEPT ![g][h] = @ + 1] /\ UNCHANGED dropped
                  ELSE dropped' = (dropped \/ g = generation) /\ UNCHANGED inbox
    /\ UNCHANGED <<handlerVars, pollState, task, link, broken, screen, budget>>

\* Collecting or publishing raises, or the pool process dies alone; the message
\* is acknowledged all the same.
ReportFails(g, h) ==
    /\ job[g][h] = "queued"
    /\ Fault("report")
    /\ job' = [job EXCEPT ![g][h] = "handled"]
    /\ UNCHANGED <<handlerVars, pollState, task, queueVars, screen>>

\* The worker of h dies after it handled a request and before it acknowledged
\* it: the request is queued again.
WorkerCrash(g, h) ==
    /\ job[g][h] = "handled"
    /\ Fault("crash")
    /\ job' = [job EXCEPT ![g][h] = "queued"]
    /\ UNCHANGED <<handlerVars, pollState, task, queueVars, screen>>

-----------------------------------------------------------------------------
HandlerNext ==
    \/ \E hs \in SUBSET Hosts : Poll(hs)
    \/ StartConsumer
    \/ Dispatch
    \/ \E hs \in SUBSET Hosts : DispatchFails(hs)
    \/ Disconnect

TaskNext ==
    \/ \E g \in Polls :
          \/ ConsumerBind(g)
          \/ ConsumerDies(g)
          \/ ConnectionDrops(g)
          \/ ConnectionRestored(g)
          \/ \E h \in Hosts : ConsumerTake(g, h) \/ ConsumerTakeBlank(g, h)
          \/ ConsumerCount(g)
          \/ TimerFires(g)
    \/ \E a \in Tasks : Emit(a) \/ EmitNothing(a) \/ Latch(a)

WorkersNext ==
    \E g \in Polls, h \in Hosts : ReportPublish(g, h) \/ ReportFails(g, h) \/ WorkerCrash(g, h)

Next == HandlerNext \/ TaskNext \/ WorkersNext

Spec == Init /\ [][Next]_vars

\* The event loop runs what can run, its timeouts expire, and a send_task
\* returns or raises.  Neither the consumer's connection nor any worker is
\* assumed to make progress.
Fairness ==
    /\ WF_vars(StartConsumer \/ Dispatch \/ \E hs \in SUBSET Hosts : DispatchFails(hs))
    /\ \A g \in Polls : WF_vars(TimerFires(g)) /\ WF_vars(ConsumerCount(g))
    /\ \A a \in Tasks : WF_vars(Emit(a) \/ EmitNothing(a) \/ Latch(a))

FairSpec == Spec /\ Fairness

-----------------------------------------------------------------------------
\* Nothing of a superseded poll is on the cleared screen: once ws_admin has
\* cleared the table, every row and every sentinel in it belongs to the poll
\* asked for last, however late the replies to earlier polls are.
NoCrossRender ==
    handler \in {"bind", "receive"} =>
        /\ \A g \in Polls, h \in Hosts : screen.rows[g][h] > 0 => g = generation
        /\ screen.sentinel # NoSentinel => screen.sentinel.poll = generation

\* The grace timer's sentinel and the one of the completing reply never both
\* appear (_PollState.emit_sentinel), although sending one is an await.
SentinelOnce == screen.emitted <= 1

Shown(rows) == MapThenSumSet(LAMBDA h : rows[h], Hosts)

\* A sentinel never counts a reply that has yet to be rendered: the count is
\* covered by the rows above it and the replies whose body rendered to nothing
\* (_consume_fanout, render_status_row, _PollState.on_reply).
SentinelCountsRows ==
    handler \in {"bind", "receive"} /\ screen.sentinel # NoSentinel =>
        screen.sentinel.received <= Shown(screen.rows[generation]) + screen.blank

\* Once the requests of a poll are out and while its sentinel is not, the grace
\* timer has yet to run and will find the latch open and free: whatever failed,
\* what is left to do for the poll to conclude needs no worker and no broker.
TimerWillConclude ==
    handler = "receive" /\ generation \in Polls /\ screen.sentinel = NoSentinel =>
        /\ task[Timer(generation)] \in {"sleep", "enter"}
        /\ ~pollState[generation].completed /\ ~pollState[generation].locked

\* A reply to the current poll finds no queue only if the socket has ended, the
\* consumer failed or lost its connection after the bind, or the bind timeout
\* sent the requests out early: never because a worker was quick.
RepliesFindTheQueue ==
    dropped => late \/ broken \/ task[Consumer(generation)] \in {"done", "cancelled"}

\* Every poll is concluded: unless another poll or the end of the socket
\* supersedes it, its sentinel appears, even if its consumer never binds or
\* loses its connection and every worker is dead.  With the broker out of reach
\* of send_task as well, the handler ends, and the socket with it.
PollConcludes ==
    \A g \in Polls : <>[](generation = g /\ handler # "closed") =>
        <>[](screen.sentinel # NoSentinel)
==============================================================================
