------------------------------- MODULE Frontend --------------------------------
(****************************************************************************)
(* The way in and out of the system, end to end: an engineer logs in        *)
(* (Sessions), submits a test, and a worker reads the bundle off the broker *)
(* and writes the runner's configuration; another message carries a host's  *)
(* statistics back to the admin's table (Contracts).  Which host is chosen, *)
(* and what happens to the run then, is in Submission and Worker.           *)
(*                                                                          *)
(* One test is submitted and one message is on its way at a time: neither   *)
(* side keeps anything from one message to the next.                        *)
(****************************************************************************)
EXTENDS Sessions, Contracts

CONSTANTS
    Forms,     \* what may be in the fields of the submission form
    Readings   \* what psutil may report

\* psutil: a CPU figure of any kind, and never more available than there is.
ASSUME ReadingsAssumption ==
    \A r \in Readings :
        /\ r.cpu \in Int /\ r.utmp \in BOOLEAN /\ r.users \in Nat
        /\ r.ram_available \in Nat /\ r.ram_total \in Nat /\ r.ram_available <= r.ram_total
        /\ r.disk_free \in Nat /\ r.disk_total \in Nat /\ r.disk_free <= r.disk_total

ASSUME NoneIsNoReport ==
    \A r \in Readings : None \notin {r, [kind |-> "stats", body |-> Collect(r)], StatusRow(Collect(r))}

\* A text field split at its commas gives a sequence of texts.
ASSUME FormsAssumption ==
    \A f \in Forms : f.required_hw_tags \in Seq([padded : BOOLEAN, word : STRING])

Statuses == {"PENDING", "DISPATCHED", "RUNNING", "FAILED"}

ASSUME NoneIsNoRow ==
    None \notin [user_id : Nat, runner_type : {f.runner_type : f \in Forms},
                  framework_image : {f.framework_image : f \in Forms}, status : Statuses]

VARIABLES
    request,   \* each browser's POST /tests: the user it runs as and the bundle
    run,       \* the row of the test
    message,   \* the message on its way, unacknowledged
    task,      \* the worker's run_test_bundle: where it is, and its bundle
    config,    \* the configuration file in the test's directory
    row,       \* the row of the admin's table
    asked,     \* history: which form was submitted, with which cookie and when
    reading    \* history: what psutil last reported

requestVars == <<request, run, asked>>
wireVars == <<message, task, config, row, reading>>
vars == <<sessionVars, requestVars, wireVars>>

TestId == Plain("t1")

Init ==
    /\ SessionsInit
    /\ request = [b \in Browsers |-> None] /\ run = None /\ asked = None
    /\ message = None /\ task = None /\ config = None /\ row = None /\ reading = None

FrontendTypeOK ==
    /\ SessionsTypeOK
    /\ run # None => run.user_id \in Nat /\ run.status \in Statuses
    /\ message # None => message.kind \in {"bundle", "stats"}
    /\ task # None => task.pc \in {"runner", "start", "raised", "done"}

-----------------------------------------------------------------------------
\* submit_test

\* Variant: a form is taken as it comes.
SubmitUnchecked(b, f) ==
    /\ login[b].pc = "idle" /\ run = None
    /\ \A c \in Browsers : request[c] = None
    /\ \E u \in Resolved(b) :
          request' = [request EXCEPT ![b] =
              [bundle |-> FormBundle(TestId, u.id, f), form |-> f, login |-> cookie[b], at |-> now]]
    /\ UNCHANGED <<sessionVars, run, asked, wireVars>>

\* current_user resolves the cookie, and the form becomes a bundle; otherwise
\* the browser is sent elsewhere and nothing is kept.
SubmitTest(b, f) ==
    /\ login[b].pc = "idle" /\ run = None
    /\ \A c \in Browsers : request[c] = None
    /\ FormComplete(f)
    /\ \E u \in Resolved(b) :
          LET bundle == FormBundle(TestId, u.id, f)
          IN  /\ ValidBundle(bundle)
              /\ request' = [request EXCEPT ![b] =
                    [bundle |-> bundle, form |-> f, login |-> cookie[b], at |-> now]]
    /\ UNCHANGED <<sessionVars, run, asked, wireVars>>

\* The PENDING row is committed in a database session of the handler's own.
CommitRun(b) ==
    LET r == request[b]
    IN  /\ r # None /\ run = None
        /\ run' = [user_id |-> r.bundle.user_id, runner_type |-> r.bundle.runner_type,
                   framework_image |-> r.bundle.framework_image, status |-> "PENDING"]
        /\ asked' = [form |-> r.form, login |-> r.login, at |-> r.at]
        /\ UNCHANGED <<sessionVars, request, wireVars>>

\* A commit that fails is a 500.
CommitRunFails(b) ==
    /\ request[b] # None /\ run = None
    /\ Fault("db")
    /\ request' = [request EXCEPT ![b] = None]
    /\ UNCHANGED <<now, users, user_id_seq, sessions, login, cookie, run, asked, wireVars>>

\* dispatch, with a host or without one, and its record.  asdict and JSON keep
\* every field.
Dispatch(b) ==
    /\ request[b] # None /\ run # None /\ run.status = "PENDING"
    /\ message = None
    /\ \/ /\ message' = [kind |-> "bundle", body |-> request[b].bundle]
          /\ run' = [run EXCEPT !.status = "DISPATCHED"]
       \/ /\ run' = [run EXCEPT !.status = "FAILED"]
          /\ UNCHANGED message
    /\ request' = [request EXCEPT ![b] = None]
    /\ UNCHANGED <<sessionVars, asked, task, config, row, reading>>

\* The requests of the backend are gone, with the transactions of its logins.
BackendCrash ==
    /\ Fault("crash")
    /\ login' = [b \in Browsers |-> NoLogin]
    /\ request' = [b \in Browsers |-> None]
    /\ UNCHANGED <<now, users, user_id_seq, sessions, cookie, run, asked, wireVars>>

-----------------------------------------------------------------------------
\* run_test_bundle

Delivered == message # None /\ message.kind = "bundle" /\ task = None

\* from_dict comes first: if it raises, the task ends before the run has a
\* status of its own.
Rebuild ==
    /\ Delivered
    /\ IF FromDictRaises(message.body)
       THEN task' = [pc |-> "raised"] /\ UNCHANGED run
       ELSE /\ task' = [pc |-> "runner", bundle |-> FromDict(message.body)]
            /\ run' = [run EXCEPT !.status = "RUNNING"]
    /\ UNCHANGED <<sessionVars, request, asked, message, config, row, reading>>

\* KeyError, caught by the except of run_test_bundle.
RunnerUnknown ==
    /\ task # None /\ task.pc = "runner"
    /\ GetRunnerRaises(task.bundle)
    /\ task' = [task EXCEPT !.pc = "done"]
    /\ run' = [run EXCEPT !.status = "FAILED"]
    /\ UNCHANGED <<sessionVars, request, asked, message, config, row, reading>>

Translate ==
    /\ task # None /\ task.pc = "runner"
    /\ ~GetRunnerRaises(task.bundle)
    /\ config' = WriteConfig(task.bundle)
    /\ task' = [task EXCEPT !.pc = "start"]
    /\ UNCHANGED <<sessionVars, requestVars, message, row, reading>>

\* The task is over, or its pool process has died alone, wherever it was: the
\* message is acknowledged.
Acknowledge ==
    /\ task # None
    /\ message' = None
    /\ task' = None
    /\ UNCHANGED <<sessionVars, requestVars, config, row, reading>>

\* The whole worker dies and the bundle is delivered once more.
WorkerCrash ==
    /\ task # None
    /\ Fault("crash")
    /\ task' = None
    /\ UNCHANGED <<now, users, user_id_seq, sessions, login, cookie, requestVars,
                   message, config, row, reading>>

-----------------------------------------------------------------------------
\* report_status and the admin's table

\* Nothing is published if the snapshot's assertions fail.
ReportStatus(r) ==
    /\ message = None /\ row = None /\ reading = None
    /\ reading' = r
    /\ message' = IF Plausible(Collect(r)) THEN [kind |-> "stats", body |-> Collect(r)] ELSE None
    /\ UNCHANGED <<sessionVars, requestVars, task, config, row>>

ShowStatus ==
    /\ message # None /\ message.kind = "stats"
    /\ row' = StatusRow(message.body)
    /\ message' = None
    /\ UNCHANGED <<sessionVars, requestVars, task, config, reading>>

\* The next poll clears the table.
ClearTable ==
    /\ row # None
    /\ row' = None /\ reading' = None
    /\ UNCHANGED <<sessionVars, requestVars, message, task, config>>

-----------------------------------------------------------------------------
SessionStep(b) == request[b] = None /\ LoginNext(b) /\ UNCHANGED <<requestVars, wireVars>>

Clock == Tick /\ UNCHANGED <<requestVars, wireVars>>

Next ==
    \/ \E b \in Browsers :
          \/ SessionStep(b)
          \/ \E f \in Forms : SubmitTest(b, f)
          \/ CommitRun(b) \/ CommitRunFails(b) \/ Dispatch(b)
    \/ BackendCrash
    \/ Clock
    \/ Rebuild \/ RunnerUnknown \/ Translate
    \/ Acknowledge \/ WorkerCrash
    \/ \E r \in Readings : ReportStatus(r)
    \/ ShowStatus \/ ClearTable

Spec == Init /\ [][Next]_vars

\* A request that can go on does; nobody has to log in, and the directory need
\* not answer.
LoginProceeds(b) == SessionStep(b) /\ login[b].pc \in {"query", "add", "commit"}

Fairness == \A b \in Browsers : WF_vars(LoginProceeds(b))

FairSpec == Spec /\ Fairness

-----------------------------------------------------------------------------
\* The audit record tells the truth: the run belongs to the account of the
\* engineer who logged in with the browser that submitted it, and that engineer
\* had logged in no longer than SessionTTL before.
RunIsAccountable ==
    run # None =>
        /\ \E u \in users : u.id = run.user_id /\ u.username = asked.login.by
        /\ asked.at <= asked.login.at + SessionTTL

\* Whatever the backend accepts the worker can read: from_dict never raises, so
\* no run is lost before it has a status of its own.
AcceptedIsReadable == task # None => task.pc # "raised"

\* The runner is configured for what was asked in the form, after the broker
\* and after a redelivery: the same device, image and runner, and the tags and
\* emulation the host was chosen for.
RunsWhatWasAsked ==
    task # None /\ task.pc = "start" =>
        /\ config.target_dut = asked.form.target_dut
        /\ task.bundle.runner_type = asked.form.runner_type
        /\ task.bundle.framework_image = run.framework_image
        /\ run.framework_image = asked.form.framework_image
        /\ task.bundle.requires_emulation = asked.form.requires_emulation
        /\ {task.bundle.required_hw_tags[i].word : i \in DOMAIN task.bundle.required_hw_tags} =
              {asked.form.required_hw_tags[i].word : i \in DOMAIN asked.form.required_hw_tags} \ {""}

\* No reading of psutil makes a host mute: a report is on its way or in the
\* table (and the heartbeat, which collects the same snapshot, is not lost).
EveryReportShows ==
    reading # None => row # None \/ (message # None /\ message.kind = "stats")

\* figure / unit differs from grains / per by at most this many thousandths of
\* 1 / unit.
Within(thousandths, figure, unit, grains, per) ==
    1000 * (per * figure - unit * grains) \in -(thousandths * per)..(thousandths * per)

\* The table tells the truth about the host.  What it shows with decimals is
\* the nearest such figure.  The totals are rounded twice, by the snapshot and
\* by the row, and may miss the nearest whole number, 4.504 GB showing as 4:
\* they are off by no more than 0.55 MB and 0.505 GB.
TableIsTrue ==
    row # None =>
        /\ Within(500, row.cpu, 10, CpuClamped(reading.cpu), PerPercent)
        /\ Within(500, row.ram, 10, reading.ram_available, PerMB)
        /\ Within(550, row.ram_of, 1, reading.ram_total, PerMB)
        /\ Within(500, row.disk, 100, reading.disk_free, PerGB)
        /\ Within(505, row.disk_of, 1, reading.disk_total, PerGB)
================================================================================
