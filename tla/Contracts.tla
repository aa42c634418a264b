------------------------------ MODULE Contracts --------------------------------
(****************************************************************************)
(* What crosses the broker and how each side reads it: the test bundle      *)
(* (src/shared/schemas.py, src/shared/validation.py) from the form of       *)
(* submit_test to the configuration the runner writes                       *)
(* (src/worker/translation_layer.py), and the statistics of a host          *)
(* (src/shared/host_stats.py) from psutil to the row in the admin's table   *)
(* (src/backend/services/status_render.py).                                 *)
(*                                                                          *)
(* A text is a word, perhaps the empty one, and whether there is white      *)
(* space around it.  A reading is a whole number of the grains its source   *)
(* has (kernel memory in kB, a disk in blocks), and every rounding, which   *)
(* is half to even, is of that fraction: a float holds it exactly.          *)
(****************************************************************************)
EXTENDS Integers, Sequences

CONSTANTS
    NoReservation,
    PerPercent,     \* grains of a CPU reading in a percent
    PerMB,          \* grains of a memory reading in a MB
    PerGB           \* grains of a disk reading in a GB

ASSUME GrainAssumption == PerPercent \in Nat \ {0} /\ PerMB \in Nat \ {0} /\ PerGB \in Nat \ {0}

Text(padded, word) == [padded |-> padded, word |-> word]
Plain(word) == Text(FALSE, word)
Empty == Plain("")

\* Truth and strip of a string.
Truthy(s) == s # Empty
Strip(s) == Plain(s.word)

-----------------------------------------------------------------------------
\* The bundle.

\* require_non_empty_str of a string.
RequireNonEmptyStr(s) == Strip(s) # Empty
RequirePositiveInt(n) == n > 0

ValidBundle(b) ==
    /\ RequireNonEmptyStr(b.test_id)
    /\ RequirePositiveInt(b.user_id)
    /\ RequireNonEmptyStr(b.runner_type)
    /\ RequireNonEmptyStr(b.framework_image)
    /\ b.quali_reservation_id # NoReservation => RequireNonEmptyStr(b.quali_reservation_id)

\* The comma-separated tags of a form or a row, piece by piece.
SplitTags(pieces) ==
    LET Tags[i \in 0..Len(pieces)] ==
          IF i = 0 THEN <<>>
          ELSE IF Truthy(Strip(pieces[i])) THEN Append(Tags[i - 1], Strip(pieces[i]))
          ELSE Tags[i - 1]
    IN  Tags[Len(pieces)]

\* FastAPI refuses a form without its required fields.
FormComplete(f) == Truthy(f.runner_type) /\ Truthy(f.framework_image)

RunnerVariables(f) ==
    IF Truthy(f.target_dut) THEN [k \in {"target_dut"} |-> f.target_dut]
                            ELSE [k \in {} |-> Empty]

FormBundle(test_id, user_id, f) ==
    [test_id |-> test_id, user_id |-> user_id,
     runner_type |-> f.runner_type, framework_image |-> f.framework_image,
     required_hw_tags |-> SplitTags(f.required_hw_tags),
     requires_emulation |-> f.requires_emulation,
     quali_reservation_id |-> NoReservation,
     runner_variables |-> RunnerVariables(f)]

Get(d, k, default) == IF k \in DOMAIN d THEN d[k] ELSE default

RequiredKeys == {"test_id", "user_id", "runner_type", "framework_image"}

\* Variant: the runner's variables are looked up under another key.
FromDictOtherKey(d) ==
    [test_id |-> d.test_id, user_id |-> d.user_id, runner_type |-> d.runner_type,
     framework_image |-> d.framework_image,
     required_hw_tags |-> Get(d, "required_hw_tags", <<>>),
     requires_emulation |-> Get(d, "requires_emulation", FALSE),
     quali_reservation_id |-> Get(d, "quali_reservation_id", NoReservation),
     runner_variables |-> Get(d, "variables", [k \in {} |-> Empty])]

FromDict(d) ==
    [test_id |-> d.test_id, user_id |-> d.user_id, runner_type |-> d.runner_type,
     framework_image |-> d.framework_image,
     required_hw_tags |-> Get(d, "required_hw_tags", <<>>),
     requires_emulation |-> Get(d, "requires_emulation", FALSE),
     quali_reservation_id |-> Get(d, "quali_reservation_id", NoReservation),
     runner_variables |-> Get(d, "runner_variables", [k \in {} |-> Empty])]

FromDictRaises(d) == ~(RequiredKeys \subseteq DOMAIN d /\ ValidBundle(FromDict(d)))

-----------------------------------------------------------------------------
\* The runner's configuration.

Runners == {Plain("pytest"), Plain("robot")}

GetRunnerRaises(b) ==
    ~(RequireNonEmptyStr(b.runner_type) /\ RequireNonEmptyStr(b.test_id)
      /\ b.runner_type \in Runners)

WriteConfig(b) ==
    LET vars == b.runner_variables
        dut == Get(vars, "target_dut", Empty)
    IN  IF b.runner_type = Plain("pytest")
        THEN [file |-> "pytest_config.json", target_dut |-> dut,
              timeout_seconds |-> Get(vars, "timeout_seconds", 600)]
        ELSE [file |-> "robot.args", target_dut |-> dut]

-----------------------------------------------------------------------------
\* The statistics.

\* round and the format of a float: n/d to the nearest integer, half to even.
RoundHalfEven(n, d) ==
    LET q == n \div d
        r == n % d
    IN  IF 2 * r > d \/ (2 * r = d /\ q % 2 = 1) THEN q + 1 ELSE q

Tenths(grains, per) == RoundHalfEven(10 * grains, per)
Hundredths(grains, per) == RoundHalfEven(100 * grains, per)

\* Variant: the reading as psutil gives it.
CpuUnclamped(cpu) == cpu

\* max(0.0, min(100.0, cpu_percent))
CpuClamped(cpu) ==
    IF cpu < 0 THEN 0 ELSE IF cpu > 100 * PerPercent THEN 100 * PerPercent ELSE cpu

\* Without a readable utmp there are no users.
Collect(r) ==
    [cpu_percent |-> Tenths(CpuClamped(r.cpu), PerPercent),
     ram_available_mb |-> Tenths(r.ram_available, PerMB),
     ram_total_mb |-> Tenths(r.ram_total, PerMB),
     disk_available_gb |-> Hundredths(r.disk_free, PerGB),
     disk_total_gb |-> Hundredths(r.disk_total, PerGB),
     active_users |-> IF r.utmp THEN r.users ELSE 0]

\* HostStats.__post_init__
Plausible(s) ==
    /\ s.cpu_percent \in 0..1000
    /\ 0 <= s.ram_available_mb /\ s.ram_available_mb <= s.ram_total_mb
    /\ 0 <= s.disk_available_gb /\ s.disk_available_gb <= s.disk_total_gb
    /\ s.active_users >= 0

\* Variant: the totals are cut to integers.
StatusRowCut(s) ==
    [cpu |-> s.cpu_percent, ram |-> s.ram_available_mb, ram_of |-> s.ram_total_mb \div 10,
     disk |-> s.disk_available_gb, disk_of |-> s.disk_total_gb \div 100, users |-> s.active_users]

\* render_status_row: the totals lose their decimals, which is a second rounding.
StatusRow(s) ==
    [cpu |-> s.cpu_percent, ram |-> s.ram_available_mb,
     ram_of |-> RoundHalfEven(s.ram_total_mb, 10),
     disk |-> s.disk_available_gb, disk_of |-> RoundHalfEven(s.disk_total_gb, 100),
     users |-> s.active_users]
================================================================================
