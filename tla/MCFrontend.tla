------------------------------ MODULE MCFrontend -------------------------------
(****************************************************************************)
(* Values for the constants of Frontend: the forms differ from a good one   *)
(* in one or two fields; the reading has a CPU above 100 %, no utmp, free   *)
(* figures at a tie (512.25 MB, 10.375 GB), a total that rounding twice     *)
(* shows as 12 (12.504997 GB) and one that it does not (4096.7 MB).         *)
(****************************************************************************)
EXTENDS Frontend, TLC

Blank == Text(TRUE, "")

GoodForm ==
    [runner_type |-> Plain("pytest"), framework_image |-> Plain("image"),
     target_dut |-> Plain("dut"), required_hw_tags |-> <<>>, requires_emulation |-> FALSE]

SomeForms ==
    {[GoodForm EXCEPT !.runner_type = Plain("robot"), !.target_dut = Empty],
     [GoodForm EXCEPT !.runner_type = Text(TRUE, "pytest")],
     [GoodForm EXCEPT !.runner_type = Blank],
     [GoodForm EXCEPT !.framework_image = Blank],
     [GoodForm EXCEPT !.framework_image = Empty],
     [GoodForm EXCEPT !.requires_emulation = TRUE,
                      !.required_hw_tags = <<Text(TRUE, "tag"), Blank, Plain("other"), Empty>>]}

\* In tenths of a percent, kB, and blocks of 4 kB.
SomeReadings ==
    {[cpu |-> 1003, ram_available |-> 524544, ram_total |-> 4195021,
      disk_free |-> 2719744, disk_total |-> 3278110, utmp |-> FALSE, users |-> 0]}
================================================================================
