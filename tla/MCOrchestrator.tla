--------------------------- MODULE MCOrchestrator ----------------------------
(****************************************************************************)
(* Values for the constants of Orchestrator: small fleets, small pools,     *)
(* bundles and admin forms.                                                 *)
(****************************************************************************)
EXTENDS Claims, Refinement, TLC

PlainBundle == [required_hw_tags |-> {}, requires_emulation |-> FALSE, known_runner |-> TRUE]

\* Every test asks for nothing in particular.
PlainBundles == [t \in Tests |-> PlainBundle]

\* One test needs a tag and emulation, which a host has only once an admin has
\* said so; the others ask for nothing.  No worker knows their runner.
DutTag == "DUT_TYPE_A"
MCTags == {DutTag}
Picky == CHOOSE t \in Tests : TRUE
MixedBundles ==
    [t \in Tests |->
        IF t = Picky
        THEN [required_hw_tags |-> {DutTag}, requires_emulation |-> TRUE, known_runner |-> FALSE]
        ELSE [PlainBundle EXCEPT !.known_runner = FALSE]]

\* Pools of which all processes are on host 1, and one process per host.
AllOnHostOne == [p \in Procs |-> 1]
TwoHostProcs == 1..2
OnePerHost == [p \in Procs |-> p]

\* Admin forms: none; equip host 1 and leave its cap field at 0; cut its cap.
NoEdits == {}
SomeEdits ==
    {[host_id |-> 1, hardware_tags |-> {DutTag}, supports_emulation |-> TRUE, max_containers |-> 2],
     [host_id |-> 1, hardware_tags |-> {}, supports_emulation |-> FALSE, max_containers |-> 0]}

\* Tests, and the processes of one pool, are interchangeable.
TestSymmetry == Permutations(Tests)
PoolSymmetry == Permutations(Tests) \cup Permutations(Procs)
==============================================================================
