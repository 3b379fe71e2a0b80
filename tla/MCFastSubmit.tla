---------------------------- MODULE MCFastSubmit ----------------------------
(* Scenarios of FastSubmit for TLC: two signals that compete for the cap,     *)
(* with two deaths and few faults or one death and more of them, and one      *)
(* signal under every fault.                                                  *)
EXTENDS FastSubmit, TLC

CONSTANTS s1, s2

MCSignals == {s1, s2}

Scenario(signals, n, fs) == [signals |-> signals, deaths |-> n, faults |-> fs]

MCScenarios ==
    { Scenario(MCSignals, 2, {"power", "record"}),
      Scenario(MCSignals, 1, {"power", "compact"}),
      Scenario(MCSignals, 0, {"overlap", "cancel"}),
      Scenario(MCSignals, 1, {"raise", "rest"}),
      Scenario(MCSignals, 1, {"unsure"}),
      Scenario({s1}, 2, Faults) }

(* Nothing but a sweep whose commit fails *)
CommitScenario == {Scenario({s1}, 0, {"commit"})}
=============================================================================
