------------------------------- MODULE MCAgent -------------------------------
(* Instances of Agent for TLC: what the ACS asks for.                      *)
EXTENDS Agent, TLC

Ask(rpc, delay) == [ rpc |-> rpc, delay |-> delay, firmware |-> FALSE ]

(* A scheduled inform, a reboot, then a firmware.                          *)
ThreeRequests ==
  << Ask("SCHEDULE", 1), Ask("Reboot", 0), [ Ask("DOWNLOAD", 1) EXCEPT !.firmware = TRUE ] >>

TwoUploads == << Ask("UPLOAD", 1), Ask("UPLOAD", 1) >>

OneSchedule == << Ask("SCHEDULE", 1) >>

(* Periodic informs every second, or two; and, with the first, without     *)
(* them, or with an interval of 0.                                         *)
Inform(seconds) == [ enable |-> TRUE, interval |-> seconds ]
EverySecond == { Inform(1) }
EveryTwoSeconds == { Inform(2) }
AnyConfiguration == { Inform(1), Inform(0), [ enable |-> FALSE, interval |-> 1 ] }
=============================================================================
