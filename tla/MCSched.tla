------------------------------ MODULE MCSched ------------------------------
(* Instances of Sched for TLC: entity tables and the requests applications *)
(* send.                                                                   *)
EXTENDS SchedProps, TLC

CONSTANTS lan, dhcpd, console, ev, d1, d2

(* Two messaging-capable applications, one of them launched on demand.     *)
MessagingTable == lan :> {"STAGE_1", "MESSAGING", "EXE"}
               @@ dhcpd :> {"MESSAGING", "AUTO_RELAUNCH", "EXE"}

(* A server launched when a client calls, and applications of both boot    *)
(* stages: one with messaging, the console without.                        *)
ServerTable == lan :> {"STAGE_1", "ON_BOOT", "MESSAGING", "EXE"}
            @@ dhcpd :> {"SERVER", "MESSAGING", "EXE"}
            @@ console :> {"CONSOLE", "STAGE_1", "ON_BOOT", "EXE"}

(* One application of each boot stage.                                     *)
StageTable == lan :> {"STAGE_1", "MESSAGING", "EXE"}
           @@ dhcpd :> {"ON_BOOT", "MESSAGING", "AUTO_RELAUNCH", "EXE"}

(* MessagingTable, and an entity whose entry names no executable.          *)
InterestTable == MessagingTable @@ console :> {"MESSAGING"}

(* A multiple-instance application.                                        *)
MultiTable == lan :> {"STAGE_1", "MESSAGING", "EXE"}
           @@ dhcpd :> {"MULTI", "MESSAGING", "EXE"}

Req(t, f) == [ EmptyMsgHeader EXCEPT !.type = t, !.flags = f ]
Control(t, e) == [ Req(t, {}) EXCEPT !.app = Generic(e) ]
Route(a, f) == [ Req(ev, f) EXCEPT !.dst = a ]
Register(t, d) == [ Req(t, {}) EXCEPT !.evt = ev, !.data = d ]
Event(d) == [ Req(ev, {"event"}) EXCEPT !.data = d ]

ControlRequests == { Control("START_APP", dhcpd), Control("STOP_APP", dhcpd),
                     Control("RESTART_APP", dhcpd), Control("IS_APP_RUNNING", lan),
                     Route(Generic(dhcpd), {}) }
InterestRequests == { Register("REGISTER", NoData), Register("REGISTER", d1),
                      Register("UNREGISTER", NoData), Event(d1), Event(d2),
                      Control("RESTART_APP", dhcpd),
                      Route(Generic(dhcpd), {"bounceIfNotRunning", "event"}),
                      Route(Generic(UnknownId), {}), Route(Generic(console), {}),
                      Req(ev, {}) }
ServerRequests == { Control("STOP_APP", console), Control("START_APP", UnknownId),
                    Control("STOP_APP", dhcpd) }
SpecificStops == { [Control("STOP_APP", dhcpd) EXCEPT !.app = MakeSpecificEid(p, dhcpd)] :
                     p \in Pids }
InstanceRequests == { Control("START_APP", dhcpd), Route(Generic(lan), {"bounceIfNotRunning"}) }
                    \cup SpecificStops
LiveRequests == { Control("RESTART_APP", dhcpd), Route(Generic(dhcpd), {}) }
RestartRequests == { Control("RESTART_APP", dhcpd), Control("START_APP", dhcpd) }

Symmetry == Permutations(Pids) \cup Permutations(Slots)
=============================================================================
