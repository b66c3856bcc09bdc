-------------------------------- MODULE BoardEvents --------------------------------
(* The events of the board driver together: requests for the monitor, the SES       *)
(* button, and the loss of power, after which nothing runs any more.                *)
EXTENDS DyingGasp, Wakeups

eventVars == <<gaspVars, wakeVars>>

EventInit == GaspInit /\ WakeInit
EventNext ==
    \/ GaspNext /\ UNCHANGED wakeVars
    \/ gasp = "no" /\ WakeNext /\ UNCHANGED gaspVars

Running(A) == gasp = "no" /\ A /\ UNCHANGED gaspVars

(* The processes in select go on when they are woken, interrupts are taken. *)
EventFairness ==
    /\ WF_eventVars(Running(MonitorStep))
    /\ WF_eventVars(Running(ReaderStep))
    /\ WF_eventVars(Running(SesDispatch)) /\ WF_eventVars(Running(SesIsr))
EventSpec == EventInit /\ [][EventNext]_eventVars /\ EventFairness

EventTypeOK == GaspTypeOK /\ WakeTypeOK

(* A request for the monitor makes it return from select with an exception after    *)
(* the request, wherever the request finds it, unless power is lost.                *)
MonitorIsTold == asked /\ hooked ~> ~asked \/ gasp # "no"

(* A button that is held while its interrupt is enabled gives a reader that wants   *)
(* its events an event.                                                             *)
ButtonIsReported ==
    pressed /\ sesOn /\ wants ~> event \/ ~pressed \/ ~wants \/ gasp # "no"
====================================================================================
