---------------------------------- MODULE Wakeups ----------------------------------
(* How board.c wakes user processes: the monitor, which sleeps in select on a file  *)
(* whose poll function the driver has hooked, and the reader of the SES button.     *)
(* Interrupts come between any two statements; the processes do not preempt each    *)
(* other.                                                                           *)

VARIABLES
    g_wakeup_monitor,   \* somebody asked for the monitor
    hooked,             \* g_monitor_file and g_monitor_task are set
    mon, monAwake,      \* the monitor: where it is, is it to run
    asked,              \* history: it was asked for and has not returned since
    pressed,            \* the button
    sesOn,              \* its interrupt is not masked
    isr,                \* its handler is running
    wants,              \* SES_EVENTS in the eventmask of its reader
    rd, rdAwake,        \* the reader of the button
    event               \* the last read gave an event

monVars == <<g_wakeup_monitor, hooked, mon, monAwake, asked>>
sesVars == <<pressed, sesOn, isr, wants, rd, rdAwake, event>>
wakeVars == <<g_wakeup_monitor, hooked, mon, monAwake, asked,
              pressed, sesOn, isr, wants, rd, rdAwake, event>>

WakeInit ==
    /\ g_wakeup_monitor = FALSE /\ hooked = FALSE /\ mon = "out" /\ monAwake = TRUE
    /\ asked = FALSE
    /\ pressed = FALSE /\ sesOn = TRUE /\ isr = FALSE /\ wants = FALSE
    /\ rd = "out" /\ rdAwake = TRUE /\ event = FALSE

-------------------------------------------------------------------------------------
(* The monitor *)

(* BOARD_IOCTL_SET_MONITOR_FD, which the monitor calls once. *)
SetMonitorFd ==
    /\ mon = "out" /\ ~hooked
    /\ hooked' = TRUE
    /\ UNCHANGED <<g_wakeup_monitor, mon, monAwake, asked, sesVars>>

(* kerSysWakeupMonitorTask, called from interrupts, timers and ioctls. *)
WakeupMonitorTask ==
    /\ g_wakeup_monitor' = TRUE
    /\ monAwake' = (monAwake \/ hooked)
    /\ asked' = TRUE
    /\ UNCHANGED <<hooked, mon, sesVars>>

(* Mutant: any file with the hooked function reports the request. *)
ReportsAny(f) == g_wakeup_monitor /\ f \in {"monitor", "other"}

(* The test of kerSysMonitorPollHook, which polls of other files of the same kind   *)
(* pass through too.                                                                *)
Reports(f) == g_wakeup_monitor /\ f = "monitor"

(* select: the task is to sleep from here on, unless it is woken. *)
MonSelect ==
    /\ hooked
    /\ mon = "out" \/ (mon = "wait" /\ monAwake)
    /\ mon' = "poll" /\ monAwake' = FALSE
    /\ UNCHANGED <<g_wakeup_monitor, hooked, asked, sesVars>>

(* kerSysMonitorPollHook: the test, then the reset of the flag. *)
MonPoll ==
    /\ mon = "poll"
    /\ mon' = IF Reports("monitor") THEN "reset" ELSE "wait"
    /\ UNCHANGED <<g_wakeup_monitor, hooked, monAwake, asked, sesVars>>
MonReset ==
    /\ mon = "reset"
    /\ g_wakeup_monitor' = FALSE /\ mon' = "told"
    /\ UNCHANGED <<hooked, monAwake, asked, sesVars>>

(* select returns with POLLPRI, or for another reason. *)
MonTold ==
    /\ mon = "told"
    /\ mon' = "out" /\ monAwake' = TRUE /\ asked' = FALSE
    /\ UNCHANGED <<g_wakeup_monitor, hooked, sesVars>>
MonOther ==
    /\ mon = "wait"
    /\ mon' = "out" /\ monAwake' = TRUE
    /\ UNCHANGED <<g_wakeup_monitor, hooked, asked, sesVars>>

(* Another process polls a file with the same poll function. *)
OtherPoll ==
    /\ hooked /\ mon \in {"out", "wait"}
    /\ g_wakeup_monitor' = (g_wakeup_monitor /\ ~Reports("other"))
    /\ UNCHANGED <<hooked, mon, monAwake, asked, sesVars>>

-------------------------------------------------------------------------------------
(* The button *)

Press ==
    /\ pressed' = ~pressed
    /\ UNCHANGED <<sesOn, isr, wants, rd, rdAwake, event, monVars>>

(* The interrupt is raised by the level.  Its dispatch masks it, and the handler    *)
(* does not enable it.                                                              *)
SesDispatch ==
    /\ pressed /\ sesOn /\ ~isr
    /\ sesOn' = FALSE /\ isr' = TRUE
    /\ UNCHANGED <<pressed, wants, rd, rdAwake, event, monVars>>

(* Mutant: the handler leaves the wait queue alone. *)
SesIsrNoWake ==
    /\ isr
    /\ isr' = FALSE
    /\ UNCHANGED <<pressed, sesOn, wants, rd, rdAwake, event, monVars>>

(* sesBtn_isr wakes the reader if it is on g_board_wait_queue. *)
SesIsr ==
    /\ isr
    /\ isr' = FALSE
    /\ rdAwake' = (rdAwake \/ (pressed /\ rd \in {"again", "wait"}))
    /\ UNCHANGED <<pressed, sesOn, wants, rd, event, monVars>>

(* BOARD_IOCTL_SET_TRIGGER_EVENT enables the interrupt as well, also when another   *)
(* process asks for the events of the button; BOARD_IOCTL_UNSET_TRIGGER_EVENT does  *)
(* nothing to it.                                                                   *)
SetTrigger ==
    /\ rd = "out"
    /\ wants' = TRUE /\ sesOn' = TRUE
    /\ UNCHANGED <<pressed, isr, rd, rdAwake, event, monVars>>
SetTriggerOther ==
    /\ sesOn' = TRUE
    /\ UNCHANGED <<pressed, isr, wants, rd, rdAwake, event, monVars>>
UnsetTrigger ==
    /\ rd = "out"
    /\ wants' = FALSE
    /\ UNCHANGED <<pressed, sesOn, isr, rd, rdAwake, event, monVars>>

(* The reader in select, for the first time or woken. *)
RdSelect ==
    /\ \/ rd = "out" /\ rd' = "poll"
       \/ rd = "wait" /\ rdAwake /\ rd' = "again"
    /\ rdAwake' = FALSE /\ event' = FALSE
    /\ UNCHANGED <<pressed, sesOn, isr, wants, monVars>>

(* board_poll enters the wait queue the first time, then sesBtn_poll tests. *)
RdPoll ==
    /\ rd \in {"poll", "again"}
    /\ rd' = IF wants /\ pressed THEN "read" ELSE "wait"
    /\ UNCHANGED <<pressed, sesOn, isr, wants, rdAwake, event, monVars>>

(* select returns for another reason. *)
RdOther ==
    /\ rd = "wait"
    /\ rd' = "out" /\ rdAwake' = TRUE
    /\ UNCHANGED <<pressed, sesOn, isr, wants, event, monVars>>

(* Mutant: the test of the button is inverted. *)
SesBtnReadInverted ==
    /\ rd = "read"
    /\ event' = ~pressed /\ sesOn' = TRUE
    /\ rd' = "out" /\ rdAwake' = TRUE
    /\ UNCHANGED <<pressed, isr, wants, monVars>>

(* sesBtn_read enables the interrupt, whether the button is still pressed or not. *)
SesBtnRead ==
    /\ rd = "read"
    /\ event' = pressed /\ sesOn' = TRUE
    /\ rd' = "out" /\ rdAwake' = TRUE
    /\ UNCHANGED <<pressed, isr, wants, monVars>>

-------------------------------------------------------------------------------------
MonitorStep == MonSelect \/ MonPoll \/ MonReset \/ MonTold
ReaderStep == RdSelect \/ RdPoll \/ SesBtnRead
WakeNext ==
    \/ SetMonitorFd \/ WakeupMonitorTask \/ MonitorStep \/ MonOther \/ OtherPoll
    \/ Press \/ SesDispatch \/ SesIsr
    \/ SetTrigger \/ SetTriggerOther \/ UnsetTrigger \/ ReaderStep \/ RdOther

(* Types of all variables. *)
WakeTypeOK ==
    /\ g_wakeup_monitor \in BOOLEAN /\ hooked \in BOOLEAN /\ monAwake \in BOOLEAN
    /\ asked \in BOOLEAN /\ mon \in {"out", "poll", "reset", "told", "wait"}
    /\ pressed \in BOOLEAN /\ sesOn \in BOOLEAN /\ isr \in BOOLEAN /\ wants \in BOOLEAN
    /\ rdAwake \in BOOLEAN
    /\ event \in BOOLEAN /\ rd \in {"out", "poll", "again", "read", "wait"}

(* The button is dead: masked, and the reader sleeps until its next interrupt. *)
ButtonDead == wants /\ ~sesOn /\ ~isr /\ rd = "wait" /\ ~rdAwake

(* The button dies only by being released: between the interrupt and the handler's  *)
(* test, or between the handler and the test of poll.                               *)
DeadOnlyByRelease == [][ButtonDead' /\ ~ButtonDead => ~pressed]_wakeVars
====================================================================================
