------------------------------------ MODULE Led ------------------------------------
(* The LED driver char/board/bcm963xx/impl1/bcm63xx_led.c: the table of board     *)
(* LEDs, the requests of boardLedCtrl and the two timers that make LEDs blink.    *)
(*                                                                                *)
(* Requests come from process context, one at a time (no preemption), without     *)
(* disabling interrupts: a timer, which is a softirq, runs between any two of     *)
(* their accesses to shared state.  The GPIO register is changed by a read and a  *)
(* write.  A pin is TRUE when its LED is lit: the active level of a pin and the   *)
(* serial shift register some LEDs hang on are abstracted away.                   *)
EXTENDS Integers, Sequences, FiniteSets

CONSTANTS
    Names,      \* BOARD_LED_NAME: virtual LEDs
    Pins,       \* GPIO pins (a mask with one bit)
    None,       \* a mask of 0; no name
    LedMaps,    \* the mappings a board may have: sequences of LED_MAP_PAIR
    HwNames     \* "norm" | "fail" -> names whose handler may be registered

Colours == {"norm", "fail"}
Masks == Pins \cup {None}

MapPair == [name : Names, norm : Masks, fail : Masks]

ASSUME LedAssumption ==
    /\ None \notin Pins \cup Names
    /\ \A map \in LedMaps : map \in Seq(MapPair)
    /\ HwNames \in [Colours -> SUBSET Names]

Steady == {"Off", "On", "Fail"}
Continues == {"Slow", "Fast"}
States == Steady \cup Continues \cup {"BlinkOnce"}      \* BOARD_LED_STATE

VARIABLES
    map,        \* cLedMapping
    idx,        \* boardLedInit: the entry of map it is at
    cur,        \* boardLedInit: number of entries of gLed in use
    led,        \* gLed
    virt,       \* gpVirtLeds: name -> entry of gLed, 0 for NULL
    gpio,       \* GPIO->GPIOio
    gTimerOn,           \* gLedTimer is pending
    gBlinkOnceTimerOn,  \* gBlinkOnceTimer is pending
    handlers,   \* gLedHwFunc ("norm"), gLedHwFailFunc ("fail"): registered names
    hwOut,      \* what the handlers were last called with
    call,       \* boardLedCtrl in progress
    settled     \* ghost: LEDs whose last steady request ran without a timer inside

initVars == <<map, idx, cur, virt>>
timerVars == <<gTimerOn, gBlinkOnceTimerOn>>
ledVars == <<initVars, led, gpio, timerVars, handlers, hwOut, call, settled>>

kSlowBlinkCount == 1
kFastBlinkCount == 0

BlinkCount(state) == IF state = "Fast" THEN kFastBlinkCount ELSE kSlowBlinkCount

NoLed == [norm |-> None, fail |-> None, state |-> "Off", saved |-> "Off", cd |-> 0]

Leds == 1 .. cur

Initialised == idx > Len(map)

(* No request in progress. *)
Idle == [pc |-> "idle", name |-> None, led |-> 0, req |-> "Off", todo |-> <<>>,
         snap |-> {}, full |-> FALSE, hit |-> FALSE]

LedInit ==
    /\ map \in LedMaps
    /\ idx = 1
    /\ cur = 0
    /\ led = [i \in 1 .. Len(map) |-> NoLed]
    /\ virt = [n \in Names |-> 0]
    /\ gpio \in SUBSET Pins
    /\ gTimerOn = FALSE
    /\ gBlinkOnceTimerOn = FALSE
    /\ handlers = [c \in Colours |-> {}]
    /\ hwOut = [c \in Colours |-> [n \in Names |-> "Off"]]
    /\ call = Idle
    /\ settled = {}

(* ------------------------------------------------------------------------------ *)
(* boardLedInit.  Two descriptions of the same board LED share a pin. *)
Shares(p, q) ==
    \E c \in Colours : p[c] # None /\ p[c] = q[c]

(* What the tables of boardparms.c have in common: brcm_board_init enters a name   *)
(* once; names that share a pin agree on the other colour when both have one, and *)
(* so do all the names of that board LED; no pin is green on one LED and red on   *)
(* another.                                                                       *)
ASSUME BoardTables ==
    \A m \in LedMaps : \A i, j \in DOMAIN m :
        /\ m[i].name = m[j].name => i = j
        /\ m[i].norm # None => m[i].norm # m[j].fail
        /\ Shares(m[i], m[j]) =>
              /\ \A c \in Colours : m[i][c] = None \/ m[j][c] = None \/ m[i][c] = m[j][c]
              /\ \A k \in DOMAIN m : Shares(m[j], m[k]) => Shares(m[i], m[k])

(* Mutant: an entry without a pin erases the one already known. *)
MergedErasing(p, e) == [p EXCEPT !.norm = e.norm, !.fail = e.fail]

(* The board LED p with the pins another entry of the mapping adds. *)
Merged(p, e) ==
    [p EXCEPT !.norm = IF e.norm # None THEN e.norm ELSE @,
              !.fail = IF e.fail # None THEN e.fail ELSE @]

(* The first name of a board LED: initLedInfo with kLedStateOff (all entries of   *)
(* LedMapping have it, so no timer is needed) turns off the normal pin only.      *)
InitFirst(e) ==
    /\ cur' = cur + 1
    /\ led' = [led EXCEPT ![cur + 1] = [NoLed EXCEPT !.norm = e.norm, !.fail = e.fail]]
    /\ virt' = [virt EXCEPT ![e.name] = cur + 1]
    /\ gpio' = gpio \ {e.norm}
    /\ settled' = IF e.norm # None /\ e.fail = None THEN settled \cup {cur + 1}
                                                      ELSE settled

(* A further name of a board LED: the first entry that shares a pin, if there     *)
(* still is one.                                                                  *)
InitShared(e) ==
    LET same == {p \in Leds : Shares(led[p], e)}
    IN  /\ \/ /\ same = {}
              /\ UNCHANGED <<led, virt, settled>>
           \/ \E p \in same :
                 /\ \A r \in same : p <= r
                 /\ led' = [led EXCEPT ![p] = Merged(@, e)]
                 /\ virt' = [virt EXCEPT ![e.name] = p]
                 /\ settled' = IF Merged(led[p], e) = led[p] THEN settled
                                                             ELSE settled \ {p}
        /\ UNCHANGED <<cur, gpio>>

(* Mappings have names of BOARD_LED_NAME only: none is skipped as out of range.   *)
LedInitEntry ==
    /\ ~Initialised
    /\ LET e == map[idx]
       IN  IF \E j \in 1 .. idx - 1 : Shares(e, map[j])
           THEN InitShared(e)
           ELSE InitFirst(e)
    /\ idx' = idx + 1
    /\ UNCHANGED <<map, timerVars, handlers, hwOut, call>>

(* gLed cannot be allocated: no name gets a board LED. *)
LedInitNoMem ==
    /\ idx = 1
    /\ ~Initialised
    /\ idx' = Len(map) + 1
    /\ UNCHANGED <<map, cur, virt, led, gpio, timerVars, handlers, hwOut, call, settled>>

(* kerSysLedRegisterHwHandler. *)
RegisterHwHandler(n, c) ==
    /\ Initialised
    /\ call.pc = "idle"
    /\ n \in HwNames[c] \ handlers[c]
    /\ handlers' = [handlers EXCEPT ![c] = @ \cup {n}]
    /\ UNCHANGED <<initVars, led, gpio, timerVars, hwOut, call, settled>>

(* ------------------------------------------------------------------------------ *)
(* boardLedCtrl.  What a request does is a sequence of outputs: a pin set or      *)
(* cleared together with the LED's state, or a hardware handler called.           *)
Other(c) == CHOOSE d \in Colours : d # c

GpioOut(n, c, state) ==
    IF virt[n] # 0 /\ led[virt[n]][c] # None
    THEN <<[hw |-> FALSE, c |-> c, lit |-> state # "Off", state |-> state]>>
    ELSE <<>>

HwOut(n, c, state) ==
    IF n \in handlers[c]
    THEN <<[hw |-> TRUE, c |-> c, lit |-> state # "Off", state |-> state]>>
    ELSE <<>>

FirstOf(s, t) == IF s # <<>> THEN s ELSE t

Colour(req) == IF req = "Fail" THEN "fail" ELSE "norm"

ByHw(n, req) == n \in handlers[Colour(req)]

(* Mutant: the complementary LED is turned off last. *)
HwOutputsLate(n, req) ==
    LET c == Colour(req)
    IN  HwOut(n, c, req) \o FirstOf(HwOut(n, Other(c), "Off"), GpioOut(n, Other(c), "Off"))

(* The complementary LED goes off first.  A handler of its own is preferred when  *)
(* the request itself is for a handler, a pin when it is for a pin.               *)
HwOutputs(n, req) ==
    LET c == Colour(req)
    IN  FirstOf(HwOut(n, Other(c), "Off"), GpioOut(n, Other(c), "Off")) \o HwOut(n, c, req)

PinOutputs(n, req) ==
    LET c == Colour(req)
    IN  FirstOf(GpioOut(n, Other(c), "Off"), HwOut(n, Other(c), "Off")) \o GpioOut(n, c, req)

(* A request to fail without a failure LED is a slow blink. *)
Effective(n, req) ==
    IF req = "Fail" /\ led[virt[n]].fail = None THEN "Slow" ELSE req

(* The pins of the LED that a sequence of outputs leaves alone. *)
Untouched(n, outs) ==
    {c \in Colours : led[virt[n]][c] # None
                     /\ ~\E i \in 1 .. Len(outs) : ~outs[i].hw /\ outs[i].c = c}

(* Outputs begin; the ghost forgets the LED until a complete request has ended. *)
BeginOutputs(n, req, outs) ==
    LET touches == \E i \in 1 .. Len(outs) : ~outs[i].hw
    IN  /\ call' = IF outs = <<>> THEN Idle
                   ELSE [Idle EXCEPT !.pc = "output", !.name = n, !.led = virt[n],
                             !.req = req, !.todo = outs, !.full = touches /\ Untouched(n, outs) = {}]
        /\ settled' = IF touches THEN settled \ {virt[n]} ELSE settled

(* Entry of boardLedCtrl up to its first output or test.  Callers pass names of    *)
(* BOARD_LED_NAME, which are all below MAX_VIRT_LEDS: with any other number the   *)
(* code would read past the end of gLedHwFunc.                                    *)
BoardLedCtrl(n, req) ==
    /\ Initialised
    /\ call.pc = "idle"
    /\ \/ /\ ~ByHw(n, req)
          /\ virt[n] = 0
          /\ UNCHANGED <<call, settled>>
       \/ /\ ByHw(n, req)
          /\ BeginOutputs(n, req, HwOutputs(n, req))
       \/ /\ ~ByHw(n, req)
          /\ virt[n] # 0
          /\ LET state == Effective(n, req)
             IN  IF state \in Steady
                 THEN BeginOutputs(n, state, PinOutputs(n, state))
                 ELSE /\ call' = [Idle EXCEPT !.name = n, !.led = virt[n], !.req = state,
                                     !.pc = IF state = "BlinkOnce" THEN "test" ELSE "count"]
                      /\ UNCHANGED settled
    /\ UNCHANGED <<initVars, led, gpio, timerVars, handlers, hwOut>>

(* The output at the head of todo is done. *)
OutputDone ==
    IF Len(call.todo) > 1
    THEN /\ call' = [call EXCEPT !.pc = "output", !.todo = Tail(@)]
         /\ UNCHANGED settled
    ELSE /\ call' = Idle
         /\ settled' = IF call.full /\ ~call.hit THEN settled \cup {call.led} ELSE settled

CallHwHandler ==
    /\ call.pc = "output"
    /\ Head(call.todo).hw
    /\ LET o == Head(call.todo) IN hwOut' = [hwOut EXCEPT ![o.c][call.name] = o.state]
    /\ OutputDone
    /\ UNCHANGED <<initVars, led, gpio, timerVars, handlers>>

(* The two halves of GPIO->GPIOio |= mask and &= ~mask. *)
ReadGpio ==
    /\ call.pc = "output"
    /\ ~Head(call.todo).hw
    /\ call' = [call EXCEPT !.pc = "write", !.snap = gpio]
    /\ UNCHANGED <<initVars, led, gpio, timerVars, handlers, hwOut, settled>>

WriteGpio ==
    /\ call.pc = "write"
    /\ LET o == Head(call.todo)
           pin == led[call.led][o.c]
       IN  /\ gpio' = IF o.lit THEN call.snap \cup ({pin} \cap Pins) ELSE call.snap \ {pin}
           /\ call' = [call EXCEPT !.pc = IF o.state = "BlinkOnce" THEN "count" ELSE "state",
                                   !.snap = {}]
    /\ UNCHANGED <<initVars, led, timerVars, handlers, hwOut, settled>>

(* ledOn, ledOff, ledOnFail, ledOffFail: the LED's states are set last. *)
SetState ==
    /\ call.pc = "state"
    /\ LET state == Head(call.todo).state
       IN  led' = [led EXCEPT ![call.led].state = state, ![call.led].saved = state]
    /\ OutputDone
    /\ UNCHANGED <<initVars, gpio, timerVars, handlers, hwOut>>

(* Mutant: an LED that is blinking once is toggled again. *)
TestBlinkOnceAgain ==
    /\ call.pc = "test"
    /\ LET l == led[call.led]
       IN  call' = IF l.saved \in Continues \/ gBlinkOnceTimerOn
                   THEN Idle
                   ELSE [call EXCEPT !.pc = "output",
                            !.todo = <<[hw |-> FALSE, c |-> "norm",
                                        lit |-> l.norm \notin gpio, state |-> "BlinkOnce"]>>]
    /\ UNCHANGED <<initVars, led, gpio, timerVars, handlers, hwOut, settled>>

(* kLedStateBlinkOnce: ignored while the LED blinks; else the pin is toggled.     *)
TestBlinkOnce ==
    /\ call.pc = "test"
    /\ LET l == led[call.led]
       IN  call' = IF l.saved \in Continues \/ l.cd # 0 \/ gBlinkOnceTimerOn
                   THEN Idle
                   ELSE [call EXCEPT !.pc = "output",
                            !.todo = <<[hw |-> FALSE, c |-> "norm",
                                        lit |-> l.norm \notin gpio, state |-> "BlinkOnce"]>>]
    /\ UNCHANGED <<initVars, led, gpio, timerVars, handlers, hwOut, settled>>

SetCountDown ==
    /\ call.pc = "count"
    /\ led' = [led EXCEPT ![call.led].cd = BlinkCount(call.req)]
    /\ call' = [call EXCEPT !.pc = "blink"]
    /\ UNCHANGED <<initVars, gpio, timerVars, handlers, hwOut, settled>>

(* A blink that continues is also the state to return to after blinking once. *)
SetBlink ==
    /\ call.pc = "blink"
    /\ led' = [led EXCEPT ![call.led].state = call.req,
                          ![call.led].saved = IF call.req = "BlinkOnce" THEN @ ELSE call.req]
    /\ call' = [call EXCEPT !.pc = "start"]
    /\ UNCHANGED <<initVars, gpio, timerVars, handlers, hwOut, settled>>

(* Mutant: the timer is started for blinks that continue only. *)
StartTimerContinues ==
    /\ call.pc = "start"
    /\ gTimerOn' = (gTimerOn \/ call.req \in Continues)
    /\ call' = Idle
    /\ UNCHANGED <<initVars, led, gpio, gBlinkOnceTimerOn, handlers, hwOut, settled>>

(* ledTimerStart.  A timer just started cannot expire before the flag is stored:  *)
(* there are 125 ms in between.                                                   *)
StartTimer ==
    /\ call.pc = "start"
    /\ gTimerOn' = TRUE
    /\ call' = Idle
    /\ UNCHANGED <<initVars, led, gpio, gBlinkOnceTimerOn, handlers, hwOut, settled>>

CtrlStep ==
    \/ CallHwHandler \/ ReadGpio \/ WriteGpio \/ SetState
    \/ TestBlinkOnce \/ SetCountDown \/ SetBlink \/ StartTimer

(* ------------------------------------------------------------------------------ *)
(* ledTimerExpire: one LED. *)
Expired(l) ==
    CASE l.state \in Steady -> [l EXCEPT !.cd = 0]
      [] l.state = "BlinkOnce" -> [l EXCEPT !.cd = 0, !.state = l.saved]
      [] l.state \in Continues ->
            [l EXCEPT !.cd = IF @ = 0 THEN BlinkCount(l.state) ELSE @ - 1]

(* Mutant: the count down is tested after it was decremented. *)
TogglesLate(l) == l.state = "BlinkOnce" \/ (l.state \in Continues /\ l.cd = 1)

(* An LED that blinked once is toggled back. *)
Toggles(l) == l.state = "BlinkOnce" \/ (l.state \in Continues /\ l.cd = 0)

(* The timer is started again for an LED that is left blinking. *)
Restarts(l) == Expired(l).state \in Continues

LedTimerExpire ==
    /\ gTimerOn
    /\ LET toggled == {i \in Leds : Toggles(led[i])}
           pins == {led[i].norm : i \in toggled} \cap Pins
       IN  /\ gpio' = (gpio \ pins) \cup (pins \ gpio)
           /\ settled' = IF call.pc = "idle" THEN settled
                                             ELSE settled \ (toggled \cup {call.led})
    /\ led' = [i \in DOMAIN led |-> IF i \in Leds THEN Expired(led[i]) ELSE led[i]]
    /\ gTimerOn' = \E i \in Leds : Restarts(led[i])
    /\ gBlinkOnceTimerOn' = (gBlinkOnceTimerOn \/ \E i \in Leds : led[i].state = "BlinkOnce")
    /\ call' = [call EXCEPT !.hit = call.pc # "idle"]
    /\ UNCHANGED <<initVars, handlers, hwOut>>

BlinkOnceTimerExpire ==
    /\ gBlinkOnceTimerOn
    /\ gBlinkOnceTimerOn' = FALSE
    /\ UNCHANGED <<initVars, led, gpio, gTimerOn, handlers, hwOut, call, settled>>

LedNext ==
    \/ LedInitEntry
    \/ LedInitNoMem
    \/ \E n \in Names, c \in Colours : RegisterHwHandler(n, c)
    \/ \E n \in Names, req \in States : BoardLedCtrl(n, req)
    \/ CtrlStep
    \/ LedTimerExpire
    \/ BlinkOnceTimerExpire

LedSpec == LedInit /\ [][LedNext]_ledVars

(* A request in progress goes on, and pending timers expire. *)
LedFairSpec ==
    /\ LedSpec
    /\ WF_ledVars(LedInitEntry)
    /\ WF_ledVars(CtrlStep)
    /\ WF_ledVars(LedTimerExpire)
    /\ WF_ledVars(BlinkOnceTimerExpire)

(* ------------------------------------------------------------------------------ *)
(* Properties. *)

Outputs == [hw : BOOLEAN, c : Colours, lit : BOOLEAN, state : States]

LedTypeOK ==
    /\ map \in LedMaps
    /\ idx \in 1 .. Len(map) + 1
    /\ cur \in 0 .. Len(map)
    /\ led \in [1 .. Len(map) -> [norm : Masks, fail : Masks, state : States,
                                  saved : States \ {"BlinkOnce"}, cd : {0, 1}]]
    /\ virt \in [Names -> 0 .. cur]
    /\ gpio \in SUBSET Pins
    /\ gTimerOn \in BOOLEAN
    /\ gBlinkOnceTimerOn \in BOOLEAN
    /\ handlers \in [Colours -> SUBSET Names]
    /\ hwOut \in [Colours -> [Names -> States]]
    /\ call \in [pc : {"idle", "output", "write", "state", "test", "count", "blink", "start"},
                 name : Names \cup {None}, led : 0 .. cur, req : States,
                 todo : Seq(Outputs), snap : SUBSET Pins, full : BOOLEAN, hit : BOOLEAN]
    /\ settled \in SUBSET Leds

(* The request in progress will start the timer for entry i of gLed. *)
WillStart(i) == call.led = i /\ call.pc \in {"blink", "start"}

(* An LED that blinks, or that refuses to blink once because its count down is     *)
(* not 0, has a timer to get it out of that state: wherever the timer interrupts  *)
(* a request, it is started again afterwards.                                     *)
BlinkersHaveTimer ==
    \A i \in Leds :
        led[i].state \notin Steady \/ led[i].cd # 0 => gTimerOn \/ WillStart(i)

(* What a request in progress relies on: outputs are left while one is being      *)
(* done, an output to a pin and a blink have their LED.                           *)
CallConsistent ==
    /\ ~Initialised => call = Idle
    /\ call.pc # "idle" => call.name \in Names
    /\ call.pc \in {"output", "write", "state"} => call.todo # <<>>
    /\ call.pc \in {"write", "state"} => ~Head(call.todo).hw
    /\ call.pc = "state" => Head(call.todo).state # "BlinkOnce"
    /\ call.pc \in {"test", "count", "blink", "start"} \/ call.full => call.led \in Leds
    /\ \A i \in 1 .. Len(call.todo) :
           ~call.todo[i].hw => call.led \in Leds /\ call.todo[i].state \notin Continues

(* The inductive invariant. *)
LedInv ==
    /\ LedTypeOK
    /\ cur < idx
    /\ CallConsistent
    /\ BlinkersHaveTimer

(* What an LED shows outside its blinks, and whether it is inverted. *)
Base(l) == IF l.state = "BlinkOnce" THEN l.saved ELSE l.state

Shows(l) ==
    Base(l) \in Steady =>
        /\ l.norm # None => (l.norm \in gpio <=> ((Base(l) = "On") # (l.state = "BlinkOnce")))
        /\ l.fail # None => (l.fail \in gpio <=> Base(l) = "Fail")

(* Blinking once returns an LED to what it showed before: its pins agree with its  *)
(* ledState whatever sequence of requests and timers it went through, as long as  *)
(* no timer interrupted a request since its last steady request.                  *)
SettledShowsState ==
    \A i \in settled : (call.pc = "idle" \/ call.led # i) => Shows(led[i])

(* After the initialisation every name of the mapping controls a board LED with   *)
(* the pins the mapping gives that name, unless gLed could not be allocated.      *)
NamesReachTheirPins ==
    Initialised /\ cur > 0 =>
        \A i \in 1 .. Len(map) :
            /\ virt[map[i].name] # 0
            /\ \A c \in Colours :
                   map[i][c] # None => led[virt[map[i].name]][c] = map[i][c]

(* The name is alone in using its board LED. *)
Alone(n) == \A m \in Names \ {n} : virt[m] # virt[n] \/ virt[m] = 0

(* What the LED of a name shows: what its handler was last called with, or its pin. *)
GreenOn(n) ==
    IF n \in handlers["norm"] THEN hwOut["norm"][n] = "On"
                              ELSE virt[n] # 0 /\ led[virt[n]].norm \in gpio

RedOn(n) ==
    IF n \in handlers["fail"] THEN hwOut["fail"][n] = "Fail"
                              ELSE virt[n] # 0 /\ led[virt[n]].fail \in gpio

(* The green pin of a name is in nobody's hands: its LED is steady, no request for *)
(* it is in progress, and no timer came into its last complete request.  The timer *)
(* toggles green pins only, so a handler or a red pin needs no such condition.     *)
GreenAtRest(n) ==
    n \notin handlers["norm"] /\ virt[n] # 0 =>
        /\ virt[n] \in settled /\ led[virt[n]].state \in Steady
        /\ call.pc = "idle" \/ call.led # virt[n]

(* "First, turn off the complimentary LED": an LED that one name has for itself    *)
(* never shows on and failure at the same time, whether its colours are pins,     *)
(* hardware handlers or one of each, and whenever the handlers are registered.    *)
(* The green pin may be lit beside the red one while the LED blinks, and after a  *)
(* timer has toggled it inside a request.                                         *)
OneColour ==
    Initialised =>
        \A n \in Names : Alone(n) /\ GreenAtRest(n) => ~(GreenOn(n) /\ RedOn(n))

(* Entries of gLed: there is at most one a name. *)
MaxLeds == 1 .. Cardinality(Names)

(* An LED left blinking goes on and off for ever. *)
KeepsBlinking ==
    \A i \in MaxLeds :
        <>[](/\ call.pc = "idle"
             /\ i \in Leds /\ led[i].state \in Continues /\ led[i].norm # None)
            => /\ []<>(i \in Leds /\ led[i].norm \in gpio)
               /\ []<>(i \in Leds /\ led[i].norm \notin gpio)
====================================================================================
