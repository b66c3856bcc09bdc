--------------------------------- MODULE LedProofs ---------------------------------
(* The LED driver, for every mapping and every set of names, pins and handlers:   *)
(* type correctness; every LED that blinks has a timer pending (LedInv); the      *)
(* names reach their pins (MapInv); a settled LED shows its state (ShowInv); no   *)
(* LED shows on and failure at once (ColourInv).                                  *)
EXTENDS Led, TLAPS

USE LedAssumption DEF Colours

LedRec == [norm : Masks, fail : Masks, state : States, saved : States \ {"BlinkOnce"},
           cd : {0, 1}]

(* A list of outputs, each of which has its LED if it needs one. *)
OutsFor(l, outs) ==
    \A i \in 1 .. Len(outs) : ~outs[i].hw => l # 0 /\ outs[i].state \notin Continues

------------------------------------------------------------------------------------
(* Lemmas about the operators. *)

(* Merging entries of the mapping changes pins only. *)
LEMMA MergedType ==
    ASSUME NEW p \in LedRec, NEW e \in MapPair
    PROVE  /\ Merged(p, e) \in LedRec
           /\ Merged(p, e).state = p.state
           /\ Merged(p, e).cd = p.cd
BY DEF Merged, LedRec, MapPair

(* The timer leaves an LED steady with its count down at 0, or has to be started  *)
(* again.                                                                         *)
LEMMA ExpiredType ==
    ASSUME NEW l \in LedRec
    PROVE  /\ Expired(l) \in LedRec
           /\ (Expired(l).state \in Steady /\ Expired(l).cd = 0) \/ Restarts(l)
<1>1. CASE l.state \in Steady
  BY <1>1 DEF Expired, Restarts, LedRec, States, Steady, Continues
<1>2. CASE l.state = "BlinkOnce"
  BY <1>2 DEF Expired, Restarts, LedRec, States, Steady, Continues
<1>3. CASE l.state \in Continues
  BY <1>3 DEF Expired, Restarts, LedRec, States, Steady, Continues, BlinkCount,
              kSlowBlinkCount, kFastBlinkCount
<1> QED BY <1>1, <1>2, <1>3 DEF LedRec, States

(* A list of one. *)
LEMMA OneElement ==
    ASSUME NEW S, NEW x \in S
    PROVE  /\ <<x>> \in Seq(S) /\ Len(<<x>>) = 1 /\ <<x>>[1] = x
           /\ \A i \in 1 .. Len(<<x>>) : <<x>>[i] = x
           /\ Head(<<x>>) = x /\ <<x>> # <<>>
OBVIOUS

(* An output to a pin or a handler. *)
LEMMA OneOutput ==
    ASSUME NEW n \in Names, NEW c \in Colours, NEW state \in States
    PROVE  /\ GpioOut(n, c, state) \in Seq(Outputs)
           /\ HwOut(n, c, state) \in Seq(Outputs)
           /\ state \notin Continues => OutsFor(virt[n], GpioOut(n, c, state))
           /\ OutsFor(virt[n], HwOut(n, c, state))
           /\ GpioOut(n, c, state) # <<>> => virt[n] # 0
<1> DEFINE pin == [hw |-> FALSE, c |-> c, lit |-> state # "Off", state |-> state]
           fun == [hw |-> TRUE, c |-> c, lit |-> state # "Off", state |-> state]
<1>1. /\ fun \in Outputs /\ fun.hw = TRUE
      /\ pin \in Outputs /\ pin.state = state
  BY DEF Outputs
<1>2. /\ GpioOut(n, c, state) \in {<<>>, <<pin>>}
      /\ GpioOut(n, c, state) # <<>> => virt[n] # 0
      /\ HwOut(n, c, state) \in {<<>>, <<fun>>}
  BY DEF GpioOut, HwOut
<1> HIDE DEF pin, fun
<1>3. /\ GpioOut(n, c, state) \in Seq(Outputs)
      /\ HwOut(n, c, state) \in Seq(Outputs)
  <2>1. <<pin>> \in Seq(Outputs) /\ <<fun>> \in Seq(Outputs) /\ <<>> \in Seq(Outputs)
    BY <1>1, OneElement
  <2> QED BY <1>2, <2>1, Zenon
<1>4. OutsFor(virt[n], HwOut(n, c, state))
  <2>1. CASE HwOut(n, c, state) = <<>>
    BY <2>1 DEF OutsFor
  <2>2. CASE HwOut(n, c, state) = <<fun>>
    <3>1. \A i \in 1 .. Len(HwOut(n, c, state)) : HwOut(n, c, state)[i] = fun
      BY <1>1, <2>2, OneElement
    <3> QED BY <1>1, <3>1 DEF OutsFor
  <2> QED BY <1>2, <2>1, <2>2
<1>5. ASSUME state \notin Continues
      PROVE  OutsFor(virt[n], GpioOut(n, c, state))
  <2>1. CASE GpioOut(n, c, state) = <<>>
    BY <2>1 DEF OutsFor
  <2>2. CASE GpioOut(n, c, state) = <<pin>>
    <3>1. \A i \in 1 .. Len(GpioOut(n, c, state)) : GpioOut(n, c, state)[i] = pin
      BY <1>1, <2>2, OneElement
    <3>2. virt[n] # 0
      BY <1>1, <1>2, <2>2, OneElement
    <3> QED BY <1>1, <1>5, <3>1, <3>2 DEF OutsFor
  <2> QED BY <1>2, <2>1, <2>2
<1> QED BY <1>2, <1>3, <1>4, <1>5

LEMMA OtherColour ==
    ASSUME NEW c \in Colours
    PROVE  Other(c) \in Colours
<1>1. \E d \in Colours : d # c
  BY DEF Colours
<1> QED BY <1>1 DEF Other

LEMMA OutsConcat ==
    ASSUME NEW s \in Seq(Outputs), NEW t \in Seq(Outputs), NEW l,
           OutsFor(l, s), OutsFor(l, t)
    PROVE  s \o t \in Seq(Outputs) /\ OutsFor(l, s \o t)
<1>1. s \o t \in Seq(Outputs) /\ Len(s \o t) = Len(s) + Len(t)
  OBVIOUS
<1>2. ASSUME NEW i \in 1 .. Len(s \o t), ~(s \o t)[i].hw
      PROVE  l # 0 /\ (s \o t)[i].state \notin Continues
  <2>1. CASE i <= Len(s)
    BY <1>1, <1>2, <2>1 DEF OutsFor
  <2>2. CASE i > Len(s)
    <3>1. (s \o t)[i] = t[i - Len(s)] /\ i - Len(s) \in 1 .. Len(t)
      BY <1>1, <2>2
    <3> QED BY <1>2, <3>1 DEF OutsFor
  <2> QED BY <1>1, <2>1, <2>2
<1> QED BY <1>1, <1>2 DEF OutsFor

(* What a request will do is a list of outputs with their LED. *)
LEMMA OutputsType ==
    ASSUME NEW n \in Names, NEW req \in States
    PROVE  /\ HwOutputs(n, req) \in Seq(Outputs)
           /\ OutsFor(virt[n], HwOutputs(n, req))
           /\ req \in Steady => /\ PinOutputs(n, req) \in Seq(Outputs)
                                /\ OutsFor(virt[n], PinOutputs(n, req))
<1> DEFINE c == Colour(req)
<1>1. c \in Colours /\ Other(c) \in Colours /\ "Off" \in States /\ "Off" \notin Continues
  BY OtherColour DEF Colour, Colours, States, Steady, Continues
<1> HIDE DEF c
<1> DEFINE g == GpioOut(n, Other(c), "Off")
           h == HwOut(n, Other(c), "Off")
<1>2. /\ g \in Seq(Outputs) /\ OutsFor(virt[n], g)
      /\ h \in Seq(Outputs) /\ OutsFor(virt[n], h)
  BY <1>1, OneOutput
<1>3. /\ HwOut(n, c, req) \in Seq(Outputs) /\ OutsFor(virt[n], HwOut(n, c, req))
      /\ GpioOut(n, c, req) \in Seq(Outputs)
      /\ req \in Steady => OutsFor(virt[n], GpioOut(n, c, req))
  BY <1>1, OneOutput DEF Steady, Continues
<1> HIDE DEF g, h
<1>4. /\ FirstOf(h, g) \in Seq(Outputs) /\ OutsFor(virt[n], FirstOf(h, g))
      /\ FirstOf(g, h) \in Seq(Outputs) /\ OutsFor(virt[n], FirstOf(g, h))
  BY <1>2 DEF FirstOf
<1>5. /\ HwOutputs(n, req) = FirstOf(h, g) \o HwOut(n, c, req)
      /\ PinOutputs(n, req) = FirstOf(g, h) \o GpioOut(n, c, req)
  BY DEF HwOutputs, PinOutputs, c, g, h
<1> QED BY <1>3, <1>4, <1>5, OutsConcat
------------------------------------------------------------------------------------
(* The inductive invariant. *)

(* No request is in progress. *)
CallRec(n) ==
    [pc : {"idle", "output", "write", "state", "test", "count", "blink", "start"},
     name : Names \cup {None}, led : 0 .. n, req : States,
     todo : Seq(Outputs), snap : SUBSET Pins, full : BOOLEAN, hit : BOOLEAN]

LEMMA IdleFacts ==
    ASSUME NEW n \in Nat
    PROVE  /\ Idle \in CallRec(n)
           /\ Idle.pc = "idle" /\ Idle.todo = <<>> /\ Idle.full = FALSE /\ Idle.led = 0
<1>1. "Off" \in States /\ <<>> \in Seq(Outputs) /\ 0 \in 0 .. n
  BY DEF States, Steady
<1> QED BY <1>1 DEF Idle, CallRec

LEMMA IdleConsistent ==
    /\ call = Idle => CallConsistent
    /\ call' = Idle => CallConsistent'
<1>1. Idle.pc = "idle" /\ Len(Idle.todo) = 0 /\ Idle.full = FALSE
  BY DEF Idle
<1> QED BY <1>1 DEF CallConsistent

(* The type invariant with the two record types named. *)
LedTypes ==
    /\ map \in LedMaps /\ idx \in 1 .. Len(map) + 1 /\ cur \in 0 .. Len(map)
    /\ led \in [1 .. Len(map) -> LedRec]
    /\ virt \in [Names -> 0 .. cur]
    /\ gpio \in SUBSET Pins
    /\ gTimerOn \in BOOLEAN /\ gBlinkOnceTimerOn \in BOOLEAN
    /\ handlers \in [Colours -> SUBSET Names]
    /\ hwOut \in [Colours -> [Names -> States]]
    /\ call \in CallRec(cur)
    /\ settled \in SUBSET (1 .. cur)

LEMMA TypeParts == (LedTypeOK <=> LedTypes) /\ (LedTypeOK' <=> LedTypes')
BY DEF LedTypeOK, LedTypes, LedRec, CallRec, Leds

(* The initial states, before boardLedInit looks at the first entry. *)
LEMMA LedInitInv == LedInit => LedInv
<1> SUFFICES ASSUME LedInit PROVE LedInv
  OBVIOUS
<1>1. Len(map) \in Nat /\ map \in LedMaps
  BY DEF LedInit
<1>2. NoLed \in LedRec
  BY DEF NoLed, LedRec, Masks, States, Steady
<1>3. "Off" \in States
  BY DEF States, Steady
<1>4. call \in CallRec(0)
  BY IdleFacts DEF LedInit
<1>5. LedTypeOK
  <2>1. map \in LedMaps /\ idx \in 1 .. Len(map) + 1 /\ cur \in 0 .. Len(map)
    BY <1>1 DEF LedInit
  <2>2. led \in [1 .. Len(map) -> LedRec] /\ virt \in [Names -> 0 .. cur]
    BY <1>1, <1>2 DEF LedInit
  <2>3. /\ gpio \in SUBSET Pins /\ settled \in SUBSET (1 .. cur)
        /\ gTimerOn \in BOOLEAN /\ gBlinkOnceTimerOn \in BOOLEAN
        /\ handlers \in [Colours -> SUBSET Names]
    BY DEF LedInit
  <2>4. hwOut \in [Colours -> [Names -> States]]
    BY <1>3 DEF LedInit
  <2>5. cur = 0
    BY DEF LedInit
  <2> QED BY <1>4, <2>1, <2>2, <2>3, <2>4, <2>5, TypeParts DEF LedTypes
<1>6. CallConsistent
  BY IdleConsistent DEF LedInit
<1>7. cur < idx /\ BlinkersHaveTimer
  BY DEF LedInit, BlinkersHaveTimer, Leds
<1> QED BY <1>5, <1>6, <1>7 DEF LedInv

(* A name of the mapping. *)
LEMMA LedInitEntryInv == LedInv /\ LedInitEntry => LedInv'
<1> SUFFICES ASSUME LedInv, LedInitEntry PROVE LedInv'
  OBVIOUS
<1> DEFINE e == map[idx]
<1>1. /\ map \in LedMaps /\ cur < idx /\ idx <= Len(map) /\ Len(map) \in Nat
      /\ idx \in Nat /\ cur \in Nat /\ call = Idle /\ call' = Idle
      /\ map' = map /\ idx' = idx + 1 /\ e \in MapPair
  BY DEF LedInv, LedInitEntry, Initialised, LedTypeOK, CallConsistent
<1>2. /\ led \in [1 .. Len(map) -> LedRec] /\ virt \in [Names -> 0 .. cur]
      /\ gpio \in SUBSET Pins /\ settled \in SUBSET (1 .. cur)
  BY TypeParts DEF LedInv, LedTypes
<1>3. CallConsistent'
  BY <1>1, IdleConsistent
<1>4. \A i \in 1 .. cur : led[i].state \notin Steady \/ led[i].cd # 0 => gTimerOn
  BY <1>1, IdleFacts DEF LedInv, BlinkersHaveTimer, WillStart, Leds
<1>5. e.name \in Names
  BY <1>1 DEF MapPair
<1> HIDE DEF e
<1>6. /\ cur' \in 0 .. idx
      /\ led' \in [1 .. Len(map) -> LedRec] /\ virt' \in [Names -> 0 .. cur']
      /\ gpio' \in SUBSET Pins /\ settled' \in SUBSET (1 .. cur')
      /\ \A i \in 1 .. cur' : led'[i].state \notin Steady \/ led'[i].cd # 0 => gTimerOn
  <2>1. CASE InitShared(e)
    <3>1. cur' = cur /\ gpio' = gpio
      BY <2>1 DEF InitShared
    <3>2. CASE UNCHANGED <<led, virt, settled>>
      BY <1>1, <1>2, <1>4, <3>1, <3>2
    <3>3. ASSUME NEW p \in 1 .. cur,
                 led' = [led EXCEPT ![p] = Merged(@, e)],
                 virt' = [virt EXCEPT ![e.name] = p],
                 settled' = IF Merged(led[p], e) = led[p] THEN settled ELSE settled \ {p}
          PROVE  <1>6!:
      <4>1. /\ led[p] \in LedRec /\ Merged(led[p], e) \in LedRec
            /\ Merged(led[p], e).state = led[p].state
            /\ Merged(led[p], e).cd = led[p].cd
        <5>1. led[p] \in LedRec
          BY <1>1, <1>2
        <5> QED BY <1>1, <5>1, MergedType
      <4>2. led' \in [1 .. Len(map) -> LedRec] /\ virt' \in [Names -> 0 .. cur]
        BY <1>1, <1>2, <1>5, <3>3, <4>1
      <4>3. \A i \in 1 .. cur : led'[i].state = led[i].state /\ led'[i].cd = led[i].cd
        BY <1>1, <1>2, <3>3, <4>1
      <4> QED BY <1>1, <1>2, <1>4, <3>1, <3>3, <4>2, <4>3
    <3> QED BY <2>1, <3>2, <3>3 DEF InitShared, Leds
  <2>2. CASE InitFirst(e)
    <3> DEFINE new == [NoLed EXCEPT !.norm = e.norm, !.fail = e.fail]
    <3>1. new \in LedRec /\ new.state \in Steady /\ new.cd = 0
      BY <1>1 DEF NoLed, LedRec, MapPair, States, Steady
    <3>2. cur' = cur + 1 /\ cur + 1 \in 1 .. Len(map)
      BY <1>1, <2>2 DEF InitFirst
    <3>3. led' = [led EXCEPT ![cur + 1] = new] /\ virt' = [virt EXCEPT ![e.name] = cur + 1]
      BY <2>2 DEF InitFirst
    <3> HIDE DEF new
    <3>4. led' \in [1 .. Len(map) -> LedRec] /\ virt' \in [Names -> 0 .. cur']
      BY <1>1, <1>2, <1>5, <3>1, <3>2, <3>3
    <3>5. gpio' \in SUBSET Pins /\ settled' \in SUBSET (1 .. cur')
      BY <1>1, <1>2, <2>2, <3>2 DEF InitFirst
    <3>6. \A i \in 1 .. cur' : led'[i] = IF i = cur + 1 THEN new ELSE led[i]
      BY <1>1, <1>2, <3>2, <3>3
    <3>7. \A i \in 1 .. cur' : led'[i].state \notin Steady \/ led'[i].cd # 0 => gTimerOn
      BY <1>1, <1>4, <3>1, <3>2, <3>6
    <3> QED BY <1>1, <3>2, <3>4, <3>5, <3>7
  <2> QED BY <2>1, <2>2 DEF LedInitEntry, e
<1>7. LedTypeOK'
  <2>1. UNCHANGED <<gTimerOn, gBlinkOnceTimerOn, handlers, hwOut>>
    BY DEF LedInitEntry, timerVars
  <2>2. call' \in CallRec(cur')
    <3>1. cur' \in Nat
      BY <1>1, <1>6
    <3> QED BY <1>1, <3>1, IdleFacts
  <2>3. idx' \in 1 .. Len(map) + 1 /\ cur' \in 0 .. Len(map)
    BY <1>1, <1>6
  <2>4. map' \in LedMaps /\ Len(map') = Len(map)
    BY <1>1
  <2> QED BY <1>6, <2>1, <2>2, <2>3, <2>4, TypeParts DEF LedInv, LedTypes
<1>8. BlinkersHaveTimer'
  <2>1. gTimerOn' = gTimerOn
    BY DEF LedInitEntry, timerVars
  <2> QED BY <1>6, <2>1 DEF BlinkersHaveTimer, Leds
<1> QED BY <1>1, <1>3, <1>6, <1>7, <1>8 DEF LedInv

(* What the steps after the initialisation have to show. *)
LEMMA StepInv ==
    ASSUME LedInv, UNCHANGED <<initVars, handlers>>,
           led' \in [1 .. Len(map) -> LedRec], gpio' \in SUBSET Pins,
           gTimerOn' \in BOOLEAN, gBlinkOnceTimerOn' \in BOOLEAN,
           hwOut' \in [Colours -> [Names -> States]],
           call' \in CallRec(cur), settled' \in SUBSET (1 .. cur),
           CallConsistent', BlinkersHaveTimer'
    PROVE  LedInv'
BY TypeParts DEF LedInv, LedTypes, initVars

LEMMA LedInitNoMemInv == LedInv /\ LedInitNoMem => LedInv'
<1> SUFFICES ASSUME LedInv, LedInitNoMem PROVE LedInv'
  OBVIOUS
<1>1. call = Idle /\ call' = call /\ Len(map) \in Nat /\ idx \in Nat /\ cur \in Nat
  BY TypeParts DEF LedInv, LedInitNoMem, CallConsistent, LedTypes
<1>2. CallConsistent'
  BY <1>1, IdleConsistent
<1>3. LedTypeOK' /\ cur' < idx'
  BY <1>1, TypeParts DEF LedInv, LedInitNoMem, LedTypes, timerVars, Initialised
<1>4. BlinkersHaveTimer'
  BY DEF LedInv, LedInitNoMem, BlinkersHaveTimer, WillStart, Leds, timerVars
<1> QED BY <1>2, <1>3, <1>4 DEF LedInv

LEMMA RegisterInv ==
    ASSUME LedInv, NEW n \in Names, NEW c \in Colours, RegisterHwHandler(n, c)
    PROVE  LedInv'
<1>1. handlers' \in [Colours -> SUBSET Names]
  BY TypeParts DEF LedInv, LedTypes, RegisterHwHandler
<1>2. LedTypeOK' /\ cur' < idx'
  BY <1>1, TypeParts DEF LedInv, LedTypes, RegisterHwHandler, initVars, timerVars
<1>3. CallConsistent'
  BY DEF LedInv, RegisterHwHandler, CallConsistent, Initialised, Leds, initVars
<1>4. BlinkersHaveTimer'
  BY DEF LedInv, RegisterHwHandler, BlinkersHaveTimer, WillStart, Leds, initVars, timerVars
<1> QED BY <1>2, <1>3, <1>4 DEF LedInv

(* Nothing changes for the LEDs when the states, count downs and the timer do     *)
(* not, and the request was not about to start the timer.                         *)
LEMMA BlinkersFrame ==
    ASSUME BlinkersHaveTimer, cur' = cur, gTimerOn' = gTimerOn, led' = led,
           call.pc \notin {"blink", "start"}
    PROVE  BlinkersHaveTimer'
BY DEF BlinkersHaveTimer, WillStart, Leds

(* The start of a request. *)
LEMMA BeginOutputsInv ==
    ASSUME LedInv, Initialised, UNCHANGED initVars, call.pc = "idle",
           NEW n \in Names, NEW req \in States, NEW outs \in Seq(Outputs),
           OutsFor(virt[n], outs), BeginOutputs(n, req, outs)
    PROVE  /\ call' \in CallRec(cur) /\ settled' \in SUBSET (1 .. cur)
           /\ CallConsistent'
<1>1. /\ cur \in Nat /\ virt[n] \in 0 .. cur /\ settled \in SUBSET (1 .. cur)
      /\ cur' = cur /\ Initialised'
  BY TypeParts DEF LedInv, LedTypes, initVars, Initialised
<1>2. settled' \in SUBSET (1 .. cur)
  BY <1>1 DEF BeginOutputs
<1> DEFINE touches == \E i \in 1 .. Len(outs) : ~outs[i].hw
<1>3. CASE outs = <<>>
  <2>1. call' = Idle
    BY <1>3 DEF BeginOutputs
  <2> QED BY <1>1, <1>2, <2>1, IdleFacts, IdleConsistent
<1>4. CASE outs # <<>>
  <2> DEFINE full == touches /\ Untouched(n, outs) = {}
  <2>1. call' = [Idle EXCEPT !.pc = "output", !.name = n, !.led = virt[n],
                             !.req = req, !.todo = outs, !.full = full]
    BY <1>4 DEF BeginOutputs
  <2>2. full \in BOOLEAN /\ (full => virt[n] # 0)
    BY DEF OutsFor
  <2> HIDE DEF full
  <2>3. Idle \in CallRec(cur)
    BY <1>1, IdleFacts
  <2>4. /\ call' \in CallRec(cur) /\ call'.pc = "output" /\ call'.name = n
        /\ call'.led = virt[n] /\ call'.todo = outs /\ call'.full = full
    BY <1>1, <2>1, <2>2, <2>3 DEF CallRec
  <2>5. \A i \in 1 .. Len(outs) : ~outs[i].hw => virt[n] \in 1 .. cur
                                                 /\ outs[i].state \notin Continues
    BY <1>1 DEF OutsFor
  <2>6. CallConsistent'
    BY <1>1, <1>4, <2>2, <2>4, <2>5 DEF CallConsistent, Leds
  <2> QED BY <1>2, <2>4, <2>6
<1> QED BY <1>3, <1>4

LEMMA BoardLedCtrlInv ==
    ASSUME LedInv, NEW n \in Names, NEW req \in States, BoardLedCtrl(n, req)
    PROVE  LedInv'
<1>1. /\ UNCHANGED <<initVars, led, gpio, timerVars, handlers, hwOut>>
      /\ Initialised /\ call.pc = "idle" /\ BlinkersHaveTimer /\ LedTypes
      /\ cur \in Nat
  BY TypeParts DEF BoardLedCtrl, LedInv, LedTypes
<1>2. BlinkersHaveTimer'
  BY <1>1, BlinkersFrame DEF initVars, timerVars
<1>3. /\ call' \in CallRec(cur) /\ settled' \in SUBSET (1 .. cur)
      /\ CallConsistent'
  <2>1. CASE UNCHANGED <<call, settled>>
    BY <1>1, <2>1 DEF LedInv, LedTypes, CallConsistent, Initialised, Leds, initVars
  <2>2. CASE ByHw(n, req) /\ BeginOutputs(n, req, HwOutputs(n, req))
    BY <1>1, <2>2, OutputsType, BeginOutputsInv
  <2>3. CASE virt[n] # 0 /\ ~ByHw(n, req) /\ ~UNCHANGED <<call, settled>>
    <3> DEFINE state == Effective(n, req)
    <3>1. state \in States
      BY DEF Effective, States, Continues
    <3>2. CASE state \in Steady /\ BeginOutputs(n, state, PinOutputs(n, state))
      BY <1>1, <3>1, <3>2, OutputsType, BeginOutputsInv
    <3>3. CASE /\ state \notin Steady /\ UNCHANGED settled
               /\ call' = [Idle EXCEPT !.name = n, !.led = virt[n], !.req = state,
                              !.pc = IF state = "BlinkOnce" THEN "test" ELSE "count"]
      <4>1. Idle \in CallRec(cur) /\ Idle.todo = <<>> /\ Idle.full = FALSE
        BY <1>1, IdleFacts
      <4>2. virt[n] \in 1 .. cur
        BY <1>1, <2>3 DEF LedTypes
      <4> DEFINE pc == IF state = "BlinkOnce" THEN "test" ELSE "count"
      <4>5. /\ pc \in {"test", "count"}
            /\ call' = [Idle EXCEPT !.name = n, !.led = virt[n], !.req = state, !.pc = pc]
        BY <3>3
      <4> HIDE DEF state, pc
      <4>6. virt[n] \in 0 .. cur
        BY <4>2
      <4>3. /\ call' \in CallRec(cur) /\ call'.pc \in {"test", "count"} /\ call'.name = n
            /\ call'.led = virt[n] /\ call'.todo = <<>> /\ call'.full = FALSE
        BY <3>1, <4>1, <4>5, <4>6 DEF CallRec
      <4>4. CallConsistent'
        BY <1>1, <4>2, <4>3 DEF CallConsistent, Leds, Initialised, initVars
      <4> QED BY <1>1, <3>3, <4>3, <4>4 DEF LedTypes
    <3> QED BY <2>3, <3>2, <3>3 DEF BoardLedCtrl
  <2> QED BY <2>1, <2>2, <2>3 DEF BoardLedCtrl
<1> QED BY <1>1, <1>2, <1>3, StepInv DEF LedTypes, timerVars

(* ------------------------------------------------------------------------------ *)
(* A request that is in progress. *)
LEMMA InProgress ==
    ASSUME LedInv, call.pc # "idle"
    PROVE  /\ Initialised /\ LedTypes /\ CallConsistent /\ BlinkersHaveTimer
           /\ call \in CallRec(cur) /\ call.name \in Names /\ cur \in Nat
           /\ call.todo \in Seq(Outputs)
           /\ call.todo # <<>> => Head(call.todo) \in Outputs
<1>1. LedTypes /\ CallConsistent /\ BlinkersHaveTimer
  BY TypeParts DEF LedInv
<1>2. Initialised /\ call.name \in Names
  BY <1>1, IdleFacts DEF CallConsistent
<1>3. call \in CallRec(cur) /\ cur \in Nat
  BY <1>1 DEF LedTypes
<1>4. call.todo \in Seq(Outputs)
  BY <1>3 DEF CallRec
<1> QED BY <1>1, <1>2, <1>3, <1>4

(* An output is done. *)
LEMMA OutputDoneInv ==
    ASSUME LedInv, call.pc # "idle", UNCHANGED initVars, call.todo # <<>>, OutputDone
    PROVE  /\ call' \in CallRec(cur) /\ settled' \in SUBSET (1 .. cur)
           /\ CallConsistent' /\ call'.pc \notin {"blink", "start"}
<1>1. /\ Initialised' /\ cur' = cur /\ cur \in Nat /\ call \in CallRec(cur)
      /\ call.name \in Names /\ call.todo \in Seq(Outputs)
      /\ settled \in SUBSET (1 .. cur) /\ (call.full => call.led \in 1 .. cur)
      /\ \A i \in 1 .. Len(call.todo) :
             ~call.todo[i].hw => call.led \in 1 .. cur /\ call.todo[i].state \notin Continues
  BY InProgress DEF initVars, Initialised, LedTypes, CallConsistent, Leds
<1>2. CASE Len(call.todo) > 1
  <2>1. call' = [call EXCEPT !.pc = "output", !.todo = Tail(@)] /\ settled' = settled
    BY <1>2 DEF OutputDone
  <2> DEFINE rest == Tail(call.todo)
  <2>2. /\ rest \in Seq(Outputs) /\ rest # <<>> /\ Len(rest) = Len(call.todo) - 1
        /\ \A i \in 1 .. Len(rest) : rest[i] = call.todo[i + 1] /\ i + 1 \in 1 .. Len(call.todo)
    <3> DEFINE s == call.todo
    <3>1. s \in Seq(Outputs) /\ Len(s) \in Nat /\ Len(s) > 1
      BY <1>1, <1>2
    <3> HIDE DEF s
    <3>2. Tail(s) \in Seq(Outputs) /\ Len(Tail(s)) = Len(s) - 1
      BY <3>1
    <3>3. \A i \in 1 .. Len(s) - 1 : Tail(s)[i] = s[i + 1] /\ i + 1 \in 1 .. Len(s)
      BY <3>1
    <3>4. Tail(s) # <<>>
      <4>1. Len(<<>>) = 0
        OBVIOUS
      <4>2. Len(Tail(s)) # 0
        BY <3>1, <3>2
      <4> QED BY <4>1, <4>2, Zenon
    <3> QED BY <3>2, <3>3, <3>4 DEF s
  <2> HIDE DEF rest
  <2>3. /\ call' \in CallRec(cur) /\ call'.pc = "output" /\ call'.todo = rest
        /\ call'.name = call.name /\ call'.led = call.led /\ call'.full = call.full
    BY <1>1, <2>1, <2>2 DEF CallRec, rest
  <2>4. \A i \in 1 .. Len(rest) :
            ~rest[i].hw => call.led \in 1 .. cur /\ rest[i].state \notin Continues
    BY <1>1, <2>2
  <2>5. CallConsistent'
    BY <1>1, <2>2, <2>3, <2>4 DEF CallConsistent, Leds
  <2> QED BY <1>1, <2>1, <2>3, <2>5
<1>3. CASE ~(Len(call.todo) > 1)
  <2>1. call' = Idle /\ settled' \in {settled, settled \cup {call.led}}
        /\ (settled' # settled => call.full)
    BY <1>3 DEF OutputDone
  <2>2. call' \in CallRec(cur) /\ CallConsistent' /\ call'.pc = "idle"
    BY <1>1, <2>1, IdleFacts, IdleConsistent
  <2>3. settled' \in SUBSET (1 .. cur)
    BY <1>1, <2>1
  <2> QED BY <2>2, <2>3
<1> QED BY <1>2, <1>3

LEMMA CallHwHandlerInv == LedInv /\ CallHwHandler => LedInv'
<1> SUFFICES ASSUME LedInv, CallHwHandler PROVE LedInv'
  OBVIOUS
<1>1. /\ UNCHANGED <<initVars, led, gpio, timerVars, handlers>>
      /\ call.pc = "output" /\ OutputDone
  BY DEF CallHwHandler
<1>2. LedTypes /\ BlinkersHaveTimer /\ call.todo # <<>> /\ call.name \in Names
  BY <1>1, InProgress DEF CallConsistent
<1>3. /\ call' \in CallRec(cur) /\ settled' \in SUBSET (1 .. cur) /\ CallConsistent'
  BY <1>1, <1>2, OutputDoneInv
<1>4. BlinkersHaveTimer'
  BY <1>1, <1>2, BlinkersFrame DEF initVars, timerVars
<1>5. hwOut' \in [Colours -> [Names -> States]]
  <2>1. Head(call.todo) \in Outputs
    BY <1>1, <1>2, InProgress
  <2> DEFINE o == Head(call.todo)
  <2>2. hwOut' = [hwOut EXCEPT ![o.c] = [@ EXCEPT ![call.name] = o.state]]
    BY DEF CallHwHandler
  <2>3. o.c \in Colours /\ o.state \in States /\ hwOut \in [Colours -> [Names -> States]]
    BY <1>2, <2>1 DEF Outputs, LedTypes
  <2> HIDE DEF o
  <2> QED BY <1>2, <2>2, <2>3
<1> QED BY <1>1, <1>2, <1>3, <1>4, <1>5, StepInv DEF LedTypes, timerVars

LEMMA ReadGpioInv == LedInv /\ ReadGpio => LedInv'
<1> SUFFICES ASSUME LedInv, ReadGpio PROVE LedInv'
  OBVIOUS
<1>1. /\ UNCHANGED <<initVars, led, gpio, timerVars, handlers, hwOut, settled>>
      /\ call.pc = "output" /\ ~Head(call.todo).hw
      /\ call' = [call EXCEPT !.pc = "write", !.snap = gpio]
  BY DEF ReadGpio
<1>2. LedTypes /\ BlinkersHaveTimer /\ CallConsistent /\ Initialised
      /\ call \in CallRec(cur) /\ gpio \in SUBSET Pins
  BY <1>1, InProgress DEF LedTypes
<1>3. /\ call' \in CallRec(cur) /\ call'.pc = "write" /\ call'.todo = call.todo
      /\ call'.name = call.name /\ call'.led = call.led /\ call'.full = call.full
  BY <1>1, <1>2 DEF CallRec
<1>4. CallConsistent'
  BY <1>1, <1>2, <1>3 DEF CallConsistent, Leds, Initialised, initVars
<1>5. BlinkersHaveTimer'
  BY <1>1, <1>2, BlinkersFrame DEF initVars, timerVars
<1> QED BY <1>1, <1>2, <1>3, <1>4, <1>5, StepInv DEF LedTypes, timerVars

LEMMA WriteGpioInv == LedInv /\ WriteGpio => LedInv'
<1> SUFFICES ASSUME LedInv, WriteGpio PROVE LedInv'
  OBVIOUS
<1> DEFINE o == Head(call.todo)
           pc == IF o.state = "BlinkOnce" THEN "count" ELSE "state"
<1>1. /\ UNCHANGED <<initVars, led, timerVars, handlers, hwOut, settled>>
      /\ call.pc = "write"
      /\ call' = [call EXCEPT !.pc = pc, !.snap = {}]
      /\ \E pin : gpio' = call.snap \cup ({pin} \cap Pins) \/ gpio' = call.snap \ {pin}
  BY DEF WriteGpio
<1>2. LedTypes /\ BlinkersHaveTimer /\ CallConsistent /\ Initialised
      /\ call \in CallRec(cur) /\ call.todo # <<>> /\ call.todo \in Seq(Outputs)
  BY <1>1, InProgress DEF CallConsistent
<1>3. gpio' \in SUBSET Pins
  BY <1>1, <1>2 DEF CallRec
<1>4. pc \in {"count", "state"} /\ (pc = "state" => o.state # "BlinkOnce")
  OBVIOUS
<1>5. ~o.hw /\ call.led \in Leds
  <2>1. o = call.todo[1] /\ 1 \in 1 .. Len(call.todo)
    BY <1>2
  <2> QED BY <1>1, <1>2, <2>1 DEF CallConsistent
<1> HIDE DEF pc
<1>6. /\ call' \in CallRec(cur) /\ call'.pc = pc /\ call'.todo = call.todo
      /\ call'.name = call.name /\ call'.led = call.led /\ call'.full = call.full
  BY <1>1, <1>2, <1>4 DEF CallRec
<1>7. CallConsistent'
  BY <1>1, <1>2, <1>4, <1>5, <1>6 DEF CallConsistent, Leds, Initialised, initVars
<1>8. BlinkersHaveTimer'
  BY <1>1, <1>2, BlinkersFrame DEF initVars, timerVars
<1> QED BY <1>1, <1>2, <1>3, <1>6, <1>7, <1>8, StepInv DEF LedTypes, timerVars

LEMMA SetStateInv == LedInv /\ SetState => LedInv'
<1> SUFFICES ASSUME LedInv, SetState PROVE LedInv'
  OBVIOUS
<1> DEFINE state == Head(call.todo).state
           l == call.led
<1>1. /\ UNCHANGED <<initVars, gpio, timerVars, handlers, hwOut>>
      /\ call.pc = "state" /\ OutputDone
      /\ led' = [led EXCEPT ![l] = [@ EXCEPT !.state = state, !.saved = state]]
  BY DEF SetState
<1>2. LedTypes /\ BlinkersHaveTimer /\ CallConsistent /\ call.todo # <<>>
      /\ call.todo \in Seq(Outputs) /\ Head(call.todo) \in Outputs /\ cur \in Nat
  BY <1>1, InProgress DEF CallConsistent
<1>3. state \in Steady /\ l \in 1 .. cur
  <2>1. Head(call.todo) = call.todo[1] /\ 1 \in 1 .. Len(call.todo)
    BY <1>2
  <2>2. state \notin Continues /\ l \in 1 .. cur /\ state # "BlinkOnce"
    BY <1>1, <1>2, <2>1 DEF CallConsistent, Leds
  <2> QED BY <1>2, <2>2 DEF Outputs, States
<1> HIDE DEF state, l
<1>4. /\ call' \in CallRec(cur) /\ settled' \in SUBSET (1 .. cur)
      /\ CallConsistent' /\ call'.pc \notin {"blink", "start"}
  BY <1>1, <1>2, OutputDoneInv
<1>5. led \in [1 .. Len(map) -> LedRec] /\ 1 .. cur \subseteq 1 .. Len(map)
  BY <1>2 DEF LedTypes
<1>6. /\ led' \in [1 .. Len(map) -> LedRec]
      /\ \A i \in 1 .. cur : led'[i].cd = led[i].cd
      /\ \A i \in 1 .. cur : led'[i].state = IF i = l THEN state ELSE led[i].state
  BY <1>1, <1>3, <1>5, ZenonT(40) DEF LedRec, States, Steady
<1>7. BlinkersHaveTimer'
  <2>1. \A i \in 1 .. cur : led[i].state \notin Steady \/ led[i].cd # 0 => gTimerOn
    BY <1>1, <1>2 DEF BlinkersHaveTimer, WillStart, Leds
  <2>2. gTimerOn' = gTimerOn /\ cur' = cur
    BY <1>1 DEF timerVars, initVars
  <2> QED BY <1>3, <1>6, <2>1, <2>2 DEF BlinkersHaveTimer, Leds
<1> QED BY <1>1, <1>2, <1>4, <1>6, <1>7, StepInv DEF LedTypes, timerVars

LEMMA TestBlinkOnceInv == LedInv /\ TestBlinkOnce => LedInv'
<1> SUFFICES ASSUME LedInv, TestBlinkOnce PROVE LedInv'
  OBVIOUS
<1> DEFINE o == [hw |-> FALSE, c |-> "norm", lit |-> led[call.led].norm \notin gpio,
                 state |-> "BlinkOnce"]
<1>1. /\ UNCHANGED <<initVars, led, gpio, timerVars, handlers, hwOut, settled>>
      /\ call.pc = "test"
      /\ \/ call' = Idle
         \/ call' = [call EXCEPT !.pc = "output", !.todo = <<o>>]
  BY DEF TestBlinkOnce
<1>2. LedTypes /\ BlinkersHaveTimer /\ CallConsistent /\ Initialised /\ cur \in Nat
      /\ call \in CallRec(cur) /\ call.name \in Names /\ call.led \in Leds
  BY <1>1, InProgress DEF CallConsistent
<1>3. BlinkersHaveTimer'
  BY <1>1, <1>2, BlinkersFrame DEF initVars, timerVars
<1>4. call' \in CallRec(cur) /\ CallConsistent'
  <2>1. CASE call' = Idle
    BY <1>2, <2>1, IdleFacts, IdleConsistent
  <2>2. CASE call' = [call EXCEPT !.pc = "output", !.todo = <<o>>]
    <3>1. o \in Outputs /\ o.hw = FALSE /\ o.state \notin Continues
      BY DEF Outputs, States, Continues
    <3> HIDE DEF o
    <3>2. <<o>> \in Seq(Outputs) /\ <<o>> # <<>> /\ \A i \in 1 .. Len(<<o>>) : <<o>>[i] = o
      BY <3>1, OneElement
    <3>3. /\ call' \in CallRec(cur) /\ call'.pc = "output" /\ call'.todo = <<o>>
          /\ call'.name = call.name /\ call'.led = call.led /\ call'.full = call.full
      BY <1>2, <2>2, <3>2 DEF CallRec
    <3>4. Initialised' /\ Leds' = Leds
      BY <1>1, <1>2 DEF Initialised, Leds, initVars
    <3> QED BY <1>2, <3>1, <3>2, <3>3, <3>4 DEF CallConsistent
  <2> QED BY <1>1, <2>1, <2>2
<1> QED BY <1>1, <1>2, <1>3, <1>4, StepInv DEF LedTypes, timerVars

(* A step of a request that leaves its outputs alone. *)
LEMMA PcStep ==
    ASSUME LedInv, call.pc # "idle", UNCHANGED initVars, call.led \in Leds,
           NEW pc \in {"blink", "start"}, call' = [call EXCEPT !.pc = pc]
    PROVE  /\ call' \in CallRec(cur) /\ call'.pc = pc /\ call'.led = call.led
           /\ CallConsistent'
<1>1. CallConsistent /\ Initialised /\ call \in CallRec(cur) /\ call.name \in Names
  BY InProgress
<1>2. /\ call' \in CallRec(cur) /\ call'.pc = pc /\ call'.todo = call.todo
      /\ call'.name = call.name /\ call'.led = call.led /\ call'.full = call.full
  BY <1>1 DEF CallRec
<1>3. Initialised' /\ Leds' = Leds
  BY <1>1 DEF Initialised, Leds, initVars
<1> QED BY <1>1, <1>2, <1>3 DEF CallConsistent

LEMMA SetCountDownInv == LedInv /\ SetCountDown => LedInv'
<1> SUFFICES ASSUME LedInv, SetCountDown PROVE LedInv'
  OBVIOUS
<1> DEFINE l == call.led
           count == BlinkCount(call.req)
<1>1. /\ UNCHANGED <<initVars, gpio, timerVars, handlers, hwOut, settled>>
      /\ call.pc = "count" /\ call' = [call EXCEPT !.pc = "blink"]
      /\ led' = [led EXCEPT ![l] = [@ EXCEPT !.cd = count]]
  BY DEF SetCountDown
<1>2. LedTypes /\ BlinkersHaveTimer /\ cur \in Nat /\ l \in 1 .. cur
  BY <1>1, InProgress DEF CallConsistent, Leds
<1>3. count \in {0, 1}
  BY DEF BlinkCount, kSlowBlinkCount, kFastBlinkCount
<1>4. /\ call' \in CallRec(cur) /\ call'.pc = "blink" /\ call'.led = l /\ CallConsistent'
  BY <1>1, <1>2, PcStep DEF Leds
<1> HIDE DEF l, count
<1>5. led \in [1 .. Len(map) -> LedRec] /\ 1 .. cur \subseteq 1 .. Len(map)
  BY <1>2 DEF LedTypes
<1>6. /\ led' \in [1 .. Len(map) -> LedRec]
      /\ \A i \in 1 .. cur : i # l => led'[i] = led[i]
  BY <1>1, <1>2, <1>3, <1>5 DEF LedRec
<1>7. BlinkersHaveTimer'
  <2>1. gTimerOn' = gTimerOn /\ cur' = cur
    BY <1>1 DEF timerVars, initVars
  <2>2. \A i \in 1 .. cur : led[i].state \notin Steady \/ led[i].cd # 0 => gTimerOn
    BY <1>1, <1>2 DEF BlinkersHaveTimer, WillStart, Leds
  <2> QED BY <1>4, <1>6, <2>1, <2>2 DEF BlinkersHaveTimer, WillStart, Leds
<1> QED BY <1>1, <1>2, <1>4, <1>6, <1>7, StepInv DEF LedTypes, timerVars

LEMMA SetBlinkInv == LedInv /\ SetBlink => LedInv'
<1> SUFFICES ASSUME LedInv, SetBlink PROVE LedInv'
  OBVIOUS
<1> DEFINE l == call.led
           saved == IF call.req = "BlinkOnce" THEN led[l].saved ELSE call.req
<1>1. /\ UNCHANGED <<initVars, gpio, timerVars, handlers, hwOut, settled>>
      /\ call.pc = "blink" /\ call' = [call EXCEPT !.pc = "start"]
      /\ led' = [led EXCEPT ![l] = [@ EXCEPT !.state = call.req, !.saved = saved]]
  BY DEF SetBlink
<1>2. LedTypes /\ BlinkersHaveTimer /\ cur \in Nat /\ l \in 1 .. cur /\ call \in CallRec(cur)
  BY <1>1, InProgress DEF CallConsistent, Leds
<1>3. led \in [1 .. Len(map) -> LedRec] /\ 1 .. cur \subseteq 1 .. Len(map)
  BY <1>2 DEF LedTypes
<1>4. call.req \in States /\ saved \in States \ {"BlinkOnce"}
  <2>1. call.req \in States
    BY <1>2 DEF CallRec
  <2>2. led[l].saved \in States \ {"BlinkOnce"}
    BY <1>2, <1>3 DEF LedRec
  <2> QED BY <2>1, <2>2
<1>5. /\ call' \in CallRec(cur) /\ call'.pc = "start" /\ call'.led = l /\ CallConsistent'
  BY <1>1, <1>2, PcStep DEF Leds
<1> HIDE DEF l, saved
<1>6. /\ led' \in [1 .. Len(map) -> LedRec]
      /\ \A i \in 1 .. cur : i # l => led'[i] = led[i]
  BY <1>1, <1>2, <1>3, <1>4 DEF LedRec
<1>7. BlinkersHaveTimer'
  <2>1. gTimerOn' = gTimerOn /\ cur' = cur
    BY <1>1 DEF timerVars, initVars
  <2>2. \A i \in 1 .. cur : i # l /\ (led[i].state \notin Steady \/ led[i].cd # 0) => gTimerOn
    BY <1>1, <1>2 DEF BlinkersHaveTimer, WillStart, Leds, l
  <2> QED BY <1>5, <1>6, <2>1, <2>2 DEF BlinkersHaveTimer, WillStart, Leds
<1> QED BY <1>1, <1>2, <1>5, <1>6, <1>7, StepInv DEF LedTypes, timerVars

LEMMA StartTimerInv == LedInv /\ StartTimer => LedInv'
<1> SUFFICES ASSUME LedInv, StartTimer PROVE LedInv'
  OBVIOUS
<1>1. /\ UNCHANGED <<initVars, led, gpio, gBlinkOnceTimerOn, handlers, hwOut, settled>>
      /\ call.pc = "start" /\ gTimerOn' = TRUE /\ call' = Idle
  BY DEF StartTimer
<1>2. LedTypes /\ cur \in Nat
  BY <1>1, InProgress
<1>3. call' \in CallRec(cur) /\ CallConsistent'
  BY <1>1, <1>2, IdleFacts, IdleConsistent
<1>4. BlinkersHaveTimer'
  BY <1>1 DEF BlinkersHaveTimer
<1> QED BY <1>1, <1>2, <1>3, <1>4, StepInv DEF LedTypes

(* The timer of the LEDs, also in the middle of a request. *)
LEMMA LedTimerExpireInv == LedInv /\ LedTimerExpire => LedInv'
<1> SUFFICES ASSUME LedInv, LedTimerExpire PROVE LedInv'
  OBVIOUS
<1>1. /\ UNCHANGED <<initVars, handlers, hwOut>> /\ cur' = cur
      /\ led' = [i \in DOMAIN led |-> IF i \in Leds THEN Expired(led[i]) ELSE led[i]]
      /\ gTimerOn' = \E i \in Leds : Restarts(led[i])
      /\ call' = [call EXCEPT !.hit = call.pc # "idle"]
  BY DEF LedTimerExpire, initVars
<1>2. LedTypes /\ CallConsistent
  BY TypeParts DEF LedInv
<1>3. led \in [1 .. Len(map) -> LedRec] /\ 1 .. cur \subseteq 1 .. Len(map)
  BY <1>2 DEF LedTypes
<1>4. /\ led' \in [1 .. Len(map) -> LedRec]
      /\ \A i \in 1 .. cur : led'[i] = Expired(led[i])
  BY <1>1, <1>3, ExpiredType DEF Leds
<1>5. BlinkersHaveTimer'
  <2>1. \A i \in 1 .. cur :
            (led'[i].state \in Steady /\ led'[i].cd = 0) \/ Restarts(led[i])
    BY <1>3, <1>4, ExpiredType
  <2> QED BY <1>1, <2>1 DEF BlinkersHaveTimer, Leds
<1>6. /\ gpio' \in SUBSET Pins /\ settled' \in SUBSET (1 .. cur)
  <2>1. \E pins \in SUBSET Pins : gpio' = (gpio \ pins) \cup (pins \ gpio)
    BY DEF LedTimerExpire
  <2>2. settled' \subseteq settled
    BY DEF LedTimerExpire
  <2> QED BY <1>2, <2>1, <2>2 DEF LedTypes
<1>7. gTimerOn' \in BOOLEAN /\ gBlinkOnceTimerOn' \in BOOLEAN
  BY <1>2 DEF LedTimerExpire, LedTypes
<1>8. call' \in CallRec(cur) /\ CallConsistent'
  <2> DEFINE hit == call.pc # "idle"
  <2>1. hit \in BOOLEAN /\ call' = [call EXCEPT !.hit = hit] /\ call \in CallRec(cur)
    BY <1>1, <1>2 DEF LedTypes
  <2> HIDE DEF hit
  <2>2. /\ call' \in CallRec(cur) /\ call'.pc = call.pc /\ call'.todo = call.todo
        /\ call'.name = call.name /\ call'.led = call.led /\ call'.full = call.full
    BY <2>1 DEF CallRec
  <2>3. ASSUME call = Idle PROVE call' = Idle
    <3>1. call' = [Idle EXCEPT !.hit = FALSE]
      BY <1>1, <2>3, IdleFacts
    <3> QED BY <3>1 DEF Idle
  <2>4. Initialised' = Initialised /\ Leds' = Leds
    BY <1>1 DEF Initialised, Leds, initVars
  <2> QED BY <1>2, <2>2, <2>3, <2>4 DEF CallConsistent
<1> QED BY <1>1, <1>2, <1>4, <1>5, <1>6, <1>7, <1>8, StepInv DEF LedTypes

LEMMA BlinkOnceTimerExpireInv == LedInv /\ BlinkOnceTimerExpire => LedInv'
<1> SUFFICES ASSUME LedInv, BlinkOnceTimerExpire PROVE LedInv'
  OBVIOUS
<1>1. /\ UNCHANGED <<initVars, led, gpio, gTimerOn, handlers, hwOut, call, settled>>
      /\ gBlinkOnceTimerOn' = FALSE
  BY DEF BlinkOnceTimerExpire
<1>2. LedTypes /\ CallConsistent /\ BlinkersHaveTimer
  BY TypeParts DEF LedInv
<1>3. CallConsistent' /\ BlinkersHaveTimer'
  BY <1>1, <1>2 DEF CallConsistent, BlinkersHaveTimer, WillStart, Leds, Initialised, initVars
<1> QED BY <1>1, <1>2, <1>3, StepInv DEF LedTypes

(* ------------------------------------------------------------------------------ *)
(* Every step keeps the invariant. *)
LEMMA LedNextInv == LedInv /\ [LedNext]_ledVars => LedInv'
<1> SUFFICES ASSUME LedInv, [LedNext]_ledVars PROVE LedInv'
  OBVIOUS
<1>1. CASE LedInitEntry \/ LedInitNoMem
  BY <1>1, LedInitEntryInv, LedInitNoMemInv
<1>2. CASE \E n \in Names, c \in Colours : RegisterHwHandler(n, c)
  BY <1>2, RegisterInv
<1>3. CASE \E n \in Names, req \in States : BoardLedCtrl(n, req)
  BY <1>3, BoardLedCtrlInv
<1>4. CASE CtrlStep
  BY <1>4, CallHwHandlerInv, ReadGpioInv, WriteGpioInv, SetStateInv, TestBlinkOnceInv,
     SetCountDownInv, SetBlinkInv, StartTimerInv DEF CtrlStep
<1>5. CASE LedTimerExpire \/ BlinkOnceTimerExpire
  BY <1>5, LedTimerExpireInv, BlinkOnceTimerExpireInv
<1>6. CASE UNCHANGED ledVars
  <2>1. LedTypes /\ CallConsistent /\ BlinkersHaveTimer
    BY TypeParts DEF LedInv
  <2>2. CallConsistent' /\ BlinkersHaveTimer'
    BY <1>6, <2>1 DEF CallConsistent, BlinkersHaveTimer, WillStart, Leds, Initialised,
                      ledVars, initVars, timerVars
  <2> QED BY <1>6, <2>1, <2>2, StepInv DEF LedTypes, ledVars, timerVars
<1> QED BY <1>1, <1>2, <1>3, <1>4, <1>5, <1>6 DEF LedNext

(* LedInv is an invariant of the LED driver. *)
THEOREM LedInvariant == LedSpec => []LedInv
BY LedInitInv, LedNextInv, PTL DEF LedSpec

(* Type correctness: entries of gLed, the name table, the count downs (0 or 1),   *)
(* and the outputs left to a request have their types.                            *)
THEOREM LedTypeCorrect == LedSpec => []LedTypeOK
<1>1. LedInv => LedTypeOK
  BY DEF LedInv
<1> QED BY <1>1, LedInvariant, PTL

(* An LED that blinks, or that refuses to blink once, has a timer pending or its   *)
(* request still to start it, wherever ledTimerExpire interrupts boardLedCtrl.     *)
THEOREM BlinkersAlwaysHaveTimer == LedSpec => []BlinkersHaveTimer
<1>1. LedInv => BlinkersHaveTimer
  BY DEF LedInv
<1> QED BY <1>1, LedInvariant, PTL

------------------------------------------------------------------------------------
(* The table of board LEDs that boardLedInit builds. *)

(* The entries of the mapping that were looked at have their pins, unless there    *)
(* was no memory for gLed.                                                        *)
Reached ==
    cur > 0 => \A i \in 1 .. idx - 1 :
                   /\ virt[map[i].name] # 0
                   /\ \A c \in Colours :
                          map[i][c] # None => led[virt[map[i].name]][c] = map[i][c]

(* The pins of a board LED are those of one entry of the mapping. *)
FromTable ==
    \A p \in 1 .. cur : \E i \in 1 .. idx - 1 :
        led[p].norm = map[i].norm /\ led[p].fail = map[i].fail

(* No two board LEDs, and no two colours, have a pin in common. *)
PinsApart ==
    \A p, q \in 1 .. cur :
        /\ led[p].norm # None => led[p].norm # led[q].fail
        /\ \A c \in Colours : led[p][c] # None /\ led[p][c] = led[q][c] => p = q

MapInv ==
    /\ cur = 0 => idx = 1 \/ Initialised
    /\ Reached
    /\ FromTable
    /\ PinsApart

(* The steps after the initialisation leave the table and its pins alone. *)
PinsKept ==
    /\ UNCHANGED initVars
    /\ \A i \in 1 .. cur : led'[i].norm = led[i].norm /\ led'[i].fail = led[i].fail

LEMMA ExpiredKeepsPins ==
    ASSUME NEW l \in LedRec
    PROVE  Expired(l).norm = l.norm /\ Expired(l).fail = l.fail
<1>1. l.state \in Steady \/ l.state = "BlinkOnce" \/ l.state \in Continues
  BY DEF LedRec, States
<1> QED BY <1>1 DEF Expired, LedRec, Steady, Continues

LEMMA LaterKeepsPins ==
    ASSUME LedInv, [LedNext]_ledVars, ~LedInitEntry, ~LedInitNoMem
    PROVE  PinsKept
<1>0. led \in [1 .. Len(map) -> LedRec] /\ 1 .. cur \subseteq 1 .. Len(map)
  BY TypeParts DEF LedInv, LedTypes
<1>1. CASE UNCHANGED <<initVars, led>>
  BY <1>1 DEF PinsKept, initVars
<1>2. CASE SetState \/ SetBlink
  <2> DEFINE new(l) == IF SetState THEN [l EXCEPT !.state = Head(call.todo).state,
                                                  !.saved = Head(call.todo).state]
                       ELSE [l EXCEPT !.state = call.req,
                                      !.saved = IF call.req = "BlinkOnce" THEN @ ELSE call.req]
  <2>1. UNCHANGED initVars /\ led' = [led EXCEPT ![call.led] = new(@)]
    BY <1>2, ZenonT(40) DEF SetState, SetBlink
  <2>2. \A l \in LedRec : new(l).norm = l.norm /\ new(l).fail = l.fail
    BY DEF LedRec
  <2> HIDE DEF new
  <2> QED BY <1>0, <2>1, <2>2 DEF PinsKept, initVars
<1>3. CASE SetCountDown
  <2> DEFINE new(l) == [l EXCEPT !.cd = BlinkCount(call.req)]
  <2>1. UNCHANGED initVars /\ led' = [led EXCEPT ![call.led] = new(@)]
    BY <1>3 DEF SetCountDown
  <2>2. \A l \in LedRec : new(l).norm = l.norm /\ new(l).fail = l.fail
    BY DEF LedRec
  <2> HIDE DEF new
  <2> QED BY <1>0, <2>1, <2>2 DEF PinsKept, initVars
<1>4. CASE LedTimerExpire
  <2>1. UNCHANGED initVars
        /\ led' = [i \in DOMAIN led |-> IF i \in Leds THEN Expired(led[i]) ELSE led[i]]
    BY <1>4 DEF LedTimerExpire
  <2>2. \A i \in 1 .. cur : led'[i] = Expired(led[i]) /\ led[i] \in LedRec
    BY <1>0, <2>1 DEF Leds
  <2> QED BY <2>1, <2>2, ExpiredKeepsPins DEF PinsKept
<1>5. CASE UNCHANGED ledVars
  BY <1>1, <1>5 DEF ledVars
<1>6. CASE \E n \in Names, c \in Colours : RegisterHwHandler(n, c)
  BY <1>1, <1>6 DEF RegisterHwHandler
<1>7. CASE \E n \in Names, req \in States : BoardLedCtrl(n, req)
  BY <1>1, <1>7 DEF BoardLedCtrl
<1>8. CASE CallHwHandler \/ ReadGpio \/ WriteGpio \/ TestBlinkOnce \/ StartTimer
           \/ BlinkOnceTimerExpire
  BY <1>1, <1>8 DEF CallHwHandler, ReadGpio, WriteGpio, TestBlinkOnce, StartTimer,
                    BlinkOnceTimerExpire
<1> QED BY <1>2, <1>3, <1>4, <1>5, <1>6, <1>7, <1>8 DEF LedNext, CtrlStep

LEMMA SharesPins ==
    ASSUME NEW p, NEW q
    PROVE  Shares(p, q) <=> \/ p.norm # None /\ p.norm = q.norm
                            \/ p.fail # None /\ p.fail = q.fail
BY DEF Shares

(* A further name of a board LED that agrees with the entry the LED has its pins   *)
(* from: the LED has the pins of the one or of the other, and those of both.      *)
LEMMA MergedPins ==
    ASSUME NEW l \in LedRec, NEW e \in MapPair, Shares(l, e),
           \A c \in Colours : l[c] = None \/ e[c] = None \/ l[c] = e[c]
    PROVE  /\ \A c \in Colours : l[c] # None => Merged(l, e)[c] = l[c]
           /\ \A c \in Colours : e[c] # None => Merged(l, e)[c] = e[c]
           /\ \A c \in Colours : Merged(l, e)[c] \in {l[c], e[c]}
           /\ \/ Merged(l, e).norm = l.norm /\ Merged(l, e).fail = l.fail
              \/ Merged(l, e).norm = e.norm /\ Merged(l, e).fail = e.fail
<1>1. /\ Merged(l, e).norm = (IF e.norm # None THEN e.norm ELSE l.norm)
      /\ Merged(l, e).fail = (IF e.fail # None THEN e.fail ELSE l.fail)
  BY DEF Merged, LedRec
<1>2. /\ l.norm = None \/ e.norm = None \/ l.norm = e.norm
      /\ l.fail = None \/ e.fail = None \/ l.fail = e.fail
  OBVIOUS
<1> QED BY <1>1, <1>2, SharesPins

(* An entry of the mapping whose board LED is known. *)
LEMMA InitSharedMap ==
    ASSUME LedInv, MapInv, ~Initialised, InitShared(map[idx]),
           idx' = idx + 1, map' = map,
           \E j \in 1 .. idx - 1 : Shares(map[idx], map[j])
    PROVE  MapInv'
<1> DEFINE e == map[idx]
<1>1. /\ map \in LedMaps /\ idx \in 1 .. Len(map) /\ cur \in Nat /\ Len(map) \in Nat
      /\ DOMAIN map = 1 .. Len(map) /\ \A i \in 1 .. Len(map) : map[i] \in MapPair
      /\ 1 .. cur \subseteq 1 .. Len(map) /\ cur' = cur
      /\ led \in [1 .. Len(map) -> LedRec] /\ virt \in [Names -> 0 .. cur]
  <2>1. LedTypes /\ cur < idx
    BY TypeParts DEF LedInv
  <2>2. map \in Seq(MapPair) /\ Len(map) \in Nat /\ DOMAIN map = 1 .. Len(map)
    BY <2>1 DEF LedTypes
  <2> QED BY <2>1, <2>2 DEF LedTypes, Initialised, InitShared
<1>2. /\ \A i \in 1 .. Len(map) : map[i].name \in Names
      /\ e \in MapPair /\ e.name \in Names /\ idx > 1 /\ cur > 0
  BY <1>1 DEF MapPair, MapInv
<1>3. \A i, j \in 1 .. Len(map) :
          /\ map[i].name = map[j].name => i = j
          /\ map[i].norm # None => map[i].norm # map[j].fail
          /\ Shares(map[i], map[j]) =>
                \A c \in Colours : map[i][c] = None \/ map[j][c] = None \/ map[i][c] = map[j][c]
  BY <1>1, BoardTables
<1>4. \A i, j, k \in 1 .. Len(map) :
          Shares(map[i], map[j]) /\ Shares(map[j], map[k]) => Shares(map[i], map[k])
  BY <1>1, BoardTables
<1> HIDE DEF e
<1>5. PICK p \in 1 .. cur : /\ Shares(led[p], e)
                            /\ led' = [led EXCEPT ![p] = Merged(@, e)]
                            /\ virt' = [virt EXCEPT ![e.name] = p]
  <2>1. PICK j \in 1 .. idx - 1 : Shares(e, map[j])
    BY DEF e
  <2> DEFINE p == virt[map[j].name]
  <2>2. /\ j \in 1 .. Len(map) /\ p \in 1 .. cur
        /\ \A c \in Colours : map[j][c] # None => led[p][c] = map[j][c]
    BY <1>1, <1>2 DEF MapInv, Reached
  <2> HIDE DEF p
  <2>3. Shares(led[p], e)
    BY <2>1, <2>2 DEF Shares
  <2> QED BY <2>2, <2>3 DEF InitShared, Leds, e
<1>6. PICK s \in 1 .. idx - 1 : led[p].norm = map[s].norm /\ led[p].fail = map[s].fail
  BY DEF MapInv, FromTable
<1>7. /\ s \in 1 .. Len(map) /\ idx \in 1 .. Len(map) /\ e = map[idx] /\ Shares(map[s], e)
      /\ led[p] \in LedRec
  <2>1. s \in 1 .. Len(map) /\ e = map[idx]
    BY <1>1 DEF e
  <2>3. led[p] \in LedRec
    BY <1>1
  <2>2. Shares(map[s], e)
    BY <1>5, <1>6, SharesPins
  <2> QED BY <1>1, <2>1, <2>2, <2>3
<1>8. \A c \in Colours : led[p][c] = None \/ e[c] = None \/ led[p][c] = e[c]
  BY <1>3, <1>6, <1>7
<1> DEFINE l == Merged(led[p], e)
<1>9. /\ \A c \in Colours : led[p][c] # None => l[c] = led[p][c]
      /\ \A c \in Colours : e[c] # None => l[c] = e[c]
      /\ \A c \in Colours : l[c] \in {led[p][c], e[c]}
      /\ \/ l.norm = led[p].norm /\ l.fail = led[p].fail
         \/ l.norm = e.norm /\ l.fail = e.fail
  BY <1>2, <1>5, <1>7, <1>8, MergedPins
<1>10. /\ led'[p] = l
       /\ \A q \in 1 .. cur : q # p => led'[q] = led[q]
       /\ virt'[e.name] = p
       /\ \A n \in Names : n # e.name => virt'[n] = virt[n]
  BY <1>1, <1>2, <1>5
<1> HIDE DEF l
(* No other board LED shares a pin with this entry. *)
<1>11. ASSUME NEW q \in 1 .. cur, Shares(led[q], e) PROVE q = p
  <2>1. PICK t \in 1 .. idx - 1 : led[q].norm = map[t].norm /\ led[q].fail = map[t].fail
    BY DEF MapInv, FromTable
  <2>2. t \in 1 .. Len(map) /\ Shares(map[t], map[idx])
    BY <1>1, <1>7, <1>11, <2>1, SharesPins
  <2>3. Shares(map[idx], map[s])
    BY <1>7, SharesPins
  <2>4. Shares(map[t], map[s])
    BY <1>4, <1>7, <2>2, <2>3
  <2>5. Shares(led[q], led[p])
    BY <1>6, <2>1, <2>4, SharesPins
  <2> QED BY <2>5 DEF MapInv, PinsApart, Shares
<1>12. Reached'
  <2> SUFFICES ASSUME NEW i \in 1 .. idx
               PROVE  /\ virt'[map[i].name] # 0
                      /\ \A c \in Colours :
                             map[i][c] # None => led'[virt'[map[i].name]][c] = map[i][c]
    BY <1>1 DEF Reached
  <2>1. CASE i = idx
    BY <1>1, <1>9, <1>10, <2>1 DEF e
  <2>2. CASE i # idx
    <3> DEFINE q == virt[map[i].name]
    <3>1. i \in 1 .. idx - 1 /\ i \in 1 .. Len(map)
      BY <1>1, <2>2
    <3>2. virt'[map[i].name] = q
      BY <1>1, <1>2, <1>3, <1>10, <2>2, <3>1 DEF e
    <3>3. q \in 1 .. cur /\ \A c \in Colours : map[i][c] # None => led[q][c] = map[i][c]
      BY <1>1, <1>2, <3>1 DEF MapInv, Reached
    <3> HIDE DEF q
    <3>4. \A c \in Colours : map[i][c] # None => led'[q][c] = map[i][c]
      BY <1>9, <1>10, <3>3
    <3> QED BY <3>2, <3>3, <3>4
  <2> QED BY <2>1, <2>2
<1>13. FromTable'
  <2> SUFFICES ASSUME NEW q \in 1 .. cur
               PROVE  \E i \in 1 .. idx : led'[q].norm = map[i].norm
                                          /\ led'[q].fail = map[i].fail
    <3>1. idx' - 1 = idx /\ map' = map /\ 1 .. cur' = 1 .. cur
      BY <1>1
    <3> QED BY <3>1 DEF FromTable
  <2>1. CASE q # p
    <3>1. PICK i \in 1 .. idx - 1 : led[q].norm = map[i].norm /\ led[q].fail = map[i].fail
      BY DEF MapInv, FromTable
    <3> QED BY <1>1, <1>10, <2>1, <3>1
  <2>2. CASE q = p
    <3>1. s \in 1 .. idx /\ idx \in 1 .. idx
      BY <1>1, <1>6
    <3> QED BY <1>6, <1>7, <1>9, <1>10, <2>2, <3>1
  <2> QED BY <2>1, <2>2
<1>14. PinsApart'
  <2>0. idx' - 1 = idx /\ map' = map /\ cur' = cur
    BY <1>1
  <2>1. ASSUME NEW q \in 1 .. cur, NEW r \in 1 .. cur, led'[q].norm # None
        PROVE  led'[q].norm # led'[r].fail
    <3>1. PICK i \in 1 .. idx : led'[q].norm = map[i].norm /\ led'[q].fail = map[i].fail
      BY <2>0, <1>13 DEF FromTable
    <3>2. PICK j \in 1 .. idx : led'[r].norm = map[j].norm /\ led'[r].fail = map[j].fail
      BY <2>0, <1>13 DEF FromTable
    <3> QED BY <1>1, <1>3, <2>1, <3>1, <3>2
  <2>2. ASSUME NEW q \in 1 .. cur, NEW r \in 1 .. cur, NEW c \in Colours,
               led'[q][c] # None, led'[q][c] = led'[r][c], q # p, r # p
        PROVE  q = r
    BY <1>10, <2>2 DEF MapInv, PinsApart
  <2>3. ASSUME NEW q \in 1 .. cur, NEW c \in Colours, l[c] # None, l[c] = led[q][c]
        PROVE  q = p
    <3>1. CASE l[c] = led[p][c]
      BY <2>3, <3>1 DEF MapInv, PinsApart
    <3>2. CASE l[c] = e[c]
      <4>1. Shares(led[q], e)
        BY <2>3, <3>2 DEF Shares
      <4> QED BY <1>11, <4>1
    <3> QED BY <1>9, <3>1, <3>2
  <2>4. \A q, r \in 1 .. cur : \A c \in Colours :
            led'[q][c] # None /\ led'[q][c] = led'[r][c] => q = r
    BY <1>10, <2>2, <2>3
  <2> QED BY <1>1, <2>1, <2>4 DEF PinsApart
<1> QED BY <1>1, <1>2, <1>12, <1>13, <1>14 DEF MapInv

(* An entry of the mapping that shares no pin with those before it. *)
LEMMA InitFirstMap ==
    ASSUME LedInv, MapInv, ~Initialised, InitFirst(map[idx]),
           idx' = idx + 1, map' = map,
           ~\E j \in 1 .. idx - 1 : Shares(map[idx], map[j])
    PROVE  MapInv'
<1> DEFINE e == map[idx]
           l == [NoLed EXCEPT !.norm = e.norm, !.fail = e.fail]
<1>1. /\ map \in LedMaps /\ idx \in 1 .. Len(map) /\ cur \in Nat /\ Len(map) \in Nat
      /\ DOMAIN map = 1 .. Len(map) /\ \A i \in 1 .. Len(map) : map[i] \in MapPair
      /\ cur < idx /\ cur' = cur + 1
      /\ led \in [1 .. Len(map) -> LedRec] /\ virt \in [Names -> 0 .. cur]
  <2>1. LedTypes /\ cur < idx
    BY TypeParts DEF LedInv
  <2>2. map \in Seq(MapPair) /\ Len(map) \in Nat /\ DOMAIN map = 1 .. Len(map)
    BY <2>1 DEF LedTypes
  <2> QED BY <2>1, <2>2 DEF LedTypes, Initialised, InitFirst
<1>2. /\ \A i \in 1 .. Len(map) : map[i].name \in Names
      /\ e \in MapPair /\ e.name \in Names
  BY <1>1 DEF MapPair
<1>3. \A i, j \in 1 .. Len(map) :
          /\ map[i].name = map[j].name => i = j
          /\ map[i].norm # None => map[i].norm # map[j].fail
  BY <1>1, BoardTables
<1>4. l.norm = e.norm /\ l.fail = e.fail
  BY DEF NoLed
<1>5. led' = [led EXCEPT ![cur + 1] = l] /\ virt' = [virt EXCEPT ![e.name] = cur + 1]
  BY DEF InitFirst
<1> HIDE DEF l, e
<1>6. /\ led'[cur + 1] = l
      /\ \A q \in 1 .. cur : led'[q] = led[q]
      /\ virt'[e.name] = cur + 1
      /\ \A n \in Names : n # e.name => virt'[n] = virt[n]
  BY <1>1, <1>2, <1>5
<1>7. \A q \in 1 .. cur + 1 : q = cur + 1 \/ q \in 1 .. cur
  BY <1>1
<1>8. Reached'
  <2> SUFFICES ASSUME NEW i \in 1 .. idx
               PROVE  /\ virt'[map[i].name] # 0
                      /\ \A c \in Colours :
                             map[i][c] # None => led'[virt'[map[i].name]][c] = map[i][c]
    BY <1>1 DEF Reached
  <2>1. CASE i = idx
    <3>1. virt'[map[i].name] = cur + 1 /\ led'[cur + 1] = l
      BY <1>6, <2>1 DEF e
    <3> QED BY <1>1, <1>4, <2>1, <3>1 DEF e
  <2>2. CASE i # idx
    <3> DEFINE q == virt[map[i].name]
    <3>1. i \in 1 .. idx - 1 /\ i \in 1 .. Len(map) /\ cur > 0
      BY <1>1, <2>2 DEF MapInv, Initialised
    <3>2. virt'[map[i].name] = q
      BY <1>1, <1>2, <1>3, <1>6, <2>2, <3>1 DEF e
    <3>3. q \in 1 .. cur /\ \A c \in Colours : map[i][c] # None => led[q][c] = map[i][c]
      BY <1>1, <1>2, <3>1 DEF MapInv, Reached
    <3> HIDE DEF q
    <3> QED BY <1>6, <3>2, <3>3
  <2> QED BY <2>1, <2>2
<1>9. FromTable'
  <2> SUFFICES ASSUME NEW q \in 1 .. cur + 1
               PROVE  \E i \in 1 .. idx : led'[q].norm = map[i].norm
                                          /\ led'[q].fail = map[i].fail
    <3>1. idx' - 1 = idx /\ map' = map /\ 1 .. cur' = 1 .. cur + 1
      BY <1>1
    <3> QED BY <3>1 DEF FromTable
  <2>1. CASE q \in 1 .. cur
    <3>1. PICK i \in 1 .. idx - 1 : led[q].norm = map[i].norm /\ led[q].fail = map[i].fail
      BY <2>1 DEF MapInv, FromTable
    <3> QED BY <1>1, <1>6, <2>1, <3>1
  <2>2. CASE q = cur + 1
    <3>1. idx \in 1 .. idx
      BY <1>1
    <3> QED BY <1>4, <1>6, <2>2, <3>1 DEF e
  <2> QED BY <1>7, <2>1, <2>2
<1>10. PinsApart'
  <2>0. idx' - 1 = idx /\ map' = map /\ cur' = cur + 1
    BY <1>1
  <2>1. ASSUME NEW q \in 1 .. cur + 1, NEW r \in 1 .. cur + 1, led'[q].norm # None
        PROVE  led'[q].norm # led'[r].fail
    <3>1. PICK i \in 1 .. idx : led'[q].norm = map[i].norm /\ led'[q].fail = map[i].fail
      BY <2>0, <1>9 DEF FromTable
    <3>2. PICK j \in 1 .. idx : led'[r].norm = map[j].norm /\ led'[r].fail = map[j].fail
      BY <2>0, <1>9 DEF FromTable
    <3> QED BY <1>1, <1>3, <2>1, <3>1, <3>2
  <2>2. ASSUME NEW q \in 1 .. cur, NEW c \in Colours, l[c] # None PROVE l[c] # led[q][c]
    <3>1. PICK j \in 1 .. idx - 1 : led[q].norm = map[j].norm /\ led[q].fail = map[j].fail
      BY DEF MapInv, FromTable
    <3>2. ~Shares(e, map[j])
      BY DEF e
    <3> QED BY <1>4, <2>2, <3>1, <3>2, SharesPins
  <2>3. \A q, r \in 1 .. cur : \A c \in Colours :
            led'[q][c] # None /\ led'[q][c] = led'[r][c] => q = r
    BY <1>6 DEF MapInv, PinsApart
  <2>4. \A q, r \in 1 .. cur + 1 : \A c \in Colours :
            led'[q][c] # None /\ led'[q][c] = led'[r][c] => q = r
    BY <1>6, <1>7, <2>2, <2>3
  <2> QED BY <1>1, <2>1, <2>4 DEF PinsApart
<1> QED BY <1>1, <1>8, <1>9, <1>10 DEF MapInv

LEMMA MapInvStep == LedInv /\ MapInv /\ [LedNext]_ledVars => MapInv'
<1> SUFFICES ASSUME LedInv, MapInv, [LedNext]_ledVars PROVE MapInv'
  OBVIOUS
<1>1. CASE LedInitEntry
  <2>1. ~Initialised /\ idx' = idx + 1 /\ map' = map
        /\ IF \E j \in 1 .. idx - 1 : Shares(map[idx], map[j])
           THEN InitShared(map[idx]) ELSE InitFirst(map[idx])
    BY <1>1 DEF LedInitEntry
  <2> QED BY <2>1, InitSharedMap, InitFirstMap
<1>2. CASE LedInitNoMem
  <2>1. idx = 1 /\ idx' = Len(map) + 1 /\ UNCHANGED <<map, cur, virt, led>>
    BY <1>2 DEF LedInitNoMem
  <2>2. cur = 0 /\ Len(map) \in Nat
    BY <2>1, TypeParts DEF LedInv, LedTypes
  <2> QED BY <2>1, <2>2 DEF MapInv, Reached, FromTable, PinsApart, Initialised
<1>3. CASE ~LedInitEntry /\ ~LedInitNoMem
  <2>1. PinsKept
    BY <1>3, LaterKeepsPins
  <2>2. /\ UNCHANGED <<map, idx, cur, virt>>
        /\ \A i \in 1 .. cur : /\ led'[i].norm = led[i].norm /\ led'[i].fail = led[i].fail
                               /\ \A c \in Colours : led'[i][c] = led[i][c]
    BY <2>1 DEF PinsKept, initVars
  <2>3. \A i \in 1 .. idx - 1 :
            cur > 0 => virt[map[i].name] # 0 /\ virt[map[i].name] \in 1 .. cur
    <3>1. LedTypes
      BY TypeParts DEF LedInv
    <3>2. \A i \in 1 .. idx - 1 : map[i].name \in Names
      <4>1. map \in Seq(MapPair) /\ idx - 1 <= Len(map) /\ idx \in Nat
        BY <3>1 DEF LedTypes
      <4>2. \A i \in 1 .. idx - 1 : map[i] \in MapPair
        BY <4>1
      <4> QED BY <4>2 DEF MapPair
    <3> QED BY <3>1, <3>2 DEF MapInv, Reached, LedTypes
  <2>4. Reached'
    BY <2>2, <2>3 DEF MapInv, Reached
  <2>5. FromTable' /\ PinsApart'
    BY <2>2 DEF MapInv, FromTable, PinsApart
  <2> QED BY <2>2, <2>4, <2>5 DEF MapInv, Initialised
<1> QED BY <1>1, <1>2, <1>3

(* Wherever boardLedInit is in the mapping, the entries it looked at have their     *)
(* pins, and no two board LEDs or colours have a pin in common.                   *)
THEOREM MapInvariant == LedSpec => []MapInv
<1>1. LedInit => MapInv
  BY DEF LedInit, MapInv, Reached, FromTable, PinsApart
<1> QED BY <1>1, MapInvStep, LedInvariant, PTL DEF LedSpec

(* After boardLedInit every name of the mapping controls a board LED that has the  *)
(* pins the mapping gives that name, for every table of boards.                   *)
THEOREM NamesAlwaysReachPins == LedSpec => []NamesReachTheirPins
<1>1. LedInv /\ MapInv => NamesReachTheirPins
  <2> SUFFICES ASSUME LedInv, MapInv, Initialised, cur > 0 PROVE NamesReachTheirPins
    BY DEF NamesReachTheirPins
  <2>1. idx - 1 = Len(map)
    BY TypeParts DEF LedInv, LedTypes, Initialised
  <2> QED BY <2>1 DEF MapInv, Reached, NamesReachTheirPins
<1> QED BY <1>1, LedInvariant, MapInvariant, PTL

------------------------------------------------------------------------------------
(* Requests: the inductive invariant of the requests in progress. *)

(* A request works on the LED of its name and, when it blinks, on a blink; its     *)
(* outputs to pins are to pins the LED has, or the single output of blinking once.*)
ReqInv ==
    /\ call.pc = "idle" => call = Idle
    /\ call.pc # "idle" => call.led = virt[call.name]
    /\ call.full => call.pc \in {"output", "write", "state"}
    /\ call.pc = "test" => call.req = "BlinkOnce"
    /\ call.pc \in {"count", "blink", "start"} => call.req \notin Steady
    /\ call.pc \in {"output", "write", "state"} =>
           \A k \in 1 .. Len(call.todo) : ~call.todo[k].hw =>
               /\ call.todo[k].state = "BlinkOnce" =>
                      /\ Len(call.todo) = 1 /\ call.todo[k].c = "norm"
                      /\ ~call.full /\ call.req = "BlinkOnce"
               /\ call.todo[k].state # "BlinkOnce" =>
                      led[call.led][call.todo[k].c] # None

(* savedLedState is what an LED that does not blink once shows. *)
SavedInv ==
    \A i \in 1 .. cur : led[i].state # "BlinkOnce" => led[i].saved = led[i].state

LEMMA TailFacts ==
    ASSUME NEW s \in Seq(Outputs), s # <<>>
    PROVE  /\ Len(s) \in Nat /\ Len(s) >= 1 /\ Head(s) = s[1]
           /\ Tail(s) \in Seq(Outputs) /\ Len(Tail(s)) = Len(s) - 1
           /\ \A i \in 1 .. Len(s) - 1 : Tail(s)[i] = s[i + 1] /\ i + 1 \in 1 .. Len(s)
OBVIOUS

(* The end of an output: the next one begins, or the request ends. *)
LEMMA OutputDoneCases ==
    ASSUME LedInv, call.pc \in {"output", "state"}, OutputDone
    PROVE  /\ call.todo \in Seq(Outputs) /\ call.todo # <<>> /\ Len(call.todo) \in Nat
           /\ call \in CallRec(cur) /\ cur \in Nat
           /\ \/ /\ Len(call.todo) > 1 /\ settled' = settled
                 /\ call' \in CallRec(cur) /\ call'.pc = "output" /\ call'.todo = Tail(call.todo)
                 /\ call'.name = call.name /\ call'.led = call.led /\ call'.req = call.req
                 /\ call'.full = call.full /\ call'.hit = call.hit
              \/ /\ Len(call.todo) = 1 /\ call' = Idle
                 /\ settled' = IF call.full /\ ~call.hit THEN settled \cup {call.led}
                                                         ELSE settled
<1>1. /\ call.todo \in Seq(Outputs) /\ call.todo # <<>> /\ call \in CallRec(cur)
      /\ cur \in Nat
  BY InProgress DEF CallConsistent
<1>2. Len(call.todo) \in Nat /\ Len(call.todo) >= 1 /\ Tail(call.todo) \in Seq(Outputs)
  BY <1>1, TailFacts
<1>3. CASE Len(call.todo) > 1
  <2>1. call' = [call EXCEPT !.pc = "output", !.todo = Tail(call.todo)] /\ settled' = settled
    BY <1>3 DEF OutputDone
  <2> QED BY <1>1, <1>2, <1>3, <2>1 DEF CallRec
<1>4. CASE ~(Len(call.todo) > 1)
  <2> DEFINE len == Len(call.todo)
  <2>0. len \in Nat /\ len >= 1 /\ ~(len > 1)
    BY <1>2, <1>4
  <2> HIDE DEF len
  <2>3. len = 1
    BY <2>0
  <2>1. Len(call.todo) = 1
    BY <2>3 DEF len
  <2>2. call' = Idle /\ settled' = IF call.full /\ ~call.hit THEN settled \cup {call.led}
                                                             ELSE settled
    BY <1>4, Zenon DEF OutputDone
  <2> QED BY <1>1, <1>2, <2>1, <2>2, Zenon
<1> QED BY <1>1, <1>2, <1>3, <1>4

LEMMA IdleReq ==
    /\ call = Idle => ReqInv
    /\ call' = Idle => ReqInv'
BY DEF ReqInv, Idle

LEMMA OutputDoneReq ==
    ASSUME LedInv, ReqInv, PinsKept, call.pc \in {"output", "state"}, OutputDone
    PROVE  ReqInv'
<1> DEFINE s == call.todo
<1>1. CASE call' = Idle
  BY <1>1, IdleReq
<1>2. CASE /\ Len(s) > 1 /\ settled' = settled
           /\ call' \in CallRec(cur) /\ call'.pc = "output" /\ call'.todo = Tail(s)
           /\ call'.name = call.name /\ call'.led = call.led /\ call'.req = call.req
           /\ call'.full = call.full
  <2>1. /\ Len(s) \in Nat /\ Len(Tail(s)) = Len(s) - 1
        /\ \A i \in 1 .. Len(s) - 1 : Tail(s)[i] = s[i + 1] /\ i + 1 \in 1 .. Len(s)
    BY OutputDoneCases, TailFacts
  <2>2. \A k \in 1 .. Len(Tail(s)) : ~Tail(s)[k].hw =>
            Tail(s)[k].state # "BlinkOnce" /\ led[call.led][Tail(s)[k].c] # None
    BY <1>2, <2>1 DEF ReqInv
  <2>3. \A k \in 1 .. Len(Tail(s)) : ~Tail(s)[k].hw =>
            /\ Tail(s)[k].c \in Colours /\ call.led \in 1 .. cur
    <3>1. Tail(s) \in Seq(Outputs) /\ \A k \in 1 .. Len(Tail(s)) : Tail(s)[k] \in Outputs
      BY OutputDoneCases, TailFacts
    <3>2. CallConsistent
      BY DEF LedInv
    <3>3. \A k \in 1 .. Len(Tail(s)) : ~Tail(s)[k].hw => call.led \in 1 .. cur
      BY <2>1, <3>2 DEF CallConsistent, Leds
    <3> QED BY <3>1, <3>3 DEF Outputs
  <2>4. \A i \in 1 .. cur : \A c \in Colours : led'[i][c] = led[i][c]
    BY DEF PinsKept
  <2>5. \A k \in 1 .. Len(Tail(s)) : ~Tail(s)[k].hw =>
            Tail(s)[k].state # "BlinkOnce" /\ led'[call.led][Tail(s)[k].c] # None
    BY <2>2, <2>3, <2>4
  <2>6. virt' = virt /\ call.led = virt[call.name]
    BY DEF PinsKept, initVars, ReqInv
  <2> QED BY <1>2, <2>5, <2>6 DEF ReqInv
<1> QED BY <1>1, <1>2, OutputDoneCases

(* ------------------------------------------------------------------------------ *)
(* The outputs of a request: at most the complementary LED off, then the LED that   *)
(* the request is for.                                                            *)
OutputShape(n, req, hw, outs) ==
    LET c == Colour(req)
    IN  /\ Len(outs) <= 2
        /\ \A k \in 1 .. Len(outs) :
               /\ \/ outs[k].c = Other(c) /\ outs[k].state = "Off" /\ outs[k].lit = FALSE
                  \/ /\ outs[k].c = c /\ outs[k].state = req
                     /\ outs[k].lit = (req # "Off") /\ outs[k].hw = hw
               /\ outs[k].hw => n \in handlers[outs[k].c]
               /\ ~outs[k].hw => virt[n] # 0 /\ led[virt[n]][outs[k].c] # None
        /\ Len(outs) = 2 => outs[1].c = Other(c) /\ outs[1].state = "Off" /\ outs[2].c = c
        /\ \/ n \notin handlers[Other(c)] /\ (virt[n] = 0 \/ led[virt[n]][Other(c)] = None)
           \/ Len(outs) >= 1 /\ outs[1].c = Other(c) /\ outs[1].state = "Off"

(* An output of the shape that a request for c with state gives it. *)
OutputOf(n, c, state, o) ==
    /\ o \in Outputs /\ o.c = c /\ o.state = state /\ o.lit = (state # "Off")
    /\ o.hw => n \in handlers[c]
    /\ ~o.hw => virt[n] # 0 /\ led[virt[n]][c] # None

(* A list of no or one output. *)
LEMMA AtMostOne ==
    ASSUME NEW n \in Names, NEW c \in Colours, NEW state \in States
    PROVE  /\ \/ GpioOut(n, c, state) = <<>> /\ (virt[n] = 0 \/ led[virt[n]][c] = None)
              \/ /\ GpioOut(n, c, state) # <<>>
                 /\ \E o : GpioOut(n, c, state) = <<o>> /\ OutputOf(n, c, state, o) /\ o.hw = FALSE
           /\ \/ HwOut(n, c, state) = <<>> /\ n \notin handlers[c]
              \/ /\ HwOut(n, c, state) # <<>>
                 /\ \E o : HwOut(n, c, state) = <<o>> /\ OutputOf(n, c, state, o) /\ o.hw = TRUE
<1> DEFINE pin == [hw |-> FALSE, c |-> c, lit |-> state # "Off", state |-> state]
           fun == [hw |-> TRUE, c |-> c, lit |-> state # "Off", state |-> state]
<1>1. /\ pin \in Outputs /\ pin.hw = FALSE /\ pin.c = c /\ pin.state = state
      /\ pin.lit = (state # "Off")
      /\ fun \in Outputs /\ fun.hw = TRUE /\ fun.c = c /\ fun.state = state
      /\ fun.lit = (state # "Off")
  BY DEF Outputs
<1>2. /\ GpioOut(n, c, state) = IF virt[n] # 0 /\ led[virt[n]][c] # None THEN <<pin>> ELSE <<>>
      /\ HwOut(n, c, state) = IF n \in handlers[c] THEN <<fun>> ELSE <<>>
  BY DEF GpioOut, HwOut
<1> HIDE DEF pin, fun
<1>3. <<pin>> # <<>> /\ <<fun>> # <<>>
  OBVIOUS
<1>4. /\ virt[n] # 0 /\ led[virt[n]][c] # None => OutputOf(n, c, state, pin) /\ pin.hw = FALSE
      /\ n \in handlers[c] => OutputOf(n, c, state, fun) /\ fun.hw = TRUE
  BY <1>1, Zenon DEF OutputOf
<1> QED BY <1>2, <1>3, <1>4, Zenon

LEMMA PairOfOutputs ==
    ASSUME NEW a \in Outputs, NEW b \in Outputs
    PROVE  /\ <<>> \o <<b>> = <<b>> /\ <<a>> \o <<>> = <<a>>
           /\ Len(<<a>> \o <<b>>) = 2
           /\ (<<a>> \o <<b>>)[1] = a /\ (<<a>> \o <<b>>)[2] = b
           /\ Len(<<a>>) = 1 /\ <<a>>[1] = a /\ <<a>> # <<>>
           /\ Len(<<b>>) = 1 /\ <<b>>[1] = b /\ <<b>> # <<>>
           /\ <<>> \o <<>> = <<>>
<1>1. <<a>> \in Seq(Outputs) /\ <<b>> \in Seq(Outputs) /\ <<>> \in Seq(Outputs)
  OBVIOUS
<1>2. /\ Len(<<a>>) = 1 /\ <<a>>[1] = a /\ Len(<<b>>) = 1 /\ <<b>>[1] = b
      /\ <<a>> # <<>> /\ <<b>> # <<>> /\ Len(<<>>) = 0
  OBVIOUS
<1>3. <<>> \o <<b>> = <<b>> /\ <<a>> \o <<>> = <<a>> /\ <<>> \o <<>> = <<>>
  OBVIOUS
<1>4. /\ Len(<<a>> \o <<b>>) = 2
      /\ (<<a>> \o <<b>>)[1] = a /\ (<<a>> \o <<b>>)[2] = b
  BY <1>1, <1>2
<1> QED BY <1>1, <1>2, <1>3, <1>4

LEMMA OthersDiffer ==
    ASSUME NEW req
    PROVE  /\ Colour(req) \in Colours /\ Other(Colour(req)) \in Colours
           /\ Other(Colour(req)) # Colour(req)
           /\ Other("norm") = "fail" /\ Other("fail") = "norm"
<1>1. \A c \in Colours : Other(c) \in Colours /\ Other(c) # c
  <2>1. \A c \in Colours : \E d \in Colours : d # c
    OBVIOUS
  <2> QED BY <2>1 DEF Other
<1>2. Colour(req) \in Colours
  BY DEF Colour
<1> QED BY <1>1, <1>2

LEMMA ShapeOfBoth ==
    ASSUME NEW n \in Names, NEW req \in States, NEW A, NEW B, NEW hw \in BOOLEAN,
           \/ /\ A = <<>> /\ n \notin handlers[Other(Colour(req))]
              /\ virt[n] = 0 \/ led[virt[n]][Other(Colour(req))] = None
           \/ \E a : A = <<a>> /\ OutputOf(n, Other(Colour(req)), "Off", a),
           \/ B = <<>>
           \/ \E b : B = <<b>> /\ OutputOf(n, Colour(req), req, b) /\ b.hw = hw
    PROVE  OutputShape(n, req, hw, A \o B)
<1> DEFINE c == Colour(req)
           d == Other(c)
           s == A \o B
<1>0. c \in Colours /\ d \in Colours /\ d # c
  BY OthersDiffer
<1> HIDE DEF c, d
<1>1. CASE A = <<>> /\ B = <<>>
  <2>1. Len(s) = 0
    BY <1>1
  <2>2. n \notin handlers[d] /\ (virt[n] = 0 \/ led[virt[n]][d] = None)
    BY <1>1 DEF c, d
  <2> HIDE DEF s
  <2>3. OutputShape(n, req, hw, s)
    BY <2>1, <2>2 DEF OutputShape, c, d
  <2> QED BY <2>3 DEF s
<1>2. CASE A = <<>> /\ B # <<>>
  <2>1. PICK b : B = <<b>> /\ OutputOf(n, c, req, b) /\ b.hw = hw
    BY <1>2 DEF c
  <2>2. Len(s) = 1 /\ s[1] = b
    BY <1>2, <2>1, PairOfOutputs DEF OutputOf
  <2>3. n \notin handlers[d] /\ (virt[n] = 0 \/ led[virt[n]][d] = None)
    BY <1>2 DEF c, d
  <2>4. \A k \in 1 .. Len(s) : s[k] = b
    BY <2>2
  <2> HIDE DEF s
  <2>5. \A k \in 1 .. Len(s) :
           /\ s[k].c = c /\ s[k].state = req /\ s[k].lit = (req # "Off") /\ s[k].hw = hw
           /\ s[k].hw => n \in handlers[s[k].c]
           /\ ~s[k].hw => virt[n] # 0 /\ led[virt[n]][s[k].c] # None
    BY <2>1, <2>4, Zenon DEF OutputOf
  <2>6. Len(s) <= 2 /\ Len(s) # 2
    BY <2>2
  <2>7. OutputShape(n, req, hw, s)
    BY <2>3, <2>5, <2>6, Zenon DEF OutputShape, c, d
  <2> QED BY <2>7 DEF s
<1>3. CASE A # <<>> /\ B = <<>>
  <2>1. PICK a : A = <<a>> /\ OutputOf(n, d, "Off", a)
    BY <1>3 DEF c, d
  <2>2. Len(s) = 1 /\ s[1] = a
    BY <1>3, <2>1, PairOfOutputs DEF OutputOf
  <2>4. \A k \in 1 .. Len(s) : s[k] = a
    BY <2>2
  <2> HIDE DEF s
  <2>5. \A k \in 1 .. Len(s) :
           /\ s[k].c = d /\ s[k].state = "Off" /\ s[k].lit = FALSE
           /\ s[k].hw => n \in handlers[s[k].c]
           /\ ~s[k].hw => virt[n] # 0 /\ led[virt[n]][s[k].c] # None
    BY <2>1, <2>4, Zenon DEF OutputOf
  <2>6. Len(s) <= 2 /\ Len(s) # 2 /\ Len(s) >= 1 /\ 1 \in 1 .. Len(s)
    BY <2>2
  <2>7. OutputShape(n, req, hw, s)
    BY <2>5, <2>6, Zenon DEF OutputShape, c, d
  <2> QED BY <2>7 DEF s
<1>4. CASE A # <<>> /\ B # <<>>
  <2>1. PICK a : A = <<a>> /\ OutputOf(n, d, "Off", a)
    BY <1>4 DEF c, d
  <2>2. PICK b : B = <<b>> /\ OutputOf(n, c, req, b) /\ b.hw = hw
    BY <1>4 DEF c
  <2>3. Len(s) = 2 /\ s[1] = a /\ s[2] = b
    BY <2>1, <2>2, PairOfOutputs DEF OutputOf
  <2>4. \A k \in 1 .. Len(s) : s[k] = a \/ s[k] = b
    BY <2>3
  <2> HIDE DEF s
  <2>5. \A k \in 1 .. Len(s) :
           /\ \/ s[k].c = d /\ s[k].state = "Off" /\ s[k].lit = FALSE
              \/ s[k].c = c /\ s[k].state = req /\ s[k].lit = (req # "Off") /\ s[k].hw = hw
           /\ s[k].hw => n \in handlers[s[k].c]
           /\ ~s[k].hw => virt[n] # 0 /\ led[virt[n]][s[k].c] # None
    BY <2>1, <2>2, <2>4, Zenon DEF OutputOf
  <2>6. Len(s) <= 2 /\ Len(s) >= 1 /\ 1 \in 1 .. Len(s)
    BY <2>3
  <2>8. s[1].c = d /\ s[1].state = "Off" /\ s[2].c = c
    BY <2>1, <2>2, <2>3, Zenon DEF OutputOf
  <2>7. OutputShape(n, req, hw, s)
    BY <2>5, <2>6, <2>8, Zenon DEF OutputShape, c, d
  <2> QED BY <2>7 DEF s
<1> QED BY <1>1, <1>2, <1>3, <1>4

LEMMA OutputsShape ==
    ASSUME NEW n \in Names, NEW req \in States
    PROVE  /\ OutputShape(n, req, TRUE, HwOutputs(n, req))
           /\ OutputShape(n, req, FALSE, PinOutputs(n, req))
<1> DEFINE c == Colour(req)
           d == Other(c)
           g == GpioOut(n, d, "Off")
           h == HwOut(n, d, "Off")
           none(A) == /\ A = <<>> /\ n \notin handlers[d]
                      /\ virt[n] = 0 \/ led[virt[n]][d] = None
<1>0. c \in Colours /\ d \in Colours /\ "Off" \in States
  BY OthersDiffer DEF States, Steady
<1> HIDE DEF c, d
<1>1. /\ \/ g = <<>> /\ (virt[n] = 0 \/ led[virt[n]][d] = None)
         \/ g # <<>> /\ \E a : g = <<a>> /\ OutputOf(n, d, "Off", a)
      /\ \/ h = <<>> /\ n \notin handlers[d]
         \/ h # <<>> /\ \E a : h = <<a>> /\ OutputOf(n, d, "Off", a)
  BY <1>0, AtMostOne, Zenon
<1>2. /\ \/ HwOut(n, c, req) = <<>>
         \/ \E b : HwOut(n, c, req) = <<b>> /\ OutputOf(n, c, req, b) /\ b.hw = TRUE
      /\ \/ GpioOut(n, c, req) = <<>>
         \/ \E b : GpioOut(n, c, req) = <<b>> /\ OutputOf(n, c, req, b) /\ b.hw = FALSE
  BY <1>0, AtMostOne, Zenon
<1> HIDE DEF g, h
<1>3. /\ none(FirstOf(h, g)) \/ \E a : FirstOf(h, g) = <<a>> /\ OutputOf(n, d, "Off", a)
      /\ none(FirstOf(g, h)) \/ \E a : FirstOf(g, h) = <<a>> /\ OutputOf(n, d, "Off", a)
  BY <1>1, Zenon DEF FirstOf
<1>4. /\ HwOutputs(n, req) = FirstOf(h, g) \o HwOut(n, c, req)
      /\ PinOutputs(n, req) = FirstOf(g, h) \o GpioOut(n, c, req)
  BY DEF HwOutputs, PinOutputs, c, d, g, h
<1>5. OutputShape(n, req, TRUE, FirstOf(h, g) \o HwOut(n, c, req))
  BY <1>2, <1>3, ShapeOfBoth, Zenon DEF c, d
<1>6. OutputShape(n, req, FALSE, FirstOf(g, h) \o GpioOut(n, c, req))
  BY <1>2, <1>3, ShapeOfBoth, Zenon DEF c, d
<1> QED BY <1>4, <1>5, <1>6

(* A request begins with outputs. *)
BeginsOutputs(n, req, outs) ==
    /\ call' \in CallRec(cur) /\ call'.pc = "output" /\ call'.name = n
    /\ call'.led = virt[n] /\ call'.req = req /\ call'.todo = outs /\ call'.hit = FALSE
    /\ outs \in Seq(Outputs) /\ outs # <<>>
    /\ \E hw \in BOOLEAN : OutputShape(n, req, hw, outs)
    /\ \A k \in 1 .. Len(outs) : ~outs[k].hw => outs[k].state \in Steady
    /\ \/ settled' = settled \ {virt[n]}
       \/ settled' = settled /\ \A k \in 1 .. Len(outs) : outs[k].hw
    /\ call'.full => /\ \E k \in 1 .. Len(outs) : ~outs[k].hw
                     /\ \A c \in Colours : led[virt[n]][c] # None =>
                            \E k \in 1 .. Len(outs) : ~outs[k].hw /\ outs[k].c = c

(* A request begins with a blink. *)
BeginsBlink(n) ==
    /\ call' \in CallRec(cur) /\ call'.name = n /\ call'.led = virt[n] /\ virt[n] # 0
    /\ call'.todo = <<>> /\ call'.full = FALSE /\ call'.hit = FALSE /\ settled' = settled
    /\ \/ call'.pc = "test" /\ call'.req = "BlinkOnce"
       \/ call'.pc = "count" /\ call'.req \in Continues

LEMMA BeginOutputsCases ==
    ASSUME LedInv, NEW n \in Names, NEW req \in States, NEW outs \in Seq(Outputs),
           BeginOutputs(n, req, outs), NEW hw \in BOOLEAN, OutputShape(n, req, hw, outs),
           hw \/ req \in Steady
    PROVE  \/ call' = Idle /\ settled' = settled
           \/ BeginsOutputs(n, req, outs)
<1> DEFINE touches == \E i \in 1 .. Len(outs) : ~outs[i].hw
           full == touches /\ Untouched(n, outs) = {}
<1>1. /\ cur \in Nat /\ virt[n] \in 0 .. cur
  BY TypeParts DEF LedInv, LedTypes
<1>2. settled' = IF touches THEN settled \ {virt[n]} ELSE settled
  BY DEF BeginOutputs
<1>3. CASE outs = <<>>
  <2>1. call' = Idle /\ ~touches
    BY <1>3 DEF BeginOutputs
  <2> QED BY <1>2, <2>1
<1>4. CASE outs # <<>>
  <2>1. call' = [Idle EXCEPT !.pc = "output", !.name = n, !.led = virt[n],
                             !.req = req, !.todo = outs, !.full = full]
    BY <1>4 DEF BeginOutputs
  <2>2. full \in BOOLEAN
    OBVIOUS
  <2>3. full => /\ \E k \in 1 .. Len(outs) : ~outs[k].hw
                /\ \A c \in Colours : led[virt[n]][c] # None =>
                       \E k \in 1 .. Len(outs) : ~outs[k].hw /\ outs[k].c = c
    BY DEF Untouched
  <2>4. \/ settled' = settled \ {virt[n]}
        \/ settled' = settled /\ \A k \in 1 .. Len(outs) : outs[k].hw
    BY <1>2
  <2> HIDE DEF full, touches
  <2>5. Idle \in CallRec(cur) /\ Idle.hit = FALSE
    BY <1>1, IdleFacts DEF Idle
  <2>6. /\ call' \in CallRec(cur) /\ call'.pc = "output" /\ call'.name = n
        /\ call'.led = virt[n] /\ call'.req = req /\ call'.todo = outs
        /\ call'.full = full /\ call'.hit = FALSE
    BY <1>1, <2>1, <2>2, <2>5 DEF CallRec
  <2>7. \A k \in 1 .. Len(outs) : ~outs[k].hw => outs[k].state \in Steady
    <3> TAKE k \in 1 .. Len(outs)
    <3>1. "Off" \in Steady
      BY DEF Steady
    <3>2. \/ outs[k].state = "Off"
          \/ outs[k].state = req /\ outs[k].hw = hw
      BY DEF OutputShape
    <3> QED BY <3>1, <3>2
  <2> QED BY <1>4, <2>3, <2>4, <2>6, <2>7, Zenon DEF BeginsOutputs
<1> QED BY <1>3, <1>4

LEMMA CtrlBegins ==
    ASSUME LedInv, NEW n \in Names, NEW req \in States, BoardLedCtrl(n, req)
    PROVE  \/ call' = call /\ settled' = settled
           \/ call' = Idle /\ settled' = settled
           \/ \E r \in States : \E outs \in Seq(Outputs) : BeginsOutputs(n, r, outs)
           \/ BeginsBlink(n)
<1>1. CASE UNCHANGED <<call, settled>>
  BY <1>1
<1>2. CASE ByHw(n, req) /\ BeginOutputs(n, req, HwOutputs(n, req))
  <2>1. HwOutputs(n, req) \in Seq(Outputs)
    BY OutputsType
  <2>2. OutputShape(n, req, TRUE, HwOutputs(n, req))
    BY OutputsShape
  <2> QED BY <1>2, <2>1, <2>2, BeginOutputsCases
<1>3. CASE virt[n] # 0 /\ ~ByHw(n, req) /\ ~UNCHANGED <<call, settled>>
  <2> DEFINE state == Effective(n, req)
  <2>1. state \in States
    BY DEF Effective, States, Continues
  <2>2. CASE state \in Steady /\ BeginOutputs(n, state, PinOutputs(n, state))
    <3>1. PinOutputs(n, state) \in Seq(Outputs)
      BY <2>1, <2>2, OutputsType
    <3>2. OutputShape(n, state, FALSE, PinOutputs(n, state))
      BY <2>1, OutputsShape
    <3> HIDE DEF state
    <3> QED BY <2>1, <2>2, <3>1, <3>2, BeginOutputsCases
  <2>3. CASE /\ state \notin Steady /\ UNCHANGED settled
             /\ call' = [Idle EXCEPT !.name = n, !.led = virt[n], !.req = state,
                            !.pc = IF state = "BlinkOnce" THEN "test" ELSE "count"]
    <3> DEFINE pc == IF state = "BlinkOnce" THEN "test" ELSE "count"
    <3>1. /\ pc \in {"test", "count"}
          /\ \/ pc = "test" /\ state = "BlinkOnce"
             \/ pc = "count" /\ state \in Continues
          /\ call' = [Idle EXCEPT !.name = n, !.led = virt[n], !.req = state, !.pc = pc]
      BY <2>1, <2>3 DEF States
    <3>2. virt[n] \in 0 .. cur /\ cur \in Nat
      BY TypeParts DEF LedInv, LedTypes
    <3>3. Idle \in CallRec(cur) /\ Idle.todo = <<>> /\ Idle.full = FALSE /\ Idle.hit = FALSE
      BY <3>2, IdleFacts DEF Idle
    <3> HIDE DEF state, pc
    <3>4. /\ call' \in CallRec(cur) /\ call'.pc = pc /\ call'.name = n
          /\ call'.led = virt[n] /\ call'.todo = <<>> /\ call'.full = FALSE
          /\ call'.req = state /\ call'.hit = FALSE
      BY <2>1, <3>1, <3>2, <3>3 DEF CallRec
    <3> QED BY <1>3, <2>3, <3>1, <3>4 DEF BeginsBlink
  <2> QED BY <1>3, <2>2, <2>3 DEF BoardLedCtrl
<1> QED BY <1>1, <1>2, <1>3 DEF BoardLedCtrl

(* ------------------------------------------------------------------------------ *)
LEMMA CtrlReq ==
    ASSUME LedInv, ReqInv, NEW n \in Names, NEW req \in States, BoardLedCtrl(n, req)
    PROVE  ReqInv'
<1>0. UNCHANGED <<map, idx, cur, virt, led>> /\ call.pc = "idle"
  BY DEF BoardLedCtrl, initVars
<1>1. CASE call' = call
  BY <1>0, <1>1 DEF ReqInv
<1>2. CASE call' = Idle
  BY <1>2, IdleReq
<1>3. ASSUME NEW r \in States, NEW outs \in Seq(Outputs), BeginsOutputs(n, r, outs)
      PROVE  ReqInv'
  <2>1. \A k \in 1 .. Len(outs) :
            ~outs[k].hw => led[virt[n]][outs[k].c] # None /\ outs[k].state # "BlinkOnce"
    BY <1>3 DEF BeginsOutputs, OutputShape, Steady
  <2> QED BY <1>0, <1>3, <2>1 DEF ReqInv, BeginsOutputs
<1>4. CASE BeginsBlink(n)
  BY <1>0, <1>4 DEF ReqInv, BeginsBlink, Steady, Continues
<1> QED BY <1>1, <1>2, <1>3, <1>4, CtrlBegins

(* What a step of a request leaves alone in the request. *)
SameCall ==
    /\ call'.name = call.name /\ call'.led = call.led /\ call'.req = call.req
    /\ call'.todo = call.todo /\ call'.full = call.full

LEMMA StepCalls ==
    ASSUME LedInv
    PROVE  /\ ReadGpio => SameCall /\ call'.pc = "write" /\ call'.snap = gpio
                          /\ call'.hit = call.hit
           /\ WriteGpio => SameCall /\ call'.hit = call.hit
                           /\ call'.pc = IF Head(call.todo).state = "BlinkOnce"
                                         THEN "count" ELSE "state"
           /\ SetCountDown => SameCall /\ call'.pc = "blink" /\ call'.hit = call.hit
           /\ SetBlink => SameCall /\ call'.pc = "start" /\ call'.hit = call.hit
           /\ LedTimerExpire => /\ SameCall /\ call'.pc = call.pc /\ call'.snap = call.snap
                                /\ call'.hit = (call.pc # "idle")
<1>1. call \in CallRec(cur)
  BY TypeParts DEF LedInv, LedTypes
<1>2. ASSUME ReadGpio PROVE SameCall /\ call'.pc = "write" /\ call'.snap = gpio
                            /\ call'.hit = call.hit
  BY <1>1, <1>2 DEF ReadGpio, CallRec, SameCall
<1>3. ASSUME WriteGpio
      PROVE  SameCall /\ call'.hit = call.hit
             /\ call'.pc = IF Head(call.todo).state = "BlinkOnce" THEN "count" ELSE "state"
  BY <1>1, <1>3 DEF WriteGpio, CallRec, SameCall
<1>4. ASSUME SetCountDown PROVE SameCall /\ call'.pc = "blink" /\ call'.hit = call.hit
  BY <1>1, <1>4 DEF SetCountDown, CallRec, SameCall
<1>5. ASSUME SetBlink PROVE SameCall /\ call'.pc = "start" /\ call'.hit = call.hit
  BY <1>1, <1>5 DEF SetBlink, CallRec, SameCall
<1>6. ASSUME LedTimerExpire
      PROVE  /\ SameCall /\ call'.pc = call.pc /\ call'.snap = call.snap
             /\ call'.hit = (call.pc # "idle")
  <2> DEFINE hit == call.pc # "idle"
  <2>1. call' = [call EXCEPT !.hit = hit]
    BY <1>6 DEF LedTimerExpire
  <2> HIDE DEF hit
  <2>2. SameCall /\ call'.pc = call.pc /\ call'.snap = call.snap /\ call'.hit = hit
    BY <1>1, <2>1 DEF CallRec, SameCall
  <2> QED BY <2>2 DEF hit
<1> QED BY <1>2, <1>3, <1>4, <1>5, <1>6

(* A request that is told to blink once, and may. *)
LEMMA TestCases ==
    ASSUME LedInv, TestBlinkOnce
    PROVE  \/ call' = Idle
           \/ /\ call' \in CallRec(cur) /\ call'.pc = "output" /\ call'.name = call.name
              /\ call'.led = call.led /\ call'.req = call.req /\ call'.full = call.full
              /\ call'.hit = call.hit
              /\ Len(call'.todo) = 1 /\ call'.todo[1].hw = FALSE /\ call'.todo[1].c = "norm"
              /\ call'.todo[1].state = "BlinkOnce"
              /\ call'.todo[1].lit = (led[call.led].norm \notin gpio)
              /\ led[call.led].saved \notin Continues /\ led[call.led].cd = 0
<1> DEFINE o == [hw |-> FALSE, c |-> "norm", lit |-> led[call.led].norm \notin gpio,
                 state |-> "BlinkOnce"]
<1>1. call \in CallRec(cur)
  BY TypeParts DEF LedInv, LedTypes
<1>2. \/ call' = Idle
      \/ /\ call' = [call EXCEPT !.pc = "output", !.todo = <<o>>]
         /\ led[call.led].saved \notin Continues /\ led[call.led].cd = 0
  BY DEF TestBlinkOnce
<1>3. /\ o \in Outputs /\ o.hw = FALSE /\ o.c = "norm" /\ o.state = "BlinkOnce"
      /\ o.lit = (led[call.led].norm \notin gpio)
  BY DEF Outputs, States
<1> HIDE DEF o
<1>4. <<o>> \in Seq(Outputs) /\ Len(<<o>>) = 1 /\ <<o>>[1] = o
  BY <1>3, OneElement
<1>5. ASSUME call' = [call EXCEPT !.pc = "output", !.todo = <<o>>]
      PROVE  /\ call' \in CallRec(cur) /\ call'.pc = "output" /\ call'.name = call.name
             /\ call'.led = call.led /\ call'.req = call.req /\ call'.full = call.full
             /\ call'.hit = call.hit /\ call'.todo = <<o>>
  BY <1>1, <1>4, <1>5 DEF CallRec
<1> QED BY <1>2, <1>3, <1>4, <1>5

LEMMA ReqInvStep == LedInv /\ ReqInv /\ [LedNext]_ledVars => ReqInv'
<1> SUFFICES ASSUME LedInv, ReqInv, [LedNext]_ledVars PROVE ReqInv'
  OBVIOUS
<1>1. CASE LedInitEntry \/ LedInitNoMem
  <2>1. call = Idle /\ call' = call
    BY <1>1, TypeParts DEF LedInitEntry, LedInitNoMem, LedInv, CallConsistent
  <2> QED BY <2>1, IdleReq
<1>2. CASE ~LedInitEntry /\ ~LedInitNoMem
  <2>0. PinsKept
    BY <1>2, LaterKeepsPins
  <2>1. virt' = virt /\ cur' = cur
        /\ \A i \in 1 .. cur : \A c \in Colours : led'[i][c] = led[i][c]
    BY <2>0 DEF PinsKept, initVars
  (* The pins a request is about to change are still there. *)
  <2>2. \A k \in 1 .. Len(call.todo) : ~call.todo[k].hw =>
            led'[call.led][call.todo[k].c] = led[call.led][call.todo[k].c]
    <3>1. CallConsistent /\ call.todo \in Seq(Outputs)
      BY TypeParts DEF LedInv, LedTypes, CallRec
    <3>2. \A k \in 1 .. Len(call.todo) : call.todo[k].c \in Colours
      <4>1. \A k \in 1 .. Len(call.todo) : call.todo[k] \in Outputs
        BY <3>1
      <4> QED BY <4>1 DEF Outputs
    <3> QED BY <2>1, <3>1, <3>2 DEF CallConsistent, Leds
  <2>3. ASSUME call' = call PROVE ReqInv'
    BY <2>1, <2>2, <2>3 DEF ReqInv
  <2>4. CASE \E n \in Names, c \in Colours : RegisterHwHandler(n, c)
    BY <2>3, <2>4 DEF RegisterHwHandler
  <2>5. CASE \E n \in Names, req \in States : BoardLedCtrl(n, req)
    BY <2>5, CtrlReq
  <2>6. CASE CallHwHandler \/ SetState
    BY <2>0, <2>6, OutputDoneReq DEF CallHwHandler, SetState
  <2>7. CASE ReadGpio
    <3>1. SameCall /\ call'.pc = "write" /\ call.pc = "output"
      BY <2>7, StepCalls DEF ReadGpio
    <3> QED BY <2>1, <2>2, <3>1 DEF ReqInv, SameCall
  <2>8. CASE WriteGpio
    <3>1. /\ SameCall /\ call.pc = "write"
          /\ call'.pc = IF Head(call.todo).state = "BlinkOnce" THEN "count" ELSE "state"
      BY <2>8, StepCalls DEF WriteGpio
    <3>2. Head(call.todo) = call.todo[1] /\ 1 \in 1 .. Len(call.todo) /\ ~call.todo[1].hw
      <4>1. call.todo \in Seq(Outputs) /\ call.todo # <<>> /\ ~Head(call.todo).hw
        BY <3>1, InProgress DEF CallConsistent
      <4>2. Head(call.todo) = call.todo[1] /\ Len(call.todo) >= 1 /\ Len(call.todo) \in Nat
        BY <4>1, TailFacts
      <4> QED BY <4>1, <4>2
    <3>3. call'.pc = "count" => call.req = "BlinkOnce" /\ ~call.full
      BY <3>1, <3>2 DEF ReqInv
    <3>4. \A k \in 1 .. Len(call.todo) : ~call.todo[k].hw =>
               /\ call.todo[k].state = "BlinkOnce" =>
                      /\ Len(call.todo) = 1 /\ call.todo[k].c = "norm"
                      /\ ~call.full /\ call.req = "BlinkOnce"
               /\ call.todo[k].state # "BlinkOnce" =>
                      led'[call.led][call.todo[k].c] # None
      BY <2>2, <3>1 DEF ReqInv
    <3>5. call'.pc \in {"count", "state"} /\ "BlinkOnce" \notin Steady
          /\ call.led = virt[call.name]
      BY <3>1 DEF ReqInv, Steady
    <3> QED BY <2>1, <3>1, <3>3, <3>4, <3>5 DEF ReqInv, SameCall
  <2>9. CASE TestBlinkOnce
    <3>1. CASE call' = Idle
      BY <3>1, IdleReq
    <3>2. CASE /\ call'.pc = "output" /\ call'.name = call.name
               /\ call'.led = call.led /\ call'.req = call.req /\ call'.full = call.full
               /\ Len(call'.todo) = 1 /\ call'.todo[1].hw = FALSE
               /\ call'.todo[1].c = "norm" /\ call'.todo[1].state = "BlinkOnce"
      <4>1. call.pc = "test" /\ call.req = "BlinkOnce" /\ ~call.full /\ call.led = virt[call.name]
        BY <2>9 DEF TestBlinkOnce, ReqInv
      <4>2. \A k \in 1 .. Len(call'.todo) : k = 1
        BY <3>2
      <4> QED BY <2>1, <3>2, <4>1, <4>2 DEF ReqInv
    <3> QED BY <2>9, <3>1, <3>2, TestCases
  <2>10. CASE SetCountDown
    <3>1. SameCall /\ call'.pc = "blink" /\ call.pc = "count"
      BY <2>10, StepCalls DEF SetCountDown
    <3> QED BY <2>1, <3>1 DEF ReqInv, SameCall
  <2>11. CASE SetBlink
    <3>1. SameCall /\ call'.pc = "start" /\ call.pc = "blink"
      BY <2>11, StepCalls DEF SetBlink
    <3> QED BY <2>1, <3>1 DEF ReqInv, SameCall
  <2>12. CASE StartTimer
    BY <2>12, IdleReq DEF StartTimer
  <2>13. CASE LedTimerExpire
    <3>1. SameCall /\ call'.pc = call.pc
      BY <2>13, StepCalls
    <3>2. call.pc = "idle" => call' = Idle
      <4> SUFFICES ASSUME call.pc = "idle" PROVE call' = Idle
        OBVIOUS
      <4>1. call' = [Idle EXCEPT !.hit = FALSE]
        BY <2>13 DEF LedTimerExpire, ReqInv
      <4> QED BY <4>1 DEF Idle
    <3> QED BY <2>1, <2>2, <3>1, <3>2 DEF ReqInv, SameCall
  <2>14. CASE BlinkOnceTimerExpire
    BY <2>3, <2>14 DEF BlinkOnceTimerExpire
  <2>15. CASE UNCHANGED ledVars
    BY <2>3, <2>15 DEF ledVars
  <2> QED BY <1>2, <2>4, <2>5, <2>6, <2>7, <2>8, <2>9, <2>10, <2>11, <2>12, <2>13, <2>14,
             <2>15 DEF LedNext, CtrlStep
<1> QED BY <1>1, <1>2

------------------------------------------------------------------------------------
(* What an LED shows. *)

LEMMA ExpiredState ==
    ASSUME NEW l \in LedRec
    PROVE  /\ Expired(l).state = IF l.state = "BlinkOnce" THEN l.saved ELSE l.state
           /\ Expired(l).saved = l.saved
           /\ Expired(l).state # "BlinkOnce"
<1>1. l.state \in Steady \/ l.state = "BlinkOnce" \/ l.state \in Continues
  BY DEF LedRec, States
<1>2. l.saved # "BlinkOnce"
  BY DEF LedRec
<1> QED BY <1>1, <1>2 DEF Expired, LedRec, Steady, Continues

(* How a step changes the entries of gLed besides their pins. *)
LEMMA StepLeds ==
    ASSUME LedInv
    PROVE  /\ SetState => \A i \in 1 .. cur :
                  /\ i # call.led => led'[i] = led[i]
                  /\ i = call.led => /\ led'[i].state = Head(call.todo).state
                                     /\ led'[i].saved = Head(call.todo).state
                                     /\ led'[i].cd = led[i].cd
           /\ SetCountDown => \A i \in 1 .. cur :
                  /\ i # call.led => led'[i] = led[i]
                  /\ i = call.led => /\ led'[i].state = led[i].state
                                     /\ led'[i].saved = led[i].saved
                                     /\ led'[i].cd = BlinkCount(call.req)
           /\ SetBlink => \A i \in 1 .. cur :
                  /\ i # call.led => led'[i] = led[i]
                  /\ i = call.led => /\ led'[i].state = call.req
                                     /\ led'[i].saved = IF call.req = "BlinkOnce"
                                                        THEN led[i].saved ELSE call.req
                                     /\ led'[i].cd = led[i].cd
           /\ LedTimerExpire => \A i \in 1 .. cur :
                  led[i] \in LedRec /\ led'[i] = Expired(led[i])
<1>1. led \in [1 .. Len(map) -> LedRec] /\ 1 .. cur \subseteq 1 .. Len(map)
  BY TypeParts DEF LedInv, LedTypes
<1>2. ASSUME SetState, NEW i \in 1 .. cur
      PROVE  /\ i # call.led => led'[i] = led[i]
             /\ i = call.led => /\ led'[i].state = Head(call.todo).state
                                /\ led'[i].saved = Head(call.todo).state
                                /\ led'[i].cd = led[i].cd
  <2>1. led' = [led EXCEPT ![call.led] = [@ EXCEPT !.state = Head(call.todo).state,
                                                   !.saved = Head(call.todo).state]]
    BY <1>2 DEF SetState
  <2>2. led[i] \in LedRec
    BY <1>1
  <2> QED BY <1>1, <2>1, <2>2 DEF LedRec
<1>3. ASSUME SetCountDown, NEW i \in 1 .. cur
      PROVE  /\ i # call.led => led'[i] = led[i]
             /\ i = call.led => /\ led'[i].state = led[i].state
                                /\ led'[i].saved = led[i].saved
                                /\ led'[i].cd = BlinkCount(call.req)
  <2>1. led' = [led EXCEPT ![call.led] = [@ EXCEPT !.cd = BlinkCount(call.req)]]
    BY <1>3 DEF SetCountDown
  <2>2. led[i] \in LedRec
    BY <1>1
  <2> QED BY <1>1, <2>1, <2>2 DEF LedRec
<1>4. ASSUME SetBlink, NEW i \in 1 .. cur
      PROVE  /\ i # call.led => led'[i] = led[i]
             /\ i = call.led => /\ led'[i].state = call.req
                                /\ led'[i].saved = IF call.req = "BlinkOnce"
                                                   THEN led[i].saved ELSE call.req
                                /\ led'[i].cd = led[i].cd
  <2> DEFINE l == call.led
             saved == IF call.req = "BlinkOnce" THEN led[l].saved ELSE call.req
  <2>1. led' = [led EXCEPT ![l] = [@ EXCEPT !.state = call.req, !.saved = saved]]
    BY <1>4 DEF SetBlink
  <2>2. led[i] \in LedRec
    BY <1>1
  <2> HIDE DEF saved
  <2>3. /\ i # l => led'[i] = led[i]
        /\ i = l => led'[i].state = call.req /\ led'[i].saved = saved /\ led'[i].cd = led[i].cd
    BY <1>1, <2>1, <2>2 DEF LedRec
  <2> QED BY <2>3 DEF saved
<1>5. ASSUME LedTimerExpire, NEW i \in 1 .. cur
      PROVE  led[i] \in LedRec /\ led'[i] = Expired(led[i])
  <2>1. led' = [j \in DOMAIN led |-> IF j \in Leds THEN Expired(led[j]) ELSE led[j]]
    BY <1>5 DEF LedTimerExpire
  <2> QED BY <1>1, <2>1 DEF Leds
<1> QED BY <1>2, <1>3, <1>4, <1>5

(* The other steps after the initialisation leave gLed alone. *)
LEMMA OthersKeepLeds ==
    ASSUME [LedNext]_ledVars, ~LedInitEntry, ~SetState, ~SetCountDown, ~SetBlink,
           ~LedTimerExpire
    PROVE  UNCHANGED <<led, cur>>
BY DEF LedNext, CtrlStep, LedInitNoMem, RegisterHwHandler, BoardLedCtrl, CallHwHandler,
       ReadGpio, WriteGpio, TestBlinkOnce, StartTimer, BlinkOnceTimerExpire, ledVars, initVars

(* The entries of gLed that the initialisation of an entry of the mapping leaves. *)
LEMMA InitEntryLeds ==
    ASSUME LedInv, LedInitEntry
    PROVE  /\ cur \in Nat
           /\ \/ /\ cur' = cur
                 /\ \A i \in 1 .. cur : led'[i].state = led[i].state
                                        /\ led'[i].saved = led[i].saved
                                        /\ led'[i].cd = led[i].cd
              \/ /\ cur' = cur + 1 /\ led'[cur + 1].state = "Off"
                 /\ led'[cur + 1].saved = "Off" /\ led'[cur + 1].cd = 0
                 /\ \A i \in 1 .. cur : led'[i] = led[i]
<1> DEFINE e == map[idx]
<1>1. /\ led \in [1 .. Len(map) -> LedRec] /\ 1 .. cur \subseteq 1 .. Len(map)
      /\ cur \in Nat /\ cur + 1 \in 1 .. Len(map) /\ e \in MapPair
  BY TypeParts DEF LedInv, LedTypes, LedInitEntry, Initialised
<1> HIDE DEF e
<1>2. CASE InitShared(e) /\ led' # led
  <2>1. PICK p \in 1 .. cur : led' = [led EXCEPT ![p] = Merged(@, e)]
    BY <1>2 DEF InitShared, Leds
  <2>2. cur' = cur
    BY <1>2 DEF InitShared
  <2>3. \A l \in LedRec : /\ Merged(l, e).state = l.state /\ Merged(l, e).saved = l.saved
                          /\ Merged(l, e).cd = l.cd
    BY DEF Merged, LedRec
  <2> QED BY <1>1, <2>1, <2>2, <2>3
<1>3. CASE InitShared(e) /\ led' = led
  BY <1>1, <1>3 DEF InitShared
<1>4. CASE InitFirst(e)
  <2> DEFINE l == [NoLed EXCEPT !.norm = e.norm, !.fail = e.fail]
  <2>1. cur' = cur + 1 /\ led' = [led EXCEPT ![cur + 1] = l]
    BY <1>4 DEF InitFirst
  <2>2. l.state = "Off" /\ l.saved = "Off" /\ l.cd = 0
    BY DEF NoLed
  <2> HIDE DEF l
  <2> QED BY <1>1, <2>1, <2>2
<1> QED BY <1>2, <1>3, <1>4 DEF LedInitEntry, e

LEMMA SavedInvStep == LedInv /\ LedInv' /\ SavedInv /\ [LedNext]_ledVars => SavedInv'
<1> SUFFICES ASSUME LedInv, LedInv', SavedInv, [LedNext]_ledVars PROVE SavedInv'
  OBVIOUS
<1>1. CASE LedInitEntry
  <2>1. cur \in Nat
    BY <1>1, InitEntryLeds
  <2>2. \A i \in 1 .. cur + 1 : i \in 1 .. cur \/ i = cur + 1
    BY <2>1
  <2> QED BY <1>1, <2>1, <2>2, InitEntryLeds DEF SavedInv
<1>2. CASE SetState
  <2>1. cur' = cur
    BY <1>2 DEF SetState, initVars
  <2> QED BY <1>2, <2>1, StepLeds DEF SavedInv
<1>3. CASE SetCountDown
  <2>1. cur' = cur
    BY <1>3 DEF SetCountDown, initVars
  <2> QED BY <1>3, <2>1, StepLeds DEF SavedInv
<1>4. CASE SetBlink
  <2>1. cur' = cur
    BY <1>4 DEF SetBlink, initVars
  <2> QED BY <1>4, <2>1, StepLeds DEF SavedInv
<1>5. CASE LedTimerExpire
  <2>1. cur' = cur
    BY <1>5 DEF LedTimerExpire, initVars
  <2> QED BY <1>5, <2>1, StepLeds, ExpiredState DEF SavedInv
<1>6. CASE UNCHANGED <<led, cur>>
  BY <1>6 DEF SavedInv
<1> QED BY <1>1, <1>2, <1>3, <1>4, <1>5, <1>6, OthersKeepLeds

(* The timer toggles the normal pins of the LEDs it is due for, and no other pin. *)
LEMMA TimerPins ==
    ASSUME LedInv, MapInv, LedTimerExpire, NEW i \in 1 .. cur
    PROVE  /\ led[i].fail # None => (led[i].fail \in gpio' <=> led[i].fail \in gpio)
           /\ led[i].norm # None /\ Toggles(led[i]) =>
                 (led[i].norm \in gpio' <=> led[i].norm \notin gpio)
           /\ led[i].norm # None /\ ~Toggles(led[i]) =>
                 (led[i].norm \in gpio' <=> led[i].norm \in gpio)
<1> DEFINE toggled == {j \in Leds : Toggles(led[j])}
           pins == {led[j].norm : j \in toggled} \cap Pins
<1>1. gpio' = (gpio \ pins) \cup (pins \ gpio)
  BY DEF LedTimerExpire
<1>2. led[i].norm \in Masks /\ led[i].fail \in Masks /\ i \in Leds
  BY TypeParts DEF LedInv, LedTypes, LedRec, Leds
<1>3. ASSUME led[i].fail # None PROVE led[i].fail \notin pins
  <2>1. ASSUME NEW j \in 1 .. cur, led[j].norm \in Pins PROVE led[j].norm # led[i].fail
    BY <2>1 DEF MapInv, PinsApart
  <2> QED BY <2>1 DEF Leds
<1>4. ASSUME led[i].norm # None PROVE led[i].norm \in pins <=> Toggles(led[i])
  <2>1. led[i].norm \in Pins
    BY <1>2, <1>4 DEF Masks
  <2>2. ASSUME NEW j \in 1 .. cur, led[j].norm = led[i].norm PROVE j = i
    BY <1>4, <2>2 DEF MapInv, PinsApart
  <2>3. Toggles(led[i]) => led[i].norm \in pins
    BY <1>2, <2>1
  <2>4. led[i].norm \in pins => Toggles(led[i])
    BY <2>2 DEF Leds
  <2> QED BY <2>3, <2>4
<1> HIDE DEF pins, toggled
<1>5. led[i].fail # None => (led[i].fail \in gpio' <=> led[i].fail \in gpio)
  BY <1>1, <1>3
<1>6. led[i].norm # None /\ Toggles(led[i]) =>
          (led[i].norm \in gpio' <=> led[i].norm \notin gpio)
  BY <1>1, <1>4
<1>7. led[i].norm # None /\ ~Toggles(led[i]) =>
          (led[i].norm \in gpio' <=> led[i].norm \in gpio)
  BY <1>1, <1>4
<1> QED BY <1>5, <1>6, <1>7

(* A write changes one pin of what was read. *)
LEMMA WritePins ==
    ASSUME LedInv, MapInv, WriteGpio, NEW i \in 1 .. cur, NEW c \in Colours,
           led[i][c] # None
    PROVE  /\ i = call.led /\ c = Head(call.todo).c =>
                  (led[i][c] \in gpio' <=> Head(call.todo).lit)
           /\ i # call.led \/ c # Head(call.todo).c =>
                  (led[i][c] \in gpio' <=> led[i][c] \in call.snap)
<1> DEFINE o == Head(call.todo)
           pin == led[call.led][o.c]
<1>1. gpio' = IF o.lit THEN call.snap \cup ({pin} \cap Pins) ELSE call.snap \ {pin}
  BY DEF WriteGpio
<1>2. o \in Outputs /\ o.c \in Colours /\ call.led \in 1 .. cur
  <2>1. call.todo \in Seq(Outputs) /\ call.todo # <<>> /\ ~o.hw /\ CallConsistent
    BY InProgress DEF WriteGpio, CallConsistent
  <2>2. o = call.todo[1] /\ 1 \in 1 .. Len(call.todo) /\ o \in Outputs
    BY <2>1, TailFacts
  <2> QED BY <2>1, <2>2 DEF CallConsistent, Leds, Outputs
<1>3. led[i][c] \in Pins
  BY TypeParts DEF LedInv, LedTypes, LedRec, Masks
<1>4. i # call.led \/ c # o.c => led[i][c] # pin
  BY <1>2 DEF MapInv, PinsApart
<1> QED BY <1>1, <1>3, <1>4

(* What was read is still so, but for the normal pins the timer toggled since. *)
SnapInv ==
    call.pc = "write" =>
        /\ ~call.hit => call.snap = gpio
        /\ \A j \in settled : \A c \in Colours :
               led[j][c] # None => (led[j][c] \in call.snap <=> led[j][c] \in gpio)
        /\ \A j \in 1 .. cur :
               led[j].fail # None => (led[j].fail \in call.snap <=> led[j].fail \in gpio)

LEMMA SnapInvStep == LedInv /\ MapInv /\ SnapInv /\ [LedNext]_ledVars => SnapInv'
<1> SUFFICES ASSUME LedInv, MapInv, SnapInv, [LedNext]_ledVars, call'.pc = "write"
             PROVE  SnapInv'
  BY DEF SnapInv
<1>1. CASE ReadGpio
  <2>1. call'.snap = gpio /\ gpio' = gpio
    BY <1>1, StepCalls DEF ReadGpio
  <2> QED BY <2>1 DEF SnapInv
<1>2. CASE LedTimerExpire
  <2>1. /\ call.pc = "write" /\ call'.snap = call.snap /\ call'.hit = TRUE
        /\ cur' = cur
    BY <1>2, StepCalls DEF LedTimerExpire, initVars
  <2>2. settled' \subseteq settled /\ settled \subseteq 1 .. cur
        /\ \A j \in settled' : ~Toggles(led[j])
    <3>1. settled' = settled \ ({i \in Leds : Toggles(led[i])} \cup {call.led})
      BY <1>2, <2>1 DEF LedTimerExpire
    <3>2. settled \subseteq 1 .. cur
      BY TypeParts DEF LedInv, LedTypes
    <3> QED BY <3>1, <3>2 DEF Leds
  <2>3. \A j \in 1 .. cur : led'[j].norm = led[j].norm /\ led'[j].fail = led[j].fail
    BY <1>2, StepLeds, ExpiredKeepsPins
  <2>4. \A j \in 1 .. cur :
            led[j].fail # None => (led[j].fail \in gpio' <=> led[j].fail \in gpio)
    BY <1>2, TimerPins
  <2>5. \A j \in settled' :
            led[j].norm # None => (led[j].norm \in gpio' <=> led[j].norm \in gpio)
    <3> SUFFICES ASSUME NEW j \in settled', led[j].norm # None
                 PROVE  led[j].norm \in gpio' <=> led[j].norm \in gpio
      OBVIOUS
    <3>1. j \in 1 .. cur
      BY <2>2
    <3> QED BY <1>2, <2>2, <3>1, TimerPins
  <2>6. \A j \in settled' : \A c \in Colours :
            led'[j][c] # None => (led'[j][c] \in call.snap <=> led'[j][c] \in gpio')
    BY <2>1, <2>2, <2>3, <2>4, <2>5 DEF SnapInv
  <2>7. \A j \in 1 .. cur :
            led'[j].fail # None => (led'[j].fail \in call.snap <=> led'[j].fail \in gpio')
    BY <2>1, <2>3, <2>4 DEF SnapInv
  <2> QED BY <2>1, <2>6, <2>7 DEF SnapInv
<1>3. CASE call' = call /\ UNCHANGED <<led, gpio, cur, settled>>
  BY <1>3 DEF SnapInv
<1>4. CASE LedInitEntry \/ LedInitNoMem
  <2>1. call' = Idle
    BY <1>4, TypeParts DEF LedInitEntry, LedInitNoMem, LedInv, CallConsistent
  <2> QED BY <2>1 DEF Idle
<1>5. CASE \E n \in Names, req \in States : BoardLedCtrl(n, req)
  <2>1. PICK n \in Names, req \in States : BoardLedCtrl(n, req)
    BY <1>5
  <2>2. call.pc = "idle"
    BY <2>1 DEF BoardLedCtrl
  <2>3. call'.pc # "write"
    BY <2>1, <2>2, CtrlBegins DEF BeginsOutputs, BeginsBlink, Idle
  <2> QED BY <2>3
<1>6. CASE \E n \in Names, c \in Colours : RegisterHwHandler(n, c)
  BY <1>3, <1>6 DEF RegisterHwHandler, initVars
<1>7. CASE CallHwHandler \/ SetState
  <2>1. call'.pc # "write"
    BY <1>7, OutputDoneCases DEF CallHwHandler, SetState, Idle
  <2> QED BY <2>1
<1>8. CASE WriteGpio \/ SetCountDown \/ SetBlink
  BY <1>8, StepCalls
<1>9. CASE TestBlinkOnce
  BY <1>9, TestCases DEF Idle
<1>10. CASE StartTimer
  BY <1>10 DEF StartTimer, Idle
<1>11. CASE BlinkOnceTimerExpire \/ UNCHANGED ledVars
  BY <1>3, <1>11 DEF BlinkOnceTimerExpire, ledVars, initVars
<1> QED BY <1>1, <1>2, <1>4, <1>5, <1>6, <1>7, <1>8, <1>9, <1>10, <1>11
        DEF LedNext, CtrlStep

(* ------------------------------------------------------------------------------ *)
(* A complete request that no timer interrupts: the colour c is lit in the steady   *)
(* state f.                                                                       *)
LitIn(c, f) == (c = "norm" /\ f = "On") \/ (c = "fail" /\ f = "Fail")

(* An output to the pin of colour c is left. *)
Pending(c) ==
    \E k \in 1 .. Len(call.todo) :
        (call.pc = "state" => k > 1) /\ ~call.todo[k].hw /\ call.todo[k].c = c

(* The request takes its LED to f: its outputs to pins are those of f and the last *)
(* one sets the state; the pins that none is left for are as in f.                *)
LeadsTo(f) ==
    /\ \A k \in 1 .. Len(call.todo) : ~call.todo[k].hw =>
           /\ call.todo[k].lit <=> LitIn(call.todo[k].c, f)
           /\ call.todo[k].state = f
              \/ \E m \in 1 .. Len(call.todo) : m > k /\ ~call.todo[m].hw
    /\ \A c \in Colours : led[call.led][c] # None /\ ~Pending(c) =>
           (led[call.led][c] \in gpio <=> LitIn(c, f))
    /\ led[call.led].state = f \/ \E k \in 1 .. Len(call.todo) : ~call.todo[k].hw

FullInv == call.full /\ ~call.hit => \E f \in Steady : LeadsTo(f)

LEMMA BeginFull ==
    ASSUME LedInv, NEW n \in Names, NEW r \in States, NEW outs \in Seq(Outputs),
           BeginsOutputs(n, r, outs), call'.full, UNCHANGED <<led, gpio>>
    PROVE  \E f \in Steady : LeadsTo(f)'
<1> DEFINE c == Colour(r)
<1>1. PICK hw \in BOOLEAN : OutputShape(n, r, hw, outs)
  BY DEF BeginsOutputs
<1>2. /\ c \in Colours /\ Other(c) \in Colours /\ Other(c) # c
      /\ \A d \in Colours : d = c \/ d = Other(c)
  BY OthersDiffer DEF Colours
<1>3. Len(outs) \in Nat /\ Len(outs) <= 2
  BY <1>1 DEF OutputShape
<1>4. \A k \in 1 .. Len(outs) :
          \/ outs[k].c = Other(c) /\ outs[k].state = "Off" /\ outs[k].lit = FALSE
          \/ outs[k].c = c /\ outs[k].state = r /\ outs[k].lit = (r # "Off")
  BY <1>1 DEF OutputShape
<1>5. Len(outs) = 2 => outs[1].c = Other(c) /\ outs[1].state = "Off" /\ outs[2].c = c
  BY <1>1 DEF OutputShape
<1>6. /\ call'.todo = outs /\ call'.led = virt[n] /\ call'.pc = "output"
      /\ \E k \in 1 .. Len(outs) : ~outs[k].hw
      /\ \A d \in Colours : led[virt[n]][d] # None =>
             \E k \in 1 .. Len(outs) : ~outs[k].hw /\ outs[k].c = d
      /\ \A k \in 1 .. Len(outs) : ~outs[k].hw => outs[k].state \in Steady
  BY DEF BeginsOutputs
<1>7. \A d \in Colours : led'[call'.led][d] # None => Pending(d)'
  BY <1>6 DEF Pending
<1>8. c = "fail" <=> r = "Fail"
  BY DEF Colour
<1> HIDE DEF c
<1>9. CASE \E k \in 1 .. Len(outs) : ~outs[k].hw /\ outs[k].c = c
  <2>1. PICK k \in 1 .. Len(outs) : ~outs[k].hw /\ outs[k].c = c
    BY <1>9
  <2>2. outs[k].state = r /\ r \in Steady
    BY <1>2, <1>4, <1>6, <2>1
  <2>3. \A j \in 1 .. Len(outs) : outs[j].c = Other(c) => k > j
    <3>1. ~(k = 1 /\ Len(outs) = 2)
      BY <1>2, <1>5, <2>1
    <3> DEFINE len == Len(outs)
    <3>2. len \in Nat /\ len <= 2 /\ k \in 1 .. len /\ ~(k = 1 /\ len = 2)
      BY <1>3, <3>1
    <3> SUFFICES ASSUME NEW j \in 1 .. len, outs[j].c = Other(c) PROVE k > j
      OBVIOUS
    <3>3. j # k
      BY <1>2, <2>1
    <3> HIDE DEF len
    <3> QED BY <3>2, <3>3
  <2>4. /\ LitIn(c, r) <=> r # "Off"
        /\ ~LitIn(Other(c), r)
    BY <1>2, <1>8, <2>2 DEF LitIn, Steady, Colours
  <2>5. \A j \in 1 .. Len(outs) : ~outs[j].hw =>
            /\ outs[j].lit <=> LitIn(outs[j].c, r)
            /\ outs[j].state = r \/ \E m \in 1 .. Len(outs) : m > j /\ ~outs[m].hw
    BY <1>4, <2>1, <2>3, <2>4
  <2>6. LeadsTo(r)'
    BY <1>6, <1>7, <2>5 DEF LeadsTo
  <2> QED BY <2>2, <2>6
<1>10. CASE ~\E k \in 1 .. Len(outs) : ~outs[k].hw /\ outs[k].c = c
  <2>1. \A d \in Colours : ~LitIn(d, "Off")
    BY DEF LitIn
  <2>2. \A j \in 1 .. Len(outs) : ~outs[j].hw =>
            (outs[j].lit <=> LitIn(outs[j].c, "Off")) /\ outs[j].state = "Off"
    BY <1>2, <1>4, <1>10, <2>1
  <2>3. LeadsTo("Off")'
    BY <1>6, <1>7, <2>2 DEF LeadsTo
  <2> QED BY <2>3 DEF Steady
<1> QED BY <1>9, <1>10

(* The last output leaves the LED in the state that the request leads to. *)
LEMMA OutputDoneFull ==
    ASSUME LedInv, ReqInv, NEW f \in Steady, call.pc \in {"output", "state"},
           OutputDone, call'.pc = "output", LeadsTo(f), gpio' = gpio, PinsKept,
           call.led \in 1 .. cur,
           \/ call.pc = "output" /\ Head(call.todo).hw
              /\ led'[call.led].state = led[call.led].state
           \/ call.pc = "state" /\ led'[call.led].state = Head(call.todo).state
    PROVE  LeadsTo(f)'
<1> DEFINE s == call.todo
           t == Tail(call.todo)
<1>1. /\ call'.todo = t /\ call'.led = call.led /\ Len(s) > 1
      /\ s \in Seq(Outputs) /\ s # <<>>
  BY OutputDoneCases DEF Idle
<1>2. /\ Len(s) \in Nat /\ Head(s) = s[1] /\ Len(t) = Len(s) - 1
      /\ \A i \in 1 .. Len(t) : t[i] = s[i + 1] /\ i + 1 \in 1 .. Len(s)
  BY <1>1, TailFacts
<1> DEFINE len == Len(s)
<1>3. \A m \in 1 .. len : m > 1 => m - 1 \in 1 .. Len(t) /\ t[m - 1] = s[m]
  <2> TAKE m \in 1 .. len
  <2>1. m > 1 => m - 1 \in 1 .. Len(t) /\ (m - 1) + 1 = m
    BY <1>2
  <2> QED BY <1>2, <2>1
<1>4. \A k \in 1 .. Len(t) : ~t[k].hw =>
          /\ t[k].lit <=> LitIn(t[k].c, f)
          /\ t[k].state = f \/ \E m \in 1 .. Len(t) : m > k /\ ~t[m].hw
  <2> TAKE k \in 1 .. Len(t)
  <2> HAVE ~t[k].hw
  <2>1. k + 1 \in 1 .. len /\ t[k] = s[k + 1]
    BY <1>2
  <2>2. t[k].lit <=> LitIn(t[k].c, f)
    BY <2>1 DEF LeadsTo
  <2>3. ASSUME NEW m \in 1 .. len, m > k + 1, ~s[m].hw
        PROVE  \E j \in 1 .. Len(t) : j > k /\ ~t[j].hw
    <3>1. m - 1 \in 1 .. Len(t) /\ t[m - 1] = s[m] /\ m - 1 > k
      BY <1>2, <1>3, <2>3, SMTT(30)
    <3> QED BY <2>3, <3>1
  <2>4. s[k + 1].state = f \/ \E m \in 1 .. len : m > k + 1 /\ ~s[m].hw
    BY <2>1 DEF LeadsTo
  <2> QED BY <2>1, <2>2, <2>3, <2>4
<1>5. ASSUME NEW m \in 1 .. len, m > 1, ~s[m].hw
      PROVE  \E j \in 1 .. Len(t) : ~t[j].hw /\ t[j].c = s[m].c
  BY <1>3, <1>5
<1>6. \A c \in Colours : Pending(c) => Pending(c)'
  <2> TAKE c \in Colours
  <2>1. ASSUME Pending(c)
        PROVE  \E m \in 1 .. len : m > 1 /\ ~s[m].hw /\ s[m].c = c
    <3>1. PICK m \in 1 .. len : (call.pc = "state" => m > 1) /\ ~s[m].hw /\ s[m].c = c
      BY <2>1 DEF Pending
    <3>2. m > 1
      <4>1. CASE call.pc = "state"
        BY <3>1, <4>1
      <4>2. CASE s[1].hw
        <5>1. m # 1
          BY <3>1, <4>2
        <5> QED BY <1>2, <5>1
      <4> QED BY <1>2, <4>1, <4>2
    <3> QED BY <3>1, <3>2
  <2>2. (\E j \in 1 .. Len(t) : ~t[j].hw /\ t[j].c = c) => Pending(c)'
    BY <1>1 DEF Pending
  <2> QED BY <1>5, <2>1, <2>2
<1>7. \A c \in Colours : led'[call.led][c] = led[call.led][c]
  BY DEF PinsKept
<1>8. \A c \in Colours : led'[call.led][c] # None /\ ~Pending(c)' =>
          (led'[call.led][c] \in gpio' <=> LitIn(c, f))
  BY <1>6, <1>7 DEF LeadsTo
<1>9. led'[call.led].state = f \/ \E k \in 1 .. Len(t) : ~t[k].hw
  <2>1. CASE call.pc = "output" /\ s[1].hw /\ led'[call.led].state = led[call.led].state
    <3>1. ASSUME NEW k \in 1 .. len, ~s[k].hw PROVE \E j \in 1 .. Len(t) : ~t[j].hw
      <4>1. k > 1
        BY <1>2, <2>1, <3>1
      <4> QED BY <1>5, <3>1, <4>1
    <3> QED BY <2>1, <3>1 DEF LeadsTo
  <2>2. CASE call.pc = "state" /\ led'[call.led].state = s[1].state
    <3>1. 1 \in 1 .. len /\ ~s[1].hw
      BY <1>1, <1>2, <2>2 DEF LedInv, CallConsistent
    <3>2. s[1].state = f \/ \E m \in 1 .. len : m > 1 /\ ~s[m].hw
      BY <3>1 DEF LeadsTo
    <3> QED BY <1>5, <2>2, <3>2
  <2> QED BY <1>2, <2>1, <2>2
<1> HIDE DEF s, t, len
<1>10. call'.todo = t /\ call'.led = call.led
  BY <1>1
<1> QED BY <1>4, <1>8, <1>9, <1>10 DEF LeadsTo

LEMMA WriteFull ==
    ASSUME LedInv, MapInv, SnapInv, NEW f \in Steady, LeadsTo(f), WriteGpio,
           ~call.hit, call'.pc = "state"
    PROVE  LeadsTo(f)'
<1> DEFINE s == call.todo
           i == call.led
<1>1. SameCall /\ call.pc = "write"
  BY StepCalls DEF WriteGpio
<1>2. /\ s \in Seq(Outputs) /\ s # <<>> /\ ~Head(s).hw /\ CallConsistent
      /\ Head(s) \in Outputs
  BY <1>1, InProgress DEF CallConsistent
<1>3. Len(s) \in Nat /\ 1 \in 1 .. Len(s) /\ Head(s) = s[1]
  BY <1>2, TailFacts
<1>4. i \in 1 .. cur
  BY <1>2, <1>3 DEF CallConsistent, Leds
<1>5. led' = led
  BY DEF WriteGpio
<1>6. call.snap = gpio
  BY <1>1 DEF SnapInv
<1>7. s[1].lit <=> LitIn(s[1].c, f)
  BY <1>2, <1>3 DEF LeadsTo
<1>8. ASSUME NEW c \in Colours, led[i][c] # None, ~Pending(c)'
      PROVE  led[i][c] \in gpio' <=> LitIn(c, f)
  <2>1. CASE c = s[1].c
    BY <1>3, <1>4, <1>7, <1>8, <2>1, WritePins
  <2>2. CASE c # s[1].c
    <3>1. led[i][c] \in gpio' <=> led[i][c] \in gpio
      BY <1>3, <1>4, <1>6, <1>8, <2>2, WritePins
    <3>2. ~Pending(c)
      <4> SUFFICES ASSUME Pending(c) PROVE FALSE
        OBVIOUS
      <4>1. PICK k \in 1 .. Len(s) : ~s[k].hw /\ s[k].c = c
        BY DEF Pending
      <4>2. k > 1
        BY <1>3, <2>2, <4>1
      <4>3. Pending(c)'
        BY <1>1, <4>1, <4>2 DEF Pending, SameCall
      <4> QED BY <1>8, <4>3
    <3> QED BY <1>8, <3>1, <3>2 DEF LeadsTo
  <2> QED BY <2>1, <2>2
<1>9. \E k \in 1 .. Len(s) : ~s[k].hw
  BY <1>2, <1>3
<1>10. call'.todo = s /\ call'.led = i
  BY <1>1 DEF SameCall
<1>11. \A k \in 1 .. Len(s) : ~s[k].hw =>
          /\ s[k].lit <=> LitIn(s[k].c, f)
          /\ s[k].state = f \/ \E m \in 1 .. Len(s) : m > k /\ ~s[m].hw
  BY DEF LeadsTo
<1> HIDE DEF s, i
<1> QED BY <1>5, <1>8, <1>9, <1>10, <1>11 DEF LeadsTo

LEMMA FullInvStep ==
    LedInv /\ MapInv /\ ReqInv /\ ReqInv' /\ SnapInv /\ FullInv /\ [LedNext]_ledVars
        => FullInv'
<1> SUFFICES ASSUME LedInv, MapInv, ReqInv, ReqInv', SnapInv, FullInv, [LedNext]_ledVars,
                    call'.full, ~call'.hit
             PROVE  \E f \in Steady : LeadsTo(f)'
  BY DEF FullInv
<1>0. call'.pc \in {"output", "write", "state"}
  BY DEF ReqInv
<1>1. CASE call' = call /\ UNCHANGED <<led, gpio>>
  BY <1>1 DEF FullInv, LeadsTo, Pending
<1>2. CASE LedInitEntry \/ LedInitNoMem
  <2>1. call' = Idle
    BY <1>2, TypeParts DEF LedInitEntry, LedInitNoMem, LedInv, CallConsistent
  <2> QED BY <1>0, <2>1 DEF Idle
<1>3. CASE \E n \in Names, c \in Colours : RegisterHwHandler(n, c)
  BY <1>1, <1>3 DEF RegisterHwHandler
<1>4. CASE \E n \in Names, req \in States : BoardLedCtrl(n, req)
  <2>1. PICK n \in Names, req \in States : BoardLedCtrl(n, req)
    BY <1>4
  <2>2. UNCHANGED <<led, gpio>>
    BY <2>1 DEF BoardLedCtrl
  <2>3. CASE call' = call
    BY <1>1, <2>2, <2>3
  <2>4. CASE call' = Idle \/ BeginsBlink(n)
    BY <1>0, <2>4 DEF BeginsBlink, Idle
  <2>5. ASSUME NEW r \in States, NEW outs \in Seq(Outputs), BeginsOutputs(n, r, outs)
        PROVE  \E f \in Steady : LeadsTo(f)'
    BY <2>2, <2>5, BeginFull
  <2> QED BY <2>1, <2>3, <2>4, <2>5, CtrlBegins
<1>5. CASE CallHwHandler \/ SetState
  <2>1. OutputDone /\ call.pc \in {"output", "state"} /\ gpio' = gpio
        /\ ~LedInitEntry /\ ~LedInitNoMem
    <3>1. OutputDone /\ call.pc \in {"output", "state"} /\ gpio' = gpio
      BY <1>5 DEF CallHwHandler, SetState
    <3>2. Initialised
      BY <3>1, InProgress
    <3> QED BY <3>1, <3>2 DEF LedInitEntry, LedInitNoMem
  <2>2. /\ call'.pc = "output" /\ call'.full = call.full /\ call'.hit = call.hit
    <3>1. call' # Idle
      BY <1>0 DEF Idle
    <3> QED BY <2>1, <3>1, OutputDoneCases
  <2>3. PICK f \in Steady : LeadsTo(f)
    BY <2>2 DEF FullInv
  <2>4. PinsKept
    BY <2>1, LaterKeepsPins
  <2>5. call.led \in 1 .. cur
    BY <2>2 DEF LedInv, CallConsistent, Leds
  <2>6. \/ call.pc = "output" /\ Head(call.todo).hw
           /\ led'[call.led].state = led[call.led].state
        \/ call.pc = "state" /\ led'[call.led].state = Head(call.todo).state
    <3>1. CASE CallHwHandler
      BY <3>1 DEF CallHwHandler
    <3>2. CASE SetState
      <4>1. call.pc = "state"
        BY <3>2 DEF SetState
      <4> QED BY <2>5, <3>2, <4>1, StepLeds
    <3> QED BY <1>5, <3>1, <3>2
  <2>7. LeadsTo(f)'
    BY <2>1, <2>2, <2>3, <2>4, <2>5, <2>6, OutputDoneFull
  <2> QED BY <2>7
<1>6. CASE ReadGpio
  <2>1. /\ SameCall /\ call'.pc = "write" /\ call'.hit = call.hit /\ call.pc = "output"
        /\ UNCHANGED <<led, gpio>>
    BY <1>6, StepCalls DEF ReadGpio
  <2> QED BY <2>1 DEF FullInv, LeadsTo, Pending, SameCall
<1>7. CASE WriteGpio
  <2>1. SameCall /\ call'.hit = call.hit /\ call'.pc \in {"count", "state"}
    BY <1>7, StepCalls
  <2>2. PICK f \in Steady : LeadsTo(f)
    BY <2>1 DEF FullInv, SameCall
  <2>3. LeadsTo(f)'
    BY <1>0, <1>7, <2>1, <2>2, WriteFull
  <2> QED BY <2>3
<1>8. CASE TestBlinkOnce
  <2>1. call.pc = "test" /\ ~call.full
    BY <1>8 DEF TestBlinkOnce, ReqInv
  <2>2. call' = Idle => ~call'.full
    BY DEF Idle
  <2>3. call' = Idle \/ call'.full = call.full
    BY <1>8, TestCases
  <2> QED BY <2>1, <2>2, <2>3
<1>9. CASE SetCountDown \/ SetBlink
  BY <1>0, <1>9, StepCalls
<1>10. CASE StartTimer
  BY <1>0, <1>10 DEF StartTimer, Idle
<1>11. CASE LedTimerExpire
  BY <1>0, <1>11, StepCalls
<1>12. CASE BlinkOnceTimerExpire \/ UNCHANGED ledVars
  BY <1>1, <1>12 DEF BlinkOnceTimerExpire, ledVars
<1> QED BY <1>2, <1>3, <1>4, <1>5, <1>6, <1>7, <1>8, <1>9, <1>10, <1>11, <1>12
        DEF LedNext, CtrlStep

(* ------------------------------------------------------------------------------ *)
(* The pins of l show its state in the register g, and l counts down while it      *)
(* blinks once.                                                                   *)
Shown(l, g) ==
    /\ l.state \in Steady =>
           /\ l.norm # None => (l.norm \in g <=> l.state = "On")
           /\ l.fail # None => (l.fail \in g <=> l.state = "Fail")
    /\ l.state = "BlinkOnce" /\ l.saved \in Steady =>
           /\ l.norm # None => (l.norm \in g <=> l.saved # "On")
           /\ l.fail # None => (l.fail \in g <=> l.saved = "Fail")
    /\ l.state = "BlinkOnce" => l.cd = 1

(* The normal pin of a steady LED is toggled, but its state not yet set. *)
Toggled(l, g) ==
    /\ l.state \in Steady
    /\ l.norm # None => (l.norm \in g <=> l.state # "On")
    /\ l.fail # None => (l.fail \in g <=> l.state = "Fail")

(* The LEDs that no timer disturbed, while a request blinks one of them once. *)
SettledInv ==
    /\ \A i \in settled :
           call.led # i \/ call.pc \notin {"count", "blink"} => Shown(led[i], gpio)
    /\ call.led \in settled /\ call.pc \in {"output", "write", "state"} =>
           \A k \in 1 .. Len(call.todo) : ~call.todo[k].hw =>
               /\ call.todo[k].state = "BlinkOnce" /\ led[call.led].state \in Steady
               /\ call.todo[k].lit <=> led[call.led].norm \notin gpio
    /\ call.led \in settled /\ call.pc \in {"count", "blink"} /\ call.req = "BlinkOnce" =>
           /\ Toggled(led[call.led], gpio)
           /\ call.pc = "blink" => led[call.led].cd = 1

LEMMA ShownIsShows ==
    ASSUME NEW l \in LedRec, Shown(l, gpio)
    PROVE  Shows(l)
<1>1. CASE l.state = "BlinkOnce"
  <2>1. Base(l) = l.saved /\ (l.saved = "On" <=> Base(l) = "On")
    BY <1>1 DEF Base
  <2>2. ((Base(l) = "On") # (l.state = "BlinkOnce")) <=> l.saved # "On"
    BY <1>1, <2>1
  <2> QED BY <1>1, <2>1, <2>2 DEF Shows, Shown
<1>2. CASE l.state # "BlinkOnce"
  <2>1. Base(l) = l.state
    BY <1>2 DEF Base
  <2>2. ((Base(l) = "On") # (l.state = "BlinkOnce")) <=> l.state = "On"
    BY <1>2, <2>1
  <2> QED BY <1>2, <2>1, <2>2 DEF Shows, Shown
<1> QED BY <1>1, <1>2

(* An entry keeps showing its state when neither it nor its pins change. *)
LEMMA ShownKept ==
    ASSUME NEW l, NEW g, NEW h, Shown(l, g),
           \A c \in Colours : l[c] # None => (l[c] \in h <=> l[c] \in g)
    PROVE  Shown(l, h)
BY DEF Shown, Colours

(* The timer returns an LED that blinked once to what it showed before. *)
LEMMA TimerShown ==
    ASSUME LedInv, MapInv, LedTimerExpire, NEW i \in 1 .. cur, Shown(led[i], gpio)
    PROVE  Shown(led'[i], gpio')
<1> DEFINE l == led[i]
           m == led'[i]
<1>1. l \in LedRec /\ m = Expired(l)
  BY StepLeds
<1>2. /\ m.state = IF l.state = "BlinkOnce" THEN l.saved ELSE l.state
      /\ m.saved = l.saved /\ m.state # "BlinkOnce"
      /\ m.norm = l.norm /\ m.fail = l.fail
  BY <1>1, ExpiredState, ExpiredKeepsPins
<1>3. /\ l.fail # None => (l.fail \in gpio' <=> l.fail \in gpio)
      /\ l.norm # None /\ Toggles(l) => (l.norm \in gpio' <=> l.norm \notin gpio)
      /\ l.norm # None /\ ~Toggles(l) => (l.norm \in gpio' <=> l.norm \in gpio)
  BY TimerPins
<1>4. /\ l.state = "BlinkOnce" => Toggles(l)
      /\ l.state \in Steady => ~Toggles(l)
  BY DEF Toggles, Steady, Continues
<1>5. Shown(l, gpio)
  OBVIOUS
<1> HIDE DEF l, m
<1>6. ASSUME l.state = "BlinkOnce" PROVE Shown(m, gpio')
  BY <1>2, <1>3, <1>4, <1>5, <1>6 DEF Shown
<1>7. ASSUME l.state # "BlinkOnce" PROVE Shown(m, gpio')
  BY <1>2, <1>3, <1>4, <1>5, <1>7 DEF Shown
<1> QED BY <1>6, <1>7 DEF m

(* The initialisation turns off the LEDs it settles and no other. *)
LEMMA InitEntryShown ==
    ASSUME LedInv, MapInv, MapInv', LedInitEntry, NEW i \in settled',
           \A j \in settled : Shown(led[j], gpio)
    PROVE  Shown(led'[i], gpio')
<1> DEFINE e == map[idx]
<1>1. /\ led \in [1 .. Len(map) -> LedRec] /\ 1 .. cur \subseteq 1 .. Len(map)
      /\ cur \in Nat /\ cur + 1 \in 1 .. Len(map) /\ e \in MapPair /\ settled \subseteq 1 .. cur
  BY TypeParts DEF LedInv, LedTypes, LedInitEntry, Initialised
<1> HIDE DEF e
<1>2. CASE InitShared(e)
  <2>1. gpio' = gpio
    BY <1>2 DEF InitShared
  <2>2. i \in settled /\ led'[i] = led[i]
    <3>1. CASE led' = led /\ settled' = settled
      BY <3>1
    <3>2. ASSUME NEW p \in 1 .. cur, led' = [led EXCEPT ![p] = Merged(led[p], e)],
                 settled' = IF Merged(led[p], e) = led[p] THEN settled ELSE settled \ {p}
          PROVE  i \in settled /\ led'[i] = led[i]
      BY <1>1, <3>2
    <3> QED BY <1>2, <3>1, <3>2 DEF InitShared, Leds
  <2> QED BY <2>1, <2>2
<1>3. CASE InitFirst(e)
  <2> DEFINE l == [NoLed EXCEPT !.norm = e.norm, !.fail = e.fail]
  <2>1. /\ cur' = cur + 1 /\ led' = [led EXCEPT ![cur + 1] = l] /\ gpio' = gpio \ {e.norm}
        /\ i \in settled \/ (i = cur + 1 /\ e.norm # None /\ e.fail = None)
    BY <1>3 DEF InitFirst
  <2>2. l.state = "Off" /\ l.saved = "Off" /\ l.norm = e.norm /\ l.fail = e.fail
    BY DEF NoLed
  <2> HIDE DEF l
  <2>3. led'[cur + 1] = l /\ cur + 1 \in 1 .. cur'
    BY <1>1, <2>1
  <2>4. CASE i = cur + 1
    <3>1. e.norm # None /\ e.fail = None
      BY <1>1, <2>1, <2>4
    <3> QED BY <2>1, <2>2, <2>3, <2>4, <3>1 DEF Shown, Steady
  <2>5. CASE i \in settled
    <3>1. led'[i] = led[i] /\ i \in 1 .. cur' /\ i # cur + 1
      BY <1>1, <2>1, <2>5
    <3>2. \A c \in Colours : led[i][c] # None => led[i][c] # e.norm
      <4>1. PinsApart'
        BY DEF MapInv
      <4>2. led'[i].norm # None => led'[i].norm # led'[cur + 1].norm
        BY <2>3, <3>1, <4>1 DEF PinsApart, Colours
      <4>3. led'[cur + 1].norm # None => led'[cur + 1].norm # led'[i].fail
        BY <2>3, <3>1, <4>1 DEF PinsApart
      <4> QED BY <2>2, <2>3, <3>1, <4>2, <4>3 DEF Colours
    <3>3. \A c \in Colours : led[i][c] # None => (led[i][c] \in gpio' <=> led[i][c] \in gpio)
      BY <2>1, <3>2
    <3>4. Shown(led[i], gpio)
      BY <2>5
    <3>5. Shown(led[i], gpio')
      BY <3>3, <3>4, ShownKept
    <3> QED BY <3>1, <3>5
  <2> QED BY <2>1, <2>4, <2>5
<1> QED BY <1>2, <1>3 DEF LedInitEntry, e

(* A request that ends with a complete request's last output leaves its LED        *)
(* showing its state.                                                             *)
LEMMA LastShown ==
    ASSUME LedInv, NEW f \in Steady, LeadsTo(f), call.pc \in {"output", "state"},
           call.led \in 1 .. cur, Len(call.todo) = 1, PinsKept, gpio' = gpio,
           \/ call.pc = "output" /\ call.todo[1].hw
              /\ led'[call.led].state = led[call.led].state
           \/ call.pc = "state" /\ ~call.todo[1].hw
              /\ led'[call.led].state = call.todo[1].state
    PROVE  Shown(led'[call.led], gpio')
<1> DEFINE i == call.led
<1>1. /\ led'[i].norm = led[i].norm /\ led'[i].fail = led[i].fail
  BY DEF PinsKept
<1>2. \A k \in 1 .. Len(call.todo) : k = 1
  OBVIOUS
<1>3. led'[i].state = f
  <2>1. 1 \in 1 .. Len(call.todo)
    OBVIOUS
  <2>2. CASE call.todo[1].hw /\ led'[i].state = led[i].state
    BY <1>2, <2>2 DEF LeadsTo
  <2>3. CASE ~call.todo[1].hw /\ led'[i].state = call.todo[1].state
    <3>1. ~\E m \in 1 .. Len(call.todo) : m > 1 /\ ~call.todo[m].hw
      BY <1>2
    <3> QED BY <2>1, <2>3, <3>1 DEF LeadsTo
  <2> QED BY <2>2, <2>3
<1>4. \A c \in Colours : ~Pending(c)
  BY <1>2 DEF Pending
<1>5. /\ led[i].norm # None => (led[i].norm \in gpio <=> f = "On")
      /\ led[i].fail # None => (led[i].fail \in gpio <=> f = "Fail")
  <2>1. \A c \in Colours : led[i][c] # None => (led[i][c] \in gpio <=> LitIn(c, f))
    BY <1>4 DEF LeadsTo
  <2>2. (LitIn("norm", f) <=> f = "On") /\ (LitIn("fail", f) <=> f = "Fail")
    BY DEF LitIn
  <2> QED BY <2>1, <2>2 DEF Colours
<1> QED BY <1>1, <1>3, <1>5 DEF Shown, Steady

LEMMA OutputDoneSettled ==
    ASSUME LedInv, ReqInv, FullInv, SettledInv, CallHwHandler \/ SetState,
           [LedNext]_ledVars
    PROVE  SettledInv'
<1>1. OutputDone /\ call.pc \in {"output", "state"} /\ gpio' = gpio
  BY DEF CallHwHandler, SetState
<1>2. PinsKept
  <2>1. Initialised
    BY <1>1, InProgress
  <2> QED BY <2>1, LaterKeepsPins DEF LedInitEntry, LedInitNoMem
<1>3. /\ call.todo \in Seq(Outputs) /\ call.todo # <<>> /\ settled \subseteq 1 .. cur
      /\ CallConsistent
  BY <1>1, InProgress DEF LedTypes, CallConsistent
<1>4. Len(call.todo) \in Nat /\ 1 \in 1 .. Len(call.todo) /\ Head(call.todo) = call.todo[1]
  BY <1>3, TailFacts
<1>5. SetState => call.led \notin settled
  <2> SUFFICES ASSUME SetState, call.led \in settled PROVE FALSE
    OBVIOUS
  <2>1. call.pc = "state" /\ ~call.todo[1].hw /\ call.todo[1].state # "BlinkOnce"
    BY <1>3, <1>4 DEF SetState, CallConsistent
  <2> QED BY <1>4, <2>1 DEF SettledInv
<1>6. \A i \in settled : led'[i] = led[i] /\ Shown(led[i], gpio)
  <2>1. CASE CallHwHandler
    BY <1>1, <2>1 DEF CallHwHandler, SettledInv
  <2>2. CASE SetState
    BY <1>1, <1>3, <1>5, <2>2, StepLeds DEF SettledInv
  <2> QED BY <2>1, <2>2
<1>7. CASE call'.pc = "output"
  <2>1. /\ settled' = settled /\ call'.todo = Tail(call.todo) /\ call'.led = call.led
    BY <1>1, <1>7, OutputDoneCases DEF Idle
  <2>2. Len(Tail(call.todo)) = Len(call.todo) - 1
        /\ \A k \in 1 .. Len(Tail(call.todo)) :
               Tail(call.todo)[k] = call.todo[k + 1] /\ k + 1 \in 1 .. Len(call.todo)
    BY <1>3, TailFacts
  <2>3. ASSUME call.led \in settled, NEW k \in 1 .. Len(Tail(call.todo)),
               ~Tail(call.todo)[k].hw
        PROVE  /\ Tail(call.todo)[k].state = "BlinkOnce" /\ led'[call.led].state \in Steady
               /\ Tail(call.todo)[k].lit <=> led'[call.led].norm \notin gpio'
    BY <1>1, <1>6, <2>2, <2>3 DEF SettledInv
  <2>4. \A i \in settled' : Shown(led'[i], gpio')
    BY <1>1, <1>6, <2>1
  <2> QED BY <1>7, <2>1, <2>3, <2>4 DEF SettledInv
<1>8. CASE call'.pc # "output"
  <2>1. /\ Len(call.todo) = 1 /\ call' = Idle
        /\ settled' = IF call.full /\ ~call.hit THEN settled \cup {call.led} ELSE settled
    BY <1>1, <1>8, OutputDoneCases
  <2>2. ASSUME call.full, ~call.hit PROVE Shown(led'[call.led], gpio')
    <3>1. PICK f \in Steady : LeadsTo(f)
      BY <2>2 DEF FullInv
    <3>2. call.led \in 1 .. cur
      BY <1>3, <2>2 DEF CallConsistent, Leds
    <3>3. \/ call.pc = "output" /\ call.todo[1].hw
             /\ led'[call.led].state = led[call.led].state
          \/ call.pc = "state" /\ ~call.todo[1].hw
             /\ led'[call.led].state = call.todo[1].state
      <4>1. CASE CallHwHandler
        BY <1>4, <4>1 DEF CallHwHandler
      <4>2. CASE SetState
        <5>1. call.pc = "state" /\ ~call.todo[1].hw
          BY <1>3, <1>4, <4>2 DEF SetState, CallConsistent
        <5> QED BY <1>4, <3>2, <4>2, <5>1, StepLeds
      <4> QED BY <4>1, <4>2
    <3> QED BY <1>1, <1>2, <2>1, <3>1, <3>2, <3>3, LastShown
  <2>3. \A i \in settled' : Shown(led'[i], gpio')
    BY <1>1, <1>6, <2>1, <2>2
  <2>4. call'.pc \notin {"output", "write", "state", "count", "blink"}
    BY <2>1 DEF Idle
  <2> QED BY <2>3, <2>4 DEF SettledInv
<1> QED BY <1>7, <1>8

(* The write of a request that blinks once toggles the normal pin of its LED, any  *)
(* other write is not to a settled LED.                                           *)
LEMMA WriteSettled ==
    ASSUME LedInv, MapInv, ReqInv, SnapInv, SettledInv, WriteGpio
    PROVE  SettledInv'
<1> DEFINE s == call.todo
           l == call.led
<1>1. /\ SameCall /\ call.pc = "write" /\ led' = led /\ settled' = settled
      /\ call'.pc = IF Head(s).state = "BlinkOnce" THEN "count" ELSE "state"
  BY StepCalls DEF WriteGpio
<1>2. /\ s \in Seq(Outputs) /\ s # <<>> /\ ~Head(s).hw /\ CallConsistent
      /\ settled \subseteq 1 .. cur
  BY <1>1, InProgress DEF CallConsistent, LedTypes
<1>3. Len(s) \in Nat /\ 1 \in 1 .. Len(s) /\ Head(s) = s[1]
  BY <1>2, TailFacts
<1>4. call'.led = l
  BY <1>1 DEF SameCall
<1>5. ASSUME NEW i \in settled, i # l PROVE Shown(led'[i], gpio')
  <2>1. \A c \in Colours : led[i][c] # None => (led[i][c] \in gpio' <=> led[i][c] \in gpio)
    <3> SUFFICES ASSUME NEW c \in Colours, led[i][c] # None
                 PROVE  led[i][c] \in gpio' <=> led[i][c] \in gpio
      OBVIOUS
    <3>1. led[i][c] \in gpio' <=> led[i][c] \in call.snap
      BY <1>2, <1>5, WritePins
    <3> QED BY <1>1, <3>1 DEF SnapInv
  <2>2. Shown(led[i], gpio)
    BY <1>5 DEF SettledInv
  <2> QED BY <1>1, <2>1, <2>2, ShownKept
<1>6. ASSUME l \in settled
      PROVE  call'.pc = "count" /\ Toggled(led'[l], gpio')
  <2>1. /\ s[1].state = "BlinkOnce" /\ led[l].state \in Steady
        /\ s[1].lit <=> led[l].norm \notin gpio
    BY <1>1, <1>2, <1>3, <1>6 DEF SettledInv
  <2>2. s[1].c = "norm"
    BY <1>1, <1>2, <1>3, <2>1 DEF ReqInv
  <2>3. Shown(led[l], gpio)
    BY <1>1, <1>6 DEF SettledInv
  <2>4. led[l].norm # None => (led[l].norm \in gpio' <=> led[l].norm \notin gpio)
    BY <1>2, <1>3, <1>6, <2>1, <2>2, WritePins DEF Colours
  <2>5. led[l].fail # None => (led[l].fail \in gpio' <=> led[l].fail \in gpio)
    <3>1. led[l].fail # None => (led[l].fail \in gpio' <=> led[l].fail \in call.snap)
      BY <1>2, <1>3, <1>6, <2>2, WritePins DEF Colours
    <3>2. led[l].fail # None => (led[l].fail \in call.snap <=> led[l].fail \in gpio)
      BY <1>1, <1>2, <1>6 DEF SnapInv
    <3> QED BY <3>1, <3>2
  <2>6. Toggled(led[l], gpio')
    BY <2>1, <2>3, <2>4, <2>5 DEF Toggled, Shown
  <2> QED BY <1>1, <1>3, <2>1, <2>6
<1> HIDE DEF s, l
<1>7. call'.pc \in {"count", "state"} /\ call'.pc # "blink"
  BY <1>1
<1>8. \A i \in settled' : call'.led # i => Shown(led'[i], gpio')
  BY <1>1, <1>4, <1>5
<1>9. call'.led \in settled' => call'.pc = "count" /\ Toggled(led'[call'.led], gpio')
  BY <1>1, <1>4, <1>6
<1>10. \A i \in settled' :
          call'.led # i \/ call'.pc \notin {"count", "blink"} => Shown(led'[i], gpio')
  BY <1>8, <1>9
<1> QED BY <1>7, <1>9, <1>10 DEF SettledInv

LEMMA SetBlinkSettled ==
    ASSUME LedInv, ReqInv, SavedInv, SettledInv, SetBlink
    PROVE  SettledInv'
<1> DEFINE l == call.led
<1>1. /\ SameCall /\ call.pc = "blink" /\ call'.pc = "start" /\ settled' = settled
      /\ gpio' = gpio /\ settled \subseteq 1 .. cur
  BY StepCalls, TypeParts DEF SetBlink, LedInv, LedTypes
<1>2. \A i \in settled : i # l => Shown(led'[i], gpio')
  BY <1>1, StepLeds DEF SettledInv
<1>3. ASSUME l \in settled PROVE Shown(led'[l], gpio')
  <2>1. /\ led'[l].state = call.req /\ led'[l].cd = led[l].cd
        /\ led'[l].saved = IF call.req = "BlinkOnce" THEN led[l].saved ELSE call.req
    BY <1>1, <1>3, StepLeds
  <2>2. led'[l].norm = led[l].norm /\ led'[l].fail = led[l].fail
    <3>1. Initialised
      BY <1>1, InProgress
    <3>2. [LedNext]_ledVars
      BY DEF LedNext, CtrlStep
    <3> QED BY <1>1, <1>3, <3>1, <3>2, LaterKeepsPins
            DEF PinsKept, LedInitEntry, LedInitNoMem
  <2>3. CASE call.req = "BlinkOnce"
    <3>1. Toggled(led[l], gpio) /\ led[l].cd = 1
      BY <1>1, <1>3, <2>3 DEF SettledInv
    <3>2. led[l].saved = led[l].state
      BY <1>1, <1>3, <3>1 DEF SavedInv, Toggled, Steady
    <3> QED BY <1>1, <2>1, <2>2, <2>3, <3>1, <3>2 DEF Shown, Toggled, Steady
  <2>4. CASE call.req # "BlinkOnce"
    <3>1. call.req \notin Steady
      BY <1>1 DEF ReqInv
    <3> QED BY <2>1, <2>4, <3>1 DEF Shown
  <2> QED BY <2>3, <2>4
<1> QED BY <1>1, <1>2, <1>3 DEF SettledInv

LEMMA SetCountDownSettled ==
    ASSUME LedInv, SettledInv, SetCountDown
    PROVE  SettledInv'
<1> DEFINE l == call.led
<1>1. /\ SameCall /\ call.pc = "count" /\ call'.pc = "blink" /\ settled' = settled
      /\ gpio' = gpio /\ settled \subseteq 1 .. cur
  BY StepCalls, TypeParts DEF SetCountDown, LedInv, LedTypes
<1>2. \A i \in settled : i # l => Shown(led'[i], gpio')
  BY <1>1, StepLeds DEF SettledInv
<1>3. ASSUME l \in settled, call.req = "BlinkOnce"
      PROVE  Toggled(led'[l], gpio') /\ led'[l].cd = 1
  <2>1. led'[l].state = led[l].state /\ led'[l].cd = BlinkCount(call.req)
    BY <1>1, <1>3, StepLeds
  <2>2. led'[l].norm = led[l].norm /\ led'[l].fail = led[l].fail
    <3>1. Initialised
      BY <1>1, InProgress
    <3>2. [LedNext]_ledVars
      BY DEF LedNext, CtrlStep
    <3> QED BY <1>1, <1>3, <3>1, <3>2, LaterKeepsPins
            DEF PinsKept, LedInitEntry, LedInitNoMem
  <2>3. BlinkCount(call.req) = 1
    BY <1>3 DEF BlinkCount, kSlowBlinkCount
  <2>4. Toggled(led[l], gpio)
    BY <1>1, <1>3 DEF SettledInv
  <2> QED BY <1>1, <2>1, <2>2, <2>3, <2>4 DEF Toggled
<1> QED BY <1>1, <1>2, <1>3 DEF SettledInv, SameCall

LEMMA TestSettled ==
    ASSUME LedInv, SavedInv, SettledInv, TestBlinkOnce
    PROVE  SettledInv'
<1>1. /\ call.pc = "test" /\ settled' = settled /\ led' = led /\ gpio' = gpio
      /\ settled \subseteq 1 .. cur
  BY TypeParts DEF TestBlinkOnce, LedInv, LedTypes
<1>2. \A i \in settled' : Shown(led'[i], gpio')
  BY <1>1 DEF SettledInv
<1>3. CASE call' = Idle
  <2>1. call'.pc = "idle"
    BY <1>3 DEF Idle
  <2> QED BY <1>2, <2>1 DEF SettledInv
<1>4. CASE call' # Idle
  <2>1. /\ call'.pc = "output" /\ call'.led = call.led
        /\ Len(call'.todo) = 1 /\ call'.todo[1].state = "BlinkOnce"
        /\ call'.todo[1].lit = (led[call.led].norm \notin gpio)
        /\ led[call.led].saved \notin Continues /\ led[call.led].cd = 0
    BY <1>4, TestCases
  <2>2. ASSUME call.led \in settled PROVE led[call.led].state \in Steady
    <3>1. led[call.led].state # "BlinkOnce"
      <4>1. Shown(led[call.led], gpio)
        BY <1>1, <1>2, <2>2
      <4>2. 0 # 1
        OBVIOUS
      <4> QED BY <2>1, <4>1, <4>2 DEF Shown
    <3>2. led[call.led].saved = led[call.led].state
      BY <1>1, <2>2, <3>1 DEF SavedInv
    <3>3. led[call.led].state \in States
      <4>1. led \in [1 .. Len(map) -> LedRec] /\ 1 .. cur \subseteq 1 .. Len(map)
        BY TypeParts DEF LedInv, LedTypes
      <4>2. led[call.led] \in LedRec
        BY <1>1, <2>2, <4>1
      <4> QED BY <4>2 DEF LedRec
    <3> QED BY <2>1, <3>1, <3>2, <3>3 DEF States
  <2>3. \A k \in 1 .. Len(call'.todo) : k = 1
    BY <2>1
  <2>4. call'.led \in settled' =>
            \A k \in 1 .. Len(call'.todo) :
                /\ call'.todo[k].state = "BlinkOnce" /\ led'[call'.led].state \in Steady
                /\ call'.todo[k].lit <=> led'[call'.led].norm \notin gpio'
    BY <1>1, <2>1, <2>2, <2>3
  <2> QED BY <1>2, <2>1, <2>4 DEF SettledInv
<1> QED BY <1>3, <1>4

LEMMA TimerSettled ==
    ASSUME LedInv, MapInv, ReqInv, SettledInv, LedTimerExpire
    PROVE  SettledInv'
<1>1. SameCall /\ call'.pc = call.pc /\ settled \subseteq 1 .. cur
  BY StepCalls, TypeParts DEF LedInv, LedTypes
<1>2. settled' \subseteq settled /\ call.led \notin settled'
  <2>1. CASE call.pc = "idle"
    <3>1. call.led = 0 /\ settled' = settled
      BY <2>1 DEF LedTimerExpire, ReqInv, Idle
    <3>2. 0 \notin 1 .. cur
      BY TypeParts DEF LedInv, LedTypes
    <3> QED BY <1>1, <3>1, <3>2
  <2>2. CASE call.pc # "idle"
    BY <2>2 DEF LedTimerExpire
  <2> QED BY <2>1, <2>2
<1>3. \A i \in settled' : Shown(led[i], gpio)
  BY <1>2 DEF SettledInv
<1>4. \A i \in settled' : Shown(led'[i], gpio')
  BY <1>1, <1>2, <1>3, TimerShown
<1>5. call'.led \notin settled'
  BY <1>1, <1>2 DEF SameCall
<1> QED BY <1>4, <1>5 DEF SettledInv

LEMMA CtrlSettled ==
    ASSUME LedInv, ReqInv, SettledInv, NEW n \in Names, NEW req \in States,
           BoardLedCtrl(n, req)
    PROVE  SettledInv'
<1>1. UNCHANGED <<led, gpio>> /\ call.pc = "idle"
  BY DEF BoardLedCtrl
<1>2. \A i \in settled : Shown(led'[i], gpio')
  BY <1>1 DEF SettledInv
<1>3. CASE (call' = call \/ call' = Idle) /\ settled' = settled
  <2>1. call'.pc = "idle"
    BY <1>1, <1>3 DEF Idle
  <2> QED BY <1>2, <1>3, <2>1 DEF SettledInv
<1>4. ASSUME NEW r \in States, NEW outs \in Seq(Outputs), BeginsOutputs(n, r, outs)
      PROVE  SettledInv'
  <2>1. call'.pc = "output" /\ call'.todo = outs /\ call'.led = virt[n]
    BY <1>4 DEF BeginsOutputs
  <2>2. settled' \subseteq settled
    BY <1>4 DEF BeginsOutputs
  <2>3. call'.led \in settled' => \A k \in 1 .. Len(outs) : outs[k].hw
    BY <1>4, <2>1 DEF BeginsOutputs
  <2> QED BY <1>2, <2>1, <2>2, <2>3 DEF SettledInv
<1>5. CASE BeginsBlink(n)
  <2>1. settled' = settled
    BY <1>5 DEF BeginsBlink
  <2>2. call'.pc = "test" \/ (call'.pc = "count" /\ call'.req # "BlinkOnce")
    BY <1>5 DEF BeginsBlink, Continues
  <2> QED BY <1>2, <2>1, <2>2 DEF SettledInv
<1> QED BY <1>3, <1>4, <1>5, CtrlBegins

LEMMA SettledInvStep ==
    ASSUME LedInv, MapInv, MapInv', ReqInv, SavedInv, SnapInv, FullInv, SettledInv,
           [LedNext]_ledVars
    PROVE  SettledInv'
<1>1. CASE UNCHANGED <<led, gpio, call, settled>>
  BY <1>1 DEF SettledInv
<1>2. CASE LedInitEntry
  <2>1. call' = Idle /\ call = Idle
    BY <1>2 DEF LedInitEntry, LedInv, CallConsistent
  <2>2. call.pc = "idle" /\ call'.pc = "idle"
    BY <2>1 DEF Idle
  <2>3. \A i \in settled : Shown(led[i], gpio)
    BY <2>2 DEF SettledInv
  <2>4. \A i \in settled' : Shown(led'[i], gpio')
    BY <1>2, <2>3, InitEntryShown
  <2> QED BY <2>2, <2>4 DEF SettledInv
<1>3. CASE LedInitNoMem \/ BlinkOnceTimerExpire \/ UNCHANGED ledVars
  BY <1>1, <1>3 DEF LedInitNoMem, BlinkOnceTimerExpire, ledVars
<1>4. CASE \E n \in Names, c \in Colours : RegisterHwHandler(n, c)
  BY <1>1, <1>4 DEF RegisterHwHandler
<1>5. CASE \E n \in Names, req \in States : BoardLedCtrl(n, req)
  BY <1>5, CtrlSettled
<1>6. CASE CallHwHandler \/ SetState
  BY <1>6, OutputDoneSettled
<1>7. CASE ReadGpio
  <2>1. /\ SameCall /\ call'.pc = "write" /\ call.pc = "output"
        /\ UNCHANGED <<led, gpio, settled>>
    BY <1>7, StepCalls DEF ReadGpio
  <2> QED BY <2>1 DEF SettledInv, SameCall
<1>8. CASE StartTimer
  <2>1. /\ call.pc = "start" /\ call'.pc = "idle" /\ UNCHANGED <<led, gpio, settled>>
    BY <1>8 DEF StartTimer, Idle
  <2> QED BY <2>1 DEF SettledInv
<1> QED BY <1>2, <1>3, <1>4, <1>5, <1>6, <1>7, <1>8, WriteSettled, TestSettled,
           SetCountDownSettled, SetBlinkSettled, TimerSettled DEF LedNext, CtrlStep

ShowInv == ReqInv /\ SavedInv /\ SnapInv /\ FullInv /\ SettledInv

LEMMA ShowInvInit == LedInit => ShowInv
<1> SUFFICES ASSUME LedInit PROVE ShowInv
  OBVIOUS
<1>1. call = Idle /\ cur = 0 /\ settled = {}
  BY DEF LedInit
<1>2. call.pc = "idle" /\ call.full = FALSE
  BY <1>1 DEF Idle
<1>3. ReqInv
  BY <1>1, IdleReq
<1>4. SavedInv
  BY <1>1 DEF SavedInv
<1> QED BY <1>1, <1>2, <1>3, <1>4 DEF ShowInv, SnapInv, FullInv, SettledInv

LEMMA ShowInvStep ==
    LedInv /\ LedInv' /\ MapInv /\ MapInv' /\ ShowInv /\ [LedNext]_ledVars => ShowInv'
<1> SUFFICES ASSUME LedInv, LedInv', MapInv, MapInv', ShowInv, [LedNext]_ledVars
             PROVE  ShowInv'
  OBVIOUS
<1>1. ReqInv /\ SavedInv /\ SnapInv /\ FullInv /\ SettledInv
  BY DEF ShowInv
<1>2. ReqInv'
  BY <1>1, ReqInvStep
<1>3. SavedInv'
  BY <1>1, SavedInvStep
<1>4. SnapInv'
  BY <1>1, SnapInvStep
<1>5. FullInv'
  BY <1>1, <1>2, FullInvStep
<1>6. SettledInv'
  BY <1>1, SettledInvStep
<1> QED BY <1>2, <1>3, <1>4, <1>5, <1>6 DEF ShowInv

(* The requests in progress, their snapshots of GPIOio, the LEDs they lead to a    *)
(* steady state and those they blink once are as ShowInv says (boardLedCtrl).     *)
THEOREM ShowInvariant == LedSpec => []ShowInv
<1>1. LedInit => ShowInv
  BY ShowInvInit
<1>2. LedInv /\ LedInv' /\ MapInv /\ MapInv' /\ ShowInv /\ [LedNext]_ledVars => ShowInv'
  BY ShowInvStep
<1> QED BY <1>1, <1>2, LedInvariant, MapInvariant, PTL DEF LedSpec

(* An LED that no timer disturbed since its last complete steady request shows     *)
(* its ledState on its pins outside its own requests: blinking once toggles it    *)
(* and the timer toggles it back (boardLedCtrl, ledToggle and ledTimerExpire).    *)
THEOREM SettledAlwaysShows == LedSpec => []SettledShowsState
<1>1. LedInv /\ ShowInv => SettledShowsState
  <2> SUFFICES ASSUME LedInv, ShowInv, NEW i \in settled, call.pc = "idle" \/ call.led # i
               PROVE  Shows(led[i])
    BY DEF SettledShowsState
  <2>1. Shown(led[i], gpio)
    BY DEF ShowInv, SettledInv
  <2>2. led[i] \in LedRec
    BY TypeParts DEF LedInv, LedTypes
  <2> QED BY <2>1, <2>2, ShownIsShows
<1> QED BY <1>1, LedInvariant, ShowInvariant, PTL

------------------------------------------------------------------------------------
(* The colours of an LED. *)

(* A colour with a hardware handler is not on a pin: brcm_board_init leaves the    *)
(* pins marked BP_HW_DEFINED out of the mapping, and the handlers that are        *)
(* registered are those of such LEDs.                                             *)
HandlersReplacePins ==
    \A m \in LedMaps : \A i \in DOMAIN m : \A c \in Colours :
        m[i].name \in HwNames[c] => m[i][c] = None

(* The LED is on outside its blinks. *)
Green(n) ==
    IF n \in handlers["norm"] THEN hwOut["norm"][n] = "On"
                              ELSE virt[n] # 0 /\ Base(led[virt[n]]) = "On"

(* Nothing is registered or on during the initialisation. *)
InitOff ==
    ~Initialised => /\ \A c \in Colours : handlers[c] = {}
                    /\ \A i \in 1 .. cur : led[i].state = "Off"

(* A name without a handler has not called one. *)
HwInv ==
    \A c \in Colours : /\ handlers[c] \subseteq HwNames[c]
                       /\ \A n \in Names \ handlers[c] : hwOut[c][n] = "Off"

OnHasPin == \A i \in 1 .. cur : Base(led[i]) = "On" => led[i].norm # None

(* The pin of the failure LED is written before its state is. *)
FailWritten ==
    call.pc = "state" /\ Head(call.todo).c = "fail" =>
        (led[call.led].fail \in gpio <=> Head(call.todo).lit)

(* The outputs left to a request: when only the LED's own colour is left, the       *)
(* complementary one is off.                                                      *)
OutsInv ==
    call.pc \in {"output", "write", "state"} =>
        LET s == call.todo
            n == call.name
        IN  /\ Len(s) <= 2
            /\ Len(s) = 2 => s[1].state = "Off" /\ s[1].c # s[2].c
            /\ \A k \in 1 .. Len(s) :
                   /\ s[k].hw => n \in handlers[s[k].c]
                   /\ s[k].c = "fail" => /\ s[k].state \in {"Off", "Fail"}
                                         /\ s[k].lit <=> s[k].state = "Fail"
                   /\ s[k].state = "Fail" => s[k].c = "fail"
            /\ Alone(n) =>
                   /\ \A k \in 1 .. Len(s) :
                          s[k].hw \/ s[k].state = "BlinkOnce" \/ n \notin handlers[s[k].c]
                   /\ Len(s) = 1 /\ s[1].state = "On" => ~RedOn(n)
                   /\ Len(s) = 1 /\ s[1].state = "Fail" => ~Green(n)

Coloured == Initialised => \A n \in Names : Alone(n) => ~(Green(n) /\ RedOn(n))

(* A name that has its board LED for itself has no pin for a colour with a handler. *)
LEMMA HandlerPins ==
    ASSUME LedInv, MapInv, HwInv, HandlersReplacePins, Initialised,
           NEW n \in Names, NEW c \in Colours, Alone(n), n \in handlers[c], virt[n] # 0
    PROVE  led[virt[n]][c] = None
<1> SUFFICES ASSUME led[virt[n]][c] # None PROVE FALSE
  OBVIOUS
<1> DEFINE p == virt[n]
<1>1. /\ map \in LedMaps /\ map \in Seq(MapPair) /\ p \in 1 .. cur /\ cur \in Nat
      /\ idx - 1 = Len(map) /\ virt \in [Names -> 0 .. cur]
  <2>1. map \in LedMaps /\ virt \in [Names -> 0 .. cur] /\ cur \in Nat
    BY TypeParts DEF LedInv, LedTypes
  <2>2. map \in Seq(MapPair)
    BY <2>1, LedAssumption
  <2>3. idx - 1 = Len(map)
    BY TypeParts DEF LedInv, LedTypes, Initialised
  <2> QED BY <2>1, <2>2, <2>3
<1>2. PICK i \in 1 .. Len(map) : led[p].norm = map[i].norm /\ led[p].fail = map[i].fail
  BY <1>1 DEF MapInv, FromTable
<1>3. map[i][c] = led[p][c] /\ map[i].name \in Names /\ i \in DOMAIN map
  <2>1. map[i] \in MapPair /\ i \in DOMAIN map
    BY <1>1
  <2>2. map[i].name \in Names
    BY <2>1 DEF MapPair
  <2> QED BY <1>2, <2>1, <2>2 DEF Colours
<1> DEFINE q == virt[map[i].name]
<1>4. q # 0 /\ led[q][c] = map[i][c] /\ q \in 1 .. cur
  <2>1. cur > 0
    BY <1>1
  <2>2. q # 0 /\ led[q][c] = map[i][c]
    BY <1>1, <1>3, <2>1 DEF MapInv, Reached
  <2> QED BY <1>1, <1>3, <2>2
<1>5. q = p
  BY <1>1, <1>3, <1>4 DEF MapInv, PinsApart
<1>6. map[i].name = n
  BY <1>3, <1>4, <1>5 DEF Alone
<1>7. n \in HwNames[c]
  BY DEF HwInv
<1> QED BY <1>1, <1>3, <1>6, <1>7 DEF HandlersReplacePins

(* Steps that turn no LED on and change no pin of a failure LED. *)
ColoursKept ==
    /\ PinsKept /\ UNCHANGED <<handlers, hwOut>>
    /\ \A i \in 1 .. cur :
           /\ Base(led'[i]) = "On" => Base(led[i]) = "On"
           /\ led[i].fail # None => (led[i].fail \in gpio' <=> led[i].fail \in gpio)

LEMMA ColourFrame ==
    ASSUME LedInv, LedInv', ColoursKept
    PROVE  /\ \A n \in Names : /\ Green(n)' => Green(n)
                               /\ RedOn(n)' => RedOn(n)
                               /\ Alone(n)' <=> Alone(n)
           /\ HwInv => HwInv'
           /\ OnHasPin => OnHasPin'
           /\ Coloured => Coloured'
<1>1. /\ UNCHANGED <<map, idx, cur, virt>> /\ UNCHANGED <<handlers, hwOut>>
      /\ virt \in [Names -> 0 .. cur] /\ cur \in Nat
  BY TypeParts DEF ColoursKept, PinsKept, initVars, LedInv, LedTypes
<1>2. \A i \in 1 .. cur : led'[i].norm = led[i].norm /\ led'[i].fail = led[i].fail
  BY DEF ColoursKept, PinsKept
<1>3. ASSUME NEW n \in Names PROVE Green(n)' => Green(n)
  <2>1. virt[n] # 0 => virt[n] \in 1 .. cur
    BY <1>1
  <2> QED BY <1>1, <2>1 DEF Green, ColoursKept
<1>4. ASSUME NEW n \in Names PROVE RedOn(n)' => RedOn(n)
  <2>1. virt[n] # 0 => virt[n] \in 1 .. cur
    BY <1>1
  <2>2. None \notin gpio'
    BY TypeParts, LedAssumption DEF LedInv, LedTypes
  <2> QED BY <1>1, <1>2, <2>1, <2>2 DEF RedOn, ColoursKept
<1>5. ASSUME NEW n \in Names PROVE Alone(n)' <=> Alone(n)
  BY <1>1 DEF Alone
<1>6. HwInv => HwInv'
  BY <1>1 DEF HwInv
<1>7. OnHasPin => OnHasPin'
  BY <1>1, <1>2 DEF OnHasPin, ColoursKept
<1>8. Initialised' <=> Initialised
  BY <1>1 DEF Initialised
<1>9. Coloured => Coloured'
  BY <1>3, <1>4, <1>5, <1>8 DEF Coloured
<1> QED BY <1>3, <1>4, <1>5, <1>6, <1>7, <1>9

LEMMA InitOffStep == LedInv /\ InitOff /\ [LedNext]_ledVars => InitOff'
<1> SUFFICES ASSUME LedInv, InitOff, [LedNext]_ledVars, ~Initialised' PROVE InitOff'
  BY DEF InitOff
<1>1. CASE LedInitEntry
  <2>1. /\ ~Initialised /\ handlers' = handlers
    BY <1>1 DEF LedInitEntry
  <2>2. \A i \in 1 .. cur' : led'[i].state = "Off"
    <3>1. cur \in Nat
      BY <1>1, InitEntryLeds
    <3>2. CASE cur' = cur /\ \A i \in 1 .. cur : led'[i].state = led[i].state
      BY <2>1, <3>2 DEF InitOff
    <3>3. CASE /\ cur' = cur + 1 /\ led'[cur + 1].state = "Off"
               /\ \A i \in 1 .. cur : led'[i] = led[i]
      <4>1. \A i \in 1 .. cur + 1 : i \in 1 .. cur \/ i = cur + 1
        BY <3>1
      <4> QED BY <2>1, <3>3, <4>1 DEF InitOff
    <3> QED BY <1>1, <3>2, <3>3, InitEntryLeds
  <2> QED BY <2>1, <2>2 DEF InitOff
<1>2. CASE LedInitNoMem
  <2>1. idx' = Len(map) + 1 /\ map' = map /\ Len(map) \in Nat
    BY <1>2, TypeParts, LedAssumption DEF LedInitNoMem, LedInv, LedTypes
  <2> QED BY <2>1 DEF Initialised
<1>3. CASE ~LedInitEntry /\ ~LedInitNoMem
  <2>1. UNCHANGED <<map, idx, cur>> /\ ~Initialised
    <3>1. UNCHANGED <<map, idx, cur>>
      BY <1>3, LaterKeepsPins DEF PinsKept, initVars
    <3> QED BY <3>1 DEF Initialised
  <2>2. call.pc = "idle"
    BY <2>1, InProgress
  <2>3. CASE LedTimerExpire
    <3>1. \A i \in 1 .. cur : led'[i].state = "Off"
      BY <2>1, <2>3, StepLeds, ExpiredState DEF InitOff
    <3>2. handlers' = handlers
      BY <2>3 DEF LedTimerExpire
    <3> QED BY <2>1, <3>1, <3>2 DEF InitOff
  <2>4. CASE BlinkOnceTimerExpire \/ UNCHANGED ledVars
    <3>1. UNCHANGED <<led, handlers>>
      BY <2>4 DEF BlinkOnceTimerExpire, ledVars
    <3> QED BY <2>1, <3>1 DEF InitOff
  <2>5. CASE CtrlStep
    BY <2>2, <2>5 DEF CtrlStep, CallHwHandler, ReadGpio, WriteGpio, SetState,
                      TestBlinkOnce, SetCountDown, SetBlink, StartTimer
  <2>6. CASE \E n \in Names, c \in Colours : RegisterHwHandler(n, c)
    BY <2>1, <2>6 DEF RegisterHwHandler
  <2>7. CASE \E n \in Names, req \in States : BoardLedCtrl(n, req)
    BY <2>1, <2>7 DEF BoardLedCtrl
  <2> QED BY <1>3, <2>3, <2>4, <2>5, <2>6, <2>7 DEF LedNext
<1> QED BY <1>1, <1>2, <1>3

ColourInv == HwInv /\ OnHasPin /\ FailWritten /\ OutsInv /\ Coloured

LEMMA IdleOuts ==
    call'.pc \notin {"output", "write", "state"} => FailWritten' /\ OutsInv'
BY DEF FailWritten, OutsInv

(* The steps of the initialisation leave every LED off. *)
LEMMA InitColours ==
    ASSUME LedInv, LedInv', InitOff, InitOff', ColourInv,
           LedInitEntry \/ LedInitNoMem
    PROVE  ColourInv'
<1>1. /\ ~Initialised /\ UNCHANGED <<handlers, hwOut, call>> /\ call = Idle
  BY DEF LedInitEntry, LedInitNoMem, LedInv, CallConsistent
<1>2. FailWritten' /\ OutsInv'
  <2>1. call'.pc = "idle"
    BY <1>1 DEF Idle
  <2> QED BY <2>1, IdleOuts
<1>3. HwInv'
  BY <1>1 DEF ColourInv, HwInv
<1>4. \A i \in 1 .. cur' : led'[i].state = "Off"
  <2>1. CASE LedInitEntry
    <3>1. cur \in Nat
      BY <2>1, InitEntryLeds
    <3>2. CASE cur' = cur /\ \A i \in 1 .. cur : led'[i].state = led[i].state
      BY <1>1, <3>2 DEF InitOff
    <3>3. CASE /\ cur' = cur + 1 /\ led'[cur + 1].state = "Off"
               /\ \A i \in 1 .. cur : led'[i] = led[i]
      <4>1. \A i \in 1 .. cur + 1 : i \in 1 .. cur \/ i = cur + 1
        BY <3>1
      <4> QED BY <1>1, <3>3, <4>1 DEF InitOff
    <3> QED BY <2>1, <3>2, <3>3, InitEntryLeds
  <2>2. CASE LedInitNoMem
    BY <1>1, <2>2 DEF LedInitNoMem, InitOff
  <2> QED BY <2>1, <2>2
<1>5. \A i \in 1 .. cur' : Base(led'[i]) # "On"
  BY <1>4 DEF Base
<1>6. OnHasPin'
  BY <1>5 DEF OnHasPin
<1>7. \A n \in Names : ~Green(n)'
  <2> TAKE n \in Names
  <2>1. n \notin handlers'["norm"]
    BY <1>1 DEF InitOff, Colours
  <2>2. virt'[n] # 0 => virt'[n] \in 1 .. cur'
    BY TypeParts DEF LedInv, LedTypes
  <2> QED BY <1>5, <2>1, <2>2 DEF Green
<1> QED BY <1>2, <1>3, <1>6, <1>7 DEF ColourInv, Coloured

(* A handler that is registered has not been told to turn its LED on. *)
LEMMA RegisterColours ==
    ASSUME LedInv, ReqInv, ColourInv, NEW m \in Names, NEW c \in Colours,
           RegisterHwHandler(m, c)
    PROVE  ColourInv'
<1>1. /\ UNCHANGED <<map, idx, cur, virt, led, gpio, hwOut, call>> /\ call.pc = "idle"
      /\ Initialised /\ m \in HwNames[c] /\ m \notin handlers[c]
      /\ handlers' = [handlers EXCEPT ![c] = @ \cup {m}]
      /\ handlers \in [Colours -> SUBSET Names]
  BY TypeParts DEF RegisterHwHandler, initVars, LedInv, LedTypes
<1>2. FailWritten' /\ OutsInv'
  BY <1>1, IdleOuts
<1>3. \A d \in Colours : \A n \in Names :
          n \in handlers'[d] <=> n \in handlers[d] \/ (d = c /\ n = m)
  BY <1>1
<1>4. HwInv'
  BY <1>1, <1>3 DEF ColourInv, HwInv
<1>5. OnHasPin'
  BY <1>1 DEF ColourInv, OnHasPin
<1>6. hwOut[c][m] = "Off"
  BY <1>1 DEF ColourInv, HwInv
<1>7. \A n \in Names : (Green(n)' => Green(n)) /\ (RedOn(n)' => RedOn(n))
  <2> TAKE n \in Names
  <2>1. Green(n)' => Green(n)
    BY <1>1, <1>3, <1>6 DEF Green, Colours
  <2>2. RedOn(n)' => RedOn(n)
    BY <1>1, <1>3, <1>6 DEF RedOn, Colours
  <2> QED BY <2>1, <2>2
<1>8. \A n \in Names : Alone(n)' <=> Alone(n)
  BY <1>1 DEF Alone
<1> QED BY <1>1, <1>2, <1>4, <1>5, <1>7, <1>8 DEF ColourInv, Coloured

(* A request begins: without an output to the complementary LED, that LED is off. *)
LEMMA BeginColours ==
    ASSUME LedInv, MapInv, ColourInv, HandlersReplacePins, Initialised, NEW n \in Names,
           NEW r \in States, NEW outs \in Seq(Outputs), BeginsOutputs(n, r, outs),
           UNCHANGED <<map, idx, cur, virt, led, gpio, handlers, hwOut>>
    PROVE  OutsInv'
<1> DEFINE c == Colour(r)
<1>1. PICK hw \in BOOLEAN : OutputShape(n, r, hw, outs)
  BY DEF BeginsOutputs
<1>2. /\ c \in Colours /\ Other(c) \in Colours /\ Other(c) # c
      /\ c = "fail" <=> r = "Fail"
      /\ \A d \in Colours : d = "norm" \/ d = "fail"
  <2>1. c \in Colours /\ Other(c) \in Colours /\ Other(c) # c
    BY OthersDiffer
  <2> QED BY <2>1 DEF Colour, Colours
<1>3. /\ Len(outs) \in Nat /\ Len(outs) <= 2
      /\ Len(outs) = 2 => outs[1].c = Other(c) /\ outs[1].state = "Off" /\ outs[2].c = c
      /\ \A k \in 1 .. Len(outs) : outs[k].hw => n \in handlers[outs[k].c]
      /\ \A k \in 1 .. Len(outs) :
             ~outs[k].hw => virt[n] # 0 /\ led[virt[n]][outs[k].c] # None
  BY <1>1 DEF OutputShape
<1>4. \A k \in 1 .. Len(outs) :
          \/ outs[k].c = Other(c) /\ outs[k].state = "Off" /\ outs[k].lit = FALSE
          \/ outs[k].c = c /\ outs[k].state = r /\ outs[k].lit = (r # "Off")
  BY <1>1 DEF OutputShape
<1>5. \/ n \notin handlers[Other(c)] /\ (virt[n] = 0 \/ led[virt[n]][Other(c)] = None)
      \/ Len(outs) >= 1 /\ outs[1].c = Other(c) /\ outs[1].state = "Off"
  BY <1>1 DEF OutputShape
<1>6. call'.todo = outs /\ call'.name = n
  BY DEF BeginsOutputs
<1> HIDE DEF c
<1>7. \A k \in 1 .. Len(outs) :
          /\ outs[k].c = "fail" => /\ outs[k].state \in {"Off", "Fail"}
                                   /\ outs[k].lit <=> outs[k].state = "Fail"
          /\ outs[k].state = "Fail" => outs[k].c = "fail"
  BY <1>2, <1>4
<1>8. Len(outs) = 2 => outs[1].state = "Off" /\ outs[1].c # outs[2].c
  BY <1>2, <1>3
<1>9. ASSUME Alone(n), NEW k \in 1 .. Len(outs), ~outs[k].hw
      PROVE  n \notin handlers[outs[k].c]
  <2>1. virt[n] # 0 /\ led[virt[n]][outs[k].c] # None /\ outs[k].c \in Colours
    BY <1>2, <1>3, <1>4, <1>9
  <2> QED BY <1>9, <2>1, HandlerPins DEF ColourInv
<1>10. ASSUME Len(outs) = 1, outs[1].state = "On" PROVE ~RedOn(n)
  <2>1. c = "norm" /\ Other(c) = "fail"
    <3>1. r = "On"
      BY <1>4, <1>10
    <3> QED BY <1>2, <3>1 DEF Colours
  <2>2. n \notin handlers["fail"] /\ (virt[n] = 0 \/ led[virt[n]].fail = None)
    BY <1>5, <1>10, <2>1
  <2>3. None \notin gpio
    BY TypeParts, LedAssumption DEF LedInv, LedTypes
  <2> QED BY <2>2, <2>3 DEF RedOn
<1>11. ASSUME Len(outs) = 1, outs[1].state = "Fail" PROVE ~Green(n)
  <2>1. c = "fail" /\ Other(c) = "norm"
    <3>1. r = "Fail"
      BY <1>4, <1>11
    <3> QED BY <1>2, <3>1 DEF Colours
  <2>2. n \notin handlers["norm"] /\ (virt[n] = 0 \/ led[virt[n]].norm = None)
    BY <1>5, <1>11, <2>1
  <2>3. virt[n] # 0 => virt[n] \in 1 .. cur
    BY TypeParts DEF LedInv, LedTypes
  <2> QED BY <2>2, <2>3 DEF Green, ColourInv, OnHasPin
<1>12. (Alone(n)' <=> Alone(n)) /\ (RedOn(n)' <=> RedOn(n)) /\ (Green(n)' <=> Green(n))
  BY DEF Alone, RedOn, Green
<1>13. Alone(n)' =>
          /\ \A k \in 1 .. Len(outs) :
                 outs[k].hw \/ outs[k].state = "BlinkOnce" \/ n \notin handlers'[outs[k].c]
          /\ Len(outs) = 1 /\ outs[1].state = "On" => ~RedOn(n)'
          /\ Len(outs) = 1 /\ outs[1].state = "Fail" => ~Green(n)'
  BY <1>9, <1>10, <1>11, <1>12
<1>14. \A k \in 1 .. Len(outs) : outs[k].hw => n \in handlers'[outs[k].c]
  BY <1>3
<1> QED BY <1>3, <1>6, <1>7, <1>8, <1>13, <1>14 DEF OutsInv

LEMMA CtrlColours ==
    ASSUME LedInv, LedInv', MapInv, ReqInv, ColourInv, HandlersReplacePins,
           NEW n \in Names, NEW req \in States, BoardLedCtrl(n, req)
    PROVE  ColourInv'
<1>1. /\ UNCHANGED <<map, idx, cur, virt, led, gpio, handlers, hwOut>>
      /\ call.pc = "idle" /\ Initialised
  BY DEF BoardLedCtrl, initVars
<1>2. ColoursKept
  BY <1>1 DEF ColoursKept, PinsKept, initVars
<1>3. FailWritten'
  <2>1. CASE call' = call
    BY <1>1, <2>1, IdleOuts
  <2>2. CASE call' # call
    <3>1. call'.pc # "state"
      <4>1. call' = Idle \/ BeginsBlink(n) => call'.pc # "state"
        BY DEF BeginsBlink, Idle
      <4>2. \A r, outs : BeginsOutputs(n, r, outs) => call'.pc # "state"
        BY DEF BeginsOutputs
      <4> QED BY <2>2, <4>1, <4>2, CtrlBegins
    <3> QED BY <3>1 DEF FailWritten
  <2> QED BY <2>1, <2>2
<1>4. OutsInv'
  <2>1. CASE call' = call
    BY <1>1, <2>1, IdleOuts
  <2>2. CASE call' = Idle \/ BeginsBlink(n)
    <3>1. call'.pc \notin {"output", "write", "state"}
      BY <2>2 DEF BeginsBlink, Idle
    <3> QED BY <3>1, IdleOuts
  <2>3. ASSUME NEW r \in States, NEW outs \in Seq(Outputs), BeginsOutputs(n, r, outs)
        PROVE  OutsInv'
    BY <1>1, <2>3, BeginColours
  <2> QED BY <2>1, <2>2, <2>3, CtrlBegins
<1> QED BY <1>2, <1>3, <1>4, ColourFrame DEF ColourInv

(* The other outputs of a request when the first of two is done. *)
LEMMA SecondOutput ==
    ASSUME LedInv, OutsInv, call.pc \in {"output", "state"}, OutputDone,
           UNCHANGED <<virt, handlers>>, NEW n \in Names, n = call.name,
           Alone(n) /\ Len(call.todo) = 2 /\ call.todo[1].c = "fail" => ~RedOn(n)',
           Alone(n) /\ Len(call.todo) = 2 /\ call.todo[1].c = "norm" => ~Green(n)'
    PROVE  FailWritten' /\ OutsInv'
<1> DEFINE s == call.todo
<1>1. CASE call' = Idle
  <2>1. call'.pc = "idle"
    BY <1>1 DEF Idle
  <2> QED BY <2>1, IdleOuts
<1>2. CASE call' # Idle
  <2>1. /\ Len(s) > 1 /\ Len(s) \in Nat /\ call'.pc = "output" /\ call'.todo = Tail(s)
        /\ call'.name = n /\ s \in Seq(Outputs) /\ s # <<>>
    BY <1>2, OutputDoneCases
  <2>2. Len(s) = 2 /\ s[1].state = "Off" /\ s[1].c # s[2].c
    <3>1. Len(s) <= 2 /\ (Len(s) = 2 => s[1].state = "Off" /\ s[1].c # s[2].c)
      BY DEF OutsInv
    <3> DEFINE len == Len(s)
    <3>2. len \in Nat /\ len > 1 /\ len <= 2
      BY <2>1, <3>1
    <3> HIDE DEF len
    <3>3. len = 2
      BY <3>2
    <3> QED BY <3>1, <3>3 DEF len
  <2>3. Len(Tail(s)) = 1 /\ Tail(s)[1] = s[2] /\ 2 \in 1 .. Len(s) /\ 1 \in 1 .. Len(s)
    BY <2>1, <2>2, TailFacts
  <2>4. s[1].c \in {"norm", "fail"} /\ s[2].c \in {"norm", "fail"}
    <3>1. s[1] \in Outputs /\ s[2] \in Outputs
      BY <2>1, <2>3
    <3> QED BY <3>1 DEF Outputs, Colours
  <2>5. /\ s[2].hw => n \in handlers[s[2].c]
        /\ s[2].c = "fail" => s[2].state \in {"Off", "Fail"} /\ (s[2].lit <=> s[2].state = "Fail")
        /\ s[2].state = "Fail" => s[2].c = "fail"
        /\ Alone(n) => s[2].hw \/ s[2].state = "BlinkOnce" \/ n \notin handlers[s[2].c]
    BY <2>3 DEF OutsInv
  <2>6. Alone(n)' <=> Alone(n)
    BY DEF Alone
  <2>7. Alone(n) /\ s[2].state = "On" => ~RedOn(n)'
    <3>1. s[2].state = "On" => s[1].c = "fail"
      BY <2>2, <2>4, <2>5
    <3> QED BY <2>2, <3>1
  <2>8. Alone(n) /\ s[2].state = "Fail" => ~Green(n)'
    <3>1. s[2].state = "Fail" => s[1].c = "norm"
      BY <2>2, <2>4, <2>5
    <3> QED BY <2>2, <3>1
  <2>9. FailWritten'
    BY <2>1 DEF FailWritten
  <2> HIDE DEF s
  <2> DEFINE t == Tail(s)
  <2>10. \A k \in 1 .. Len(t) :
            /\ t[k].hw => n \in handlers'[t[k].c]
            /\ t[k].c = "fail" => /\ t[k].state \in {"Off", "Fail"}
                                  /\ t[k].lit <=> t[k].state = "Fail"
            /\ t[k].state = "Fail" => t[k].c = "fail"
    BY <2>3, <2>5
  <2>11. Alone(n)' =>
            /\ \A k \in 1 .. Len(t) :
                   t[k].hw \/ t[k].state = "BlinkOnce" \/ n \notin handlers'[t[k].c]
            /\ Len(t) = 1 /\ t[1].state = "On" => ~RedOn(n)'
            /\ Len(t) = 1 /\ t[1].state = "Fail" => ~Green(n)'
    BY <2>3, <2>5, <2>6, <2>7, <2>8
  <2>12. OutsInv'
    <3>1. call'.name = n /\ call'.todo = t /\ Len(t) = 1
      BY <2>1, <2>3
    <3> HIDE DEF t
    <3>2. Len(t) <= 2 /\ Len(t) # 2
      BY <3>1
    <3> QED BY <2>10, <2>11, <3>1, <3>2 DEF OutsInv
  <2> QED BY <2>9, <2>12
<1> QED BY <1>1, <1>2

(* The first output of a request in progress. *)
LEMMA FirstOutput ==
    ASSUME LedInv, call.pc \in {"output", "write", "state"}
    PROVE  /\ call.todo \in Seq(Outputs) /\ call.todo # <<>> /\ 1 \in 1 .. Len(call.todo)
           /\ Head(call.todo) = call.todo[1] /\ call.todo[1] \in Outputs
           /\ call.todo[1].c \in {"norm", "fail"} /\ call.todo[1].state \in States
           /\ call.name \in Names /\ Initialised /\ Len(call.todo) \in Nat
           /\ call.pc \in {"write", "state"} => ~call.todo[1].hw /\ call.led \in 1 .. cur
<1>1. /\ call.todo \in Seq(Outputs) /\ call.todo # <<>> /\ call.name \in Names
      /\ Initialised /\ CallConsistent
  BY InProgress DEF CallConsistent
<1>2. Len(call.todo) \in Nat /\ 1 \in 1 .. Len(call.todo) /\ Head(call.todo) = call.todo[1]
  BY <1>1, TailFacts
<1>3. call.todo[1] \in Outputs
  BY <1>1, <1>2
<1>4. call.todo[1].c \in {"norm", "fail"} /\ call.todo[1].state \in States
  BY <1>3 DEF Outputs, Colours
<1>5. call.pc \in {"write", "state"} => ~call.todo[1].hw /\ call.led \in 1 .. cur
  BY <1>1, <1>2 DEF CallConsistent, Leds
<1> QED BY <1>1, <1>2, <1>3, <1>4, <1>5

LEMMA CallHwColours ==
    ASSUME LedInv, LedInv', ReqInv, ColourInv, CallHwHandler
    PROVE  ColourInv'
<1> DEFINE s == call.todo
<1>1. /\ call.pc = "output" /\ s[1].hw /\ OutputDone
      /\ hwOut' = [hwOut EXCEPT ![s[1].c] = [@ EXCEPT ![call.name] = s[1].state]]
      /\ UNCHANGED <<map, idx, cur, virt, led, gpio, handlers>>
  BY FirstOutput DEF CallHwHandler, initVars
<1>2. PICK n \in Names : n = call.name
  BY <1>1, FirstOutput
<1>3. /\ s[1].c \in Colours /\ s[1].state \in States /\ 1 \in 1 .. Len(s) /\ Len(s) \in Nat
      /\ hwOut \in [Colours -> [Names -> States]] /\ Initialised
  BY <1>1, FirstOutput, TypeParts DEF LedInv, LedTypes, Colours
<1>4. /\ hwOut'[s[1].c][n] = s[1].state
      /\ \A c \in Colours : \A m \in Names :
             c # s[1].c \/ m # n => hwOut'[c][m] = hwOut[c][m]
  BY <1>1, <1>2, <1>3
<1>5. n \in handlers[s[1].c]
  BY <1>1, <1>2, <1>3 DEF ColourInv, OutsInv
<1>6. /\ s[1].state = "Fail" => s[1].c = "fail"
      /\ s[1].c = "fail" => s[1].state \in {"Off", "Fail"}
      /\ Len(s) <= 2 /\ (Len(s) = 2 => s[1].state = "Off")
      /\ Alone(n) /\ Len(s) = 1 /\ s[1].state = "On" => ~RedOn(n)
      /\ Alone(n) /\ Len(s) = 1 /\ s[1].state = "Fail" => ~Green(n)
  BY <1>1, <1>2, <1>3 DEF ColourInv, OutsInv
<1>7. s[1].state # "Off" => Len(s) = 1
  <2> DEFINE len == Len(s)
  <2>1. len \in Nat /\ len <= 2 /\ 1 \in 1 .. len /\ (len = 2 => s[1].state = "Off")
    BY <1>3, <1>6
  <2> HIDE DEF len
  <2>2. s[1].state # "Off" => len = 1
    BY <2>1
  <2> QED BY <2>2 DEF len
<1>8. HwInv'
  BY <1>1, <1>4, <1>5 DEF ColourInv, HwInv
<1>9. OnHasPin'
  BY <1>1 DEF ColourInv, OnHasPin
<1> HIDE DEF s
<1>10. ASSUME s[1].c = "fail"
       PROVE  /\ \A m \in Names : Green(m)' <=> Green(m)
              /\ \A m \in Names : m # n => (RedOn(m)' <=> RedOn(m))
              /\ RedOn(n)' <=> s[1].state = "Fail"
  <2>1. \A m \in Names : hwOut'["norm"][m] = hwOut["norm"][m]
    BY <1>4, <1>10 DEF Colours
  <2>2. \A m \in Names : m # n => hwOut'["fail"][m] = hwOut["fail"][m]
    BY <1>4, <1>10 DEF Colours
  <2>3. \A m \in Names : Green(m)' <=> Green(m)
    BY <1>1, <2>1 DEF Green
  <2>4. \A m \in Names : m # n => (RedOn(m)' <=> RedOn(m))
    BY <1>1, <2>2 DEF RedOn
  <2>5. RedOn(n)' <=> s[1].state = "Fail"
    BY <1>1, <1>4, <1>5, <1>10 DEF RedOn
  <2> QED BY <2>3, <2>4, <2>5
<1>11. ASSUME s[1].c = "norm"
       PROVE  /\ \A m \in Names : RedOn(m)' <=> RedOn(m)
              /\ \A m \in Names : m # n => (Green(m)' <=> Green(m))
              /\ Green(n)' <=> s[1].state = "On"
  <2>1. \A m \in Names : hwOut'["fail"][m] = hwOut["fail"][m]
    BY <1>4, <1>11 DEF Colours
  <2>2. \A m \in Names : m # n => hwOut'["norm"][m] = hwOut["norm"][m]
    BY <1>4, <1>11 DEF Colours
  <2>3. \A m \in Names : RedOn(m)' <=> RedOn(m)
    BY <1>1, <2>1 DEF RedOn
  <2>4. \A m \in Names : m # n => (Green(m)' <=> Green(m))
    BY <1>1, <2>2 DEF Green
  <2>5. Green(n)' <=> s[1].state = "On"
    BY <1>1, <1>4, <1>5, <1>11 DEF Green
  <2> QED BY <2>3, <2>4, <2>5
<1>12. s[1].c = "norm" \/ s[1].c = "fail"
  BY <1>3 DEF Colours
<1>13. \A m \in Names : Alone(m)' <=> Alone(m)
  BY <1>1 DEF Alone
<1>14. Coloured'
  <2> SUFFICES ASSUME NEW m \in Names, Alone(m) PROVE ~(Green(m)' /\ RedOn(m)')
    BY <1>13 DEF Coloured
  <2>1. ~(Green(m) /\ RedOn(m))
    BY <1>3 DEF ColourInv, Coloured
  <2>2. CASE s[1].c = "fail"
    BY <1>6, <1>7, <1>10, <2>1, <2>2
  <2>3. CASE s[1].c = "norm"
    BY <1>6, <1>7, <1>11, <2>1, <2>3
  <2> QED BY <1>12, <2>2, <2>3
<1>15. FailWritten' /\ OutsInv'
  <2>1. Len(call.todo) = 2 => s[1].state = "Off"
    BY <1>6 DEF s
  <2>2. Len(call.todo) = 2 /\ call.todo[1].c = "fail" => ~RedOn(n)'
    BY <1>10, <2>1 DEF s
  <2>3. Len(call.todo) = 2 /\ call.todo[1].c = "norm" => ~Green(n)'
    BY <1>11, <2>1 DEF s
  <2> QED BY <1>1, <1>2, <2>2, <2>3, SecondOutput DEF ColourInv
<1> QED BY <1>8, <1>9, <1>14, <1>15 DEF ColourInv

LEMMA SetStateColours ==
    ASSUME LedInv, LedInv', ReqInv, ColourInv, SetState
    PROVE  ColourInv'
<1> DEFINE s == call.todo
           l == call.led
<1>1. /\ call.pc = "state" /\ OutputDone
      /\ UNCHANGED <<map, idx, cur, virt, gpio, handlers, hwOut>>
  BY DEF SetState, initVars
<1>2. PICK n \in Names : n = call.name
  BY <1>1, FirstOutput
<1>3. /\ s[1].c \in {"norm", "fail"} /\ s[1].state \in States /\ ~s[1].hw
      /\ 1 \in 1 .. Len(s) /\ Len(s) \in Nat /\ Head(s) = s[1]
      /\ l \in 1 .. cur /\ Initialised /\ l = virt[n] /\ s[1].state # "BlinkOnce"
  <2>1. CallConsistent
    BY DEF LedInv
  <2> QED BY <1>1, <1>2, <2>1, FirstOutput DEF ReqInv, CallConsistent
<1>4. /\ \A i \in 1 .. cur : i # l => led'[i] = led[i]
      /\ led'[l].state = s[1].state /\ led'[l].saved = s[1].state
  BY <1>3, StepLeds
<1>5. \A i \in 1 .. cur : led'[i].norm = led[i].norm /\ led'[i].fail = led[i].fail
  <2>1. [LedNext]_ledVars
    BY DEF LedNext, CtrlStep
  <2> QED BY <1>3, <2>1, LaterKeepsPins DEF PinsKept, LedInitEntry, LedInitNoMem
<1>6. /\ s[1].state = "Fail" => s[1].c = "fail"
      /\ s[1].c = "fail" => /\ s[1].state \in {"Off", "Fail"}
                            /\ s[1].lit <=> s[1].state = "Fail"
      /\ Len(s) <= 2 /\ (Len(s) = 2 => s[1].state = "Off")
      /\ Alone(n) /\ Len(s) = 1 /\ s[1].state = "On" => ~RedOn(n)
      /\ Alone(n) => n \notin handlers[s[1].c]
  BY <1>1, <1>2, <1>3 DEF ColourInv, OutsInv
<1>7. s[1].state # "Off" => Len(s) = 1
  <2> DEFINE len == Len(s)
  <2>1. len \in Nat /\ len <= 2 /\ 1 \in 1 .. len /\ (len = 2 => s[1].state = "Off")
    BY <1>3, <1>6
  <2> HIDE DEF len
  <2>2. s[1].state # "Off" => len = 1
    BY <2>1
  <2> QED BY <2>2 DEF len
<1>8. HwInv'
  BY <1>1 DEF ColourInv, HwInv
<1>9. Base(led'[l]) = s[1].state
  BY <1>3, <1>4 DEF Base
<1>10. OnHasPin'
  <2>1. s[1].state = "On" => s[1].c = "norm"
    BY <1>3, <1>6
  <2>2. led[l][s[1].c] # None
    BY <1>1, <1>3 DEF ReqInv
  <2>3. s[1].state = "On" => led'[l].norm # None
    BY <1>3, <1>5, <2>1, <2>2
  <2>4. \A i \in 1 .. cur : Base(led'[i]) = "On" => led'[i].norm # None
    BY <1>4, <1>9, <2>3 DEF ColourInv, OnHasPin
  <2> QED BY <1>1, <2>4 DEF OnHasPin
<1>11. \A m \in Names : (RedOn(m)' <=> RedOn(m)) /\ (Alone(m)' <=> Alone(m))
  <2> TAKE m \in Names
  <2>1. virt[m] # 0 => virt[m] \in 1 .. cur
    BY TypeParts DEF LedInv, LedTypes
  <2>2. RedOn(m)' <=> RedOn(m)
    BY <1>1, <1>5, <2>1 DEF RedOn
  <2> QED BY <1>1, <2>2 DEF Alone
<1>12. \A m \in Names : Alone(m) /\ m # n => (Green(m)' <=> Green(m))
  <2> SUFFICES ASSUME NEW m \in Names, Alone(m), m # n PROVE Green(m)' <=> Green(m)
    OBVIOUS
  <2>1. virt[m] # 0 => virt[m] \in 1 .. cur /\ virt[m] # l
    <3>1. virt[m] # 0 => virt[m] \in 1 .. cur
      BY TypeParts DEF LedInv, LedTypes
    <3>2. virt[m] # 0 => virt[m] # l
      BY <1>3 DEF Alone
    <3> QED BY <3>1, <3>2
  <2> QED BY <1>1, <1>4, <2>1 DEF Green
<1> HIDE DEF s, l
<1>13. n \notin handlers["norm"] => (Green(n)' <=> s[1].state = "On")
  <2>1. virt'[n] = l /\ l # 0
    BY <1>1, <1>3
  <2> QED BY <1>1, <1>9, <2>1 DEF Green
<1>14. n \in handlers["norm"] => (Green(n)' <=> Green(n))
  BY <1>1 DEF Green
<1>15. Coloured'
  <2> SUFFICES ASSUME NEW m \in Names, Alone(m) PROVE ~(Green(m)' /\ RedOn(m)')
    BY <1>11 DEF Coloured
  <2>1. ~(Green(m) /\ RedOn(m))
    BY <1>3 DEF ColourInv, Coloured
  <2>2. CASE m # n
    BY <1>11, <1>12, <2>1, <2>2
  <2>3. CASE m = n
    BY <1>6, <1>7, <1>11, <1>13, <1>14, <2>1, <2>3
  <2> QED BY <2>2, <2>3
<1>16. FailWritten' /\ OutsInv'
  <2>1. Len(call.todo) = 2 => s[1].state = "Off"
    BY <1>6 DEF s
  <2>2. ASSUME Alone(n), s[1].state = "Off", s[1].c = "fail" PROVE ~RedOn(n)
    <3>1. led[l].fail \notin gpio
      BY <1>1, <1>3, <1>6, <2>2 DEF ColourInv, FailWritten, s, l
    <3> QED BY <1>3, <1>6, <2>2, <3>1 DEF RedOn
  <2>3. Alone(n) /\ Len(call.todo) = 2 /\ call.todo[1].c = "fail" => ~RedOn(n)'
    BY <1>11, <2>1, <2>2 DEF s
  <2>4. Alone(n) /\ Len(call.todo) = 2 /\ call.todo[1].c = "norm" => ~Green(n)'
    BY <1>6, <1>13, <2>1 DEF s
  <2> QED BY <1>1, <1>2, <2>3, <2>4, SecondOutput DEF ColourInv
<1> QED BY <1>8, <1>10, <1>15, <1>16 DEF ColourInv

(* A request goes on with the same outputs and leaves the colours alone. *)
LEMMA SameOuts ==
    ASSUME LedInv, LedInv', ColourInv, ColoursKept, SameCall,
           call.pc \in {"output", "write", "state"}
    PROVE  OutsInv'
<1>1. PICK n \in Names : n = call.name
  BY FirstOutput
<1>2. (Green(n)' => Green(n)) /\ (RedOn(n)' => RedOn(n)) /\ (Alone(n)' <=> Alone(n))
  BY ColourFrame
<1>3. /\ call'.todo = call.todo /\ call'.name = n /\ handlers' = handlers
  BY <1>1 DEF SameCall, ColoursKept
<1>4. Alone(n)' =>
          /\ \A k \in 1 .. Len(call.todo) : call.todo[k].hw
                 \/ call.todo[k].state = "BlinkOnce" \/ n \notin handlers[call.todo[k].c]
          /\ Len(call.todo) = 1 /\ call.todo[1].state = "On" => ~RedOn(n)'
          /\ Len(call.todo) = 1 /\ call.todo[1].state = "Fail" => ~Green(n)'
  BY <1>1, <1>2 DEF ColourInv, OutsInv
<1>5. /\ Len(call.todo) <= 2
      /\ Len(call.todo) = 2 =>
             call.todo[1].state = "Off" /\ call.todo[1].c # call.todo[2].c
      /\ \A k \in 1 .. Len(call.todo) :
             /\ call.todo[k].hw => n \in handlers[call.todo[k].c]
             /\ call.todo[k].c = "fail" => /\ call.todo[k].state \in {"Off", "Fail"}
                                           /\ call.todo[k].lit <=> call.todo[k].state = "Fail"
             /\ call.todo[k].state = "Fail" => call.todo[k].c = "fail"
  BY <1>1 DEF ColourInv, OutsInv
<1> QED BY <1>3, <1>4, <1>5 DEF OutsInv

LEMMA WriteColours ==
    ASSUME LedInv, LedInv', MapInv, ReqInv, SnapInv, ColourInv, WriteGpio
    PROVE  ColourInv'
<1> DEFINE s == call.todo
           l == call.led
<1>1. /\ call.pc = "write" /\ SameCall
      /\ UNCHANGED <<map, idx, cur, virt, led, handlers, hwOut>>
      /\ call'.pc = IF Head(s).state = "BlinkOnce" THEN "count" ELSE "state"
  BY StepCalls DEF WriteGpio, initVars
<1>2. PICK n \in Names : n = call.name
  BY <1>1, FirstOutput
<1>3. /\ s[1].c \in {"norm", "fail"} /\ ~s[1].hw
      /\ 1 \in 1 .. Len(s) /\ Len(s) \in Nat /\ Head(s) = s[1]
      /\ l \in 1 .. cur /\ Initialised /\ l = virt[n]
  BY <1>1, <1>2, FirstOutput DEF ReqInv
<1>4. ASSUME NEW i \in 1 .. cur, led[i].fail # None, i # l \/ s[1].c = "norm"
      PROVE  led[i].fail \in gpio' <=> led[i].fail \in gpio
  <2>1. led[i].fail \in gpio' <=> led[i].fail \in call.snap
    BY <1>3, <1>4, WritePins DEF Colours
  <2> QED BY <1>1, <1>4, <2>1 DEF SnapInv
<1>5. CASE s[1].c = "norm"
  <2>1. ColoursKept
    BY <1>1, <1>4, <1>5 DEF ColoursKept, PinsKept, initVars
  <2>2. OutsInv'
    BY <1>1, <2>1, SameOuts
  <2>3. FailWritten'
    <3>1. Head(call'.todo).c = "norm"
      BY <1>1, <1>3, <1>5 DEF SameCall
    <3> QED BY <3>1 DEF FailWritten
  <2> QED BY <2>1, <2>2, <2>3, ColourFrame DEF ColourInv
<1>6. CASE s[1].c = "fail"
  <2>1. /\ s[1].state \in {"Off", "Fail"} /\ (s[1].lit <=> s[1].state = "Fail")
        /\ Len(s) <= 2 /\ (Len(s) = 2 => s[1].state = "Off" /\ s[1].c # s[2].c)
        /\ Alone(n) /\ Len(s) = 1 /\ s[1].state = "Fail" => ~Green(n)
        /\ Alone(n) => /\ n \notin handlers[s[1].c]
    BY <1>1, <1>2, <1>3, <1>6 DEF ColourInv, OutsInv
  <2>2. s[1].state # "Off" => Len(s) = 1
    <3> DEFINE len == Len(s)
    <3>1. len \in Nat /\ len <= 2 /\ 1 \in 1 .. len /\ (len = 2 => s[1].state = "Off")
      BY <1>3, <2>1
    <3> HIDE DEF len
    <3>2. s[1].state # "Off" => len = 1
      BY <3>1
    <3> QED BY <3>2 DEF len
  <2>3. led[l].fail # None
    BY <1>1, <1>3, <1>6, <2>1 DEF ReqInv
  <2>4. led[l].fail \in gpio' <=> s[1].lit
    BY <1>3, <1>6, <2>3, WritePins DEF Colours
  <2>5. \A m \in Names : (Green(m)' <=> Green(m)) /\ (Alone(m)' <=> Alone(m))
    BY <1>1 DEF Green, Alone
  <2>6. HwInv' /\ OnHasPin'
    BY <1>1 DEF ColourInv, HwInv, OnHasPin
  <2>7. ASSUME NEW m \in Names, Alone(m), m # n PROVE RedOn(m)' => RedOn(m)
    <3>1. virt[m] # 0 => virt[m] \in 1 .. cur /\ virt[m] # l
      <4>1. virt[m] # 0 => virt[m] \in 1 .. cur
        BY TypeParts DEF LedInv, LedTypes
      <4>2. virt[m] # 0 => virt[m] # l
        BY <1>3, <2>7 DEF Alone
      <4> QED BY <4>1, <4>2
    <3>2. None \notin gpio'
      BY TypeParts, LedAssumption DEF LedInv, LedTypes
    <3>3. virt[m] # 0 /\ led[virt[m]].fail \in gpio' => led[virt[m]].fail \in gpio
      BY <1>4, <3>1, <3>2
    <3> QED BY <1>1, <3>3 DEF RedOn
  <2>8. Alone(n) => (RedOn(n)' <=> s[1].state = "Fail")
    <3>1. virt'[n] = l /\ l # 0 /\ led' = led /\ handlers' = handlers
      BY <1>1, <1>3
    <3> QED BY <1>6, <2>1, <2>4, <3>1 DEF RedOn
  <2>9. Coloured'
    <3> SUFFICES ASSUME NEW m \in Names, Alone(m) PROVE ~(Green(m)' /\ RedOn(m)')
      BY <2>5 DEF Coloured
    <3>1. ~(Green(m) /\ RedOn(m))
      BY <1>3 DEF ColourInv, Coloured
    <3>2. CASE m # n
      BY <2>5, <2>7, <3>1, <3>2
    <3>3. CASE m = n
      BY <2>1, <2>2, <2>5, <2>8, <3>3
    <3> QED BY <3>2, <3>3
  <2>10. call'.todo = s /\ call'.name = n /\ call'.led = l /\ call'.pc = "state"
    BY <1>1, <1>2, <1>3, <2>1 DEF SameCall
  <2>11. FailWritten'
    BY <1>1, <1>3, <2>4, <2>10 DEF FailWritten
  <2>12. OutsInv'
    <3>1. \A k \in 1 .. Len(s) :
              /\ s[k].hw => n \in handlers'[s[k].c]
              /\ s[k].c = "fail" => /\ s[k].state \in {"Off", "Fail"}
                                    /\ s[k].lit <=> s[k].state = "Fail"
              /\ s[k].state = "Fail" => s[k].c = "fail"
      BY <1>1, <1>2 DEF ColourInv, OutsInv
    <3>2. Alone(n) => \A k \in 1 .. Len(s) :
              s[k].hw \/ s[k].state = "BlinkOnce" \/ n \notin handlers'[s[k].c]
      BY <1>1, <1>2 DEF ColourInv, OutsInv
    <3>3. s[1].state # "On"
      BY <2>1
    <3>4. Alone(n)' =>
              /\ \A k \in 1 .. Len(s) :
                     s[k].hw \/ s[k].state = "BlinkOnce" \/ n \notin handlers'[s[k].c]
              /\ Len(s) = 1 /\ s[1].state = "On" => ~RedOn(n)'
              /\ Len(s) = 1 /\ s[1].state = "Fail" => ~Green(n)'
      BY <2>1, <2>5, <3>2, <3>3
    <3> HIDE DEF s, l
    <3> QED BY <2>1, <2>10, <3>1, <3>4 DEF OutsInv
  <2> QED BY <2>6, <2>9, <2>11, <2>12 DEF ColourInv
<1> QED BY <1>3, <1>5, <1>6

(* The steps that neither write a pin for a request nor set a steady state turn no *)
(* LED on, and no failure LED on or off.                                          *)
LEMMA QuietColours ==
    ASSUME LedInv, MapInv, ReqInv, SavedInv, ~LedInitEntry, ~LedInitNoMem,
           [LedNext]_ledVars,
           \/ ReadGpio \/ TestBlinkOnce \/ SetCountDown \/ SetBlink \/ StartTimer
           \/ LedTimerExpire \/ BlinkOnceTimerExpire \/ UNCHANGED ledVars
    PROVE  ColoursKept
<1>1. PinsKept
  BY LaterKeepsPins
<1>2. UNCHANGED <<handlers, hwOut>>
  BY DEF ReadGpio, TestBlinkOnce, SetCountDown, SetBlink, StartTimer, LedTimerExpire,
         BlinkOnceTimerExpire, ledVars
<1>3. ASSUME NEW i \in 1 .. cur
      PROVE  led[i].fail # None => (led[i].fail \in gpio' <=> led[i].fail \in gpio)
  <2>1. CASE LedTimerExpire
    BY <1>3, <2>1, TimerPins
  <2>2. CASE gpio' = gpio
    BY <2>2
  <2> QED BY <2>1, <2>2 DEF ReadGpio, TestBlinkOnce, SetCountDown, SetBlink, StartTimer,
             BlinkOnceTimerExpire, ledVars
<1>4. ASSUME NEW i \in 1 .. cur, Base(led'[i]) = "On" PROVE Base(led[i]) = "On"
  <2>1. CASE led' = led
    BY <1>4, <2>1
  <2>2. CASE SetCountDown
    <3>1. led'[i].state = led[i].state /\ led'[i].saved = led[i].saved
      BY <1>4, <2>2, StepLeds
    <3> QED BY <1>4, <3>1 DEF Base
  <2>3. CASE SetBlink
    <3>1. CASE i # call.led
      BY <1>4, <2>3, <3>1, StepLeds
    <3>2. CASE i = call.led
      <4>1. call.req \notin Steady
        BY <2>3 DEF SetBlink, ReqInv
      <4>2. /\ led'[i].state = call.req
            /\ led'[i].saved = IF call.req = "BlinkOnce" THEN led[i].saved ELSE call.req
        BY <1>4, <2>3, <3>2, StepLeds
      <4>3. call.req = "BlinkOnce" /\ led[i].saved = "On"
        BY <1>4, <4>1, <4>2 DEF Base, Steady
      <4> QED BY <1>4, <4>3 DEF Base, SavedInv
    <3> QED BY <3>1, <3>2
  <2>4. CASE LedTimerExpire
    <3>1. /\ led'[i].state = IF led[i].state = "BlinkOnce" THEN led[i].saved ELSE led[i].state
          /\ led'[i].state # "BlinkOnce"
      BY <1>4, <2>4, StepLeds, ExpiredState
    <3> QED BY <1>4, <3>1 DEF Base
  <2> QED BY <2>1, <2>2, <2>3, <2>4 DEF ReadGpio, TestBlinkOnce, StartTimer,
             BlinkOnceTimerExpire, ledVars
<1> QED BY <1>1, <1>2, <1>3, <1>4 DEF ColoursKept

LEMMA QuietOuts ==
    ASSUME LedInv, LedInv', ReqInv, ColourInv, ColoursKept,
           \/ ReadGpio \/ TestBlinkOnce \/ SetCountDown \/ SetBlink \/ StartTimer
           \/ LedTimerExpire \/ BlinkOnceTimerExpire \/ UNCHANGED ledVars
    PROVE  FailWritten' /\ OutsInv'
<1>1. CASE call'.pc \notin {"output", "write", "state"}
  BY <1>1, IdleOuts
<1>2. CASE SameCall /\ call.pc = "output" /\ call'.pc = "write"
  BY <1>2, SameOuts DEF FailWritten
<1>3. CASE SameCall /\ call'.pc = call.pc /\ call.pc \in {"output", "write", "state"}
  <2>1. OutsInv'
    BY <1>3, SameOuts
  <2>2. FailWritten'
    <3> SUFFICES ASSUME call.pc = "state", Head(call.todo).c = "fail"
                 PROVE  led'[call.led].fail \in gpio' <=> Head(call.todo).lit
      BY <1>3 DEF FailWritten, SameCall
    <3>1. call.led \in 1 .. cur /\ led[call.led].fail # None
      BY <1>3, FirstOutput DEF LedInv, CallConsistent, ReqInv
    <3>2. led'[call.led].fail = led[call.led].fail
          /\ (led[call.led].fail \in gpio' <=> led[call.led].fail \in gpio)
      BY <3>1 DEF ColoursKept, PinsKept
    <3> QED BY <3>2 DEF ColourInv, FailWritten
  <2> QED BY <2>1, <2>2
<1>4. CASE ReadGpio
  BY <1>2, <1>4, StepCalls DEF ReadGpio
<1>5. CASE LedTimerExpire
  BY <1>1, <1>3, <1>5, StepCalls
<1>6. CASE BlinkOnceTimerExpire \/ UNCHANGED ledVars
  <2>1. call' = call
    BY <1>6 DEF BlinkOnceTimerExpire, ledVars
  <2> QED BY <1>1, <1>3, <2>1 DEF SameCall
<1>7. CASE SetCountDown \/ SetBlink
  BY <1>1, <1>7, StepCalls
<1>8. CASE StartTimer
  BY <1>1, <1>8 DEF StartTimer, Idle
<1>9. CASE TestBlinkOnce /\ call'.pc = "output"
  <2>1. /\ Len(call'.todo) = 1 /\ call'.todo[1].hw = FALSE /\ call'.todo[1].c = "norm"
        /\ call'.todo[1].state = "BlinkOnce"
    <3>1. call' # Idle
      BY <1>9 DEF Idle
    <3> QED BY <1>9, <3>1, TestCases
  <2>2. \A k \in 1 .. Len(call'.todo) : k = 1
    BY <2>1
  <2>3. OutsInv'
    <3>1. Len(call'.todo) <= 2 /\ Len(call'.todo) # 2
      BY <2>1
    <3> QED BY <2>1, <2>2, <3>1 DEF OutsInv
  <2> QED BY <1>9, <2>3 DEF FailWritten
<1>10. CASE TestBlinkOnce /\ call'.pc # "output"
  <2>1. call' = Idle
    BY <1>10, TestCases
  <2> QED BY <1>1, <2>1 DEF Idle
<1> QED BY <1>4, <1>5, <1>6, <1>7, <1>8, <1>9, <1>10

LEMMA ColourInvStep ==
    HandlersReplacePins =>
        (LedInv /\ LedInv' /\ MapInv /\ ShowInv /\ InitOff /\ InitOff' /\ ColourInv
            /\ [LedNext]_ledVars => ColourInv')
<1> SUFFICES ASSUME HandlersReplacePins, LedInv, LedInv', MapInv, ShowInv, InitOff, InitOff',
                    ColourInv, [LedNext]_ledVars
             PROVE  ColourInv'
  OBVIOUS
<1>1. ReqInv /\ SavedInv /\ SnapInv
  BY DEF ShowInv
<1>2. CASE LedInitEntry \/ LedInitNoMem
  BY <1>2, InitColours
<1>3. CASE ~LedInitEntry /\ ~LedInitNoMem
  <2>1. CASE \E n \in Names, c \in Colours : RegisterHwHandler(n, c)
    BY <1>1, <2>1, RegisterColours
  <2>2. CASE \E n \in Names, req \in States : BoardLedCtrl(n, req)
    BY <1>1, <2>2, CtrlColours
  <2>3. CASE CallHwHandler
    BY <1>1, <2>3, CallHwColours
  <2>4. CASE WriteGpio
    BY <1>1, <2>4, WriteColours
  <2>5. CASE SetState
    BY <1>1, <2>5, SetStateColours
  <2>6. CASE \/ ReadGpio \/ TestBlinkOnce \/ SetCountDown \/ SetBlink \/ StartTimer
             \/ LedTimerExpire \/ BlinkOnceTimerExpire \/ UNCHANGED ledVars
    <3>1. ColoursKept
      BY <1>1, <1>3, <2>6, QuietColours
    <3>2. FailWritten' /\ OutsInv'
      BY <1>1, <2>6, <3>1, QuietOuts
    <3> QED BY <3>1, <3>2, ColourFrame DEF ColourInv
  <2> QED BY <1>3, <2>1, <2>2, <2>3, <2>4, <2>5, <2>6 DEF LedNext, CtrlStep
<1> QED BY <1>2, <1>3

LEMMA ColourInvInit == LedInit => InitOff /\ ColourInv
<1> SUFFICES ASSUME LedInit PROVE InitOff /\ ColourInv
  OBVIOUS
<1>1. /\ call = Idle /\ cur = 0 /\ virt = [n \in Names |-> 0]
      /\ handlers = [c \in Colours |-> {}]
      /\ hwOut = [c \in Colours |-> [n \in Names |-> "Off"]]
  BY DEF LedInit
<1>2. call.pc = "idle"
  BY <1>1 DEF Idle
<1>3. InitOff
  BY <1>1 DEF InitOff
<1>4. HwInv
  BY <1>1 DEF HwInv
<1>5. OnHasPin
  BY <1>1 DEF OnHasPin
<1>6. \A n \in Names : ~Green(n)
  BY <1>1 DEF Green, Colours
<1> QED BY <1>2, <1>3, <1>4, <1>5, <1>6 DEF ColourInv, FailWritten, OutsInv, Coloured

(* A green pin at rest that is lit belongs to an LED that is on. *)
LEMMA RestingGreen ==
    ASSUME LedInv, SettledShowsState, NEW n \in Names, GreenAtRest(n), GreenOn(n)
    PROVE  Green(n)
<1>1. CASE n \in handlers["norm"]
  BY <1>1 DEF Green, GreenOn
<1>2. CASE n \notin handlers["norm"]
  <2> DEFINE l == led[virt[n]]
  <2>1. virt[n] # 0 /\ l.norm \in gpio
    BY <1>2 DEF GreenOn
  <2>2. /\ virt[n] \in settled /\ l.state \in Steady
        /\ call.pc = "idle" \/ call.led # virt[n]
    BY <1>2, <2>1 DEF GreenAtRest
  <2>3. Shows(l)
    BY <2>2 DEF SettledShowsState
  <2>4. gpio \subseteq Pins
    BY DEF LedInv, LedTypeOK
  <2>5. l.norm # None
    BY <2>1, <2>4, LedAssumption
  <2> HIDE DEF l
  <2>6. l.state # "BlinkOnce" /\ Base(l) = l.state
    BY <2>2 DEF Steady, Base
  <2>7. l.state = "On"
    BY <2>1, <2>2, <2>3, <2>5, <2>6 DEF Shows
  <2> QED BY <1>2, <2>1, <2>6, <2>7 DEF Green, l
<1> QED BY <1>1, <1>2

(* An LED that a name has for itself never shows on and failure at the same time,  *)
(* on its pins or by its handlers, whenever the handlers are registered, provided  *)
(* that a colour with a handler has no pin as well and, for a green pin, that no   *)
(* timer has disturbed it (boardLedCtrl turns off the complementary LED first).    *)
THEOREM AlwaysOneColour == HandlersReplacePins /\ LedSpec => []OneColour
<1> SUFFICES ASSUME HandlersReplacePins PROVE LedSpec => []OneColour
  OBVIOUS
<1>1. LedInit => InitOff /\ ColourInv
  BY ColourInvInit
<1>2. LedInv /\ InitOff /\ [LedNext]_ledVars => InitOff'
  BY InitOffStep
<1>3. LedInv /\ LedInv' /\ MapInv /\ ShowInv /\ InitOff /\ InitOff' /\ ColourInv
          /\ [LedNext]_ledVars => ColourInv'
  BY ColourInvStep
<1>4. LedInv /\ ColourInv /\ SettledShowsState => OneColour
  <2> SUFFICES ASSUME LedInv, ColourInv, SettledShowsState, Initialised, NEW n \in Names,
                      Alone(n), GreenAtRest(n), GreenOn(n), RedOn(n)
               PROVE  FALSE
    BY DEF OneColour
  <2>1. Green(n)
    BY RestingGreen
  <2> QED BY <2>1 DEF ColourInv, Coloured
<1> QED BY <1>1, <1>2, <1>3, <1>4, LedInvariant, MapInvariant, ShowInvariant,
           SettledAlwaysShows, PTL DEF LedSpec
====================================================================================
