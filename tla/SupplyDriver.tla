------------------------------ MODULE SupplyDriver ------------------------------
(***************************************************************************)
(* psu_control/ps2000.py and power_controller.py: the driver of the power  *)
(* supply byte by byte, one call at a time, first those that make a        *)
(* PowerController and then any of the public functions.  How the threads  *)
(* share the link is in SupplyLink, which takes from here that a telegram  *)
(* that is damaged, or comes with another, is not accepted.                *)
(***************************************************************************)
EXTENDS Telegram

CONSTANTS
    Nominals,     \* the supplies: nominal voltage and current
    Settings,     \* the values that are set, in tenths
    InitialSettings, \* initial_voltage and initial_current, in tenths
    Damage,       \* what may be added to a byte on its way, modulo 256
    MaxFaults     \* telegrams damaged, lost or refused

ASSUME DriverAssumption ==
    /\ Nominals \subseteq (1 .. 255) \X (1 .. 255)
    /\ Settings \subseteq Int
    /\ InitialSettings.voltage \in Nat /\ InitialSettings.current \in Nat
    /\ Damage \subseteq 1 .. 255
    /\ MaxFaults \in Nat

VARIABLES
    pc,           \* of the thread that makes the controller and then uses it
    config,       \* update_initial_state, initial_state, and whether all are given
    uNom, iNom,   \* u_nom and i_nom of the driver
    portOpen,
    nominal, words, remote, output,  \* of the supply
    last,         \* history: the last call and what came of it
    asked,        \* history: the value each object was last set to, when it was obeyed
    faults,       \* history: telegrams damaged, lost or refused
    failedAt      \* history: where __init__ raised

driver == <<uNom, iNom, portOpen>>
supply == <<words, remote, output>>
vars == <<pc, config, driver, nominal, supply, last, asked, faults, failedAt>>

None == "None"

\* Objects of the supply, by their numbers.
NominalVoltage == 2
NominalCurrent == 3
OVP == 38
OCP == 39
VOLTAGE == 50
CURRENT == 51
CONTROL == 54
Words == {OVP, OCP, VOLTAGE, CURRENT}

\* What a function of the driver sends: its kind tells how it reads the answer.
Query(kind, object) == [kind |-> kind, object |-> object, data |-> <<>>, value |-> 0]

Sent(call) == Construct(IF call.data = <<>> THEN QUERY ELSE SEND, call.object, call.data)

GetFloat(object) == Query("float", object)
GetInteger(object) == Query("integer", object)
GetControl == Query("control", CONTROL)

SetControl(mask, data) ==
    [kind |-> "set control", object |-> CONTROL, data |-> <<mask, data>>, value |-> data]
SetRemote(on) == SetControl(16, IF on THEN 16 ELSE 0)
SetOutput(on) == SetControl(1, IF on THEN 1 ELSE 0)

\* Which nominal value scales an object: the setter of the current threshold
\* takes that of the voltage.
ScaleOfSet(object) == IF object = CURRENT THEN iNom ELSE uNom

SetInteger(object, tenths) ==
    [kind |-> "set integer", object |-> object, value |-> tenths,
     data |-> Split(Word(tenths, ScaleOfSet(object)))]

-------------------------------------------------------------------------------
(* The supply                                                                *)

Verdict(code) == Construct(ANSWER, Acknowledged, <<code>>)
Data(object, data) == Construct(ANSWER, object, data)

Bit(condition) == IF condition THEN 1 ELSE 0

\* All but the telegrams that seize and release remote control need it.
Denied(call) ==
    ~remote /\ (call.kind = "set integer" \/ (call.kind = "set control" /\ call.data[1] = 1))

\* Access is denied without remote control, and values above the maximum are
\* refused, as is anything while the device is locked.
Verdicts(call) ==
    IF Denied(call) THEN {9}
    ELSE IF call.kind = "set integer" /\ 256 * call.data[1] + call.data[2] > FullScale THEN {48}
    ELSE IF faults < MaxFaults THEN {0, 15} ELSE {0}

Executed(call) ==
    /\ words' = IF call.kind = "set integer"
                THEN [words EXCEPT ![call.object] = 256 * call.data[1] + call.data[2]]
                ELSE words
    /\ remote' = IF call.kind = "set control" /\ call.data[1] = 16 THEN call.data[2] = 16 ELSE remote
    /\ output' = IF call.kind = "set control" /\ call.data[1] = 1 THEN call.data[2] = 1 ELSE output

Answer(call) ==
    CASE call.kind = "float" -> Data(call.object, <<nominal[IF call.object = NominalVoltage THEN 1 ELSE 2], 0, 0, 0>>)
      [] call.kind = "integer" -> Data(call.object, Split(words[call.object]))
      [] call.kind = "control" -> Data(CONTROL, <<Bit(remote), Bit(output)>>)
      [] OTHER -> Verdict(0)

\* One byte is changed; the answer to an earlier telegram comes before it.
Damaged(answer) ==
    {[answer EXCEPT ![i] = (@ + d) % 256] : i \in 1 .. Len(answer), d \in Damage}
Late == {Verdict(0) , Data(CONTROL, <<1, 1>>), Data(VOLTAGE, <<0, 0>>)}

-------------------------------------------------------------------------------
(* _transfer, and what the functions of the driver make of its answer         *)

\* _set_control: of the answer without its header.
Confirmed(binary) == Len(binary) > 1 /\ binary[1] = 255 /\ binary[2] = 0

\* struct.unpack and the bytes of a control need their length; an integer is
\* taken from where it should be.
Raises(call, answer) ==
    \/ ~Accepted(answer)
    \/ call.kind = "float" /\ Len(Binary(answer)) # 4
    \/ call.kind = "control" /\ Len(Binary(answer)) < 2
    \/ call.kind = "set control" /\ Binary(answer) \in {<<>>, <<255>>}

Result(call, answer) ==
    CASE call.kind = "float" -> Binary(answer)[1]
      [] call.kind = "control" -> Binary(answer)[2] % 2
      [] call.kind = "set control" -> Bit(Confirmed(Binary(answer)))
      [] OTHER -> Integer(answer)

Outcome(call, answer, how) ==
    [kind |-> call.kind, object |-> call.object, how |-> how, raised |-> Raises(call, answer),
     result |-> IF Raises(call, answer) THEN 0 ELSE Result(call, answer)]

Raised(call) ==
    [kind |-> call.kind, object |-> call.object, how |-> "nothing", raised |-> TRUE,
     result |-> 0]

Asks(call, verdict) ==
    asked' = IF call.kind = "set integer" /\ verdict = 0
             THEN [asked EXCEPT ![call.object] = <<call.value>>] ELSE asked

\* A call that does not reach the supply: it cannot be put in bytes, or the
\* port is closed.
NotSent(call) ==
    /\ ~portOpen \/ ~Constructible(Sent(call))
    /\ last' = Raised(call)
    /\ UNCHANGED <<supply, asked, faults>>

\* The supply obeys or refuses, and its answer comes whole.
Answered(call) ==
    /\ portOpen /\ Constructible(Sent(call))
    /\ \E verdict \in Verdicts(call) :
           /\ IF verdict = 0 THEN Executed(call) ELSE UNCHANGED supply
           /\ last' = IF verdict = 0 THEN Outcome(call, Answer(call), "own")
                                     ELSE Outcome(call, Verdict(verdict), "refusal")
           /\ Asks(call, verdict)
           /\ faults' = IF verdict = 15 THEN faults + 1 ELSE faults

\* It obeys, and its answer is damaged, lost, or read with a late one.
Garbled(call) ==
    /\ portOpen /\ Constructible(Sent(call)) /\ 0 \in Verdicts(call)
    /\ faults < MaxFaults /\ faults' = faults + 1
    /\ Executed(call) /\ Asks(call, 0)
    /\ \/ last' = Raised(call)
       \/ \E answer \in Damaged(Answer(call)) : last' = Outcome(call, answer, "garbled")
       \/ \E late \in Late : last' = Outcome(call, late \o Answer(call), "garbled")

Transfer(call) == NotSent(call) \/ Answered(call) \/ Garbled(call)

-------------------------------------------------------------------------------
(* PowerController.__init__                                                  *)

Init ==
    /\ pc = "validate" /\ failedAt = None
    /\ config \in [update : BOOLEAN, state : BOOLEAN, given : BOOLEAN]
    /\ ~config.update => config.given /\ ~config.state  \* as server.py calls it
    /\ uNom = 0 /\ iNom = 0 /\ portOpen = FALSE
    /\ nominal \in Nominals
    /\ words = [w \in Words |-> 0]
    /\ remote \in BOOLEAN /\ output \in BOOLEAN
    /\ last = Raised(GetControl) /\ asked = [w \in Words |-> <<>>] /\ faults = 0

\* Values that are missing raise before the port is opened.
Validate ==
    /\ pc = "validate"
    /\ IF config.update /\ ~config.given
       THEN pc' = "raised" /\ failedAt' = pc /\ UNCHANGED portOpen
       ELSE pc' = "open" /\ portOpen' = TRUE /\ UNCHANGED failedAt
    /\ UNCHANGED <<config, uNom, iNom, nominal, supply, last, asked, faults>>

Opening == {"open", "u_nom", "i_nom"}                    \* ps2000.__init__
Initialising == {"remote", "state", "voltage", "current", "output"}  \* init_device

CallAt(point) ==
    CASE point \in {"open", "remote"} -> SetRemote(TRUE)
      [] point = "u_nom" -> GetFloat(NominalVoltage)
      [] point = "i_nom" -> GetFloat(NominalCurrent)
      [] point = "state" -> GetControl
      [] point = "voltage" -> SetInteger(VOLTAGE, InitialSettings.voltage)
      [] point = "current" -> SetInteger(CURRENT, InitialSettings.current)
      [] point = "output" -> SetOutput(config.state)
      [] point = "release" -> SetRemote(FALSE)

\* mutant: the output is switched first.
AfterStateOutput == IF config.update /\ last'.result # Bit(config.state) THEN "output" ELSE "monitor"

\* The supply is set up only if its output has to be switched.
AfterState == IF config.update /\ last'.result # Bit(config.state) THEN "voltage" ELSE "monitor"

Following ==
    CASE pc = "open" -> "u_nom" [] pc = "u_nom" -> "i_nom" [] pc = "i_nom" -> "remote"
      [] pc = "remote" -> "state" [] pc = "state" -> AfterState
      [] pc = "voltage" -> "current" [] pc = "current" -> "output" [] pc = "output" -> "monitor"

\* mutant: the try covers what follows init_device only.
ShutsDownLate(point) == IF point = "monitor" THEN "release" ELSE "raised"

\* The driver is made outside the try whose except shuts down.
ShutsDown(point) == IF point \in Opening THEN "raised" ELSE "release"

\* No result is looked at but that of get_output_on; an exception is.
Initialise ==
    /\ pc \in Opening \cup Initialising
    /\ Transfer(CallAt(pc))
    /\ IF last'.raised
       THEN pc' = ShutsDown(pc) /\ failedAt' = pc /\ UNCHANGED <<uNom, iNom>>
       ELSE /\ pc' = Following /\ UNCHANGED failedAt
            /\ uNom' = IF pc = "u_nom" THEN last'.result ELSE uNom
            /\ iNom' = IF pc = "i_nom" THEN last'.result ELSE iNom
    /\ UNCHANGED <<config, portOpen, nominal>>

\* The log file of the monitor opens, or raises.
MakeMonitor ==
    /\ pc = "monitor"
    /\ \/ pc' = "ready" /\ UNCHANGED failedAt
       \/ pc' = ShutsDown(pc) /\ failedAt' = pc
    /\ UNCHANGED <<config, driver, nominal, supply, last, asked, faults>>

\* shutdown: close is not reached when set_remote raises.
Shutdown ==
    /\ pc = "release"
    /\ Transfer(CallAt(pc))
    /\ portOpen' = last'.raised
    /\ pc' = IF failedAt = None THEN "used" ELSE "raised"
    /\ UNCHANGED <<config, uNom, iNom, nominal, failedAt>>

\* The public functions, once the controller is made; a thread may still call
\* them after another has shut the controller down.
Use ==
    /\ pc \in {"ready", "used"}
    /\ \/ /\ \E object \in Words, tenths \in Settings : Transfer(SetInteger(object, tenths))
          /\ UNCHANGED pc
       \/ \E object \in Words : Transfer(GetInteger(object)) /\ UNCHANGED pc
       \/ \E on \in BOOLEAN : Transfer(SetOutput(on)) /\ UNCHANGED pc
       \/ Transfer(GetControl) /\ UNCHANGED pc
    /\ UNCHANGED <<config, driver, nominal, failedAt>>

EndUse ==
    /\ pc = "ready" /\ pc' = "release"
    /\ UNCHANGED <<config, driver, nominal, supply, last, asked, faults, failedAt>>

Next == Validate \/ Initialise \/ MakeMonitor \/ Shutdown \/ Use \/ EndUse

Spec == Init /\ [][Next]_vars

-------------------------------------------------------------------------------

\* "the checksum" is checked (ps2000.py:68-77): an answer with any one byte
\* changed, or that is read together with a late one, is never returned.
DamageIsSeen == last.how = "garbled" => last.raised

\* What a setter of the voltage, of its threshold or of the current had obeyed,
\* its getter returns, to half a step of the supply, on any supply
\* (ps2000.py:242-272).
SettingsReadBack ==
    last.kind = "integer" /\ last.how = "own" /\ asked[last.object] # <<>> /\ last.object # OCP
        => Reads(last.result, IF last.object = CURRENT THEN iNom ELSE uNom, asked[last.object][1])

\* The threshold of the current is scaled by the nominal voltage and read by the
\* nominal current (ps2000.py:250-256).  On a supply with fewer amperes than
\* volts the error is on the safe side: the output is cut at no more than asked.
OcpErrsLow ==
    asked[OCP] # <<>> /\ iNom <= uNom
        => 2 * (10 * iNom * words[OCP] - FullScale * asked[OCP][1]) <= 10 * iNom

\* "Initializing the device with {initial_voltage}V and {initial_current}A, then
\* turning it on" (power_controller.py:124-127): the output goes on with them
\* set, if the supply refused nothing.
OnOnlyWhenSet ==
    [][pc = "output" /\ ~output /\ output' /\ faults = 0 =>
           /\ Reads(words[VOLTAGE], uNom, InitialSettings.voltage)
           /\ Reads(words[CURRENT], iNom, InitialSettings.current)]_vars

\* A controller that could not be made gives the supply back and closes the
\* port, unless the driver itself could not be made or the telegram that gives
\* it back fails as well (power_controller.py:102-104, 155-160).
FailedInitReleases ==
    /\ pc = "raised" /\ failedAt \in Initialising /\ faults <= 1 => ~portOpen /\ ~remote
    /\ pc = "raised" /\ failedAt = "monitor" /\ faults = 0 => ~portOpen /\ ~remote
===============================================================================
