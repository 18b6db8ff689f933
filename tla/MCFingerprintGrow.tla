-------------------------- MODULE MCFingerprintGrow --------------------------
(* Instances of FingerprintGrow for TLC. *)
EXTENDS FingerprintGrow

Config(sensing, powered, password) ==
  [sensing_pin |-> sensing, power_pin |-> powered, new_password |-> password]

Yaml == INSTANCE GrowConfig WITH UINT32_MAX <- 1

\* Every combination of the options that validate() accepts, with all the
\* automations and sensors.
MCAllConfigs ==
  {Yaml!Settings(Yaml!ToCode(c)) :
     c \in {c \in [sensing_pin : BOOLEAN, sensor_power_pin : BOOLEAN,
                   idle_period_to_sleep : {Yaml!Unset, 1},
                   password : {Yaml!Unset}, new_password : {Yaml!Unset, 0, 1},
                   automations : {Yaml!Triggers}, sensors : {Yaml!Sensors}] :
              Yaml!Validate(c)}}
MCPoweredConfigs == {Config(s, FALSE, FALSE) : s \in BOOLEAN}
MCPowerPin       == {Config(TRUE, TRUE, FALSE)}

AnyOf(ops) == {<<>>} \cup {<<op>> : op \in ops}

\* Automations that leave the enrolment alone while a scan of it is reported.
MCPoliteAutomations ==
  [c \in Callbacks |->
    CASE c = "enrollment_scan" -> AnyOf({"led", "delete"})
      [] c = "button"          -> AnyOf(Ops) \cup {<<"cancel", "enroll">>}
      [] OTHER                 -> AnyOf({"enroll", "cancel", "led", "delete_all"})]

\* One that cancels the enrolment from on_enrollment_scan.
MCCancelOnScan ==
  [c \in Callbacks |-> CASE c = "enrollment_scan" -> {<<"cancel">>}
                         [] c = "button"          -> {<<"enroll">>}
                         [] OTHER                 -> {<<>>}]
==============================================================================
