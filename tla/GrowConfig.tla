------------------------------ MODULE GrowConfig ------------------------------
(***************************************************************************)
(* The configuration of the fingerprint reader: what its schema and         *)
(* validate() accept, and the members of FingerprintGrowComponent once the  *)
(* setters that to_code generates have run.                                 *)
(***************************************************************************)
EXTENDS Integers

CONSTANT UINT32_MAX   \* 2^32 - 1; bound: smaller in instances

ASSUME WidthAssumption == UINT32_MAX \in Nat \ {0}

UInt32 == 0 .. UINT32_MAX
Unset  == -1    \* an option that is left out

\* The automations a configuration may have; each gets a trigger, which adds
\* itself to the callback of the same name.
Triggers == {"on_finger_scan_start", "on_finger_scan_matched",
             "on_finger_scan_unmatched", "on_finger_scan_misplaced",
             "on_finger_scan_invalid", "on_enrollment_scan",
             "on_enrollment_done", "on_enrollment_failed"}

\* Those of the sensor platform, and the binary sensor.
Sensors         == {"fingerprint_count", "status", "capacity", "security_level",
                    "last_finger_id", "last_confidence"}
EnrollingSensor == "enrolling"

\* CONFIG_SCHEMA
Schema ==
  [sensing_pin : BOOLEAN, sensor_power_pin : BOOLEAN,
   idle_period_to_sleep : UInt32 \cup {Unset},
   password : UInt32 \cup {Unset}, new_password : UInt32 \cup {Unset},
   automations : SUBSET Triggers, sensors : SUBSET (Sensors \cup {EnrollingSensor})]

\* validate
Validate(c) ==
  /\ c.sensor_power_pin => c.sensing_pin
  /\ c.idle_period_to_sleep # Unset => c.sensor_power_pin

Accepted == {c \in Schema : Validate(c)}

\* (mutant of Member: the member has no initialiser)
MemberUninitialised(option, initial) == option

\* A setter is generated for an option that is given; otherwise the member
\* keeps its initialiser.
Member(option, initial) == IF option = Unset THEN initial ELSE option

\* to_code, and the defaults of the members.  The initialiser of new_password_
\* is -1: that password cannot be asked for.
ToCode(c) ==
  [sensing_pin          |-> c.sensing_pin,
   sensor_power_pin     |-> c.sensor_power_pin,
   password             |-> Member(c.password, 0),
   new_password         |-> Member(c.new_password, UINT32_MAX),
   idle_period_to_sleep |-> Member(c.idle_period_to_sleep, UINT32_MAX),
   callbacks            |-> c.automations,
   sensors              |-> c.sensors]

\* What the model of the component distinguishes: setup() sets a password
\* when new_password_ is not -1.
Settings(firmware) ==
  [sensing_pin  |-> firmware.sensing_pin,
   power_pin    |-> firmware.sensor_power_pin,
   new_password |-> firmware.new_password # UINT32_MAX]
==============================================================================
