--------------------------- MODULE FingerprintGrow ---------------------------
(***************************************************************************)
(* FingerprintGrowComponent: the ESPHome component that drives a Grow       *)
(* fingerprint reader over a serial line.                                   *)
(*                                                                          *)
(* Everything runs on ESPHome's main loop.  update() is one long call that  *)
(* blocks in every exchange with the reader; it is cut here at the          *)
(* exchanges, because the finger moves while they last, and at the user     *)
(* callbacks, because an automation run by a callback may call the          *)
(* component's own actions (enroll, cancel, delete, ...) before update()    *)
(* continues.  pc says where update() or setup() is, plan the actions an    *)
(* automation has still to run: while plan is not empty, update() waits.    *)
(***************************************************************************)
EXTENDS GrowReply

CONSTANTS
  Configs,            \* [sensing_pin, power_pin, new_password : BOOLEAN]
  EnrollmentBuffers,  \* enrollment_buffers_: 5, never assigned again
  Automations,        \* what the automations on each callback may run
  MaxUnread           \* bound: late answers on the line at any time

Ops       == {"enroll", "cancel", "delete", "delete_all", "led"}
Callbacks == {"scan_start", "matched", "unmatched", "misplaced", "invalid",
              "enrollment_scan", "done", "button"}

ASSUME ConfigsAssumption ==
  \A c \in Configs : /\ c \in [sensing_pin : BOOLEAN, power_pin : BOOLEAN,
                               new_password : BOOLEAN]
                     /\ c.power_pin => c.sensing_pin
ASSUME BuffersAssumption == EnrollmentBuffers \in 1 .. 254
ASSUME AutomationsAssumption == Automations \in [Callbacks -> SUBSET Seq(Ops)]
ASSUME MaxUnreadAssumption == MaxUnread \in Nat

VARIABLES
  config,            \* the generated configuration
  state,             \* ESPHome's component state
  sensor_power_pin,  \* level driven on the power pin
  is_sensor_awake,
  enrollment_image,
  waiting_removal,
  enrolling,         \* last state published by the enrolling binary sensor
  pc, caller, result, \* position in update()/setup(), who called scan_image_
  plan,              \* actions the running automation has still to play
  unread,            \* answers sent by the reader and not seen yet
  finger,            \* what is on the reader (environment)
  lifted, fresh,     \* history: see Touches below
  template           \* history: what filled each feature buffer of the reader

power     == <<sensor_power_pin, is_sensor_awake>>
component == <<power, enrollment_image, waiting_removal, enrolling>>
control   == <<state, pc, caller, result, plan>>
history   == <<lifted, fresh, template>>
vars      == <<config, component, control, unread, finger, history>>
-----------------------------------------------------------------------------
Buffers   == 1 .. EnrollmentBuffers
Locations == {"setup", "verify_password", "set_password", "read_params",
              "params_count", "idle", "touched", "get_image", "image_2_tz",
              "scanned", "search", "next_image", "reg_model", "store", "done"}

TypeOK ==
  /\ config \in Configs
  /\ state \in {"setup", "loop", "failed"}
  /\ sensor_power_pin \in BOOLEAN
  /\ is_sensor_awake \in BOOLEAN
  /\ enrollment_image \in 0 .. EnrollmentBuffers + 1
  /\ waiting_removal \in BOOLEAN
  /\ enrolling \in {"unset", "on", "off"}
  /\ pc \in Locations
  /\ caller \in {"none", "removal", "match", "enroll"}
  /\ result \in Responses
  /\ plan \in Seq(Ops \cup {"count"})
  /\ unread \in Seq(Answers)
  /\ finger \in {"none", "misplaced", "placed"}
  /\ lifted \in BOOLEAN
  /\ fresh \in BOOLEAN
  /\ template \in [Buffers -> {"stale", "captured", "polled"}]

Init ==
  /\ config \in Configs
  /\ state = "setup"
  /\ sensor_power_pin = FALSE
  /\ is_sensor_awake = FALSE
  /\ enrollment_image = 0
  /\ waiting_removal = FALSE
  /\ enrolling = "unset"
  /\ pc = "setup"
  /\ caller = "none"
  /\ result = OK
  /\ plan = <<>>
  /\ unread = <<>>
  /\ finger = "none"
  /\ lifted = TRUE
  /\ fresh = FALSE
  /\ template = [b \in Buffers |-> "stale"]
-----------------------------------------------------------------------------
(* The reader and the line. *)

\* Without the pin, a finger that cannot be imaged is no finger.
Free == finger = "none" \/ (~config.sensing_pin /\ finger = "misplaced")

Powered == config.power_pin => sensor_power_pin

\* send_command_.  sensor_wakeup_, which it calls first, returns at once
\* whatever the power pin, so a reader without power stays without.
SendCommand(answers, r) ==
  \E o \in Outcomes(unread, IF Powered THEN answers ELSE {}, TIMEOUT) :
    /\ Len(o.unread) <= MaxUnread
    /\ r = o.response
    /\ unread' = o.unread

\* What the reader answers to GET_IMAGE depends on the finger.
ImageAnswers == IF finger = "placed" THEN {OK, IMAGE_FAIL, FAILURE}
                                     ELSE {NO_FINGER, FAILURE}

\* CallbackManager::call: the automation on the callback runs at once.
Call(callback) == plan' \in Automations[callback]

\* mark_failed
MarkFailed == state' = "failed" /\ pc' = "idle"

\* (mutants of EndEnrollment)
EndKeepsSensor == enrollment_image' = 0 /\ UNCHANGED enrolling
EndKeepsImage  == UNCHANGED enrollment_image /\ enrolling' = "off"

\* finish_enrollment, its part after the callbacks.  enrollment_slot_ never
\* holds a slot (its only assignment in enroll_fingerprint is commented out),
\* so the enrollment_failed callback of the other branch is never called.
EndEnrollment == enrollment_image' = 0 /\ enrolling' = "off"
-----------------------------------------------------------------------------
(* setup() *)

\* Power the reader off, through sensor_sleep_ as well when there is a pin.
SetupStart ==
  /\ pc = "setup"
  /\ pc' = "verify_password"
  /\ sensor_power_pin' = FALSE
  /\ is_sensor_awake' = FALSE
  /\ UNCHANGED <<config, enrollment_image, waiting_removal, enrolling, state,
                 caller, result, plan, unread, finger, history>>

\* check_password_
VerifyPassword ==
  /\ pc = "verify_password"
  /\ \E r \in Responses :
       /\ SendCommand({OK, FAILURE}, r)
       /\ IF r = OK
            THEN /\ pc' = IF config.new_password THEN "set_password"
                                                 ELSE "read_params"
                 /\ UNCHANGED state
            ELSE MarkFailed
  /\ UNCHANGED <<config, component, caller, result, plan, finger, history>>

\* set_password_, and the end of setup() when a new password is configured.
SetPassword ==
  /\ pc = "set_password"
  /\ \E r \in Responses :
       /\ SendCommand({OK, FAILURE}, r)
       /\ IF r = OK THEN state' = "loop" /\ pc' = "idle" ELSE MarkFailed
  /\ UNCHANGED <<config, component, caller, result, plan, finger, history>>

\* get_parameters_
GetParameters ==
  /\ pc = "read_params"
  /\ \E r \in Responses :
       /\ SendCommand({OK, FAILURE}, r)
       /\ IF r = OK
            THEN /\ pc' = "params_count"
                 /\ enrolling' = "off"
                 /\ UNCHANGED state
            ELSE MarkFailed /\ UNCHANGED enrolling
  /\ UNCHANGED <<config, power, enrollment_image,
                 waiting_removal, caller, result, plan, finger, history>>

\* get_fingerprint_count_ called by get_parameters_: its outcome is ignored.
ParametersCount ==
  /\ pc = "params_count"
  /\ \E r \in Responses : SendCommand({OK, FAILURE}, r)
  /\ state' = "loop"
  /\ pc' = "idle"
  /\ UNCHANGED <<config, component, caller, result, plan, finger, history>>
-----------------------------------------------------------------------------
(* update() *)

Touching  == finger # "none"      \* the sensing pin reads low
Polled    == state = "loop" /\ pc = "idle" /\ plan = <<>>

\* (mutants of AllImages: off by one, each way)
AllButOneImage  == enrollment_image >= EnrollmentBuffers
OneImageTooMany == enrollment_image > EnrollmentBuffers + 1

AllImages == enrollment_image > EnrollmentBuffers

\* More images than buffers: on to save_fingerprint_.
UpdateSave ==
  /\ Polled /\ AllImages
  /\ pc' = "reg_model"
  /\ UNCHANGED <<config, component, state, caller, result, plan, unread, finger,
                 history>>

\* (mutant of UpdateNoTouch: the removal is not noted)
UpdateNoTouchForgets ==
  /\ Polled /\ ~AllImages /\ config.sensing_pin /\ ~Touching
  /\ UNCHANGED vars

\* Nothing touches the sensing pin.  The idle period may have expired.
UpdateNoTouch ==
  /\ Polled /\ ~AllImages /\ config.sensing_pin /\ ~Touching
  /\ waiting_removal' = FALSE
  /\ \E expired \in BOOLEAN :
       IF enrollment_image = 0 /\ expired /\ is_sensor_awake
         THEN sensor_power_pin' = FALSE /\ is_sensor_awake' = FALSE
         ELSE UNCHANGED <<sensor_power_pin, is_sensor_awake>>
  /\ UNCHANGED <<config, enrollment_image, enrolling, control, unread, finger,
                 history>>

\* A new touch.  While waiting_removal_, a touch ends update(): no step.
UpdateTouch ==
  /\ Polled /\ ~AllImages /\ config.sensing_pin /\ Touching /\ ~waiting_removal
  /\ Call("scan_start")
  /\ pc' = "touched"
  /\ UNCHANGED <<config, component, state, caller, result, unread, finger, history>>

\* Without the pin, removal is seen by imaging into buffer 1.
UpdateRemoval ==
  /\ Polled /\ ~AllImages /\ ~config.sensing_pin /\ waiting_removal
  /\ pc' = "get_image"
  /\ caller' = "removal"
  /\ UNCHANGED <<config, component, state, result, plan, unread, finger, history>>

\* The image is for scan_and_match_ or for the enrolment.
UpdateScan ==
  /\ \/ Polled /\ ~AllImages /\ ~config.sensing_pin /\ ~waiting_removal
     \/ pc = "touched" /\ plan = <<>>
  /\ pc' = "get_image"
  /\ caller' = IF enrollment_image = 0 THEN "match" ELSE "enroll"
  /\ UNCHANGED <<config, component, state, result, plan, unread, finger, history>>
-----------------------------------------------------------------------------
(* scan_image_, its callers, and save_fingerprint_ *)

\* Touches: lifted says that the reader was free at some time after it took
\* the image last accepted (or now in question); fresh that it was free
\* between that image and the one now in question.
GetImage ==
  /\ pc = "get_image"
  /\ \E r \in Responses :
       /\ SendCommand(ImageAnswers, r)
       /\ result' = r
       /\ pc' = IF r = OK THEN "image_2_tz" ELSE "scanned"
       /\ IF r = OK
            THEN fresh' = lifted /\ lifted' = Free
            ELSE UNCHANGED <<fresh, lifted>>
       /\ waiting_removal' = (waiting_removal \/ (r = NO_FINGER /\ config.sensing_pin))
       /\ \/ r = NO_FINGER /\ config.sensing_pin /\ Call("misplaced")
          \/ r = IMAGE_FAIL /\ Call("invalid")
          \/ ~(r = NO_FINGER /\ config.sensing_pin) /\ r # IMAGE_FAIL /\ UNCHANGED plan
  /\ UNCHANGED <<config, power, enrollment_image,
                 enrolling, state, caller, finger, template>>

Image2Tz ==
  LET buffer == IF caller = "enroll" THEN enrollment_image ELSE 1
      filled == [enroll |-> "captured", removal |-> "polled", match |-> "stale"]
  IN
  /\ pc = "image_2_tz"
  /\ \E r \in Responses :
       /\ SendCommand({OK, BAD_IMAGE, FAILURE}, r)
       /\ result' = r
       /\ IF r = OK
            THEN template' = [template EXCEPT ![buffer] = filled[caller]]
            ELSE UNCHANGED template
       /\ lifted' = IF r = OK /\ caller # "removal" THEN lifted ELSE lifted \/ fresh
       /\ IF r = BAD_IMAGE THEN Call("invalid") ELSE UNCHANGED plan
  /\ pc' = "scanned"
  /\ UNCHANGED <<config, component, state, caller, finger, fresh>>

\* (mutant of RemovalScanned: any outcome of the scan is a removal)
RemovalScannedAnyway ==
  /\ pc = "scanned" /\ plan = <<>> /\ caller = "removal"
  /\ waiting_removal' = FALSE
  /\ pc' = "idle"
  /\ UNCHANGED <<config, power, enrollment_image, enrolling, state, caller, result,
                 plan, unread, finger, history>>

\* update() waiting for removal without a sensing pin.
RemovalScanned ==
  /\ pc = "scanned" /\ plan = <<>> /\ caller = "removal"
  /\ waiting_removal' = (waiting_removal /\ result # NO_FINGER)
  /\ pc' = "idle"
  /\ UNCHANGED <<config, power, enrollment_image,
                 enrolling, state, caller, result, plan, unread, finger, history>>

\* scan_and_match_ up to SEARCH
MatchScanned ==
  /\ pc = "scanned" /\ plan = <<>> /\ caller = "match"
  /\ IF result = OK THEN waiting_removal' = TRUE /\ pc' = "search"
                    ELSE UNCHANGED waiting_removal /\ pc' = "idle"
  /\ UNCHANGED <<config, power, enrollment_image,
                 enrolling, state, caller, result, plan, unread, finger, history>>

Search ==
  /\ pc = "search"
  /\ \E r \in Responses :
       /\ SendCommand({OK, NOT_FOUND, FAILURE}, r)
       /\ \/ r = OK /\ Call("matched")
          \/ r = NOT_FOUND /\ Call("unmatched")
          \/ r \notin {OK, NOT_FOUND} /\ UNCHANGED plan
  /\ pc' = "idle"
  /\ UNCHANGED <<config, component, state, caller, result, finger, history>>

\* update() after the scan of an enrolment image.
EnrollScanned ==
  /\ pc = "scanned" /\ plan = <<>> /\ caller = "enroll"
  /\ waiting_removal' = (waiting_removal \/ result # NO_FINGER)
  /\ \/ /\ result = NO_FINGER
        /\ pc' = "idle"
        /\ UNCHANGED <<plan, enrollment_image, enrolling>>
     \/ /\ result = OK
        /\ Call("enrollment_scan")
        /\ pc' = "next_image"
        /\ UNCHANGED <<enrollment_image, enrolling>>
     \/ /\ result \notin {NO_FINGER, OK}
        /\ EndEnrollment
        /\ pc' = "idle"
        /\ UNCHANGED plan
  /\ UNCHANGED <<config, power, state, caller, result,
                 unread, finger, history>>

\* ++enrollment_image_, once the enrollment_scan callback has returned.
NextImage ==
  /\ pc = "next_image" /\ plan = <<>>
  /\ enrollment_image' = (enrollment_image + 1) % 256
  /\ pc' = "idle"
  /\ UNCHANGED <<config, power, waiting_removal,
                 enrolling, state, caller, result, plan, unread, finger, history>>

RegModel ==
  /\ pc = "reg_model"
  /\ \E r \in Responses :
       /\ SendCommand({OK, FAILURE}, r)
       /\ IF r = OK
            THEN pc' = "store" /\ UNCHANGED <<enrollment_image, enrolling>>
            ELSE pc' = "idle" /\ EndEnrollment
  /\ UNCHANGED <<config, power, waiting_removal, state,
                 caller, result, plan, finger, history>>

\* STORE; finish_enrollment(OK) starts with its callback.
Store ==
  /\ pc = "store"
  /\ \E r \in Responses :
       /\ SendCommand({OK, FAILURE}, r)
       /\ IF r = OK
            THEN /\ Call("done")
                 /\ pc' = "done"
                 /\ UNCHANGED <<enrollment_image, enrolling>>
            ELSE pc' = "idle" /\ EndEnrollment /\ UNCHANGED plan
  /\ UNCHANGED <<config, power, waiting_removal, state,
                 caller, result, finger, history>>

\* finish_enrollment(OK) after the callback: get_fingerprint_count_, then idle.
DoneReturned ==
  /\ pc = "done" /\ plan = <<>>
  /\ \E r \in Responses : SendCommand({OK, FAILURE}, r)
  /\ EndEnrollment
  /\ pc' = "idle"
  /\ UNCHANGED <<config, power, waiting_removal, state,
                 caller, result, plan, finger, history>>
-----------------------------------------------------------------------------
(* The actions of automations: played inside a callback of update(), or     *)
(* between two updates on behalf of a button, a service call or a delayed   *)
(* continuation.                                                            *)

Playing(op) == plan # <<>> /\ Head(plan) = op

PressButton ==
  /\ state # "setup" /\ pc = "idle" /\ plan = <<>>
  /\ Call("button")
  /\ UNCHANGED <<config, component, state, pc, caller, result, unread, finger, history>>

\* enroll_fingerprint: the outcome of AUTO_ENROLL is only logged.
Enroll ==
  /\ Playing("enroll")
  /\ enrolling' = "on"
  /\ enrollment_image' = 1
  /\ \E r \in Responses : SendCommand({OK, FAILURE}, r)
  /\ plan' = Tail(plan)
  /\ template' = [b \in Buffers |-> "stale"]
  /\ UNCHANGED <<config, power, waiting_removal, state,
                 pc, caller, result, finger, lifted, fresh>>

\* CancelEnrollmentAction: finish_enrollment(1)
CancelEnrollment ==
  /\ Playing("cancel")
  /\ EndEnrollment
  /\ plan' = Tail(plan)
  /\ UNCHANGED <<config, power, waiting_removal, state,
                 pc, caller, result, unread, finger, history>>

\* delete_fingerprint, delete_all_fingerprints: on OK, the count is read again.
Delete ==
  /\ Playing("delete") \/ Playing("delete_all")
  /\ \E r \in Responses :
       /\ SendCommand({OK, FAILURE}, r)
       /\ plan' = IF r = OK THEN <<"count">> \o Tail(plan) ELSE Tail(plan)
  /\ UNCHANGED <<config, component, state, pc, caller, result, finger, history>>

\* led_control, aura_led_control and get_fingerprint_count_: one exchange.
Led ==
  /\ Playing("led") \/ Playing("count")
  /\ \E r \in Responses : SendCommand({OK, FAILURE}, r)
  /\ plan' = Tail(plan)
  /\ UNCHANGED <<config, component, state, pc, caller, result, finger, history>>
-----------------------------------------------------------------------------
(* The user's finger. *)
MoveFinger ==
  /\ finger' \in {"none", "misplaced", "placed"} \ {finger}
  /\ UNCHANGED <<config, component, control, unread, fresh, template>>
  /\ lifted' = (lifted \/ Free')

Setup  == \/ SetupStart \/ VerifyPassword \/ SetPassword \/ GetParameters
          \/ ParametersCount
Update == \/ UpdateSave \/ UpdateNoTouch \/ UpdateTouch \/ UpdateRemoval \/ UpdateScan
          \/ GetImage \/ Image2Tz \/ RemovalScanned \/ MatchScanned \/ Search
          \/ EnrollScanned \/ NextImage \/ RegModel \/ Store \/ DoneReturned
Play   == Enroll \/ CancelEnrollment \/ Delete \/ Led

Next == Setup \/ Update \/ Play \/ PressButton \/ MoveFinger

Spec == Init /\ [][Next]_vars

\* The main loop keeps running: a call under way goes on, the actions of an
\* automation are finite, and the scheduler polls update() however often
\* buttons are pressed in between (every loop iteration visits it).
FairSpec == Spec /\ WF_vars(Setup) /\ WF_vars(Play) /\ SF_vars(Update)
-----------------------------------------------------------------------------
(* Properties *)

\* The image counter and the enrolling sensor agree: the component is at an
\* enrolment image exactly while Home Assistant is told that it is enrolling
\* (update's "Not in enrolment process", enroll_fingerprint,
\* finish_enrollment), whatever automations run in the middle of update().
EnrollingInSync == (enrollment_image # 0) <=> (enrolling = "on")

\* A model is made of the images of one enrolment: when REG_MODEL is sent,
\* every buffer was filled by a scan that this enrolment accepted, and none
\* by an earlier enrolment, a match, or, with a sensing pin, by the polling
\* for removal.  (Without the pin that polling does refill buffer 1.)
ModelOfOneEnrollment ==
  pc = "reg_model" => \A b \in Buffers :
     template[b] \in IF b = 1 /\ ~config.sensing_pin THEN {"captured", "polled"}
                                                    ELSE {"captured"}

\* One touch is used once: between two accepted images (a SEARCH or an
\* enrolment scan) the reader was free.  With a sensing pin that holds
\* however late answers come; without it, as long as no more than two of
\* them are late at a time: a NO_FINGER that comes three commands late can be
\* taken for the removal of a finger that stays.
OneImagePerTouch ==
  [][pc = "scanned" /\ pc' \in {"search", "next_image"} => fresh]_vars

\* The reader has power whenever update() or setup() has sent it a command:
\* sensor_wakeup_ is to "return if there is no power pin or the sensor is
\* already on", and to power it on otherwise.
CommandsArePowered ==
  [][/\ pc \in {"verify_password", "set_password", "read_params", "get_image",
                 "image_2_tz", "search", "reg_model", "store"}
     /\ pc' # pc
       => Powered']_vars

\* The sequence of images, the enrolling sensor and the done callback follow
\* the abstract enrolment session.
SessionPhase == IF enrollment_image = 0 THEN "none"
                ELSE IF AllImages /\ pc = "done" THEN "announced" ELSE "open"
Session == INSTANCE EnrollmentSession WITH
  Images    <- EnrollmentBuffers,
  captures  <- IF enrollment_image = 0 THEN 0 ELSE enrollment_image - 1,
  phase     <- SessionPhase,
  indicator <- enrolling = "on"
FollowsSession == Session!Spec

\* With a sensing pin, a finger that stays away is noticed: the component
\* does not wait for its removal for ever.
RemovalNoticed ==
  config.sensing_pin /\ <>[](finger = "none") => <>[]~waiting_removal

\* A full set of images does not stay in the reader: it is stored or given up,
\* even if the reader falls silent.
ImagesAreResolved == AllImages ~> ~AllImages
==============================================================================
