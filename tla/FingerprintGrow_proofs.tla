------------------------ MODULE FingerprintGrow_proofs ------------------------
(***************************************************************************)
(* Proofs about FingerprintGrow, for every configuration, number of         *)
(* buffers, set of automations and number of late answers.                  *)
(***************************************************************************)
EXTENDS FingerprintGrow, SequenceTheorems, TLAPS

\* A suffix of a sequence is a sequence of the same elements.
LEMMA SuffixTypes ==
  ASSUME NEW S, NEW s \in Seq(S), NEW t \in Suffixes(s)
  PROVE  t \in Seq(S)
<1>1. CASE t = <<>>
  BY <1>1
<1>2. CASE \E l \in 1 .. Len(s) : t = SubSeq(s, l, Len(s))
  <2>1. PICK l \in 1 .. Len(s) : t = SubSeq(s, l, Len(s))
    BY <1>2
  <2> QED BY <2>1, SubSeqProperties
<1> QED BY <1>1, <1>2 DEF Suffixes

\* What an exchange with the reader returns and leaves on the line.
LEMMA OutcomeTypes ==
  ASSUME NEW A \in SUBSET Answers, NEW q \in Seq(Answers),
         NEW o \in Outcomes(q, A, TIMEOUT)
  PROVE  o.response \in Responses /\ o.unread \in Seq(Answers)
<1> DEFINE visible == Suffixes(q) \cup (UNION {Suffixes(Append(q, a)) : a \in A})
<1>1. \A s \in visible : s \in Seq(Answers)
  <2>1. \A a \in A : Append(q, a) \in Seq(Answers)
    OBVIOUS
  <2> QED BY <2>1, SuffixTypes
<1>2. CASE \E s \in visible : o = [response |-> TIMEOUT, unread |-> s]
  BY <1>1, <1>2 DEF Responses
<1>3. CASE \E s \in visible \ {<<>>} : o = [response |-> Head(s), unread |-> Tail(s)]
  <2>1. PICK s \in visible \ {<<>>} : o = [response |-> Head(s), unread |-> Tail(s)]
    BY <1>3
  <2>2. s \in Seq(Answers) /\ s # <<>>
    BY <1>1
  <2>3. Head(s) \in Answers /\ Tail(s) \in Seq(Answers)
    BY <2>2, HeadTailProperties
  <2> QED BY <2>1, <2>3 DEF Responses
<1> QED BY <1>2, <1>3 DEF Outcomes

\* On a line without late answers, what is returned is the reader's answer to
\* this command, or silence.
LEMMA FreshOutcome ==
  ASSUME NEW A \in SUBSET Answers, NEW o \in Outcomes(<<>>, A, TIMEOUT)
  PROVE  o.response \in A \cup {TIMEOUT}
<1> DEFINE visible == Suffixes(<<>>) \cup (UNION {Suffixes(Append(<<>>, a)) : a \in A})
<1>1. \A s \in visible : s # <<>> => Head(s) \in A
  <2> SUFFICES ASSUME NEW s \in visible, s # <<>> PROVE Head(s) \in A
    OBVIOUS
  <2>1. Suffixes(<<>>) = {<<>>}
    BY DEF Suffixes
  <2>2. PICK a \in A : s \in Suffixes(Append(<<>>, a))
    BY <2>1, Zenon
  <2>3. Append(<<>>, a) = <<a>>
    OBVIOUS
  <2>4. s \in Suffixes(<<a>>)
    BY <2>2, <2>3, Zenon
  <2>5. s = <<a>>
    BY <2>4 DEF Suffixes
  <2> QED BY <2>5
<1>2. CASE \E s \in visible : o = [response |-> TIMEOUT, unread |-> s]
  BY <1>2
<1>3. CASE \E s \in visible \ {<<>>} : o = [response |-> Head(s), unread |-> Tail(s)]
  BY <1>1, <1>3
<1> QED BY <1>2, <1>3 DEF Outcomes

\* send_command_ keeps the line's type, and yields a response.
LEMMA SendCommandTypes ==
  ASSUME TypeOK, NEW A \in SUBSET Answers, NEW r, SendCommand(A, r)
  PROVE  r \in Responses /\ unread' \in Seq(Answers)
<1>1. (IF Powered THEN A ELSE {}) \in SUBSET Answers
  OBVIOUS
<1>2. PICK o \in Outcomes(unread, IF Powered THEN A ELSE {}, TIMEOUT) :
        r = o.response /\ unread' = o.unread
  BY DEF SendCommand
<1>3. unread \in Seq(Answers)
  BY DEF TypeOK
<1> QED BY <1>1, <1>2, <1>3, OutcomeTypes

\* Automations play the component's actions.
LEMMA CallTypes ==
  ASSUME NEW c \in Callbacks, Call(c)
  PROVE  plan' \in Seq(Ops \cup {"count"})
<1>1. plan' \in Seq(Ops)
  BY AutomationsAssumption DEF Call
<1> QED BY <1>1

\* An image is only scanned while one is missing: this keeps the counter
\* within the buffers.
Scanning == pc \in {"touched", "get_image", "image_2_tz", "scanned", "next_image"}
ScansMissingImage == Scanning => enrollment_image <= EnrollmentBuffers
ScanHasCaller == pc \in {"get_image", "image_2_tz", "scanned"} => caller # "none"
Typing == TypeOK /\ ScansMissingImage /\ ScanHasCaller

LEMMA TypingInit == Init => Typing
<1> SUFFICES ASSUME Init PROVE Typing
  OBVIOUS
<1>1. plan \in Seq(Ops \cup {"count"}) /\ unread \in Seq(Answers)
  BY DEF Init
<1>2. result \in Responses
  BY DEF Init, Responses, Answers
<1>3. template \in [Buffers -> {"stale", "captured", "polled"}]
  BY DEF Init
<1>4. enrollment_image \in 0 .. EnrollmentBuffers + 1 /\ ScansMissingImage /\ ScanHasCaller
  BY BuffersAssumption DEF Init, ScansMissingImage, ScanHasCaller, Scanning
<1>5. pc \in Locations
  BY DEF Init, Locations
<1> QED BY <1>1, <1>2, <1>3, <1>4, <1>5 DEF Init, Typing, TypeOK

\* setup()
LEMMA TypingSetup == Typing /\ Setup => Typing'
<1> SUFFICES ASSUME Typing, Setup PROVE Typing'
  OBVIOUS
<1> USE DEF Typing, TypeOK, ScansMissingImage, ScanHasCaller, Scanning, Locations, history, component, power
<1>1. CASE SetupStart
  BY <1>1 DEF SetupStart
<1>2. ASSUME NEW r, SendCommand({OK, FAILURE}, r) PROVE unread' \in Seq(Answers)
  BY <1>2, SendCommandTypes DEF Answers
<1>3. CASE VerifyPassword
  BY <1>2, <1>3 DEF VerifyPassword, MarkFailed
<1>4. CASE SetPassword
  BY <1>2, <1>4 DEF SetPassword, MarkFailed
<1>5. CASE GetParameters
  BY <1>2, <1>5 DEF GetParameters, MarkFailed
<1>6. CASE ParametersCount
  BY <1>2, <1>6 DEF ParametersCount
<1> QED BY <1>1, <1>3, <1>4, <1>5, <1>6 DEF Setup

\* update() from its start to GET_IMAGE
LEMMA TypingPoll ==
  Typing /\ (UpdateSave \/ UpdateNoTouch \/ UpdateTouch \/ UpdateRemoval \/ UpdateScan)
    => Typing'
<1> USE BuffersAssumption
    DEF Typing, TypeOK, ScansMissingImage, ScanHasCaller, Scanning, Locations, history, component, power
<1>1. Typing /\ UpdateSave => Typing'
  BY DEF UpdateSave, Polled
<1>2. Typing /\ UpdateNoTouch => Typing'
  BY DEF UpdateNoTouch, Polled, control
<1>3. Typing /\ UpdateTouch => Typing'
  BY CallTypes DEF UpdateTouch, Polled, AllImages, Callbacks
<1>4. Typing /\ UpdateRemoval => Typing'
  BY DEF UpdateRemoval, Polled, AllImages
<1>5. Typing /\ UpdateScan => Typing'
  BY DEF UpdateScan, Polled, AllImages
<1> QED BY <1>1, <1>2, <1>3, <1>4, <1>5

\* scan_image_
LEMMA TypingScanImage == Typing /\ (GetImage \/ Image2Tz) => Typing'
<1> USE BuffersAssumption
    DEF Typing, TypeOK, ScansMissingImage, ScanHasCaller, Scanning, Locations, component, power
<1>1. ASSUME Typing, GetImage PROVE Typing'
  <2>1. PICK r \in Responses :
          /\ SendCommand(ImageAnswers, r)
          /\ result' = r
          /\ pc' = IF r = OK THEN "image_2_tz" ELSE "scanned"
          /\ IF r = OK
               THEN fresh' = lifted /\ lifted' = Free
               ELSE UNCHANGED <<fresh, lifted>>
          /\ waiting_removal' = (waiting_removal \/ (r = NO_FINGER /\ config.sensing_pin))
          /\ Call("misplaced") \/ Call("invalid") \/ UNCHANGED plan
    BY <1>1 DEF GetImage
  <2>2. ImageAnswers \in SUBSET Answers
    BY DEF ImageAnswers, Answers
  <2>3. unread' \in Seq(Answers)
    BY <1>1, <2>1, <2>2, SendCommandTypes
  <2>4. plan' \in Seq(Ops \cup {"count"})
    BY <1>1, <2>1, CallTypes DEF Callbacks
  <2>5. /\ waiting_removal' \in BOOLEAN
        /\ fresh' \in BOOLEAN
        /\ lifted' \in BOOLEAN
    BY <1>1, <2>1 DEF Free
  <2> QED BY <1>1, <2>1, <2>3, <2>4, <2>5 DEF GetImage
<1>2. ASSUME Typing, Image2Tz PROVE Typing'
  <2> DEFINE buffer == IF caller = "enroll" THEN enrollment_image ELSE 1
             filled == [enroll |-> "captured", removal |-> "polled", match |-> "stale"]
  <2>1. PICK r \in Responses :
          /\ SendCommand({OK, BAD_IMAGE, FAILURE}, r)
          /\ result' = r
          /\ IF r = OK
               THEN template' = [template EXCEPT ![buffer] = filled[caller]]
               ELSE UNCHANGED template
          /\ lifted' = IF r = OK /\ caller # "removal" THEN lifted ELSE lifted \/ fresh
          /\ IF r = BAD_IMAGE THEN Call("invalid") ELSE UNCHANGED plan
    BY <1>2 DEF Image2Tz
  <2>2. unread' \in Seq(Answers)
    BY <1>2, <2>1, SendCommandTypes DEF Answers
  <2>3. plan' \in Seq(Ops \cup {"count"})
    BY <1>2, <2>1, CallTypes DEF Callbacks
  <2>4. template' \in [Buffers -> {"stale", "captured", "polled"}]
    <3>1. caller \in {"enroll", "removal", "match"}
      BY <1>2 DEF Image2Tz
    <3>2. filled[caller] \in {"stale", "captured", "polled"}
      BY <3>1
    <3>3. template \in [Buffers -> {"stale", "captured", "polled"}]
      BY <1>2
    <3> HIDE DEF filled, buffer
    <3> QED BY <2>1, <3>2, <3>3
  <2>5. lifted' \in BOOLEAN
    BY <1>2, <2>1
  <2> QED BY <1>2, <2>1, <2>2, <2>3, <2>4, <2>5 DEF Image2Tz
<1> QED BY <1>1, <1>2

\* What update() does with an image.
LEMMA TypingImage ==
  Typing /\ (\/ RemovalScanned \/ MatchScanned \/ Search \/ EnrollScanned
             \/ NextImage \/ RegModel \/ Store \/ DoneReturned) => Typing'
<1> USE BuffersAssumption
    DEF Typing, TypeOK, ScansMissingImage, ScanHasCaller, Scanning, Locations, history,
        component, power
<1>1. Typing /\ RemovalScanned => Typing'
  BY DEF RemovalScanned
<1>2. Typing /\ MatchScanned => Typing'
  BY DEF MatchScanned
<1>3. ASSUME Typing, Search PROVE Typing'
  <2>1. unread' \in Seq(Answers)
    BY <1>3, SendCommandTypes DEF Search, Answers
  <2>2. Call("matched") \/ Call("unmatched") \/ UNCHANGED plan
    BY <1>3 DEF Search
  <2>3. plan' \in Seq(Ops \cup {"count"})
    <3>1. CASE UNCHANGED plan
      BY <1>3, <3>1
    <3> QED BY <2>2, <3>1, CallTypes DEF Callbacks
  <2> QED BY <1>3, <2>1, <2>3 DEF Search
<1>4. ASSUME Typing, EnrollScanned PROVE Typing'
  <2>1. plan' \in Seq(Ops \cup {"count"})
    BY <1>4, CallTypes DEF EnrollScanned, Callbacks
  <2> QED BY <1>4, <2>1 DEF EnrollScanned, EndEnrollment
<1>5. Typing /\ NextImage => Typing'
  BY DEF NextImage
<1>6. ASSUME Typing, NEW r, SendCommand({OK, FAILURE}, r) PROVE unread' \in Seq(Answers)
  BY <1>6, SendCommandTypes DEF Answers
<1>7. Typing /\ RegModel => Typing'
  BY <1>6 DEF RegModel, EndEnrollment
<1>8. Typing /\ Store => Typing'
  BY <1>6, CallTypes DEF Store, EndEnrollment, Callbacks
<1>9. Typing /\ DoneReturned => Typing'
  BY <1>6 DEF DoneReturned, EndEnrollment
<1> QED BY <1>1, <1>2, <1>3, <1>4, <1>5, <1>7, <1>8, <1>9

\* The actions of automations, the buttons and the finger.
LEMMA TypingPlay == Typing /\ (Play \/ PressButton \/ MoveFinger) => Typing'
<1> USE BuffersAssumption
    DEF Typing, TypeOK, ScansMissingImage, ScanHasCaller, Scanning, Locations, component,
        power, Playing
<1>1. ASSUME Typing, NEW r, SendCommand({OK, FAILURE}, r) PROVE unread' \in Seq(Answers)
  BY <1>1, SendCommandTypes DEF Answers
<1>2. ASSUME Typing, plan # <<>> PROVE Tail(plan) \in Seq(Ops \cup {"count"})
  BY <1>2, HeadTailProperties
<1>3. Typing /\ Enroll => Typing'
  BY <1>1, <1>2 DEF Enroll, Buffers
<1>4. Typing /\ CancelEnrollment => Typing'
  BY <1>2 DEF CancelEnrollment, EndEnrollment, history
<1>5. ASSUME Typing, Delete PROVE Typing'
  <2>1. plan' \in Seq(Ops \cup {"count"})
    <3>1. Tail(plan) \in Seq(Ops \cup {"count"})
      BY <1>2, <1>5 DEF Delete
    <3>2. <<"count">> \o Tail(plan) \in Seq(Ops \cup {"count"})
      BY <3>1
    <3> QED BY <1>5, <3>1, <3>2 DEF Delete
  <2> QED BY <1>1, <1>5, <2>1 DEF Delete, history
<1>6. Typing /\ Led => Typing'
  BY <1>1, <1>2 DEF Led, history
<1>7. Typing /\ PressButton => Typing'
  BY CallTypes DEF PressButton, Callbacks, history
<1>8. Typing /\ MoveFinger => Typing'
  BY DEF MoveFinger, Free, control
<1> QED BY <1>3, <1>4, <1>5, <1>6, <1>7, <1>8 DEF Play

LEMMA TypingInvariant == Spec => []Typing
<1>1. Init => Typing
  BY TypingInit
<1>2. Typing /\ [Next]_vars => Typing'
  <2>1. CASE UNCHANGED vars
    BY <2>1 DEF vars, component, power, control, history, Typing, TypeOK,
       ScansMissingImage, ScanHasCaller, Scanning
  <2> QED BY <2>1, TypingSetup, TypingPoll, TypingScanImage, TypingImage, TypingPlay
          DEF Next, Update
<1> QED BY <1>1, <1>2, PTL DEF Spec

\* Every state of the component is well typed; in particular the image
\* counter never passes the number of buffers by more than one, whatever the
\* automations do in the middle of update().
THEOREM TypeCorrect == Spec => []TypeOK
<1>1. Typing => TypeOK
  BY DEF Typing
<1> QED BY <1>1, TypingInvariant, PTL
-----------------------------------------------------------------------------
(***************************************************************************)
(* The enrolment: the counter and the enrolling sensor agree, and a model   *)
(* is made of the images of one enrolment, provided that no automation      *)
(* enrols or cancels from on_enrollment_scan.  (One that cancels there      *)
(* breaks the first, one that enrols there the second.)                     *)
(***************************************************************************)
Harmless       == {"delete", "delete_all", "led", "count"}
PoliteScans    == Automations["enrollment_scan"] \subseteq Seq(Harmless)

SettingUp == pc \in {"setup", "verify_password", "set_password", "read_params",
                     "params_count"}
\* Between two callbacks of update() no automation is running.
Uninterrupted == \/ SettingUp
                 \/ pc \in {"get_image", "image_2_tz", "search", "reg_model", "store"}
                 \/ pc = "scanned" /\ result = OK
\* scan_image_ has not failed (yet).
ImageInQuestion == pc \in {"get_image", "image_2_tz"} \/ (pc = "scanned" /\ result = OK)
OwnTemplate(b) ==
  template[b] \in IF b = 1 /\ ~config.sensing_pin THEN {"captured", "polled"}
                                                 ELSE {"captured"}

PlanInv ==
  /\ Uninterrupted => plan = <<>>
  /\ pc = "next_image" => plan \in Seq(Harmless)
ImageInv ==
  /\ EnrollingInSync
  /\ SettingUp => enrollment_image = 0
  /\ pc \in {"get_image", "image_2_tz", "scanned"} /\ caller = "removal"
       => ~config.sensing_pin
  /\ ImageInQuestion /\ caller = "match" => enrollment_image = 0
  /\ ImageInQuestion /\ caller = "enroll" => enrollment_image # 0
  /\ pc = "next_image" => enrollment_image # 0
  /\ pc = "reg_model" => AllImages
TemplateInv ==
  /\ \A b \in Buffers : b < enrollment_image => OwnTemplate(b)
  /\ pc = "scanned" /\ result = OK /\ caller = "enroll" => OwnTemplate(enrollment_image)
  /\ pc = "next_image" => OwnTemplate(enrollment_image)
SessionInv == PlanInv /\ ImageInv /\ TemplateInv

LEMMA SessionInit == Init => SessionInv
BY BuffersAssumption
   DEF Init, SessionInv, PlanInv, ImageInv, TemplateInv, EnrollingInSync, Uninterrupted,
       SettingUp, ImageInQuestion, Buffers, AllImages

LEMMA SessionSetup == Typing /\ SessionInv /\ Setup => SessionInv'
<1> USE DEF SessionInv, PlanInv, ImageInv, TemplateInv, EnrollingInSync, Uninterrupted,
        SettingUp, ImageInQuestion, AllImages, OwnTemplate, component, power, history
<1>1. SessionInv /\ SetupStart => SessionInv'
  BY DEF SetupStart
<1>2. SessionInv /\ VerifyPassword => SessionInv'
  BY DEF VerifyPassword, MarkFailed
<1>3. SessionInv /\ SetPassword => SessionInv'
  BY DEF SetPassword, MarkFailed
<1>4. SessionInv /\ GetParameters => SessionInv'
  BY DEF GetParameters, MarkFailed
<1>5. SessionInv /\ ParametersCount => SessionInv'
  BY DEF ParametersCount
<1> QED BY <1>1, <1>2, <1>3, <1>4, <1>5 DEF Setup

LEMMA SessionPoll ==
  SessionInv /\ (UpdateSave \/ UpdateNoTouch \/ UpdateTouch \/ UpdateRemoval \/ UpdateScan)
    => SessionInv'
<1> USE DEF SessionInv, PlanInv, ImageInv, TemplateInv, EnrollingInSync, Uninterrupted,
        SettingUp, ImageInQuestion, AllImages, OwnTemplate, component, power, history, Polled
<1>1. SessionInv /\ UpdateSave => SessionInv'
  BY DEF UpdateSave
<1>2. SessionInv /\ UpdateNoTouch => SessionInv'
  BY DEF UpdateNoTouch, control
<1>3. SessionInv /\ UpdateTouch => SessionInv'
  BY DEF UpdateTouch
<1>4. SessionInv /\ UpdateRemoval => SessionInv'
  BY DEF UpdateRemoval
<1>5. SessionInv /\ UpdateScan => SessionInv'
  BY DEF UpdateScan
<1> QED BY <1>1, <1>2, <1>3, <1>4, <1>5

LEMMA SessionScanImage ==
  Typing /\ SessionInv /\ (GetImage \/ Image2Tz) => SessionInv'
<1> USE DEF SessionInv, PlanInv, ImageInv, TemplateInv, EnrollingInSync, Uninterrupted,
        SettingUp, ImageInQuestion, AllImages, OwnTemplate, component, power
<1>1. ASSUME SessionInv, GetImage PROVE SessionInv'
  <2>1. PICK r \in Responses :
          /\ result' = r
          /\ pc' = IF r = OK THEN "image_2_tz" ELSE "scanned"
          /\ r = OK => plan' = plan
    BY <1>1 DEF GetImage, OK, NO_FINGER, IMAGE_FAIL
  <2>2. /\ pc = "get_image"
        /\ UNCHANGED <<config, enrollment_image, enrolling, caller, template>>
    BY <1>1 DEF GetImage
  <2>3. plan = <<>>
    BY <1>1, <2>2
  <2>4. CASE r = OK
    BY <1>1, <2>1, <2>2, <2>3, <2>4
  <2>5. CASE r # OK
    BY <1>1, <2>1, <2>2, <2>5
  <2> QED BY <2>4, <2>5
<1>2. ASSUME Typing, SessionInv, Image2Tz PROVE SessionInv'
  <2> DEFINE buffer == IF caller = "enroll" THEN enrollment_image ELSE 1
             filled == [enroll |-> "captured", removal |-> "polled", match |-> "stale"]
  <2>1. PICK r \in Responses :
          /\ result' = r
          /\ IF r = OK
               THEN template' = [template EXCEPT ![buffer] = filled[caller]]
               ELSE UNCHANGED template
          /\ IF r = BAD_IMAGE THEN Call("invalid") ELSE UNCHANGED plan
    BY <1>2 DEF Image2Tz
  <2>2. /\ pc = "image_2_tz" /\ pc' = "scanned"
        /\ UNCHANGED <<config, enrollment_image, enrolling, caller>>
    BY <1>2 DEF Image2Tz
  <2>3. /\ enrollment_image \in Nat
        /\ template \in [Buffers -> {"stale", "captured", "polled"}]
        /\ enrollment_image <= EnrollmentBuffers
        /\ caller \in {"removal", "match", "enroll"}
    BY <1>2, <2>2, BuffersAssumption DEF Typing, TypeOK, ScansMissingImage, Scanning, ScanHasCaller
  <2>4. r = OK => plan' = <<>>
    BY <1>2, <2>1, <2>2 DEF OK, BAD_IMAGE
  <2>5. PlanInv' /\ ImageInv'
    BY <1>2, <2>1, <2>2, <2>4
  <2>6. TemplateInv'
    <3>1. CASE r # OK
      BY <1>2, <2>1, <2>2, <3>1
    <3>2. CASE r = OK /\ caller = "enroll"
      <4>1. template' = [template EXCEPT ![enrollment_image] = "captured"]
        BY <2>1, <3>2
      <4>2. enrollment_image \in Buffers
        BY <1>2, <2>2, <2>3, <3>2, BuffersAssumption DEF Buffers
      <4> QED BY <1>2, <2>2, <2>3, <4>1, <4>2
    <3>3. CASE r = OK /\ caller = "removal"
      <4>1. template' = [template EXCEPT ![1] = "polled"]
        BY <2>1, <3>3
      <4>2. ~config.sensing_pin
        BY <1>2, <2>2, <3>3
      <4> QED BY <1>2, <2>2, <2>3, <3>3, <4>1, <4>2
    <3>4. CASE r = OK /\ caller = "match"
      <4>1. enrollment_image = 0
        BY <1>2, <2>2, <3>4
      <4> QED BY <2>2, <2>3, <3>4, <4>1, BuffersAssumption DEF Buffers
    <3> QED BY <2>3, <3>1, <3>2, <3>3, <3>4
  <2> QED BY <2>5, <2>6
<1> QED BY <1>1, <1>2

LEMMA SessionImage ==
  ASSUME PoliteScans
  PROVE  Typing /\ SessionInv
           /\ (\/ RemovalScanned \/ MatchScanned \/ Search \/ EnrollScanned
               \/ NextImage \/ RegModel \/ Store \/ DoneReturned) => SessionInv'
<1> USE DEF SessionInv, PlanInv, ImageInv, TemplateInv, EnrollingInSync, Uninterrupted,
        SettingUp, ImageInQuestion, AllImages, OwnTemplate, component, power, history
<1>1. SessionInv /\ RemovalScanned => SessionInv'
  BY DEF RemovalScanned
<1>2. SessionInv /\ MatchScanned => SessionInv'
  BY DEF MatchScanned
<1>3. SessionInv /\ Search => SessionInv'
  BY DEF Search
<1>4. ASSUME SessionInv, EnrollScanned PROVE SessionInv'
  <2>1. CASE result = NO_FINGER
    BY <1>4, <2>1 DEF EnrollScanned, OK, NO_FINGER
  <2>2. CASE result = OK
    <3>1. plan' \in Seq(Harmless)
      BY <1>4, <2>2 DEF EnrollScanned, Call, PoliteScans, OK, NO_FINGER
    <3> QED BY <1>4, <2>2, <3>1 DEF EnrollScanned, OK, NO_FINGER
  <2>3. CASE result \notin {NO_FINGER, OK}
    <3>1. \A b \in Buffers : ~(b < enrollment_image')
      BY <1>4, <2>3, BuffersAssumption DEF EnrollScanned, EndEnrollment, Buffers
    <3> QED BY <1>4, <2>3, <3>1 DEF EnrollScanned, EndEnrollment
  <2> QED BY <2>1, <2>2, <2>3
<1>5. ASSUME Typing, SessionInv, NextImage PROVE SessionInv'
  <2>1. enrollment_image \in 1 .. EnrollmentBuffers
    BY <1>5, BuffersAssumption
       DEF NextImage, Typing, TypeOK, ScansMissingImage, Scanning
  <2>2. enrollment_image' = enrollment_image + 1
    BY <1>5, <2>1, BuffersAssumption DEF NextImage
  <2>3. \A b \in Buffers : b < enrollment_image' => b < enrollment_image \/ b = enrollment_image
    BY <2>1, <2>2, BuffersAssumption DEF Buffers
  <2>4. EnrollingInSync'
    BY <1>5, <2>1, <2>2 DEF NextImage
  <2>5. TemplateInv'
    BY <1>5, <2>3 DEF NextImage
  <2> QED BY <1>5, <2>4, <2>5 DEF NextImage
<1>6. \A b \in Buffers : ~(b < 0)
  BY BuffersAssumption DEF Buffers
<1>7. SessionInv /\ RegModel => SessionInv'
  BY <1>6 DEF RegModel, EndEnrollment
<1>8. SessionInv /\ Store => SessionInv'
  BY <1>6 DEF Store, EndEnrollment
<1>9. SessionInv /\ DoneReturned => SessionInv'
  BY <1>6 DEF DoneReturned, EndEnrollment
<1> QED BY <1>1, <1>2, <1>3, <1>4, <1>5, <1>7, <1>8, <1>9

LEMMA SessionPlay ==
  Typing /\ SessionInv /\ (Play \/ PressButton \/ MoveFinger) => SessionInv'
<1> USE DEF SessionInv, PlanInv, ImageInv, TemplateInv, EnrollingInSync, Uninterrupted,
        SettingUp, ImageInQuestion, AllImages, OwnTemplate, component, power, Playing
<1>1. \A b \in Buffers : ~(b < 0) /\ ~(b < 1)
  BY BuffersAssumption DEF Buffers
<1>2. ASSUME PlanInv, pc = "next_image", plan # <<>>
      PROVE  Head(plan) \in Harmless /\ Tail(plan) \in Seq(Harmless)
  BY <1>2, HeadTailProperties
<1>3. ASSUME SessionInv, Enroll PROVE SessionInv'
  <2>1. ~Uninterrupted /\ pc # "next_image"
    BY <1>2, <1>3 DEF Enroll, Harmless
  <2> QED BY <1>1, <1>3, <2>1 DEF Enroll
<1>4. ASSUME SessionInv, CancelEnrollment PROVE SessionInv'
  <2>1. ~Uninterrupted /\ pc # "next_image"
    BY <1>2, <1>4 DEF CancelEnrollment, Harmless
  <2> QED BY <1>1, <1>4, <2>1 DEF CancelEnrollment, EndEnrollment, history
<1>5. ASSUME SessionInv, Delete \/ Led PROVE SessionInv'
  <2>1. /\ plan # <<>>
        /\ UNCHANGED <<config, enrollment_image, enrolling, pc, caller, result, template>>
    BY <1>5 DEF Delete, Led, history
  <2>2. pc = "next_image" => plan' \in Seq(Harmless)
    <3>1. SUFFICES ASSUME pc = "next_image" PROVE plan' \in Seq(Harmless)
      OBVIOUS
    <3>2. Tail(plan) \in Seq(Harmless)
      BY <1>2, <1>5, <2>1, <3>1
    <3>3. <<"count">> \o Tail(plan) \in Seq(Harmless)
      BY <3>2 DEF Harmless
    <3>4. plan' = Tail(plan) \/ plan' = <<"count">> \o Tail(plan)
      BY <1>5 DEF Delete, Led
    <3> QED BY <3>2, <3>3, <3>4
  <2> QED BY <1>5, <2>1, <2>2
<1>6. SessionInv /\ PressButton => SessionInv'
  BY DEF PressButton, history
<1>7. SessionInv /\ MoveFinger => SessionInv'
  BY DEF MoveFinger, control
<1> QED BY <1>3, <1>4, <1>5, <1>6, <1>7 DEF Play

LEMMA SessionInvariant == ASSUME PoliteScans PROVE Spec => []SessionInv
<1>1. Init => SessionInv
  BY SessionInit
<1>2. Typing /\ SessionInv /\ [Next]_vars => SessionInv'
  <2>1. CASE UNCHANGED vars
    BY <2>1 DEF vars, component, power, control, history, SessionInv, PlanInv, ImageInv,
       TemplateInv, EnrollingInSync, Uninterrupted, SettingUp, ImageInQuestion, AllImages,
       OwnTemplate
  <2> QED BY <2>1, SessionSetup, SessionPoll, SessionScanImage, SessionImage, SessionPlay
          DEF Next, Update
<1> QED BY <1>1, <1>2, TypingInvariant, PTL DEF Spec

\* The image counter and the enrolling sensor agree, for every configuration,
\* every number of buffers and late answers, and all automations but those
\* that enrol or cancel from on_enrollment_scan.
THEOREM SensorInSync == ASSUME PoliteScans PROVE Spec => []EnrollingInSync
<1>1. SessionInv => EnrollingInSync
  BY DEF SessionInv, ImageInv
<1> QED BY <1>1, SessionInvariant, PTL

\* REG_MODEL is only sent when every feature buffer holds an image accepted
\* by the enrolment under way, under the same proviso.
THEOREM ModelIsOfOneEnrollment == ASSUME PoliteScans PROVE Spec => []ModelOfOneEnrollment
<1>1. Typing /\ SessionInv => ModelOfOneEnrollment
  <2> SUFFICES ASSUME Typing, SessionInv, pc = "reg_model", NEW b \in Buffers
               PROVE  OwnTemplate(b)
    BY DEF ModelOfOneEnrollment, OwnTemplate
  <2>1. enrollment_image > EnrollmentBuffers /\ enrollment_image \in Nat
    BY BuffersAssumption DEF SessionInv, ImageInv, AllImages, Typing, TypeOK
  <2>2. b < enrollment_image
    BY <2>1, BuffersAssumption DEF Buffers
  <2> QED BY <2>2 DEF SessionInv, TemplateInv
<1> QED BY <1>1, SessionInvariant, TypingInvariant, PTL
-----------------------------------------------------------------------------
(***************************************************************************)
(* The refinement: every step is one of the abstract enrolment session, or  *)
(* leaves the session as it is.                                             *)
(***************************************************************************)
Ended == Session!Close \/ UNCHANGED Session!vars

LEMMA RefineInit == Init => Session!Init
BY DEF Init, Session!Init, SessionPhase

LEMMA RefineStutter ==
  ASSUME UNCHANGED <<enrollment_image, enrolling>>, pc' = "done" <=> pc = "done"
  PROVE  UNCHANGED Session!vars
BY DEF Session!vars, SessionPhase, AllImages

\* finish_enrollment closes the session, if there is one.
LEMMA RefineEnd == EnrollingInSync /\ EndEnrollment => Ended
BY DEF EnrollingInSync, EndEnrollment, Ended, Session!Close, Session!vars, SessionPhase

LEMMA RefineSetup == SessionInv /\ Setup => UNCHANGED Session!vars
<1> SUFFICES ASSUME SessionInv, Setup PROVE UNCHANGED Session!vars
  OBVIOUS
<1>1. pc # "done" /\ pc' # "done" /\ enrollment_image' = enrollment_image
  BY DEF Setup, SetupStart, VerifyPassword, SetPassword, GetParameters, ParametersCount,
     MarkFailed, component
<1>2. CASE enrolling' = enrolling
  BY <1>1, <1>2, RefineStutter
<1>3. CASE GetParameters
  <2>1. enrollment_image = 0 /\ enrolling # "on"
    BY <1>3 DEF GetParameters, SessionInv, ImageInv, EnrollingInSync, SettingUp
  <2>2. enrolling' = enrolling \/ enrolling' = "off"
    BY <1>3 DEF GetParameters
  <2> QED BY <1>1, <2>1, <2>2 DEF Session!vars, SessionPhase
<1> QED BY <1>2, <1>3 DEF Setup, SetupStart, VerifyPassword, SetPassword, ParametersCount,
        component

LEMMA RefineScan ==
  ASSUME \/ UpdateSave \/ UpdateNoTouch \/ UpdateTouch \/ UpdateRemoval \/ UpdateScan
         \/ GetImage \/ Image2Tz \/ RemovalScanned \/ MatchScanned \/ Search
  PROVE  UNCHANGED Session!vars
<1>1. UNCHANGED <<enrollment_image, enrolling>>
  BY Zenon DEF UpdateSave, UpdateNoTouch, UpdateTouch, UpdateRemoval, UpdateScan, GetImage,
     Image2Tz, RemovalScanned, MatchScanned, Search, component
<1>2. pc # "done" /\ pc' # "done"
  BY DEF UpdateSave, UpdateNoTouch, UpdateTouch, UpdateRemoval, UpdateScan, Polled, GetImage,
     Image2Tz, RemovalScanned, MatchScanned, Search, control
<1> QED BY <1>1, <1>2, RefineStutter

LEMMA RefineImage ==
  ASSUME Typing, SessionInv, EnrollScanned \/ NextImage \/ RegModel \/ Store \/ DoneReturned
  PROVE  Session!Next \/ UNCHANGED Session!vars
<1>1. EnrollingInSync
  BY DEF SessionInv, ImageInv
<1>2. CASE EndEnrollment
  BY <1>1, <1>2, RefineEnd DEF Ended, Session!Next
<1>3. CASE NextImage
  <2>1. enrollment_image \in 1 .. EnrollmentBuffers
    BY <1>3, BuffersAssumption
       DEF NextImage, SessionInv, ImageInv, Typing, TypeOK, ScansMissingImage, Scanning
  <2>2. enrollment_image' = enrollment_image + 1
    BY <1>3, <2>1, BuffersAssumption DEF NextImage
  <2>3. pc = "next_image" /\ pc' = "idle" /\ enrolling' = enrolling
    BY <1>3 DEF NextImage
  <2>4. Session!Capture
    BY <2>1, <2>2, <2>3, BuffersAssumption DEF Session!Capture, SessionPhase
  <2> QED BY <2>4 DEF Session!Next
<1>4. CASE Store /\ ~EndEnrollment
  <2>1. pc = "store" /\ pc' = "done" /\ UNCHANGED <<enrollment_image, enrolling>>
    BY <1>4, Zenon DEF Store
  <2>2. CASE enrollment_image = 0 \/ ~AllImages
    BY <2>1, <2>2 DEF Session!vars, SessionPhase, AllImages
  <2>3. CASE enrollment_image # 0 /\ AllImages
    <3>1. enrollment_image = EnrollmentBuffers + 1
      BY <2>3, BuffersAssumption DEF AllImages, Typing, TypeOK
    <3>2. Session!Announce
      BY <2>1, <2>3, <3>1, BuffersAssumption DEF Session!Announce, SessionPhase, AllImages
    <3> QED BY <3>2 DEF Session!Next
  <2> QED BY <2>2, <2>3
<1>5. CASE ~NextImage /\ ~Store /\ ~EndEnrollment
  <2>1. UNCHANGED <<enrollment_image, enrolling>> /\ pc # "done" /\ pc' # "done"
    BY <1>5 DEF EnrollScanned, RegModel, DoneReturned
  <2> QED BY <2>1, RefineStutter
<1> QED BY <1>2, <1>3, <1>4, <1>5

LEMMA RefinePlay ==
  ASSUME SessionInv, Play \/ PressButton \/ MoveFinger
  PROVE  Session!Next \/ UNCHANGED Session!vars
<1>1. CASE Enroll
  <2>1. Session!Start
    BY <1>1, BuffersAssumption DEF Enroll, Session!Start, SessionPhase, AllImages
  <2> QED BY <2>1 DEF Session!Next
<1>2. CASE CancelEnrollment
  BY <1>2, RefineEnd DEF CancelEnrollment, Ended, Session!Next, SessionInv, ImageInv
<1>3. CASE Delete \/ Led \/ PressButton \/ MoveFinger
  <2>1. UNCHANGED <<enrollment_image, enrolling, pc>>
    BY <1>3, Zenon DEF Delete, Led, PressButton, MoveFinger, component, control
  <2> QED BY <2>1, RefineStutter
<1> QED BY <1>1, <1>2, <1>3 DEF Play

\* The component implements the enrolment session (enroll_fingerprint,
\* update(), save_fingerprint_, finish_enrollment), under the same proviso:
\* only a full set of images is announced as done, and the sensor is on from
\* the start of a session to its end.
THEOREM ImplementsSession == ASSUME PoliteScans PROVE Spec => FollowsSession
<1>1. Init => Session!Init
  BY RefineInit
<1>2. Typing /\ SessionInv /\ [Next]_vars => [Session!Next]_(Session!vars)
  <2> SUFFICES ASSUME Typing, SessionInv, [Next]_vars
               PROVE  Session!Next \/ UNCHANGED Session!vars
    OBVIOUS
  <2>1. CASE UNCHANGED vars
    <3>1. UNCHANGED <<enrollment_image, enrolling, pc>>
      BY <2>1, Zenon DEF vars, component, control
    <3> QED BY <3>1, RefineStutter
  <2>2. CASE Setup
    BY <2>2, RefineSetup
  <2>3. CASE Update
    <3>1. CASE EnrollScanned \/ NextImage \/ RegModel \/ Store \/ DoneReturned
      BY <3>1, RefineImage
    <3>2. CASE ~(EnrollScanned \/ NextImage \/ RegModel \/ Store \/ DoneReturned)
      BY <2>3, <3>2, RefineScan DEF Update
    <3> QED BY <3>1, <3>2
  <2>4. CASE Play \/ PressButton \/ MoveFinger
    BY <2>4, RefinePlay
  <2> QED BY <2>1, <2>2, <2>3, <2>4 DEF Next
<1> QED BY <1>1, <1>2, TypingInvariant, SessionInvariant, PTL
        DEF Spec, FollowsSession, Session!Spec
-----------------------------------------------------------------------------
(***************************************************************************)
(* Touches: one touch is used once, on a line whose answers are never late  *)
(* or with a sensing pin.  (Without the pin, a NO_FINGER that is three      *)
(* answers late can be taken for the removal of a finger that stays.)       *)
(***************************************************************************)
Prompt == MaxUnread = 0
Wired  == \A c \in Configs : c.sensing_pin

OfScan == pc \in {"get_image", "image_2_tz", "scanned"}

\* After an image was used the component waits for the removal, and does so
\* until the reader was free again.
TouchInv ==
  /\ Free => lifted
  /\ pc \notin {"image_2_tz", "scanned"} => lifted \/ waiting_removal
  /\ pc = "touched" => ~waiting_removal
  /\ pc = "get_image" /\ caller # "removal" => ~waiting_removal
  /\ OfScan /\ caller = "removal" => waiting_removal /\ ~config.sensing_pin
  /\ pc = "image_2_tz" /\ caller # "removal" => fresh
  /\ pc = "scanned" /\ caller = "removal" /\ result = NO_FINGER => lifted
  /\ pc = "scanned" /\ caller # "removal" /\ result = OK => fresh
  /\ pc = "scanned" /\ caller # "removal" /\ result # OK => lifted

LineInv == Prompt => unread = <<>>

\* On a prompt line a command gets its own answer, or none.
LEMMA PromptAnswer ==
  ASSUME Prompt, LineInv, TypeOK, NEW A \in SUBSET Answers, NEW r, SendCommand(A, r)
  PROVE  r \in A \cup {TIMEOUT} /\ unread' = <<>>
<1> DEFINE B == IF Powered THEN A ELSE {}
<1>1. B \in SUBSET Answers /\ B \subseteq A
  OBVIOUS
<1>2. PICK o \in Outcomes(unread, B, TIMEOUT) :
        Len(o.unread) <= MaxUnread /\ r = o.response /\ unread' = o.unread
  BY DEF SendCommand
<1>3. unread = <<>>
  BY DEF LineInv
<1> HIDE DEF B
<1>4. r \in B \cup {TIMEOUT}
  BY <1>1, <1>2, <1>3, FreshOutcome
<1>5. unread' \in Seq(Answers) /\ Len(unread') <= 0
  BY <1>1, <1>2, OutcomeTypes DEF TypeOK, Prompt
<1> QED BY <1>1, <1>4, <1>5

LEMMA LineStep == Typing /\ LineInv /\ [Next]_vars => LineInv'
<1> SUFFICES ASSUME Typing, LineInv, [Next]_vars, Prompt PROVE unread' = <<>>
  BY DEF LineInv, Prompt
<1>1. \/ unread' = unread
      \/ \E A \in SUBSET Answers, r \in Responses : SendCommand(A, r)
  <2>1. /\ {OK, FAILURE} \in SUBSET Answers /\ ImageAnswers \in SUBSET Answers
        /\ {OK, BAD_IMAGE, FAILURE} \in SUBSET Answers
        /\ {OK, NOT_FOUND, FAILURE} \in SUBSET Answers
    BY DEF Answers, ImageAnswers
  <2>2. CASE UNCHANGED vars
    BY <2>2 DEF vars
  <2>3. CASE Setup
    BY <2>1, <2>3, Zenon DEF Setup, SetupStart, VerifyPassword, SetPassword, GetParameters,
       ParametersCount
  <2>4. CASE Update
    BY <2>1, <2>4, Zenon DEF Update, UpdateSave, UpdateNoTouch, UpdateTouch, UpdateRemoval,
       UpdateScan, GetImage, Image2Tz, RemovalScanned, MatchScanned, Search, EnrollScanned,
       NextImage, RegModel, Store, DoneReturned
  <2>5. CASE Play \/ PressButton \/ MoveFinger
    BY <2>1, <2>5, Zenon DEF Play, Enroll, CancelEnrollment, Delete, Led, PressButton,
       MoveFinger
  <2> QED BY <2>2, <2>3, <2>4, <2>5, Zenon DEF Next
<1>2. TypeOK
  BY DEF Typing
<1> QED BY <1>1, <1>2, PromptAnswer, Zenon DEF LineInv

LEMMA TouchInit == Init => TouchInv /\ LineInv
<1> SUFFICES ASSUME Init PROVE TouchInv /\ LineInv
  OBVIOUS
<1>1. pc = "setup" /\ lifted = TRUE /\ unread = <<>>
  BY Zenon DEF Init
<1>2. pc \notin {"touched", "get_image", "image_2_tz", "scanned"}
  BY <1>1
<1> QED BY <1>1, <1>2 DEF TouchInv, LineInv, OfScan

\* Steps that end outside of a scan and leave the removal alone.
LEMMA TouchElsewhere ==
  ASSUME TouchInv, UNCHANGED <<config, waiting_removal, finger, lifted>>,
         pc \notin {"image_2_tz", "scanned"},
         pc' \notin {"touched", "get_image", "image_2_tz", "scanned"}
  PROVE  TouchInv'
<1>1. Free' <=> Free
  BY Zenon DEF Free
<1>2. pc' # "touched" /\ pc' # "get_image" /\ pc' # "image_2_tz" /\ pc' # "scanned"
      /\ ~OfScan'
  BY DEF OfScan
<1> QED BY <1>1, <1>2, Zenon DEF TouchInv

\* Steps that leave the scan under way, or its absence, as it is.
LEMMA TouchAside ==
  ASSUME TouchInv,
         UNCHANGED <<config, waiting_removal, finger, lifted, fresh, pc, caller, result>>
  PROVE  TouchInv'
<1>1. Free' <=> Free
  BY Zenon DEF Free
<1>2. OfScan' <=> OfScan
  BY Zenon DEF OfScan
<1> QED BY <1>1, <1>2, Zenon DEF TouchInv

LEMMA TouchSetup == TouchInv /\ (Setup \/ UpdateSave \/ Search \/ NextImage \/ RegModel
                                 \/ Store \/ DoneReturned) => TouchInv'
<1> SUFFICES ASSUME TouchInv, Setup \/ UpdateSave \/ Search \/ NextImage \/ RegModel
                              \/ Store \/ DoneReturned
             PROVE  TouchInv'
  OBVIOUS
<1>1. UNCHANGED <<config, waiting_removal, finger, lifted>>
  BY Zenon DEF Setup, SetupStart, VerifyPassword, SetPassword, GetParameters, ParametersCount,
     UpdateSave, Search, NextImage, RegModel, Store, DoneReturned, component, history
<1>2. /\ pc \notin {"image_2_tz", "scanned"}
      /\ pc' \notin {"touched", "get_image", "image_2_tz", "scanned"}
  <2>1. CASE Setup
    BY <2>1 DEF Setup, SetupStart, VerifyPassword, SetPassword, GetParameters,
       ParametersCount, MarkFailed
  <2>2. CASE UpdateSave \/ Search \/ NextImage
    BY <2>2 DEF UpdateSave, Polled, Search, NextImage
  <2>3. CASE RegModel \/ Store \/ DoneReturned
    BY <2>3 DEF RegModel, Store, DoneReturned
  <2> QED BY <2>1, <2>2, <2>3
<1> QED BY <1>1, <1>2, TouchElsewhere, Zenon

LEMMA TouchPlay == TouchInv /\ (Play \/ PressButton \/ MoveFinger) => TouchInv'
<1> SUFFICES ASSUME TouchInv, Play \/ PressButton \/ MoveFinger PROVE TouchInv'
  OBVIOUS
<1>1. CASE Play \/ PressButton
  <2>1. UNCHANGED <<config, waiting_removal, finger, lifted, fresh, pc, caller, result>>
    BY <1>1, Zenon DEF Play, Enroll, CancelEnrollment, Delete, Led, PressButton, component,
       history
  <2> QED BY <2>1, TouchAside, Zenon
<1>2. CASE MoveFinger
  <2>1. /\ UNCHANGED <<config, waiting_removal, fresh, pc, caller, result>>
        /\ lifted' = (lifted \/ Free')
    BY <1>2, Zenon DEF MoveFinger, component, control
  <2>2. OfScan' <=> OfScan
    BY <2>1, Zenon DEF OfScan
  <2> QED BY <2>1, <2>2, Zenon DEF TouchInv
<1> QED BY <1>1, <1>2

LEMMA TouchPolled ==
  TouchInv /\ TypeOK /\ (UpdateNoTouch \/ UpdateTouch \/ UpdateRemoval \/ UpdateScan)
    => TouchInv'
<1> SUFFICES ASSUME TouchInv, TypeOK, UpdateNoTouch \/ UpdateTouch \/ UpdateRemoval \/ UpdateScan
             PROVE  TouchInv'
  OBVIOUS
<1>1. UNCHANGED <<config, finger, lifted, result>>
  BY Zenon DEF UpdateNoTouch, UpdateTouch, UpdateRemoval, UpdateScan, component, control, history
<1>2. Free' <=> Free
  BY <1>1, Zenon DEF Free
<1>3. pc \in {"idle", "touched"}
  BY DEF UpdateNoTouch, UpdateTouch, UpdateRemoval, UpdateScan, Polled
<1>4. lifted \/ waiting_removal
  BY <1>3 DEF TouchInv
<1>5. CASE UpdateNoTouch
  <2>1. pc' = "idle" /\ ~waiting_removal'
    BY <1>5, Zenon DEF UpdateNoTouch, Polled, control
  <2>2. Free
    BY <1>5, Zenon DEF UpdateNoTouch, Touching, Free
  <2>3. pc' \notin {"touched", "get_image", "image_2_tz", "scanned"}
    BY <2>1
  <2>4. ~OfScan'
    BY <2>3 DEF OfScan
  <2> QED BY <1>1, <1>2, <2>1, <2>2, <2>3, <2>4 DEF TouchInv
<1>6. CASE UpdateTouch
  <2>1. pc' = "touched" /\ ~waiting_removal /\ waiting_removal' = waiting_removal
    BY <1>6, Zenon DEF UpdateTouch, component
  <2>2. ~OfScan'
    BY <2>1 DEF OfScan
  <2> QED BY <1>1, <1>2, <1>4, <2>1, <2>2 DEF TouchInv
<1>7. CASE UpdateRemoval
  <2>1. /\ pc' = "get_image" /\ caller' = "removal"
        /\ waiting_removal /\ waiting_removal' = waiting_removal /\ ~config.sensing_pin
    BY <1>7, Zenon DEF UpdateRemoval, component
  <2> QED BY <1>1, <1>2, <2>1 DEF TouchInv
<1>8. CASE UpdateScan
  <2>1. pc' = "get_image" /\ waiting_removal' = waiting_removal
    BY <1>8, Zenon DEF UpdateScan, component
  <2>2. ~waiting_removal
    BY <1>8, Zenon DEF UpdateScan, TouchInv
  <2>3. caller' # "removal"
    BY <1>8 DEF UpdateScan
  <2> QED BY <1>1, <1>2, <1>4, <2>1, <2>2, <2>3 DEF TouchInv
<1> QED BY <1>5, <1>6, <1>7, <1>8

LEMMA TouchScanned ==
  TouchInv /\ TypeOK /\ (RemovalScanned \/ MatchScanned \/ EnrollScanned) => TouchInv'
<1> SUFFICES ASSUME TouchInv, TypeOK, RemovalScanned \/ MatchScanned \/ EnrollScanned
             PROVE  TouchInv'
  OBVIOUS
<1>1. UNCHANGED <<config, finger, lifted>> /\ pc = "scanned"
  BY Zenon DEF RemovalScanned, MatchScanned, EnrollScanned, component, history
<1>2. Free' <=> Free
  BY <1>1, Zenon DEF Free
<1>3. pc' \in {"idle", "search", "next_image"}
  BY DEF RemovalScanned, MatchScanned, EnrollScanned
<1>4. ~OfScan' /\ pc' \notin {"touched", "get_image", "image_2_tz", "scanned"}
  BY <1>3 DEF OfScan
<1>5. lifted \/ waiting_removal'
  <2>1. CASE RemovalScanned
    <3>1. waiting_removal
      BY <1>1, <2>1 DEF RemovalScanned, TouchInv, OfScan
    <3>2. result = NO_FINGER => lifted
      BY <1>1, <2>1 DEF RemovalScanned, TouchInv
    <3> QED BY <2>1, <3>1, <3>2 DEF RemovalScanned
  <2>2. CASE MatchScanned
    <3>1. result # OK => lifted
      BY <1>1, <2>2 DEF MatchScanned, TouchInv
    <3> QED BY <2>2, <3>1 DEF MatchScanned
  <2>3. CASE EnrollScanned
    <3>1. result # OK => lifted
      BY <1>1, <2>3 DEF EnrollScanned, TouchInv
    <3> QED BY <2>3, <3>1 DEF EnrollScanned, OK, NO_FINGER
  <2> QED BY <2>1, <2>2, <2>3
<1> QED BY <1>1, <1>2, <1>4, <1>5 DEF TouchInv

\* The scan itself: only a late answer can tell of a removal that was none.
LEMMA TouchScan ==
  ASSUME TouchInv, LineInv, TypeOK, Prompt \/ Wired, GetImage \/ Image2Tz
  PROVE  TouchInv'
<1>1. /\ UNCHANGED <<config, finger, caller>> /\ pc \in {"get_image", "image_2_tz"}
      /\ result' \in Responses
  BY Zenon DEF GetImage, Image2Tz, component
<1>2. Free' <=> Free
  BY <1>1, Zenon DEF Free
<1>3. caller = "removal" => waiting_removal /\ ~config.sensing_pin
  BY <1>1 DEF TouchInv, OfScan
<1>4. caller = "removal" => Prompt
  BY <1>3, Zenon DEF Wired, TypeOK
<1>5. CASE GetImage
  <2>1. PICK r \in Responses :
        /\ SendCommand(ImageAnswers, r)
        /\ result' = r
        /\ pc' = IF r = OK THEN "image_2_tz" ELSE "scanned"
        /\ IF r = OK THEN fresh' = lifted /\ lifted' = Free
                     ELSE UNCHANGED <<fresh, lifted>>
        /\ waiting_removal' = (waiting_removal \/ (r = NO_FINGER /\ config.sensing_pin))
    BY <1>5, Zenon DEF GetImage
  <2>2. pc = "get_image"
    BY <1>5, Zenon DEF GetImage
  <2>3. caller # "removal" => lifted
    BY <2>2 DEF TouchInv
  <2>4. caller = "removal" /\ r = NO_FINGER => lifted
    <3> SUFFICES ASSUME caller = "removal", r = NO_FINGER PROVE lifted
      OBVIOUS
    <3>1. ImageAnswers \in SUBSET Answers
      BY DEF Answers, ImageAnswers
    <3>2. NO_FINGER \in ImageAnswers \cup {TIMEOUT}
      BY <1>4, <2>1, <3>1, PromptAnswer, Zenon
    <3>3. finger # "placed"
      BY <3>2 DEF ImageAnswers, OK, NO_FINGER, IMAGE_FAIL, FAILURE, TIMEOUT
    <3>4. Free
      BY <1>3, <3>3 DEF Free, TypeOK
    <3> QED BY <3>4 DEF TouchInv
  <2>5. CASE r = OK
    <3>1. pc' = "image_2_tz" /\ fresh' = lifted /\ lifted' = Free
      BY <2>1, <2>5
    <3> QED BY <1>1, <1>2, <1>3, <2>1, <2>3, <3>1 DEF TouchInv, OfScan
  <2>6. CASE r # OK
    <3>1. pc' = "scanned" /\ lifted' = lifted
      BY <2>1, <2>6
    <3> QED BY <1>1, <1>2, <1>3, <2>1, <2>3, <2>4, <2>6, <3>1 DEF TouchInv, OfScan
  <2> QED BY <2>5, <2>6
<1>6. CASE Image2Tz
  <2>1. PICK r \in Responses :
        /\ SendCommand({OK, BAD_IMAGE, FAILURE}, r)
        /\ result' = r
        /\ lifted' = IF r = OK /\ caller # "removal" THEN lifted ELSE lifted \/ fresh
    BY <1>6, Zenon DEF Image2Tz
  <2>2. /\ pc = "image_2_tz" /\ pc' = "scanned" /\ fresh' = fresh
        /\ waiting_removal' = waiting_removal
    BY <1>6, Zenon DEF Image2Tz, component
  <2>3. caller # "removal" => fresh
    BY <2>2 DEF TouchInv
  <2>4. caller = "removal" => r # NO_FINGER
    <3> SUFFICES ASSUME caller = "removal" PROVE r # NO_FINGER
      OBVIOUS
    <3>1. {OK, BAD_IMAGE, FAILURE} \in SUBSET Answers
      BY DEF Answers
    <3>2. r \in {OK, BAD_IMAGE, FAILURE} \cup {TIMEOUT}
      BY <1>4, <2>1, <3>1, PromptAnswer, Zenon
    <3> QED BY <3>2 DEF OK, BAD_IMAGE, FAILURE, TIMEOUT, NO_FINGER
  <2>5. Free => lifted'
    BY <2>1 DEF TouchInv
  <2> QED BY <1>1, <1>2, <1>3, <2>1, <2>2, <2>3, <2>4, <2>5 DEF TouchInv, OfScan
<1> QED BY <1>5, <1>6

LEMMA TouchStep ==
  ASSUME Prompt \/ Wired, Typing, TouchInv, LineInv, [Next]_vars
  PROVE  TouchInv'
<1>1. TypeOK
  BY DEF Typing
<1>2. CASE UNCHANGED vars
  <2>1. UNCHANGED <<config, waiting_removal, finger, lifted, fresh, pc, caller, result>>
    BY <1>2, Zenon DEF vars, component, control, history
  <2> QED BY <2>1, TouchAside, Zenon
<1>3. CASE Next
  BY <1>1, <1>3, TouchSetup, TouchPlay, TouchPolled, TouchScanned, TouchScan, Zenon
     DEF Next, Update
<1> QED BY <1>2, <1>3

\* An image goes to SEARCH or to the enrolment only if the reader was free
\* since the image used before.
LEMMA FreshUse == TouchInv /\ [Next]_vars
                    => (pc = "scanned" /\ pc' \in {"search", "next_image"} => fresh)
<1> SUFFICES ASSUME TouchInv, [Next]_vars, pc = "scanned", pc' \in {"search", "next_image"}
             PROVE  fresh
  OBVIOUS
<1>1. caller # "removal" /\ result = OK
  <2>1. CASE UNCHANGED vars
    BY <2>1 DEF vars, control
  <2>2. CASE Setup \/ Play \/ PressButton \/ MoveFinger
    BY <2>2 DEF Setup, SetupStart, VerifyPassword, SetPassword, GetParameters, ParametersCount,
       Play, Enroll, CancelEnrollment, Delete, Led, PressButton, MoveFinger, control
  <2>3. CASE Update
    <3>1. RemovalScanned \/ MatchScanned \/ EnrollScanned
      BY <2>3 DEF Update, UpdateSave, UpdateNoTouch, UpdateTouch, UpdateRemoval, UpdateScan,
         Polled, GetImage, Image2Tz, Search, NextImage, RegModel, Store, DoneReturned
    <3> QED BY <3>1 DEF RemovalScanned, MatchScanned, EnrollScanned
  <2> QED BY <2>1, <2>2, <2>3 DEF Next
<1> QED BY <1>1 DEF TouchInv

\* One touch is used once (scan_image_, waiting_removal_): a finger that
\* stays where it is gives no second match and no second enrolment image, as
\* long as answers are in time or a sensing pin tells of the removal.
THEOREM TouchIsUsedOnce == ASSUME Prompt \/ Wired PROVE Spec => OneImagePerTouch
<1>1. Init => TouchInv /\ LineInv
  BY TouchInit
<1>2. Typing /\ TouchInv /\ LineInv /\ [Next]_vars => (TouchInv /\ LineInv)'
  BY TouchStep, LineStep
<1>3. TouchInv /\ [Next]_vars
        => [pc = "scanned" /\ pc' \in {"search", "next_image"} => fresh]_vars
  BY FreshUse
<1> QED BY <1>1, <1>2, <1>3, TypingInvariant, PTL DEF Spec, OneImagePerTouch
==============================================================================
