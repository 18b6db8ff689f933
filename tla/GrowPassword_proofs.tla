-------------------------- MODULE GrowPassword_proofs --------------------------
(***************************************************************************)
(* Proofs about GrowPassword, for every width of passwords and number of    *)
(* late answers.                                                            *)
(***************************************************************************)
EXTENDS GrowPassword, SequenceTheorems, TLAPS

\* A suffix of a sequence is a sequence of the same elements.
LEMMA SuffixTypes ==
  ASSUME NEW S, NEW s \in Seq(S), NEW t \in Suffixes(s)
  PROVE  t \in Seq(S)
<1>1. CASE t = <<>>
  BY <1>1
<1>2. CASE \E l \in 1 .. Len(s) : t = SubSeq(s, l, Len(s))
  <2>1. PICK l \in 1 .. Len(s) : t = SubSeq(s, l, Len(s))
    BY <1>2
  <2> QED BY <2>1, SubSeqProperties
<1> QED BY <1>1, <1>2 DEF Suffixes

\* What an exchange with the reader returns and leaves on the line.
LEMMA OutcomeTypes ==
  ASSUME NEW A \in SUBSET Answers, NEW q \in Seq(Answers),
         NEW o \in Outcomes(q, A, TIMEOUT)
  PROVE  o.response \in Responses /\ o.unread \in Seq(Answers)
<1> DEFINE visible == Suffixes(q) \cup (UNION {Suffixes(Append(q, a)) : a \in A})
<1>1. \A s \in visible : s \in Seq(Answers)
  <2>1. \A a \in A : Append(q, a) \in Seq(Answers)
    OBVIOUS
  <2> QED BY <2>1, SuffixTypes
<1>2. CASE \E s \in visible : o = [response |-> TIMEOUT, unread |-> s]
  BY <1>1, <1>2 DEF Responses
<1>3. CASE \E s \in visible \ {<<>>} : o = [response |-> Head(s), unread |-> Tail(s)]
  <2>1. PICK s \in visible \ {<<>>} : o = [response |-> Head(s), unread |-> Tail(s)]
    BY <1>3
  <2>2. s \in Seq(Answers) /\ s # <<>>
    BY <1>1
  <2>3. Head(s) \in Answers /\ Tail(s) \in Seq(Answers)
    BY <2>2, HeadTailProperties
  <2> QED BY <2>1, <2>3 DEF Responses
<1> QED BY <1>2, <1>3 DEF Outcomes

\* On a line without late answers, what is returned is the reader's answer to
\* this command, or silence.
LEMMA FreshOutcome ==
  ASSUME NEW A \in SUBSET Answers, NEW o \in Outcomes(<<>>, A, TIMEOUT)
  PROVE  o.response \in A \cup {TIMEOUT}
<1> DEFINE visible == Suffixes(<<>>) \cup (UNION {Suffixes(Append(<<>>, a)) : a \in A})
<1>1. \A s \in visible : s # <<>> => Head(s) \in A
  <2> SUFFICES ASSUME NEW s \in visible, s # <<>> PROVE Head(s) \in A
    OBVIOUS
  <2>1. Suffixes(<<>>) = {<<>>}
    BY DEF Suffixes
  <2>2. PICK a \in A : s \in Suffixes(Append(<<>>, a))
    BY <2>1, Zenon
  <2>3. Append(<<>>, a) = <<a>>
    OBVIOUS
  <2>4. s \in Suffixes(<<a>>)
    BY <2>2, <2>3, Zenon
  <2>5. s = <<a>>
    BY <2>4 DEF Suffixes
  <2> QED BY <2>5
<1>2. CASE \E s \in visible : o = [response |-> TIMEOUT, unread |-> s]
  BY <1>2
<1>3. CASE \E s \in visible \ {<<>>} : o = [response |-> Head(s), unread |-> Tail(s)]
  BY <1>1, <1>3
<1> QED BY <1>2, <1>3 DEF Outcomes

LEMMA Numbers ==
  /\ UINT32_MAX \in UInt32 /\ 0 \in UInt32 /\ Unset \notin UInt32
  /\ UInt32 \subseteq Option /\ Unset \in Option
  BY WidthAssumption DEF UInt32, Unset, Option

\* An option that is given is the member's value.
LEMMA Members ==
  ASSUME NEW o \in Option, NEW i \in UInt32
  PROVE  /\ Member(o, i) \in UInt32
         /\ Member(o, i) # i => Member(o, i) = o
         /\ o # Unset => Member(o, i) = o
  BY Zenon DEF Member, Option

\* Until the reader has the new password, setup() has verified the old one; the
\* log says to reflash only after the reader has taken the new one.
Paired ==
  /\ ConfigNamesPassword
  /\ told => new_password_ # UINT32_MAX /\ password = new_password_
  /\ pc \in {"set", "read_params", "count"} => password = password_
  /\ pc = "running" => password = IF new_password_ = UINT32_MAX THEN password_
                                                                ELSE new_password_

PasswordInv ==
  /\ TypeOK
  /\ pc = "set" => new_password_ # UINT32_MAX
  /\ pc \in {"read_params", "count"} => new_password_ = UINT32_MAX
  /\ pc = "running" /\ new_password_ # UINT32_MAX => told
  /\ paired => Paired

\* What a command returns and leaves on the line; on a line without late
\* answers it returns the reader's answer to it.
LEMMA Exchange ==
  ASSUME TypeOK, NEW A \in SUBSET Answers, NEW r, SendCommand(A, r)
  PROVE  /\ unread' \in Seq(Answers) /\ paired' \in BOOLEAN
         /\ paired' => paired /\ r \in A \cup {TIMEOUT}
<1>1. unread \in Seq(Answers) /\ paired \in BOOLEAN
  BY Zenon DEF TypeOK
<1>2. PICK o \in Outcomes(unread, A, TIMEOUT) : r = o.response /\ unread' = o.unread
  BY Zenon DEF SendCommand
<1>3. paired' = (paired /\ unread = <<>>)
  BY Zenon DEF SendCommand
<1>4. unread' \in Seq(Answers)
  BY <1>1, <1>2, OutcomeTypes, Zenon
<1>5. paired' \in BOOLEAN /\ (paired' => paired /\ unread = <<>>)
  BY <1>3, Zenon
<1>6. unread = <<>> => r \in A \cup {TIMEOUT}
  BY <1>2, FreshOutcome, Zenon
<1> QED BY <1>4, <1>5, <1>6, Zenon

LEMMA PasswordInit == Init => PasswordInv
<1> SUFFICES ASSUME Init PROVE PasswordInv
  OBVIOUS
<1>1. yaml \in [password : Option, new_password : Option] /\ password = password_
  BY Zenon DEF Init
<1>2. yaml.password \in Option /\ yaml.new_password \in Option
  BY <1>1
<1>3. password_ \in UInt32 /\ new_password_ \in UInt32
  BY <1>2, Numbers, Members, Zenon DEF password_, new_password_
<1>4. pc = "off" /\ unread = <<>> /\ unread \in Seq(Answers)
  BY DEF Init
<1>5. told = FALSE /\ authenticated = FALSE /\ paired = TRUE
  BY Zenon DEF Init
<1>6. TypeOK
  <2>1. pc \in {"off", "check", "set", "read_params", "count", "running", "failed"}
    BY <1>4
  <2> QED BY <1>1, <1>3, <1>4, <1>5, <2>1, Zenon DEF TypeOK
<1>7. pc \notin {"set", "read_params", "count", "running"} /\ pc # "set" /\ pc # "running"
  BY <1>4
<1>8. Paired
  BY <1>1, <1>5, <1>7, Zenon DEF Paired, ConfigNamesPassword
<1> QED BY <1>6, <1>7, <1>8, Zenon DEF PasswordInv

Locations == {"off", "check", "set", "read_params", "count", "running", "failed"}

\* The passwords of an unchanged configuration.
LEMMA SameYaml ==
  ASSUME yaml' = yaml
  PROVE  password_' = password_ /\ new_password_' = new_password_
  BY DEF password_, new_password_

\* Codes are different.
LEMMA Codes ==
  /\ {OK} \in SUBSET Answers /\ {FAILURE} \in SUBSET Answers
  /\ {OK, FAILURE} \in SUBSET Answers
  /\ OK \notin {FAILURE} \cup {TIMEOUT}
  BY DEF Answers, OK, FAILURE, TIMEOUT

LEMMA CheckPasswordInv == PasswordInv /\ CheckPassword => PasswordInv'
<1> SUFFICES ASSUME PasswordInv, CheckPassword PROVE PasswordInv'
  OBVIOUS
<1>1. TypeOK /\ password' = password /\ yaml' = yaml /\ told' = told
  BY Zenon DEF PasswordInv, CheckPassword
<1>2. password_' = password_ /\ new_password_' = new_password_
  BY <1>1, SameYaml, Zenon
<1>3. PICK r \in Responses :
        /\ \/ password = password_ /\ SendCommand({OK}, r) /\ authenticated' = TRUE
           \/ SendCommand({FAILURE}, r) /\ UNCHANGED authenticated
        /\ \/ r # OK /\ pc' = "failed"
           \/ r = OK /\ new_password_ # UINT32_MAX /\ pc' = "set"
           \/ r = OK /\ new_password_ = UINT32_MAX /\ pc' = "read_params"
  BY Zenon DEF CheckPassword
<1>4. /\ unread' \in Seq(Answers) /\ paired' \in BOOLEAN /\ (paired' => paired)
      /\ authenticated' \in BOOLEAN
  BY <1>1, <1>3, Codes, Exchange, Zenon DEF TypeOK
<1>5. paired' /\ r = OK => password = password_
  BY <1>1, <1>3, Codes, Exchange, Zenon
<1>6. pc' \in Locations
  BY <1>3 DEF Locations
<1>7. TypeOK'
  BY <1>1, <1>2, <1>4, <1>6, Zenon DEF TypeOK, Locations
<1>8. pc' \in {"failed", "set", "read_params"}
  BY <1>3
<1>9. /\ pc' = "set" => new_password_ # UINT32_MAX /\ r = OK
      /\ pc' = "read_params" => new_password_ = UINT32_MAX /\ r = OK
      /\ pc' # "count" /\ pc' # "running"
  BY <1>3
<1>10. paired' => Paired'
  BY <1>1, <1>2, <1>4, <1>5, <1>9, Zenon DEF PasswordInv, Paired, ConfigNamesPassword
<1> QED BY <1>2, <1>7, <1>9, <1>10, Zenon DEF PasswordInv

LEMMA SetPasswordInv == PasswordInv /\ SetPassword => PasswordInv'
<1> SUFFICES ASSUME PasswordInv, SetPassword PROVE PasswordInv'
  OBVIOUS
<1>1. TypeOK /\ pc = "set" /\ yaml' = yaml /\ authenticated' = authenticated
  BY Zenon DEF PasswordInv, SetPassword
<1>2. password_' = password_ /\ new_password_' = new_password_
  BY <1>1, SameYaml, Zenon
<1>3. PICK r \in Responses :
        /\ \/ authenticated /\ SendCommand({OK}, r) /\ password' = new_password_
           \/ SendCommand({FAILURE}, r) /\ UNCHANGED password
        /\ IF r = OK THEN told' = TRUE /\ pc' = "running"
                     ELSE UNCHANGED told /\ pc' = "failed"
  BY Zenon DEF SetPassword
<1>4. /\ unread' \in Seq(Answers) /\ paired' \in BOOLEAN /\ (paired' => paired)
      /\ told' \in BOOLEAN /\ password' \in UInt32
  BY <1>1, <1>3, Codes, Exchange, Zenon DEF TypeOK
<1>5. /\ password' \in {password, new_password_}
      /\ paired' /\ r = OK => password' = new_password_
  BY <1>1, <1>3, Codes, Exchange, Zenon
<1>6. pc' \in {"running", "failed"} /\ (pc' = "running" => r = OK)
      /\ (pc' = "running" => told') /\ (told' => told \/ r = OK)
  BY <1>3, Zenon
<1>7. pc' \in Locations /\ pc' \notin {"set", "read_params", "count"} /\ pc' # "set"
  BY <1>6 DEF Locations
<1>8. TypeOK'
  BY <1>1, <1>2, <1>4, <1>7, Zenon DEF TypeOK, Locations
<1>9. new_password_ # UINT32_MAX
  BY <1>1, Zenon DEF PasswordInv
<1>10. paired' => Paired'
  <2> SUFFICES ASSUME paired' PROVE Paired'
    OBVIOUS
  <2>1. password = password_ /\ (told => password = new_password_)
    BY <1>1, <1>4, Zenon DEF PasswordInv, Paired
  <2>2. told' => password' = new_password_
    BY <1>5, <1>6, <2>1, Zenon
  <2>3. ConfigNamesPassword'
    BY <1>2, <1>5, <1>9, <2>1, Zenon DEF ConfigNamesPassword
  <2> QED BY <1>2, <1>5, <1>6, <1>7, <1>9, <2>2, <2>3, Zenon DEF Paired
<1> QED BY <1>2, <1>6, <1>7, <1>8, <1>9, <1>10, Zenon DEF PasswordInv

\* The commands that leave the password alone.
LEMMA OtherCommandsInv ==
  PasswordInv /\ (GetParameters \/ GetCount \/ OtherCommand) => PasswordInv'
<1> SUFFICES ASSUME PasswordInv, GetParameters \/ GetCount \/ OtherCommand
             PROVE  PasswordInv'
  OBVIOUS
<1>1. /\ TypeOK /\ password' = password /\ authenticated' = authenticated
      /\ yaml' = yaml /\ told' = told
  BY Zenon DEF PasswordInv, GetParameters, GetCount, OtherCommand, reader
<1>2. password_' = password_ /\ new_password_' = new_password_
  BY <1>1, SameYaml, Zenon
<1>3. PICK r \in Responses : SendCommand({OK, FAILURE}, r)
  BY Zenon DEF GetParameters, GetCount, OtherCommand
<1>4. unread' \in Seq(Answers) /\ paired' \in BOOLEAN /\ (paired' => paired)
  BY <1>1, <1>3, Codes, Exchange, Zenon
<1>5. \/ pc = "read_params" /\ pc' \in {"count", "failed"}
      \/ pc = "count" /\ pc' = "running"
      \/ pc \in {"running", "failed"} /\ pc' = pc
  BY DEF GetParameters, GetCount, OtherCommand
<1>6. /\ pc' \in Locations /\ pc' # "set"
      /\ pc' \in {"set", "read_params", "count"} => pc = "read_params" /\ pc' = "count"
      /\ pc' = "running" => pc = "count" \/ pc = "running"
  BY <1>5 DEF Locations
<1>7. TypeOK'
  BY <1>1, <1>2, <1>4, <1>6, Zenon DEF TypeOK, Locations
<1>8. /\ pc = "read_params" \/ pc = "count" => new_password_ = UINT32_MAX
      /\ pc = "running" /\ new_password_ # UINT32_MAX => told
  BY Zenon DEF PasswordInv
<1>9. paired' => Paired'
  <2> SUFFICES ASSUME paired' PROVE Paired'
    OBVIOUS
  <2>1. Paired
    BY <1>4, Zenon DEF PasswordInv
  <2>2. pc' \in {"set", "read_params", "count"} => password' = password_'
    BY <1>1, <1>2, <1>6, <2>1, Zenon DEF Paired
  <2>3. pc' = "running" => password' = IF new_password_' = UINT32_MAX THEN password_'
                                                                     ELSE new_password_'
    BY <1>1, <1>2, <1>6, <1>8, <2>1, Zenon DEF Paired
  <2>4. ConfigNamesPassword'
    BY <1>1, <1>2, <1>4, <2>1, Zenon DEF Paired, ConfigNamesPassword
  <2>5. told' => new_password_' # UINT32_MAX /\ password' = new_password_'
    BY <1>1, <1>2, <2>1, Zenon DEF Paired
  <2> QED BY <2>2, <2>3, <2>4, <2>5, Zenon DEF Paired
<1> QED BY <1>1, <1>2, <1>6, <1>7, <1>8, <1>9, Zenon DEF PasswordInv

LEMMA BootInv == PasswordInv /\ Boot => PasswordInv'
<1> SUFFICES ASSUME PasswordInv, Boot PROVE PasswordInv'
  OBVIOUS
<1>1. /\ TypeOK /\ password' = password /\ authenticated' = authenticated
      /\ yaml' = yaml /\ told' = told /\ unread' = unread /\ paired' = paired
  BY Zenon DEF PasswordInv, Boot, reader
<1>2. password_' = password_ /\ new_password_' = new_password_
  BY <1>1, SameYaml, Zenon
<1>3. /\ pc' \in Locations /\ pc' # "set" /\ pc' # "running"
      /\ pc' \notin {"set", "read_params", "count"} /\ pc' \notin {"read_params", "count"}
  BY DEF Boot, Locations
<1>4. TypeOK'
  BY <1>1, <1>2, <1>3, Zenon DEF TypeOK, Locations
<1>5. paired' => Paired'
  BY <1>1, <1>2, <1>3, Zenon DEF PasswordInv, Paired, ConfigNamesPassword
<1> QED BY <1>3, <1>4, <1>5, Zenon DEF PasswordInv

LEMMA ResetInv == PasswordInv /\ Reset => PasswordInv'
<1> SUFFICES ASSUME PasswordInv, Reset PROVE PasswordInv'
  OBVIOUS
<1>1. /\ TypeOK /\ password' = password
      /\ yaml' = yaml /\ told' = told /\ paired' = paired
      /\ \/ UNCHANGED <<authenticated, unread>>
         \/ authenticated' = FALSE /\ unread' = <<>>
  BY Zenon DEF PasswordInv, Reset
<1>2. password_' = password_ /\ new_password_' = new_password_
  BY <1>1, SameYaml, Zenon
<1>3. /\ pc' \in Locations /\ pc' # "set" /\ pc' # "running"
      /\ pc' \notin {"set", "read_params", "count"} /\ pc' \notin {"read_params", "count"}
  BY DEF Reset, Locations
<1>4. authenticated' \in BOOLEAN
  BY <1>1, Zenon DEF TypeOK
<1>5. unread' \in Seq(Answers)
  <2>1. <<>> \in Seq(Answers)
    OBVIOUS
  <2>2. unread' = unread \/ unread' = <<>>
    BY <1>1, Zenon
  <2>3. unread \in Seq(Answers)
    BY <1>1, Zenon DEF TypeOK
  <2> QED BY <2>1, <2>2, <2>3, Zenon
<1>6. TypeOK'
  BY <1>1, <1>2, <1>3, <1>4, <1>5, Zenon DEF TypeOK, Locations
<1>7. paired' => Paired'
  BY <1>1, <1>2, <1>3, Zenon DEF PasswordInv, Paired, ConfigNamesPassword
<1> QED BY <1>3, <1>6, <1>7, Zenon DEF PasswordInv

\* What a reflashed configuration has to name for the invariant to hold.
LEMMA ReflashInv ==
  ASSUME TypeOK, NEW passwords \in [password : Option, new_password : Option],
         Reflash(passwords), paired => password = password_'
  PROVE  PasswordInv'
<1>1. /\ password' = password /\ authenticated' = authenticated
      /\ unread' = unread /\ paired' = paired
      /\ yaml' = passwords /\ told' = FALSE /\ pc' = "off"
  BY Zenon DEF Reflash, reader
<1>2. password_' \in UInt32 /\ new_password_' \in UInt32
  <2>1. passwords.password \in Option /\ passwords.new_password \in Option
    OBVIOUS
  <2>2. password_' = Member(passwords.password, 0)
        /\ new_password_' = Member(passwords.new_password, UINT32_MAX)
    BY <1>1 DEF password_, new_password_
  <2> QED BY <2>1, <2>2, Numbers, Members, Zenon
<1>3. /\ pc' \in Locations /\ pc' # "set" /\ pc' # "running"
      /\ pc' \notin {"set", "read_params", "count"} /\ pc' \notin {"read_params", "count"}
  BY <1>1 DEF Locations
<1>4. TypeOK'
  BY <1>1, <1>2, <1>3, Zenon DEF TypeOK, Locations
<1>5. paired' => Paired'
  BY <1>1, <1>3, Zenon DEF Paired, ConfigNamesPassword
<1> QED BY <1>1, <1>3, <1>4, <1>5, Zenon DEF PasswordInv

LEMMA AdoptInv == PasswordInv /\ Adopt => PasswordInv'
<1> SUFFICES ASSUME PasswordInv, Adopt PROVE PasswordInv'
  OBVIOUS
<1> DEFINE adopted == [password |-> yaml.new_password, new_password |-> Unset]
<1>1. TypeOK /\ told /\ Reflash(adopted)
  BY Zenon DEF PasswordInv, Adopt
<1>2. yaml.password \in Option /\ yaml.new_password \in Option
  <2>1. yaml \in [password : Option, new_password : Option]
    BY <1>1, Zenon DEF TypeOK
  <2> QED BY <2>1
<1>3. adopted \in [password : Option, new_password : Option]
  BY <1>2, Numbers
<1>4. password_' = Member(yaml.new_password, 0)
  BY <1>1 DEF Reflash, password_
<1>5. paired => new_password_ # UINT32_MAX /\ password = new_password_
  BY <1>1, Zenon DEF PasswordInv, Paired
<1>6. paired => new_password_ = yaml.new_password /\ yaml.new_password # Unset
  <2>1. new_password_ # UINT32_MAX => new_password_ = yaml.new_password
    BY <1>2, Numbers, Members, Zenon DEF new_password_
  <2>2. new_password_ \in UInt32
    BY <1>1, Zenon DEF TypeOK
  <2> QED BY <1>5, <2>1, <2>2, Numbers, Zenon
<1>7. paired => password = password_'
  BY <1>2, <1>4, <1>5, <1>6, Numbers, Members, Zenon
<1> HIDE DEF adopted
<1> QED BY <1>1, <1>3, <1>7, ReflashInv, Zenon

LEMMA AskInv == PasswordInv /\ Ask => PasswordInv'
<1> SUFFICES ASSUME PasswordInv, Ask PROVE PasswordInv'
  OBVIOUS
<1>1. TypeOK /\ pc = "running" /\ ~told
  BY Zenon DEF PasswordInv, Ask
<1>2. PICK p \in UInt32 : Reflash([yaml EXCEPT !.new_password = p])
  BY Zenon DEF Ask
<1> DEFINE asked == [yaml EXCEPT !.new_password = p]
<1>3. yaml \in [password : Option, new_password : Option]
  BY <1>1, Zenon DEF TypeOK
<1>4. asked \in [password : Option, new_password : Option]
  BY <1>2, <1>3, Numbers
<1>5. password_' = password_
  BY <1>2, <1>3 DEF Reflash, password_
<1>6. paired => password = password_
  BY <1>1, Zenon DEF PasswordInv, Paired
<1>7. paired => password = password_'
  BY <1>5, <1>6, Zenon
<1>8. Reflash(asked)
  BY <1>2
<1> HIDE DEF asked
<1> QED BY <1>1, <1>4, <1>7, <1>8, ReflashInv, Zenon

LEMMA PasswordNext == PasswordInv /\ [Next]_vars => PasswordInv'
<1> SUFFICES ASSUME PasswordInv, [Next]_vars PROVE PasswordInv'
  OBVIOUS
<1>1. CASE UNCHANGED vars
  <2>1. /\ password' = password /\ authenticated' = authenticated /\ pc' = pc
        /\ yaml' = yaml /\ told' = told /\ unread' = unread /\ paired' = paired
    BY <1>1 DEF vars, reader
  <2>2. password_' = password_ /\ new_password_' = new_password_
    BY <2>1, SameYaml, Zenon
  <2>3. TypeOK'
    BY <2>1, <2>2, Zenon DEF PasswordInv, TypeOK
  <2>4. Paired => Paired'
    BY <2>1, <2>2, Zenon DEF Paired, ConfigNamesPassword
  <2> QED BY <2>1, <2>2, <2>3, <2>4, Zenon DEF PasswordInv
<1>2. CASE Next
  BY <1>2, BootInv, CheckPasswordInv, SetPasswordInv, OtherCommandsInv, ResetInv,
     AdoptInv, AskInv, Zenon DEF Next, SetupStep, User
<1> QED BY <1>1, <1>2, Zenon

LEMMA PasswordAlways == Spec => []PasswordInv
  BY PasswordInit, PasswordNext, PTL DEF Spec

\* Every reachable state is well typed: no reset, reflash or late answer leaves
\* a password, a configuration or an answer that the code does not expect.
THEOREM TypeCorrect == Spec => []TypeOK
<1>1. PasswordInv => TypeOK
  BY Zenon DEF PasswordInv
<1> QED BY <1>1, PasswordAlways, PTL

\* The flashed configuration always names the password that the reader has,
\* whatever resets, lost answers and reflashes interrupt setup(), provided
\* that no command was sent while an earlier answer was still to come.
THEOREM PasswordIsNamed == Spec => []ConfigNamesPassword
<1>1. PasswordInv => ConfigNamesPassword
  BY Zenon DEF PasswordInv, Paired, ConfigNamesPassword
<1> QED BY <1>1, PasswordAlways, PTL

\* When setup() of a configuration with a new password has succeeded, the
\* reader has that password.
THEOREM RunsWithNewPassword == Spec => []NewPasswordIsSet
<1>1. PasswordInv => NewPasswordIsSet
  BY Zenon DEF PasswordInv, Paired, NewPasswordIsSet
<1> QED BY <1>1, PasswordAlways, PTL
==============================================================================
