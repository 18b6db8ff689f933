----------------------------- MODULE GrowPassword -----------------------------
(***************************************************************************)
(* Changing the reader's password, over resets of the microcontroller and   *)
(* of the reader, reflashed configurations and a line that loses and delays *)
(* answers.  setup() verifies the password of the configuration and, if     *)
(* the configuration asks for a new one, sets it; the log then tells the    *)
(* user to "define the new password in your configuration and reflash".     *)
(*                                                                          *)
(* The reader keeps its password (external).  The user (external) asks for  *)
(* a new password only while the component runs, and makes it the password  *)
(* of the configuration only when told to.                                  *)
(***************************************************************************)
EXTENDS GrowReply, GrowConfig

CONSTANT MaxUnread   \* bound: late answers on the line at any time

ASSUME UnreadAssumption == MaxUnread \in Nat

VARIABLES
  password,       \* the reader's
  authenticated,  \* since the reader was powered, the password was verified
  yaml,           \* the configuration that is flashed: its two passwords
  pc,             \* position in setup()
  told,           \* the log has told to reflash, since the last time
  unread,         \* answers sent by the reader and not seen yet
  paired          \* history: no command was sent with answers unread

reader == <<password, authenticated>>
vars   == <<reader, yaml, pc, told, unread, paired>>

Option == UInt32 \cup {Unset}

\* password_ and new_password_
password_     == Member(yaml.password, 0)
new_password_ == Member(yaml.new_password, UINT32_MAX)

TypeOK ==
  /\ password \in UInt32
  /\ password_ \in UInt32 /\ new_password_ \in UInt32
  /\ authenticated \in BOOLEAN
  /\ yaml \in [password : Option, new_password : Option]
  /\ pc \in {"off", "check", "set", "read_params", "count", "running", "failed"}
  /\ told \in BOOLEAN
  /\ unread \in Seq(Answers)
  /\ paired \in BOOLEAN

\* The configuration has the reader's password.
Init ==
  /\ yaml \in [password : Option, new_password : Option]
  /\ password = password_
  /\ authenticated = FALSE
  /\ pc = "off"
  /\ told = FALSE
  /\ unread = <<>>
  /\ paired = TRUE
-----------------------------------------------------------------------------
\* send_command_
SendCommand(answers, r) ==
  /\ \E o \in Outcomes(unread, answers, TIMEOUT) :
       /\ Len(o.unread) <= MaxUnread
       /\ r = o.response
       /\ unread' = o.unread
  /\ paired' = (paired /\ unread = <<>>)

\* setup() starts, up to check_password_.
Boot ==
  /\ pc = "off"
  /\ pc' = "check"
  /\ UNCHANGED <<reader, yaml, told, unread, paired>>

\* check_password_: the reader verifies the password, unless the command does
\* not reach it whole.
CheckPassword ==
  /\ pc = "check"
  /\ \E r \in Responses :
       /\ \/ /\ password = password_
             /\ SendCommand({OK}, r)
             /\ authenticated' = TRUE
          \/ SendCommand({FAILURE}, r) /\ UNCHANGED authenticated
       /\ \/ r # OK /\ pc' = "failed"
          \/ r = OK /\ new_password_ # UINT32_MAX /\ pc' = "set"
          \/ r = OK /\ new_password_ = UINT32_MAX /\ pc' = "read_params"
  /\ UNCHANGED <<password, yaml, told>>

\* (mutant of SetPassword: a command without an answer is taken for done)
SetPasswordUnanswered ==
  /\ pc = "set"
  /\ \E r \in Responses :
       /\ \/ authenticated /\ SendCommand({OK}, r) /\ password' = new_password_
          \/ SendCommand({FAILURE}, r) /\ UNCHANGED password
       /\ IF r # FAILURE THEN told' = TRUE /\ pc' = "running"
                         ELSE UNCHANGED told /\ pc' = "failed"
  /\ UNCHANGED <<authenticated, yaml>>

\* set_password_: an authenticated reader that gets the command takes the new
\* password; the answer may be lost all the same.
SetPassword ==
  /\ pc = "set"
  /\ \E r \in Responses :
       /\ \/ authenticated /\ SendCommand({OK}, r) /\ password' = new_password_
          \/ SendCommand({FAILURE}, r) /\ UNCHANGED password
       /\ IF r = OK THEN told' = TRUE /\ pc' = "running"
                    ELSE UNCHANGED told /\ pc' = "failed"
  /\ UNCHANGED <<authenticated, yaml>>

\* get_parameters_
GetParameters ==
  /\ pc = "read_params"
  /\ \E r \in Responses :
       /\ SendCommand({OK, FAILURE}, r)
       /\ pc' = IF r = OK THEN "count" ELSE "failed"
  /\ UNCHANGED <<reader, yaml, told>>

\* get_fingerprint_count_ in get_parameters_: its outcome is ignored.
GetCount ==
  /\ pc = "count"
  /\ \E r \in Responses : SendCommand({OK, FAILURE}, r)
  /\ pc' = "running"
  /\ UNCHANGED <<reader, yaml, told>>

\* The commands of update() and of actions, which leave the password alone.
OtherCommand ==
  /\ pc \in {"running", "failed"}
  /\ \E r \in Responses : SendCommand({OK, FAILURE}, r)
  /\ UNCHANGED <<reader, yaml, pc, told>>
-----------------------------------------------------------------------------
(* The environment. *)

\* The microcontroller is reset at any time, also within an exchange (after
\* the reader has executed the command: SetPassword without an answer, and
\* then a reset); the reader may lose power with it.
Reset ==
  /\ pc # "off"
  /\ pc' = "off"
  /\ \/ UNCHANGED <<authenticated, unread>>
     \/ authenticated' = FALSE /\ unread' = <<>>
  /\ UNCHANGED <<password, yaml, told, paired>>

Reflash(passwords) ==
  /\ yaml' = passwords
  /\ pc' = "off"
  /\ told' = FALSE
  /\ UNCHANGED <<reader, unread, paired>>

\* "Define the new password in your configuration and reflash now"
Adopt ==
  /\ told
  /\ Reflash([password |-> yaml.new_password, new_password |-> Unset])

Ask ==
  /\ pc = "running" /\ ~told
  /\ \E p \in UInt32 : Reflash([yaml EXCEPT !.new_password = p])

SetupStep == Boot \/ CheckPassword \/ SetPassword \/ GetParameters \/ GetCount
User      == Adopt \/ Ask

Next == SetupStep \/ OtherCommand \/ Reset \/ User

Spec == Init /\ [][Next]_vars
-----------------------------------------------------------------------------
(* Properties *)

\* The configuration always names the reader's password, as the old or as the
\* new one: whenever a reset, a lost answer or a reflash comes, no password is
\* forgotten, as long as answers pair up with commands.  (An OK that comes too
\* late and is taken for that of SET_PASSWORD tells the user to forget the
\* password that the reader still has.)
ConfigNamesPassword ==
  paired =>
    \/ password = password_
    \/ new_password_ # UINT32_MAX /\ password = new_password_

\* A component that runs although it was to set a new password has set it.
NewPasswordIsSet ==
  paired /\ pc = "running" /\ new_password_ # UINT32_MAX => password = new_password_
==============================================================================
