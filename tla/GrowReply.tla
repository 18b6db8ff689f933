------------------------------ MODULE GrowReply ------------------------------
(***************************************************************************)
(* The confirmation codes of the fingerprint reader (fingerprint_grow.h)    *)
(* and the outcomes one call of send_command_ can have on a serial line     *)
(* that may still hold answers to earlier commands.                         *)
(*                                                                          *)
(* Codes that every caller treats alike are one value:                      *)
(*   BAD_IMAGE   IMAGE_MESS, FEATURE_FAIL, INVALID_IMAGE                    *)
(*   FAILURE     every remaining code a reader can send (PACKET_RCV_ERR,    *)
(*               PASSWORD_FAIL, ENROLL_MISMATCH, FLASH_ERR, ...)            *)
(* TIMEOUT is never sent: transfer_ makes it up.                            *)
(***************************************************************************)
EXTENDS Naturals, SequencesExt

OK         == "OK"
NO_FINGER  == "NO_FINGER"
IMAGE_FAIL == "IMAGE_FAIL"
BAD_IMAGE  == "BAD_IMAGE"
NOT_FOUND  == "NOT_FOUND"
FAILURE    == "FAILURE"
TIMEOUT    == "TIMEOUT"

Answers   == {OK, NO_FINGER, IMAGE_FAIL, BAD_IMAGE, NOT_FOUND, FAILURE}
Responses == Answers \cup {TIMEOUT}

(***************************************************************************)
(* One command on the wire.  unread holds the answers to earlier commands   *)
(* that the parser has not seen.  The drain at the top of transfer_ removes *)
(* those that have already arrived, a suffix may still be in the air; the   *)
(* reader then answers with an element of answers, or not at all.  The      *)
(* parser returns the oldest answer it sees, or gives up and responds with  *)
(* silence while the rest arrives later.                                    *)
(***************************************************************************)
Outcomes(unread, answers, silence) ==
  LET visible == Suffixes(unread)
                   \cup (UNION {Suffixes(Append(unread, a)) : a \in answers})
  IN  {[response |-> silence, unread |-> q] : q \in visible}
        \cup {[response |-> Head(q), unread |-> Tail(q)] : q \in visible \ {<<>>}}
==============================================================================
