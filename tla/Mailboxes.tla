----------------------------- MODULE Mailboxes -----------------------------
(***************************************************************************)
(* The three ChibiOS mailboxes over which the control threads of the       *)
(* sterilizer talk.  A mailbox is a bounded queue: chMBPost with           *)
(* TIME_INFINITE parks the caller until a slot is free, chMBPostAhead puts *)
(* the message before all the others.                                      *)
(*                                                                         *)
(* The error mailbox is only a number of messages, because the             *)
(* errorhandler treats its nine message codes in the same way.             *)
(***************************************************************************)
EXTENDS Naturals, Sequences

CONSTANTS
  ERR_HANDL_MAILBOX_SIZE,   \* slots of error_mb (20 in appconf.h)
  FUZZYREG_MAILBOX_SIZE,    \* slots of fuzzyreg_mb (10)
  STERILIZER_MAILBOX_SIZE   \* slots of steril_mb (10)

ASSUME MailboxSizes ==
  /\ ERR_HANDL_MAILBOX_SIZE \in Nat \ {0}
  /\ FUZZYREG_MAILBOX_SIZE \in Nat \ {0}
  /\ STERILIZER_MAILBOX_SIZE \in Nat \ {0}

VARIABLES
  error_mb,     \* number of messages that wait for the errorhandler
  fuzzyreg_mb,  \* messages that wait for the regulator, oldest first
  steril_mb     \* messages that wait for the sterilizer, oldest first

mailboxes == <<error_mb, fuzzyreg_mb, steril_mb>>

RegulatorMsg  == {"START", "STOP", "DISABLE"}
SterilizerMsg == {"SENSOR_INIT_END", "START", "STOP", "STOPERROR", "PRINT"}

MailboxTypeOK ==
  /\ error_mb \in 0 .. ERR_HANDL_MAILBOX_SIZE
  /\ fuzzyreg_mb \in Seq(RegulatorMsg)
  /\ Len(fuzzyreg_mb) <= FUZZYREG_MAILBOX_SIZE
  /\ steril_mb \in Seq(SterilizerMsg)
  /\ Len(steril_mb) <= STERILIZER_MAILBOX_SIZE

MailboxInit ==
  /\ error_mb = 0
  /\ fuzzyreg_mb = << >>
  /\ steril_mb = << >>

(***************************************************************************)
(* The posting functions.  Each is enabled only when the caller need not   *)
(* wait.                                                                   *)
(***************************************************************************)
SendErrMail ==
  /\ error_mb < ERR_HANDL_MAILBOX_SIZE
  /\ error_mb' = error_mb + 1

SendMailToRegulator(msg) ==
  /\ Len(fuzzyreg_mb) < FUZZYREG_MAILBOX_SIZE
  /\ fuzzyreg_mb' = Append(fuzzyreg_mb, msg)

\* Mutant: the disable mail waits behind the others, chMBPost for
\* chMBPostAhead.
SendDisableMailBehind ==
  /\ Len(fuzzyreg_mb) < FUZZYREG_MAILBOX_SIZE
  /\ fuzzyreg_mb' = Append(fuzzyreg_mb, "DISABLE")

SendDisableMailToRegulator ==
  /\ Len(fuzzyreg_mb) < FUZZYREG_MAILBOX_SIZE
  /\ fuzzyreg_mb' = <<"DISABLE">> \o fuzzyreg_mb

SendMailToSterilizer(msg) ==
  /\ Len(steril_mb) < STERILIZER_MAILBOX_SIZE
  /\ steril_mb' = Append(steril_mb, msg)
=============================================================================
