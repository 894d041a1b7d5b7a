---------------------------- MODULE ErrorHandler ----------------------------
(***************************************************************************)
(* The errorhandler thread.  It reports at most ERROR_LIST_MAX_SIZE        *)
(* errors: each goes on the error list, which is never emptied, and is     *)
(* forwarded first to the regulator and then to the sterilizer.            *)
(***************************************************************************)
EXTENDS Mailboxes

CONSTANTS
  ERROR_LIST_MAX_SIZE,   \* items of the error pool (20 in appconf.h)
  FUSE_NUM               \* fuse inputs read at boot (3, one per channel)

ASSUME ErrorHandlerConstants ==
  /\ ERROR_LIST_MAX_SIZE \in Nat \ {0}
  /\ FUSE_NUM \in Nat

VARIABLES
  erroritems,   \* errhandl.erroritems
  err_pc,       \* where the thread is in its loop
  err_fuse      \* the loop variable of the fuse check at boot

errorhandler == <<erroritems, err_pc, err_fuse>>

ErrorHandlerTypeOK ==
  /\ erroritems \in 0 .. ERROR_LIST_MAX_SIZE
  /\ err_pc \in {"boot", "fetch", "disable", "stoperr"}
  /\ err_fuse \in 0 .. FUSE_NUM

ErrorHandlerInit ==
  /\ erroritems = 0
  /\ err_pc = "boot"
  /\ err_fuse = 0

\* At boot the thread posts the blown fuses to its own mailbox.
ErrBootFuse ==
  /\ err_pc = "boot"
  /\ err_fuse < FUSE_NUM
  /\ SendErrMail \/ UNCHANGED error_mb
  /\ err_fuse' = err_fuse + 1
  /\ UNCHANGED <<erroritems, err_pc, fuzzyreg_mb, steril_mb>>

ErrBootEnd ==
  /\ err_pc = "boot"
  /\ err_fuse = FUSE_NUM
  /\ err_pc' = "fetch"
  /\ UNCHANGED <<erroritems, err_fuse, mailboxes>>

ErrTakeMail ==
  /\ err_pc = "fetch"
  /\ error_mb > 0
  /\ error_mb' = error_mb - 1

\* Mutant: the sterilizer is told of the error, the regulator is not.
ErrListWithoutDisable ==
  /\ ErrTakeMail
  /\ erroritems < ERROR_LIST_MAX_SIZE
  /\ erroritems' = erroritems + 1
  /\ err_pc' = "stoperr"
  /\ UNCHANGED <<err_fuse, fuzzyreg_mb, steril_mb>>

\* The pool has an item: the error is put on the list.
ErrList ==
  /\ ErrTakeMail
  /\ erroritems < ERROR_LIST_MAX_SIZE
  /\ erroritems' = erroritems + 1
  /\ err_pc' = "disable"
  /\ UNCHANGED <<err_fuse, fuzzyreg_mb, steril_mb>>

\* The pool is empty: the error is only counted as an underflow.
ErrUnderflow ==
  /\ ErrTakeMail
  /\ erroritems = ERROR_LIST_MAX_SIZE
  /\ UNCHANGED <<errorhandler, fuzzyreg_mb, steril_mb>>

ErrDisableRegulator ==
  /\ err_pc = "disable"
  /\ SendDisableMailToRegulator
  /\ err_pc' = "stoperr"
  /\ UNCHANGED <<erroritems, err_fuse, error_mb, steril_mb>>

ErrStopSterilizer ==
  /\ err_pc = "stoperr"
  /\ SendMailToSterilizer("STOPERROR")
  /\ err_pc' = "fetch"
  /\ UNCHANGED <<erroritems, err_fuse, error_mb, fuzzyreg_mb>>

Threaderrorhandler ==
  \/ ErrBootFuse \/ ErrBootEnd
  \/ ErrList \/ ErrUnderflow \/ ErrDisableRegulator \/ ErrStopSterilizer
=============================================================================
