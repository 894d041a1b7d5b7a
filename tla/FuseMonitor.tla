----------------------------- MODULE FuseMonitor -----------------------------
(***************************************************************************)
(* The fuse inputs.  A rising edge on the input of a channel disables the  *)
(* channel's interrupt and arms a debounce timer; when the timer expires   *)
(* its callback reads the input again, posts an error if it is still high  *)
(* and the mailbox has room, and then enables the interrupt again.  All    *)
(* channels share one timer.  An edge may interrupt the callback.          *)
(***************************************************************************)
EXTENDS Naturals

CONSTANTS CHANNEL_NUM, ERR_HANDL_MAILBOX_SIZE

VARIABLES
  pin,        \* the input of each channel, high for a blown fuse
  ext,        \* the edge interrupt of each channel is enabled
  vt,         \* errhandl.vt: the channel whose callback it will call
  callback,   \* the channel whose callback has read the input
  mails,      \* how many mails are in error_mb
  reported,   \* history: the high input of the channel has been posted
  dropped,    \* history: it was read, but the mailbox was full
  missed      \* history: its edge came after the callback's read, and before
              \* the interrupt was enabled again

seen == <<reported, dropped, missed>>
vars == <<pin, ext, vt, callback, mails, seen>>

Channel == 0 .. CHANNEL_NUM - 1
None    == CHANNEL_NUM

TypeOK ==
  /\ pin \in [Channel -> BOOLEAN]
  /\ ext \in [Channel -> BOOLEAN]
  /\ vt \in Channel \cup {None}
  /\ callback \in Channel \cup {None}
  /\ mails \in 0 .. ERR_HANDL_MAILBOX_SIZE
  /\ reported \in [Channel -> BOOLEAN]
  /\ dropped \in [Channel -> BOOLEAN]
  /\ missed \in [Channel -> BOOLEAN]

\* The errorhandler has read the inputs once, and posted the high ones.
Init ==
  /\ pin \in [Channel -> BOOLEAN]
  /\ ext = [c \in Channel |-> TRUE]
  /\ vt = None
  /\ callback = None
  /\ mails \in 0 .. ERR_HANDL_MAILBOX_SIZE
  /\ reported = pin
  /\ dropped = [c \in Channel |-> FALSE]
  /\ missed = [c \in Channel |-> FALSE]

\* chXRelayDebounce, called for a rising edge while the interrupt is enabled:
\* the timer is reset and set anew.
PinRises(c) ==
  /\ ~pin[c]
  /\ pin' = [pin EXCEPT ![c] = TRUE]
  /\ IF ext[c]
     THEN ext' = [ext EXCEPT ![c] = FALSE] /\ vt' = c
     ELSE UNCHANGED <<ext, vt>>
  /\ missed' = [missed EXCEPT ![c] = callback = c]
  /\ UNCHANGED <<callback, mails, reported, dropped>>

\* What was seen of the input before is of no more interest.
PinFalls(c) ==
  /\ pin[c]
  /\ pin' = [pin EXCEPT ![c] = FALSE]
  /\ reported' = [reported EXCEPT ![c] = FALSE]
  /\ dropped' = [dropped EXCEPT ![c] = FALSE]
  /\ missed' = [missed EXCEPT ![c] = FALSE]
  /\ UNCHANGED <<ext, vt, callback, mails>>

\* chXFuseError, the callback of the timer: chMBPostI does not wait, and
\* nobody looks at its result.
FuseError ==
  /\ vt \in Channel
  /\ callback = None
  /\ callback' = vt
  /\ vt' = None
  /\ \/ ~pin[vt] /\ UNCHANGED <<mails, reported, dropped>>
     \/ /\ pin[vt] /\ mails < ERR_HANDL_MAILBOX_SIZE
        /\ mails' = mails + 1
        /\ reported' = [reported EXCEPT ![vt] = TRUE]
        /\ UNCHANGED dropped
     \/ /\ pin[vt] /\ mails = ERR_HANDL_MAILBOX_SIZE
        /\ dropped' = [dropped EXCEPT ![vt] = TRUE]
        /\ UNCHANGED <<mails, reported>>
  /\ UNCHANGED <<pin, ext, missed>>

\* The callback ends.
EnableChannel ==
  /\ callback \in Channel
  /\ ext' = [ext EXCEPT ![callback] = TRUE]
  /\ callback' = None
  /\ UNCHANGED <<pin, vt, mails, seen>>

\* Another thread mails an error, and the errorhandler takes one.
SendErrMail ==
  /\ mails < ERR_HANDL_MAILBOX_SIZE
  /\ mails' = mails + 1
  /\ UNCHANGED <<pin, ext, vt, callback, seen>>

FetchMail ==
  /\ mails > 0
  /\ mails' = mails - 1
  /\ UNCHANGED <<pin, ext, vt, callback, seen>>

Next ==
  \/ \E c \in Channel : PinRises(c) \/ PinFalls(c)
  \/ FuseError \/ EnableChannel
  \/ SendErrMail \/ FetchMail

\* The timer expires unless it is set again and again, and its callback ends.
Spec == Init /\ [][Next]_vars /\ WF_vars(FuseError) /\ WF_vars(EnableChannel)

\* The callback has read the high input, or its edge came while the callback
\* had read it already.
Answered(c) == reported[c] \/ dropped[c] \/ missed[c]

\* A fuse that has blown for good is read: it is reported if the mailbox has
\* room, and if its edge is not one of a bouncing input that comes upon the
\* callback.  Each channel is commented to have its debounce timer ("CH1
\* relay debounce timer", errorhandler.c 115).  It does not hold: an edge on
\* a second channel takes the timer away from the first, whose interrupt
\* stays disabled.
BlownFuseIsReported ==
  \A c \in Channel : pin[c] ~> (~pin[c] \/ Answered(c))
=============================================================================
