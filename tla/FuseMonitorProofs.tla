------------------------- MODULE FuseMonitorProofs -------------------------
(***************************************************************************)
(* What becomes of a blown fuse, for every number of channels and every    *)
(* size of the mailbox.  Its high input is reported, or dropped at a full  *)
(* mailbox, or its edge fell into the end of a callback, or the channel    *)
(* has lost the shared timer to another one, and then it is deaf for ever. *)
(***************************************************************************)
EXTENDS FuseMonitor, Integers, TLAPS

\* The interrupt of the channel is disabled, and no timer and no callback
\* will enable it.
Lost(c) == ~ext[c] /\ vt # c /\ callback # c

LEMMA TypeInit == Init => TypeOK
  BY DEF Init, TypeOK

LEMMA TypeStep ==
  ASSUME ERR_HANDL_MAILBOX_SIZE \in Nat
  PROVE  TypeOK /\ [Next]_vars => TypeOK'
  <1> SUFFICES ASSUME TypeOK, [Next]_vars PROVE TypeOK'
    OBVIOUS
  <1> USE DEF TypeOK
  <1>1. ASSUME NEW c \in Channel, PinRises(c) PROVE TypeOK'
    BY <1>1 DEF PinRises
  <1>2. ASSUME NEW c \in Channel, PinFalls(c) PROVE TypeOK'
    BY <1>2 DEF PinFalls
  <1>3. CASE FuseError
    <2>1. /\ vt' \in Channel \cup {None} /\ callback' \in Channel \cup {None}
          /\ pin' = pin /\ ext' = ext /\ missed' = missed
      BY <1>3 DEF FuseError
    <2>2. mails' \in 0 .. ERR_HANDL_MAILBOX_SIZE
      BY <1>3 DEF FuseError
    <2>3. reported' \in [Channel -> BOOLEAN] /\ dropped' \in [Channel -> BOOLEAN]
      BY <1>3 DEF FuseError
    <2> QED
      BY <2>1, <2>2, <2>3
  <1>4. CASE EnableChannel
    BY <1>4 DEF EnableChannel, seen
  <1>5. CASE SendErrMail \/ FetchMail
    BY <1>5 DEF SendErrMail, FetchMail, seen
  <1>6. CASE UNCHANGED vars
    BY <1>6 DEF vars, seen
  <1> QED
    BY <1>1, <1>2, <1>3, <1>4, <1>5, <1>6 DEF Next

THEOREM TypeCorrect ==
  ASSUME ERR_HANDL_MAILBOX_SIZE \in Nat
  PROVE  Spec => []TypeOK
  BY TypeInit, TypeStep, PTL DEF Spec

-----------------------------------------------------------------------------
\* A channel with the timer or the callback, and no channel has both, has its
\* interrupt disabled; and a fuse that is blown was read, is being debounced,
\* or was lost.
Debounced ==
  /\ \A c \in Channel : vt = c \/ callback = c => ~ext[c]
  /\ \A c \in Channel : ~(vt = c /\ callback = c)
  /\ \A c \in Channel : pin[c] => Answered(c) \/ vt = c \/ Lost(c)

LEMMA DebouncedStep ==
  ASSUME CHANNEL_NUM \in Nat, TypeOK, Debounced, [Next]_vars
  PROVE  Debounced'
  <1> USE DEF Debounced, Lost, Answered
  <1>a. None \notin Channel
    BY DEF None, Channel
  <1>1. ASSUME NEW d \in Channel, PinRises(d) PROVE Debounced'
    <2>1. /\ ~pin[d] /\ UNCHANGED <<callback, reported, dropped>>
          /\ \A c \in Channel : c # d => /\ pin'[c] = pin[c]
                                        /\ ext'[c] = ext[c]
                                        /\ missed'[c] = missed[c]
      BY <1>1 DEF PinRises, TypeOK
    <2>2. missed'[d] = (callback = d)
      BY <1>1 DEF PinRises, TypeOK
    <2>3. CASE ext[d]
      <3>1. vt' = d /\ ext'[d] = FALSE
        BY <1>1, <2>3 DEF PinRises, TypeOK
      <3> QED
        BY <2>1, <2>2, <2>3, <3>1
    <2>4. CASE ~ext[d]
      <3>1. vt' = vt /\ ext' = ext
        BY <1>1, <2>4 DEF PinRises
      <3> QED
        BY <2>1, <2>2, <2>4, <3>1
    <2> QED
      BY <2>3, <2>4
  <1>2. ASSUME NEW d \in Channel, PinFalls(d) PROVE Debounced'
    BY <1>2 DEF PinFalls, TypeOK
  <1>3. CASE FuseError
    <2>1. /\ vt \in Channel /\ vt' = None /\ callback = None /\ callback' = vt
          /\ UNCHANGED <<pin, ext, missed>>
      BY <1>3 DEF FuseError
    <2>2. /\ \A c \in Channel : c # vt => reported'[c] = reported[c]
                                          /\ dropped'[c] = dropped[c]
          /\ pin[vt] => reported'[vt] \/ dropped'[vt]
      BY <1>3 DEF FuseError, TypeOK
    <2> QED
      BY <1>a, <2>1, <2>2
  <1>4. CASE EnableChannel
    <2>1. /\ callback \in Channel /\ callback' = None
          /\ UNCHANGED <<pin, vt, reported, dropped, missed>>
          /\ \A c \in Channel : c # callback => ext'[c] = ext[c]
      BY <1>4 DEF EnableChannel, TypeOK, seen
    <2>2. vt # callback /\ (pin[callback] => Answered(callback))
      BY <2>1
    <2> QED
      BY <1>a, <2>1, <2>2
  <1>5. CASE SendErrMail \/ FetchMail \/ UNCHANGED vars
    BY <1>5 DEF SendErrMail, FetchMail, vars, seen
  <1> QED
    BY <1>1, <1>2, <1>3, <1>4, <1>5 DEF Next

\* No blown fuse is missed but in one of three ways: its mail was dropped at
\* a full mailbox, its edge came between the read and the end of a callback,
\* or its debounce was lost (errorhandler.c 82-142).
THEOREM BlownFuseIsDebounced ==
  ASSUME CHANNEL_NUM \in Nat, ERR_HANDL_MAILBOX_SIZE \in Nat
  PROVE  Spec => [](\A c \in Channel :
                      pin[c] => Answered(c) \/ vt = c \/ Lost(c))
  <1>a. None \notin Channel
    BY DEF None, Channel
  <1>1. Init => Debounced
    BY <1>a DEF Init, Debounced, Answered
  <1>2. TypeOK /\ Debounced /\ [Next]_vars => Debounced'
    BY DebouncedStep
  <1>3. Debounced => \A c \in Channel : pin[c] => Answered(c) \/ vt = c \/ Lost(c)
    BY DEF Debounced
  <1> QED
    BY <1>1, <1>2, <1>3, TypeCorrect, PTL DEF Spec

\* A debounce is lost only to an edge on the input of another channel while
\* the timer runs (errorhandler.c 98-142: chVTResetI on the shared timer).
LostToAnother ==
  [][\A c \in Channel : ~Lost(c) /\ Lost(c)' =>
       vt = c /\ \E d \in Channel \ {c} : PinRises(d)]_vars

THEOREM LostOnlyToAnother ==
  ASSUME CHANNEL_NUM \in Nat, ERR_HANDL_MAILBOX_SIZE \in Nat
  PROVE  Spec => LostToAnother
  <1>a. None \notin Channel
    BY DEF None, Channel
  <1>1. TypeOK /\ [Next]_vars =>
          [\A c \in Channel : ~Lost(c) /\ Lost(c)' =>
             vt = c /\ \E d \in Channel \ {c} : PinRises(d)]_vars
    <2> SUFFICES ASSUME TypeOK, Next, NEW c \in Channel, ~Lost(c), Lost(c)'
                 PROVE  vt = c /\ \E d \in Channel \ {c} : PinRises(d)
      BY DEF Lost, vars, seen
    <2> USE DEF Lost, TypeOK
    <2>1. ~FuseError
      BY <1>a DEF FuseError
    <2>2. ~EnableChannel
      BY <1>a DEF EnableChannel
    <2>3. ~SendErrMail /\ ~FetchMail
      BY DEF SendErrMail, FetchMail
    <2>4. PICK d \in Channel : PinRises(d) \/ PinFalls(d)
      BY <2>1, <2>2, <2>3 DEF Next
    <2>5. PinRises(d)
      BY <2>4 DEF PinFalls
    <2>6. d # c /\ vt = c
      BY <2>5 DEF PinRises
    <2> QED
      BY <2>5, <2>6
  <1> QED
    BY <1>1, TypeCorrect, PTL DEF Spec, LostToAnother

\* A lost channel stays lost, and no report of it comes any more: only a boot
\* enables its interrupt again.
LostForEver ==
  [][\A c \in Channel : Lost(c) => Lost(c)' /\ (reported'[c] => reported[c])]_vars

THEOREM LostStaysLost ==
  ASSUME CHANNEL_NUM \in Nat, ERR_HANDL_MAILBOX_SIZE \in Nat
  PROVE  Spec => LostForEver
  <1>a. None \notin Channel
    BY DEF None, Channel
  <1>1. TypeOK /\ [Next]_vars =>
          [\A c \in Channel :
             Lost(c) => Lost(c)' /\ (reported'[c] => reported[c])]_vars
    <2> SUFFICES ASSUME TypeOK, Next, NEW c \in Channel, Lost(c)
                 PROVE  Lost(c)' /\ (reported'[c] => reported[c])
      OBVIOUS
    <2> USE DEF Lost, TypeOK
    <2>1. CASE FuseError
      BY <1>a, <2>1 DEF FuseError
    <2>2. CASE EnableChannel
      BY <1>a, <2>2 DEF EnableChannel, seen
    <2>3. CASE SendErrMail \/ FetchMail
      BY <2>3 DEF SendErrMail, FetchMail, seen
    <2>4. ASSUME NEW d \in Channel, PinRises(d)
          PROVE  Lost(c)' /\ (reported'[c] => reported[c])
      BY <2>4 DEF PinRises
    <2>5. ASSUME NEW d \in Channel, PinFalls(d)
          PROVE  Lost(c)' /\ (reported'[c] => reported[c])
      BY <2>5 DEF PinFalls
    <2> QED
      BY <2>1, <2>2, <2>3, <2>4, <2>5 DEF Next
  <1> QED
    BY <1>1, TypeCorrect, PTL DEF Spec, LostForEver
=============================================================================
