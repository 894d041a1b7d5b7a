--------------------------- MODULE DisplayProofs ---------------------------
(***************************************************************************)
(* No draw job is lost, and no update of the display between the two       *)
(* critical sections of a call and the reads of a drawing function without *)
(* the mutex: for every size of the queue and of the mailbox.              *)
(*                                                                         *)
(* The start and the end of a run are drawn on the same widget.  That it   *)
(* does not end up with the older one needs the order of the jobs: the     *)
(* last one of the two that is queued agrees with what was called last.    *)
(***************************************************************************)
EXTENDS Display, TLAPS

-----------------------------------------------------------------------------
(***************************************************************************)
(* The drawing functions.                                                  *)
(***************************************************************************)
\* A drawing function draws one or two fields, the result functions the result.
LEMMA DrawnFields ==
  ASSUME NEW func \in DrawFunc
  PROVE  /\ Drawn[func] \in Seq(Field)
         /\ Len(Drawn[func]) \in 1 .. 2
         /\ DOMAIN Drawn[func] = 1 .. Len(Drawn[func])
         /\ \A i \in DOMAIN Drawn[func] :
              Drawn[func][i] = "finalresult" => func \in ResultFunc /\ i = 1
         /\ func \in ResultFunc =>
              Len(Drawn[func]) = 1 /\ Drawn[func][1] = "finalresult"
<1>1. CASE func = "drawSterilizerState"
  BY <1>1 DEF Drawn, Field, ResultFunc
<1>2. CASE func = "drawResultStart"
  BY <1>2 DEF Drawn, Field, ResultFunc
<1>3. CASE func = "drawResultEnd"
  BY <1>3 DEF Drawn, Field, ResultFunc
<1>4. CASE func = "drawSterileTemps"
  BY <1>4 DEF Drawn, Field, ResultFunc
<1>5. CASE func = "drawHeatPower"
  BY <1>5 DEF Drawn, Field, ResultFunc
<1>6. CASE func = "drawTempLables"
  BY <1>6 DEF Drawn, Field, ResultFunc
<1>7. CASE func = "drawSdcState"
  BY <1>7 DEF Drawn, Field, ResultFunc
<1>. QED  BY <1>1, <1>2, <1>3, <1>4, <1>5, <1>6, <1>7 DEF DrawFunc

\* Without a drawing function nothing is drawn.
LEMMA NothingDrawn ==
  /\ Drawn["none"] = << >>
  /\ \A f : ~Draws("none", f)
BY DEF Drawn, Draws

\* The result is drawn by the result functions only.
LEMMA ResultDrawn ==
  ASSUME NEW func \in DrawFunc \cup {"none"}
  PROVE  /\ Draws(func, "finalresult") <=> func \in ResultFunc
         /\ func \in ResultFunc => \A f : Draws(func, f) => f = "finalresult"
<1>1. CASE func = "none"
  BY <1>1, NothingDrawn DEF ResultFunc
<1>2. CASE func \in DrawFunc
  BY <1>2, DrawnFields DEF Draws
<1>. QED  BY <1>1, <1>2

-----------------------------------------------------------------------------
(***************************************************************************)
(* The calls that a thread has to make.                                    *)
(***************************************************************************)
AnyValue == SterilizerState \cup {"SUCCESS", "FAILURE"} \cup Nat

AnyCall == [func : DrawFunc \cup {"none"}, field : Field \cup {"none"},
            value : AnyValue]

\* Only the sterilizer shows results, and a call writes what its field may hold.
CallOK(t, call) ==
  /\ call.field # "none" => call.value \in Value(call.field)
  /\ call.func \in ResultFunc => t = "sterilizer"

\* What is written is drawn by the same call or a later one.
CallsDraw(seq) ==
  \A i \in DOMAIN seq :
    seq[i].field # "none" =>
      \E j \in DOMAIN seq : j >= i /\ Draws(seq[j].func, seq[i].field)

CallsOK(t, seq) ==
  /\ seq \in Seq(AnyCall)
  /\ \A i \in DOMAIN seq : CallOK(t, seq[i])
  /\ CallsDraw(seq)

LEMMA NoCalls == \A t : CallsOK(t, << >>)
BY DEF CallsOK, CallsDraw

LEMMA OneCall ==
  ASSUME NEW t, NEW call \in AnyCall, CallOK(t, call),
         call.field = "none" \/ Draws(call.func, call.field)
  PROVE  CallsOK(t, <<call>>)
BY DEF CallsOK, CallsDraw

LEMMA CallsJoined ==
  ASSUME NEW t, NEW a, NEW b, CallsOK(t, a), CallsOK(t, b)
  PROVE  CallsOK(t, a \o b)
<1>. DEFINE c == a \o b
<1>1. /\ a \in Seq(AnyCall) /\ b \in Seq(AnyCall) /\ c \in Seq(AnyCall)
      /\ Len(c) = Len(a) + Len(b)
      /\ DOMAIN a = 1 .. Len(a) /\ DOMAIN b = 1 .. Len(b)
      /\ DOMAIN c = 1 .. Len(c)
      /\ Len(a) \in Nat /\ Len(b) \in Nat
  BY DEF CallsOK
<1>2. /\ \A i \in 1 .. Len(a) : c[i] = a[i]
      /\ \A i \in 1 .. Len(b) : c[Len(a) + i] = b[i]
  BY <1>1
<1>. HIDE DEF c
<1>3. ASSUME NEW i \in 1 .. Len(c), i <= Len(a)
      PROVE  /\ CallOK(t, c[i])
             /\ c[i].field # "none" =>
                  \E j \in DOMAIN c : j >= i /\ Draws(c[j].func, c[i].field)
  <2>1. i \in 1 .. Len(a) /\ c[i] = a[i]
    BY <1>1, <1>2, <1>3
  <2>2. CallOK(t, c[i])
    BY <2>1, <1>1 DEF CallsOK
  <2>3. ASSUME c[i].field # "none"
        PROVE  \E j \in DOMAIN c : j >= i /\ Draws(c[j].func, c[i].field)
    <3>1. PICK j \in 1 .. Len(a) : j >= i /\ Draws(a[j].func, a[i].field)
      BY <2>1, <2>3, <1>1 DEF CallsOK, CallsDraw
    <3>. QED  BY <3>1, <2>1, <1>1, <1>2
  <2>. QED  BY <2>2, <2>3
<1>4. ASSUME NEW i \in 1 .. Len(c), ~(i <= Len(a))
      PROVE  /\ CallOK(t, c[i])
             /\ c[i].field # "none" =>
                  \E j \in DOMAIN c : j >= i /\ Draws(c[j].func, c[i].field)
  <2>1. PICK k \in 1 .. Len(b) : i = Len(a) + k /\ c[i] = b[k]
    <3>1. i - Len(a) \in 1 .. Len(b)
      BY <1>1, <1>4
    <3>2. c[Len(a) + (i - Len(a))] = b[i - Len(a)]
      BY <3>1, <1>2
    <3>. QED  BY <3>1, <3>2, <1>1
  <2>2. CallOK(t, c[i])
    BY <2>1, <1>1 DEF CallsOK
  <2>3. ASSUME c[i].field # "none"
        PROVE  \E j \in DOMAIN c : j >= i /\ Draws(c[j].func, c[i].field)
    <3>1. PICK j \in 1 .. Len(b) : j >= k /\ Draws(b[j].func, b[k].field)
      BY <2>1, <2>3, <1>1 DEF CallsOK, CallsDraw
    <3>2. Len(a) + j \in DOMAIN c /\ Len(a) + j >= i
      BY <3>1, <2>1, <1>1
    <3>3. c[Len(a) + j] = b[j] /\ c[i] = b[k]
      BY <3>1, <2>1, <1>2
    <3>. QED  BY <3>1, <3>2, <3>3
  <2>. QED  BY <2>2, <2>3
<1>. QED  BY <1>1, <1>3, <1>4 DEF CallsOK, CallsDraw, c

LEMMA TwoCalls ==
  ASSUME NEW t, NEW a, NEW b, CallsOK(t, <<a>>), CallsOK(t, <<b>>)
  PROVE  CallsOK(t, <<a, b>>)
<1>1. /\ a \in AnyCall /\ CallOK(t, a)
      /\ a.field # "none" => Draws(a.func, a.field)
  <2>1. <<a>>[1] = a /\ DOMAIN <<a>> = {1} /\ <<a>> \in Seq(AnyCall)
    BY DEF CallsOK
  <2>2. a \in AnyCall
    BY <2>1
  <2>3. CallOK(t, a)
    BY <2>1 DEF CallsOK
  <2>4. a.field # "none" => Draws(a.func, a.field)
    BY <2>1 DEF CallsOK, CallsDraw
  <2>. QED  BY <2>2, <2>3, <2>4
<1>2. /\ b \in AnyCall /\ CallOK(t, b)
      /\ b.field # "none" => Draws(b.func, b.field)
  <2>1. <<b>>[1] = b /\ DOMAIN <<b>> = {1} /\ <<b>> \in Seq(AnyCall)
    BY DEF CallsOK
  <2>2. b \in AnyCall
    BY <2>1
  <2>3. CallOK(t, b)
    BY <2>1 DEF CallsOK
  <2>4. b.field # "none" => Draws(b.func, b.field)
    BY <2>1 DEF CallsOK, CallsDraw
  <2>. QED  BY <2>2, <2>3, <2>4
<1>3. /\ <<a, b>> \in Seq(AnyCall) /\ DOMAIN <<a, b>> = {1, 2}
      /\ <<a, b>>[1] = a /\ <<a, b>>[2] = b
  BY <1>1, <1>2
<1>4. CallsDraw(<<a, b>>)
  BY <1>1, <1>2, <1>3 DEF CallsDraw
<1>. QED  BY <1>1, <1>2, <1>3, <1>4 DEF CallsOK

\* Once the first call is made, the others are as they were.
LEMMA CallsTail ==
  ASSUME NEW t, NEW seq, CallsOK(t, seq), seq # << >>
  PROVE  CallsOK(t, Tail(seq))
<1>. DEFINE s == Tail(seq)
<1>1. /\ seq \in Seq(AnyCall) /\ s \in Seq(AnyCall)
      /\ DOMAIN seq = 1 .. Len(seq) /\ DOMAIN s = 1 .. Len(s)
      /\ Len(seq) \in Nat /\ Len(s) = Len(seq) - 1
      /\ \A i \in 1 .. Len(s) : s[i] = seq[i + 1]
  BY DEF CallsOK
<1>. HIDE DEF s
<1>2. ASSUME NEW i \in 1 .. Len(s)
      PROVE  /\ CallOK(t, s[i])
             /\ s[i].field # "none" =>
                  \E j \in DOMAIN s : j >= i /\ Draws(s[j].func, s[i].field)
  <2>1. i + 1 \in DOMAIN seq /\ s[i] = seq[i + 1]
    BY <1>1
  <2>2. CallOK(t, s[i])
    BY <2>1 DEF CallsOK
  <2>3. ASSUME s[i].field # "none"
        PROVE  \E j \in DOMAIN s : j >= i /\ Draws(s[j].func, s[i].field)
    <3>1. PICK j \in 1 .. Len(seq) :
            j >= i + 1 /\ Draws(seq[j].func, seq[i + 1].field)
      BY <2>1, <2>3, <1>1 DEF CallsOK, CallsDraw
    <3>2. j - 1 \in 1 .. Len(s) /\ j - 1 >= i /\ s[j - 1] = seq[j]
      BY <3>1, <1>1
    <3>. QED  BY <3>1, <3>2, <2>1, <1>1
  <2>. QED  BY <2>2, <2>3
<1>. QED  BY <1>1, <1>2 DEF CallsOK, CallsDraw, s

\* Each exported function asks for a drawing of what it has written.
LEMMA SterilizerCalls ==
  ASSUME TypeOK
  PROVE  /\ \A state \in SterilizerState :
              CallsOK("sterilizer", <<displaySterilizerState(state)>>)
         /\ CallsOK("sterilizer", <<displayResultStart>>)
         /\ \A r \in {"SUCCESS", "FAILURE"} :
              CallsOK("sterilizer", <<displayResultEnd(r)>>)
         /\ CallsOK("sterilizer", <<displayResultListItem>>)
         /\ CallsOK("sterilizer", <<destroyDisplayedResultList>>)
         /\ CallsOK("sterilizer", <<switchToresultPage>>)
<1>1. ASSUME NEW state \in SterilizerState
      PROVE  CallsOK("sterilizer", <<displaySterilizerState(state)>>)
  <2>1. Draws("drawSterilizerState", "ster_state")
    BY DEF Draws, Drawn
  <2>. QED  BY <2>1, OneCall
       DEF displaySterilizerState, Call, AnyCall, AnyValue, DrawFunc, Field,
           CallOK, Value, ResultFunc
<1>2. CallsOK("sterilizer", <<displayResultStart>>)
  BY OneCall
  DEF displayResultStart, Call, AnyCall, AnyValue, DrawFunc, CallOK
<1>3. ASSUME NEW r \in {"SUCCESS", "FAILURE"}
      PROVE  CallsOK("sterilizer", <<displayResultEnd(r)>>)
  <2>1. Draws("drawResultEnd", "finalresult")
    BY DEF Draws, Drawn
  <2>. QED  BY <2>1, OneCall
       DEF displayResultEnd, Call, AnyCall, AnyValue, DrawFunc, Field, CallOK,
           Value
<1>4. Draws("drawSterileTemps", "res_list")
  BY DEF Draws, Drawn
<1>5. CallsOK("sterilizer", <<displayResultListItem>>)
  <2>1. appdata["res_list"] + 1 \in Nat
    BY DEF TypeOK, Field, Value
  <2>. QED  BY <1>4, <2>1, OneCall
       DEF displayResultListItem, Call, AnyCall, AnyValue, DrawFunc, Field,
           CallOK, Value, ResultFunc
<1>6. CallsOK("sterilizer", <<destroyDisplayedResultList>>)
  BY <1>4, OneCall
  DEF destroyDisplayedResultList, Call, AnyCall, AnyValue, DrawFunc, Field,
      CallOK, Value, ResultFunc
<1>7. CallsOK("sterilizer", <<switchToresultPage>>)
  BY OneCall
  DEF switchToresultPage, Call, AnyCall, AnyValue, DrawFunc, CallOK, ResultFunc
<1>. QED  BY <1>1, <1>2, <1>3, <1>5, <1>6, <1>7

LEMMA OtherCalls ==
  ASSUME NEW t \in Thread, NEW v \in Nat
  PROVE  /\ CallsOK(t, <<displayHeatPower(v)>>)
         /\ CallsOK(t, <<displayCurrentTemp(v)>>)
         /\ CallsOK(t, <<setSensorState(v)>>)
         /\ CallsOK(t, <<displaySdcState(v)>>)
<1>1. /\ Draws("drawHeatPower", "dutycycle")
      /\ Draws("drawTempLables", "curr_temp")
      /\ Draws("drawTempLables", "sensorstate")
      /\ Draws("drawSdcState", "sdc_state")
  <2>1. Drawn["drawHeatPower"] = <<"fuzzyreg_state", "dutycycle">>
    BY DEF Drawn
  <2>2. Drawn["drawTempLables"] = <<"sensorstate", "curr_temp">>
    BY DEF Drawn
  <2>3. Drawn["drawSdcState"] = <<"sdc_state">>
    BY DEF Drawn
  <2>. QED  BY <2>1, <2>2, <2>3 DEF Draws
<1>2. CallsOK(t, <<displayHeatPower(v)>>)
  BY <1>1, OneCall DEF displayHeatPower, Call, AnyCall, AnyValue, DrawFunc,
     Field, CallOK, Value, ResultFunc
<1>3. CallsOK(t, <<displayCurrentTemp(v)>>)
  BY <1>1, OneCall DEF displayCurrentTemp, Call, AnyCall, AnyValue, DrawFunc,
     Field, CallOK, Value, ResultFunc
<1>4. CallsOK(t, <<setSensorState(v)>>)
  BY <1>1, OneCall DEF setSensorState, Call, AnyCall, AnyValue, DrawFunc,
     Field, CallOK, Value, ResultFunc
<1>5. CallsOK(t, <<displaySdcState(v)>>)
  BY <1>1, OneCall DEF displaySdcState, Call, AnyCall, AnyValue, DrawFunc,
     Field, CallOK, Value, ResultFunc
<1>. QED  BY <1>2, <1>3, <1>4, <1>5

\* setFuzzyregState asks for no job; displayHeatPower, which follows, does.
LEMMA DisableCalls ==
  ASSUME NEW t \in Thread
  PROVE  CallsOK(t, <<setFuzzyregState(1), displayHeatPower(0)>>)
<1>. DEFINE a == setFuzzyregState(1)
            b == displayHeatPower(0)
<1>1. /\ a \in AnyCall /\ CallOK(t, a) /\ a.field = "fuzzyreg_state"
      /\ b \in AnyCall /\ CallOK(t, b) /\ b.field = "dutycycle"
      /\ b.func = "drawHeatPower"
  BY DEF setFuzzyregState, displayHeatPower, Call, AnyCall, AnyValue, DrawFunc,
     Field, CallOK, Value, ResultFunc
<1>2. Drawn["drawHeatPower"] = <<"fuzzyreg_state", "dutycycle">>
  BY DEF Drawn
<1>3. Draws(b.func, a.field) /\ Draws(b.func, b.field)
  BY <1>1, <1>2 DEF Draws
<1>. HIDE DEF a, b
<1>4. /\ <<a, b>> \in Seq(AnyCall) /\ DOMAIN <<a, b>> = {1, 2}
      /\ <<a, b>>[1] = a /\ <<a, b>>[2] = b
  BY <1>1
<1>5. CallsDraw(<<a, b>>)
  BY <1>3, <1>4 DEF CallsDraw
<1>6. CallsOK(t, <<a, b>>)
  BY <1>1, <1>4, <1>5 DEF CallsOK
<1>. QED  BY <1>6 DEF a, b

-----------------------------------------------------------------------------
(***************************************************************************)
(* The invariant.                                                          *)
(***************************************************************************)
LcdOK ==
  /\ job \in DrawFunc <=> lcd_pc \in {"draw", "free"}
  /\ lcd_pc = "jobs" => queue # << >>
  /\ lcd_pc = "mail" => mail \in Button

CallsInv ==
  \A t \in Thread :
    /\ CallsOK(t, calls[t])
    /\ written[t] => calls[t] # << >>

\* Whether a result function draws what was called last.
Agrees(func) == ended <=> func = "drawResultEnd"

WrittenAgrees ==
  \A t \in Thread :
    written[t] /\ Head(calls[t]).func \in ResultFunc =>
      Agrees(Head(calls[t]).func)

ResultQueued == \E j \in DOMAIN queue : queue[j] \in ResultFunc

\* A result function that does not agree is not the last one.
QueueAgrees ==
  \A i \in DOMAIN queue :
    queue[i] \in ResultFunc /\ ~Agrees(queue[i]) =>
      \E j \in DOMAIN queue : j > i /\ queue[j] \in ResultFunc

JobAgrees ==
  lcd_pc = "draw" /\ job \in ResultFunc /\ ~Agrees(job) => ResultQueued

LastResultAgrees ==
  \/ "finalresult" \in stale
  \/ Asked("finalresult")
  \/ QueueAgrees /\ JobAgrees

\* What the calls and the drawings leave alone.
RestOK ==
  /\ steril_mb \in Seq(Msg)
  /\ Len(steril_mb) <= STERILIZER_MAILBOX_SIZE
  /\ steril_state \in SterilizerState
  /\ fetch_next \in BOOLEAN
  /\ presses \in 0 .. MaxPresses
  /\ updates \in 0 .. MaxUpdates

IInv ==
  /\ TypeOK
  /\ LcdOK
  /\ CallsInv
  /\ JobsConserved
  /\ WrittenAgrees
  /\ LastResultAgrees
  /\ ShownOrPending

LEMMA InitInv == Init => IInv
<1>. SUFFICES ASSUME Init PROVE IInv
  OBVIOUS
<1>1. TypeOK
  <2>1. \A f \in Field : appdata[f] \in Value(f)
    BY DEF Init, Value, SterilizerState
  <2>2. DOMAIN appdata = Field /\ DOMAIN shown = Field
    BY DEF Init, Field
  <2>3. /\ queue \in Seq(DrawFunc) /\ job \in DrawFunc \cup {"none"}
        /\ stale \subseteq Field
    BY DEF Init
  <2>4. ended \in BOOLEAN
    BY DEF Init
  <2>5. overflow \in Nat /\ free_item \in 0 .. DRAW_JOB_QUEUE_SIZE
    BY DisplayConstants DEF Init
  <2>6. /\ enabled \subseteq Button /\ mail \in Button \cup {"none"}
        /\ lcd_pc \in {"jobs", "draw", "free", "wait", "mail"}
        /\ drawn \in 0 .. 2
    BY DEF Init
  <2>7. /\ steril_mb \in Seq(Msg) /\ Len(steril_mb) <= STERILIZER_MAILBOX_SIZE
        /\ steril_state \in SterilizerState
        /\ presses \in 0 .. MaxPresses /\ updates \in 0 .. MaxUpdates
    BY DisplayConstants DEF Init, SterilizerState
  <2>8. DOMAIN calls = Thread /\ written \in [Thread -> BOOLEAN]
    BY DEF Init
  <2>9. fetch_next \in BOOLEAN
    BY DEF Init
  <2>. QED  BY <2>1, <2>2, <2>3, <2>4, <2>5, <2>6, <2>7, <2>8, <2>9 DEF TypeOK
<1>2. LcdOK
  BY DEF Init, LcdOK, DrawFunc
<1>3. CallsInv /\ WrittenAgrees
  BY NoCalls DEF Init, CallsInv, WrittenAgrees
<1>4. JobsConserved
  BY DisplayConstants DEF Init, JobsConserved
<1>5. LastResultAgrees
  BY DEF Init, LastResultAgrees, QueueAgrees, JobAgrees
<1>6. ShownOrPending
  BY DEF Init, ShownOrPending, Wanted, Field
<1>. QED  BY <1>1, <1>2, <1>3, <1>4, <1>5, <1>6 DEF IInv

-----------------------------------------------------------------------------
(***************************************************************************)
(* The steps of Next that the display does not tell apart: a thread begins *)
(* calls, or nothing is called, queued or drawn.                           *)
(***************************************************************************)
Begins(t, seq) ==
  /\ calls[t] = << >>
  /\ CallsOK(t, seq)
  /\ calls' = [calls EXCEPT ![t] = seq]
  /\ UNCHANGED <<written, data, jobs, lcd>>

Quiet ==
  /\ UNCHANGED <<data, jobs, callers>>
  /\ \/ UNCHANGED lcd
     \/ /\ UNCHANGED <<shown, enabled, job, drawn>>
        /\ lcd_pc \in {"wait", "mail"}
        /\ lcd_pc' \in {"jobs", "wait", "mail"}
        /\ lcd_pc' = "jobs" => queue # << >>
        /\ lcd_pc' = "mail" => mail' \in Button
        /\ mail' \in Button \cup {"none"}

BeginsOrQuiet ==
  /\ RestOK'
  /\ Quiet \/ \E t \in Thread : \E seq : Begins(t, seq)

LEMMA ShowsBegins ==
  ASSUME TypeOK, NEW t \in Thread, NEW seq, CallsOK(t, seq), Shows(t, seq)
  PROVE  BeginsOrQuiet
<1>1. Begins(t, seq)
  BY DEF Shows, Idle, Begins
<1>2. RestOK'
  BY DisplayConstants DEF TypeOK, RestOK, Shows, Update, sterilizer
<1>. QED  BY <1>1, <1>2 DEF BeginsOrQuiet

LEMMA OthersBegin ==
  ASSUME TypeOK, RegulatorShows \/ TempreaderShows \/ CardhandlerShows
  PROVE  BeginsOrQuiet
<1>. Thread = {"sterilizer", "regulator", "tempreader", "cardhandler"}
  BY DEF Thread
<1>1. \A f : Other(f) \subseteq Nat
  BY DisplayConstants DEF Other
<1>2. CASE RegulatorShows
  <2>1. ASSUME NEW v \in Other("dutycycle"),
               Shows("regulator", <<displayHeatPower(v)>>)
        PROVE  BeginsOrQuiet
    BY <1>1, <2>1, OtherCalls, ShowsBegins
  <2>2. ASSUME NEW v \in Other("curr_temp"),
               Shows("regulator", <<displayCurrentTemp(v)>>)
        PROVE  BeginsOrQuiet
    BY <1>1, <2>2, OtherCalls, ShowsBegins
  <2>3. ASSUME Shows("regulator", <<setFuzzyregState(1), displayHeatPower(0)>>)
        PROVE  BeginsOrQuiet
    BY <2>3, DisableCalls, ShowsBegins
  <2>. QED  BY <1>2, <2>1, <2>2, <2>3 DEF RegulatorShows
<1>3. CASE TempreaderShows
  BY <1>1, <1>3, OtherCalls, ShowsBegins DEF TempreaderShows
<1>4. CASE CardhandlerShows
  BY <1>1, <1>4, OtherCalls, ShowsBegins DEF CardhandlerShows
<1>. QED  BY <1>2, <1>3, <1>4

LEMMA SterilizerBegins ==
  ASSUME TypeOK, Sterilizer
  PROVE  BeginsOrQuiet
<1>. DEFINE ster == "sterilizer"
<1>1. ster \in Thread
  BY DEF Thread
<1>2. ASSUME NEW state \in SterilizerState, NEW seq, SterShows(state, seq),
             CallsOK(ster, seq), Idle(ster),
             UNCHANGED <<written, data, jobs, lcd>>,
             UNCHANGED presses, updates' = updates \/ Update,
             fetch_next' \in BOOLEAN,
             \/ steril_mb' = steril_mb
             \/ steril_mb # << >> /\ steril_mb' = Tail(steril_mb)
      PROVE  BeginsOrQuiet
  <2>1. Begins(ster, seq)
    BY <1>2 DEF SterShows, Idle, Begins
  <2>2. steril_mb' \in Seq(Msg) /\ Len(steril_mb') <= STERILIZER_MAILBOX_SIZE
    <3>1. steril_mb \in Seq(Msg) /\ Len(steril_mb) <= STERILIZER_MAILBOX_SIZE
      BY DEF TypeOK
    <3>. QED  BY <1>2, <3>1, DisplayConstants
  <2>3. RestOK'
    BY <1>2, <2>2, DisplayConstants DEF TypeOK, RestOK, SterShows, Update
  <2>. QED  BY <1>1, <2>1, <2>3 DEF BeginsOrQuiet
<1>. /\ "INIT" \in SterilizerState /\ "STOP" \in SterilizerState
     /\ "ACTIVE" \in SterilizerState /\ "SAVE" \in SterilizerState
     /\ "PRINT" \in SterilizerState /\ "ERROR" \in SterilizerState
  BY DEF SterilizerState
<1>3. CASE SterFetch
  <2>1. /\ Idle(ster) /\ UNCHANGED <<written, data, jobs, lcd, bounds>>
        /\ steril_mb # << >> /\ steril_mb' = Tail(steril_mb)
        /\ fetch_next' \in BOOLEAN
    BY <1>3 DEF SterFetch
  <2>2. UNCHANGED presses /\ updates' = updates
    BY <2>1 DEF sterilizer, bounds
  <2>3. CASE SterInitEnd
    BY <1>2, <2>1, <2>2, <2>3, SterilizerCalls DEF SterInitEnd
  <2>4. CASE SterStart
    <3>1. CallsOK(ster, <<displayResultStart,
                          displaySterilizerState("ACTIVE")>>)
      BY TwoCalls, SterilizerCalls
    <3>2. CallsOK(ster, IF appdata["res_list"] = 0 THEN << >>
                        ELSE <<destroyDisplayedResultList>>)
      BY NoCalls, SterilizerCalls
    <3>3. CallsOK(ster, (IF appdata["res_list"] = 0 THEN << >>
                         ELSE <<destroyDisplayedResultList>>)
                   \o <<displayResultStart, displaySterilizerState("ACTIVE")>>)
      BY <3>1, <3>2, CallsJoined
    <3>. QED  BY <1>2, <2>1, <2>2, <2>4, <3>3 DEF SterStart
  <2>5. CASE SterEnd(<< >>, "FAILURE")
    <3>1. CallsOK(ster, <<displayResultEnd("FAILURE"),
                          displaySterilizerState("SAVE")>>)
      BY TwoCalls, SterilizerCalls
    <3>2. CallsOK(ster, << >> \o <<displayResultEnd("FAILURE"),
                                   displaySterilizerState("SAVE")>>)
      BY <3>1, NoCalls, CallsJoined
    <3>. QED  BY <1>2, <2>1, <2>2, <2>5, <3>2 DEF SterEnd
  <2>6. CASE SterPrint
    BY <1>2, <2>1, <2>2, <2>6, SterilizerCalls DEF SterPrint
  <2>7. CASE SterError
    BY <1>2, <2>1, <2>2, <2>7, SterilizerCalls DEF SterError
  <2>8. CASE UNCHANGED <<steril_state, calls>>
    <3>1. steril_mb' \in Seq(Msg) /\ Len(steril_mb') <= STERILIZER_MAILBOX_SIZE
      <4>1. steril_mb \in Seq(Msg) /\ Len(steril_mb) <= STERILIZER_MAILBOX_SIZE
        BY DEF TypeOK
      <4>. QED  BY <2>1, <4>1, DisplayConstants
    <3>2. RestOK'
      BY <2>1, <2>2, <2>8, <3>1 DEF TypeOK, RestOK
    <3>. QED  BY <2>1, <2>8, <3>2 DEF BeginsOrQuiet, Quiet, callers
  <2>. QED  BY <1>3, <2>3, <2>4, <2>5, <2>6, <2>7, <2>8 DEF SterFetch
<1>4. CASE SterRecord
  <2>1. /\ Idle(ster)
        /\ UNCHANGED <<written, data, jobs, lcd, steril_mb, sterilizer,
                       presses>>
        /\ fetch_next' \in BOOLEAN /\ UNCHANGED steril_state
    BY <1>4 DEF SterRecord, TypeOK, sterilizer
  <2>2. steril_state \in SterilizerState
    BY DEF TypeOK
  <2>3. ASSUME calls' = [calls EXCEPT ![ster] = <<displayResultListItem>>],
               UNCHANGED updates
        PROVE  BeginsOrQuiet
    BY <1>2, <2>1, <2>2, <2>3, SterilizerCalls DEF SterShows
  <2>4. ASSUME calls' = [calls EXCEPT ![ster] = <<destroyDisplayedResultList>>],
               Update
        PROVE  BeginsOrQuiet
    BY <1>2, <2>1, <2>2, <2>4, SterilizerCalls DEF SterShows
  <2>. QED  BY <1>4, <2>3, <2>4 DEF SterRecord
<1>5. CASE SterComplete
  <2>1. /\ Idle(ster)
        /\ UNCHANGED <<written, data, jobs, lcd, steril_mb, presses>>
        /\ fetch_next' \in BOOLEAN
    BY <1>5 DEF SterComplete
  <2>2. ASSUME SterEnd(<< >>, "SUCCESS"), UNCHANGED updates
        PROVE  BeginsOrQuiet
    <3>1. CallsOK(ster, <<displayResultEnd("SUCCESS"),
                          displaySterilizerState("SAVE")>>)
      BY TwoCalls, SterilizerCalls
    <3>2. CallsOK(ster, << >> \o <<displayResultEnd("SUCCESS"),
                                   displaySterilizerState("SAVE")>>)
      BY <3>1, NoCalls, CallsJoined
    <3>. QED  BY <1>2, <2>1, <2>2, <3>2 DEF SterEnd
  <2>3. ASSUME SterEnd(<<displayResultListItem>>, "FAILURE"), Update
        PROVE  BeginsOrQuiet
    <3>1. CallsOK(ster, <<displayResultEnd("FAILURE"),
                          displaySterilizerState("SAVE")>>)
      BY TwoCalls, SterilizerCalls
    <3>2. CallsOK(ster, <<displayResultListItem>> \o
                          <<displayResultEnd("FAILURE"),
                            displaySterilizerState("SAVE")>>)
      BY <3>1, SterilizerCalls, CallsJoined
    <3>. QED  BY <1>2, <2>1, <2>3, <3>2 DEF SterEnd
  <2>. QED  BY <1>5, <2>2, <2>3 DEF SterComplete
<1>6. CASE SterSaved
  <2>1. CallsOK(ster, <<displaySterilizerState("STOP"), switchToresultPage>>)
    BY TwoCalls, SterilizerCalls
  <2>. QED  BY <1>2, <1>6, <2>1 DEF SterSaved, TypeOK, sterilizer, bounds
<1>7. CASE SterPrinted
  BY <1>2, <1>7, SterilizerCalls DEF SterPrinted, TypeOK, sterilizer, bounds
<1>8. CASE SterNoMail
  <2>1. RestOK'
    BY <1>8 DEF SterNoMail, TypeOK, RestOK, sterilizer, bounds
  <2>. QED  BY <1>8, <2>1 DEF SterNoMail, BeginsOrQuiet, Quiet
<1>. QED  BY <1>3, <1>4, <1>5, <1>6, <1>7, <1>8 DEF Sterilizer

LEMMA PostOK ==
  ASSUME TypeOK, NEW msg \in Msg, Post(msg)
  PROVE  steril_mb' \in Seq(Msg) /\ Len(steril_mb') <= STERILIZER_MAILBOX_SIZE
<1>1. steril_mb \in Seq(Msg) /\ Len(steril_mb) \in Nat
  BY DEF TypeOK
<1>2. /\ steril_mb' = Append(steril_mb, msg)
      /\ Len(steril_mb) < STERILIZER_MAILBOX_SIZE
  BY DEF Post
<1>. QED  BY <1>1, <1>2, DisplayConstants

LEMMA MailIsQuiet ==
  ASSUME TypeOK, LcdOK,
         \/ TempreaderInitEnd \/ ErrorhandlerStops
         \/ LcdNoEvent \/ LcdButton \/ LcdSendMail
  PROVE  BeginsOrQuiet
<1>1. ASSUME TempreaderInitEnd \/ ErrorhandlerStops PROVE BeginsOrQuiet
  <2>1. steril_mb' \in Seq(Msg) /\ Len(steril_mb') <= STERILIZER_MAILBOX_SIZE
    BY <1>1, PostOK DEF TempreaderInitEnd, ErrorhandlerStops, Msg
  <2>2. RestOK'
    BY <1>1, <2>1, DisplayConstants
    DEF TypeOK, RestOK, TempreaderInitEnd, ErrorhandlerStops, sterilizer,
        bounds, Update
  <2>3. Quiet
    BY <1>1 DEF TempreaderInitEnd, ErrorhandlerStops, Quiet
  <2>. QED  BY <2>2, <2>3 DEF BeginsOrQuiet
<1>2. CASE LcdNoEvent
  <2>1. RestOK'
    BY <1>2 DEF TypeOK, RestOK, LcdNoEvent, sterilizer, bounds
  <2>2. Quiet
    BY <1>2 DEF TypeOK, LcdNoEvent, Loop, Quiet
  <2>. QED  BY <2>1, <2>2 DEF BeginsOrQuiet
<1>3. CASE LcdButton
  <2>1. RestOK'
    BY <1>3, DisplayConstants DEF TypeOK, RestOK, LcdButton, sterilizer
  <2>2. Quiet
    BY <1>3 DEF TypeOK, LcdButton, Quiet
  <2>. QED  BY <2>1, <2>2 DEF BeginsOrQuiet
<1>4. CASE LcdSendMail
  <2>1. mail \in Msg
    BY <1>4 DEF LcdOK, LcdSendMail, Button, Msg
  <2>2. RestOK'
    BY <1>4, <2>1, PostOK DEF TypeOK, RestOK, LcdSendMail, sterilizer, bounds
  <2>3. Quiet
    BY <1>4 DEF LcdSendMail, Loop, Quiet
  <2>. QED  BY <2>2, <2>3 DEF BeginsOrQuiet
<1>. QED  BY <1>1, <1>2, <1>3, <1>4

\* Every step of the system, as the display sees it.
LEMMA Steps ==
  ASSUME TypeOK, LcdOK, Next
  PROVE  \/ BeginsOrQuiet
         \/ \E t \in Thread : Write(t) \/ addDrawJob(t)
         \/ getDrawJob \/ LcdDraw \/ CountFreeJobs \/ freeDrawJob \/ LcdPage
BY OthersBegin, SterilizerBegins, MailIsQuiet
DEF Next, Calls, Threadlcdcontrol

-----------------------------------------------------------------------------
(***************************************************************************)
(* A thread begins calls.                                                  *)
(***************************************************************************)
LEMMA BeginsInv ==
  ASSUME IInv, RestOK', NEW t \in Thread, NEW seq, Begins(t, seq)
  PROVE  IInv'
<1>1. /\ \A u \in Thread : calls'[u] = IF u = t THEN seq ELSE calls[u]
      /\ DOMAIN calls' = Thread
      /\ calls[t] = << >> /\ CallsOK(t, seq)
      /\ UNCHANGED <<written, data, jobs, lcd>>
  BY DEF Begins, IInv, TypeOK
<1>2. TypeOK' /\ LcdOK'
  BY <1>1 DEF IInv, TypeOK, LcdOK, RestOK, data, jobs, lcd
<1>3. CallsInv'
  BY <1>1 DEF IInv, CallsInv
<1>4. JobsConserved'
  BY <1>1 DEF IInv, JobsConserved, jobs, lcd
<1>5. WrittenAgrees'
  BY <1>1 DEF IInv, CallsInv, WrittenAgrees, Agrees, data
<1>6. \A f : Asked(f) => Asked(f)'
  <2>1. ASSUME NEW f, NEW u \in Thread, NEW i \in DOMAIN calls[u],
               Draws(calls[u][i].func, f)
        PROVE  Asked(f)'
    BY <1>1, <2>1 DEF Asked, Draws
  <2>. QED  BY <2>1 DEF Asked
<1>7. LastResultAgrees'
  BY <1>1, <1>6 DEF IInv, LastResultAgrees, QueueAgrees, JobAgrees,
     ResultQueued, Agrees, data, jobs, lcd
<1>8. ShownOrPending'
  BY <1>1, <1>6 DEF IInv, ShownOrPending, Wanted, Queued, BeingDrawn, Draws,
     data, jobs, lcd
<1>. QED  BY <1>2, <1>3, <1>4, <1>5, <1>7, <1>8 DEF IInv

LEMMA QuietInv ==
  ASSUME IInv, RestOK', Quiet
  PROVE  IInv'
<1>1. UNCHANGED <<calls, written, data, jobs, shown, enabled, job, drawn>>
  BY DEF Quiet, callers, lcd
<1>2. /\ lcd_pc' \in {"draw", "free"} <=> lcd_pc \in {"draw", "free"}
      /\ lcd_pc' = "draw" <=> lcd_pc = "draw"
  BY DEF Quiet, lcd
<1>3. LcdOK'
  BY <1>1, <1>2 DEF IInv, LcdOK, Quiet, lcd, jobs
<1>4. TypeOK'
  <2>1. /\ lcd_pc' \in {"jobs", "draw", "free", "wait", "mail"}
        /\ mail' \in Button \cup {"none"}
    BY DEF IInv, TypeOK, Quiet, lcd
  <2>. QED  BY <1>1, <2>1 DEF IInv, TypeOK, RestOK, data, jobs
<1>5. CallsInv' /\ WrittenAgrees' /\ JobsConserved'
  BY <1>1, <1>2
  DEF IInv, CallsInv, WrittenAgrees, Agrees, JobsConserved, data, jobs
<1>6. LastResultAgrees'
  BY <1>1, <1>2 DEF IInv, LastResultAgrees, QueueAgrees, JobAgrees,
     ResultQueued, Agrees, Asked, Draws, data, jobs
<1>7. ShownOrPending'
  BY <1>1, <1>2 DEF IInv, ShownOrPending, Wanted, Queued, BeingDrawn, Asked,
     Draws, data, jobs
<1>. QED  BY <1>3, <1>4, <1>5, <1>6, <1>7 DEF IInv

-----------------------------------------------------------------------------
(***************************************************************************)
(* The two critical sections of a call.                                    *)
(***************************************************************************)
LEMMA WriteInv ==
  ASSUME IInv, NEW t \in Thread, Write(t)
  PROVE  IInv'
<1>. DEFINE call == Head(calls[t])
<1>1. /\ calls[t] # << >> /\ calls[t] \in Seq(AnyCall)
      /\ call = calls[t][1] /\ 1 \in DOMAIN calls[t]
      /\ call \in AnyCall /\ CallOK(t, call)
      /\ ~written[t]
  BY DEF IInv, CallsInv, CallsOK, Write
<1>2. PICK k \in DOMAIN calls[t] :
        call.field # "none" => Draws(calls[t][k].func, call.field)
  BY <1>1 DEF IInv, CallsInv, CallsOK, CallsDraw
<1>3. /\ appdata' = [f \in Field |->
                      IF f = call.field THEN call.value ELSE appdata[f]]
      /\ ended' = IF call.func \in ResultFunc
                  THEN call.func = "drawResultEnd" ELSE ended
      /\ written' = [written EXCEPT ![t] = TRUE]
      /\ UNCHANGED <<jobs, lcd, steril_mb, sterilizer, calls, bounds>>
  BY DEF Write
<1>4. \A u \in Thread : written'[u] = IF u = t THEN TRUE ELSE written[u]
  BY <1>3 DEF IInv, TypeOK
<1>. HIDE DEF call
<1>5. /\ call.func \in ResultFunc => (ended' <=> call.func = "drawResultEnd")
      /\ call.func \notin ResultFunc => (ended' <=> ended)
  BY <1>3
<1>6. TypeOK'
  <2>1. \A f \in Field : appdata'[f] \in Value(f)
    BY <1>1, <1>3 DEF IInv, TypeOK, CallOK, AnyCall, Field
  <2>2. DOMAIN appdata' = Field /\ written' \in [Thread -> BOOLEAN]
    BY <1>3 DEF IInv, TypeOK
  <2>3. ended' \in BOOLEAN
    <3>1. ended \in BOOLEAN
      BY DEF IInv, TypeOK
    <3>2. ended' = ended \/ ended' = (call.func = "drawResultEnd")
      BY <1>3
    <3>. QED  BY <3>1, <3>2
  <2>. QED  BY <1>3, <2>1, <2>2, <2>3
       DEF IInv, TypeOK, Value, jobs, lcd, sterilizer, bounds
<1>7. LcdOK' /\ JobsConserved' /\ CallsInv'
  BY <1>1, <1>3, <1>4 DEF IInv, LcdOK, JobsConserved, CallsInv, jobs, lcd
<1>8. call.func \in ResultFunc => Asked("finalresult")'
  <2>1. ASSUME call.func \in ResultFunc
        PROVE  Draws(calls[t][1].func, "finalresult")
    BY <1>1, <2>1, ResultDrawn DEF AnyCall
  <2>. QED  BY <1>1, <1>3, <2>1 DEF Asked, Draws
<1>9. WrittenAgrees'
  <2>1. ASSUME NEW u \in Thread, written'[u], Head(calls[u]).func \in ResultFunc
        PROVE  ended' <=> Head(calls[u]).func = "drawResultEnd"
    <3>1. CASE u = t
      <4>1. Head(calls[u]) = call
        BY <3>1 DEF call
      <4>2. call.func \in ResultFunc
        BY <2>1, <4>1
      <4>3. ended' <=> call.func = "drawResultEnd"
        BY <1>5, <4>2
      <4>. QED  BY <4>1, <4>3
    <3>2. CASE u # t
      <4>1. written[u] /\ Head(calls[u]).func \in ResultFunc /\ calls[u] # << >>
        BY <2>1, <3>2, <1>4 DEF IInv, CallsInv
      <4>2. u = "sterilizer"
        BY <4>1 DEF IInv, CallsInv, CallsOK, CallOK
      <4>3. call.func \notin ResultFunc
        BY <1>1, <3>2, <4>2 DEF CallOK
      <4>4. ended <=> Head(calls[u]).func = "drawResultEnd"
        BY <4>1 DEF IInv, WrittenAgrees, Agrees
      <4>5. ended' <=> ended
        BY <1>5, <4>3
      <4>. QED  BY <4>4, <4>5
    <3>. QED  BY <3>1, <3>2
  <2>. QED  BY <1>3, <2>1 DEF WrittenAgrees, Agrees
<1>10. \A f : Asked(f) => Asked(f)'
  BY <1>3 DEF Asked, Draws
<1>11. LastResultAgrees'
  <2>1. CASE call.func \in ResultFunc
    BY <1>8, <2>1 DEF LastResultAgrees
  <2>2. CASE call.func \notin ResultFunc
    BY <1>3, <1>10, <2>2 DEF IInv, LastResultAgrees, QueueAgrees, JobAgrees,
       ResultQueued, Agrees, jobs, lcd
  <2>. QED  BY <2>1, <2>2
<1>12. ShownOrPending'
  <2>1. ASSUME NEW f \in Field
        PROVE  \/ shown'[f] = Wanted(f)' \/ f \in stale'
               \/ Queued(f)' \/ BeingDrawn(f)' \/ Asked(f)'
    <3>1. CASE f = call.field
      <4>1. Draws(calls[t][k].func, f)
        BY <1>2, <3>1 DEF Field
      <4>. QED  BY <1>3, <4>1 DEF Asked, Draws
    <3>2. CASE f = "finalresult" /\ call.func \in ResultFunc
      BY <1>8, <3>2
    <3>3. CASE /\ f # call.field
               /\ ~(f = "finalresult" /\ call.func \in ResultFunc)
      <4>1. Wanted(f)' = Wanted(f)
        BY <1>3, <3>3 DEF Wanted
      <4>2. /\ Queued(f) => Queued(f)'
            /\ BeingDrawn(f) => BeingDrawn(f)'
        BY <1>3 DEF Queued, BeingDrawn, Draws, jobs, lcd
      <4>. QED  BY <1>3, <1>10, <4>1, <4>2 DEF IInv, ShownOrPending, jobs, lcd
    <3>. QED  BY <3>1, <3>2, <3>3
  <2>. QED  BY <2>1 DEF ShownOrPending
<1>. QED  BY <1>6, <1>7, <1>9, <1>11, <1>12 DEF IInv

LEMMA AddDrawJobInv ==
  ASSUME IInv, NEW t \in Thread, addDrawJob(t)
  PROVE  IInv'
<1>. DEFINE func == Head(calls[t]).func
            n    == Len(queue)
<1>1. /\ calls[t] # << >> /\ calls[t] \in Seq(AnyCall)
      /\ Head(calls[t]) = calls[t][1] /\ 1 \in DOMAIN calls[t]
      /\ func \in DrawFunc \cup {"none"} /\ func = calls[t][1].func
      /\ func \in ResultFunc => (ended <=> func = "drawResultEnd")
  <2>1. calls[t] # << >> /\ calls[t] \in Seq(AnyCall) /\ written[t]
    BY DEF IInv, CallsInv, CallsOK, addDrawJob
  <2>2. Head(calls[t]) = calls[t][1] /\ 1 \in DOMAIN calls[t]
    BY <2>1
  <2>3. calls[t][1] \in AnyCall
    BY <2>1, <2>2
  <2>. QED  BY <2>1, <2>2, <2>3 DEF IInv, WrittenAgrees, Agrees, AnyCall
<1>2. /\ calls' = [calls EXCEPT ![t] = Tail(@)]
      /\ written' = [written EXCEPT ![t] = FALSE]
      /\ UNCHANGED <<overflow, data, lcd, steril_mb, sterilizer, bounds>>
  BY DEF addDrawJob
<1>3. /\ queue \in Seq(DrawFunc) /\ n \in Nat /\ DOMAIN queue = 1 .. n
      /\ free_item \in 0 .. DRAW_JOB_QUEUE_SIZE /\ stale \subseteq Field
      /\ DRAW_JOB_QUEUE_SIZE \in Nat
  BY DisplayConstants DEF IInv, TypeOK
<1>4. \/ /\ func \in DrawFunc
         /\ free_item > 0 /\ free_item' = free_item - 1
         /\ queue' = Append(queue, func)
         /\ stale' = stale \ Fields(func)
      \/ /\ func \in DrawFunc
         /\ stale' = stale \cup Fields(func)
         /\ UNCHANGED <<queue, free_item>>
      \/ /\ func = "none"
         /\ UNCHANGED <<queue, free_item, stale>>
  BY <1>1 DEF addDrawJob
<1>. HIDE DEF func
<1>5. /\ \A u \in Thread :
           u # t => calls'[u] = calls[u] /\ written'[u] = written[u]
      /\ calls'[t] = Tail(calls[t]) /\ written'[t] = FALSE
      /\ DOMAIN calls' = Thread /\ written' \in [Thread -> BOOLEAN]
  BY <1>2 DEF IInv, TypeOK
<1>6. \A i \in DOMAIN calls[t] :
        i = 1 \/ (i - 1 \in DOMAIN calls'[t] /\ calls'[t][i - 1] = calls[t][i])
  BY <1>1, <1>5
\* The queue keeps its jobs, and gets at most this one.
<1>7. /\ queue' \in Seq(DrawFunc)
      /\ \A i \in DOMAIN queue : i \in DOMAIN queue' /\ queue'[i] = queue[i]
      /\ \A i \in DOMAIN queue' :
           i \in DOMAIN queue \/ (i = n + 1 /\ queue'[i] = func)
  BY <1>3, <1>4
<1>8. ASSUME queue' = Append(queue, func), func \in DrawFunc
      PROVE  /\ n + 1 \in DOMAIN queue' /\ queue'[n + 1] = func
             /\ Len(queue') = n + 1
  BY <1>3, <1>8
<1>9. TypeOK' /\ LcdOK'
  <2>1. free_item' \in 0 .. DRAW_JOB_QUEUE_SIZE
    BY <1>3, <1>4
  <2>2. stale' \subseteq Field
    BY <1>3, <1>4 DEF Fields
  <2>3. TypeOK'
    BY <1>2, <1>5, <1>7, <2>1, <2>2
    DEF IInv, TypeOK, Value, data, lcd, sterilizer, bounds
  <2>4. queue # << >> => queue' # << >>
    BY <1>3, <1>4
  <2>. QED  BY <1>2, <2>3, <2>4 DEF IInv, LcdOK, lcd
<1>10. JobsConserved'
  <2>1. \/ free_item' = free_item /\ Len(queue') = n
        \/ free_item' = free_item - 1 /\ Len(queue') = n + 1
    BY <1>4, <1>8
  <2>2. UNCHANGED <<lcd_pc, overflow>>
    BY <1>2 DEF lcd
  <2>. QED  BY <1>3, <2>1, <2>2 DEF IInv, JobsConserved
<1>11. CallsInv'
  <2>1. CallsOK(t, calls'[t])
    BY <1>1, <1>5, CallsTail DEF IInv, CallsInv
  <2>. QED  BY <1>5, <2>1 DEF IInv, CallsInv
<1>12. WrittenAgrees'
  BY <1>2, <1>5 DEF IInv, WrittenAgrees, Agrees, data
\* What was asked for still is, or is queued or dropped now.
<1>13. ASSUME NEW f \in Field, Asked(f)
       PROVE  Asked(f)' \/ Draws(func, f)
  <2>1. PICK u \in Thread :
          \E i \in DOMAIN calls[u] : Draws(calls[u][i].func, f)
    BY <1>13 DEF Asked
  <2>2. PICK i \in DOMAIN calls[u] : Draws(calls[u][i].func, f)
    BY <2>1
  <2>3. CASE u # t
    BY <1>5, <2>2, <2>3 DEF Asked, Draws
  <2>4. CASE u = t /\ i # 1
    BY <1>6, <2>2, <2>4 DEF Asked, Draws
  <2>5. CASE u = t /\ i = 1
    BY <1>1, <2>2, <2>5
  <2>. QED  BY <2>3, <2>4, <2>5
<1>14. ASSUME NEW f \in Field, Draws(func, f)
       PROVE  f \in stale' \/ Queued(f)'
  <2>1. func \in DrawFunc
    BY <1>4, <1>14, NothingDrawn
  <2>2. CASE stale' = stale \cup Fields(func)
    BY <1>14, <2>2 DEF Fields
  <2>3. CASE queue' = Append(queue, func)
    BY <1>8, <1>14, <2>1, <2>3 DEF Queued, Draws
  <2>. QED  BY <1>4, <2>1, <2>2, <2>3 DEF DrawFunc
<1>15. ASSUME NEW f \in Field, f \in stale
       PROVE  f \in stale' \/ Queued(f)'
  <2>1. CASE Draws(func, f)
    BY <1>14, <2>1
  <2>2. CASE ~Draws(func, f)
    BY <1>4, <1>15, <2>2 DEF Fields
  <2>. QED  BY <2>1, <2>2
<1>16. ShownOrPending'
  <2>1. ASSUME NEW f \in Field
        PROVE  \/ shown'[f] = Wanted(f)' \/ f \in stale'
               \/ Queued(f)' \/ BeingDrawn(f)' \/ Asked(f)'
    <3>1. /\ shown'[f] = shown[f] /\ Wanted(f)' = Wanted(f)
          /\ BeingDrawn(f) => BeingDrawn(f)'
      BY <1>2 DEF Wanted, BeingDrawn, data, lcd
    <3>2. Queued(f) => Queued(f)'
      BY <1>7 DEF Queued, Draws
    <3>. QED  BY <3>1, <3>2, <1>13, <1>14, <1>15 DEF IInv, ShownOrPending
  <2>. QED  BY <2>1 DEF ShownOrPending
<1>17. LastResultAgrees'
  <2>. "finalresult" \in Field
    BY DEF Field
  <2>1. CASE func \in ResultFunc
    <3>1. Draws(func, "finalresult")
      BY <1>1, <2>1, ResultDrawn
    <3>2. CASE stale' = stale \cup Fields(func)
      BY <3>1, <3>2 DEF LastResultAgrees, Fields
    <3>3. CASE queue' = Append(queue, func)
      <4>1. /\ n + 1 \in DOMAIN queue' /\ queue'[n + 1] = func
            /\ \A i \in DOMAIN queue' : i = n + 1 \/ n + 1 > i
        BY <1>1, <1>3, <1>7, <1>8, <2>1, <3>3 DEF ResultFunc, DrawFunc
      <4>2. QueueAgrees'
        BY <1>1, <1>2, <2>1, <4>1 DEF QueueAgrees, Agrees, data
      <4>3. JobAgrees'
        BY <2>1, <4>1 DEF JobAgrees, ResultQueued
      <4>. QED  BY <4>2, <4>3 DEF LastResultAgrees
    <3>. QED  BY <1>4, <2>1, <3>2, <3>3 DEF ResultFunc
  <2>2. CASE func \notin ResultFunc
    <3>1. ~Draws(func, "finalresult")
      BY <1>1, <2>2, ResultDrawn
    <3>2. Asked("finalresult") => Asked("finalresult")'
      BY <1>13, <3>1
    <3>3. "finalresult" \in stale => "finalresult" \in stale'
      BY <1>4, <3>1 DEF Fields
    <3>4. QueueAgrees => QueueAgrees'
      BY <1>2, <1>7, <2>2 DEF QueueAgrees, Agrees, data
    <3>5. JobAgrees => JobAgrees'
      BY <1>2, <1>7 DEF JobAgrees, ResultQueued, Agrees, data, lcd
    <3>. QED  BY <3>2, <3>3, <3>4, <3>5 DEF IInv, LastResultAgrees
  <2>. QED  BY <2>1, <2>2
<1>. QED  BY <1>9, <1>10, <1>11, <1>12, <1>16, <1>17 DEF IInv

-----------------------------------------------------------------------------
(***************************************************************************)
(* The lcdcontrol thread.                                                  *)
(***************************************************************************)
\* What the steps of this thread do not touch.
LEMMA CallersKept ==
  ASSUME IInv, UNCHANGED <<data, callers>>
  PROVE  /\ CallsInv' /\ WrittenAgrees'
         /\ \A f : Asked(f)' <=> Asked(f)
         /\ \A f : Wanted(f)' = Wanted(f)
         /\ \A func : Agrees(func)' <=> Agrees(func)
BY DEF IInv, CallsInv, WrittenAgrees, Agrees, Asked, Draws, Wanted, data,
   callers

LEMMA GetDrawJobInv ==
  ASSUME IInv, getDrawJob
  PROVE  IInv'
<1>1. /\ lcd_pc = "jobs" /\ lcd_pc' = "draw"
      /\ job' = Head(queue) /\ queue' = Tail(queue) /\ drawn' = 0
      /\ UNCHANGED <<free_item, overflow, stale, shown, enabled, mail, data,
                     steril_mb, sterilizer, callers, bounds>>
  BY DEF getDrawJob
<1>. DEFINE n == Len(queue)
<1>2. /\ queue \in Seq(DrawFunc) /\ queue # << >>
      /\ n \in Nat /\ n > 0 /\ DOMAIN queue = 1 .. n
  BY <1>1 DEF IInv, TypeOK, LcdOK
<1>3. /\ queue' \in Seq(DrawFunc) /\ Len(queue') = n - 1
      /\ DOMAIN queue' = 1 .. n - 1
      /\ \A i \in 1 .. n - 1 : queue'[i] = queue[i + 1]
      /\ job' = queue[1] /\ job' \in DrawFunc
  BY <1>1, <1>2
\* Every job but the first is still queued.
<1>4. \A i \in DOMAIN queue :
        i = 1 \/ (i - 1 \in DOMAIN queue' /\ queue'[i - 1] = queue[i])
  BY <1>2, <1>3
<1>. HIDE DEF n
<1>5. TypeOK' /\ LcdOK'
  BY <1>1, <1>3
  DEF IInv, TypeOK, LcdOK, Value, data, callers, sterilizer, bounds
<1>6. JobsConserved'
  BY <1>1, <1>2, <1>3 DEF IInv, TypeOK, JobsConserved, n
<1>7. CallsInv' /\ WrittenAgrees'
  BY <1>1, CallersKept
<1>8. ASSUME NEW f \in Field, Queued(f)
      PROVE  Queued(f)' \/ BeingDrawn(f)'
  <2>1. PICK i \in DOMAIN queue : Draws(queue[i], f)
    BY <1>8 DEF Queued
  <2>2. CASE i = 1
    <3>1. Draws(job', f)
      BY <1>3, <2>1, <2>2
    <3>2. DOMAIN Drawn[job'] = 1 .. Len(Drawn[job'])
      BY <1>3, DrawnFields
    <3>. QED  BY <1>1, <3>1, <3>2 DEF BeingDrawn, Draws
  <2>3. CASE i # 1
    BY <1>4, <2>1, <2>3 DEF Queued, Draws
  <2>. QED  BY <2>2, <2>3
<1>9. ShownOrPending'
  <2>1. \A f : ~BeingDrawn(f)
    BY <1>1 DEF BeingDrawn
  <2>. QED  BY <1>1, <1>8, <2>1, CallersKept DEF IInv, ShownOrPending
<1>10. ASSUME QueueAgrees PROVE QueueAgrees' /\ JobAgrees'
  <2>1. ASSUME NEW i \in 1 .. n - 1,
               queue'[i] \in ResultFunc, ~Agrees(queue[i + 1])
        PROVE  \E j \in 1 .. n - 1 : j > i /\ queue'[j] \in ResultFunc
    <3>1. i + 1 \in DOMAIN queue /\ queue'[i] = queue[i + 1]
      BY <1>2, <1>3
    <3>2. PICK j \in DOMAIN queue : j > i + 1 /\ queue[j] \in ResultFunc
      BY <1>10, <2>1, <3>1 DEF QueueAgrees
    <3>. QED  BY <1>2, <1>3, <3>2, <1>4
  <2>2. QueueAgrees'
    <3>1. \A i \in 1 .. n - 1 : (ended' <=> queue'[i] = "drawResultEnd")
                                <=> Agrees(queue[i + 1])
      BY <1>1, <1>3 DEF Agrees, data
    <3>. QED  BY <1>3, <2>1, <3>1 DEF QueueAgrees, Agrees
  <2>3. ASSUME job' \in ResultFunc, ~Agrees(queue[1])
        PROVE  ResultQueued'
    <3>1. 1 \in DOMAIN queue
      BY <1>2
    <3>2. PICK j \in DOMAIN queue : j > 1 /\ queue[j] \in ResultFunc
      BY <1>3, <1>10, <2>3, <3>1 DEF QueueAgrees
    <3>. QED  BY <1>4, <3>2 DEF ResultQueued
  <2>4. JobAgrees'
    <3>1. (ended' <=> job' = "drawResultEnd") <=> Agrees(queue[1])
      BY <1>1, <1>3 DEF Agrees, data
    <3>. QED  BY <2>3, <3>1 DEF JobAgrees, Agrees
  <2>. QED  BY <2>2, <2>4
<1>11. LastResultAgrees'
  BY <1>1, <1>10, CallersKept DEF IInv, LastResultAgrees
<1>. QED  BY <1>5, <1>6, <1>7, <1>9, <1>11 DEF IInv

\* A field is drawn: it shows what it ought to, or, if it is the result, a
\* result function that agrees will follow.
LEMMA LcdDrawInv ==
  ASSUME IInv, LcdDraw
  PROVE  IInv'
<1>. DEFINE g == Drawn[job][drawn + 1]
<1>1. /\ lcd_pc = "draw" /\ drawn < Len(Drawn[job])
      /\ shown' = [shown EXCEPT ![g] = Drawing(job, g)]
      /\ enabled' = IF g = "ster_state" THEN ButtonsFor(appdata[g]) ELSE enabled
      /\ drawn' = drawn + 1
      /\ UNCHANGED <<lcd_pc, job, mail, data, jobs, steril_mb, sterilizer,
                     callers, bounds>>
  BY DEF LcdDraw
<1>2. /\ job \in DrawFunc /\ drawn \in Nat
      /\ Drawn[job] \in Seq(Field) /\ Len(Drawn[job]) \in 1 .. 2
      /\ DOMAIN Drawn[job] = 1 .. Len(Drawn[job])
      /\ drawn + 1 \in DOMAIN Drawn[job] /\ g \in Field
  <2>1. job \in DrawFunc /\ drawn \in Nat
    BY <1>1 DEF IInv, LcdOK, TypeOK
  <2>2. /\ Drawn[job] \in Seq(Field) /\ Len(Drawn[job]) \in 1 .. 2
        /\ DOMAIN Drawn[job] = 1 .. Len(Drawn[job])
    BY <2>1, DrawnFields
  <2>3. drawn + 1 \in DOMAIN Drawn[job]
    BY <1>1, <2>1, <2>2
  <2>. QED  BY <2>1, <2>2, <2>3
<1>3. /\ g = "finalresult" => job \in ResultFunc
      /\ job \in ResultFunc => g = "finalresult"
  BY <1>1, <1>2, DrawnFields
<1>. HIDE DEF g
<1>4. TypeOK' /\ LcdOK'
  <2>1. drawn' \in 0 .. 2
    <3>. DEFINE len == Len(Drawn[job])
    <3>1. len \in 1 .. 2 /\ drawn < len /\ drawn \in Nat /\ drawn' = drawn + 1
      BY <1>1, <1>2
    <3>. HIDE DEF len
    <3>. QED  BY <3>1
  <2>2. DOMAIN shown' = Field
    BY <1>1 DEF IInv, TypeOK
  <2>3. enabled' \subseteq Button
    <3>1. appdata["ster_state"] \in SterilizerState /\ enabled \subseteq Button
      BY DEF IInv, TypeOK, Value, Field
    <3>2. \A st \in SterilizerState : Enables[st] \subseteq Button
      BY DEF SterilizerState, Enables, Button
    <3>. QED  BY <1>1, <3>1, <3>2 DEF ButtonsFor
  <2>. QED  BY <1>1, <2>1, <2>2, <2>3
       DEF IInv, TypeOK, LcdOK, Value, data, jobs, callers, sterilizer, bounds
<1>5. JobsConserved'
  BY <1>1 DEF IInv, JobsConserved, jobs
<1>6. CallsInv' /\ WrittenAgrees'
  BY <1>1, CallersKept
<1>7. LastResultAgrees'
  BY <1>1, CallersKept DEF IInv, LastResultAgrees, QueueAgrees, JobAgrees,
     ResultQueued, Agrees, data, jobs
<1>8. \A f \in Field : Queued(f) => Queued(f)'
  BY <1>1 DEF Queued, Draws, jobs
<1>9. \/ shown'[g] = Wanted(g)
      \/ g = "finalresult" /\ (g \in stale \/ Queued(g) \/ Asked(g))
  <2>1. shown'[g] = Drawing(job, g)
    BY <1>1, <1>2 DEF IInv, TypeOK
  <2>2. CASE g # "finalresult"
    BY <1>3, <2>1, <2>2 DEF Drawing, Wanted, ResultFunc
  <2>3. CASE g = "finalresult" /\ Agrees(job)
    BY <1>3, <2>1, <2>3 DEF Drawing, Wanted, Agrees, ResultFunc
  <2>4. CASE g = "finalresult" /\ ~Agrees(job)
    <3>1. ResultQueued => Queued("finalresult")
      <4>1. ASSUME NEW j \in DOMAIN queue, queue[j] \in ResultFunc
            PROVE  Draws(queue[j], "finalresult")
        BY <4>1, ResultDrawn DEF ResultFunc, DrawFunc
      <4>. QED  BY <4>1 DEF ResultQueued, Queued
    <3>. QED  BY <1>1, <1>3, <2>4, <3>1 DEF IInv, LastResultAgrees, JobAgrees
  <2>. QED  BY <2>2, <2>3, <2>4
<1>10. ShownOrPending'
  <2>1. ASSUME NEW f \in Field
        PROVE  \/ shown'[f] = Wanted(f)' \/ f \in stale'
               \/ Queued(f)' \/ BeingDrawn(f)' \/ Asked(f)'
    <3>1. CASE f = g
      BY <1>1, <1>8, <1>9, <3>1, CallersKept DEF jobs
    <3>2. CASE f # g
      <4>1. shown'[f] = shown[f]
        BY <1>1, <3>2 DEF IInv, TypeOK
      <4>2. ASSUME NEW i \in DOMAIN Drawn[job], i > drawn, Drawn[job][i] = f
            PROVE  i > drawn'
        <5>1. i # drawn + 1
          BY <3>2, <4>2 DEF g
        <5>. QED  BY <1>1, <1>2, <4>2, <5>1
      <4>3. BeingDrawn(f) => BeingDrawn(f)'
        BY <1>1, <4>2 DEF BeingDrawn
      <4>. QED  BY <1>1, <1>8, <4>1, <4>3, CallersKept
       DEF IInv, ShownOrPending, jobs
    <3>. QED  BY <3>1, <3>2
  <2>. QED  BY <2>1 DEF ShownOrPending
<1>. QED  BY <1>4, <1>5, <1>6, <1>7, <1>10 DEF IInv

LEMMA FreeDrawJobInv ==
  ASSUME IInv, CountFreeJobs \/ freeDrawJob
  PROVE  IInv'
<1>1. /\ lcd_pc \in {"draw", "free"}
      /\ lcd_pc = "draw" => drawn = Len(Drawn[job])
      /\ UNCHANGED <<queue, stale, shown, enabled, mail, data, steril_mb,
                     sterilizer, callers, bounds>>
  BY DEF CountFreeJobs, freeDrawJob
<1>2. \/ /\ lcd_pc = "draw" /\ lcd_pc' = "free"
         /\ UNCHANGED <<free_item, overflow, job, drawn>>
      \/ /\ lcd_pc = "free" /\ lcd_pc' = Loop
         /\ free_item' = free_item + 1 /\ job' = "none" /\ drawn' = 0
         /\ UNCHANGED overflow
  <2>1. free_item # DRAW_JOB_QUEUE_SIZE
    <3>1. /\ free_item + Len(queue) + 1 = DRAW_JOB_QUEUE_SIZE
          /\ Len(queue) \in Nat /\ free_item \in Nat
      BY <1>1, DisplayConstants DEF IInv, JobsConserved, TypeOK
    <3>. QED  BY <3>1
  <2>. QED  BY <2>1 DEF CountFreeJobs, freeDrawJob
<1>3. JobsConserved'
  <2>1. /\ Len(queue) \in Nat /\ free_item \in Nat
        /\ free_item + Len(queue) + 1 = DRAW_JOB_QUEUE_SIZE
        /\ overflow = 0 /\ overflow' = 0 /\ queue' = queue
    BY <1>1, <1>2, DisplayConstants DEF IInv, JobsConserved, TypeOK
  <2>. QED  BY <1>2, <2>1 DEF JobsConserved, Loop
<1>4. TypeOK' /\ LcdOK'
  <2>1. free_item' \in 0 .. DRAW_JOB_QUEUE_SIZE
    <3>1. /\ free_item + Len(queue) + 1 = DRAW_JOB_QUEUE_SIZE
          /\ Len(queue) \in Nat /\ free_item \in Nat
      BY <1>1, DisplayConstants DEF IInv, JobsConserved, TypeOK
    <3>. QED  BY <1>2, <3>1, DisplayConstants
  <2>2. /\ job' \in DrawFunc \cup {"none"} /\ drawn' \in 0 .. 2
        /\ lcd_pc' \in {"jobs", "draw", "free", "wait", "mail"}
        /\ overflow' \in Nat
    BY <1>2 DEF IInv, TypeOK, Loop
  <2>3. TypeOK'
    BY <1>1, <2>1, <2>2
    DEF IInv, TypeOK, Value, data, callers, sterilizer, bounds
  <2>. QED  BY <1>1, <1>2, <2>3 DEF IInv, LcdOK, Loop, DrawFunc
<1>5. CallsInv' /\ WrittenAgrees'
  BY <1>1, CallersKept
<1>6. LastResultAgrees'
  <2>1. QueueAgrees => QueueAgrees'
    BY <1>1 DEF QueueAgrees, Agrees, data
  <2>2. JobAgrees'
    BY <1>2 DEF JobAgrees, Loop
  <2>. QED  BY <1>1, <2>1, <2>2, CallersKept DEF IInv, LastResultAgrees
<1>7. ShownOrPending'
  <2>1. \A f : ~BeingDrawn(f)
    <3>1. ASSUME lcd_pc = "draw" PROVE DOMAIN Drawn[job] = 1 .. drawn
      BY <1>1, <3>1, DrawnFields DEF IInv, LcdOK
    <3>. QED  BY <1>1, <3>1 DEF BeingDrawn, IInv, TypeOK
  <2>2. \A f : Queued(f) => Queued(f)'
    BY <1>1 DEF Queued, Draws
  <2>. QED  BY <1>1, <2>1, <2>2, CallersKept DEF IInv, ShownOrPending
<1>. QED  BY <1>3, <1>4, <1>5, <1>6, <1>7 DEF IInv

LEMMA LcdPageInv ==
  ASSUME IInv, LcdPage
  PROVE  IInv'
<1>1. /\ lcd_pc = "wait" /\ lcd_pc' = Loop
      /\ shown' = [shown EXCEPT !["sdc_state"] = appdata["sdc_state"]]
      /\ UNCHANGED <<enabled, job, drawn, mail, data, jobs, steril_mb,
                     sterilizer, callers, bounds>>
  BY DEF LcdPage
<1>2. TypeOK' /\ LcdOK' /\ JobsConserved'
  <2>1. lcd_pc' \in {"jobs", "wait"} /\ (lcd_pc' = "jobs" => queue # << >>)
    BY <1>1 DEF Loop
  <2>2. DOMAIN shown' = Field
    BY <1>1 DEF IInv, TypeOK
  <2>3. TypeOK'
    BY <1>1, <2>1, <2>2
    DEF IInv, TypeOK, Value, data, jobs, callers, sterilizer, bounds
  <2>. QED  BY <1>1, <2>1, <2>3 DEF IInv, LcdOK, JobsConserved, jobs
<1>3. CallsInv' /\ WrittenAgrees'
  BY <1>1, CallersKept
<1>4. LastResultAgrees'
  <2>1. QueueAgrees => QueueAgrees'
    BY <1>1 DEF QueueAgrees, Agrees, data, jobs
  <2>2. JobAgrees'
    BY <1>1 DEF JobAgrees, Loop
  <2>. QED  BY <1>1, <2>1, <2>2, CallersKept DEF IInv, LastResultAgrees, jobs
<1>5. ShownOrPending'
  <2>1. \A f : ~BeingDrawn(f)
    BY <1>1 DEF BeingDrawn
  <2>2. \A f : Queued(f) => Queued(f)'
    BY <1>1 DEF Queued, Draws, jobs
  <2>3. \A f \in Field : shown'[f] = shown[f] \/ shown'[f] = Wanted(f)
    BY <1>1 DEF IInv, TypeOK, Wanted
  <2>. QED  BY <1>1, <2>1, <2>2, <2>3, CallersKept
       DEF IInv, ShownOrPending, jobs
<1>. QED  BY <1>2, <1>3, <1>4, <1>5 DEF IInv

-----------------------------------------------------------------------------
(***************************************************************************)
(* The invariant holds, and with it what it was made for.                  *)
(***************************************************************************)
LEMMA NextInv == IInv /\ [Next]_vars => IInv'
<1>. SUFFICES ASSUME IInv, [Next]_vars PROVE IInv'
  OBVIOUS
<1>1. CASE BeginsOrQuiet
  BY <1>1, BeginsInv, QuietInv DEF BeginsOrQuiet
<1>2. CASE \E t \in Thread : Write(t) \/ addDrawJob(t)
  BY <1>2, WriteInv, AddDrawJobInv
<1>3. CASE getDrawJob
  BY <1>3, GetDrawJobInv
<1>4. CASE LcdDraw
  BY <1>4, LcdDrawInv
<1>5. CASE CountFreeJobs \/ freeDrawJob
  BY <1>5, FreeDrawJobInv
<1>6. CASE LcdPage
  BY <1>6, LcdPageInv
<1>7. CASE UNCHANGED vars
  <2>1. RestOK'
    BY <1>7 DEF IInv, TypeOK, RestOK, vars, sterilizer, bounds
  <2>2. Quiet
    BY <1>7 DEF Quiet, vars
  <2>. QED  BY <2>1, <2>2, QuietInv
<1>. QED  BY <1>1, <1>2, <1>3, <1>4, <1>5, <1>6, <1>7, Steps DEF IInv

LEMMA Invariance == Spec => []IInv
BY InitInv, NextInv, PTL DEF Spec

\* Type correctness: in particular the mails to the sterilizer fit into its
\* mailbox, and the lcdcontrol thread never takes a job from an empty queue.
THEOREM TypeCorrect == Spec => []TypeOK
<1>1. IInv => TypeOK
  BY DEF IInv
<1>. QED  BY <1>1, Invariance, PTL

\* Every draw job is in the pool, in the queue or being drawn, and none is
\* refused by the test of freeDrawJob without the mutex.
THEOREM NoJobIsLost == Spec => []JobsConserved
<1>1. IInv => JobsConserved
  BY DEF IInv
<1>. QED  BY <1>1, Invariance, PTL

\* A widget shows what it ought to, or a drawing of it is still to come, or its
\* last job was dropped.
THEOREM NoUpdateIsLost == Spec => []ShownOrPending
<1>1. IInv => ShownOrPending
  BY DEF IInv
<1>. QED  BY <1>1, Invariance, PTL
=============================================================================
