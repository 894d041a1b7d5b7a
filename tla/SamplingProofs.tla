--------------------------- MODULE SamplingProofs ---------------------------
(***************************************************************************)
(* Proofs about the way of a sample from the sensor to the control law,    *)
(* for every number of sensors, every size of window, FIFO and hysteresis, *)
(* all readings of an ADT7410, and any number of failed or torn transfers. *)
(***************************************************************************)
EXTENDS Sampling, FuzzyLogicProofs

-----------------------------------------------------------------------------
(***************************************************************************)
(* The division of C.                                                      *)
(***************************************************************************)
LEMMA Division ==
  ASSUME NEW a \in Int, NEW n \in Nat \ {0}, 0 <= a
  PROVE  /\ a \div n \in Int
         /\ 0 <= a \div n
         /\ n * (a \div n) <= a
         /\ a < n * (a \div n) + n
<1>. DEFINE q == a \div n
<1>1. q \in Int /\ n * q <= a /\ a < n * q + n
  OBVIOUS
<1>. HIDE DEF q
<1>2. 0 <= q
  <2>1. SUFFICES ASSUME q <= -1 PROVE FALSE
    BY <1>1
  <2>2. n * q <= n * (-1)
    BY <1>1, <2>1
  <2>. QED  BY <1>1, <2>2
<1>. QED  BY <1>1, <1>2 DEF q

LEMMA QuotientProperties ==
  ASSUME NEW a \in Int, NEW n \in Nat \ {0}
  PROVE  /\ Quotient(a, n) \in Int
         /\ a >= 0 => /\ Quotient(a, n) >= 0
                      /\ n * Quotient(a, n) <= a
                      /\ a < n * Quotient(a, n) + n
         /\ a < 0 => /\ Quotient(a, n) <= 0
                     /\ a <= n * Quotient(a, n)
                     /\ n * Quotient(a, n) - n < a
<1>1. CASE a >= 0
  <2>1. Quotient(a, n) = a \div n
    BY <1>1 DEF Quotient
  <2>. QED  BY <1>1, <2>1, Division
<1>2. CASE a < 0
  <2>. DEFINE q == (-a) \div n
  <2>1. Quotient(a, n) = -q
    BY <1>2 DEF Quotient
  <2>2. -a \in Int /\ 0 <= -a
    BY <1>2
  <2>3. q \in Int /\ 0 <= q /\ n * q <= -a /\ -a < n * q + n
    BY <2>2, Division
  <2>. HIDE DEF q
  <2>4. n * (-q) = -(n * q)
    BY <2>3
  <2>. QED  BY <1>2, <2>1, <2>3, <2>4
<1>. QED  BY <1>1, <1>2

\* Two sums that differ by at most n*e have means that differ by at most e.
LEMMA QuotientShift ==
  ASSUME NEW a \in Int, NEW b \in Int, NEW n \in Nat \ {0}, NEW e \in Nat,
         a <= b + n * e
  PROVE  Quotient(a, n) <= Quotient(b, n) + e
<1>. DEFINE q == Quotient(a, n)
            p == Quotient(b, n)
<1>1. /\ q \in Int /\ p \in Int
      /\ a >= 0 => q >= 0 /\ n * q <= a /\ a < n * q + n
      /\ a < 0 => q <= 0 /\ a <= n * q /\ n * q - n < a
      /\ b >= 0 => p >= 0 /\ n * p <= b /\ b < n * p + n
      /\ b < 0 => p <= 0 /\ b <= n * p /\ n * p - n < b
  BY QuotientProperties
<1>. HIDE DEF p, q
<1>2. SUFFICES ASSUME q >= p + e + 1 PROVE FALSE
  BY <1>1 DEF p, q
<1>3. n * q >= n * p + n * e + n
  <2>1. n * q >= n * (p + e + 1)
    BY <1>1, <1>2
  <2>. QED  BY <1>1, <2>1
<1>. QED  BY <1>1, <1>2, <1>3

-----------------------------------------------------------------------------
(***************************************************************************)
(* The mean of a window.                                                   *)
(***************************************************************************)
\* What two bytes of a measured value can make up.
Measured(v) == v \in Int /\ -7168 <= v /\ v <= 19455

LEMMA InInt16 ==
  ASSUME NEW v \in Int, -32768 <= v, v <= 32767
  PROVE  v \in Int16
<1>1. INT16_MAX \in Int /\ -INT16_MAX - 1 <= v /\ v <= INT16_MAX
  BY DEF INT16_MAX
<1>. QED  BY <1>1 DEF Int16

LEMMA MeasuredIsInt16 ==
  ASSUME NEW v, Measured(v)
  PROVE  v \in Int16
BY InInt16 DEF Measured

LEMMA Close ==
  ASSUME NEW u, NEW v, NEW e \in Nat,
         \A i \in Slot : u[i] \in Int /\ v[i] \in Int /\ u[i] <= v[i] + e
  PROVE  Mean(u) \in Int /\ Mean(v) \in Int /\ Mean(u) <= Mean(v) + e
<1>. DEFINE n == RUNNING_AVG_FIFO_SIZE
<1>0. n \in Nat \ {0}
  BY TempreaderConstants
<1>. HIDE DEF n
<1>1. Summable(u, n) /\ Summable(v, n)
  BY DEF Summable, Slot, n
<1>2. Sum(u, n) \in Int /\ Sum(v, n) \in Int
  BY <1>0, <1>1, SumInt
<1>3. Sum(u, n) <= 1 * Sum(v, n) + n * e
  <2>1. \A i \in 1 .. n : u[i] <= 1 * v[i] + e
    BY <1>1 DEF Slot, n
  <2>. QED  BY <1>0, <1>1, <2>1, SumLinear
<1>4. Sum(u, n) <= Sum(v, n) + n * e
  BY <1>0, <1>2, <1>3
<1>5. /\ Quotient(Sum(u, n), n) \in Int /\ Quotient(Sum(v, n), n) \in Int
      /\ Quotient(Sum(u, n), n) <= Quotient(Sum(v, n), n) + e
  BY <1>0, <1>2, <1>4, QuotientShift, QuotientProperties
<1>. QED  BY <1>5 DEF Mean, n

LEMMA MeanOfZeros == Mean([i \in Slot |-> 0]) = 0
<1>. DEFINE n == RUNNING_AVG_FIFO_SIZE
            z == [i \in Slot |-> 0]
<1>1. n \in Nat \ {0} /\ \A i \in 1 .. n : z[i] = 0
  BY TempreaderConstants DEF Slot
<1>. HIDE DEF n, z
<1>2. Summable(z, n)
  BY <1>1 DEF Summable
<1>3. Sum(z, n) \in Int
  BY <1>1, <1>2, SumInt
<1>4. Sum(z, n) >= 0
  <2>1. 1 \in 1 .. n /\ z[1] = 0 /\ \A i \in 1 .. n : z[i] >= 0
    BY <1>1
  <2>2. Sum(z, n) >= z[1]
    BY <1>1, <1>2, <2>1, SumAtLeast
  <2>. QED  BY <2>1, <2>2
<1>5. Sum(z, n) <= 0
  <2>1. \A i \in 1 .. n : z[i] <= 0 * z[i] + 0
    BY <1>1
  <2>2. Sum(z, n) <= 0 * Sum(z, n) + n * 0
    BY <1>1, <1>2, <2>1, SumLinear
  <2>. QED  BY <1>1, <1>3, <2>2
<1>6. Quotient(0, n) = 0
  BY <1>1 DEF Quotient
<1>. QED  BY <1>3, <1>4, <1>5, <1>6 DEF Mean, n, z

\* The mean of measured values is one.
LEMMA MeanMeasured ==
  ASSUME NEW w, \A i \in Slot : Measured(w[i])
  PROVE  Measured(Mean(w))
<1>. DEFINE z == [i \in Slot |-> 0]
<1>1. \A i \in Slot : w[i] \in Int /\ -7168 <= w[i] /\ w[i] <= 19455 /\ z[i] = 0
  BY DEF Measured
<1>. HIDE DEF z
<1>2. Mean(z) = 0
  BY MeanOfZeros DEF z
<1>3. Mean(w) \in Int /\ Mean(w) <= Mean(z) + 19455
  <2>1. \A i \in Slot : w[i] \in Int /\ z[i] \in Int /\ w[i] <= z[i] + 19455
    BY <1>1
  <2>. QED  BY <2>1, Close
<1>4. Mean(z) <= Mean(w) + 7168
  <2>1. \A i \in Slot : z[i] \in Int /\ w[i] \in Int /\ z[i] <= w[i] + 7168
    BY <1>1
  <2>. QED  BY <2>1, Close
<1>. QED  BY <1>2, <1>3, <1>4 DEF Measured

LEMMA LowIsByte ==
  ASSUME NEW value \in SensorRange
  PROVE  Low(value) \in 0 .. 255
BY DEF Low, SensorRange

LEMMA CombinedMeasured ==
  ASSUME NEW value \in SensorRange, NEW low \in 0 .. 255
  PROVE  /\ Measured(Combined(value, low))
         /\ Combined(value, low) <= value + 255
         /\ value <= Combined(value, low) + 255
         /\ Combined(value, Low(value)) = value
<1>. DEFINE q == value \div 256
            r == value % 256
<1>1. value \in Int /\ -7040 <= value /\ value <= 19200
  BY DEF SensorRange
<1>2. low \in Int /\ 0 <= low /\ low <= 255
  OBVIOUS
<1>3. /\ q \in Int /\ r \in 0 .. 255
      /\ r = value - 256 * q
  BY <1>1
<1>4. Low(value) = r /\ Combined(value, low) = 256 * q + low
                    /\ Combined(value, Low(value)) = 256 * q + r
  BY <1>1, <1>2 DEF Low, Combined
<1>. HIDE DEF q, r
<1>5. r \in Int /\ 0 <= r /\ r <= 255
  BY <1>3
<1>6. 256 * q + low \in Int
  BY <1>2, <1>3
<1>7. 256 * q + r = value
  BY <1>1, <1>3, <1>5
<1>8. -7168 <= 256 * q + low /\ 256 * q + low <= 19455
  BY <1>1, <1>2, <1>3, <1>5
<1>9. 256 * q + low <= value + 255 /\ value <= 256 * q + low + 255
  BY <1>1, <1>2, <1>3, <1>5
<1>. QED  BY <1>3, <1>4, <1>6, <1>7, <1>8, <1>9 DEF Measured

-----------------------------------------------------------------------------
(***************************************************************************)
(* Type correctness: 16 bits are enough.                                   *)
(***************************************************************************)
\* The band of a hysteresis is H_DELTA wide, its lower end is what was
\* reported last, and everything lies in the range of what was measured.
InRange ==
  /\ Measured(res)
  /\ \A c \in Channel : \A i \in Slot : Measured(runavg[c][i])
  /\ \A c \in Channel : /\ Measured(h_min[c])
                         /\ h_max[c] = h_min[c] + H_DELTA
                         /\ prev_temp[c] = h_min[c]

\* A dead channel is fed with what was reported, so the lower bound holds only
\* because a band that is pushed up never ends below where it was.
LEMMA NewBand ==
  ASSUME TypeOK, InRange, NEW c \in Channel
  PROVE  /\ Measured(Mean(runavg[c]))
         /\ Measured(NewMin(c))
         /\ NewMax(c) = NewMin(c) + H_DELTA
         /\ NewMin(c) - prev_temp[c] \in Int16
<1>1. Measured(Mean(runavg[c]))
  BY MeanMeasured DEF InRange
<1>2. Measured(h_min[c]) /\ h_max[c] = h_min[c] + H_DELTA /\ prev_temp[c] = h_min[c]
  BY DEF InRange
<1>0. H_DELTA \in 0 .. 256
  BY TempreaderConstants
<1>3. Measured(NewMin(c)) /\ NewMax(c) = NewMin(c) + H_DELTA
  BY <1>0, <1>1, <1>2 DEF NewMin, NewMax, Measured
<1>4. NewMin(c) - prev_temp[c] \in Int16
  BY <1>2, <1>3, InInt16 DEF Measured
<1>. QED  BY <1>1, <1>3, <1>4

LEMMA ReportIsSample ==
  ASSUME TypeOK, InRange
  PROVE  Report \in Sample
<1>1. \A c \in Channel : NewMin(c) \in Int16 /\ NewMin(c) - prev_temp[c] \in Int16
  BY NewBand, MeasuredIsInt16
<1>. QED  BY <1>1 DEF Report, Sample

LEMMA ZeroInRange == Measured(0)
BY DEF Measured

LEMMA TypeInit == Init => TypeOK /\ InRange
<1>. SUFFICES ASSUME Init PROVE TypeOK /\ InRange
  OBVIOUS
<1>1. 0 \in Int16 /\ H_DELTA \in Int16 /\ Measured(0)
  <2>1. H_DELTA \in Int /\ 0 <= H_DELTA /\ H_DELTA <= 256
    BY TempreaderConstants
  <2>. QED  BY <2>1, ZeroInRange, InInt16
<1>2. TempreaderTypeOK
  BY <1>1, TempreaderConstants DEF Init, TempreaderInit, TempreaderTypeOK
<1>3. curr_temp \in Sample
  BY <1>1 DEF Init, Zeros, Sample
<1>4. InRange
  <2>1. H_DELTA = 0 + H_DELTA
    BY TempreaderConstants
  <2>. QED  BY <1>1, <2>1 DEF Init, TempreaderInit, InRange
<1>. QED  BY <1>2, <1>3, <1>4 DEF TypeOK

\* The windows after a pass of one channel.
LEMMA ShiftedMeasured ==
  ASSUME NEW w, \A i \in Slot : Measured(w[i]), NEW value, Measured(value)
  PROVE  /\ \A i \in Slot : Measured(Shifted(w, value)[i])
         /\ Shifted(w, value) \in [Slot -> Int16]
<1>1. \A i \in Slot : i # 1 => i - 1 \in Slot
  BY TempreaderConstants DEF Slot
<1>2. \A i \in Slot : Measured(Shifted(w, value)[i])
  BY <1>1 DEF Shifted
<1>3. \A i \in Slot : Shifted(w, value)[i] \in Int16
  BY <1>2, MeasuredIsInt16
<1>. QED  BY <1>2, <1>3 DEF Shifted

LEMMA ShiftedTruth ==
  ASSUME NEW w \in [Slot -> Readings \cup {NoReading}],
         NEW value \in Readings \cup {NoReading}
  PROVE  Shifted(w, value) \in [Slot -> Readings \cup {NoReading}]
<1>1. \A i \in Slot : i # 1 => i - 1 \in Slot
  BY TempreaderConstants DEF Slot
<1>. QED  BY <1>1 DEF Shifted

LEMMA ShiftedMixed ==
  ASSUME NEW w \in [Slot -> BOOLEAN], NEW value \in BOOLEAN
  PROVE  Shifted(w, value) \in [Slot -> BOOLEAN]
<1>1. \A i \in Slot : i # 1 => i - 1 \in Slot
  BY TempreaderConstants DEF Slot
<1>. QED  BY <1>1 DEF Shifted

LEMMA TypeConfigure ==
  ASSUME TypeOK, InRange, UNCHANGED curr_temp, ConfigureSensor \/ StartTimer
  PROVE  TypeOK' /\ InRange'
<1>1. InRange'
  BY DEF InRange, ConfigureSensor, StartTimer, windows, hysteresis
<1>2. CASE ConfigureSensor
  <2>1. faults' \in 0 .. MaxFaults
    BY <1>2, TempreaderConstants
       DEF ConfigureSensor, SensorFails, Fault, TypeOK, TempreaderTypeOK
  <2>2. sensorstate' \in [Channel -> {"INIT", "OK", "ERROR"}]
    BY <1>2 DEF ConfigureSensor, SensorFails, TypeOK, TempreaderTypeOK
  <2>3. ch' \in 0 .. CHANNEL_NUM
    BY <1>2, TempreaderConstants DEF ConfigureSensor, TypeOK, TempreaderTypeOK
  <2>. QED  BY <1>1, <1>2, <2>1, <2>2, <2>3
            DEF ConfigureSensor, TypeOK, TempreaderTypeOK, windows, hysteresis
<1>3. CASE StartTimer
  BY <1>1, <1>3, TempreaderConstants
     DEF StartTimer, TypeOK, TempreaderTypeOK, windows, hysteresis
<1>. QED  BY <1>1, <1>2, <1>3

LEMMA TypeRead ==
  ASSUME TypeOK, InRange, UNCHANGED curr_temp,
         ReadSensor \/ ReadFails \/ ReadDeadChannel
  PROVE  TypeOK' /\ InRange'
<1>1. /\ ch \in Channel /\ ch' \in 0 .. CHANNEL_NUM
      /\ Readings \subseteq SensorRange
  <2>1. Reading /\ ch' = ch + 1
    BY DEF ReadSensor, ReadFails, ReadDeadChannel
  <2>. QED  BY <2>1, TempreaderConstants
            DEF Reading, TypeOK, TempreaderTypeOK, Channel
<1>2. CASE ReadSensor
  <2>1. PICK early \in Readings, value \in Readings :
          /\ \/ rxlow' = Low(value) /\ UNCHANGED faults
             \/ rxlow' = Low(early) /\ Fault
             \/ UNCHANGED rxlow /\ Fault
          /\ res' = Combined(value, rxlow')
          /\ truth' = [truth EXCEPT ![ch] = Shifted(@, value)]
          /\ mixed' = [mixed EXCEPT ![ch] = Shifted(@, rxlow' # Low(value))]
    BY <1>2 DEF ReadSensor
  <2>2. value \in SensorRange /\ early \in SensorRange
    BY <1>1
  <2>3. rxlow' \in 0 .. 255
    <3>1. Low(value) \in 0 .. 255 /\ Low(early) \in 0 .. 255
      BY <2>2, LowIsByte
    <3>. QED  BY <2>1, <3>1 DEF TypeOK, TempreaderTypeOK
  <2>4. Measured(res')
    BY <2>1, <2>2, <2>3, CombinedMeasured
  <2>5. faults' \in 0 .. MaxFaults
    BY <2>1, TempreaderConstants DEF Fault, TypeOK, TempreaderTypeOK
  <2>6. /\ \A c \in Channel : \A i \in Slot : Measured(runavg'[c][i])
        /\ runavg' \in [Channel -> [Slot -> Int16]]
    BY <1>1, <1>2, <2>4, ShiftedMeasured
       DEF ReadSensor, TypeOK, TempreaderTypeOK, InRange
  <2>7. truth' \in [Channel -> [Slot -> Readings \cup {NoReading}]]
    BY <1>1, <2>1, ShiftedTruth DEF TypeOK, TempreaderTypeOK
  <2>10. mixed' \in [Channel -> [Slot -> BOOLEAN]]
    <3>1. (rxlow' # Low(value)) \in BOOLEAN /\ mixed[ch] \in [Slot -> BOOLEAN]
      BY <1>1 DEF TypeOK, TempreaderTypeOK
    <3>2. Shifted(mixed[ch], rxlow' # Low(value)) \in [Slot -> BOOLEAN]
      BY <3>1, ShiftedMixed
    <3>. QED  BY <1>1, <2>1, <3>2 DEF TypeOK, TempreaderTypeOK
  <2>8. InRange'
    BY <1>2, <2>4, <2>6 DEF ReadSensor, InRange, hysteresis
  <2>9. res' \in Int16
    BY <2>4, MeasuredIsInt16
  <2>. QED  BY <1>1, <1>2, <2>3, <2>5, <2>6, <2>7, <2>8, <2>9, <2>10
            DEF ReadSensor, TypeOK, TempreaderTypeOK, hysteresis
<1>3. CASE ReadFails
  <2>1. rxlow' \in 0 .. 255
    <3>1. \A value \in Readings : Low(value) \in 0 .. 255
      BY <1>1, LowIsByte
    <3>. QED  BY <1>3, <3>1 DEF ReadFails, TypeOK, TempreaderTypeOK
  <2>2. faults' \in 0 .. MaxFaults
    BY <1>3, TempreaderConstants
       DEF ReadFails, SensorFails, Fault, TypeOK, TempreaderTypeOK
  <2>3. sensorstate' \in [Channel -> {"INIT", "OK", "ERROR"}]
    BY <1>3 DEF ReadFails, SensorFails, TypeOK, TempreaderTypeOK
  <2>4. InRange'
    BY <1>3 DEF ReadFails, InRange, windows, hysteresis
  <2>. QED  BY <1>1, <1>3, <2>1, <2>2, <2>3, <2>4
            DEF ReadFails, TypeOK, TempreaderTypeOK, windows, hysteresis
<1>4. CASE ReadDeadChannel
  <2>1. /\ \A c \in Channel : \A i \in Slot : Measured(runavg'[c][i])
        /\ runavg' \in [Channel -> [Slot -> Int16]]
    BY <1>1, <1>4, ShiftedMeasured
       DEF ReadDeadChannel, TypeOK, TempreaderTypeOK, InRange
  <2>2. truth' \in [Channel -> [Slot -> Readings \cup {NoReading}]]
    BY <1>1, <1>4, ShiftedTruth DEF ReadDeadChannel, TypeOK, TempreaderTypeOK
  <2>3. InRange'
    BY <1>4, <2>1 DEF ReadDeadChannel, InRange, hysteresis
  <2>4. mixed' \in [Channel -> [Slot -> BOOLEAN]]
    <3>1. FALSE \in BOOLEAN /\ mixed[ch] \in [Slot -> BOOLEAN]
      BY <1>1 DEF TypeOK, TempreaderTypeOK
    <3>2. Shifted(mixed[ch], FALSE) \in [Slot -> BOOLEAN]
      BY <3>1, ShiftedMixed
    <3>. QED  BY <1>1, <1>4, <3>2 DEF ReadDeadChannel, TypeOK, TempreaderTypeOK
  <2>. QED  BY <1>1, <1>4, <2>1, <2>2, <2>3, <2>4
            DEF ReadDeadChannel, TypeOK, TempreaderTypeOK, hysteresis
<1>. QED  BY <1>2, <1>3, <1>4

LEMMA TypeReport ==
  ASSUME TypeOK, InRange, UNCHANGED curr_temp,
         FillWindow \/ PostSample \/ SkipSample
  PROVE  TypeOK' /\ InRange'
<1>1. 0 \in 0 .. CHANNEL_NUM
  BY TempreaderConstants
<1>2. CASE FillWindow
  <2>1. runavg_size' \in 0 .. RUNNING_AVG_FIFO_SIZE
    BY <1>2, TempreaderConstants
       DEF FillWindow, WindowsFull, TypeOK, TempreaderTypeOK
  <2>. QED  BY <1>1, <1>2, <2>1
            DEF FillWindow, TypeOK, TempreaderTypeOK, InRange, hysteresis
<1>3. CASE PostSample
  <2>1. \A c \in Channel : /\ Measured(NewMin(c)) /\ NewMin(c) \in Int16
                           /\ NewMax(c) = NewMin(c) + H_DELTA
                           /\ NewMax(c) \in Int16
    <3>. TAKE c \in Channel
    <3>1. Measured(NewMin(c)) /\ NewMax(c) = NewMin(c) + H_DELTA
      BY NewBand
    <3>2. H_DELTA \in Int /\ 0 <= H_DELTA /\ H_DELTA <= 256
      BY TempreaderConstants
    <3>3. NewMax(c) \in Int16
      BY <3>1, <3>2, InInt16 DEF Measured
    <3>. QED  BY <3>1, <3>3, MeasuredIsInt16
  <2>2. Report \in Sample
    BY ReportIsSample
  <2>3. tempFIFO' \in Seq(Sample) /\ Len(tempFIFO') <= TEMP_FIFO_SIZE
    BY <1>3, <2>2, TempreaderConstants DEF PostSample, TypeOK, TempreaderTypeOK
  <2>4. sensorstate' \in [Channel -> {"INIT", "OK", "ERROR"}]
    BY <1>3 DEF PostSample, TypeOK, TempreaderTypeOK
  <2>5. /\ h_max' \in [Channel -> Int16]
        /\ h_min' \in [Channel -> Int16]
        /\ prev_temp' \in [Channel -> Int16]
    BY <1>3, <2>1 DEF PostSample
  <2>6. Measured(res') /\ res' \in Int16
    <3>1. CHANNEL_NUM - 1 \in Channel
      BY TempreaderConstants DEF Channel
    <3>. QED  BY <1>3, <2>1, <3>1 DEF PostSample
  <2>7. InRange'
    BY <1>3, <2>1, <2>6 DEF PostSample, InRange, windows
  <2>8. UNCHANGED <<tr_pc, rxlow, runavg, runavg_size, truth, mixed,
                    faults>>
        /\ ch' = 0 /\ tr_state' = "OK"
    BY <1>3 DEF PostSample, windows
  <2>. QED  BY <1>1, <2>3, <2>4, <2>5, <2>6, <2>7, <2>8
            DEF TypeOK, TempreaderTypeOK
<1>4. CASE SkipSample
  BY <1>1, <1>4 DEF SkipSample, TypeOK, TempreaderTypeOK, InRange, windows,
                    hysteresis
<1>. QED  BY <1>2, <1>3, <1>4

LEMMA TypeTake ==
  ASSUME TypeOK, InRange, TakeSample
  PROVE  TypeOK' /\ InRange'
<1>1. /\ tempFIFO \in Seq(Sample) /\ tempFIFO # << >>
      /\ Len(tempFIFO) <= TEMP_FIFO_SIZE
  BY DEF TakeSample, TypeOK, TempreaderTypeOK
<1>2. /\ Head(tempFIFO) \in Sample
      /\ Tail(tempFIFO) \in Seq(Sample)
      /\ Len(Tail(tempFIFO)) <= TEMP_FIFO_SIZE
  BY <1>1, TempreaderConstants
<1>. QED  BY <1>2 DEF TakeSample, TypeOK, TempreaderTypeOK, InRange,
                      tempreader, windows, hysteresis

LEMMA TypeStep == TypeOK /\ InRange /\ [Next]_vars => TypeOK' /\ InRange'
<1>. SUFFICES ASSUME TypeOK, InRange, [Next]_vars PROVE TypeOK' /\ InRange'
  OBVIOUS
<1>1. CASE Read
  BY <1>1, TypeConfigure, TypeRead, TypeReport DEF Read, Threadtempreader
<1>2. CASE TakeSample
  BY <1>2, TypeTake
<1>3. CASE UNCHANGED vars
  BY <1>3 DEF vars, tempreader, windows, hysteresis, TypeOK, TempreaderTypeOK,
              InRange
<1>. QED  BY <1>1, <1>2, <1>3 DEF Next

\* No value of the tempreader leaves its 16 bits: the means stay in the range
\* of what two bytes of a sensor can make up, also those of a channel that is
\* fed with reports after its sensor has failed (tempreader.c 148-186).
THEOREM TypeCorrect == Spec => [](TypeOK /\ InRange)
<1>. QED  BY TypeInit, TypeStep, PTL DEF Spec

-----------------------------------------------------------------------------
(***************************************************************************)
(* What is reported.                                                       *)
(***************************************************************************)
\* How many of the newest entries of the window of a channel were read.
Reads(c) == runavg_size + IF tr_pc = "loop" /\ c < ch THEN 1 ELSE 0

SlotError(c, i) == IF mixed[c][i] THEN 255 ELSE 0

\* Each of them is what its sensor measured, but for a low byte that is of
\* another measurement.
Truthful ==
  \A c \in Channel : Working(c) => \A i \in Slot : i <= Reads(c) =>
    /\ truth[c][i] \in Readings
    /\ runavg[c][i] <= truth[c][i] + SlotError(c, i)
    /\ truth[c][i] <= runavg[c][i] + SlotError(c, i)

LEMMA ByteErrorBounds ==
  ASSUME NEW c \in Channel
  PROVE  /\ ByteError(c) \in Nat
         /\ \A i \in Slot : SlotError(c, i) \in Nat
                           /\ SlotError(c, i) <= ByteError(c)
BY DEF ByteError, SlotError

LEMMA ReadingsAreInts ==
  ASSUME NEW v \in Readings
  PROVE  v \in SensorRange /\ v \in Int /\ v # NoReading
<1>1. v \in SensorRange
  BY TempreaderConstants
<1>2. v \in Int
  BY <1>1 DEF SensorRange
<1>. QED  BY <1>1, <1>2, TempreaderConstants

LEMMA WindowsAreInts ==
  ASSUME TypeOK, NEW c \in Channel, NEW i \in Slot
  PROVE  runavg[c][i] \in Int
<1>1. runavg[c][i] \in Int16
  BY DEF TypeOK, TempreaderTypeOK
<1>. QED  BY <1>1 DEF Int16

LEMMA TruthfulReport ==
  ASSUME TypeOK, InRange, Truthful
  PROVE  ReportsAreMeasured
<1>. SUFFICES ASSUME AllRead, WindowsFull, NEW c \in Channel, Working(c)
              PROVE  /\ \A i \in Slot : truth[c][i] # NoReading
                     /\ NewMin(c) <= Mean(truth[c]) + ByteError(c)
                     /\ NewMin(c) >= Mean(truth[c]) - ByteError(c) - H_DELTA
  BY DEF ReportsAreMeasured
<1>1. \A i \in Slot : i <= Reads(c)
  BY TempreaderConstants
     DEF AllRead, WindowsFull, Slot, Reads, Channel
<1>11. \A i \in Slot :
        /\ truth[c][i] \in Readings
        /\ runavg[c][i] <= truth[c][i] + SlotError(c, i)
        /\ truth[c][i] <= runavg[c][i] + SlotError(c, i)
  BY <1>1 DEF Truthful
<1>3. \A i \in Slot : truth[c][i] \in Int /\ runavg[c][i] \in Int
  BY <1>11, ReadingsAreInts, WindowsAreInts
<1>2. \A i \in Slot :
        /\ truth[c][i] \in Readings
        /\ runavg[c][i] <= truth[c][i] + ByteError(c)
        /\ truth[c][i] <= runavg[c][i] + ByteError(c)
  BY <1>3, <1>11, ByteErrorBounds
<1>4. \A i \in Slot : truth[c][i] # NoReading
  BY <1>2, ReadingsAreInts
<1>. DEFINE avg  == Mean(runavg[c])
            real == Mean(truth[c])
            e    == ByteError(c)
<1>5. e \in Nat
  BY ByteErrorBounds
<1>6. avg \in Int /\ real \in Int /\ avg <= real + e
  BY <1>2, <1>3, <1>5, Close
<1>7. real <= avg + e
  BY <1>2, <1>3, <1>5, Close
<1>8. /\ h_min[c] \in Int /\ h_max[c] = h_min[c] + H_DELTA
      /\ H_DELTA \in Int /\ 0 <= H_DELTA
  BY TempreaderConstants DEF InRange, Measured
<1>9. NewMin(c) = IF avg > h_max[c] THEN avg - H_DELTA
                  ELSE IF avg < h_min[c] THEN avg
                  ELSE h_min[c]
  BY DEF NewMin
<1>. HIDE DEF avg, real, e
<1>10. NewMin(c) <= real + e /\ NewMin(c) >= real - e - H_DELTA
  BY <1>5, <1>6, <1>7, <1>8, <1>9
<1>. QED  BY <1>4, <1>10 DEF real, e

LEMMA TruthfulInit == Init => Truthful
<1>. SUFFICES ASSUME Init, NEW c \in Channel, NEW i \in Slot
              PROVE  ~(i <= Reads(c))
  BY DEF Truthful
<1>. QED  BY DEF Init, TempreaderInit, Reads, Slot

\* A step that leaves the windows alone.
LEMMA TruthfulKept ==
  ASSUME Truthful, UNCHANGED <<runavg, truth, mixed>>,
         \A c \in Channel : Working(c)' => Working(c),
         \A c \in Channel, i \in Slot : Working(c)' /\ i <= Reads(c)' => i <= Reads(c)
  PROVE  Truthful'
BY DEF Truthful, SlotError

LEMMA TruthfulRead ==
  ASSUME TypeOK, InRange, Truthful, ReadSensor
  PROVE  Truthful'
<1>1. PICK early \in Readings, value \in Readings :
        /\ \/ rxlow' = Low(value) /\ UNCHANGED faults
           \/ rxlow' = Low(early) /\ Fault
           \/ UNCHANGED rxlow /\ Fault
        /\ res' = Combined(value, rxlow')
        /\ truth' = [truth EXCEPT ![ch] = Shifted(@, value)]
        /\ mixed' = [mixed EXCEPT ![ch] = Shifted(@, rxlow' # Low(value))]
  BY DEF ReadSensor
<1>2. /\ ch \in Channel /\ ch' = ch + 1 /\ tr_pc = "loop"
      /\ runavg' = [runavg EXCEPT ![ch] = Shifted(@, res')]
      /\ UNCHANGED <<tr_pc, sensorstate, runavg_size>>
      /\ sensorstate[ch] # "ERROR"
  BY TempreaderConstants DEF ReadSensor, Reading, Channel, TypeOK, TempreaderTypeOK
<1>3. /\ truth \in [Channel -> [Slot -> Readings \cup {NoReading}]]
      /\ runavg \in [Channel -> [Slot -> Int16]]
      /\ mixed \in [Channel -> [Slot -> BOOLEAN]]
      /\ runavg_size \in Int
  BY DEF TypeOK, TempreaderTypeOK
<1>. DEFINE e == IF rxlow' # Low(value) THEN 255 ELSE 0
<1>5. res' <= value + e /\ value <= res' + e
  <2>1. value \in SensorRange /\ value \in Int /\ early \in SensorRange
        /\ rxlow \in 0 .. 255
    BY ReadingsAreInts DEF TypeOK, TempreaderTypeOK
  <2>2. CASE rxlow' = Low(value)
    <3>1. res' = value
      BY <1>1, <2>1, <2>2, LowIsByte, CombinedMeasured
    <3>2. e = 0
      BY <2>2
    <3>. HIDE DEF e
    <3>. QED  BY <2>1, <3>1, <3>2
  <2>3. CASE rxlow' # Low(value)
    <3>1. rxlow' \in 0 .. 255
      BY <1>1, <2>1, LowIsByte
    <3>2. /\ Combined(value, rxlow') <= value + 255
          /\ value <= Combined(value, rxlow') + 255
      BY <2>1, <3>1, CombinedMeasured
    <3>3. e = 255
      BY <2>3
    <3>. HIDE DEF e
    <3>. QED  BY <1>1, <3>2, <3>3
  <2>. QED  BY <2>2, <2>3
<1>. HIDE DEF e
<1>. SUFFICES ASSUME NEW c \in Channel, Working(c)', NEW i \in Slot, i <= Reads(c)'
              PROVE  /\ truth'[c][i] \in Readings
                     /\ runavg'[c][i] <= truth'[c][i] + SlotError(c, i)'
                     /\ truth'[c][i] <= runavg'[c][i] + SlotError(c, i)'
  BY DEF Truthful
<1>6. CASE c # ch
  <2>1. truth'[c] = truth[c] /\ runavg'[c] = runavg[c] /\ mixed'[c] = mixed[c]
    BY <1>1, <1>2, <1>3, <1>6
  <2>2. i <= Reads(c) /\ Working(c)
    BY <1>2, <1>6 DEF Reads, Working, Channel
  <2>3. /\ truth[c][i] \in Readings
        /\ runavg[c][i] <= truth[c][i] + SlotError(c, i)
        /\ truth[c][i] <= runavg[c][i] + SlotError(c, i)
    BY <2>2 DEF Truthful
  <2>. QED  BY <2>1, <2>3 DEF SlotError
<1>7. CASE c = ch /\ i = 1
  <2>1. /\ truth'[c][i] = value /\ runavg'[c][i] = res'
        /\ mixed'[c][i] = (rxlow' # Low(value))
    BY <1>1, <1>2, <1>3, <1>7 DEF Shifted
  <2>2. SlotError(c, i)' = e
    BY <2>1 DEF SlotError, e
  <2>. QED  BY <1>5, <2>1, <2>2
<1>8. CASE c = ch /\ i # 1
  <2>1. i - 1 \in Slot
    BY <1>8, TempreaderConstants DEF Slot
  <2>2. /\ truth'[c][i] = truth[c][i - 1] /\ runavg'[c][i] = runavg[c][i - 1]
        /\ mixed'[c][i] = mixed[c][i - 1]
    BY <1>1, <1>2, <1>3, <1>8 DEF Shifted
  <2>3. i - 1 <= Reads(c) /\ Working(c)
    BY <1>2, <1>3, <1>8, TempreaderConstants DEF Reads, Working, Channel, Slot
  <2>4. /\ truth[c][i - 1] \in Readings
        /\ runavg[c][i - 1] <= truth[c][i - 1] + SlotError(c, i - 1)
        /\ truth[c][i - 1] <= runavg[c][i - 1] + SlotError(c, i - 1)
    BY <2>1, <2>3 DEF Truthful
  <2>5. SlotError(c, i)' = SlotError(c, i - 1)
    BY <2>2 DEF SlotError
  <2>. QED  BY <2>2, <2>4, <2>5
<1>. QED  BY <1>6, <1>7, <1>8

LEMMA TruthfulStep == TypeOK /\ InRange /\ Truthful /\ [Next]_vars => Truthful'
<1>. SUFFICES ASSUME TypeOK, InRange, Truthful, [Next]_vars PROVE Truthful'
  OBVIOUS
<1>0. /\ runavg_size \in Nat /\ runavg_size <= RUNNING_AVG_FIFO_SIZE
      /\ RUNNING_AVG_FIFO_SIZE \in Nat
      /\ CHANNEL_NUM \in Nat /\ ch \in Nat /\ ch <= CHANNEL_NUM
      /\ tr_pc \in {"init", "loop"}
      /\ \A c \in Channel : c \in Nat /\ c < CHANNEL_NUM
      /\ \A i \in Slot : i \in Nat /\ i <= RUNNING_AVG_FIFO_SIZE
  BY TempreaderConstants DEF TypeOK, TempreaderTypeOK, Channel, Slot
<1>. DEFINE Kept == /\ UNCHANGED <<runavg, truth, mixed>>
                    /\ \A c \in Channel : Working(c)' => Working(c)
                    /\ \A c \in Channel, i \in Slot :
                         Working(c)' /\ i <= Reads(c)' => i <= Reads(c)
<1>1. CASE ConfigureSensor \/ StartTimer
  <2>1. UNCHANGED <<runavg, truth, mixed, runavg_size>>
    BY <1>1 DEF ConfigureSensor, StartTimer, SensorFails, windows
  <2>2. \A c \in Channel : Working(c)' => Working(c)
    BY <1>1 DEF ConfigureSensor, StartTimer, SensorFails, Working,
                TypeOK, TempreaderTypeOK
  <2>3. \A c \in Channel : Reads(c)' <= Reads(c)
    BY <1>0, <1>1, <2>1 DEF ConfigureSensor, StartTimer, Reads
  <2>4. \A c \in Channel : Reads(c) \in Nat /\ Reads(c)' \in Nat
    BY <1>0, <2>1 DEF Reads
  <2>5. Kept
    BY <1>0, <2>1, <2>2, <2>3, <2>4
  <2>. QED  BY <2>5, TruthfulKept
<1>2. CASE ReadSensor
  BY <1>2, TruthfulRead
<1>3. CASE ReadFails
  <2>1. UNCHANGED <<runavg, truth, mixed, runavg_size, tr_pc>> /\ ch' = ch + 1
    BY <1>3 DEF ReadFails, SensorFails, windows
  <2>2. \A c \in Channel : Working(c)' => Working(c) /\ c # ch
    BY <1>3 DEF ReadFails, SensorFails, Working, TypeOK, TempreaderTypeOK
  <2>3. \A c \in Channel : c # ch => Reads(c)' = Reads(c)
    BY <1>0, <2>1 DEF Reads
  <2>4. Kept
    BY <2>1, <2>2, <2>3
  <2>. QED  BY <2>4, TruthfulKept
<1>4. CASE ReadDeadChannel
  <2>1. /\ UNCHANGED <<sensorstate, runavg_size, tr_pc>> /\ ch' = ch + 1
        /\ sensorstate[ch] = "ERROR"
        /\ \A c \in Channel : c # ch => /\ truth'[c] = truth[c]
                                        /\ runavg'[c] = runavg[c]
                                        /\ mixed'[c] = mixed[c]
    BY <1>4 DEF ReadDeadChannel, TypeOK, TempreaderTypeOK
  <2>2. \A c \in Channel : Working(c)' => Working(c) /\ c # ch
    BY <2>1 DEF Working
  <2>3. \A c \in Channel : c # ch => Reads(c)' = Reads(c)
    BY <1>0, <2>1 DEF Reads
  <2>. QED  BY <2>1, <2>2, <2>3 DEF Truthful, SlotError
<1>5. CASE FillWindow
  <2>1. /\ UNCHANGED <<runavg, truth, mixed, tr_pc, sensorstate>> /\ ch' = 0
        /\ runavg_size' = runavg_size + 1 /\ tr_pc = "loop" /\ ch = CHANNEL_NUM
    BY <1>5 DEF FillWindow, AllRead
  <2>2. \A c \in Channel : Working(c)' => Working(c)
    BY <2>1 DEF Working
  <2>3. \A c \in Channel : Reads(c)' = Reads(c)
    BY <1>0, <2>1 DEF Reads
  <2>4. Kept
    BY <2>1, <2>2, <2>3
  <2>. QED  BY <2>4, TruthfulKept
<1>6. CASE PostSample \/ SkipSample
  <2>1. /\ UNCHANGED <<runavg, truth, mixed, runavg_size>>
        /\ runavg_size = RUNNING_AVG_FIFO_SIZE
    BY <1>6 DEF PostSample, SkipSample, WindowsFull, windows
  <2>2. \A c \in Channel : Working(c)' => Working(c)
    BY <1>6 DEF PostSample, SkipSample, Working, TypeOK, TempreaderTypeOK
  <2>3. \A c \in Channel, i \in Slot : i <= Reads(c)
    BY <1>0, <2>1 DEF Reads
  <2>4. Kept
    BY <2>1, <2>2, <2>3
  <2>. QED  BY <2>4, TruthfulKept
<1>7. CASE TakeSample \/ UNCHANGED vars
  BY <1>7 DEF TakeSample, vars, tempreader, windows, Truthful, Working, Reads,
              SlotError
<1>. QED  BY <1>1, <1>2, <1>3, <1>4, <1>5, <1>6, <1>7
          DEF Next, Read, Threadtempreader

\* What is reported of a working channel is close to what its sensor really
\* measured in the last passes (tempreader.c 133-186).
THEOREM ReportsCorrect == Spec => []ReportsAreMeasured
<1>1. TypeOK /\ InRange /\ Truthful => ReportsAreMeasured
  BY TruthfulReport
<1>. QED  BY <1>1, TruthfulInit, TruthfulStep, TypeCorrect, PTL DEF Spec

\* A report leaves the last one only at an edge of the mean (tempreader.c
\* 172-186).
THEOREM SteadyReportsHold == Spec => SteadyReports
<1>1. ASSUME TypeOK, InRange, [Next]_vars, NEW c \in Channel
      PROVE  /\ prev_temp'[c] > prev_temp[c] =>
                  Mean(runavg[c]) = prev_temp'[c] + H_DELTA
             /\ prev_temp'[c] < prev_temp[c] => Mean(runavg[c]) = prev_temp'[c]
  <2>1. /\ prev_temp[c] \in Int /\ prev_temp[c] = h_min[c]
        /\ h_max[c] = h_min[c] + H_DELTA /\ H_DELTA \in Int /\ 0 <= H_DELTA
    BY <1>1, TempreaderConstants DEF InRange, Measured
  <2>2. CASE PostSample
    <3>. DEFINE avg == Mean(runavg[c])
    <3>1. avg \in Int
      BY <1>1, NewBand DEF Measured
    <3>2. prev_temp'[c] = IF avg > h_max[c] THEN avg - H_DELTA
                          ELSE IF avg < h_min[c] THEN avg
                          ELSE h_min[c]
      BY <1>1, <2>2 DEF PostSample, NewMin
    <3>. HIDE DEF avg
    <3>3. /\ prev_temp'[c] > prev_temp[c] => avg = prev_temp'[c] + H_DELTA
          /\ prev_temp'[c] < prev_temp[c] => avg = prev_temp'[c]
      BY <2>1, <3>1, <3>2
    <3>. QED  BY <3>3 DEF avg
  <2>3. CASE UNCHANGED prev_temp
    BY <2>1, <2>3
  <2>4. PostSample \/ UNCHANGED prev_temp
    BY <1>1 DEF Next, Read, Threadtempreader, ConfigureSensor, StartTimer,
                ReadSensor, ReadFails, ReadDeadChannel, FillWindow, SkipSample,
                TakeSample, vars, tempreader, hysteresis
  <2>. QED  BY <2>2, <2>3, <2>4
<1>2. TypeOK /\ InRange /\ [Next]_vars =>
        [\A c \in Channel :
          /\ prev_temp'[c] > prev_temp[c] =>
               Mean(runavg[c]) = prev_temp'[c] + H_DELTA
          /\ prev_temp'[c] < prev_temp[c] => Mean(runavg[c]) = prev_temp'[c]]_vars
  BY <1>1
<1>. QED  BY <1>2, TypeCorrect, PTL DEF Spec, SteadyReports

-----------------------------------------------------------------------------
(***************************************************************************)
(* The samples on their way.                                               *)
(***************************************************************************)
\* The k-th sample after the one the regulator has.
Stage(k) == IF k = 0 THEN curr_temp ELSE tempFIFO[k]

\* Each sample goes on from the one before, and the next report from the last.
Chained ==
  /\ \A k \in 1 .. Len(tempFIFO) : \A c \in Channel :
       Stage(k).dtemp[c] = Stage(k).temp[c] - Stage(k - 1).temp[c]
  /\ \A c \in Channel : Stage(Len(tempFIFO)).temp[c] = prev_temp[c]

LEMMA ChainedInit == Init => Chained
<1>. SUFFICES ASSUME Init PROVE Chained
  OBVIOUS
<1>1. Len(tempFIFO) = 0
  BY DEF Init, TempreaderInit
<1>2. \A c \in Channel : Stage(0).temp[c] = prev_temp[c]
  BY DEF Stage, Init, TempreaderInit, Zeros
<1>. QED  BY <1>1, <1>2 DEF Chained

LEMMA ChainedPost ==
  ASSUME TypeOK, InRange, Chained, PostSample, UNCHANGED curr_temp
  PROVE  Chained'
<1>0. PICK n \in Nat : n = Len(tempFIFO)
  BY DEF TypeOK, TempreaderTypeOK
<1>1. tempFIFO \in Seq(Sample) /\ Report \in Sample
  BY ReportIsSample DEF TypeOK, TempreaderTypeOK
<1>2. tempFIFO' = Append(tempFIFO, Report) /\ curr_temp' = curr_temp
  BY DEF PostSample
<1>3. Len(tempFIFO') = n + 1 /\ tempFIFO'[n + 1] = Report
      /\ \A k \in 1 .. n : tempFIFO'[k] = tempFIFO[k]
  BY <1>0, <1>1, <1>2
<1>4. \A k \in 0 .. n : Stage(k)' = Stage(k)
  BY <1>0, <1>1, <1>2, <1>3 DEF Stage
<1>5. Stage(n + 1)' = Report
  BY <1>0, <1>1, <1>3 DEF Stage
<1>6. \A c \in Channel : Stage(n).temp[c] = prev_temp[c]
  BY <1>0 DEF Chained
<1>7. \A c \in Channel : /\ prev_temp'[c] = NewMin(c)
                         /\ Report.temp[c] = NewMin(c)
                         /\ Report.dtemp[c] = NewMin(c) - prev_temp[c]
  BY DEF PostSample, Report
<1>8. ASSUME NEW k \in 1 .. n + 1, NEW c \in Channel
      PROVE  Stage(k)'.dtemp[c] = Stage(k)'.temp[c] - Stage(k - 1)'.temp[c]
  <2>1. CASE k = n + 1
    <3>1. k - 1 = n /\ n \in 0 .. n
      BY <1>1, <2>1
    <3>2. Stage(k)' = Report /\ Stage(k - 1)' = Stage(n)
      BY <1>4, <1>5, <2>1, <3>1
    <3>. QED  BY <1>6, <1>7, <3>2
  <2>2. CASE k \in 1 .. n
    <3>1. k \in 0 .. n /\ k - 1 \in 0 .. n
      BY <1>1, <2>2
    <3>2. Stage(k)' = Stage(k) /\ Stage(k - 1)' = Stage(k - 1)
      BY <1>4, <3>1
    <3>. QED  BY <1>0, <2>2, <3>2 DEF Chained
  <2>. QED  BY <1>1, <2>1, <2>2
<1>9. \A c \in Channel : Stage(n + 1)'.temp[c] = prev_temp'[c]
  BY <1>5, <1>7
<1>. QED  BY <1>3, <1>8, <1>9 DEF Chained

\* The oldest sample becomes that of the regulator.
LEMMA ChainedTake ==
  ASSUME TypeOK, Chained, TakeSample
  PROVE  /\ Chained'
         /\ \A c \in Channel :
              curr_temp'.dtemp[c] = curr_temp'.temp[c] - curr_temp.temp[c]
<1>0. PICK n \in Nat : n = Len(tempFIFO)
  BY DEF TypeOK, TempreaderTypeOK
<1>1. tempFIFO \in Seq(Sample) /\ n >= 1
  BY <1>0 DEF TakeSample, TypeOK, TempreaderTypeOK
<1>2. curr_temp' = tempFIFO[1] /\ tempFIFO' = Tail(tempFIFO) /\ prev_temp' = prev_temp
  BY <1>1 DEF TakeSample, tempreader, hysteresis
<1>3. Len(tempFIFO') = n - 1 /\ \A k \in 1 .. n - 1 : tempFIFO'[k] = tempFIFO[k + 1]
  BY <1>0, <1>1, <1>2
<1>4. \A k \in 0 .. n - 1 : Stage(k)' = Stage(k + 1)
  BY <1>0, <1>1, <1>2, <1>3 DEF Stage
<1>5. \A k \in 1 .. n : \A c \in Channel :
        Stage(k).dtemp[c] = Stage(k).temp[c] - Stage(k - 1).temp[c]
  BY <1>0 DEF Chained
<1>6. ASSUME NEW k \in 1 .. n - 1, NEW c \in Channel
      PROVE  Stage(k)'.dtemp[c] = Stage(k)'.temp[c] - Stage(k - 1)'.temp[c]
  <2>1. k \in 0 .. n - 1 /\ k - 1 \in 0 .. n - 1 /\ k + 1 \in 1 .. n
        /\ (k - 1) + 1 = k /\ (k + 1) - 1 = k
    BY <1>1
  <2>2. Stage(k)' = Stage(k + 1) /\ Stage(k - 1)' = Stage(k)
    BY <1>4, <2>1
  <2>3. Stage(k + 1).dtemp[c] = Stage(k + 1).temp[c] - Stage((k + 1) - 1).temp[c]
    BY <1>5, <2>1
  <2>. QED  BY <2>1, <2>2, <2>3
<1>7. \A c \in Channel : Stage(n - 1)'.temp[c] = prev_temp'[c]
  <2>1. n - 1 \in 0 .. n - 1 /\ (n - 1) + 1 = n
    BY <1>1
  <2>2. Stage(n - 1)' = Stage(n)
    BY <1>4, <2>1
  <2>. QED  BY <1>0, <1>2, <2>2 DEF Chained
<1>8. \A c \in Channel :
        curr_temp'.dtemp[c] = curr_temp'.temp[c] - curr_temp.temp[c]
  <2>1. 1 \in 1 .. n /\ Stage(1) = curr_temp' /\ Stage(1 - 1) = curr_temp
    BY <1>0, <1>1, <1>2 DEF Stage
  <2>. QED  BY <1>5, <2>1
<1>. QED  BY <1>3, <1>6, <1>7, <1>8 DEF Chained

LEMMA OtherSteps ==
  ASSUME [Next]_vars, ~PostSample, ~TakeSample
  PROVE  UNCHANGED <<tempFIFO, prev_temp, curr_temp>>
BY DEF Next, Read, Threadtempreader, ConfigureSensor, StartTimer, ReadSensor,
       ReadFails, ReadDeadChannel, FillWindow, SkipSample, vars, tempreader,
       hysteresis

LEMMA ChainedStep ==
  TypeOK /\ InRange /\ Chained /\ [Next]_vars => Chained'
<1>. SUFFICES ASSUME TypeOK, InRange, Chained, [Next]_vars PROVE Chained'
  OBVIOUS
<1>1. CASE TakeSample
  BY <1>1, ChainedTake
<1>2. CASE PostSample /\ ~TakeSample
  <2>1. UNCHANGED curr_temp
    BY <1>2 DEF Next, Read, vars
  <2>. QED  BY <1>2, <2>1, ChainedPost
<1>3. CASE ~PostSample /\ ~TakeSample
  BY <1>3, OtherSteps DEF Chained, Stage
<1>. QED  BY <1>1, <1>2, <1>3

\* The changes of temperature that the regulator gets add up to the
\* temperature, also when samples were skipped (tempreader.c 160-186).
THEOREM SlopesAddUpHolds == Spec => SlopesAddUp
<1>1. Spec => []Chained
  BY ChainedInit, ChainedStep, TypeCorrect, PTL DEF Spec
<1>2. TypeOK /\ Chained /\ [Next]_vars =>
        [\A c \in Channel : curr_temp' # curr_temp =>
          curr_temp'.dtemp[c] = curr_temp'.temp[c] - curr_temp.temp[c]]_vars
  <2>. SUFFICES ASSUME TypeOK, Chained, [Next]_vars, curr_temp' # curr_temp,
                       NEW c \in Channel
                PROVE  curr_temp'.dtemp[c] = curr_temp'.temp[c] - curr_temp.temp[c]
    OBVIOUS
  <2>1. TakeSample
    BY DEF Next, Read, vars
  <2>. QED  BY <2>1, ChainedTake
<1>. QED  BY <1>1, <1>2, TypeCorrect, PTL DEF Spec, SlopesAddUp

\* A rule fires for every sample that can reach the regulator: no division by
\* zero, and no FUZZY_LOGIC_ERR_MSG (regulator.c 284-317).
THEOREM ControlIsTotalHolds == Spec => ControlIsTotal
<1>1. TypeOK' =>
        [curr_temp' # curr_temp =>
          \A s \in {curr_temp'}, c \in Channel :
            /\ ~RuleError(s.temp[c], s.dtemp[c])
            /\ SumWeight(Rules(s.temp[c], s.dtemp[c])) > 0]_vars
  <2>. SUFFICES ASSUME TypeOK', NEW c \in Channel
                PROVE  /\ ~RuleError(curr_temp'.temp[c], curr_temp'.dtemp[c])
                       /\ SumWeight(Rules(curr_temp'.temp[c], curr_temp'.dtemp[c])) > 0
    OBVIOUS
  <2>1. curr_temp'.temp[c] \in Int16 /\ curr_temp'.dtemp[c] \in Int16
    BY DEF TypeOK, Sample
  <2>2. curr_temp'.temp[c] \in Int /\ curr_temp'.dtemp[c] \in Int
    BY <2>1 DEF Int16
  <2>. QED  BY <2>2, DutyIsAPercentage
<1>. QED  BY <1>1, TypeCorrect, PTL DEF Spec, ControlIsTotal

\* Of two channels whose temperatures change alike, the hotter one is not
\* heated harder by more than the percent that rounding can cost the colder
\* one, up to the sterile range: what the tempreader can report is in the
\* range of the control law's monotony (regulator.c 265-317).
THEOREM HotterIsHeatedLessHolds == Spec => HotterIsHeatedLess
<1>1. TypeOK' =>
        [curr_temp' # curr_temp =>
          \A s \in {curr_temp'}, c, d \in Channel :
            /\ s.dtemp[c] = s.dtemp[d]
            /\ s.temp[c] < s.temp[d]
            /\ s.temp[d] < 14592
            => \A x \in dutycycle(s, c), y \in dutycycle(s, d) :
                 y <= x + PWM_STEP]_vars
  <2>. SUFFICES ASSUME TypeOK',
                       NEW s \in {curr_temp'}, NEW c \in Channel, NEW d \in Channel,
                       s.dtemp[c] = s.dtemp[d],
                       s.temp[c] < s.temp[d],
                       s.temp[d] < 14592,
                       NEW x \in dutycycle(s, c), NEW y \in dutycycle(s, d)
                PROVE  y <= x + PWM_STEP
    OBVIOUS
  <2>1. s \in Sample
    BY DEF TypeOK
  <2>2. s.temp[c] \in Int /\ s.temp[d] \in Int /\ s.dtemp[d] \in Int
    BY <2>1 DEF Sample, Int16
  <2>3. /\ x \in defuzzyfication(s.temp[c], s.dtemp[d])
        /\ y \in defuzzyfication(s.temp[d], s.dtemp[d])
    BY DEF dutycycle
  <2>4. s.temp[c] <= s.temp[d]
    BY <2>2
  <2>. QED  BY <2>2, <2>3, <2>4, HotterNeedsLess
<1>. QED  BY <1>1, TypeCorrect, PTL DEF Spec, HotterIsHeatedLess

\* Wax is called sterile only if every working sensor really measured more
\* than STERILE_TEMP in the mean of the window, but for low bytes of another
\* measurement (tempreader.c 136-148, 171-183): the hysteresis reports the
\* lower end of its band, and never makes wax sterile that is not.
SterileIsMeasured ==
  [][PostSample /\ Report.is_sterile =>
       \A c \in Channel :
         Working(c) => Mean(truth[c]) > STERILE_TEMP - ByteError(c)]_vars

LEMMA TruthIsInt ==
  ASSUME TypeOK, Truthful, AllRead, WindowsFull, NEW c \in Channel, Working(c)
  PROVE  Mean(truth[c]) \in Int
<1>1. \A i \in Slot : i <= Reads(c)
  BY TempreaderConstants DEF AllRead, WindowsFull, Slot, Reads, Channel
<1>2. \A i \in Slot : truth[c][i] \in Readings
  BY <1>1 DEF Truthful
<1>3. \A i \in Slot : truth[c][i] \in Int /\ truth[c][i] <= truth[c][i] + 0
  BY <1>2, ReadingsAreInts
<1>. QED  BY <1>3, Close

THEOREM SterileIsMeasuredHolds == Spec => SterileIsMeasured
<1>1. TypeOK /\ InRange /\ Truthful /\ ReportsAreMeasured =>
        [PostSample /\ Report.is_sterile =>
           \A c \in Channel :
             Working(c) => Mean(truth[c]) > STERILE_TEMP - ByteError(c)]_vars
  <2>. SUFFICES ASSUME TypeOK, InRange, Truthful, ReportsAreMeasured,
                       PostSample,
                       Report.is_sterile,
                       NEW c \in Channel, Working(c)
                PROVE  Mean(truth[c]) > STERILE_TEMP - ByteError(c)
    OBVIOUS
  <2>. DEFINE real == Mean(truth[c])
  <2>1. AllRead /\ WindowsFull
    BY DEF PostSample
  <2>2. NewMin(c) > STERILE_TEMP
    BY DEF Report
  <2>3. NewMin(c) <= real + ByteError(c)
    BY <2>1 DEF ReportsAreMeasured
  <2>4. real \in Int /\ NewMin(c) \in Int
    BY <2>1, TruthIsInt, NewBand DEF Measured
  <2>5. STERILE_TEMP \in Int
    BY TempreaderConstants DEF SensorRange
  <2>. HIDE DEF real
  <2>6. real > STERILE_TEMP - ByteError(c)
    BY <2>2, <2>3, <2>4, <2>5, ByteErrorBounds
  <2>. QED  BY <2>6 DEF real
<1>. QED  BY <1>1, TypeCorrect, ReportsCorrect, TruthfulInit, TruthfulStep, PTL
          DEF Spec, SterileIsMeasured
=============================================================================
