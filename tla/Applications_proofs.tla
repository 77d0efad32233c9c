--------------------------- MODULE Applications_proofs ---------------------------
(***************************************************************************)
(* Proofs about the small applications, which share no state: the decoding  *)
(* of RDS time, and the tools that set up the radio.                        *)
(***************************************************************************)
EXTENDS RdsTime, RadioTools, TLAPS

-------------------------------------------------------------------------------
(* RdsTime: the formula names the calendar's day for every date it can meet. *)

(* The calendar whose year begins in March: the year, the formula's number of
   the month, and the days of the months before, with the formula's offset. *)
MarchYear == IF month <= 2 THEN year - 1 ELSE year
MarchMonth == IF month <= 2 THEN month + 13 ELSE month + 1
DaysBefore(mon) == ((IF mon <= 2 THEN mon + 13 ELSE mon + 1) * 306001) \div 10000

Calendar ==
  /\ mjd \in Int /\ day \in Int /\ month \in 1 .. 12 /\ year \in Int
  /\ 1 <= day /\ day <= DaysIn(month, year)
  /\ 0 <= MarchYear
  /\ mjd = 14956 + DaysOfYears(MarchYear) + DaysBefore(month) + day

(* What the formula takes for the days before each month. *)
LEMMA MonthDays ==
  /\ DaysBefore(3) = 122 /\ DaysBefore(4) = 153 /\ DaysBefore(5) = 183
  /\ DaysBefore(6) = 214 /\ DaysBefore(7) = 244 /\ DaysBefore(8) = 275
  /\ DaysBefore(9) = 306 /\ DaysBefore(10) = 336 /\ DaysBefore(11) = 367
  /\ DaysBefore(12) = 397 /\ DaysBefore(1) = 428 /\ DaysBefore(2) = 459
  BY SMT DEF DaysBefore

(* Every fourth year of 365 days has one more. *)
LEMMA YearDays ==
  ASSUME NEW yp \in Int
  PROVE  /\ DaysOfYears(yp) \in Int
         /\ DaysOfYears(yp) = 365 * yp + yp \div 4
         /\ yp = 4 * (yp \div 4) + (yp % 4)
         /\ yp \div 4 \in Int /\ yp % 4 \in 0 .. 3
<1>1. PICK q \in Int, r \in 0 .. 3 : q = yp \div 4 /\ r = yp % 4 /\ yp = 4 * q + r
  BY SMT
<1>2. yp * 36525 = 100 * (365 * yp + q) + 25 * r
  BY <1>1, SMT
<1>3. (100 * (365 * yp + q) + 25 * r) \div 100 = 365 * yp + q
  BY <1>1, SMT
<1>4. 365 * yp + q \in Int
  BY <1>1, SMT
<1>5. DaysOfYears(yp) = 365 * yp + q
  BY <1>2, <1>3 DEF DaysOfYears
<1>6. DaysOfYears(yp) \in Int
  BY <1>4, <1>5
<1>7. DaysOfYears(yp) = 365 * yp + yp \div 4
  BY <1>1, <1>5
<1>8. /\ yp = 4 * (yp \div 4) + (yp % 4)
      /\ yp \div 4 \in Int /\ yp % 4 \in 0 .. 3
  BY SMT
<1> QED
  BY <1>6, <1>7, <1>8

(* The formula finds the year that began in March, n days after its offset. *)
LEMMA YearFound ==
  ASSUME NEW yp \in Int, NEW n \in Int, 123 <= n,
         n <= 487 \/ (n <= 488 /\ yp % 4 = 3)
  PROVE  Yp(14956 + DaysOfYears(yp) + n) = yp
<1> DEFINE rest == 100 * n - 12220 - 25 * (yp % 4)
<1>1. PICK d \in Int, q \in Int, r \in 0 .. 3 :
        d = DaysOfYears(yp) /\ r = yp % 4 /\ d = 365 * yp + q /\ yp = 4 * q + r
  <2> WITNESS DaysOfYears(yp) \in Int, yp \div 4 \in Int, yp % 4 \in 0 .. 3
  <2> QED
    BY YearDays
<1>2. rest \in Int /\ 0 <= rest /\ rest < 36525
  BY <1>1, SMT
<1>3. 100 * (14956 + d + n) - 1507820 = 36525 * yp + rest
  BY <1>1, SMT
<1>4. (36525 * yp + rest) \div 36525 = yp
  BY <1>2, SMT
<1> QED
  BY <1>1, <1>3, <1>4 DEF Yp

(* Within that year it finds the month. *)
LEMMA MonthFound ==
  ASSUME NEW mon \in 1 .. 12, NEW d \in Int, 1 <= d,
         d <= IF mon = 2 THEN 29 ELSE IF mon \in {4, 6, 9, 11} THEN 30 ELSE 31
  PROVE  ((10 * (DaysBefore(mon) + d) - 1) * 1000) \div 306001
           = IF mon <= 2 THEN mon + 13 ELSE mon + 1
  BY MonthDays, SMT

(* The date that the calendar shows is the one that the formula names. *)
LEMMA CalendarDecodes == Calendar => DecodesToday
<1> SUFFICES ASSUME Calendar PROVE DecodesToday
  OBVIOUS
<1> DEFINE yp == MarchYear
           n == DaysBefore(month) + day
<1>1. /\ month \in 1 .. 12 /\ day \in Int /\ year \in Int /\ 1 <= day /\ yp \in Int
      /\ day <= IF month = 2 THEN 29 ELSE IF month \in {4, 6, 9, 11} THEN 30 ELSE 31
      /\ month = 2 /\ day = 29 => year % 4 = 0
  BY SMT DEF Calendar, DaysIn, MarchYear
<1>2. DaysBefore(month) \in Int
  BY <1>1, MonthDays, SMT
<1>3. 123 <= n /\ (n <= 487 \/ (n <= 488 /\ yp % 4 = 3))
  <2>1. CASE month = 2
    <3>1. DaysBefore(month) = 459 /\ yp = year - 1
      BY <2>1, MonthDays, SMT DEF MarchYear
    <3> QED
      BY <1>1, <2>1, <3>1, SMT
  <2>2. CASE month # 2
    BY <1>1, <2>2, MonthDays, SMT
  <2> QED
    BY <2>1, <2>2
<1>4. mjd = 14956 + DaysOfYears(yp) + n /\ n \in Int
  BY <1>1, <1>2, YearDays, SMT DEF Calendar
<1>5. Yp(mjd) = yp
  <2> HIDE DEF n, yp
  <2> QED
    BY <1>1, <1>3, <1>4, YearFound
<1>6. Mp(mjd) = IF month <= 2 THEN month + 13 ELSE month + 1
  <2>1. 10 * (mjd - DaysOfYears(Yp(mjd))) - 149561 = 10 * n - 1
    <3>1. DaysOfYears(yp) \in Int
      BY <1>1, YearDays
    <3> HIDE DEF n, yp
    <3> QED
      BY <1>4, <1>5, <3>1, SMT
  <2>2. Mp(mjd) = ((10 * n - 1) * 1000) \div 306001
    BY <2>1 DEF Mp
  <2> QED
    BY <1>1, <2>2, MonthFound
<1>7. K(mjd) = IF month <= 2 THEN 1 ELSE 0
  BY <1>1, <1>6, SMT DEF K
<1>8. MonthOf(mjd) = month
  BY <1>1, <1>6, <1>7, SMT DEF MonthOf
<1>9. YearOf(mjd) = year
  BY <1>1, <1>5, <1>7, SMT DEF YearOf, MarchYear
<1>10. DayOf(mjd) = day
  <2>1. (Mp(mjd) * 306001) \div 10000 = DaysBefore(month)
    BY <1>6 DEF DaysBefore
  <2>2. DaysOfYears(yp) \in Int
    BY <1>1, YearDays
  <2> QED
    BY <1>1, <1>2, <1>4, <1>5, <2>1, <2>2, SMT DEF DayOf
<1> QED
  BY <1>8, <1>9, <1>10 DEF DecodesToday

-------------------------------------------------------------------------------
(* The calendar keeps its count of days. *)

LEMMA InitCalendar == FirstDay => Calendar
<1> SUFFICES ASSUME FirstDay PROVE Calendar
  OBVIOUS
<1>1. DaysBefore(3) = 122
  BY MonthDays
<1>2. MarchYear = 0 /\ DaysOfYears(0) = 0
  BY SMT DEF FirstDay, MarchYear, DaysOfYears
<1> QED
  BY <1>1, <1>2, SMT DEF FirstDay, Calendar, DaysIn

LEMMA NextDayCalendar ==
  ASSUME Calendar, NextDay, mjd' = mjd + 1
  PROVE  Calendar'
<1>1. MarchYear' = MarchYear /\ month' = month /\ year' = year /\ day' = day + 1
  BY DEF NextDay, MarchYear
<1>2. MarchYear \in Int /\ DaysBefore(month) \in Int
  BY MonthDays, SMT DEF Calendar, MarchYear
<1>3. DaysOfYears(MarchYear) \in Int
  BY <1>2, YearDays
<1>4. DaysIn(month, year) \in Int
  BY SMT DEF DaysIn
<1> QED
  BY <1>1, <1>2, <1>3, <1>4, SMT DEF Calendar, NextDay

LEMMA NextMonthCalendar ==
  ASSUME Calendar, NextMonth, mjd' = mjd + 1
  PROVE  Calendar'
<1>1. month' = month + 1 /\ month \in 1 .. 11 /\ year' = year /\ day' = 1
      /\ day = DaysIn(month, year) /\ year \in Int
  BY SMT DEF Calendar, NextMonth
<1>2. 1 <= DaysIn(month', year')
  BY SMT DEF DaysIn
<1>3. CASE month = 2
  <2>1. MarchYear = year - 1 /\ MarchYear' = year /\ 0 <= year
    BY <1>1, <1>3, SMT DEF MarchYear, Calendar
  <2>2. DaysBefore(month) = 459 /\ DaysBefore(month') = 122
    BY <1>1, <1>3, MonthDays
  <2>3. DaysOfYears(year) = DaysOfYears(year - 1) + 365 + (IF year % 4 = 0 THEN 1 ELSE 0)
        /\ DaysOfYears(year - 1) \in Int
    <3>1. DaysOfYears(year) = 365 * year + year \div 4
          /\ DaysOfYears(year - 1) = 365 * (year - 1) + (year - 1) \div 4
          /\ DaysOfYears(year - 1) \in Int
      <4>1. year \in Int /\ year - 1 \in Int
        BY <1>1, SMT
      <4> QED
        BY <4>1, YearDays
    <3>2. year \div 4 = (year - 1) \div 4 + (IF year % 4 = 0 THEN 1 ELSE 0)
      BY <1>1, SMT
    <3> QED
      BY <1>1, <3>1, <3>2, SMT
  <2>4. day = 28 + (IF year % 4 = 0 THEN 1 ELSE 0)
    BY <1>1, <1>3, SMT DEF DaysIn
  <2>5. mjd = 14956 + DaysOfYears(year - 1) + 459 + day
    BY <2>1, <2>2 DEF Calendar
  <2>6. mjd' = 14956 + DaysOfYears(year) + 122 + 1
    BY <1>1, <2>3, <2>4, <2>5, SMT
  <2> QED
    BY <1>1, <1>2, <2>1, <2>2, <2>6 DEF Calendar
<1>4. CASE month # 2
  <2>1. MarchYear' = MarchYear
    BY <1>1, <1>4, SMT DEF MarchYear
  <2>2. DaysBefore(month') = DaysBefore(month) + day /\ DaysBefore(month) \in Int /\ day \in Int
    BY <1>1, <1>4, MonthDays, SMT DEF DaysIn
  <2>3. DaysOfYears(MarchYear) \in Int
    BY YearDays, SMT DEF Calendar, MarchYear
  <2>4. mjd = 14956 + DaysOfYears(MarchYear) + DaysBefore(month) + day /\ 0 <= MarchYear
    BY DEF Calendar
  <2>5. mjd' = 14956 + DaysOfYears(MarchYear') + DaysBefore(month') + day'
    BY <1>1, <2>1, <2>2, <2>3, <2>4, SMT
  <2> QED
    BY <1>1, <1>2, <2>1, <2>4, <2>5, SMT DEF Calendar
<1> QED
  BY <1>3, <1>4

LEMMA NextYearCalendar ==
  ASSUME Calendar, NextYear, mjd' = mjd + 1
  PROVE  Calendar'
<1>1. month = 12 /\ month' = 1 /\ day = 31 /\ day' = 1 /\ year' = year + 1 /\ year \in Int
  BY DEF Calendar, NextYear
<1>2. MarchYear = year /\ MarchYear' = year
  BY <1>1, SMT DEF MarchYear
<1>3. DaysBefore(month) = 397 /\ DaysBefore(month') = 428
  BY <1>1, MonthDays
<1>4. DaysOfYears(year) \in Int
  BY <1>1, YearDays
<1>5. mjd = 14956 + DaysOfYears(year) + 397 + 31 /\ 0 <= year
  BY <1>1, <1>2, <1>3 DEF Calendar
<1>6. mjd' = 14956 + DaysOfYears(year) + 428 + 1
  BY <1>4, <1>5, SMT
<1>7. DaysIn(1, year + 1) = 31
  BY SMT DEF DaysIn
<1> QED
  BY <1>1, <1>2, <1>3, <1>4, <1>5, <1>6, <1>7, SMT DEF Calendar

(* For every date from 1 March 1900 to 28 February 2100, rds_decode_time names
   its day, month and year. *)
THEOREM DecodedAlways == CalendarSpec => []DecodesToday
<1>1. Calendar /\ [Tomorrow]_dayVars => Calendar'
  <2>1. Calendar /\ UNCHANGED dayVars => Calendar'
    BY DEF Calendar, MarchYear, dayVars
  <2> QED
    BY <2>1, NextDayCalendar, NextMonthCalendar, NextYearCalendar DEF Tomorrow
<1> QED
  BY <1>1, InitCalendar, CalendarDecodes, PTL DEF CalendarSpec

-------------------------------------------------------------------------------
(* RadioTools: for any tools with any arguments, in any order and at once, failing
   anywhere. *)

Attributes == {"rx_lo", "tx_lo", "fs", "rx_bw", "rx_port", "rx_mode", "rx_gain", "tx_gain"}

Labels == {"start", "scan", "stream", "buffer", "gain", "refill", "rssi", "print",
           "new", "load", "begin", "send"} \union Over

(* Where a tool may be in its settings and refills, and which tool is at work. *)
Phase(p) ==
  /\ pc[p] \in {"scan", "buffer", "print"} => w[p] = 1
  /\ pc[p] \in {"gain", "refill", "rssi"} => w[p] \in 1 .. 2
  /\ pc[p] = "start" /\ arg[p].program = "pow" => w[p] = 1
  /\ pc[p] = "start" /\ arg[p].program = "ssb" => w[p] \in 1 .. 3
  /\ pc[p] = "start" /\ arg[p].program \in {"plutossb", "set"} => w[p] \in 1 .. 2

ToolControl ==
  /\ arg \in [Proc -> CommandLine]
  /\ w \in [Proc -> 1 .. 4]
  /\ pc \in [Proc -> Labels]
  /\ owner \in Proc \union {NoOne}
  /\ \A p \in Proc : owner = p <=> pc[p] \in HasBuffer
  /\ \A p \in Proc : Phase(p)

ToolData ==
  /\ radio \in [Attributes -> Int]
  /\ captured \in [Proc -> Seq([Receiver \cup Amplifier -> Int])]
  /\ rssi \in [Proc -> {<<>>} \union (Int \X Int)]
  /\ out \in [Proc -> Int]
  /\ disturbed \in [Proc -> SUBSET Receiver]

(* What a step of one tool does: the others stay where they are. *)
Moves(p) ==
  /\ pc' \in [Proc -> Labels] /\ w' \in [Proc -> 1 .. 4] /\ arg' = arg
  /\ \A q \in Proc : q # p => pc'[q] = pc[q] /\ w'[q] = w[q]

(* The buffer goes with the label. *)
Claims(p) ==
  IF pc'[p] \in HasBuffer
  THEN owner \in {p, NoOne} /\ owner' = p
  ELSE owner' = IF owner = p THEN NoOne ELSE owner

Settles(p) == Moves(p) /\ Claims(p) /\ Phase(p)'

(* The values that the settings hold. *)
Bandwidth == 100
Zero == 0
SetLo == 434000
SetRate == 2000
GraphRate == 576

(* The writing of one of a tool's settings, or its failure. *)
Sets(p, attribute, value) == Write(p, <<attribute, value>>)

Skips(p) ==
  /\ Fails(p)
  /\ UNCHANGED <<radio, owner, arg, captured, rssi, out, disturbed>>

More(p) == w' = [w EXCEPT ![p] = @ + 1] /\ pc' = pc
Last(p, next) == w' = [w EXCEPT ![p] = 1] /\ pc' = [pc EXCEPT ![p] = next]

LEMMA StreamWrites ==
  ASSUME ToolControl, NEW p \in Proc, PowStream(p)
  PROVE  \/ w[p] = 1 /\ Sets(p, "rx_port", Zero) /\ More(p)
         \/ w[p] = 2 /\ Sets(p, "rx_bw", Bandwidth) /\ More(p)
         \/ w[p] = 3 /\ Sets(p, "fs", arg[p].fs) /\ More(p)
         \/ w[p] = 4 /\ Sets(p, "rx_lo", arg[p].lo) /\ Last(p, "buffer")
         \/ Shutdown(p) \/ Abort(p)
<1> DEFINE settings == StreamSettings(arg[p])
<1>1. /\ Len(settings) = 4
      /\ settings[1] = <<"rx_port", Zero>> /\ settings[2] = <<"rx_bw", Bandwidth>>
      /\ settings[3] = <<"fs", arg[p].fs>> /\ settings[4] = <<"rx_lo", arg[p].lo>>
  BY DEF StreamSettings, Zero, Bandwidth
<1>2. w[p] \in 1 .. 4
  BY DEF ToolControl
<1> HIDE DEF settings
<1>3. \/ Write(p, settings[w[p]]) /\ Onward(p, settings, "buffer")
      \/ Shutdown(p) \/ Abort(p)
  BY DEF PowStream, settings
<1> QED
  BY <1>1, <1>2, <1>3 DEF Onward, Sets, More, Last, Goto

LEMMA GainWrites ==
  ASSUME ToolControl, NEW p \in Proc, PowGain(p)
  PROVE  \/ w[p] = 1 /\ Sets(p, "rx_mode", Zero) /\ More(p)
         \/ w[p] = 2 /\ Sets(p, "rx_gain", arg[p].gain) /\ Last(p, "refill")
         \/ Shutdown(p)
<1> DEFINE settings == GainSettings(arg[p])
<1>1. /\ Len(settings) = 2
      /\ settings[1] = <<"rx_mode", Zero>> /\ settings[2] = <<"rx_gain", arg[p].gain>>
  BY DEF GainSettings, Zero
<1>2. w[p] \in 1 .. 2
  BY DEF ToolControl, Phase, PowGain
<1> HIDE DEF settings
<1>3. \/ Write(p, settings[w[p]]) /\ Onward(p, settings, "refill")
      \/ Shutdown(p)
  BY DEF PowGain, settings
<1> QED
  BY <1>1, <1>2, <1>3 DEF Onward, Sets, More, Last, Goto

LEMMA SsbWrites ==
  ASSUME ToolControl, NEW p \in Proc, SsbSetup(p)
  PROVE  \/ w[p] = 1 /\ (Sets(p, "tx_lo", arg[p].lo) \/ Skips(p)) /\ More(p)
         \/ w[p] = 2 /\ (Sets(p, "fs", GraphRate) \/ Skips(p)) /\ More(p)
         \/ w[p] = 3 /\ (Sets(p, "tx_gain", Zero) \/ Skips(p)) /\ Last(p, "new")
<1> DEFINE settings == SsbSettings(arg[p])
<1>1. /\ Len(settings) = 3
      /\ settings[1] = <<"tx_lo", arg[p].lo>> /\ settings[2] = <<"fs", GraphRate>>
      /\ settings[3] = <<"tx_gain", Zero>>
  BY DEF SsbSettings, Zero, GraphRate
<1>2. w[p] \in 1 .. 3
  BY DEF ToolControl, Phase, SsbSetup
<1> HIDE DEF settings
<1>3. (Write(p, settings[w[p]]) \/ Skips(p)) /\ Onward(p, settings, "new")
  BY DEF SsbSetup, WriteUnchecked, Skips, kept, results, settings
<1> QED
  BY <1>1, <1>2, <1>3 DEF Onward, Sets, More, Last, Goto

LEMMA PlutossbWrites ==
  ASSUME ToolControl, NEW p \in Proc, PlutossbSetup(p)
  PROVE  \/ w[p] = 1 /\ (Sets(p, "rx_lo", arg[p].lo) \/ Skips(p)) /\ More(p)
         \/ w[p] = 2 /\ (Sets(p, "fs", GraphRate) \/ Skips(p)) /\ Last(p, "new")
         \/ Ended(p, "abort")
<1> DEFINE settings == PlutossbSettings(arg[p])
<1>1. /\ Len(settings) = 2
      /\ settings[1] = <<"rx_lo", arg[p].lo>> /\ settings[2] = <<"fs", GraphRate>>
  BY DEF PlutossbSettings, GraphRate
<1>2. w[p] \in 1 .. 2
  BY DEF ToolControl, Phase, PlutossbSetup
<1> HIDE DEF settings
<1>3. \/ (Write(p, settings[w[p]]) \/ Skips(p)) /\ Onward(p, settings, "new")
      \/ Ended(p, "abort")
  BY DEF PlutossbSetup, WriteUnchecked, Skips, kept, results, settings
<1> QED
  BY <1>1, <1>2, <1>3 DEF Onward, Sets, More, Last, Goto

LEMMA SetWrites ==
  ASSUME ToolControl, NEW p \in Proc, SetSetup(p)
  PROVE  \/ w[p] = 1 /\ (Sets(p, "rx_lo", SetLo) \/ Skips(p)) /\ More(p)
         \/ w[p] = 2 /\ (Sets(p, "fs", SetRate) \/ Skips(p)) /\ Last(p, "exit0")
<1>1. /\ Len(SetSettings) = 2
      /\ SetSettings[1] = <<"rx_lo", SetLo>> /\ SetSettings[2] = <<"fs", SetRate>>
  BY DEF SetSettings, SetLo, SetRate
<1>2. w[p] \in 1 .. 2
  BY DEF ToolControl, Phase, SetSetup
<1>3. (Write(p, SetSettings[w[p]]) \/ Skips(p)) /\ Onward(p, SetSettings, "exit0")
  BY DEF SetSetup, WriteUnchecked, Skips, kept, results
<1> QED
  BY <1>1, <1>2, <1>3 DEF Onward, Sets, More, Last, Goto

(* A setting that is written, those that are not, and whom it disturbs. *)
LEMMA SetsOne ==
  ASSUME ToolData, NEW p \in Proc, NEW a \in Attributes, NEW v, Sets(p, a, v)
  PROVE  /\ radio'[a] = v
         /\ \A b \in Attributes : b # a => radio'[b] = radio[b]
         /\ v \in Int => radio' \in [Attributes -> Int]
         /\ disturbed' \in [Proc -> SUBSET Receiver]
         /\ disturbed'[p] = disturbed[p] \ {a}
         /\ \A q \in Proc : q # p =>
              /\ disturbed[q] \subseteq disturbed'[q]
              /\ pc[q] \in Measuring /\ a \in Receiver => a \in disturbed'[q]
         /\ arg' = arg /\ captured' = captured /\ rssi' = rssi /\ out' = out /\ owner' = owner
<1>1. radio' = [radio EXCEPT ![a] = v] /\ arg' = arg /\ captured' = captured /\ rssi' = rssi
      /\ out' = out /\ owner' = owner
  BY DEF Sets, Write, results
<1>2. disturbed' = [q \in Proc |->
        CASE q = p                        -> disturbed[q] \ {a}
          [] q # p /\ pc[q] \in Measuring -> disturbed[q] \cup ({a} \cap Receiver)
          [] OTHER                        -> disturbed[q]]
  BY DEF Sets, Write
<1>3. disturbed'[p] = disturbed[p] \ {a}
  BY <1>2
<1>4. ASSUME NEW q \in Proc, q # p
      PROVE  \/ pc[q] \in Measuring /\ disturbed'[q] = disturbed[q] \cup ({a} \cap Receiver)
             \/ pc[q] \notin Measuring /\ disturbed'[q] = disturbed[q]
  BY <1>2, <1>4
<1>5. disturbed' \in [Proc -> SUBSET Receiver]
  <2>1. \A q \in Proc : disturbed'[q] \in SUBSET Receiver
    BY <1>3, <1>4 DEF ToolData
  <2> QED
    BY <1>2, <2>1
<1>6. /\ radio'[a] = v
      /\ \A b \in Attributes : b # a => radio'[b] = radio[b]
      /\ v \in Int => radio' \in [Attributes -> Int]
  BY <1>1 DEF ToolData
<1>7. \A q \in Proc : q # p =>
        /\ disturbed[q] \subseteq disturbed'[q]
        /\ pc[q] \in Measuring /\ a \in Receiver => a \in disturbed'[q]
  BY <1>4
<1> QED
  BY <1>1, <1>3, <1>5, <1>6, <1>7

LEMMA ControlKept ==
  ASSUME ToolControl, NEW p \in Proc, Settles(p)
  PROVE  ToolControl'
<1> USE RadioAssumption DEF ToolControl, Settles, Moves, Claims, HasBuffer
<1>1. owner' \in Proc \union {NoOne}
  OBVIOUS
<1>2. \A q \in Proc : owner' = q <=> pc'[q] \in HasBuffer
  OBVIOUS
<1>3. ASSUME NEW q \in Proc PROVE Phase(q)'
  <2>1. CASE q = p
    BY <2>1
  <2>2. CASE q # p
    BY <2>2 DEF Phase
  <2> QED
    BY <2>1, <2>2
<1> QED
  BY <1>1, <1>2, <1>3

LEMMA ShutdownSettles ==
  ASSUME ToolControl, NEW p \in Proc, Shutdown(p) \/ Abort(p)
  PROVE  Settles(p)
<1> USE DEF ToolControl, Shutdown, Abort, Forget, Goto, Labels, Over
<1>1. Moves(p)
  BY DEF Moves
<1>2. Claims(p) /\ Phase(p)'
  BY DEF Claims, HasBuffer, Phase
<1> QED
  BY <1>1, <1>2 DEF Settles

(* A tool that writes a setting, or fails to, without the buffer. *)
LEMMA WriterSettles ==
  ASSUME ToolControl, NEW p \in Proc, pc[p] \in {"start", "stream"},
         owner' = owner, arg' = arg, NEW next \in {"new", "exit0", "buffer"},
         (More(p) /\ w[p] + 1 \in 1 .. 4) \/ Last(p, next), Phase(p)'
  PROVE  Settles(p)
<1>1. Moves(p)
  BY DEF ToolControl, Moves, More, Last, Labels, Over
<1>2. Claims(p)
  BY DEF ToolControl, Claims, HasBuffer, More, Last
<1> QED
  BY <1>1, <1>2 DEF Settles

LEMMA ToolSettles ==
  ASSUME ToolControl, NEW p \in Proc, Pow(p) \/ Transmit(p) \/ SetSetup(p)
  PROVE  Settles(p)
<1> USE DEF ToolControl, Goto, Labels, Over, kept, results
<1>1. CASE PowArguments(p)
  <2>1. Moves(p)
    BY <1>1 DEF PowArguments, Moves
  <2>2. Claims(p) /\ Phase(p)'
    BY <1>1 DEF PowArguments, Claims, HasBuffer, Phase
  <2> QED
    BY <2>1, <2>2 DEF Settles
<1>2. CASE PowScan(p)
  <2>1. CASE Abort(p)
    BY <2>1, ShutdownSettles
  <2>2. CASE ~Abort(p)
    <3>1. Moves(p)
      BY <1>2, <2>2 DEF PowScan, Moves
    <3>2. Claims(p) /\ Phase(p)'
      BY <1>2, <2>2 DEF PowScan, Claims, HasBuffer, Phase
    <3> QED
      BY <3>1, <3>2 DEF Settles
  <2> QED
    BY <2>1, <2>2
<1>3. CASE PowStream(p)
  <2>1. CASE Shutdown(p) \/ Abort(p)
    BY <2>1, ShutdownSettles
  <2>2. CASE ~Shutdown(p) /\ ~Abort(p)
    <3>1. pc[p] = "stream"
      BY <1>3 DEF PowStream
    <3>2. owner' = owner /\ arg' = arg
      BY <1>3, <2>2, StreamWrites DEF Sets, Write
    <3>3. \/ More(p) /\ w[p] + 1 \in 1 .. 4
          \/ Last(p, "buffer")
      BY <1>3, <2>2, StreamWrites
    <3>4. Phase(p)'
      BY <3>1, <3>3 DEF Phase, More, Last
    <3> QED
      BY <3>1, <3>2, <3>3, <3>4, WriterSettles
  <2> QED
    BY <2>1, <2>2
<1>4. CASE PowBuffer(p)
  <2>1. CASE Shutdown(p) \/ Abort(p)
    BY <2>1, ShutdownSettles
  <2>2. CASE ~Shutdown(p) /\ ~Abort(p)
    <3>1. Moves(p)
      BY <1>4, <2>2 DEF PowBuffer, Moves
    <3>2. Claims(p) /\ Phase(p)'
      BY <1>4, <2>2 DEF PowBuffer, Claims, HasBuffer, Phase
    <3> QED
      BY <3>1, <3>2 DEF Settles
  <2> QED
    BY <2>1, <2>2
<1>5. CASE PowGain(p)
  <2>1. CASE Shutdown(p)
    BY <2>1, ShutdownSettles
  <2>2. CASE ~Shutdown(p)
    <3>1. pc[p] = "gain" /\ w[p] \in 1 .. 2
      BY <1>5 DEF PowGain, Phase
    <3>2. owner' = owner /\ arg' = arg
      BY <1>5, <2>2, GainWrites DEF Sets, Write, results
    <3>3. \/ w[p] = 1 /\ More(p)
          \/ Last(p, "refill")
      BY <1>5, <2>2, GainWrites
    <3>4. Moves(p)
      BY <3>2, <3>3 DEF More, Last, Moves
    <3>5. Claims(p) /\ Phase(p)'
      BY <3>1, <3>2, <3>3 DEF More, Last, Claims, HasBuffer, Phase
    <3> QED
      BY <3>4, <3>5 DEF Settles
  <2> QED
    BY <2>1, <2>2
<1>6. CASE Capture(p)
  <2>1. Moves(p)
    BY <1>6 DEF Capture, Moves
  <2>2. Claims(p) /\ Phase(p)'
    BY <1>6 DEF Capture, Claims, Phase
  <2> QED
    BY <2>1, <2>2 DEF Settles
<1>7. CASE PowRefill(p)
  <2>1. CASE Shutdown(p)
    BY <2>1, ShutdownSettles
  <2>2. CASE ~Shutdown(p)
    <3>1. Moves(p)
      BY <1>7, <2>2 DEF PowRefill, Moves
    <3>2. Claims(p) /\ Phase(p)'
      BY <1>7, <2>2 DEF PowRefill, Claims, HasBuffer, Phase
    <3> QED
      BY <3>1, <3>2 DEF Settles
  <2> QED
    BY <2>1, <2>2
<1>8. CASE PowRssi(p)
  <2>1. /\ pc[p] = "rssi" /\ w[p] \in 1 .. 2 /\ owner' = owner /\ arg' = arg
        /\ \/ w[p] = 1 /\ w' = [w EXCEPT ![p] = 2] /\ pc' = [pc EXCEPT ![p] = "refill"]
           \/ w' = [w EXCEPT ![p] = 1] /\ pc' = [pc EXCEPT ![p] = "print"]
    BY <1>8 DEF PowRssi, Phase, Refills
  <2>2. Moves(p)
    BY <2>1 DEF Moves
  <2>3. Claims(p) /\ Phase(p)'
    BY <2>1 DEF Claims, HasBuffer, Phase
  <2> QED
    BY <2>2, <2>3 DEF Settles
<1>9. CASE PowPrint(p)
  <2>1. Moves(p)
    BY <1>9 DEF PowPrint, Moves
  <2>2. Claims(p) /\ Phase(p)'
    BY <1>9 DEF PowPrint, Claims, HasBuffer, Phase
  <2> QED
    BY <2>1, <2>2 DEF Settles
<1>10. CASE SsbSetup(p)
  <2>1. pc[p] = "start" /\ arg[p].program = "ssb"
    BY <1>10 DEF SsbSetup
  <2>2. /\ owner' = owner /\ arg' = arg
        /\ (w[p] \in 1 .. 2 /\ More(p)) \/ Last(p, "new")
    BY <1>10, SsbWrites DEF Sets, Write, Skips
  <2>3. Phase(p)'
    BY <2>1, <2>2 DEF Phase, More, Last
  <2> QED
    BY <2>1, <2>2, <2>3, WriterSettles
<1>11. CASE PlutossbSetup(p)
  <2>1. pc[p] = "start" /\ arg[p].program = "plutossb"
    BY <1>11 DEF PlutossbSetup
  <2>2. CASE Ended(p, "abort")
    <3>1. Moves(p)
      BY <2>2 DEF Ended, Moves
    <3>2. Claims(p) /\ Phase(p)'
      BY <2>1, <2>2 DEF Ended, Claims, HasBuffer, Phase
    <3> QED
      BY <3>1, <3>2 DEF Settles
  <2>3. CASE ~Ended(p, "abort")
    <3>1. /\ owner' = owner /\ arg' = arg
          /\ (w[p] = 1 /\ More(p)) \/ Last(p, "new")
      BY <1>11, <2>3, PlutossbWrites DEF Sets, Write, Skips
    <3>2. Phase(p)'
      BY <2>1, <3>1 DEF Phase, More, Last
    <3> QED
      BY <2>1, <3>1, <3>2, WriterSettles
  <2> QED
    BY <2>2, <2>3
<1>12. CASE SetSetup(p)
  <2>1. pc[p] = "start" /\ arg[p].program = "set"
    BY <1>12 DEF SetSetup
  <2>2. /\ owner' = owner /\ arg' = arg
        /\ (w[p] = 1 /\ More(p)) \/ Last(p, "exit0")
    BY <1>12, SetWrites DEF Sets, Write, Skips
  <2>3. Phase(p)'
    BY <2>1, <2>2 DEF Phase, More, Last
  <2> QED
    BY <2>1, <2>2, <2>3, WriterSettles
<1>13. CASE Graph(p) \/ GraphEnds(p)
  <2>1. \E l \in {"load", "begin", "send", "error", "exit0"} : Ended(p, l)
    BY <1>13 DEF Graph, GraphEnds
  <2>2. pc[p] \notin HasBuffer
    BY <1>13 DEF Graph, GraphEnds, HasBuffer
  <2>3. Moves(p)
    BY <2>1 DEF Ended, Moves
  <2>4. Claims(p) /\ Phase(p)'
    BY <2>1, <2>2 DEF Ended, Claims, HasBuffer, Phase
  <2> QED
    BY <2>3, <2>4 DEF Settles
<1> QED
  BY <1>1, <1>2, <1>3, <1>4, <1>5, <1>6, <1>7, <1>8, <1>9, <1>10, <1>11, <1>12, <1>13
     DEF Pow, Transmit

LEMMA ControlStep ==
  ASSUME ToolControl, [Next]_vars
  PROVE  ToolControl'
<1>1. CASE UNCHANGED vars
  BY <1>1 DEF vars, ToolControl, Phase
<1> QED
  BY <1>1, ToolSettles, ControlKept DEF Next, AllOver

(* What a step of a tool can change but its own place: it writes a setting, with the
   gain only while it has the buffer, a block is captured, an RSSI is read, a result
   is printed, or what it has is given up. *)
Shared(p) ==
  \/ \E a \in Attributes, v \in Int :
       Sets(p, a, v) /\ (a \in {"rx_mode", "rx_gain"} => pc[p] = "gain")
  \/ /\ UNCHANGED <<radio, disturbed, arg>>
     /\ \/ UNCHANGED <<captured, rssi, out>>
        \/ Forget(p)
        \/ Capture(p)
        \/ PowRssi(p)
        \/ PowPrint(p)

LEMMA ToolShared ==
  ASSUME ToolControl, NEW p \in Proc, Pow(p) \/ Transmit(p) \/ SetSetup(p)
  PROVE  Shared(p)
<1>1. /\ Bandwidth \in Int /\ Zero \in Int /\ SetLo \in Int /\ SetRate \in Int
      /\ GraphRate \in Int
  BY SMT DEF Bandwidth, Zero, SetLo, SetRate, GraphRate
<1>2. arg[p].lo \in Int /\ arg[p].gain \in Int /\ arg[p].fs \in Int
  BY DEF ToolControl, CommandLine
<1>3. ASSUME NEW a \in Attributes \ {"rx_mode", "rx_gain"}, NEW v \in Int, Sets(p, a, v)
      PROVE  Shared(p)
  BY <1>3 DEF Shared
<1>4. CASE Skips(p)
  BY <1>4 DEF Skips, Shared
<1>5. /\ "rx_lo" \in Attributes \ {"rx_mode", "rx_gain"}
      /\ "tx_lo" \in Attributes \ {"rx_mode", "rx_gain"}
      /\ "fs" \in Attributes \ {"rx_mode", "rx_gain"}
      /\ "rx_bw" \in Attributes \ {"rx_mode", "rx_gain"}
      /\ "rx_port" \in Attributes \ {"rx_mode", "rx_gain"}
      /\ "tx_gain" \in Attributes \ {"rx_mode", "rx_gain"}
  BY DEF Attributes
<1>6. CASE Shutdown(p) \/ Abort(p)
  BY <1>6 DEF Shutdown, Abort, Forget, Shared
<1>7. CASE PowArguments(p) \/ PowScan(p) \/ PowBuffer(p) \/ PowRefill(p)
  BY <1>6, <1>7 DEF PowArguments, PowScan, PowBuffer, PowRefill, kept, results, Shared
<1>8. CASE PowStream(p)
  BY <1>1, <1>2, <1>3, <1>5, <1>6, <1>8, StreamWrites
<1>9. CASE PowGain(p)
  <2>1. pc[p] = "gain" /\ {"rx_mode", "rx_gain"} \subseteq Attributes
    BY <1>9 DEF PowGain, Attributes
  <2> QED
    BY <1>1, <1>2, <1>6, <1>9, <2>1, GainWrites DEF Shared
<1>10. CASE Capture(p) \/ PowRssi(p) \/ PowPrint(p)
  BY <1>10 DEF Capture, PowRssi, PowPrint, Shared
<1>11. CASE SsbSetup(p)
  BY <1>1, <1>2, <1>3, <1>4, <1>5, <1>11, SsbWrites
<1>12. CASE PlutossbSetup(p)
  <2>1. CASE Ended(p, "abort")
    BY <2>1 DEF Ended, kept, results, Shared
  <2> QED
    BY <1>1, <1>2, <1>3, <1>4, <1>5, <1>12, <2>1, PlutossbWrites
<1>13. CASE SetSetup(p)
  BY <1>1, <1>3, <1>4, <1>5, <1>13, SetWrites
<1>14. CASE Graph(p) \/ GraphEnds(p)
  BY <1>14 DEF Graph, GraphEnds, Ended, kept, results, Shared
<1> QED
  BY <1>7, <1>8, <1>9, <1>10, <1>11, <1>12, <1>13, <1>14 DEF Pow, Transmit

LEMMA Appended ==
  ASSUME NEW S, NEW s \in Seq(S), NEW x \in S
  PROVE  /\ Append(s, x) \in Seq(S)
         /\ Len(Append(s, x)) = Len(s) + 1
         /\ \A n \in 1 .. Len(s) : Append(s, x)[n] = s[n]
         /\ Append(s, x)[Len(s) + 1] = x
  OBVIOUS

(* What is captured is of the radio's settings at that moment. *)
LEMMA CaptureOne ==
  ASSUME ToolData, NEW p \in Proc, Capture(p)
  PROVE  /\ captured' \in [Proc -> Seq([Receiver \cup Amplifier -> Int])]
         /\ Len(captured'[p]) = Len(captured[p]) + 1
         /\ \A n \in 1 .. Len(captured[p]) : captured'[p][n] = captured[p][n]
         /\ \A a \in Receiver \cup Amplifier : captured'[p][Len(captured[p]) + 1][a] = radio[a]
         /\ \A q \in Proc : q # p => captured'[q] = captured[q]
<1> DEFINE at == [a \in Receiver \cup Amplifier |-> radio[a]]
<1>1. at \in [Receiver \cup Amplifier -> Int]
  BY DEF ToolData, Receiver, Amplifier, Attributes
<1>2. captured' = [captured EXCEPT ![p] = Append(@, at)]
  BY DEF Capture
<1>3. captured[p] \in Seq([Receiver \cup Amplifier -> Int])
  BY DEF ToolData
<1>4. \A a \in Receiver \cup Amplifier : at[a] = radio[a]
  OBVIOUS
<1> HIDE DEF at
<1>5. captured'[p] = Append(captured[p], at) /\ \A q \in Proc : q # p => captured'[q] = captured[q]
  BY <1>2 DEF ToolData
<1>6. captured'[p] \in Seq([Receiver \cup Amplifier -> Int])
  BY <1>1, <1>3, <1>5, Appended
<1>7. captured' \in [Proc -> Seq([Receiver \cup Amplifier -> Int])]
  BY <1>2, <1>5, <1>6 DEF ToolData
<1>8. /\ Len(captured'[p]) = Len(captured[p]) + 1
      /\ \A n \in 1 .. Len(captured[p]) : captured'[p][n] = captured[p][n]
      /\ captured'[p][Len(captured[p]) + 1] = at
  BY <1>1, <1>3, <1>5, Appended
<1> QED
  BY <1>4, <1>5, <1>7, <1>8

LEMMA DataStep ==
  ASSUME ToolControl, ToolData, [Next]_vars
  PROVE  ToolData'
<1> USE DEF ToolData
<1>1. CASE UNCHANGED vars
  BY <1>1 DEF vars
<1> SUFFICES ASSUME NEW p \in Proc, Shared(p) PROVE ToolData'
  BY <1>1, ToolShared DEF Next, AllOver
<1>2. CASE \E a \in Attributes, v \in Int : Sets(p, a, v)
  BY <1>2, SetsOne
<1>3. CASE UNCHANGED <<radio, disturbed, arg, captured, rssi, out>>
  BY <1>3
<1>4. CASE UNCHANGED <<radio, disturbed>> /\ Forget(p)
  <2>1. <<>> \in Seq([Receiver \cup Amplifier -> Int])
    OBVIOUS
  <2> QED
    BY <1>4, <2>1 DEF Forget
<1>5. CASE UNCHANGED <<radio, disturbed>> /\ Capture(p)
  BY <1>5, CaptureOne DEF Capture
<1>6. CASE UNCHANGED <<radio, disturbed>> /\ PowRssi(p)
  <2>1. <<radio.rx_mode, radio.rx_gain>> \in Int \X Int
    BY DEF Attributes
  <2> QED
    BY <1>6, <2>1 DEF PowRssi
<1>7. CASE UNCHANGED <<radio, disturbed>> /\ PowPrint(p)
  BY <1>7 DEF PowPrint, ToolControl, CommandLine
<1> QED
  BY <1>2, <1>3, <1>4, <1>5, <1>6, <1>7 DEF Shared

LEMMA ToolTypes == Spec => [](ToolControl /\ ToolData)
<1>1. Init => ToolControl
  BY RadioAssumption DEF Init, ToolControl, Labels, Phase, HasBuffer
<1>2. Init => ToolData
  BY RadioAssumption DEF Init, ToolData, Attributes, Nothing
<1> QED
  BY <1>1, <1>2, ControlStep, DataStep, PTL DEF Spec

(* Types, and the buffer belongs to whoever measures, also when tools run at once. *)
THEOREM RadioTypeCorrect == Spec => []TypeOK
<1>1. ToolControl /\ ToolData => TypeOK
  BY DEF ToolControl, ToolData, TypeOK
<1> QED
  BY <1>1, ToolTypes, PTL
-------------------------------------------------------------------------------
(* What a measurement has was measured as it asked. *)

\* As p asked for, or another has changed it since.
As(p, a) == radio[a] = Asked(arg[p])[a] \/ a \in disturbed[p]

\* How far p has set up the radio.
Tuned(p) ==
  /\ pc[p] = "stream" =>
       /\ w[p] > 1 => As(p, "rx_port")
       /\ w[p] > 2 => As(p, "rx_bw")
       /\ w[p] > 3 => As(p, "fs")
  /\ pc[p] \in {"buffer"} \cup HasBuffer => \A a \in Receiver : As(p, a)
  /\ pc[p] = "gain" /\ w[p] > 1 => radio["rx_mode"] = 0
  /\ pc[p] \in {"refill", "rssi"} => radio["rx_mode"] = 0 /\ radio["rx_gain"] = arg[p].gain

\* What p has measured so far, and that it has printed nothing before it ends.
Measured(p) ==
  /\ pc[p] \in {"start", "scan", "stream", "buffer"} => captured[p] = <<>> /\ rssi[p] = <<>>
  /\ Len(captured[p]) <= Refills
  /\ pc[p] = "rssi" => w[p] <= Len(captured[p])
  /\ pc[p] = "print" => Len(captured[p]) = Refills
  /\ \A n \in 1 .. Len(captured[p]), a \in Receiver \ disturbed[p] :
       captured[p][n][a] = Asked(arg[p])[a]
  /\ rssi[p] \in {<<>>, <<0, arg[p].gain>>}
  /\ out[p] # Nothing => pc[p] = "exit0" /\ out[p] = arg[p].lo /\ Len(captured[p]) = Refills

(* A step of one tool leaves what another has set up and measured, unless it is
   counted as disturbed. *)
LEMMA OthersKept ==
  ASSUME ToolControl, ToolData, NEW p \in Proc, NEW q \in Proc, q # p,
         Pow(p) \/ Transmit(p) \/ SetSetup(p), Tuned(q), Measured(q)
  PROVE  Tuned(q)' /\ Measured(q)'
<1>1. pc'[q] = pc[q] /\ w'[q] = w[q] /\ arg' = arg
  BY ToolSettles DEF Settles, Moves
<1>2. Shared(p)
  BY ToolShared
<1>3. CASE \E a \in Attributes, v \in Int :
             Sets(p, a, v) /\ (a \in {"rx_mode", "rx_gain"} => pc[p] = "gain")
  <2>1. PICK a \in Attributes, v \in Int :
          Sets(p, a, v) /\ (a \in {"rx_mode", "rx_gain"} => pc[p] = "gain")
    BY <1>3
  <2>2. /\ \A b \in Attributes : b # a => radio'[b] = radio[b]
        /\ disturbed[q] \subseteq disturbed'[q]
        /\ pc[q] \in Measuring /\ a \in Receiver => a \in disturbed'[q]
        /\ captured' = captured /\ rssi' = rssi /\ out' = out
    BY <2>1, SetsOne
  <2>3. pc[q] \in Measuring => \A b \in Receiver : As(q, b) => As(q, b)'
    <3>1. Receiver \subseteq Attributes
      BY DEF Receiver, Attributes
    <3> QED
      BY <1>1, <2>2, <3>1 DEF As
  <2>4. pc[q] \in HasBuffer => radio'["rx_mode"] = radio["rx_mode"]
                               /\ radio'["rx_gain"] = radio["rx_gain"]
    <3>1. pc[q] \in HasBuffer => pc[p] # "gain"
      BY DEF ToolControl, HasBuffer
    <3> QED
      BY <2>1, <2>2, <3>1 DEF Attributes
  <2>5. Tuned(q)'
    <3>1. {"rx_port", "rx_bw", "fs"} \subseteq Receiver
      BY DEF Receiver
    <3>2. pc[q] \in {"stream", "buffer"} \cup HasBuffer => pc[q] \in Measuring
      BY DEF Measuring
    <3>3. {"gain", "refill", "rssi"} \subseteq HasBuffer
      BY DEF HasBuffer
    <3> QED
      BY <1>1, <2>3, <2>4, <3>1, <3>2, <3>3 DEF Tuned
  <2>6. Measured(q)'
    BY <1>1, <2>2 DEF Measured
  <2> QED
    BY <2>5, <2>6
<1>4. CASE UNCHANGED <<radio, disturbed, arg>>
  <2>1. \/ captured'[q] = captured[q] /\ rssi'[q] = rssi[q] /\ out'[q] = out[q]
        \/ \E a \in Attributes, v \in Int :
             Sets(p, a, v) /\ (a \in {"rx_mode", "rx_gain"} => pc[p] = "gain")
    BY <1>2, CaptureOne DEF Shared, Forget, Capture, PowRssi, PowPrint, ToolData
  <2>2. CASE captured'[q] = captured[q] /\ rssi'[q] = rssi[q] /\ out'[q] = out[q]
    BY <1>1, <1>4, <2>2 DEF Tuned, Measured, As
  <2> QED
    BY <1>3, <2>1, <2>2
<1> QED
  BY <1>2, <1>3, <1>4 DEF Shared

(* A measurement that fails gives up what it has. *)
LEMMA GivenUp ==
  ASSUME ToolControl, ToolData, NEW p \in Proc, Shutdown(p) \/ Abort(p), pc[p] # "exit0",
         Measured(p)
  PROVE  Tuned(p)' /\ Measured(p)'
<1>1. pc'[p] \in {"exit0", "abort"}
  BY DEF Shutdown, Abort, Goto, ToolControl
<1>2. captured'[p] = <<>> /\ rssi'[p] = <<>> /\ out' = out /\ out[p] = Nothing
  BY DEF Shutdown, Abort, Forget, Measured, ToolData
<1>3. Tuned(p)'
  BY <1>1 DEF Tuned, HasBuffer
<1> QED
  BY <1>1, <1>2, <1>3 DEF Measured, Refills

(* A tool that has measured nothing, and does not begin to. *)
LEMMA NothingMeasured ==
  ASSUME ToolControl, ToolData, NEW p \in Proc, Measured(p), captured[p] = <<>>,
         rssi[p] = <<>>, out[p] = Nothing, captured' = captured, rssi' = rssi, out' = out,
         arg' = arg, pc'[p] \notin {"rssi", "print"}
  PROVE  Measured(p)'
  BY DEF Measured, Refills

LEMMA StreamTuned ==
  ASSUME ToolControl, ToolData, NEW p \in Proc, PowStream(p), Tuned(p), Measured(p)
  PROVE  Tuned(p)' /\ Measured(p)'
<1>1. pc[p] = "stream" /\ captured[p] = <<>> /\ rssi[p] = <<>> /\ out[p] = Nothing
  BY DEF PowStream, Measured
<1>2. /\ Asked(arg[p])["rx_port"] = Zero /\ Asked(arg[p])["rx_bw"] = Bandwidth
      /\ Asked(arg[p])["fs"] = arg[p].fs /\ Asked(arg[p])["rx_lo"] = arg[p].lo
  BY DEF Asked, Zero, Bandwidth
<1>3. CASE Shutdown(p) \/ Abort(p)
  BY <1>1, <1>3, GivenUp
<1>4. ASSUME NEW a \in Receiver, NEW v, Sets(p, a, v), v = Asked(arg[p])[a]
      PROVE  /\ As(p, a)' /\ \A b \in Receiver : As(p, b) => As(p, b)'
             /\ arg' = arg /\ captured' = captured /\ rssi' = rssi /\ out' = out
  <2>1. Receiver \subseteq Attributes
    BY DEF Receiver, Attributes
  <2> QED
    BY <1>4, <2>1, SetsOne DEF As
<1>5. CASE w[p] = 1 /\ Sets(p, "rx_port", Zero) /\ More(p)
  <2>1. pc'[p] = "stream" /\ w'[p] = 2
    BY <1>1, <1>5 DEF More, ToolControl
  <2>2. As(p, "rx_port")' /\ arg' = arg /\ captured' = captured /\ rssi' = rssi /\ out' = out
    BY <1>2, <1>4, <1>5 DEF Receiver
  <2>3. Tuned(p)'
    BY <2>1, <2>2 DEF Tuned, HasBuffer
  <2> QED
    BY <1>1, <2>1, <2>2, <2>3, NothingMeasured
<1>6. CASE w[p] = 2 /\ Sets(p, "rx_bw", Bandwidth) /\ More(p)
  <2>1. pc'[p] = "stream" /\ w'[p] = 3
    BY <1>1, <1>6 DEF More, ToolControl
  <2>2. /\ As(p, "rx_bw")' /\ As(p, "rx_port")'
        /\ arg' = arg /\ captured' = captured /\ rssi' = rssi /\ out' = out
    BY <1>1, <1>2, <1>4, <1>6 DEF Receiver, Tuned
  <2>3. Tuned(p)'
    BY <2>1, <2>2 DEF Tuned, HasBuffer
  <2> QED
    BY <1>1, <2>1, <2>2, <2>3, NothingMeasured
<1>7. CASE w[p] = 3 /\ Sets(p, "fs", arg[p].fs) /\ More(p)
  <2>1. pc'[p] = "stream" /\ w'[p] = 4
    BY <1>1, <1>7 DEF More, ToolControl
  <2>2. /\ As(p, "fs")' /\ As(p, "rx_bw")' /\ As(p, "rx_port")'
        /\ arg' = arg /\ captured' = captured /\ rssi' = rssi /\ out' = out
    BY <1>1, <1>2, <1>4, <1>7 DEF Receiver, Tuned
  <2>3. Tuned(p)'
    BY <2>1, <2>2 DEF Tuned, HasBuffer
  <2> QED
    BY <1>1, <2>1, <2>2, <2>3, NothingMeasured
<1>8. CASE w[p] = 4 /\ Sets(p, "rx_lo", arg[p].lo) /\ Last(p, "buffer")
  <2>1. pc'[p] = "buffer"
    BY <1>8 DEF Last, ToolControl
  <2>2. /\ As(p, "rx_lo")' /\ As(p, "fs")' /\ As(p, "rx_bw")' /\ As(p, "rx_port")'
        /\ arg' = arg /\ captured' = captured /\ rssi' = rssi /\ out' = out
    BY <1>1, <1>2, <1>4, <1>8 DEF Receiver, Tuned
  <2>3. Tuned(p)'
    BY <2>1, <2>2 DEF Tuned, Receiver
  <2> QED
    BY <1>1, <2>1, <2>2, <2>3, NothingMeasured
<1> QED
  BY <1>3, <1>5, <1>6, <1>7, <1>8, StreamWrites

LEMMA GainTuned ==
  ASSUME ToolControl, ToolData, NEW p \in Proc, PowGain(p), Tuned(p), Measured(p)
  PROVE  Tuned(p)' /\ Measured(p)'
<1>1. pc[p] = "gain" /\ out[p] = Nothing
  BY DEF PowGain, Measured
<1>2. CASE Shutdown(p)
  BY <1>1, <1>2, GivenUp
<1>3. CASE ~Shutdown(p)
  <2>1. PICK a \in {"rx_mode", "rx_gain"}, v \in {Zero, arg[p].gain} : Sets(p, a, v)
    BY <1>3, GainWrites
  <2>2. /\ disturbed'[p] = disturbed[p] \ {a}
        /\ \A b \in Attributes : b # a => radio'[b] = radio[b]
        /\ arg' = arg /\ captured' = captured /\ rssi' = rssi /\ out' = out
    BY <2>1, SetsOne DEF Attributes
  <2>3. a \notin Receiver /\ Receiver \subseteq Attributes
    BY DEF Receiver, Attributes
  <2>4. \A b \in Receiver : As(p, b)'
    BY <1>1, <2>2, <2>3 DEF Tuned, As, HasBuffer
  <2>5. \/ w[p] = 1 /\ pc'[p] = "gain" /\ radio'["rx_mode"] = 0
        \/ /\ w[p] = 2 /\ pc'[p] = "refill"
           /\ radio'["rx_gain"] = arg[p].gain /\ radio'["rx_mode"] = radio["rx_mode"]
    <3>1. {"rx_mode", "rx_gain"} \subseteq Attributes
      BY DEF Attributes
    <3> QED
      BY <1>1, <1>3, <3>1, GainWrites, SetsOne DEF More, Last, Zero, ToolControl
  <2>6. Tuned(p)'
    BY <1>1, <2>2, <2>4, <2>5 DEF Tuned
  <2>7. Measured(p)'
    BY <1>1, <2>2, <2>3, <2>5 DEF Measured
  <2> QED
    BY <2>6, <2>7
<1> QED
  BY <1>2, <1>3

(* A block is captured with the radio as asked. *)
LEMMA CaptureMeasured ==
  ASSUME ToolControl, ToolData, NEW p \in Proc, Capture(p), Tuned(p), Measured(p)
  PROVE  Tuned(p)' /\ Measured(p)'
<1>1. pc[p] \in HasBuffer /\ Len(captured[p]) < Refills
  BY DEF Capture, ToolControl
<1>2. UNCHANGED <<pc, w, radio, arg, rssi, out, disturbed>>
  BY DEF Capture
<1>3. Tuned(p)'
  BY <1>2 DEF Tuned, As
<1> DEFINE len == Len(captured[p])
<1>4. /\ Len(captured'[p]) = len + 1
      /\ \A n \in 1 .. len : captured'[p][n] = captured[p][n]
      /\ \A a \in Receiver : captured'[p][len + 1][a] = radio[a]
  BY CaptureOne
<1>5. len \in Nat
  <2>1. captured[p] \in Seq([Receiver \cup Amplifier -> Int])
    BY DEF ToolData
  <2> QED
    BY <2>1
<1>6. \A n \in 1 .. Len(captured'[p]), a \in Receiver \ disturbed'[p] :
        captured'[p][n][a] = Asked(arg'[p])[a]
  <2>1. SUFFICES ASSUME NEW n \in 1 .. len + 1, NEW a \in Receiver \ disturbed[p]
                 PROVE  captured'[p][n][a] = Asked(arg[p])[a]
    BY <1>2, <1>4
  <2>2. CASE n = len + 1
    BY <1>1, <1>4, <2>2 DEF Tuned, As
  <2>3. CASE n \in 1 .. len
    BY <1>4, <2>3 DEF Measured
  <2> QED
    BY <1>5, <2>2, <2>3
<1>7. pc[p] \notin {"start", "scan", "stream", "buffer", "exit0"}
  BY <1>1 DEF HasBuffer
<1>8. pc[p] # "print" /\ out[p] = Nothing
  BY <1>1, <1>7 DEF Measured
<1>9. w[p] \in 1 .. 4
  BY DEF ToolControl
<1> HIDE DEF len
<1>10. /\ Len(captured'[p]) <= Refills
       /\ pc'[p] = "rssi" => w'[p] <= Len(captured'[p])
  <2>1. pc[p] = "rssi" => w[p] <= len
    BY DEF Measured, len
  <2>2. len < Refills
    BY <1>1 DEF len
  <2> QED
    BY <1>2, <1>4, <1>5, <1>9, <2>1, <2>2 DEF Refills
<1>11. rssi'[p] \in {<<>>, <<0, arg'[p].gain>>}
  BY <1>2 DEF Measured
<1> QED
  BY <1>2, <1>3, <1>6, <1>7, <1>8, <1>10, <1>11 DEF Measured

LEMMA RefillMeasured ==
  ASSUME ToolControl, ToolData, NEW p \in Proc, PowRefill(p) \/ PowRssi(p) \/ PowPrint(p),
         Tuned(p), Measured(p)
  PROVE  Tuned(p)' /\ Measured(p)'
<1>1. CASE PowRefill(p)
  <2>1. CASE Shutdown(p)
    BY <1>1, <2>1, GivenUp DEF PowRefill
  <2>2. CASE ~Shutdown(p)
    <3>1. /\ pc[p] = "refill" /\ pc'[p] = "rssi" /\ w[p] <= Len(captured[p])
          /\ UNCHANGED <<w, radio, arg, captured, rssi, out, disturbed>>
      BY <1>1, <2>2 DEF PowRefill, Goto, kept, results, ToolControl
    <3>2. Tuned(p)'
      BY <3>1 DEF Tuned, As, HasBuffer
    <3>3. Measured(p)'
      BY <3>1 DEF Measured
    <3> QED
      BY <3>2, <3>3
  <2> QED
    BY <2>1, <2>2
<1>2. CASE PowRssi(p)
  <2>1. /\ pc[p] = "rssi" /\ out[p] = Nothing /\ w[p] <= Len(captured[p])
        /\ Len(captured[p]) <= Refills /\ radio["rx_mode"] = 0 /\ radio["rx_gain"] = arg[p].gain
    BY <1>2 DEF PowRssi, Measured, Tuned
  <2>2. /\ UNCHANGED <<radio, arg, captured, out, disturbed>>
        /\ \/ pc'[p] = "refill"
           \/ pc'[p] = "print" /\ ~(w[p] < Refills)
        /\ rssi'[p] \in {rssi[p], <<radio["rx_mode"], radio["rx_gain"]>>}
    BY <1>2 DEF PowRssi, Goto, ToolControl, ToolData
  <2>3. Tuned(p)'
    BY <2>1, <2>2 DEF Tuned, As, HasBuffer
  <2>4. Len(captured[p]) \in Nat /\ w[p] \in 1 .. 4
    <3>1. captured[p] \in Seq([Receiver \cup Amplifier -> Int])
      BY DEF ToolData
    <3> QED
      BY <3>1 DEF ToolControl
  <2>5. pc'[p] = "print" => Len(captured[p]) = Refills
    <3>1. pc'[p] = "print" => ~(w[p] < 2)
      BY <2>2 DEF Refills
    <3>2. w[p] <= Len(captured[p]) /\ Len(captured[p]) <= 2
      BY <2>1 DEF Refills
    <3> DEFINE len == Len(captured[p])
    <3> HIDE DEF len
    <3>3. ~(w[p] < 2) /\ w[p] <= len /\ len <= 2 /\ len \in Nat /\ w[p] \in 1 .. 4 => len = 2
      OBVIOUS
    <3> QED
      BY <2>4, <3>1, <3>2, <3>3 DEF len, Refills
  <2>6. rssi'[p] \in {<<>>, <<0, arg[p].gain>>}
    BY <2>1, <2>2 DEF Measured
  <2>7. Measured(p)'
    BY <2>1, <2>2, <2>5, <2>6 DEF Measured
  <2> QED
    BY <2>3, <2>7
<1>3. CASE PowPrint(p)
  <2>1. /\ pc[p] = "print" /\ pc'[p] = "exit0" /\ out'[p] = arg[p].lo
        /\ UNCHANGED <<radio, arg, captured, rssi, disturbed>>
    BY <1>3 DEF PowPrint, Goto, ToolControl, ToolData
  <2>2. Tuned(p)'
    BY <2>1 DEF Tuned, HasBuffer
  <2>3. Measured(p)'
    BY <2>1 DEF Measured
  <2> QED
    BY <2>2, <2>3
<1> QED
  BY <1>1, <1>2, <1>3

(* The steps before a measurement. *)
LEMMA BeforeMeasured ==
  ASSUME ToolControl, ToolData, NEW p \in Proc, PowArguments(p) \/ PowScan(p) \/ PowBuffer(p),
         Tuned(p), Measured(p)
  PROVE  Tuned(p)' /\ Measured(p)'
<1>1. /\ pc[p] \in {"start", "scan", "buffer"} /\ pc[p] # "exit0"
      /\ captured[p] = <<>> /\ rssi[p] = <<>> /\ out[p] = Nothing
  BY DEF PowArguments, PowScan, PowBuffer, Measured
<1>2. CASE Shutdown(p) \/ Abort(p)
  BY <1>1, <1>2, GivenUp
<1>3. CASE ~Shutdown(p) /\ ~Abort(p)
  <2>1. /\ UNCHANGED <<w, radio, arg, captured, rssi, out, disturbed>>
        /\ \/ pc'[p] = "usage"
           \/ pc'[p] = "scan"
           \/ pc[p] = "scan" /\ pc'[p] = "stream"
           \/ pc[p] = "buffer" /\ pc'[p] = "gain"
    BY <1>3 DEF PowArguments, PowScan, PowBuffer, Goto, kept, results, ToolControl
  <2>2. pc[p] \in {"scan", "buffer"} => w[p] = 1
    BY DEF ToolControl, Phase
  <2>3. Tuned(p)'
    BY <2>1, <2>2 DEF Tuned, As, HasBuffer
  <2>4. Measured(p)'
    BY <1>1, <2>1, NothingMeasured
  <2> QED
    BY <2>3, <2>4
<1> QED
  BY <1>2, <1>3

(* The transmitters and plutoset measure nothing. *)
LEMMA WritersMeasure ==
  ASSUME ToolControl, ToolData, NEW p \in Proc, Transmit(p) \/ SetSetup(p), Tuned(p), Measured(p)
  PROVE  Tuned(p)' /\ Measured(p)'
<1>1. CASE SsbSetup(p) \/ PlutossbSetup(p) \/ SetSetup(p)
  <2>1. pc[p] = "start" /\ captured[p] = <<>> /\ rssi[p] = <<>> /\ out[p] = Nothing
    BY <1>1 DEF SsbSetup, PlutossbSetup, SetSetup, Measured
  <2>2. pc'[p] \in {"start", "new", "exit0", "abort"}
    <3>1. \A next \in {"new", "exit0"} :
            More(p) \/ Last(p, next) => pc'[p] \in {"start", "new", "exit0", "abort"}
      BY <2>1 DEF More, Last, ToolControl
    <3>2. Ended(p, "abort") => pc'[p] = "abort"
      BY DEF Ended, Goto, ToolControl
    <3> QED
      BY <1>1, <3>1, <3>2, SsbWrites, PlutossbWrites, SetWrites
  <2>3. captured' = captured /\ rssi' = rssi /\ out' = out /\ arg' = arg
    BY <1>1, SsbWrites, PlutossbWrites, SetWrites
       DEF Sets, Skips, Write, Ended, kept, results
  <2>4. Tuned(p)'
    BY <2>2 DEF Tuned, HasBuffer
  <2> QED
    BY <2>1, <2>2, <2>3, <2>4, NothingMeasured
<1>2. CASE Graph(p) \/ GraphEnds(p)
  <2>1. PICK l \in {"load", "begin", "send", "error", "exit0"} : Ended(p, l)
    BY <1>2 DEF Graph, GraphEnds
  <2>2. pc'[p] = l /\ UNCHANGED <<arg, captured, rssi, out, disturbed>>
    BY <2>1 DEF Ended, Goto, kept, results, ToolControl
  <2>3. pc[p] # "exit0"
    BY <1>2 DEF Graph, GraphEnds
  <2>4. Tuned(p)'
    BY <2>2 DEF Tuned, HasBuffer
  <2>5. Measured(p)'
    BY <2>2, <2>3 DEF Measured
  <2> QED
    BY <2>4, <2>5
<1> QED
  BY <1>1, <1>2 DEF Transmit

(* Once a block is under the gain asked for, the radio is until the buffer is given back. *)
Steady(p) ==
  /\ \A n, m \in 1 .. Len(captured[p]) : n < m /\ UnderGain(p, n) => UnderGain(p, m)
  /\ pc[p] \in HasBuffer => \A n \in 1 .. Len(captured[p]) :
       UnderGain(p, n) => radio["rx_mode"] = 0 /\ radio["rx_gain"] = arg[p].gain

(* Nothing captured, or what was captured kept under the same gain. *)
LEMMA SteadyKept ==
  ASSUME ToolControl, ToolData, NEW q \in Proc, Steady(q), arg' = arg,
         \/ captured'[q] = <<>>
         \/ /\ captured'[q] = captured[q]
            /\ pc'[q] \in HasBuffer => pc[q] \in HasBuffer
            /\ pc[q] \in HasBuffer => radio'["rx_mode"] \in {0, radio["rx_mode"]}
                                      /\ radio'["rx_gain"] \in {arg[q].gain, radio["rx_gain"]}
  PROVE  Steady(q)'
<1>1. CASE captured'[q] = <<>>
  BY <1>1 DEF Steady
<1>2. CASE captured'[q] # <<>>
  BY <1>2 DEF Steady, UnderGain
<1> QED
  BY <1>1, <1>2

LEMMA CaptureSteady ==
  ASSUME ToolControl, ToolData, NEW p \in Proc, Capture(p), Steady(p)
  PROVE  Steady(p)'
<1> DEFINE asked == radio["rx_mode"] = 0 /\ radio["rx_gain"] = arg[p].gain
<1>1. pc[p] \in HasBuffer /\ UNCHANGED <<pc, radio, arg>>
  BY DEF Capture, ToolControl
<1>2. PICK len \in Nat : len = Len(captured[p])
  <2>1. captured[p] \in Seq([Receiver \cup Amplifier -> Int])
    BY DEF ToolData
  <2> QED
    BY <2>1
<1>3. Len(captured'[p]) = len + 1
  BY <1>2, CaptureOne
<1>4. \A n \in 1 .. len : UnderGain(p, n)' <=> UnderGain(p, n)
  BY <1>1, <1>2, CaptureOne DEF UnderGain
<1>5. UnderGain(p, len + 1)' <=> asked
  BY <1>1, <1>2, CaptureOne DEF UnderGain, Amplifier
<1>6. \A n \in 1 .. len : UnderGain(p, n) => asked
  BY <1>1, <1>2 DEF Steady
<1>7. \A n, m \in 1 .. len : n < m /\ UnderGain(p, n) => UnderGain(p, m)
  BY <1>2 DEF Steady
<1>8. \A n \in 1 .. len + 1 : UnderGain(p, n)' => asked
  <2> HIDE DEF asked
  <2> SUFFICES ASSUME NEW n \in 1 .. len + 1, UnderGain(p, n)' PROVE asked
    OBVIOUS
  <2>1. CASE n = len + 1
    BY <1>5, <2>1
  <2>2. CASE n \in 1 .. len
    BY <1>4, <1>6, <2>2
  <2> QED
    BY <1>2, <2>1, <2>2
<1>9. \A n, m \in 1 .. len + 1 : n < m /\ UnderGain(p, n)' => UnderGain(p, m)'
  <2> HIDE DEF asked
  <2> SUFFICES ASSUME NEW n \in 1 .. len + 1, NEW m \in 1 .. len + 1, n < m, UnderGain(p, n)'
               PROVE  UnderGain(p, m)'
    OBVIOUS
  <2>1. n \in 1 .. len
    BY <1>2
  <2>2. CASE m = len + 1
    BY <1>5, <1>8, <2>2
  <2>3. CASE m \in 1 .. len
    BY <1>4, <1>7, <2>1, <2>3
  <2> QED
    BY <1>2, <2>2, <2>3
<1> QED
  BY <1>1, <1>3, <1>8, <1>9 DEF Steady

LEMMA SteadyStep ==
  ASSUME ToolControl, ToolData, NEW p \in Proc, NEW q \in Proc,
         Pow(p) \/ Transmit(p) \/ SetSetup(p), Measured(q), Steady(q)
  PROVE  Steady(q)'
<1>1. Moves(p) /\ arg' = arg
  BY ToolSettles DEF Settles, Moves
<1>2. Shared(p)
  BY ToolShared
<1>3. CASE q = p
  <2>1. CASE Capture(p)
    BY <1>3, <2>1, CaptureSteady
  <2>2. CASE ~Capture(p)
    <3>1. captured'[p] \in {captured[p], <<>>}
      BY <1>2, <2>2, SetsOne DEF Shared, Forget, PowRssi, PowPrint, ToolData
    <3>2. CASE captured[p] = <<>>
      BY <1>1, <1>3, <3>1, <3>2, SteadyKept
    <3>3. CASE captured[p] # <<>>
      <4>1. pc[p] \notin {"start", "scan", "stream", "buffer"}
        BY <1>3, <3>3 DEF Measured
      <4>2. \/ PowGain(p)
            \/ PowRefill(p) \/ PowRssi(p) \/ PowPrint(p) \/ Graph(p) \/ GraphEnds(p)
        BY <2>2, <4>1 DEF Pow, Transmit, PowArguments, PowScan, PowStream, PowBuffer,
           SsbSetup, PlutossbSetup, SetSetup
      <4>3. CASE PowGain(p)
        <5>1. pc[p] \in HasBuffer
          BY <4>3 DEF PowGain, HasBuffer
        <5>2. /\ radio'["rx_mode"] \in {0, radio["rx_mode"]}
              /\ radio'["rx_gain"] \in {arg[p].gain, radio["rx_gain"]}
          <6>1. {"rx_mode", "rx_gain"} \subseteq Attributes
            BY DEF Attributes
          <6>2. Shutdown(p) => radio' = radio
            BY DEF Shutdown, Forget
          <6> QED
            BY <4>3, <6>1, <6>2, GainWrites, SetsOne DEF Zero
        <5> QED
          BY <1>1, <1>3, <3>1, <5>1, <5>2, SteadyKept
      <4>4. CASE PowRefill(p) \/ PowRssi(p) \/ PowPrint(p)
        <5>1. pc[p] \in HasBuffer /\ radio' = radio
          BY <4>4 DEF PowRefill, PowRssi, PowPrint, Shutdown, Forget, HasBuffer
        <5> QED
          BY <1>1, <1>3, <3>1, <5>1, SteadyKept
      <4>5. CASE Graph(p) \/ GraphEnds(p)
        <5>1. radio' = radio /\ pc'[p] \in {"load", "begin", "send", "error", "exit0"}
          BY <4>5 DEF Graph, GraphEnds, Ended, Goto, kept, results, ToolControl
        <5>2. pc'[p] \notin HasBuffer
          BY <5>1 DEF HasBuffer
        <5> QED
          BY <1>1, <1>3, <3>1, <5>1, <5>2, SteadyKept
      <4> QED
        BY <4>2, <4>3, <4>4, <4>5
    <3> QED
      BY <3>2, <3>3
  <2> QED
    BY <2>1, <2>2
<1>4. CASE q # p
  <2>1. pc'[q] = pc[q]
    BY <1>1, <1>4 DEF Moves
  <2>2. captured'[q] = captured[q]
    BY <1>2, <1>4, SetsOne, CaptureOne DEF Shared, Forget, PowRssi, PowPrint, ToolData
  <2>3. pc[q] \in HasBuffer => radio'["rx_mode"] = radio["rx_mode"]
                               /\ radio'["rx_gain"] = radio["rx_gain"]
    <3>1. pc[q] \in HasBuffer => pc[p] # "gain"
      BY <1>4 DEF ToolControl, HasBuffer
    <3> QED
      BY <1>2, <3>1, SetsOne DEF Shared, Attributes
  <2> QED
    BY <1>1, <2>1, <2>2, <2>3, SteadyKept
<1> QED
  BY <1>3, <1>4

(* What every measurement has set up and measured is sound. *)
Sound == \A p \in Proc : Tuned(p) /\ Measured(p)

LEMMA SoundAlways == Spec => []Sound
<1>1. Init => Sound
  BY DEF Init, Sound, Tuned, Measured, Nothing, Refills, HasBuffer
<1>2. ToolControl /\ ToolData /\ Sound /\ [Next]_vars => Sound'
  <2> SUFFICES ASSUME ToolControl, ToolData, Sound, [Next]_vars
               PROVE  Sound'
    OBVIOUS
  <2>1. CASE UNCHANGED vars
    BY <2>1 DEF vars, Sound, Tuned, Measured, As
  <2>2. ASSUME NEW p \in Proc, Pow(p) \/ Transmit(p) \/ SetSetup(p)
        PROVE  Sound'
    <3>1. Tuned(p)' /\ Measured(p)'
      BY <2>2, StreamTuned, GainTuned, CaptureMeasured, RefillMeasured, BeforeMeasured,
         WritersMeasure DEF Pow, Sound
    <3>2. \A q \in Proc : q # p => Tuned(q)' /\ Measured(q)'
      BY <2>2, OthersKept DEF Sound
    <3> QED
      BY <3>1, <3>2 DEF Sound
  <2> QED
    BY <2>1, <2>2 DEF Next, AllOver
<1> QED
  BY <1>1, <1>2, ToolTypes, PTL DEF Spec

(* A printed result is of what was asked for, however the tools are interleaved and
   wherever they fail. *)
THEOREM MeasuredAlways == Spec => []MeasuredAsAsked
<1>1. Sound => MeasuredAsAsked
  BY DEF Sound, Measured, MeasuredAsAsked
<1> QED
  BY <1>1, SoundAlways, PTL

(* The gain of a measurement comes to what was asked for and stays, whatever other
   tools do at once. *)
THEOREM GainHeldAlways == Spec => []GainHeld
<1> DEFINE Still == \A p \in Proc : Steady(p)
<1>1. Init => Still
  BY DEF Init, Steady
<1>2. ToolControl /\ ToolData /\ Sound /\ Still /\ [Next]_vars => Still'
  <2> SUFFICES ASSUME ToolControl, ToolData, Sound, Still, [Next]_vars
               PROVE  Still'
    OBVIOUS
  <2>1. CASE UNCHANGED vars
    BY <2>1 DEF vars, Steady, UnderGain
  <2>2. ASSUME NEW p \in Proc, Pow(p) \/ Transmit(p) \/ SetSetup(p)
        PROVE  Still'
    BY <2>2, SteadyStep DEF Sound
  <2> QED
    BY <2>1, <2>2 DEF Next, AllOver
<1>3. Still => GainHeld
  BY DEF Steady, GainHeld
<1> QED
  BY <1>1, <1>2, <1>3, ToolTypes, SoundAlways, PTL DEF Spec

==================================================================================
