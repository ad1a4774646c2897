----------------------------- MODULE RtcProofs -----------------------------
(***************************************************************************)
(* Proofs about Rtc, for every length of a minute, every delay of the      *)
(* alarm, every sequence of dates and every state of register B at the     *)
(* start.                                                                  *)
(***************************************************************************)
EXTENDS Rtc, SequenceTheorems, TLAPS

\* A number of two digits survives the chip's coding and bcd_to_int.
LEMMA BcdRoundTrip == \A n \in 0..99 : Bcd(n) \in 0..153 /\ Bcd_to_int(Bcd(n)) = n
BY DEF Bcd, Bcd_to_int

\* A code is a number.
LEMMA BcdNat == \A n \in 0..99 : Bcd(n) \in Nat
BY DEF Bcd

\* int_to_bcd writes what the chip reads.
LEMMA IntToBcdIsBcd == \A n \in 0..99 : Int_to_bcd(n) = Bcd(n)
BY DEF Bcd, Int_to_bcd

-----------------------------------------------------------------------------

\* Who may still interrupt: after the start UIE is clear and AIE set; a
\* notification, pending or being handled, is then one of an alarm whose flag
\* is still up, and never both at once.
OnlyAlarms ==
  /\ "UIE" \in regB => at \in {"start", "updates"}
  /\ at # "start" => "AIE" \in regB
  /\ Starting => ~notified
  /\ "PIE" \notin regB /\ notified => "AF" \in regC /\ at # "handler"
  /\ "PIE" \notin regB /\ at = "handler" => "AF" \in regC

\* The part of the types the argument needs.
FlowOK == then \in {"idle", "clock"} /\ notified \in BOOLEAN /\ rtc_interrupt \in BOOLEAN

LEMMA OnlyAlarmsInit == Init => OnlyAlarms /\ FlowOK
BY BootAssumption DEF Init, OnlyAlarms, FlowOK, Starting

LEMMA OnlyAlarmsStep == OnlyAlarms /\ FlowOK /\ [Next]_vars => (OnlyAlarms /\ FlowOK)'
<1> SUFFICES ASSUME OnlyAlarms, FlowOK, [Next]_vars PROVE (OnlyAlarms /\ FlowOK)'
  OBVIOUS
<1> USE DEF OnlyAlarms, FlowOK, Starting, Goes
<1>1. CASE Chip
  <2>1. CASE Announce \/ StartUpdate
    BY <2>1 DEF Announce, StartUpdate, regs, program
  <2>2. CASE EndUpdate
    BY <2>2 DEF EndUpdate, Set, Line, program
  <2> QED
    BY <1>1, <2>1, <2>2 DEF Chip
<1>2. CASE Periodic
  BY <1>2 DEF Periodic, Set, Line, program
<1>3. CASE Start
  BY <1>3 DEF Start, StartAlarm, StartUpdates, StartPeriodic, Rtc_subscribe, Set, Line,
     Enable_alarm_int, Disable_updates, Disable_periodic_int
<1>4. CASE Set_seconds_alarm \/ ReadNow \/ Set_timed_alarm \/ SetRest \/ ReadUip \/ Read_date
  BY <1>4 DEF Set_seconds_alarm, ReadNow, Set_timed_alarm, SetRest, ReadUip, Read_date,
     ReadField, regs
<1>5. CASE HoldUpdates \/ ReleaseUpdates
  BY <1>5 DEF HoldUpdates, ReleaseUpdates, Disable_updates, Enable_updates, Set, Line
<1>6. CASE Receive
  BY <1>6 DEF Receive
<1>7. CASE Rtc_handler
  BY <1>7 DEF Rtc_handler, Clear_interruptions, Set, Line
<1>8. CASE Event \/ Update_status_rtc
  BY <1>8 DEF Event, Update_status_rtc, ToRtc, regs
<1>9. CASE UNCHANGED vars
  BY <1>9 DEF vars, regs, program
<1> QED
  BY <1>1, <1>2, <1>3, <1>4, <1>5, <1>6, <1>7, <1>8, <1>9 DEF Next, Program

\* The clock of a game runs only on an alarm of this very notification: the
\* flag rtc_interrupt, which rtc_handler does not reset, is never used stale.
THEOREM EveryTickIsAnAlarm == Spec => TicksAreAlarms
<1>1. Spec => [](OnlyAlarms /\ FlowOK)
  BY OnlyAlarmsInit, OnlyAlarmsStep, PTL DEF Spec
<1>2. ASSUME OnlyAlarms, FlowOK, [Next]_vars
      PROVE  [at # "event" /\ at' = "event" /\ rtc_interrupt' /\ "PIE" \notin regB
                => at = "handler" /\ "AF" \in regC]_vars
  <2> USE DEF OnlyAlarms, FlowOK, Goes
  <2>1. CASE Chip \/ Periodic
    BY <2>1 DEF Chip, Announce, StartUpdate, EndUpdate, Periodic, program
  <2>2. CASE Program
    <3>1. CASE Receive
      <4>1. CASE notified
        BY <3>1, <4>1 DEF Receive
      <4>2. CASE ~notified
        <5>1. ~rtc_interrupt'
          BY <3>1, <4>2 DEF Receive
        <5> QED
          BY <5>1, Zenon
      <4> QED
        BY <4>1, <4>2
    <3>5. CASE Rtc_handler
      <4>1. at = "handler"
        BY <3>5 DEF Rtc_handler
      <4>2. "PIE" \notin regB => "AF" \in regC
        BY <1>2, <4>1
      <4> QED
        BY <4>1, <4>2, Zenon
    <3>2. CASE Start
      BY <3>2 DEF Start, StartAlarm, StartUpdates, StartPeriodic, Rtc_subscribe
    <3>3. CASE Set_seconds_alarm \/ ReadNow \/ Set_timed_alarm \/ SetRest \/ ReadUip \/ Read_date
      <4>1. at' # "event"
        BY <1>2, <3>3 DEF Set_seconds_alarm, ReadNow, Set_timed_alarm, SetRest, ReadUip,
           Read_date, ReadField
      <4> QED
        BY <4>1
    <3>4. CASE HoldUpdates \/ ReleaseUpdates \/ Event \/ Update_status_rtc
      BY <3>4 DEF HoldUpdates, ReleaseUpdates, Event, Update_status_rtc, ToRtc
    <3> QED
      BY <2>2, <3>1, <3>2, <3>3, <3>4, <3>5 DEF Program
  <2> QED
    BY <1>2, <2>1, <2>2 DEF Next
<1> QED
  BY <1>1, <1>2, PTL DEF Spec, TicksAreAlarms

-----------------------------------------------------------------------------
(* The date                                                                *)

\* read_date saw no update announced, so none is under way; what it has read is
\* of the day that still is, and that day is one of those get_date ran on.
DateInv ==
  /\ today \in DOMAIN Dates
  /\ new_date \in [year : Int, month : Int, day : Int]
  /\ at \in {"uip", "year", "month", "day"} => today \in days
  /\ at \in {"year", "month", "day"} => upd # "busy"
  /\ at \in {"month", "day"} => new_date.year = Dates[today].year
  /\ at = "day" => new_date.month = Dates[today].month
  /\ DateWhole

LEMMA DateInvInit == Init => DateInv
<1>1. 1 \in DOMAIN Dates
  BY DatesAssumption
<1> QED
  BY <1>1 DEF Init, DateInv, DateWhole, NoDate

LEMMA DateInvStep ==
  ASSUME ~Preempted
  PROVE  DateInv /\ FlowOK /\ [Next]_vars => DateInv'
<1> SUFFICES ASSUME DateInv, FlowOK, [Next]_vars PROVE DateInv'
  OBVIOUS
<1> USE DEF DateInv, DateWhole, Goes
<1>1. CASE Announce \/ StartUpdate
  BY <1>1 DEF Announce, StartUpdate, program, history
<1>2. CASE EndUpdate
  <2>1. upd = "busy" /\ UNCHANGED <<at, new_date>> /\ days \subseteq days'
    BY <1>2 DEF EndUpdate, program
  <2>2. today' \in DOMAIN Dates /\ (today \in days => today' \in days')
    BY <1>2, DatesAssumption DEF EndUpdate
  <2> QED
    BY <2>1, <2>2
<1>3. CASE Periodic
  BY <1>3 DEF Periodic, clock, program, history
<1>4. CASE HoldUpdates \/ ReleaseUpdates
  BY <1>4 DEF HoldUpdates, ReleaseUpdates, clock, NoDate
<1>5. CASE ReadUip
  BY <1>5 DEF ReadUip, UpdateInProgress, clock, history
<1>6. CASE Read_date
  <2>1. Dates[today] \in [year : 0..99, month : 1..12, day : 1..31]
    <3> DEFINE Days == [year : 0..99, month : 1..12, day : 1..31]
    <3>1. Dates \in Seq(Days) /\ today \in 1..Len(Dates)
      BY DatesAssumption, LenProperties
    <3> HIDE DEF Days
    <3>2. Dates[today] \in Days
      BY <3>1, ElementOfSeq
    <3> QED
      BY <3>2 DEF Days
  <2>2. ASSUME NEW f \in {"year", "month", "day"}, NEW to, ReadField(f, to)
        PROVE  /\ at = f /\ at' = to /\ UNCHANGED <<clock, days>>
               /\ new_date' = [new_date EXCEPT ![f] = Dates[today][f]]
    <3>1. at = f /\ at' = to /\ UNCHANGED <<clock, days>> /\ upd # "busy"
      BY <2>2 DEF ReadField, history
    <3>2. Dates[today][f] \in 0..99
      BY <2>1
    <3>3. Bcd_to_int(Bcd(Dates[today][f])) = Dates[today][f]
      BY <3>2, BcdRoundTrip
    <3> QED
      BY <2>2, <3>1, <3>3 DEF ReadField, Shown
  <2>3. CASE ReadField("year", "month")
    BY <2>1, <2>2, <2>3 DEF clock
  <2>4. CASE ReadField("month", "day")
    BY <2>1, <2>2, <2>4 DEF clock
  <2>5. CASE ReadField("day", "got")
    <3>1. at = "day" /\ at' = "got" /\ UNCHANGED <<clock, days>>
          /\ new_date' = [new_date EXCEPT !["day"] = Dates[today]["day"]]
      BY <2>2, <2>5
    <3>2. new_date' = Dates[today]
      BY <2>1, <3>1
    <3>3. new_date' \in [year : Int, month : Int, day : Int]
      BY <2>1, <3>2
    <3>4. today' = today /\ today \in days' /\ upd' = upd
      BY <3>1 DEF clock
    <3>5. DateWhole'
      BY <3>2, <3>4
    <3> QED
      BY <3>1, <3>3, <3>4, <3>5
  <2> QED
    BY <1>6, <2>3, <2>4, <2>5 DEF Read_date
<1>7. CASE Start \/ Set_seconds_alarm \/ ReadNow \/ Set_timed_alarm \/ SetRest
  BY <1>7 DEF Start, StartAlarm, StartUpdates, StartPeriodic, Rtc_subscribe, Set_seconds_alarm,
     ReadNow, Set_timed_alarm, SetRest, clock, history, FlowOK
<1>8. CASE Receive \/ Rtc_handler \/ Event \/ Update_status_rtc
  BY <1>8 DEF Receive, Rtc_handler, Event, Update_status_rtc, ToRtc, clock, history
<1>9. CASE UNCHANGED vars
  BY <1>9 DEF vars, clock, program, history
<1> QED
  BY <1>1, <1>2, <1>3, <1>4, <1>5, <1>6, <1>7, <1>8, <1>9 DEF Next, Chip, Program

\* get_date returns the date of one day, as long as the program is not held up for
\* longer than the chip announces an update: what guards it is the look at UIP,
\* not disable_updates, which does not hold the updates.
THEOREM DateIsOfOneDay ==
  ASSUME ~Preempted
  PROVE  Spec => []DateWhole
<1>1. Spec => [](OnlyAlarms /\ FlowOK)
  BY OnlyAlarmsInit, OnlyAlarmsStep, PTL DEF Spec
<1>2. DateInv => DateWhole
  BY DEF DateInv
<1> QED
  BY <1>1, <1>2, DateInvInit, DateInvStep, PTL DEF Spec

-----------------------------------------------------------------------------
(* The timed alarm                                                         *)

\* A sum of a second and a delay passes the minute once at most.
LEMMA ModOnce ==
  ASSUME NEW m \in Nat, m >= 1, NEW a \in Nat, a < 2 * m
  PROVE  a % m = IF a < m THEN a ELSE a - m
OBVIOUS

\* The second asked for is the one that comes after so many updates, and none of
\* the updates before it.
LEMMA RingsOnce ==
  ASSUME NEW t \in 0..(MINUTE - 1), NEW w \in 0..(SECONDS - 1)
  PROVE  /\ (((t + w) % MINUTE) + 1) % MINUTE = (t + (w + 1)) % MINUTE
         /\ (t + (w + 1)) % MINUTE = (t + SECONDS) % MINUTE <=> w + 1 = SECONDS
<1>1. MINUTE \in Nat /\ MINUTE >= 2 /\ SECONDS \in Nat /\ SECONDS < MINUTE
  BY MinuteAssumption
<1>2. \A a \in Nat : a < 2 * MINUTE => a % MINUTE = IF a < MINUTE THEN a ELSE a - MINUTE
  <2> SUFFICES ASSUME NEW a \in Nat, a < 2 * MINUTE
               PROVE  a % MINUTE = IF a < MINUTE THEN a ELSE a - MINUTE
    OBVIOUS
  <2> QED
    BY <1>1, ModOnce, MINUTE >= 1
<1>3. /\ (t + w) % MINUTE = IF t + w < MINUTE THEN t + w ELSE t + w - MINUTE
      /\ (t + (w + 1)) % MINUTE = IF t + (w + 1) < MINUTE THEN t + (w + 1)
                                  ELSE t + (w + 1) - MINUTE
      /\ (t + SECONDS) % MINUTE = IF t + SECONDS < MINUTE THEN t + SECONDS
                                  ELSE t + SECONDS - MINUTE
  BY <1>1, <1>2
<1>4. (((t + w) % MINUTE) + 1) % MINUTE =
        IF ((t + w) % MINUTE) + 1 < MINUTE THEN ((t + w) % MINUTE) + 1
        ELSE ((t + w) % MINUTE) + 1 - MINUTE
  BY <1>1, <1>2, <1>3
<1> QED
  BY <1>1, <1>3, <1>4

\* The second (t + n) of a minute that began at t, as the chip has it.
LEMMA SecondInMinute ==
  ASSUME NEW a \in Nat
  PROVE  /\ a % MINUTE \in 0..(MINUTE - 1) /\ a % MINUTE \in 0..99
BY MinuteAssumption

\* Different seconds have different codes.
LEMMA BcdInjective ==
  ASSUME NEW a \in 0..99, NEW b \in 0..99
  PROVE  Bcd(a) = Bcd(b) <=> a = b
BY BcdRoundTrip

\* A sound reading is the second t from which waited counts.
ReadAt(t) ==
  /\ t \in 0..(MINUTE - 1)
  /\ now_read = Bcd(t)
  /\ waited < SECONDS => now = (t + waited) % MINUTE

\* An alarm set from such a reading rings with the update that ends the wait.
SetFrom(t) ==
  /\ t \in 0..(MINUTE - 1)
  /\ alarm.seconds = Bcd((t + SECONDS) % MINUTE)
  /\ waited < SECONDS => now = (t + waited) % MINUTE /\ ~rang
  /\ waited >= SECONDS => rang

AlarmType ==
  /\ now \in 0..(MINUTE - 1)
  /\ waited \in 0..SECONDS
  /\ sound \in BOOLEAN /\ rang \in BOOLEAN
  /\ alarm \in [seconds : Int, rest : BOOLEAN]
  /\ now_read \in Nat
  /\ then \in {"idle", "clock"}

AlarmInv ==
  /\ AlarmType
  /\ alarm.rest \/ Starting \/ at = "any" \/ (at = "rest" /\ alarm.seconds = ANY)
  /\ at = "seconds" /\ sound => \E t \in 0..(MINUTE - 1) : ReadAt(t)
  /\ alarm.rest /\ alarm.seconds # ANY /\ at # "seconds" /\ sound =>
       \E t \in 0..(MINUTE - 1) : SetFrom(t)

LEMMA AlarmInvInit == Init => AlarmInv
<1> SUFFICES ASSUME Init PROVE AlarmInv
  OBVIOUS
<1>1. 0 \in 0..SECONDS
  BY MinuteAssumption
<1>2. AlarmType
  <2>1. alarm \in [seconds : Int, rest : BOOLEAN]
    BY DEF Init
  <2>2. /\ now \in 0..(MINUTE - 1) /\ waited \in 0..SECONDS /\ now_read \in Nat
        /\ then \in {"idle", "clock"}
    BY <1>1 DEF Init
  <2>3. sound \in BOOLEAN /\ rang \in BOOLEAN
    BY Zenon DEF Init
  <2> QED
    BY <2>1, <2>2, <2>3, Zenon DEF AlarmType
<1>3. Starting /\ at # "seconds" /\ ~sound
  BY DEF Init, Starting
<1> QED
  BY <1>2, <1>3, Zenon DEF AlarmInv

\* A step that touches neither the clock nor the alarm.
LEMMA AlarmInvIdle ==
  ASSUME AlarmInv, UNCHANGED <<now, alarm, now_read, waited, sound, rang>>,
         then' \in {"idle", "clock"}, at' # "seconds", at # "seconds",
         alarm.rest \/ Starting' \/ at' = "any" \/ (at' = "rest" /\ alarm.seconds = ANY)
  PROVE  AlarmInv'
BY DEF AlarmInv, AlarmType, SetFrom

\* An update: one second on, and the alarm rings or not.
LEMMA AlarmInvUpdate == AlarmInv /\ EndUpdate => AlarmInv'
<1> SUFFICES ASSUME AlarmInv, EndUpdate PROVE AlarmInv'
  OBVIOUS
<1>1. /\ now' = (now + 1) % MINUTE
      /\ waited' = IF waited < SECONDS THEN waited + 1 ELSE waited
      /\ rang' = (rang \/ Matches(now'))
      /\ UNCHANGED <<alarm, at, then, now_read, sound>>
  BY DEF EndUpdate, program
<1>2. MINUTE \in Nat /\ MINUTE >= 2 /\ SECONDS \in Nat /\ SECONDS >= 1 /\ SECONDS < MINUTE
  BY MinuteAssumption
<1>3. AlarmType'
  <2>1. now' \in 0..(MINUTE - 1)
    BY <1>1, SecondInMinute DEF AlarmInv, AlarmType
  <2>2. waited' \in 0..SECONDS
    BY <1>1, <1>2 DEF AlarmInv, AlarmType
  <2>3. rang' \in BOOLEAN
    BY <1>1, Zenon DEF Matches
  <2> QED
    BY <1>1, <2>1, <2>2, <2>3 DEF AlarmInv, AlarmType
<1>4. alarm.rest' \/ Starting' \/ at' = "any" \/ (at' = "rest" /\ alarm'.seconds = ANY)
  BY <1>1 DEF AlarmInv, Starting
<1>5. ASSUME at = "seconds", sound PROVE \E t \in 0..(MINUTE - 1) : ReadAt(t)'
  <2>1. PICK t \in 0..(MINUTE - 1) : ReadAt(t)
    BY <1>5 DEF AlarmInv
  <2>2. waited \in 0..SECONDS
    BY DEF AlarmInv, AlarmType
  <2>3. ASSUME waited' < SECONDS PROVE now' = (t + waited') % MINUTE
    <3>1. waited \in 0..(SECONDS - 1) /\ waited' = waited + 1
      BY <1>1, <1>2, <2>2, <2>3
    <3>2. now = (t + waited) % MINUTE
      BY <1>2, <2>1, <3>1 DEF ReadAt
    <3> QED
      BY <1>1, <3>1, <3>2, RingsOnce
  <2> QED
    BY <1>1, <2>1, <2>3 DEF ReadAt
<1>6. ASSUME alarm.rest, alarm.seconds # ANY, at # "seconds", sound
      PROVE  \E t \in 0..(MINUTE - 1) : SetFrom(t)'
  <2>1. PICK t \in 0..(MINUTE - 1) : SetFrom(t)
    BY <1>6 DEF AlarmInv
  <2>2. waited \in 0..SECONDS
    BY DEF AlarmInv, AlarmType
  <2>3. CASE waited >= SECONDS
    <3>1. waited' = waited /\ rang /\ rang'
      BY <1>1, <1>2, <2>1, <2>2, <2>3 DEF SetFrom
    <3> QED
      BY <1>1, <1>2, <2>1, <2>2, <2>3, <3>1 DEF SetFrom
  <2>4. CASE waited < SECONDS
    <3>1. waited \in 0..(SECONDS - 1) /\ waited' = waited + 1
      BY <1>1, <1>2, <2>2, <2>4
    <3>2. now = (t + waited) % MINUTE /\ ~rang /\ alarm.seconds = Bcd((t + SECONDS) % MINUTE)
      BY <2>1, <2>4 DEF SetFrom
    <3>3. now' = (t + waited') % MINUTE
      BY <1>1, <3>1, <3>2, RingsOnce
    <3>4. now' = (t + SECONDS) % MINUTE <=> waited' = SECONDS
      BY <3>1, <3>3, RingsOnce
    <3>5. t + waited' \in Nat /\ t + SECONDS \in Nat
      BY <1>2, <3>1
    <3>6. now' \in 0..99 /\ (t + SECONDS) % MINUTE \in 0..99
      BY <3>3, <3>5, SecondInMinute
    <3>7. Matches(now') <=> waited' = SECONDS
      BY <1>6, <3>2, <3>4, <3>6, BcdInjective DEF Matches
    <3>8. rang' <=> waited' = SECONDS
      BY <1>1, <3>2, <3>7, Zenon
    <3>9. waited' <= SECONDS /\ waited' \in Nat
      BY <1>2, <3>1
    <3>10. /\ waited' < SECONDS => now' = (t + waited') % MINUTE /\ ~rang'
           /\ waited' >= SECONDS => rang'
      BY <1>2, <3>3, <3>8, <3>9
    <3> QED
      BY <1>1, <3>2, <3>10 DEF SetFrom
  <2> QED
    BY <1>2, <2>2, <2>3, <2>4
<1> QED
  BY <1>1, <1>3, <1>4, <1>5, <1>6 DEF AlarmInv

\* The accesses of the program: the reading is sound unless it falls into an
\* update; the write takes it over.
LEMMA AlarmInvProgram == AlarmInv /\ Program => AlarmInv'
<1> SUFFICES ASSUME AlarmInv, Program PROVE AlarmInv'
  OBVIOUS
<1> USE DEF Goes
<1>0. AlarmType
  BY DEF AlarmInv
<1>1. CASE Start
  <2>1. /\ Starting /\ at' \in {"updates", "periodic", "subscribe", "any"}
        /\ UNCHANGED <<now, alarm, now_read, waited, sound, rang, then>>
    BY <1>1 DEF Start, StartAlarm, StartUpdates, StartPeriodic, Rtc_subscribe, Starting, clock,
       history
  <2>2. at # "seconds" /\ at' # "seconds" /\ (Starting' \/ at' = "any")
    BY <2>1 DEF Starting
  <2> QED
    BY <1>0, <2>1, <2>2, AlarmInvIdle DEF AlarmType
<1>2. CASE Set_seconds_alarm
  <2>1. /\ at' = "rest" /\ alarm' = [alarm EXCEPT !.seconds = ANY]
        /\ UNCHANGED <<now, then, waited, sound, rang>>
    BY <1>2 DEF Set_seconds_alarm, clock, history
  <2>3. now_read' = now_read
    BY <1>2 DEF Set_seconds_alarm
  <2>2. alarm' \in [seconds : Int, rest : BOOLEAN] /\ alarm'.seconds = ANY
    BY <1>0, <2>1 DEF AlarmType, ANY
  <2> QED
    BY <1>0, <2>1, <2>2, <2>3 DEF AlarmInv, AlarmType
<1>3. CASE ReadNow
  <2>1. /\ at = "now" /\ at' = "seconds" /\ waited' = 0 /\ sound' = (upd # "busy")
        /\ UNCHANGED <<now, alarm, then, rang>>
    BY <1>3 DEF ReadNow, clock
  <2>5. now_read' \in Nat
    <3>1. \E n \in 0..99 : now_read' = Bcd(n)
      BY <1>0, <1>3, MinuteAssumption DEF ReadNow, AlarmType
    <3>2. PICK n \in 0..99 : now_read' = Bcd(n)
      BY <3>1
    <3> QED
      BY <3>2, BcdNat
  <2>2. AlarmType'
    BY <1>0, <2>1, <2>5, MinuteAssumption DEF AlarmType
  <2>3. alarm.rest
    BY <2>1 DEF AlarmInv, Starting
  <2>4. ASSUME sound' PROVE \E t \in 0..(MINUTE - 1) : ReadAt(t)'
    <3>1. now_read' = Bcd(now)
      BY <1>3, <2>1, <2>4 DEF ReadNow
    <3>2. now \in 0..(MINUTE - 1) /\ now = (now + waited') % MINUTE
      BY <1>0, <2>1, MinuteAssumption DEF AlarmType
    <3> QED
      BY <2>1, <3>1, <3>2 DEF ReadAt
  <2> QED
    BY <2>1, <2>2, <2>3, <2>4 DEF AlarmInv
<1>4. CASE Set_timed_alarm
  <2>1. /\ at = "seconds" /\ at' = "rest"
        /\ alarm' = [alarm EXCEPT !.seconds = AlarmSecond]
        /\ rang' = FALSE /\ sound' = (sound /\ waited < SECONDS)
        /\ UNCHANGED <<now, then, waited>>
    BY <1>4 DEF Set_timed_alarm, clock
  <2>2. alarm.rest
    BY <2>1 DEF AlarmInv, Starting
  <2>3. alarm'.seconds = AlarmSecond /\ alarm'.rest /\ sound' \in BOOLEAN
    BY <1>0, <2>1, <2>2 DEF AlarmType
  <2>4. AlarmSecond \in Int /\ now_read' \in Nat
    <3>1. Bcd_to_int(now_read) \in Nat
      BY <1>0 DEF AlarmType, Bcd_to_int
    <3>2. Bcd_to_int(now_read) + SECONDS \in Nat
      BY <3>1, MinuteAssumption
    <3>3. (Bcd_to_int(now_read) + SECONDS) % MINUTE \in 0..99
      BY <3>2, SecondInMinute
    <3>4. AlarmSecond = Bcd((Bcd_to_int(now_read) + SECONDS) % MINUTE)
      BY <3>3, IntToBcdIsBcd DEF AlarmSecond
    <3>5. AlarmSecond \in Nat
      BY <3>3, <3>4, BcdNat
    <3>6. now_read' = 0
      BY <1>4 DEF Set_timed_alarm
    <3> QED
      BY <3>5, <3>6
  <2>5. AlarmType'
    BY <1>0, <2>1, <2>3, <2>4 DEF AlarmType
  <2>6. ASSUME sound' PROVE \E t \in 0..(MINUTE - 1) : SetFrom(t)'
    <3>1. sound /\ waited < SECONDS
      BY <2>1, <2>6
    <3>2. PICK t \in 0..(MINUTE - 1) : ReadAt(t)
      BY <2>1, <3>1 DEF AlarmInv
    <3>3. t \in 0..99 /\ t + SECONDS \in Nat
      BY MinuteAssumption
    <3>4. Bcd_to_int(now_read) = t
      BY <3>2, <3>3, BcdRoundTrip DEF ReadAt
    <3>5. AlarmSecond = Bcd((t + SECONDS) % MINUTE)
      BY <3>3, <3>4, IntToBcdIsBcd, SecondInMinute DEF AlarmSecond
    <3>6. ~(waited >= SECONDS)
      BY <1>0, <3>1, MinuteAssumption DEF AlarmType
    <3> QED
      BY <2>1, <2>3, <3>1, <3>2, <3>5, <3>6 DEF ReadAt, SetFrom
  <2> QED
    BY <2>1, <2>3, <2>5, <2>6 DEF AlarmInv
<1>5. CASE SetRest
  <2>1. /\ at = "rest" /\ at' = then /\ then' = "idle" /\ alarm' = [alarm EXCEPT !.rest = TRUE]
        /\ UNCHANGED <<now, waited, sound, rang, now_read>>
    BY <1>5 DEF SetRest, clock, history
  <2>2. at' # "seconds"
    BY <1>0, <2>1 DEF AlarmType
  <2>3. alarm'.rest /\ alarm'.seconds = alarm.seconds /\ AlarmType'
    BY <1>0, <2>1 DEF AlarmType
  <2>4. alarm.seconds # ANY => alarm.rest
    BY <2>1 DEF AlarmInv, Starting
  <2> QED
    BY <2>1, <2>2, <2>3, <2>4 DEF AlarmInv, SetFrom
<1>6. CASE HoldUpdates \/ ReadUip \/ Read_date \/ ReleaseUpdates \/ Receive \/ Rtc_handler
            \/ Event \/ Update_status_rtc
  <2>1. /\ UNCHANGED <<now, alarm, now_read, waited, sound, rang>>
        /\ then' \in {"idle", "clock"}
        /\ at' # "seconds" /\ at # "seconds"
    BY <1>0, <1>6 DEF HoldUpdates, ReadUip, Read_date, ReadField, ReleaseUpdates, Receive,
       Rtc_handler, Event, Update_status_rtc, ToRtc, AlarmType, clock, history
  <2>2. ~Starting /\ at # "any" /\ at # "rest"
    BY <1>6 DEF HoldUpdates, ReadUip, Read_date, ReadField, ReleaseUpdates, Receive,
       Rtc_handler, Event, Update_status_rtc, Starting
  <2> QED
    BY <2>1, <2>2, AlarmInvIdle DEF AlarmInv
<1> QED
  BY <1>1, <1>2, <1>3, <1>4, <1>5, <1>6 DEF Program

LEMMA AlarmInvStep == AlarmInv /\ [Next]_vars => AlarmInv'
<1> SUFFICES ASSUME AlarmInv, [Next]_vars PROVE AlarmInv'
  OBVIOUS
<1>1. CASE Announce \/ StartUpdate \/ Periodic \/ UNCHANGED vars
  BY <1>1 DEF Announce, StartUpdate, Periodic, vars, clock, program, history, AlarmInv,
     AlarmType, ReadAt, SetFrom, Starting
<1>2. CASE EndUpdate
  BY <1>2, AlarmInvUpdate
<1>3. CASE Program
  BY <1>3, AlarmInvProgram
<1> QED
  BY <1>1, <1>2, <1>3 DEF Next, Chip

\* set_timed_alarm is on time for every length of the minute and every delay
\* below it, around the end of the minute too, and with updates between its read
\* and its write: the alarm rings with the update number SECONDS after the read.
THEOREM TimedAlarmIsOnTime == Spec => []AlarmOnTime
<1>2. AlarmInv => AlarmOnTime
  <2> SUFFICES ASSUME AlarmInv, alarm.seconds # ANY, alarm.rest, at # "seconds", sound
               PROVE  rang <=> waited >= SECONDS
    BY DEF AlarmOnTime
  <2>1. PICK t \in 0..(MINUTE - 1) : SetFrom(t)
    BY DEF AlarmInv
  <2>2. waited < SECONDS \/ waited >= SECONDS
    BY MinuteAssumption DEF AlarmInv, AlarmType
  <2>3. waited < SECONDS => ~(waited >= SECONDS)
    BY MinuteAssumption DEF AlarmInv, AlarmType
  <2> QED
    BY <2>1, <2>2, <2>3 DEF SetFrom
<1> QED
  BY AlarmInvInit, AlarmInvStep, <1>2, PTL DEF Spec

-----------------------------------------------------------------------------
(* The winner screen                                                       *)

\* After the start an alarm that has rung is heard of: the kernel has it, or the
\* handler that will clear it has been called.
LineHeard == ~Starting /\ "PIE" \notin regB /\ "AF" \in regC => notified \/ at = "handler"

\* The winner is shown and the timed alarm has been set.
Armed == screen = "WINNER" /\ at \notin {"now", "seconds"}

\* end_game sets the alarm before anything else; only the way out of the screen
\* sets the one of every second.
ScreenFlow ==
  /\ screen \in {"GAME", "WINNER", "OTHER"}
  /\ Starting \/ at = "any" => screen = "OTHER"
  /\ at \in {"now", "seconds"} => screen = "WINNER"
  /\ Armed => alarm.seconds # ANY
  /\ screen = "WINNER" => at \in {"now", "seconds", "rest", "idle", "handler", "event", "clock"}

\* Until the alarm is due there is none to be heard of, and no clock to be run.
Held ==
  Armed /\ sound /\ quiet /\ "PIE" \notin regB /\ waited < SECONDS =>
    /\ "AF" \notin regC /\ then = "idle" /\ at \notin {"handler", "clock"}
    /\ at = "event" => ~rtc_interrupt

WinnerInv == OnlyAlarms /\ FlowOK /\ AlarmInv /\ LineHeard /\ ScreenFlow /\ Held

LEMMA WinnerInvInit == Init => WinnerInv
<1> SUFFICES ASSUME Init PROVE WinnerInv
  OBVIOUS
<1>1. LineHeard /\ ScreenFlow /\ Held
  BY DEF Init, LineHeard, ScreenFlow, Held, Armed, Starting
<1> QED
  BY <1>1, OnlyAlarmsInit, AlarmInvInit DEF WinnerInv

LEMMA LineHeardStep ==
  ASSUME OnlyAlarms, FlowOK, LineHeard, [Next]_vars PROVE LineHeard'
<1> USE DEF OnlyAlarms, FlowOK, LineHeard, Starting, Goes
<1>1. CASE Announce \/ StartUpdate \/ UNCHANGED vars
  BY <1>1 DEF Announce, StartUpdate, vars, regs, program
<1>2. CASE EndUpdate
  BY <1>2 DEF EndUpdate, Set, Line, program
<1>3. CASE Periodic
  BY <1>3 DEF Periodic, Set, Line, program
<1>4. CASE Start
  BY <1>4 DEF Start, StartAlarm, StartUpdates, StartPeriodic, Rtc_subscribe, Set, Line,
     Enable_alarm_int, Disable_updates, Disable_periodic_int
<1>5. CASE Set_seconds_alarm \/ ReadNow \/ Set_timed_alarm \/ SetRest \/ ReadUip \/ Read_date
  BY <1>5 DEF Set_seconds_alarm, ReadNow, Set_timed_alarm, SetRest, ReadUip, Read_date,
     ReadField, regs
<1>6. CASE HoldUpdates \/ ReleaseUpdates
  BY <1>6 DEF HoldUpdates, ReleaseUpdates, Disable_updates, Enable_updates, Set, Line
<1>7. CASE Receive
  BY <1>7 DEF Receive
<1>8. CASE Rtc_handler
  BY <1>8 DEF Rtc_handler, Clear_interruptions, Set, Line
<1>9. CASE Event \/ Update_status_rtc
  BY <1>9 DEF Event, Update_status_rtc, ToRtc, regs
<1> QED
  BY <1>1, <1>2, <1>3, <1>4, <1>5, <1>6, <1>7, <1>8, <1>9 DEF Next, Chip, Program

LEMMA ScreenFlowStep ==
  ASSUME FlowOK, AlarmInv, ScreenFlow, [Next]_vars PROVE ScreenFlow'
<1> USE DEF FlowOK, ScreenFlow, Armed, Starting, Goes
<1>0. alarm \in [seconds : Int, rest : BOOLEAN]
  BY DEF AlarmInv, AlarmType
<1>1. CASE Announce \/ StartUpdate \/ EndUpdate \/ Periodic \/ UNCHANGED vars
  BY <1>1 DEF Announce, StartUpdate, EndUpdate, Periodic, vars, program
<1>2. CASE Start
  BY <1>2 DEF Start, StartAlarm, StartUpdates, StartPeriodic, Rtc_subscribe
<1>3. CASE Set_seconds_alarm \/ ReadNow \/ ReadUip \/ Read_date
  BY <1>3 DEF Set_seconds_alarm, ReadNow, ReadUip, Read_date, ReadField
<1>4. CASE SetRest
  BY <1>0, <1>4 DEF SetRest
<1>5. CASE Set_timed_alarm
  <2>1. AlarmSecond # ANY
    <3>1. Bcd_to_int(now_read) + SECONDS \in Nat
      <4>1. now_read \in Nat
        BY DEF AlarmInv, AlarmType
      <4> QED
        BY <4>1, MinuteAssumption DEF Bcd_to_int
    <3>2. (Bcd_to_int(now_read) + SECONDS) % MINUTE \in 0..99
      BY <3>1, SecondInMinute
    <3>3. AlarmSecond \in 0..153
      BY <3>2, IntToBcdIsBcd, BcdRoundTrip DEF AlarmSecond
    <3> QED
      BY <3>3 DEF ANY
  <2>2. alarm' = [alarm EXCEPT !.seconds = AlarmSecond] /\ at = "seconds" /\ at' = "rest"
        /\ UNCHANGED screen
    BY <1>5 DEF Set_timed_alarm
  <2>3. alarm'.seconds # ANY
    BY <1>0, <2>1, <2>2
  <2> QED
    BY <2>2, <2>3
<1>6. CASE HoldUpdates \/ ReleaseUpdates \/ Receive \/ Rtc_handler
  BY <1>6 DEF HoldUpdates, ReleaseUpdates, Receive, Rtc_handler
<1>7. CASE Event \/ Update_status_rtc
  BY <1>7 DEF Event, Update_status_rtc, ToRtc
<1> QED
  BY <1>1, <1>2, <1>3, <1>4, <1>5, <1>6, <1>7 DEF Next, Chip, Program

\* The second asked for is none of those before.
LEMMA HeldUpdate == ASSUME WinnerInv, EndUpdate PROVE Held'
<1> SUFFICES ASSUME Armed', sound', quiet', "PIE" \notin regB', waited' < SECONDS
             PROVE  /\ "AF" \notin regC' /\ then' = "idle" /\ at' \notin {"handler", "clock"}
                    /\ at' = "event" => ~rtc_interrupt'
  BY DEF Held
<1>1. /\ UNCHANGED <<alarm, at, then, screen, rtc_interrupt, sound, quiet, regB>>
      /\ now' = (now + 1) % MINUTE
      /\ waited' = IF waited < SECONDS THEN waited + 1 ELSE waited
      /\ regC' = regC \cup (IF "UIE" \in regB THEN {"UF"} ELSE {})
                     \cup (IF Matches(now') THEN {"AF"} ELSE {})
  BY DEF EndUpdate, program, Set
<1>2. waited \in 0..SECONDS /\ SECONDS \in Nat
  BY MinuteAssumption DEF WinnerInv, AlarmInv, AlarmType
<1>3. waited \in 0..(SECONDS - 1) /\ waited' = waited + 1 /\ waited < SECONDS
  BY <1>1, <1>2
<1>4. /\ "AF" \notin regC /\ then = "idle" /\ at \notin {"handler", "clock"}
      /\ at = "event" => ~rtc_interrupt
  BY <1>1, <1>3 DEF WinnerInv, Held, Armed
<1>5. /\ alarm.rest /\ alarm.seconds # ANY /\ at # "seconds" /\ sound
  BY <1>1 DEF WinnerInv, ScreenFlow, AlarmInv, Armed
<1>6. PICK t \in 0..(MINUTE - 1) : SetFrom(t)
  BY <1>5 DEF WinnerInv, AlarmInv
<1>7. now = (t + waited) % MINUTE /\ alarm.seconds = Bcd((t + SECONDS) % MINUTE)
  BY <1>3, <1>6 DEF SetFrom
<1>8. now' = (t + waited') % MINUTE
  BY <1>1, <1>3, <1>7, RingsOnce
<1>9. now' # (t + SECONDS) % MINUTE
  <2>1. now' = (t + SECONDS) % MINUTE <=> waited' = SECONDS
    BY <1>3, <1>8, RingsOnce
  <2> QED
    BY <1>2, <1>3, <2>1
<1>10. now' \in 0..99 /\ (t + SECONDS) % MINUTE \in 0..99
  <2>1. t + waited' \in Nat /\ t + SECONDS \in Nat
    BY <1>2, <1>3
  <2> QED
    BY <1>8, <2>1, SecondInMinute
<1>11. ~Matches(now')
  BY <1>5, <1>7, <1>9, <1>10, BcdInjective DEF Matches
<1> QED
  BY <1>1, <1>4, <1>11

LEMMA HeldStep == ASSUME WinnerInv, [Next]_vars PROVE Held'
<1> USE DEF WinnerInv, Goes
<1>0. waited \in 0..SECONDS /\ SECONDS \in Nat
  BY MinuteAssumption DEF AlarmInv, AlarmType
<1>1. CASE Announce \/ StartUpdate \/ UNCHANGED vars
  BY <1>1 DEF Announce, StartUpdate, vars, regs, program, history, Held, Armed
<1>2. CASE EndUpdate
  BY <1>2, HeldUpdate
<1>3. CASE Periodic
  BY <1>3 DEF Periodic, Set, program, history, Held, Armed
<1>4. CASE Start \/ Set_seconds_alarm \/ HoldUpdates \/ ReadUip \/ Read_date \/ ReleaseUpdates
  <2>1. screen' # "WINNER"
    BY <1>4 DEF Start, StartAlarm, StartUpdates, StartPeriodic, Rtc_subscribe,
       Set_seconds_alarm, HoldUpdates, ReadUip, Read_date, ReadField, ReleaseUpdates,
       ScreenFlow, Starting
  <2> QED
    BY <2>1 DEF Held, Armed
<1>5. CASE ReadNow
  BY <1>5 DEF ReadNow, Held, Armed
<1>6. CASE Set_timed_alarm
  <2>1. /\ at = "seconds" /\ at' = "rest" /\ quiet' = (~notified /\ then = "idle")
        /\ UNCHANGED <<regB, regC, then>>
    BY <1>6 DEF Set_timed_alarm, regs
  <2>2. ~Starting
    BY <2>1 DEF Starting
  <2>3. quiet' /\ "PIE" \notin regB => "AF" \notin regC
    BY <2>1, <2>2 DEF LineHeard
  <2> QED
    BY <2>1, <2>3 DEF Held
<1>7. CASE SetRest
  BY <1>7 DEF SetRest, regs, history, Held, Armed
<1>8. CASE Receive
  <2>1. /\ at = "idle" /\ UNCHANGED <<regB, regC, then, screen, waited, sound, quiet>>
        /\ IF notified THEN at' = "handler" ELSE at' = "event" /\ rtc_interrupt' = FALSE
    BY <1>8 DEF Receive, history
  <2>2. CASE notified
    <3>1. "PIE" \notin regB => "AF" \in regC
      BY <2>2 DEF OnlyAlarms
    <3> QED
      BY <2>1, <3>1 DEF Held, Armed
  <2>3. CASE ~notified
    <3>1. at' = "event" /\ ~rtc_interrupt'
      BY <2>1, <2>3
    <3> QED
      BY <2>1, <3>1 DEF Held, Armed
  <2> QED
    BY <2>2, <2>3
<1>9. CASE Rtc_handler
  BY <1>9 DEF Rtc_handler, Clear_interruptions, Set, history, Held, Armed
<1>10. CASE Event
  BY <1>10 DEF Event, ToRtc, regs, history, Held, Armed
<1>11. CASE Update_status_rtc
  BY <1>11 DEF Update_status_rtc, regs, history, Held, Armed
<1> QED
  BY <1>1, <1>2, <1>3, <1>4, <1>5, <1>6, <1>7, <1>8, <1>9, <1>10, <1>11
     DEF Next, Chip, Program

\* game_update_status_rtc leaves a winner screen after SECONDS updates and not
\* before, for every length of the minute and every delay: until then no alarm is
\* heard of, so that the clock is not run.
THEOREM WinnerShownLongEnough == Spec => WinnerShown
<1>1. WinnerInv /\ [Next]_vars => WinnerInv'
  <2> SUFFICES ASSUME WinnerInv, [Next]_vars PROVE WinnerInv'
    OBVIOUS
  <2>1. (OnlyAlarms /\ FlowOK)' /\ AlarmInv'
    BY OnlyAlarmsStep, AlarmInvStep DEF WinnerInv
  <2>2. LineHeard' /\ ScreenFlow' /\ Held'
    BY LineHeardStep, ScreenFlowStep, HeldStep DEF WinnerInv
  <2> QED
    BY <2>1, <2>2 DEF WinnerInv
<1>2. ASSUME WinnerInv, [Next]_vars
      PROVE  [/\ at = "clock" /\ screen = "WINNER" /\ screen' = "OTHER"
              /\ sound /\ quiet /\ "PIE" \notin regB
              => waited >= SECONDS]_vars
  <2>1. waited \in 0..SECONDS /\ SECONDS \in Nat
    BY <1>2, MinuteAssumption DEF WinnerInv, AlarmInv, AlarmType
  <2>2. at = "clock" /\ screen = "WINNER" /\ sound /\ quiet /\ "PIE" \notin regB
          => ~(waited < SECONDS)
    BY <1>2 DEF WinnerInv, Held, Armed
  <2>3. ~(waited < SECONDS) => waited >= SECONDS
    BY <2>1
  <2> QED
    BY <2>2, <2>3, Zenon
<1> QED
  BY WinnerInvInit, <1>1, <1>2, PTL DEF Spec, WinnerShown

-----------------------------------------------------------------------------
(* Types                                                                   *)

Codes == {Bcd(s) : s \in 0..(MINUTE - 1)}

\* An alarm second is the code of a second.
LEMMA AlarmSecondIsCode == ASSUME now_read \in Codes PROVE AlarmSecond \in Codes
<1>1. PICK s \in 0..(MINUTE - 1) : now_read = Bcd(s)
  BY DEF Codes
<1>2. s \in 0..99 /\ s + SECONDS \in Nat
  BY MinuteAssumption
<1>3. Bcd_to_int(now_read) = s
  BY <1>1, <1>2, BcdRoundTrip
<1>4. (s + SECONDS) % MINUTE \in 0..(MINUTE - 1) /\ (s + SECONDS) % MINUTE \in 0..99
  BY <1>2, SecondInMinute
<1>5. AlarmSecond = Bcd((s + SECONDS) % MINUTE)
  BY <1>3, <1>4, IntToBcdIsBcd DEF AlarmSecond
<1> QED
  BY <1>4, <1>5 DEF Codes

\* Every variable of Rtc keeps its type.
THEOREM TypeCorrect == Spec => []TypeOK
<1>1. Init => TypeOK
  <2> SUFFICES ASSUME Init PROVE TypeOK
    OBVIOUS
  <2>1. 0 \in 0..(MINUTE - 1) /\ Bcd(0) = 0 /\ 0 \in 0..SECONDS
    BY MinuteAssumption DEF Bcd
  <2>2. 1 \in DOMAIN Dates
    BY DatesAssumption
  <2>3. alarm \in [seconds : Codes \cup {ANY}, rest : BOOLEAN] /\ now_read \in Codes
    BY <2>1 DEF Init, Codes
  <2>4. new_date \in [year : 0..99, month : 0..12, day : 0..31]
    BY DEF Init, NoDate
  <2>5. /\ now \in 0..(MINUTE - 1) /\ today \in DOMAIN Dates /\ waited \in 0..SECONDS
        /\ upd \in {"idle", "soon", "busy"} /\ at \in Steps /\ then \in {"idle", "clock"}
        /\ screen \in {"GAME", "WINNER", "OTHER"}
    BY <2>1, <2>2 DEF Init, Steps
  <2>6. regB \subseteq {"UIE", "AIE", "PIE"} /\ regC \subseteq {"AF", "UF", "PF"}
        /\ days \subseteq DOMAIN Dates
    BY BootAssumption DEF Init
  <2>7. {notified, rtc_interrupt, sound, rang, quiet} \subseteq BOOLEAN
    BY Zenon DEF Init
  <2> QED
    BY <2>3, <2>4, <2>5, <2>6, <2>7, Zenon DEF TypeOK, Codes
<1>2. TypeOK /\ [Next]_vars => TypeOK'
  <2> SUFFICES ASSUME TypeOK, [Next]_vars PROVE TypeOK'
    OBVIOUS
  <2> USE DEF Goes, Steps
  <2>1. CASE Announce \/ StartUpdate
    <3>1. /\ upd' \in {"idle", "soon", "busy"}
          /\ UNCHANGED <<now, today, regs, alarm, program, history>>
      BY <2>1 DEF Announce, StartUpdate
    <3> QED
      BY <3>1 DEF regs, program, history, TypeOK
  <2>12. CASE UNCHANGED vars
    BY <2>12 DEF vars, clock, regs, program, history, TypeOK
  <2>2. CASE EndUpdate
    <3>1. now' \in 0..(MINUTE - 1)
      BY <2>2, SecondInMinute DEF EndUpdate, TypeOK
    <3>2. today' \in DOMAIN Dates /\ days' \subseteq DOMAIN Dates
      BY <2>2, DatesAssumption DEF EndUpdate, TypeOK
    <3>3. waited' \in 0..SECONDS
      BY <2>2, MinuteAssumption DEF EndUpdate, TypeOK
    <3>4. rang' \in BOOLEAN /\ notified' \in BOOLEAN
      BY <2>2, Zenon DEF EndUpdate, Set, Matches
    <3> QED
      BY <2>2, <3>1, <3>2, <3>3, <3>4 DEF EndUpdate, Set, program, TypeOK
  <2>3. CASE Periodic
    <3>1. notified' \in BOOLEAN
      BY <2>3, Zenon DEF Periodic, Set
    <3> QED
      BY <2>3, <3>1 DEF Periodic, Set, clock, program, history, TypeOK
  <2>4. CASE Start
    <3>1. notified' \in BOOLEAN
      BY <2>4, Zenon DEF Start, StartAlarm, StartUpdates, StartPeriodic, Rtc_subscribe,
         Enable_alarm_int, Disable_updates, Disable_periodic_int, Set, Line
    <3>2. at' \in Steps
      BY <2>4 DEF Start, StartAlarm, StartUpdates, StartPeriodic, Rtc_subscribe
    <3>3. regB' \subseteq {"UIE", "AIE", "PIE"} /\ regC' = regC
      BY <2>4 DEF Start, StartAlarm, StartUpdates, StartPeriodic, Rtc_subscribe,
         Enable_alarm_int, Disable_updates, Disable_periodic_int, Set, TypeOK
    <3>4. UNCHANGED <<clock, alarm, then, rtc_interrupt, screen, now_read, new_date, history>>
      BY <2>4 DEF Start
    <3> QED
      BY <3>1, <3>2, <3>3, <3>4 DEF clock, history, TypeOK
  <2>5. CASE Set_seconds_alarm
    BY <2>5 DEF Set_seconds_alarm, clock, regs, history, TypeOK
  <2>13. CASE SetRest
    BY <2>13 DEF SetRest, clock, regs, history, TypeOK
  <2>6. CASE ReadNow
    <3>1. now_read' \in Codes
      BY <2>6 DEF ReadNow, TypeOK, Codes
    <3>2. 0 \in 0..SECONDS
      BY MinuteAssumption
    <3> QED
      BY <2>6, <3>1, <3>2 DEF ReadNow, clock, regs, TypeOK, Codes
  <2>7. CASE Set_timed_alarm
    <3>1. AlarmSecond \in Codes
      BY AlarmSecondIsCode DEF TypeOK, Codes
    <3>2. alarm' \in [seconds : Codes \cup {ANY}, rest : BOOLEAN]
      BY <2>7, <3>1 DEF Set_timed_alarm, TypeOK, Codes
    <3>3. 0 \in Codes
      BY MinuteAssumption DEF Codes, Bcd
    <3>4. sound' \in BOOLEAN /\ quiet' \in BOOLEAN /\ rang' \in BOOLEAN
      BY <2>7, Zenon DEF Set_timed_alarm
    <3> QED
      BY <2>7, <3>2, <3>3, <3>4 DEF Set_timed_alarm, clock, regs, TypeOK, Codes
  <2>8. CASE HoldUpdates \/ ReleaseUpdates
    <3>1. notified' \in BOOLEAN
      BY <2>8, Zenon DEF HoldUpdates, ReleaseUpdates, Disable_updates, Enable_updates, Set
    <3>2. at' \in Steps
      BY <2>8 DEF HoldUpdates, ReleaseUpdates
    <3>3. regB' \subseteq {"UIE", "AIE", "PIE"} /\ regC' = regC
      BY <2>8 DEF HoldUpdates, ReleaseUpdates, Disable_updates, Enable_updates, Set, TypeOK
    <3>4. new_date' \in [year : 0..99, month : 0..12, day : 0..31]
      BY <2>8 DEF HoldUpdates, ReleaseUpdates, NoDate, TypeOK
    <3>5. days' \subseteq DOMAIN Dates
      BY <2>8 DEF HoldUpdates, ReleaseUpdates, TypeOK
    <3>6. UNCHANGED <<clock, alarm, then, rtc_interrupt, screen, now_read,
                      waited, sound, rang, quiet>>
      BY <2>8 DEF HoldUpdates, ReleaseUpdates
    <3> QED
      BY <3>1, <3>2, <3>3, <3>4, <3>5, <3>6 DEF clock, TypeOK
  <2>9. CASE ReadUip
    BY <2>9 DEF ReadUip, clock, regs, history, TypeOK
  <2>14. CASE Receive
    <3>1. notified' \in BOOLEAN /\ rtc_interrupt' \in BOOLEAN /\ at' \in Steps
      BY <2>14 DEF Receive, TypeOK
    <3> QED
      BY <2>14, <3>1 DEF Receive, clock, history, TypeOK
  <2>15. CASE Event \/ Update_status_rtc
    <3>1. /\ at' \in Steps /\ then' \in {"idle", "clock"}
          /\ screen' \in {"GAME", "WINNER", "OTHER"}
      BY <2>15 DEF Event, Update_status_rtc, ToRtc, TypeOK
    <3>2. UNCHANGED <<clock, regs, alarm, rtc_interrupt, now_read, new_date, history>>
      BY <2>15 DEF Event, Update_status_rtc
    <3> QED
      BY <3>1, <3>2 DEF clock, regs, history, TypeOK
  <2>10. CASE Rtc_handler
    <3>1. notified' \in BOOLEAN /\ rtc_interrupt' \in BOOLEAN
      BY <2>10, Zenon DEF Rtc_handler, Clear_interruptions, Set
    <3> QED
      BY <2>10, <3>1 DEF Rtc_handler, Clear_interruptions, Set, clock, history, TypeOK
  <2>11. CASE Read_date
    <3> DEFINE Days == [year : 0..99, month : 1..12, day : 1..31]
    <3>1. \A i \in DOMAIN Dates : Dates[i] \in Days
      <4>1. Dates \in Seq(Days) /\ DOMAIN Dates = 1..Len(Dates)
        BY DatesAssumption, LenProperties
      <4> HIDE DEF Days
      <4> QED
        BY <4>1, ElementOfSeq
    <3>2. ASSUME NEW f \in {"year", "month", "day"}, NEW to \in Steps, ReadField(f, to)
          PROVE  TypeOK'
      <4>1. PICK byte \in Shown(f) : new_date' = [new_date EXCEPT ![f] = Bcd_to_int(byte)]
        BY <3>2 DEF ReadField
      <4>2. PICK i \in DOMAIN Dates : byte = Bcd(Dates[i][f])
        BY <4>1 DEF Shown, TypeOK
      <4>3. Dates[i][f] \in 0..99
        BY <3>1
      <4>4. Bcd_to_int(byte) = Dates[i][f]
        BY <4>2, <4>3, BcdRoundTrip
      <4>5. new_date' \in [year : 0..99, month : 0..12, day : 0..31]
        BY <3>1, <4>1, <4>4 DEF TypeOK
      <4> QED
        BY <3>2, <4>5 DEF ReadField, clock, regs, history, TypeOK
    <3> QED
      BY <2>11, <3>2 DEF Read_date
  <2> QED
    BY <2>1, <2>2, <2>3, <2>4, <2>5, <2>6, <2>7, <2>8, <2>9, <2>10, <2>11, <2>12, <2>13,
       <2>14, <2>15 DEF Next, Chip, Program
<1> QED
  BY <1>1, <1>2, PTL DEF Spec
=============================================================================
