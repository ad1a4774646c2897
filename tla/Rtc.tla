-------------------------------- MODULE Rtc --------------------------------
(***************************************************************************)
(* The real-time clock (proj/rtc.c) and the part of run() and of the games *)
(* that uses it.                                                           *)
(*                                                                         *)
(* The chip runs by itself: once a second it announces an update of its    *)
(* time and date registers, then changes them and may raise an interrupt,  *)
(* at any point between two accesses of the program.  A byte read while    *)
(* the registers change may be anything.  The interrupt line is a rising   *)
(* edge: nothing comes any more until register C was read.                 *)
(*                                                                         *)
(* Abstracted: of the rest of the program only the three screens that tell *)
(* what the alarm is for: a game that is played, its winner screen, and    *)
(* any other.                                                              *)
(***************************************************************************)
EXTENDS Integers, Sequences

CONSTANTS
  MINUTE,     \* seconds in a minute, 60
  SECONDS,    \* what end_game asks of set_timed_alarm, 5
  Dates,      \* days that follow one another, as year, month and day
  BootB,      \* the bits of register B that may be set when the program starts
  Preempted   \* the program may be held up between two reads of a date for
              \* longer than the chip announces an update before it

ASSUME MinuteAssumption == MINUTE \in 2..60 /\ SECONDS \in 1..(MINUTE - 1)
ASSUME DatesAssumption ==
  Dates \in Seq([year : 0..99, month : 1..12, day : 1..31]) /\ Dates # << >>
ASSUME BootAssumption == BootB \subseteq SUBSET {"UIE", "AIE", "PIE"}
ASSUME PreemptedAssumption == Preempted \in BOOLEAN

\* An alarm register with its two highest bits set, 0xC0, matches anything.
ANY == 192

VARIABLES
  now, today,       \* the time, in seconds of a minute, and the date
  upd,              \* "idle"; "soon": an update is announced; "busy": under way
  regB,             \* interrupts that are enabled
  regC,             \* interrupts that are pending: AF, UF, PF
  alarm,            \* the alarm registers: the seconds, and whether the minutes
                    \* and the hours match anything
  notified,         \* the kernel has a notification of the RTC for run()
  at,               \* the next access of the program; "idle": driver_receive
  then,             \* where it goes on once the alarm is set
  rtc_interrupt,
  screen,           \* "GAME", "WINNER" or "OTHER"
  now_read,         \* the seconds set_timed_alarm has read
  new_date,         \* the date get_date has read so far
  waited, sound, rang, \* history: see AlarmOnTime
  quiet,            \* history: see WinnerShown
  days              \* history: see DateWhole

clock   == <<now, today, upd>>
regs    == <<regB, regC, notified>>
program == <<at, then, rtc_interrupt, screen, now_read, new_date>>
history == <<waited, sound, rang, quiet, days>>
vars    == <<clock, regs, alarm, program, history>>

-----------------------------------------------------------------------------
(* Conversions                                                             *)

\* bcd_to_int
Bcd_to_int(number) == (number % 16) + (number \div 16) * 10

\* int_to_bcd
Int_to_bcd(number) == (number % 10) + (number \div 10) * 16

\* What the chip has in a register for a number.
Bcd(number) == (number \div 10) * 16 + (number % 10)

-----------------------------------------------------------------------------
(* The chip                                                                *)

\* The interrupt line.
Line(b, c) ==
  \/ "AF" \in c /\ "AIE" \in b
  \/ "UF" \in c /\ "UIE" \in b
  \/ "PF" \in c /\ "PIE" \in b

\* run() has not subscribed the interrupts yet.
Starting == at \in {"start", "updates", "periodic", "subscribe"}

\* The registers become b and c; the kernel hears of a rising line once there is
\* somebody to notify.
Set(b, c) ==
  /\ regB' = b /\ regC' = c
  /\ notified' = (notified \/ (~Starting /\ ~Line(regB, regC) /\ Line(b, c)))

\* Register A shows UIP from now on.
Announce ==
  /\ upd = "idle"
  /\ upd' = "soon"
  /\ UNCHANGED <<now, today, regs, alarm, program, history>>

\* The announcement comes 244 microseconds ahead, time enough to read the date
\* unless the program is held up.
StartUpdate ==
  /\ upd = "soon"
  /\ at \in {"year", "month", "day"} => Preempted
  /\ upd' = "busy"
  /\ UNCHANGED <<now, today, regs, alarm, program, history>>

\* The new time matches the alarm.
Matches(second) == alarm.seconds \in {ANY, Bcd(second)} /\ alarm.rest

\* One second later; at midnight also one day.  On a match AF, and UF, which is
\* left out as long as UIE is clear: run() treats UPDATE and RTC_NO_INT alike.
EndUpdate ==
  /\ upd = "busy"
  /\ upd' = "idle"
  /\ now' = (now + 1) % MINUTE
  /\ \/ UNCHANGED <<today, days>>
     \/ now' = 0 /\ today < Len(Dates) /\ today' = today + 1 /\ days' = days \cup {today'}
  /\ Set(regB, regC \cup (IF "UIE" \in regB THEN {"UF"} ELSE {})
                   \cup (IF Matches(now') THEN {"AF"} ELSE {}))
  /\ waited' = IF waited < SECONDS THEN waited + 1 ELSE waited
  /\ rang' = (rang \/ Matches(now'))
  /\ UNCHANGED <<alarm, program, sound, quiet>>

\* The periodic interrupt, at a rate of its own.  PF without PIE is left out
\* in the same way.
Periodic ==
  /\ "PIE" \in regB /\ "PF" \notin regC
  /\ Set(regB, regC \cup {"PF"})
  /\ UNCHANGED <<clock, alarm, program, history>>

\* What a read of the register of field f of the date may give.
Shown(f) ==
  IF upd = "busy" THEN {Bcd(Dates[i][f]) : i \in DOMAIN Dates} ELSE {Bcd(Dates[today][f])}

-----------------------------------------------------------------------------
(* rtc.c: one action per access, a read and a write of register B counting *)
(* as one, since nobody else writes it                                     *)

Goes(from, to) == at = from /\ at' = to

\* disable_updates.  It clears UIE, which disables the interrupts of updates;
\* the updates go on, since SET stays clear.
Disable_updates == Set(regB \ {"UIE"}, regC)

\* enable_updates clears SET, which is never set.
Enable_updates == Set(regB \ {"SET"}, regC)

\* disable_periodic_int.  It clears UIE once more, not PIE.
Disable_periodic_int == Set(regB \ {"UIE"}, regC)

\* enable_alarm_int
Enable_alarm_int == Set(regB \cup {"AIE"}, regC)

\* run, before its loop.
StartAlarm    == Goes("start", "updates") /\ Enable_alarm_int
StartUpdates  == Goes("updates", "periodic") /\ Disable_updates
StartPeriodic == Goes("periodic", "subscribe") /\ Disable_periodic_int

\* rtc_subscribe: a line that is up already is heard of.
Rtc_subscribe ==
  /\ Goes("subscribe", "any")
  /\ notified' = Line(regB, regC)
  /\ UNCHANGED <<regB, regC>>

Start ==
  /\ StartAlarm \/ StartUpdates \/ StartPeriodic \/ Rtc_subscribe
  /\ UNCHANGED <<clock, alarm, then, rtc_interrupt, screen, now_read, new_date, history>>

\* set_seconds_alarm, the first of its writes.
Set_seconds_alarm ==
  /\ Goes("any", "rest")
  /\ alarm' = [alarm EXCEPT !.seconds = ANY]
  /\ UNCHANGED <<clock, regs, then, rtc_interrupt, screen, now_read, new_date, history>>

\* set_timed_alarm: the time is read, whatever UIP says ...
ReadNow ==
  /\ Goes("now", "seconds")
  /\ now_read' \in IF upd = "busy" THEN {Bcd(s) : s \in 0..(MINUTE - 1)} ELSE {Bcd(now)}
  /\ sound' = (upd # "busy")
  /\ waited' = 0
  /\ UNCHANGED <<clock, regs, alarm, then, rtc_interrupt, screen, new_date, rang, quiet, days>>

\* Mutant: the alarm of every second stays.
AlarmSecond_any == ANY

\* Mutant: one second more.
AlarmSecond_late == Int_to_bcd((Bcd_to_int(now_read) + SECONDS + 1) % MINUTE)

\* The second asked for.
AlarmSecond == Int_to_bcd((Bcd_to_int(now_read) + SECONDS) % MINUTE)

\* ... and the alarm is set to so many seconds later.
Set_timed_alarm ==
  /\ Goes("seconds", "rest")
  /\ alarm' = [alarm EXCEPT !.seconds = AlarmSecond]
  /\ now_read' = 0
  /\ rang' = FALSE
  /\ sound' = (sound /\ waited < SECONDS)
  /\ quiet' = (~notified /\ then = "idle")
  /\ UNCHANGED <<clock, regs, then, rtc_interrupt, screen, new_date, waited, days>>

\* The last two writes of either: minutes and hours.
SetRest ==
  /\ Goes("rest", then)
  /\ alarm' = [alarm EXCEPT !.rest = TRUE]
  /\ then' = "idle"
  /\ UNCHANGED <<clock, regs, rtc_interrupt, screen, now_read, new_date, history>>

\* get_date ...
HoldUpdates ==
  /\ Goes("get_date", "uip")
  /\ Disable_updates
  /\ days' = {today}
  /\ UNCHANGED <<clock, alarm, then, rtc_interrupt, screen, now_read, new_date,
                 waited, sound, rang, quiet>>

\* Mutant: UIP is not looked at.
UpdateInProgress_never == FALSE

UpdateInProgress == upd # "idle"

\* ... with read_date, which gives up if an update is announced ...
ReadUip ==
  /\ Goes("uip", IF UpdateInProgress THEN "release" ELSE "year")
  /\ UNCHANGED <<clock, regs, alarm, then, rtc_interrupt, screen, now_read, new_date, history>>

\* ... and otherwise reads one field after the other.
ReadField(f, to) ==
  /\ Goes(f, to)
  /\ \E byte \in Shown(f) : new_date' = [new_date EXCEPT ![f] = Bcd_to_int(byte)]
  /\ UNCHANGED <<clock, regs, alarm, then, rtc_interrupt, screen, now_read, history>>

Read_date == ReadField("year", "month") \/ ReadField("month", "day") \/ ReadField("day", "got")

NoDate == [year |-> 0, month |-> 0, day |-> 0]

\* The end of the loop of get_date: enable_updates, and again if there is no
\* date yet.
ReleaseUpdates ==
  /\ Goes("release", "get_date") \/ Goes("got", "idle")
  /\ Enable_updates
  /\ new_date' = NoDate
  /\ days' = {}
  /\ UNCHANGED <<clock, alarm, then, rtc_interrupt, screen, now_read, waited, sound, rang, quiet>>

-----------------------------------------------------------------------------
(* simon.c                                                                 *)

\* Mutant: rtc_interrupt is not reset by a notification without the RTC.
Receive_keeps ==
  /\ at = "idle"
  /\ notified' = FALSE
  /\ at' = IF notified THEN "handler" ELSE "event"
  /\ UNCHANGED <<clock, regB, regC, alarm, then, rtc_interrupt, screen, now_read, new_date,
                 history>>

\* driver_receive: a notification with or without the RTC in it.
Receive ==
  /\ at = "idle"
  /\ notified' = FALSE
  /\ IF notified THEN at' = "handler" /\ UNCHANGED rtc_interrupt
                 ELSE at' = "event" /\ rtc_interrupt' = FALSE
  /\ UNCHANGED <<clock, regB, regC, alarm, then, screen, now_read, new_date, history>>

\* Mutant: the flags are read but not cleared.
Clear_interruptions_keeps == UNCHANGED regs

\* clear_interruptions: a read of register C clears it.
Clear_interruptions == Set(regB, {})

\* rtc_handler: only an alarm changes rtc_interrupt.
Rtc_handler ==
  /\ Goes("handler", "event")
  /\ Clear_interruptions
  /\ rtc_interrupt' = (rtc_interrupt \/ "AF" \in regC)
  /\ UNCHANGED <<clock, alarm, then, screen, now_read, new_date, history>>

\* After the other handlers: game_update_status_rtc.
ToRtc == IF rtc_interrupt THEN "clock" ELSE "idle"

\* event_handler up to the RTC: a click ends the game (end_game), ENTER leaves
\* the winner screen, another screen asks for the date or starts a game.
Event ==
  /\ at = "event"
  /\ \/ screen = "GAME" /\ screen' = "WINNER" /\ at' = "now" /\ then' = ToRtc
     \/ screen = "GAME" /\ UNCHANGED <<screen, then>> /\ at' = ToRtc
     \/ screen = "WINNER" /\ screen' \in {"WINNER", "OTHER"} /\ at' = ToRtc /\ UNCHANGED then
     \/ screen = "OTHER" /\ UNCHANGED <<screen, then>> /\ at' \in {"get_date", "idle"}
     \/ screen = "OTHER" /\ screen' = "GAME" /\ at' = "idle" /\ UNCHANGED then
  /\ UNCHANGED <<clock, regs, alarm, rtc_interrupt, now_read, new_date, history>>

\* game_update_status_rtc.  A player out of time ends the game, which is then
\* left at once (Game), or at the next alarm (MpGame).  A game that is over is
\* left, with the alarm back to every second.
Update_status_rtc ==
  /\ at = "clock"
  /\ \/ screen = "GAME" /\ at' = "idle" /\ UNCHANGED <<screen, then>>
     \/ screen = "GAME" /\ at' = "now" /\ screen' = "WINNER" /\ then' \in {"clock", "idle"}
     \/ screen # "GAME" /\ at' = "any" /\ screen' = "OTHER" /\ UNCHANGED then
  /\ UNCHANGED <<clock, regs, alarm, rtc_interrupt, now_read, new_date, history>>

-----------------------------------------------------------------------------

Init ==
  /\ now \in 0..(MINUTE - 1) /\ today = 1 /\ upd = "idle"
  /\ regB \in BootB /\ regC \in SUBSET {"AF", "UF"}
  /\ notified = FALSE
  /\ alarm = [seconds |-> 0, rest |-> FALSE]
  /\ at = "start" /\ then = "idle"
  /\ rtc_interrupt = FALSE /\ screen = "OTHER"
  /\ now_read = 0 /\ new_date = NoDate
  /\ waited = 0 /\ sound = FALSE /\ rang = FALSE /\ quiet = FALSE
  /\ days = {}

Chip == Announce \/ StartUpdate \/ EndUpdate
Program ==
  \/ Start \/ Set_seconds_alarm \/ ReadNow \/ Set_timed_alarm \/ SetRest
  \/ HoldUpdates \/ ReadUip \/ Read_date \/ ReleaseUpdates
  \/ Receive \/ Rtc_handler \/ Event \/ Update_status_rtc

Next == Chip \/ Periodic \/ Program

Spec == Init /\ [][Next]_vars

\* Neither the chip nor the program stops.
Fairness == WF_vars(Chip) /\ WF_vars(Program)

FairSpec == Spec /\ Fairness

-----------------------------------------------------------------------------
(* Properties                                                              *)

Steps == {"start", "updates", "periodic", "subscribe", "any", "rest", "now", "seconds",
          "get_date", "uip", "year", "month", "day", "got", "release", "idle", "handler",
          "event", "clock"}

\* Every variable has a value of its type.
TypeOK ==
  /\ now \in 0..(MINUTE - 1) /\ today \in DOMAIN Dates /\ upd \in {"idle", "soon", "busy"}
  /\ regB \subseteq {"UIE", "AIE", "PIE"} /\ regC \subseteq {"AF", "UF", "PF"}
  /\ notified \in BOOLEAN
  /\ alarm \in [seconds : {Bcd(s) : s \in 0..(MINUTE - 1)} \cup {ANY}, rest : BOOLEAN]
  /\ at \in Steps /\ then \in {"idle", "clock"}
  /\ rtc_interrupt \in BOOLEAN /\ screen \in {"GAME", "WINNER", "OTHER"}
  /\ now_read \in {Bcd(s) : s \in 0..(MINUTE - 1)}
  /\ new_date \in [year : 0..99, month : 0..12, day : 0..31]
  /\ waited \in 0..SECONDS /\ sound \in BOOLEAN /\ rang \in BOOLEAN
  /\ quiet \in BOOLEAN
  /\ days \subseteq DOMAIN Dates

\* event_handler runs the clock of a game only if this very notification came
\* with an alarm, although rtc_interrupt keeps its value when the RTC had
\* another reason for its interrupt.  It holds because no other interrupt is
\* left enabled, unless PIE was set before the program started.
TicksAreAlarms ==
  [][at # "event" /\ at' = "event" /\ rtc_interrupt' /\ "PIE" \notin regB
     => at = "handler" /\ "AF" \in regC]_vars

\* An alarm set for SECONDS seconds rings when so many updates have come since
\* the time was read, never sooner or later, whatever comes between the read
\* and the write; unless the time was read in the middle of an update (sound)
\* or the program was held up until after the second asked for.
AlarmOnTime ==
  alarm.seconds # ANY /\ alarm.rest /\ at # "seconds" /\ sound =>
    (rang <=> waited >= SECONDS)

\* The clock leaves a winner screen only after SECONDS seconds, unless an alarm
\* of before was still to be heard of when the timed one was set (quiet): that
\* one is taken for it, and the screen is gone at once.  So it is with PIE set,
\* by a periodic interrupt.
WinnerShown ==
  [][/\ at = "clock" /\ screen = "WINNER" /\ screen' = "OTHER"
     /\ sound /\ quiet /\ "PIE" \notin regB
     => waited >= SECONDS]_vars

\* The date get_date returns is that of one day, one it was while get_date ran,
\* and not the year of one and the month of another.
DateWhole == at = "got" => \E i \in days : new_date = Dates[i]

\* A game that is played gets its next tick and a winner screen its alarm:
\* however interrupts and accesses fall, the line does not stay up unheard.
ClockReachesGame == screen # "OTHER" ~> (at = "clock" \/ screen = "OTHER")
=============================================================================
