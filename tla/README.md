# Simon Says VS: a TLA+ model

The program under `src/proj` is a two-player memory game for MINIX: on one
computer, where the players share the mouse, or on two computers joined by a
serial line. A player repeats the sequence of buttons on record and adds one;
in a VS round the VS button opens an interval in which the player may add as
many as time allows. This directory models the game logic, the two-computer
protocol, the input devices, the clock chip, the screens and the high scores in
TLA+, checks them with TLC, and proves with TLAPS, for every value of the
constants, the main safety properties of each of them.

## Inventory

| Part | State | Operations | Hard about it |
|---|---|---|---|
| event loop, `simon.c` | `game.mode`, flags and packets of the last notification | `run`, `event_handler` | several interrupts in one notification; handlers run after an earlier one left the screen |
| one-computer game, `game.c` | sequence, progress, turn, countdown, result, mouse | handlers of key, mouse, timer, RTC; `reset_game`, `end_game` | timeout against click; VS interval; memory freed at the end; the alarm shared with the winner screen |
| two-computer game, `mp_game.c` | the same per computer, handshake counters, queue of one byte | the same, UART handler, `host_mp_game`, `connect_mp_game`, `start_game`, `play_game` | two copies kept equal by messages; turn passing; second session; bytes dropped |
| UART, `uart.c` | THR, shift register, RBR, interrupt causes | `serial_write_byte`, `uart_handler` | THR full; empty-THR interrupts |
| high score screen, `highscore.c` | string `player`, text box, `newWinner` | keys, `reset_hiscore` | box and string edited separately |
| leaderboard, `leaderboard.c`, `proj.c` | board of five, `leaderboard.txt` | `getNewHiScorePos`, `updateData`, `saveData`, `retrieveData` | equal scores, shifting in place, a crash in a save |
| rounds screen, `number_of_rounds.c` | number typed, `is_mp` | keys, starts a game | number against text box |
| menu, host, how-to-play screens | selection | keys | ways between screens |
| keyboard, `keyboard.c` | bytes of a scancode | `keyboard_handler` | incomplete scancodes repeat the last key |
| mouse, `mouse.c` | bytes of a packet | `mouse_handler`, commands with retries | lost bytes, resynchronisation; one output buffer for both devices |
| RTC, `rtc.c` | alarm and control registers, date | alarms, `get_date` | update between two reads; alarms pending when another is set; interrupts that stay enabled |
| play screen, in `mp_game.c` | pointer, press, lit button and its time | mouse and timer handlers, `mp_draw_round` | unsigned coordinates, overlapping discs, a light shared by two players |
| text boxes, in `vc.c` | characters, cursor, left edge | add, remove | 16-bit coordinates, text against the value it shows |
| timer, graphics, utilities | - | - | no behaviour of interest |

The event loop calls the handlers of the current screen; the screens call each
other's `reset_*` operations and set `game.mode`; both games and the winner
screen share the RTC alarm; both games hand their score to the high score
screen, which updates the leaderboard; two copies of the program exchange bytes.
`PROJECT.json` lists the hazards at their lines and the property that watches
each, or why none does.

## Modules

**Game** is `game.c` in its event loop. A variable stands for each static of
`game.c` and keeps its name; `freed` counts the calls of `free(buttons)` since
the last `malloc`, `alarm` is the RTC alarm (every second, or once a minute
after `end_game`), `lowest` is what `getLowestHiScore` returns, `scorer` is a
history variable. `Notify` takes a set of interrupts into `pend`; then the
handlers in it run in the order of `event_handler`, each one action, whatever
`mode` has become. `click_button` is one disjunct per outcome (`Tie`, `StartVS`,
`AddButton`, `GuessRight`, `GuessWrong`, `NoClick`). Past the entries reserved
for it the array holds whatever the heap has there, so a comparison with such
an entry has either answer.

**MpGame** is `mp_game.c` on two computers. `pc[m]` is a record with the statics
of computer `m`, the registers of its UART (`thr`, `tsr`, `rbr`, and `thre` for
the pending empty-THR interrupt) and `todo`, the handlers still to be called.
A handler maps a record to the next one. `mp_add_button`/`mp_send_button`
followed by `mp_change_player` is two steps, because the shift register may take
the first byte in between. `Deliver` is the line, external to the source.
`run()` never sets the UART's interrupt enable bits (only `run1`, which is not
called, does); the model takes them as set, as the two-computer game needs.

**Input** is `keyboard.c` and `mouse.c` with the part of `run()` that calls them.
`buf` is the one byte of the controller's output buffer, `irq` the interrupts
pending; `phase` runs through the command that turns the mouse on (`poll`, `ack`:
`mouse_write_byte` and its acknowledgment, with its two levels of retries) and
then through the two handlers of each notification. Devices send at any point in
between, so a byte may arrive between the two handlers, and an interrupt may be
notified after its byte was read by somebody else. The controller and the
devices are external; a byte is abstracted to what the handlers ask of it. Of a byte of
the mouse that is its packet, its place there and bit 3, which is set in a first byte
and anything in the two movements. `toMouse` is the controller's memory of a command
0xD4, whose argument comes after it: `mouse_write_byte` writes the argument first
(`mouse.c:119`), so the first attempt reaches the keyboard, whose answer ends the
attempts if it comes in time. The answer is read after one delay, whoever's it is and
whether there is one or not. The program finds the devices as the one before left them
(`LeftByKeyboard`, `LeftByMouse`, `LeftInBuffer`): the mouse may be on already, since
nothing turns it off, and in the middle of a packet. `clean`, `whole`, `fresh` and
`meant` are history variables of the keyboard, `settled`, `part` and `ended` of the
mouse.

**HighScore** is `highscore.c`, `leaderboard.c` and `proj.c`: the string and the
text box, the board, the file, and the process that may be killed at any point.
`updateData`'s loop is a recursive function over the places it visits.
`RetrieveData` after a save that was cut short goes to `UNDEFINED`: the names are
then uninitialised and the run is not followed further. So it does with a name that is
empty, which `fscanf` with `%s` would skip (`ReadsBack`); the program never registers
one, and the file it comes with has none.

**TopScores** is the abstract specification of the leaderboard: the best
results in order, a new one behind those that are as good, kept between runs
unless a save was cut short. `HighScore!ImplementsTopScores` is the refinement,
with `kept <- file`, `board <- leaderboard`.

**Rtc** is `rtc.c` and its uses, beside the chip. The program takes one action per
access of a register (`at` is the next one), and the chip announces an update
(`UIP`), starts it and ends it in between, at any point but one: a date is read
faster than an announcement lasts, unless `Preempted`. Register B holds the
interrupts that are enabled, register C those that are pending; the line is the
disjunction, and the kernel notifies its rising edge. `screen` keeps what decides
which alarm is set: `end_game` sets the timed one, leaving the winner screen the
one of every second. `waited`, `sound`, `rang`, `quiet` and `days` are history.

**TextBox** has the centred text boxes of `vc.c` as operators on a record.
**Screens** is `event_handler` with every screen: which key leads where, the two
boxes, the number of rounds, and the press of before that is handled again when
the first byte of an arrow comes (`again`). A game is only whether it is over. The
keyboard is that of `Input`, reduced to the results its handler may give.

**PlayScreen** is what one player of a two-computer game has before them, with the
measures of the real screen: the pointer and its edges, the press that counts once,
the discs of the buttons, the lit button with its time and the number of the round.
`Game` and `MpGame` take from it only which button a click hits.

`Game`, `MpGame`, `PlayScreen`, `Screens` and `Rtc` are views of the same loop; each
keeps the order of the handlers in a notification and leaves to the others what it
does not talk about. A nondeterministic choice stands for it (for instance, how a
game ends, in `Screens` and in `Rtc`).

**GameProofs**, **MpGameProofs**, **InputProofs**, **RtcProofs**, **ScreensProofs**,
**PlayScreenProofs**, **HighScoreProofs** and **TopScoresProofs** hold the proofs; the **MC** modules are
the instances for TLC. Definitions whose comment begins with *Mutant* are altered
copies of the definition below them, used to see that each property can fail.

## What the runs check

| Run | Instance | Shows |
|---|---|---|
| `game` | two colours and VS, games of 1 and 3 rounds, intervals of 2 ticks, sequences up to 4, one lowest score | types; the countdown runs exactly while a button is owed; winner and score belong together; ties are complete; the result is final; a second `free` comes only as the game is left; no use after free; only VS outgrows the array |
| `game_live` | one colour and VS, rounds 1 and 2 | every countdown ends; the winner screen is left |
| `mpgame` | one colour and VS, rounds 1, 2 and 257, sequences up to 2, up to four interrupts at once, a slow line | never two players to move; sequences mirror each other, the games agree when the line is quiet, same result; memory safe; a session starts as at first, with the number of rounds modulo 256 |
| `mpgame_live` | one interrupt at a time, a fast line and handshake | the connection is made, the turn arrives, a loss is reported |
| `input` | one plain key, one arrow, unknown keys of either length, three scancodes or packets, one byte in error, two polls and two tries | no byte is forgotten in the buffer; the mouse is in step again two quiet packets after a disturbance, the keyboard two scancodes after one |
| `highscore` | board of five, two letters, box of two, scores 1..3, three games, two runs | the box shows the end of the name, restarts keep the board, TopScores is implemented |
| `rtc` | minutes of 5 seconds, an alarm 3 seconds ahead, a turn of the year, UIE or PIE set at the start | the timed alarm is on time; dates are of one day; the winner screen has its seconds; ticks are alarms; the clock reaches the game |
| `screens` | digits 0 and 7, one letter, names of one | number and digits agree; boxes stay centred; games start as chosen; what a repeated press may do |
| `playscreen` | the real measures, movements of 0 and 255 either way, lights of two ticks, two interrupts at once | the pointer stays on the screen; a press counts once; a light has its time and goes out; the click is the button under the pointer; the round is shown in decimal |

Types are checked in `game` and proved for `Game`, `Input`, `Rtc`, `Screens` and
`PlayScreen`.

Bounds. Games of 1 and 3 rounds with sequences of 4 reach every branch: a tie
before and after several turns, a VS interval, and a sequence longer than the
array. Two colours are enough for a right and a wrong click with either as the
expected one; colours are interchangeable, hence the symmetry. Intervals of one
or two ticks separate "just set", "running" and "over". In `MpGame` one colour
and VS give a right and a wrong click. `AtOnce` bounds the interrupts of one
notification. `SlowLine = TRUE`, in `mpgame`, lets the player and the clock act
while bytes are still being sent, so that messages wait in the queue;
`SlowLine = FALSE`, for liveness, says that a byte has left before (it takes
about a millisecond): the queue loses and reorders messages, and nothing can be
promised of a game in which it did. `SlowHandshake = FALSE`, for liveness, says
that the clock does not tick during the handshake. `MpGame` is symmetric in
neither computer nor button. In `Input` three
scancodes or packets are one that is disturbed and two more, or, after half a packet
from before the start, two quiet ones and one that is not; four, with one poll and one
try, give the same result. `MaxName` keeps `HighScore` and
`Screens` from strings that overflow their array, whose effect is undefined.
257 is the smallest number of rounds that is different, and not 0, after the cast
to a byte. In `Rtc` a minute of five seconds with an alarm three ahead has the sum
wrap at the minute and not wrap, and leaves time for updates between any two
accesses; two days are enough for a date of two. `BootB` has the enabled interrupts
that `rtc.c` clears (UIE) and the one it means to clear and does not (PIE). In
`Screens` two digits, one of them 0, are enough for leading zeros, and three of them
fill the box. In `PlayScreen` movements of the largest size cross either edge from
anywhere, and the points between, in steps of 255 from the start and from the
edges, lie inside and outside of discs and where two overlap.

Runs that are expected to fail state what a comment or a header of the
repository says and the code does not do:

| Run | The code |
|---|---|
| `game_played_in_seconds` | ENTER on the winner screen leaves the alarm at once a minute for the next game |
| `mpgame_tie_reported` | a tie is sent as `TIE_REMOTE` and compared with `TIE` |
| `mpgame_each_has_the_score` | the client's VS flag outlives its interval |

`SequencesMirror`, `GamesAgree` and `SameResult` hold as long as the client opens
no VS interval, no array overflows and no message waits in the queue (`Orderly`);
`mpgame_each_has_the_score` shows how the two games part after a VS interval of
the client. `MemorySafe` needs an orderly game too. After a VS interval of the client
the host's sequence is the shorter one: it takes the client's next button for the last
of a tie, ends the game and frees the array, and does so again with the button after
that (three rounds are enough). A message that waited may be played after the end.
And the number of rounds has to fit a byte: with 256 the client has an array of none,
ends the game at the host's first button, VS, and frees the array again at the next one
of the interval.

Other places where the code does not do what its comments say, read off the
model without a run of their own.

Games:
- a VS interval adds buttons past the end of the array (`game.c:313`; `game.h:56`
  speaks of its maximum size); `OnlyVSOverflows` is what is left of it;
- a wrong click in the same notification as the end of the countdown frees the array
  twice (`game.c:429`), on the way out of the game (`SecondFreeIsLast`);
- `guessed` is not reset when a VS interval ends with no button added
  (`game.c:437`), so the next player repeats only part of the sequence;
- `mp_is_VS_round` returns before its coin is thrown: every round is a VS round;
- the client's clock runs, at 0, while it waits for the host (`mp_game.c:523`);
- the handshake counters are never reset (`mp_game.c:707`): a client that connects
  again is in the finished game;
- the number of rounds is cut to one byte before it is split in two
  (`mp_game.c:716`); the queue of one byte is overwritten (`mp_game.c:946`);
- `mp_game.h:20` gives the time of a lit button in seconds; it counts timer
  interrupts. The VS disc overlaps the red one, and the first that is asked for wins.

Clock:
- `get_date` clears UIE where it means to hold the updates (`rtc.c:74`): a date may
  be torn when the program is held up between two reads (`Preempted`);
- `disable_periodic_int` clears UIE, not PIE (`rtc.c:176`): with PIE set before the
  start, periodic interrupts drive a game whose `rtc_interrupt` is stale;
- `set_timed_alarm` reads the time without a look at UIP (`rtc.c:131`);
- an alarm that is pending when `end_game` sets the timed one is taken for it
  (`game.c:490`): the winner screen is gone at once (`quiet` in `WinnerShown`).

Input and screens:
- an interrupt of the keyboard whose byte was read by the polls of the start makes
  `kbc_ih` (`keyboard.c:39`) take a byte out of a mouse packet. Bit 3 alone does not
  tell a first byte from a movement, so the game may get packets made of two until two
  without it in their movements have come (`PacketsResync`);
- the command for the mouse is written before 0xD4, under the comment "First give the
  argument" (`mouse.c:119`): unless a 0xD4 from before is still to be used up the
  keyboard gets it, its acknowledgment is taken for that of the mouse, and the mouse is
  not turned on. That the mouse reports after the start is therefore no property;
- ESC is recognised by the raw byte (`simon.c:227`), one with an error included;
- the menu ignores the first notification, whatever it carries (`simon.c:249`);
- `host_position - 1` is right only because the type is unsigned and the number of
  selections even (`host.c:34`);
- from the host screen and the number of rounds ESC is the only way back;
- the room for a letter is tested with `width + 1 / 2` (`vc.c:216`), which is safe.

Names:
- the name of the last winner stays in `player` in front of the new one
  (`highscore.c:52`), of which the box shows the end only (`BoxEndsName`); two names
  one after the other overflow `player` (`highscore.c:41`);
- BACKSPACE on an empty name writes before `player` (`highscore.c:47`);
- `getDate` reserves 10 bytes for the 11 it writes (`highscore.c:65`).

## Fairness

`Game`: weak fairness of the handlers, since `event_handler` always runs to its
end, and strong fairness of a notification with the RTC alarm. The alarm, whether
every second or once a minute, keeps coming; other notifications may come in
between, which is why weak fairness would not do. Nothing is assumed of the
players. `MpGame`: in addition the line delivers, and a pending UART interrupt is
at last notified. Both are assumptions on the hardware; the code polls nothing.
`Rtc`: weak fairness of the chip, which updates every second, and of the program,
which never waits for the chip without end: `get_date` tries again, and an
announcement is followed by an update. `PlayScreen`: weak fairness of the handlers
and strong fairness of a notification with the timer, which comes 60 times a second
whatever else comes.

## What is proved

`GameProofs`, for every set of colours, every set of positive numbers of rounds,
all positive intervals and any bound on the sequence: `TypeOK`, `GameInv` and its
consequences `ClockMatchesDuty`, `WinnerEarnedScore`, `TieIsComplete`, and the
action properties `ResultFinal`, `NoUseAfterFree`, `HoldClicksOnce`. The
assumptions are those named in `Game`: VS and "no button" are not colours,
rounds and intervals are positive, scores are natural numbers.

`WinnerEarnedScore` is not inductive by itself. `GameInv` adds what the handlers
leave behind for each other: while a game runs the array is allocated and a VS
interval is open only in a VS round with buttons still to repeat (`TurnInv`); the
score is of a shorter sequence and was earned by the player not to move, or, in
a VS interval, by the one to move (`ScoreInv`); once the game is over no VS
interval is open and either the clock has stopped or the winner is the player
not to move, so that a late RTC handler that ends the game again ends it with
the same result (`OverInv`); handlers run outside the game only in the
notification that ended it (`ModeInv`). The proof has a lemma per handler. Types
are proved in two halves, since the provers treat flags and numbers differently.

Three more results follow from the same invariant: nothing but a VS interval
outgrows the array (`OverflowNeedsVS`), the array is freed twice at most
(`FreedTwiceAtMost`), and what is lit was clicked in this game (`LitCorrect`).

`InputProofs`, for every set of keys and all bounds: no byte is left in the buffer
between two notifications without an interrupt to come (`InputNeverStuck`). The
inductive invariant is `ByteClaimed`: the interrupt of the byte's own device is
pending, or the handler that will read it is still due in this notification.
It holds because both handlers read the buffer whatever is in it. `TypeCorrect`
needs the type of the byte under way and the bound on packets sent (`TypeInv`).
Two more results are about what the handlers make of the bytes:
- two quiet packets after a disturbance (packets without bit 3 in their movements) the
  mouse is heard again, and from then on packets of any movements are handed over as
  they end and none is made of two (`PacketsAlwaysResync`, which assumes nothing of
  bit 3). A disturbance is a byte lost, read by the other handler or in error, a call
  with no byte, or an answer to the command. `MouseInv`: the byte in the buffer is the
  one the mouse is at (`StreamInv`); a quiet packet has `mouse_handler` refuse a first
  byte that is none (`QuietInv`); after one, `byte_count` is right, or one behind
  because the byte refused was the packet's third, or two bytes of other packets are
  collected (`OnceInv`), which is why one is not enough; after two it is right and the
  bytes collected are those of the packet the mouse is at (`TwiceInv`, `GotInv`);
- two scancodes after a disturbance the keyboard is heard again (`KeysAlwaysResync`).
  `KeysInv` follows the byte from the keyboard to `keyboard_packet`: once a whole
  scancode was handled `assemblied_word` is set at its end (`SyncInv`), and from then
  on what is reported is what was meant (`EchoInv`, `FreshInv`). It assumes
  that the marks for no key and for unknown ones are no keys (`KeysAssumption`).

`RtcProofs`, for every length of a minute up to 60, every delay below it, every
sequence of dates and every state of register B at the start:
- ticks are alarms (`EveryTickIsAnAlarm`). `OnlyAlarms`: after the start UIE is
  clear, so without PIE a notification is one of an alarm whose flag is still up,
  and there is never one pending while another is handled;
- a date is of one day unless the program is held up (`DateIsOfOneDay`, with
  `~Preempted` as its assumption). `DateInv`: from the look at UIP on no update is
  under way, so each field read is of the day it still is;
- the timed alarm rings with update number `SECONDS` after the read, and not before
  (`TimedAlarmIsOnTime`). `AlarmInv` names the second t that was read: the time is
  t plus the updates since, modulo the minute, and the alarm register has the code
  of t plus the delay. `RingsOnce` is the arithmetic: the sum passes the minute
  once, and no earlier update meets it; `BcdRoundTrip` that the coding loses nothing;
- the clock leaves a winner screen after `SECONDS` updates and not before
  (`WinnerShownLongEnough`). `WinnerInv` puts the two together: while the screen waits
  the timed alarm is the one set, or on its way to be (`Held`), a notification that
  is pending is that of an alarm that rang (`LineHeard`), and an alarm that rang is on
  time (`AlarmInv`).

`ScreensProofs`, for every width of the characters, all digits and letters: the text
stays centred and in its array (`TextStaysCentred`, from lemmas about `Add` and
`Remove` and `BoxInv`), and a game starts as chosen with 1 to 999 rounds
(`GamesStartAsChosen`; `RoundsInv` bounds the number by the digits in the box). The
number that is played is the number in the box (`RoundsAlwaysShown`): `Number` is a
recursive function over the places of the text, and that it does not look past the end
of the text is proved by the least place where two texts with the same beginning
would differ (`LeastNat`). A press that is handled again goes one of the listed screens
further at most (`HandledAgainIsHarmless`; `AgainInv` says which keys may be in
`keyboard_packet` when the byte of an arrow comes on each screen).

`PlayScreenProofs`, for every size of screen and pointer, every arrangement of the
buttons and any movement of nine bits: the pointer stays on the screen, a press
counts once, a light has its time. `ScreenInv` relates the hold of the button to
the press, `FlagsOK` has the types of the flags. Two results are about the operators
the handlers use, in every state: the button that is found is the one under the
pointer (`ClickAlwaysUnderPointer`), in every layout in which no discs touch but the
red one and VS (`LayoutAssumption`, which the run evaluates on the real layout): a
point in two discs has, by the parallelogram law, centres that are too close; and the
text of a round is the number in decimal (`RoundAlwaysDecimal`).

`HighScoreProofs`, for every board of at least one place, every box and all letters:
- what the box shows is the end of the name (`BoxAlwaysEndsName`; `TypingInv` also
  bounds the two strings);
- a new run shows the board of the last finished save, whatever crashes
  (`RestartAlwaysKeepsScores`; `FilesInv` relates file, board and `saved` at each step
  of a save);
- the program implements `TopScores` (`HighScoreImplementsTopScores`): every step is a
  step of the abstract board or changes nothing it shows. The main lemma is that
  `getNewHiScorePos` and the loop of `updateData` insert behind the results that are
  as good: the loop leaves places above where they are and moves each one below by
  one;
- so what is proved of `TopScores` holds of the program (`PromiseForTheProgram`).

`MpGameProofs`, for every set of colours and of rounds, all intervals and bounds and
lines fast or slow: in a first game the two computers never both have the turn
(`TurnAlwaysExclusive`; `Sessions <= 1` is its assumption, since the handshake
counters are not reset for a second game). The inductive invariant `TurnInv` counts
turns. Before the client has started its game there is none: the host has sent its two
bytes at most (`HostWaits`), the client has read or will read no more bytes than were
sent (`ClientWaits`, `Leaving`, `Arrived`), so that none of them can be taken for a
turn. From then on the turns and the bytes that pass one, wherever they are (queue,
`thr`, `tsr`, the line, `rbr`, the byte a handler is about to read), are together one
at most (`Tokens`); a handler passes a turn on and never makes one. The queue may
lose a turn, which is why there is no equality.

Under the same assumption the client starts with the host's number of rounds, as far
as the low byte tells it, and with a fresh game (`ClientStartsAsAtFirst`). The
invariant `HandInv` follows the two bytes: while the client is connected, what it has
read, the byte a handler is about to read, the byte that arrived and the ones still on
the host are in this order the bytes of the number of rounds (`Numbered`), and once
both are read the client's game is new. A client whose time is up before the second
byte may still have the handler due that reads it, which is why `Connected` looks at
`todo` and not only at the screen. Before the client connects the host has heard and
said nothing (`Untouched`).

That the two games mirror each other is proved for a first game whose number of rounds
fits the byte it is sent in (`Sessions <= 1`, `Rounds \subseteq 1..255`; with 256 or
more the two arrays have different lengths): one sequence is always the beginning of
the other (`SequencesAlwaysMirror`), the games are equal when nothing is under way
(`GamesAlwaysAgree`) and they end the same way (`ResultAlwaysSame`). The inductive
invariant is `GameInv`: the two above and `MirrorInv`, which says what the bytes under
way will make of the game they reach. `View` is a game as both players see it. Bytes
are under way in one direction only (`InStep`), and played one by one, in the order in
which they were sent (`Flow`), they turn the receiver's view into the sender's
(`Ahead`); but for a tie, which the sender knows of and the receiver does not. While
the host waits for the acknowledgment both see the same new game and nothing follows
the acknowledgment (`AckDue`). The exception is a client that gave up waiting just as
its second byte arrived: its game is started after it left and it never comes back
(`Strayed`).

From the same invariant follows, under the same assumptions, that no button is played
into an array that is not allocated or no longer, and that none is freed twice
(`MemoryAlwaysSafe`). `HeapInv` adds to `GameInv` that before the client starts nothing
was played (`Unplayed`) and that since then each computer has its array until its game
ends and has then freed it once (`HeapOK`). A finished game has nothing to hear, since
every byte of `Flow` is one that fits a game that goes on (`Fine`); and the host of a
strayed client waits for the acknowledgment or plays with nobody (`Alone`).

`TopScoresProofs`, for every size of the board (at least one place) and every set
of results with natural numbers as scores: the board stays in order, on screen and
in the file (`BoardStaysSorted`), and a new result throws out the last one only
(`OnlyTheLastIsDropped`).

Only model-checked is liveness (`ClockRunsOut`, `WinnerScreenLeft`, `TurnArrives`,
`LossReported`, `ConnectionMade`, `ClockReachesGame`, `LitGoesOut`), which the prover does
not do.

The proofs corrected the model and its properties: `MemorySafe` was at first claimed of
every game in which nothing waits, and held at the small bounds of the run; the proof
did not go through, and TLC with three rounds showed why.

What recursive functions compute is proved where each step of the function is used a
bounded number of times or a least counterexample can be named; there is no general
induction over sequences. The proofs also corrected the model: in `Input` two arms of
a CASE in `Heard` could both apply, which TLC, taking the first, did not notice.

## Not modelled

- Drawing, images, screen loading (`vc.c`, `screen.c`, `num_and_letters.c` and the
  `*_draw` functions) and static text boxes: they write pixels and decide nothing.
- `timer.c`, which subscribes an interrupt; the line errors and control registers of
  the UART, which `run()` does not set.
- `run1`, `backup.c` and `mock.c`, and the course exercises beside `src/proj`: not
  part of the program.
- The MINIX headers, nearly all lines of the repository: declarations of another
  system, of which the program uses a few calls.
- ESC ends the program from any screen: in `Screens` it does; in `Game`, `MpGame`
  and `PlayScreen` that is a behaviour that stops.

## Plan

Done: `Game`, `MpGame`, `HighScore` with `TopScores`, `Input`, `Rtc`, `Screens` with
`TextBox`, `PlayScreen`, and the proofs above. Left, in this order:

1. A second session of two computers, from the counters the first one left.
2. Abstract specifications of a keyboard and a mouse that `Input` implements as long
   as nothing is disturbed.
3. An abstract game of which both `Game` and `MpGame` are refinements.
