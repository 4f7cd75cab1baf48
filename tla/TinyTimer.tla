------------------------------ MODULE TinyTimer ------------------------------
(***************************************************************************)
(* Tiny/Timer: a thread that calls a listener again and again, and that is *)
(* stopped by a datagram which TinyTimer_Stop sends to a socket of the     *)
(* timer's own (TinySocketIpc).                                            *)
(*                                                                         *)
(* The thread may also end by itself, when its times are used up or when   *)
(* the listener returns FALSE.  is_running stays set then, Stop sends its  *)
(* datagram all the same, and nobody reads it: it waits in the socket for  *)
(* the thread of the next run.                                             *)
(*                                                                         *)
(* One owner calls Start, Stop and Dispose; the thread selects on the      *)
(* socket for running_interval and calls the listener when select times    *)
(* out.  A timer of 0 times goes on for ever and corrects its interval by  *)
(* what the clock says; the clock may jump either way.                     *)
(***************************************************************************)
EXTENDS Integers

CONSTANTS
  TimesSet,   \* TinyTimer_Initialize: how often the listener may be called, 0 for ever
  Interval,   \* TinyTimer_Initialize: the interval
  Elapsed,    \* what a difference of two readings of the clock may be
  Verdicts,   \* what the listener may return: FALSE ends the loop
  MaxStarts   \* bound: accepted calls of TinyTimer_Start

ASSUME TimesNat        == TimesSet \subseteq Nat
ASSUME IntervalNat     == Interval \in Nat
ASSUME ElapsedInt      == Elapsed \subseteq Int
ASSUME VerdictsBoolean == Verdicts \subseteq BOOLEAN
ASSUME MaxStartsNat    == MaxStarts \in Nat

VARIABLES
  times,      \* times
  isRunning,  \* is_running
  thread,     \* where the thread is in timer_loop
  left,       \* iterations left of the for loop over times
  interval,   \* running_interval
  previous,   \* the local variable previous_select_delta
  mail,       \* STOP datagrams in the socket of ipc
  socket,     \* the socket of ipc
  owner,      \* where the owner is in Stop or Dispose
  (* history, never read by the code's own steps *)
  starts,     \* accepted calls of Start
  cause,      \* why the thread of this run ended
  asked,      \* STOP datagrams sent to this run
  unread,     \* an earlier run ended by itself and its STOP was sent nevertheless
  ticks,      \* the listener has been called in this run
  liveAtEnd   \* Dispose was called while is_running was set

threadVars == <<thread, left, interval, previous>>
history    == <<starts, unread, liveAtEnd>>
timerVars == <<times, isRunning, threadVars, mail, socket, owner, history, cause, asked, ticks>>

TimerInit ==
  /\ times \in TimesSet
  /\ isRunning = FALSE /\ thread = "none" /\ left = 0
  /\ interval = Interval /\ previous = 0
  /\ mail = 0 /\ socket = "open" /\ owner = "idle"
  /\ starts = 0 /\ cause = "none" /\ asked = 0
  /\ unread = FALSE /\ ticks = FALSE /\ liveAtEnd = FALSE

-----------------------------------------------------------------------------
(* The owner. *)

\* TinyTimer_Start of a timer that is not running; running_interval is left
\* as the run before has left it.
Start ==
  /\ owner = "idle" /\ ~isRunning /\ starts < MaxStarts
  /\ isRunning' = TRUE
  /\ thread' = "select" /\ left' = times /\ previous' = 0
  /\ starts' = starts + 1
  /\ cause' = "none" /\ asked' = 0 /\ ticks' = FALSE
  /\ UNCHANGED <<times, interval, mail, socket, owner, unread, liveAtEnd>>

\* Mutant: TinyTimer_Stop waits for a thread that it has not told to stop.
StopBegin_NoMessage ==
  /\ owner = "idle" /\ isRunning
  /\ isRunning' = FALSE
  /\ owner' = "join"
  /\ UNCHANGED <<times, threadVars, mail, socket, history, cause, asked, ticks>>

\* Mutant: Stop sends its datagram after it has joined as well as before.
StopSend_Twice ==
  /\ owner = "send"
  /\ mail' = mail + 2 /\ asked' = asked + 2
  /\ owner' = "join"
  /\ UNCHANGED <<times, isRunning, threadVars, socket, history, cause, ticks>>

StopBegin ==
  /\ owner = "idle" /\ isRunning
  /\ isRunning' = FALSE
  /\ owner' = "send"
  /\ UNCHANGED <<times, threadVars, mail, socket, history, cause, asked, ticks>>

StopSend ==
  /\ owner = "send"
  /\ mail' = mail + 1 /\ asked' = asked + 1
  /\ owner' = "join"
  /\ UNCHANGED <<times, isRunning, threadVars, socket, history, cause, ticks>>

\* TinyThread_Join returns when the thread has ended.
StopJoin ==
  /\ owner = "join" /\ thread = "ended"
  /\ thread' = "none"
  /\ unread' = (unread \/ cause # "stop")
  /\ owner' = "idle"
  /\ UNCHANGED <<times, isRunning, left, interval, previous, mail, socket,
                 starts, liveAtEnd, cause, asked, ticks>>

\* TinyTimer_Dispose sends a STOP, closes the socket, and joins nobody.
DisposeSend ==
  /\ owner = "idle"
  /\ mail' = mail + 1 /\ asked' = asked + 1
  /\ owner' = "close"
  /\ liveAtEnd' = isRunning
  /\ UNCHANGED <<times, isRunning, threadVars, socket, starts, unread, cause, ticks>>

DisposeClose ==
  /\ owner = "close"
  /\ mail' = 0 /\ socket' = "closed"
  /\ owner' = "disposed"
  /\ UNCHANGED <<times, isRunning, threadVars, history, cause, asked, ticks>>

-----------------------------------------------------------------------------
(* The thread.  select prefers a datagram to the timeout; once the socket  *)
(* is closed nothing is heard any more.                                    *)

EndBecause(why) == thread' = "ended" /\ cause' = why

ReadStop ==
  /\ thread = "select" /\ socket = "open" /\ mail > 0
  /\ mail' = mail - 1
  /\ EndBecause("stop")
  /\ UNCHANGED <<times, isRunning, left, interval, previous, socket, owner, history, asked, ticks>>

Half == Interval \div 2
AtMost(a, b)  == IF a < b THEN a ELSE b
AtLeast(a, b) == IF a < b THEN b ELSE a

\* The correction by how late select was.
Correction(late) == IF late > 0 THEN late ELSE previous
Remembered(late) ==
  IF late > 0 THEN late ELSE AtLeast(previous + late, 0)

\* Mutant: the correction is not limited to half of the interval.
ShortenedBySelect_NoLimit(late) == Interval - Correction(late)

ShortenedBySelect(late) == Interval - AtMost(Correction(late), Half)

\* A negative difference becomes a huge unsigned number and counts as late.
ShortenedByListener(spent) ==
  AtLeast(IF spent \in 0 .. interval - 1 THEN interval - spent ELSE 0, Half)

TimesOut ==
  /\ thread = "select" /\ (socket = "open" => mail = 0)
  /\ thread' = "call" /\ ticks' = TRUE
  /\ IF times > 0
       THEN UNCHANGED <<interval, previous>>
       ELSE \E e \in Elapsed : /\ interval' = ShortenedBySelect(e - interval)
                               /\ previous' = Remembered(e - interval)
  /\ UNCHANGED <<times, isRunning, left, mail, socket, owner, history, cause, asked>>

\* The for loop counts every round; the last one ends the thread.
NextRound ==
  \/ /\ times > 0 /\ left = 1
     /\ EndBecause("times") /\ left' = 0
  \/ /\ times > 0 /\ left > 1
     /\ thread' = "select" /\ left' = left - 1 /\ UNCHANGED cause
  \/ /\ times = 0
     /\ thread' = "select" /\ UNCHANGED <<left, cause>>

ListenerReturns ==
  /\ thread = "call"
  /\ \E v \in Verdicts :
       \/ /\ ~v
          /\ EndBecause("listener")
          /\ UNCHANGED <<left, interval>>
       \/ /\ v
          /\ NextRound
          /\ IF times > 0
               THEN UNCHANGED interval
               ELSE \E e \in Elapsed : interval' = ShortenedByListener(e)
  /\ UNCHANGED <<times, isRunning, previous, mail, socket, owner, history, asked, ticks>>

\* The socket was closed under select: select fails, or it wakes up for
\* nothing and the round counts.
SelectClosed ==
  /\ thread = "select" /\ socket = "closed"
  /\ \/ EndBecause("error") /\ UNCHANGED left
     \/ NextRound
  /\ UNCHANGED <<times, isRunning, interval, previous, mail, socket, owner, history, asked, ticks>>

-----------------------------------------------------------------------------
OwnerStep  == Start \/ StopBegin \/ StopSend \/ StopJoin \/ DisposeSend \/ DisposeClose
ThreadStep == ReadStop \/ TimesOut \/ ListenerReturns \/ SelectClosed

TimerNext == OwnerStep \/ ThreadStep

TimerSpec == TimerInit /\ [][TimerNext]_timerVars

(* Scheduled threads go on, a call the owner has begun goes on, and the    *)
(* listener returns.  Nothing makes the owner begin a call.                *)
TimerFairness == WF_timerVars(ThreadStep) /\ WF_timerVars(StopSend) /\ WF_timerVars(StopJoin)

TimerFairSpec == TimerSpec /\ TimerFairness

-----------------------------------------------------------------------------
TimerTypeOK ==
  /\ times \in TimesSet
  /\ isRunning \in BOOLEAN
  /\ thread \in {"none", "select", "call", "ended"}
  /\ left \in 0 .. times
  /\ interval \in Int /\ previous \in Int
  /\ mail \in Nat
  /\ socket \in {"open", "closed"}
  /\ owner \in {"idle", "send", "join", "close", "disposed"}
  /\ starts \in 0 .. MaxStarts
  /\ cause \in {"none", "times", "listener", "stop", "error"}
  /\ asked \in Nat
  /\ unread \in BOOLEAN /\ ticks \in BOOLEAN /\ liveAtEnd \in BOOLEAN

\* Whatever the clock says, jumps included, the timer never waits less than
\* half of its interval (rounded down) and never longer than the interval.
IntervalBounded == interval \in Half .. Interval

\* The datagrams of Stop are read once each: between two runs the socket is
\* empty, or it holds one STOP and an earlier run has ended by itself.
StopsAccounted ==
  (owner = "idle" /\ ~isRunning) => mail = (IF unread THEN 1 ELSE 0)

\* A run is cut short only by its own Stop or Dispose, unless an earlier run
\* ended by itself; from then on no run of the timer ever calls its listener.
CutShortForCause ==
  /\ cause = "stop" => asked > 0 \/ unread
  /\ (unread /\ socket = "open" /\ thread # "none") => ~ticks

\* After Dispose no thread is left that could call the listener, unless the
\* timer was disposed of without a Stop.
QuietAfterDispose ==
  (owner = "disposed" /\ ~liveAtEnd) => thread = "none"

\* What a STOP does: it ends the run it was meant for, or, once a run has
\* ended by itself, all the runs to come; and it leaves no thread behind.
StopsReadOnce == StopsAccounted /\ CutShortForCause /\ QuietAfterDispose

\* A timer that was told to stop is stopped: TinyTimer_Stop returns.
StopReturns == (owner = "join") ~> (owner = "idle")
=============================================================================
