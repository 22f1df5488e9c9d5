------------------------------- MODULE Clock --------------------------------
(* The clocks.  uptime() and uptime_raw() add up what the ACPI timer has    *)
(* counted, called by threads and by the scheduler in the timer interrupt   *)
(* (src/arch/x86_64/sys/time.cpp); RTC::irq() and dt2epoch() make a UNIX    *)
(* epoch of the calendar (time/rtc.cpp, src/sys/time.cpp).                  *)
EXTENDS Integers, Sequences, FiniteSets

CONSTANTS CkCpus, CkThreads, CkNoOne,
          CkCallers,  \* threads that ask for the time
          CkTurn,    \* counts after which the timer is back at 0
          CkNs, CkPer,  \* a count is CkNs / CkPer nanoseconds
          CkMax,     \* bound on the counts that go by
          CkMaxCalls,  \* bound on the calls begun
          CkFirstYear, CkLastYear  \* the calendar

VARIABLES ckNow,     \* what the timer has counted since it was 0
          ckTicks,   \* acpi_pm_timer_ticks
          ckUptime,  \* ns_uptime
          ckLock,    \* who holds uptime_lock
          ckRun,     \* CPU |-> its thread
          ckIrq,     \* CPU |-> no, account or switch: what schedule() is about, in_interrupt
          ckPc, ckVal,  \* thread or CPU (its interrupt) |-> place, ticks
          ckCpu,     \* thread |-> CPU::current() of its call
          ckRaw,     \* thread |-> its call is uptime_raw()'s, without addCritical()
          ckMoved,   \* thread |-> it was off the CPU in its call before the test
          ckLast, ckCalls, ckTurns,  \* counts at the last call, calls, turns of the timer in them
          ckFormat,  \* m_retarded_bcd, m_normal_hour_format
          ckDate, ckEpoch  \* the calendar, m_epoch

uptimeVars == <<ckNow, ckTicks, ckUptime, ckLock, ckRun, ckIrq, ckPc, ckVal, ckCpu, ckRaw, ckMoved,
                ckLast, ckCalls, ckTurns>>
dateVars == <<ckFormat, ckDate, ckEpoch>>
ckVars == <<uptimeVars, dateVars>>

CkActors == CkThreads \cup CkCpus

\* A thread goes on where it runs and no interrupt is being handled.
Goes(a) == a \in CkCpus \/ \E c \in CkCpus : ckRun[c] = a /\ ckIrq[c] = "no"
CkGoto(a, from, to) == Goes(a) /\ ckPc[a] = from /\ ckPc' = [ckPc EXCEPT ![a] = to]

CallVars == <<ckRun, ckIrq, ckCpu, ckRaw, ckMoved>>
SumVars == <<ckTicks, ckUptime, ckLast, ckCalls, ckTurns>>

----------------------------------------------------------------------------
(* uptime().                                                                *)

\* CPU::current() ...
Look(t) ==
    /\ CkGoto(t, "idle", "test") /\ ckCalls < CkMaxCalls
    /\ ckCpu' = [ckCpu EXCEPT ![t] = CHOOSE c \in CkCpus : ckRun[c] = t]
    /\ UNCHANGED <<ckNow, SumVars, ckLock, ckRun, ckIrq, ckVal, ckRaw, ckMoved, dateVars>>

\* ... and its in_interrupt, which asks for uptime_raw().
Test(t) ==
    /\ CkGoto(t, "test", "take")
    /\ ckRaw' = [ckRaw EXCEPT ![t] = ckIrq[ckCpu[t]] # "no"]
    /\ UNCHANGED <<ckNow, SumVars, ckLock, ckRun, ckIrq, ckVal, ckCpu, ckMoved, dateVars>>

\* acquire() or acquireRaw(); the latter is all an interrupt uses.
TakeClock(a) ==
    /\ CkGoto(a, "take", "read")
    /\ ckLock = CkNoOne /\ ckLock' = a
    /\ UNCHANGED <<ckNow, SumVars, CallVars, ckVal, dateVars>>

ReadTimer(a) ==
    /\ CkGoto(a, "read", "add")
    /\ ckVal' = [ckVal EXCEPT ![a] = ckNow % CkTurn]
    /\ ckLast' = ckNow
    /\ UNCHANGED <<ckNow, ckTicks, ckUptime, ckCalls, ckTurns, ckLock, CallVars, dateVars>>

\* Mutant: the wrap is not seen.
DeltaPlain(ticks) == ticks - ckTicks
\* acpi_pm_timer_overflow_correction is the largest count, one less than a turn.
Delta(ticks) == IF ticks < ckTicks THEN ticks + (CkTurn - 1) - ckTicks ELSE ticks - ckTicks

AddUptime(a) ==
    /\ CkGoto(a, "add", "store")
    /\ ckUptime' = ckUptime + ((Delta(ckVal[a]) * CkNs) \div CkPer)
    /\ ckCalls' = ckCalls + 1
    /\ ckTurns' = ckTurns + IF ckVal[a] < ckTicks THEN 1 ELSE 0
    /\ UNCHANGED <<ckNow, ckTicks, ckLast, ckLock, CallVars, ckVal, dateVars>>

\* The count is stored, the lock given up, and a thread's call returns.
StoreTicks(t) ==
    /\ CkGoto(t, "store", "idle") /\ t \in CkThreads
    /\ ckTicks' = ckVal[t] /\ ckLock' = CkNoOne /\ ckVal' = [ckVal EXCEPT ![t] = 0]
    /\ ckRaw' = [ckRaw EXCEPT ![t] = FALSE] /\ ckMoved' = [ckMoved EXCEPT ![t] = FALSE]
    /\ UNCHANGED <<ckNow, ckUptime, ckLast, ckCalls, ckTurns, ckRun, ckIrq, ckCpu, dateVars>>

----------------------------------------------------------------------------
(* The timer interrupt and schedule().                                      *)

\* Mutant: the lock does not keep the thread on its CPU.
CkCriticalNot(t) == FALSE
CkCritical(t) == ckPc[t] \in {"read", "add", "store"} /\ ~ckRaw[t]

\* schedule() returns at once for a critical thread; it asks for the time to
\* account for the thread's turn, or under sched_lock to take the next one.
TimerTick(c, kind) ==
    /\ ckIrq[c] = "no" /\ ~CkCritical(ckRun[c]) /\ ckCalls < CkMaxCalls
    /\ kind = "switch" => \A d \in CkCpus : ckIrq[d] # "switch"
    /\ ckIrq' = [ckIrq EXCEPT ![c] = kind]
    /\ ckPc' = [ckPc EXCEPT ![c] = "take"]
    /\ UNCHANGED <<ckNow, SumVars, ckLock, ckRun, ckVal, ckCpu, ckRaw, ckMoved, dateVars>>

\* uptime_raw() returns to schedule(), which picks a thread, and the interrupt
\* ends.
TickEnds(c) ==
    /\ CkGoto(c, "store", "idle")
    /\ ckTicks' = ckVal[c] /\ ckLock' = CkNoOne /\ ckVal' = [ckVal EXCEPT ![c] = 0]
    /\ \E t \in CkThreads :
          /\ \A d \in CkCpus \ {c} : ckRun[d] # t
          /\ ckIrq[c] = "account" => t = ckRun[c]
          /\ ckRun' = [ckRun EXCEPT ![c] = t]
          /\ ckMoved' = IF t = ckRun[c] THEN ckMoved ELSE [ckMoved EXCEPT ![ckRun[c]] = @ \/ ckPc[ckRun[c]] = "test"]
    /\ ckIrq' = [ckIrq EXCEPT ![c] = "no"]
    /\ UNCHANGED <<ckNow, ckUptime, ckLast, ckCalls, ckTurns, ckCpu, ckRaw, dateVars>>

\* The timer counts; within one turn of it somebody asks for the time.
Counts ==
    /\ ckNow < CkMax /\ ckNow - ckLast < CkTurn - 1
    /\ ckNow' = ckNow + 1
    /\ UNCHANGED <<SumVars, ckLock, CallVars, ckPc, ckVal, dateVars>>

----------------------------------------------------------------------------
(* The calendar.                                                            *)

\* day_count_for_each_month: an array of twelve with ten initialisers.
DayCountForEachMonth == <<31, 28, 31, 30, 31, 30, 31, 31, 30, 31, 0, 0>>

RECURSIVE DaysBefore(_, _)
DaysBefore(days, month) == IF month = 1 THEN 0 ELSE DaysBefore(days, month - 1) + days[month - 1]

LeapTerms(y) == ((y - 69) \div 4) - ((y - 1) \div 100) + ((y + 299) \div 400)

Dt2Epoch(dt) ==
    LET y == dt.year - 1900
    IN  dt.second + dt.minute * 60 + dt.hour * 3600
        + (DaysBefore(DayCountForEachMonth, dt.month) + dt.day) * 86400
        + (y - 70) * 31536000 + LeapTerms(y) * 86400

ToBCD(n) == (n \div 10) * 16 + (n % 10)
FromBCD(b) == (b \div 16) * 10 + (b % 16)

\* What a register of the clock holds, and what RTC::irq() makes of it.
Register(n) == IF ckFormat.bcd THEN ToBCD(n) ELSE n
Value(r) == IF ckFormat.bcd THEN FromBCD(r) ELSE r

\* The hour, the bit of the afternoon apart; that bit adds 12, to 12 as well.
HourRegister(h) == Register(IF ckFormat.day24 THEN h ELSE ((h + 11) % 12) + 1)
HourRead(h) == Value(HourRegister(h)) + IF ~ckFormat.day24 /\ h >= 12 THEN 12 ELSE 0

RtcIrq(dt) ==
    LET read(n) == Value(Register(n))
    IN  ckEpoch' = Dt2Epoch([year |-> read(dt.year % 100) + read(dt.year \div 100) * 100,
                             month |-> read(dt.month), day |-> read(dt.day), hour |-> HourRead(dt.hour),
                             minute |-> read(dt.minute), second |-> read(dt.second)])

IsLeap(y) == y % 4 = 0 /\ (y % 100 # 0 \/ y % 400 = 0)
MonthDays(y) == <<31, IF IsLeap(y) THEN 29 ELSE 28, 31, 30, 31, 30, 31, 31, 30, 31, 30, 31>>

MorningOf(y, m, d) == [year |-> y, month |-> m, day |-> d, hour |-> 0, minute |-> 0, second |-> 0]

\* The clock's next reading: the last second of a day, or the first of the next.
Later(dt) ==
    IF dt.hour = 0 THEN [dt EXCEPT !.hour = 23, !.minute = 59, !.second = 59]
    ELSE IF dt.day < MonthDays(dt.year)[dt.month] THEN MorningOf(dt.year, dt.month, dt.day + 1)
    ELSE IF dt.month < 12 THEN MorningOf(dt.year, dt.month + 1, 1)
    ELSE MorningOf(dt.year + 1, 1, 1)

DateGoesOn ==
    /\ Later(ckDate).year <= CkLastYear
    /\ ckDate' = Later(ckDate)
    /\ RtcIrq(Later(ckDate))
    /\ UNCHANGED <<uptimeVars, ckFormat>>

----------------------------------------------------------------------------
CkInit ==
    /\ ckNow = 0 /\ ckTicks = 0 /\ ckUptime = 0 /\ ckLock = CkNoOne
    /\ ckRun = CHOOSE f \in [CkCpus -> CkThreads] : \A c, d \in CkCpus : f[c] = f[d] => c = d
    /\ ckIrq = [c \in CkCpus |-> "no"]
    /\ ckPc = [a \in CkActors |-> "idle"] /\ ckVal = [a \in CkActors |-> 0]
    /\ ckCpu = [t \in CkThreads |-> CHOOSE c \in CkCpus : TRUE]
    /\ ckRaw = [t \in CkThreads |-> FALSE] /\ ckMoved = [t \in CkThreads |-> FALSE]
    /\ ckLast = 0 /\ ckCalls = 0 /\ ckTurns = 0
    /\ ckFormat \in [bcd : BOOLEAN, day24 : BOOLEAN]
    /\ ckDate = MorningOf(CkFirstYear, 1, 1) /\ ckEpoch = 0

UptimeNext ==
    \/ Counts
    \/ \E t \in CkCallers : Look(t) \/ Test(t) \/ StoreTicks(t)
    \/ \E a \in CkActors : TakeClock(a) \/ ReadTimer(a) \/ AddUptime(a)
    \/ \E c \in CkCpus : TickEnds(c) \/ \E kind \in {"account", "switch"} : TimerTick(c, kind)

DateSpec == CkInit /\ [][DateGoesOn]_ckVars

----------------------------------------------------------------------------
(* Properties.                                                              *)

\* Between calls ns_uptime is what the timer has counted up to the last one,
\* never more, and less by under a nanosecond for a call and by one count for a
\* turn of the timer, no matter who calls where (time.cpp:39-80).
UptimeKept ==
    ckLock = CkNoOne =>
        LET behind == ckLast * CkNs - ckUptime * CkPer
        IN  0 <= behind /\ behind <= (CkPer - 1) * ckCalls + CkNs * ckTurns

\* The interrupt of a CPU waits for uptime_lock while the thread it interrupted
\* holds it only if that thread was moved between CPU::current() and the test
\* of in_interrupt, and so took the lock as an interrupt does (time.cpp:40).
SelfWaitNeedsMove ==
    \A c \in CkCpus : ckPc[c] = "take" /\ ckLock = ckRun[c] => ckMoved[ckRun[c]]

\* Days since 1970, counted by years and months.
RECURSIVE DaysOfYears(_)
DaysOfYears(y) == IF y = 1970 THEN 0 ELSE DaysOfYears(y - 1) + IF IsLeap(y - 1) THEN 366 ELSE 365
UnixEpoch(dt) ==
    dt.second + dt.minute * 60 + dt.hour * 3600
    + (DaysOfYears(dt.year) + DaysBefore(MonthDays(dt.year), dt.month) + dt.day - 1) * 86400

\* The clock's time is a UNIX epoch, as time.hpp:17 and :22 say.
EpochIsUnix == ckEpoch # 0 => ckEpoch = UnixEpoch(ckDate)
=============================================================================
