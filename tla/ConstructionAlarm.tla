--------------------------- MODULE ConstructionAlarm ---------------------------
(***************************************************************************)
(* Alarms for work on a construction site outside the hours it may work    *)
(* ("chaoshi") and after its last day ("chaoqi"), each at most once an     *)
(* hour.                                                                   *)
(*                                                                         *)
(*   biz/analyzer/handler/violations/construction/chaoshi.go, chaoqi.go    *)
(*                                                                         *)
(* The code compares Day() and Hour() of the last alarm with the present   *)
(* ones, and the hours with Hour()*100 + Second().                         *)
(***************************************************************************)
EXTENDS Integers, Sequences

CONSTANTS
  Configs,    \* config.available as it was written: sequences of hhmm
  Hours,      \* hours in a day (24)
  MonthDays,  \* bound: days in a month
  MaxHour,    \* bound: the last hour of the model
  EndHour     \* the hour after which work is overdue

VARIABLES
  available,  \* cfg.Available; <<-1>> when the handler was not made
  hour,       \* hours since the start
  last,       \* lastWarning of each alarm, as the hour it was in, -1 for nil
  alarms,     \* ghost: the alarms of this hour
  missed,     \* ghost: the alarms that were due in this hour when a frame was handled,
              \* and are not given
  dead        \* the process ended: a panic when the handler was made, or in Handle of
              \* a handler that was not

vars == <<available, hour, last, alarms, missed, dead>>

Kinds == {"chaoshi", "chaoqi"}
Broken == <<-1>>

TypeOK ==
  /\ hour \in 0..MaxHour /\ last \in [Kinds -> -1..MaxHour]
  /\ alarms \in [Kinds -> Nat] /\ missed \in SUBSET Kinds /\ dead \in BOOLEAN
  /\ available = Broken \/ Len(available) % 2 = 0

AvailableTime(t) == t \div 100 \in 0..24 /\ t % 100 < 60

\* A single time is not cut off: the test for a second one reads past the end.
NewPanics(cfg) == Len(cfg) = 1 /\ AvailableTime(cfg[1])

\* Mutant: a time without a second one is kept.
NewUncut(cfg) == IF cfg = <<>> THEN <<0, 2400>> ELSE cfg

\* The configuration a handler works with: pairs only, the whole day when there is
\* none; no handler when a time is wrong or a pair is not in order.
New(cfg) ==
  LET pairs == IF Len(cfg) \div 2 # 0 THEN SubSeq(cfg, 1, 2 * (Len(cfg) \div 2)) ELSE cfg
      times == IF pairs = <<>> THEN <<0, 2400>> ELSE pairs
  IN IF /\ \A i \in 1..Len(times) : AvailableTime(times[i])
        /\ \A i \in 1..Len(times) : i % 2 = 1 => times[i] <= times[i + 1]
     THEN times ELSE Broken

Init ==
  /\ \E cfg \in Configs : /\ dead = NewPanics(cfg)
                          /\ available = IF NewPanics(cfg) THEN Broken ELSE New(cfg)
  /\ hour = 0 /\ last = [k \in Kinds |-> -1]
  /\ alarms = [k \in Kinds |-> 0] /\ missed = {}

\* Mutant: only the hour of the day is compared.
SameHourAnyDay(g, h) == g % Hours = h % Hours

\* Day() and Hour() of two times are the same; days count within a month.
SameHour(g, h) == g % Hours = h % Hours /\ (g \div Hours) % MonthDays = (h \div Hours) % MonthDays

\* Work is outside the hours: at a second of whatever minute of this hour.
OutOfHours(second) ==
  LET inow == (hour % Hours) * 100 + second
  IN ~\E i \in 1..Len(available) : i % 2 = 1 /\ inow >= available[i] /\ inow <= available[i + 1]

\* Work after the last day.
Overdue == hour > EndHour

\* A frame that shows work at the site: both handlers look at it. A handler that was
\* not made is called all the same, and lastWarning of a nil pointer is read.
Handle(second) ==
  /\ ~dead
  /\ IF available = Broken THEN dead' = TRUE /\ UNCHANGED <<last, alarms, missed>>
     ELSE LET due == {k \in Kinds : IF k = "chaoshi" THEN OutOfHours(second) ELSE Overdue}
              given == {k \in due : last[k] = -1 \/ ~SameHour(last[k], hour)}
          IN /\ last' = [k \in Kinds |-> IF k \in given THEN hour ELSE last[k]]
             /\ alarms' = [k \in Kinds |-> IF k \in given THEN alarms[k] + 1 ELSE alarms[k]]
             /\ missed' = {k \in missed \cup due : alarms'[k] = 0}
             /\ UNCHANGED dead
  /\ UNCHANGED <<available, hour>>

NextHour ==
  /\ hour < MaxHour /\ hour' = hour + 1
  /\ alarms' = [k \in Kinds |-> 0] /\ missed' = {}
  /\ UNCHANGED <<available, last, dead>>

Next == NextHour \/ \E second \in {0, 59} : Handle(second)

Spec == Init /\ [][Next]_vars

-----------------------------------------------------------------------------
\* An alarm is given at most once in an hour, and a frame that shows overdue work is
\* not passed over in an hour without an alarm, but for an hour that is a whole number
\* of months after the last alarm (chaoshi.go:72-74, chaoqi.go:46-48).
AlarmedOncePerHour ==
  \A k \in Kinds :
    /\ alarms[k] <= 1
    /\ k \in missed => last[k] # hour /\ (hour - last[k]) % (Hours * MonthDays) = 0
=============================================================================
