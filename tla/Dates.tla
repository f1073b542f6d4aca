-------------------------------- MODULE Dates --------------------------------
(***************************************************************************)
(* Types::Date (Types/Date.cpp): one object that is assigned texts and     *)
(* times again and again, and read in between.                             *)
(*                                                                         *)
(* The calendar is left to strptime, timegm and strftime: a text shows a   *)
(* day, an hour, a minute and a second (its wall clock), what follows the  *)
(* "." (a number of digits and their value) and a zone.  The instants are  *)
(* the seconds and nanoseconds since the first day.                        *)
(***************************************************************************)
EXTENDS Integers, Sequences

CONSTANTS Texts,   \* what the users of Date assign: texts ...
          Times    \* ... and times, [sec, nsec]

VARIABLES
    date,    \* the members valid, tv_sec and tv_nsec
    meant    \* the instant last assigned, [sec, nsec]

vars == <<date, meant>>

Wall(day, hour, min, sec) == [day |-> day, hour |-> hour, min |-> min, sec |-> sec]
Seconds(wall) == 86400 * wall.day + 3600 * wall.hour + 60 * wall.min + wall.sec
NoFraction == [digits |-> 0, value |-> 0]
Zone(sign, h, m) == [sign |-> sign, h |-> h, m |-> m]
NoZone == Zone("none", 0, 0)
Z == Zone("Z", 0, 0)

(* form is "GMT", as in "Thu, 01 Jan 1970 00:00:00 GMT", "ISO", as in
   "1970-01-01T00:00:00.000+08:00", or "empty". *)
Text(form, wall, fraction, zone) ==
    [form |-> form, wall |-> wall, fraction |-> fraction, zone |-> zone]
EmptyText == Text("empty", Wall(0, 0, 0, 0), NoFraction, NoZone)

(* The nanoseconds in one unit of the last of so many digits. *)
Unit(digits) ==
    <<1000000000, 100000000, 10000000, 1000000, 100000, 10000, 1000, 100, 10, 1>>[digits + 1]

(* What a text means, whoever reads it. *)
TextMeans(t) ==
    [sec |-> Seconds(t.wall)
             - (IF t.zone.sign = "-" THEN -1 ELSE 1) * (3600 * t.zone.h + 60 * t.zone.m),
     nsec |-> t.fraction.value * Unit(t.fraction.digits)]

-----------------------------------------------------------------------------
ZoneSeconds(zone) == 3600 * zone.h + 60 * zone.m

\* Mutant: the sign is lost when the "-" of a zone is found.
OffsetUnsigned(t) == ZoneSeconds(t.zone)

(* The zone is behind the last "+", or else the last "-".  In a text without
   one that is the "-" in front of its day, as in "01T12:30:00", which gives
   the day as hours and the hour as minutes. *)
Offset(t) ==
    CASE t.form = "GMT" \/ t.zone.sign = "Z" -> 0
      [] t.zone.sign = "+" -> ZoneSeconds(t.zone)
      [] t.zone.sign = "-" -> -ZoneSeconds(t.zone)
      [] OTHER -> -ZoneSeconds(Zone("-", t.wall.day + 1, t.wall.hour))

(* strtol, and millions of nanoseconds whatever the number of its digits. *)
Nanoseconds(t) == IF t.form = "GMT" THEN 0 ELSE t.fraction.value * 1000000

(* assign.  The flag is taken back and never given. *)
AssignedText(t) ==
    IF t.form = "empty" THEN [valid |-> FALSE, sec |-> date.sec, nsec |-> date.nsec]
    ELSE [valid |-> date.valid, sec |-> Seconds(t.wall) - Offset(t), nsec |-> Nanoseconds(t)]

AssignedTime(time) == [valid |-> TRUE, sec |-> time.sec, nsec |-> time.nsec]

(* assign_jstime, from the milliseconds getTime gives. *)
AssignedJstime(ms) ==
    [valid |-> TRUE, sec |-> ms \div 1000, nsec |-> (ms % 1000) * 1000000]

WallOf(sec) ==
    Wall(sec \div 86400, (sec % 86400) \div 3600, (sec % 3600) \div 60, sec % 60)

(* toGMTString and toISOString; the latter gives three digits or none. *)
ToGMTString(d) == Text("GMT", WallOf(d.sec), NoFraction, NoZone)
ToISOString(d) ==
    Text("ISO", WallOf(d.sec),
         IF d.nsec = 0 THEN NoFraction ELSE [digits |-> 3, value |-> d.nsec \div 1000000], Z)

(* getTime: milliseconds. *)
GetTime(d) == IF d.valid THEN d.sec * 1000 + d.nsec \div 1000000 ELSE 0

-----------------------------------------------------------------------------
Init ==
    \E t \in Times : date = AssignedTime(t) /\ meant = t

AssignText ==
    \E t \in Texts : date' = AssignedText(t) /\ meant' = TextMeans(t)

AssignTime ==
    \E t \in Times : date' = AssignedTime(t) /\ meant' = t

(* The text of the object assigned to it, as by two servers in turn. *)
ThroughGMT ==
    /\ date.valid
    /\ date' = AssignedText(ToGMTString(date))
    /\ meant' = [sec |-> meant.sec, nsec |-> 0]

Milliseconds(t) == [sec |-> t.sec, nsec |-> (t.nsec \div 1000000) * 1000000]

ThroughISO ==
    /\ date.valid
    /\ date' = AssignedText(ToISOString(date))
    /\ meant' = Milliseconds(meant)

ThroughJstime ==
    /\ date.valid /\ GetTime(date) >= 0
    /\ date' = AssignedJstime(GetTime(date))
    /\ meant' = Milliseconds(meant)

Next == AssignText \/ AssignTime \/ ThroughGMT \/ ThroughISO \/ ThroughJstime

Spec == Init /\ [][Next]_vars
-----------------------------------------------------------------------------
(* Whatever was assigned before, and through whatever texts of its own it has
   gone, a Date gives the instant that was assigned last, to the millisecond:
   assign leaves nothing of an earlier date in the object. *)
DateIsWhatWasAssigned ==
    GetTime(date) = meant.sec * 1000 + meant.nsec \div 1000000
=============================================================================
