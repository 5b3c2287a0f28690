------------------------------- MODULE Dates -------------------------------
(***************************************************************************)
(* Date objects: the time in UTC milliseconds or unset, the setters that   *)
(* take some fields from the arguments and the others from the time, in    *)
(* UTC or in the local zone, the text of a date and the two parsers.       *)
(*                                                                         *)
(* A time is <<day, ms>>: the days since 1970 and the milliseconds of the  *)
(* day; <<>> is the unset one.  The fields of a time are <<year, month,    *)
(* day, hour, minute, second, millisecond>>, months from 0.  A number is   *)
(* <<"int", n>>, <<"nan">>, <<"inf">> or <<"time", t>> (too large for      *)
(* "int").  A zone is ahead of UTC by `before` minutes until the time      *)
(* `at`, then by `after`.  A text is a sequence of lexemes: <<"n", v, d>>  *)
(* is a run of d digits, <<"month", m>> and <<"zone", z>> are names,       *)
(* <<"word">> any other run of letters.                                    *)
(***************************************************************************)
EXTENDS Integers, SequencesExt

DayMs == 86400000
Unset == <<>>
Utc == [before |-> 0, after |-> 0, at |-> <<0, 0>>]

Plus(t, ms) == LET all == t[2] + ms IN <<t[1] + all \div DayMs, all % DayMs>>
Before(t, u) == t[1] < u[1] \/ (t[1] = u[1] /\ t[2] < u[2])

---------------------------------------------------------------------------
(* The calendar of Go's time package.                                      *)

\* [external time.Date] days from 1970 to the first day of a month, counted in years that begin in March
DaysTo(year, month) ==
    LET y == IF month < 2 THEN year - 1 ELSE year
        m == (month + 10) % 12
    IN 365 * y + y \div 4 - y \div 100 + y \div 400 + (153 * m + 2) \div 5 - 719468

\* [external time.Zone]
Offset(zone, t) == IF Before(t, zone.at) THEN zone.before ELSE zone.after

\* [external time.Time.Date]
Fields(t, zone) ==
    LET local == Plus(t, Offset(zone, t) * 60000)
        cycle == local[1] \div 146097
        about == 1970 + 400 * cycle + ((local[1] - 146097 * cycle) * 400) \div 146097
        year == CHOOSE y \in (about - 1)..(about + 1) : DaysTo(y, 0) <= local[1] /\ local[1] < DaysTo(y + 1, 0)
        month == CHOOSE m \in 0..11 : DaysTo(year, m) <= local[1] /\ (m < 11 => local[1] < DaysTo(year, m + 1))
        s == local[2] \div 1000
    IN <<year, month, local[1] - DaysTo(year, month) + 1, s \div 3600, (s \div 60) % 60, s % 60, local[2] % 1000>>
\* [external time.Weekday]
Weekday(t, zone) == (Plus(t, Offset(zone, t) * 60000)[1] + 4) % 7

\* The time with these fields; near a change of the offset Go looks it up twice
\* [external time.Date]
Date(f, zone) ==
    LET local == Plus(<<DaysTo(f[1], f[2]) + f[3] - 1, 0>>, ((f[4] * 60 + f[5]) * 60 + f[6]) * 1000 + f[7])
        first == Offset(zone, local)
        utc == Plus(local, -first * 60000)
        same == Before(utc, zone.at) <=> Before(local, zone.at)
    IN IF first = 0 THEN local ELSE Plus(local, -(IF same THEN first ELSE Offset(zone, utc)) * 60000)

---------------------------------------------------------------------------
(* The object.                                                             *)

\* [date.go setTimeMs] the date afterwards
setTimeMs(t) == IF (t[1] < 100000000 /\ t[1] >= -100000000) \/ t = <<100000000, 0>> THEN t ELSE Unset

\* A field that is infinite is the largest int64, and in every sum below it leaves the range of the next one.
\* [builtin_date.go _norm]
norm(hi, lo, base) == <<hi + lo \div base, lo % base>>

\* Years further off than Limit are no times.  But 2^64 milliseconds are Lap years, 17989 days and 51951616 milliseconds, and the limits of the code
\* are those of an int32: a year that many years off comes back.
Limit == 1000000
Lap == 584554000
\* The time with these fields in an int64 of milliseconds
\* [date.go timeToMsec]
timeToMsec(f, zone) ==
    LET rem == f[1] % Lap
        laps == f[1] \div Lap + (IF rem > Limit THEN 1 ELSE 0)
        there == CASE laps = 0 -> zone [] laps > 0 -> [zone EXCEPT !.before = zone.after] [] laps < 0 -> [zone EXCEPT !.after = zone.before]
        t == Date([f EXCEPT ![1] = @ - laps * Lap], there)
    IN IF rem \in (Limit + 1)..(Lap - Limit - 1) THEN Unset ELSE Plus(<<t[1] - laps * 17989, t[2]>>, -laps * 51951616)

\* The carries in the order of the code, and the time
\* [builtin_date.go mkTime]
mkTime(f, zone) ==
    LET month == norm(f[1], f[2], 12)
        sec == norm(f[6], f[7], 1000)
        min == norm(f[5], sec[1], 60)
        hour == norm(f[4], min[1], 60)
        day == norm(f[3], hour[1], 24)
    IN timeToMsec(<<month[1], month[2], day[1], day[2], hour[2], min[2], sec[2]>>, zone)

\* [builtin_date.go _intArg] the argument, or what a missing one is
Arg(args, n) == IF n <= Len(args) THEN args[n].v ELSE <<"nan">>

\* Field i is that of an argument, argument first being field 1; the first one counts as given
\* [builtin_date.go _dateSetFullYear.._dateSetSeconds]
Given(args, first, i) == i = first \/ (i > first /\ i - first < Len(args))

\* What the fields give, or the unset time for an argument that is not a number
\* [builtin_date.go _dateSetMilliseconds]
dateSet(old, args, first, zone) ==
    LET value(i) == IF Given(args, first, i) THEN Arg(args, i - first + 1) ELSE <<"int", old[i]>>
    IN IF \E i \in 1..7 : value(i)[1] # "int" THEN Unset
       ELSE mkTime([i \in 1..7 |-> value(i)[2]], zone)
\* [builtin_date.go _dateSetYear] years of two digits
dateSetYear(args, zone) ==
    LET year == Arg(args, 1)
        short == year[1] = "int" /\ year[2] \in 0..99
        all == IF short THEN <<[args[1] EXCEPT !.v = <<"int", year[2] + 1900>>]>> \o Tail(args) ELSE args
    IN dateSet(<<1970, 0, 1, 0, 0, 0, 0>>, all, 1, zone)

\* The first field a setter sets and how many arguments it takes; what runs in the conversion of an argument may set the date
\* [builtin_date.go dateproto_setDate..dateproto_setUTCMonth]
First(name) == CASE name = "FullYear" -> 1 [] name = "Month" -> 2 [] name = "Date" -> 3 [] name = "Hours" -> 4 [] name = "Minutes" -> 5 [] name = "Seconds" -> 6
Taken(name, args) ==
    LET limit == CASE name = "Date" -> 1 [] name = "Month" -> 2 [] name = "FullYear" -> 3 [] OTHER -> 4
    IN IF Len(args) > limit THEN SubSeq(args, 1, limit) ELSE args
AfterArgs(d, args) == LET set == SelectSeq(args, LAMBDA a : a.sets # <<>>) IN IF set = <<>> THEN d ELSE Last(set).sets

\* It reads the date again once the arguments are converted.
SetReadsLate(d, name, args, zone) ==
    LET late == AfterArgs(d, args)
        t == dateSet(IF late = Unset THEN <<1970, 0, 1, 0, 0, 0, 0>> ELSE Fields(late, zone), Taken(name, args), First(name), zone)
    IN IF t = Unset \/ d = Unset THEN [v |-> Unset, d |-> Unset] ELSE [v |-> setTimeMs(t), d |-> setTimeMs(t)]

\* The result and the date
\* [builtin_date.go dateproto_setSeconds..dateproto_setUTCHours]
dateproto_set(d, name, args, zone) ==
    LET t == dateSet(IF d = Unset THEN <<1970, 0, 1, 0, 0, 0, 0>> ELSE Fields(d, zone), Taken(name, args), First(name), zone)
    IN IF t = Unset THEN [v |-> Unset, d |-> Unset]
       ELSE IF d = Unset THEN [v |-> Unset, d |-> AfterArgs(d, args)]
       ELSE [v |-> setTimeMs(t), d |-> setTimeMs(t)]
\* [builtin_date.go dateproto_setFullYear..dateproto_setUTCFullYear]
setFullYear(d, args, zone) ==
    LET t == dateSet(IF d = Unset THEN <<1970, 0, 1, 0, 0, 0, 0>> ELSE Fields(d, zone), Taken("FullYear", args), 1, zone)
        set == IF t = Unset THEN Unset ELSE setTimeMs(t)
    IN [v |-> set, d |-> set]

\* The second is cut towards zero.
\* [builtin_date.go dateproto_setMilliseconds..dateproto_setUTCMilliseconds]
setMilliseconds(d, args) ==
    LET n == Arg(args, 1)
        sec == IF Before(d, <<0, 0>>) THEN Plus(d, (-d[2]) % 1000) ELSE Plus(d, -(d[2] % 1000))
        set == IF n[1] # "int" THEN Unset ELSE setTimeMs(Plus(sec, n[2]))
    IN IF d = Unset THEN [v |-> Unset, d |-> AfterArgs(d, args)] ELSE [v |-> set, d |-> set]

\* [builtin_date.go dateproto_setTime]
setTime(args) ==
    LET n == Arg(args, 1)
        set == CASE n[1] = "int" -> Plus(<<0, 0>>, n[2]) [] n[1] = "time" -> setTimeMs(n[2]) [] OTHER -> Unset
    IN [v |-> set, d |-> set]

\* [builtin_date.go dateproto_valueOf..dateproto_getUTCHours]
DateGetter(d, name, zone) ==
    CASE name = "Time" -> d
      [] name = "FullYear" -> Fields(d, zone)[1]
      [] name = "Month" -> Fields(d, zone)[2]
      [] name = "Hours" -> Fields(d, zone)[4]
\* [builtin_date.go dateproto_getDate..dateproto_getTimezoneOffset]
TimeGetter(d, name, zone) ==
    CASE name = "Date" -> Fields(d, zone)[3]
      [] name = "Day" -> Weekday(d, zone)
      [] name = "Minutes" -> Fields(d, zone)[5]
      [] name = "Seconds" -> Fields(d, zone)[6]
      [] name = "Milliseconds" -> Fields(d, zone)[7]
      [] name = "TimezoneOffset" -> -Offset(zone, d)

---------------------------------------------------------------------------
(* The texts of a date.                                                    *)

Digits(v) == CASE v < 10 -> 1 [] v < 100 -> 2 [] v < 1000 -> 3 [] v < 10000 -> 4 [] v < 100000 -> 5 [] OTHER -> 6
Two(v) == <<<<"n", v, 2>>>>
Year(y) ==
    LET abs == IF y < 0 THEN -y ELSE y
    IN (IF y < 0 THEN <<<<"-">>>> ELSE <<>>) \o <<<<"n", abs, IF Digits(abs) < 4 THEN 4 ELSE Digits(abs)>>>>
Lexeme(c) == <<<<c>>>>
Clock(f) == Two(f[4]) \o Lexeme(":") \o Two(f[5]) \o Lexeme(":") \o Two(f[6])

\* [date.go:10-16 dateTimeLayout]
Layout(name, t, zone) ==
    LET f == Fields(t, zone)
        z == Offset(zone, t)
        abs == IF z < 0 THEN -z ELSE z
        sp == Lexeme(" ")
        date == Lexeme("word") \o sp \o <<<<"month", f[2] + 1>>>> \o sp \o Two(f[3]) \o sp \o Year(f[1])
        time == Clock(f) \o sp \o <<<<"zone", 0>>>> \o Lexeme(IF z < 0 THEN "-" ELSE "+") \o <<<<"n", (abs \div 60) * 100 + (abs % 60), 4>>>>
                    \o sp \o Lexeme("(") \o Lexeme("word") \o Lexeme(")")
        localeDate == Two(f[2] + 1) \o Lexeme("/") \o Two(f[3]) \o Lexeme("/") \o Year(f[1])
    IN CASE name = "dateTimeLayout" -> date \o sp \o time
         [] name = "dateLayout" -> date
         [] name = "timeLayout" -> time
         [] name = "utcDateTimeLayout" -> Lexeme("word") \o Lexeme(",") \o sp \o Two(f[3]) \o sp \o <<<<"month", f[2] + 1>>>> \o sp \o Year(f[1])
                                             \o sp \o Clock(f) \o sp \o <<<<"zone", 0>>>>
         [] name = "datetimeLayout_en_GB" -> localeDate \o Lexeme(",") \o sp \o Clock(f)
         [] name = "dateLayout_en_GB" -> localeDate
         [] name = "timeLayout_en_GB" -> Clock(f)

\* The sign counts as one of the six characters of a year that has one.
\* [builtin_date.go dateproto_toISOString]
dateproto_toISOString(d) ==
    LET f == Fields(d, Utc)
        abs == IF f[1] < 0 THEN -f[1] ELSE f[1]
        year == IF f[1] \in -9999..9999 THEN Year(f[1]) ELSE Lexeme(IF f[1] < 0 THEN "-" ELSE "+") \o <<<<"n", abs, Digits(abs)>>>>
    IN year \o Lexeme("-") \o Two(f[2] + 1) \o Lexeme("-") \o Two(f[3]) \o Lexeme("T") \o Clock(f) \o Lexeme(".") \o <<<<"n", f[7], 3>>>> \o Lexeme("Z")

\* [builtin_date.go dateproto_toString..dateproto_toUTCString]
toDateTime(d, name, zone) == IF name = "toString" THEN Layout("dateTimeLayout", d, zone) ELSE Layout("utcDateTimeLayout", d, Utc)
\* [builtin_date.go dateproto_toDateString..dateproto_toLocaleTimeString]
toPart(d, name, zone) ==
    Layout(CASE name = "toDateString" -> "dateLayout"
             [] name = "toTimeString" -> "timeLayout"
             [] name = "toLocaleString" -> "datetimeLayout_en_GB"
             [] name = "toLocaleDateString" -> "dateLayout_en_GB"
             [] name = "toLocaleTimeString" -> "timeLayout_en_GB", d, zone)

\* toISOString throws a RangeError for an unset date, toJSON returns null.
\* [builtin_date.go dateproto_toJSON]
Text(d, name, zone) ==
    CASE d = Unset -> Lexeme(IF name = "toISOString" THEN "RangeError" ELSE IF name = "toJSON" THEN "null" ELSE "Invalid Date")
      [] name \in {"toISOString", "toJSON"} -> dateproto_toISOString(d)
      [] name \in {"toString", "toUTCString"} -> toDateTime(d, name, zone)
      [] OTHER -> toPart(d, name, zone)

---------------------------------------------------------------------------
(* The parsers.                                                            *)

Is(s, c) == s # <<>> /\ s[1][1] = c
Number(s) == Is(s, "n")
Separator(s) == s # <<>> /\ s[1][1] \in {"-", "/", ".", ","}
Letter(s) == s # <<>> /\ s[1][1] \in {"word", "month", "zone", "T", "Z", "am", "pm"}
Fail == [ok |-> FALSE, v |-> 0, s |-> <<>>, n |-> 0]

\* [date_parser.go skip..skipUntil]
RECURSIVE skipUntil(_, _)
skipUntil(s, stopList) == IF s = <<>> \/ s[1][1] \in stopList THEN s ELSE skipUntil(Tail(s), stopList)
RECURSIVE skipAll(_, _)
skipAll(s, skipped) == IF s = <<>> \/ s[1][1] \notin skipped THEN s ELSE skipAll(Tail(s), skipped)

\* At most max digits of a run, and at least min
\* [date_parser.go getDigits]
getDigits(s, min, max) ==
    IF ~Number(s) \/ s[1][3] < min THEN Fail
    ELSE LET more == s[1][3] - max
         IN IF more <= 0 THEN [ok |-> TRUE, v |-> s[1][2], s |-> Tail(s), n |-> s[1][3]]
            ELSE [ok |-> TRUE, v |-> s[1][2] \div 10^more, s |-> <<<<"n", s[1][2] % 10^more, more>>>> \o Tail(s), n |-> max]

\* [date_parser.go getMilliseconds] the first three digits of the fraction
getMilliseconds(s) ==
    IF s = <<>> \/ s[1][1] \notin {".", ","} \/ ~Number(Tail(s)) THEN [v |-> 0, s |-> s]
    ELSE LET d == s[2][3] IN [v |-> IF d >= 3 THEN s[2][2] \div 10^(d - 3) ELSE s[2][2] * 10^(3 - d), s |-> Tail(Tail(s))]

\* The minutes of [+-]HH:mm, [+-]HHmm or Z; more digits are dropped from the end, two by two
\* [date_parser.go getTimeZoneOffset]
getTimeZoneOffset(s, strict) ==
    IF Is(s, "Z") THEN [ok |-> TRUE, v |-> 0, s |-> Tail(s)]
    ELSE IF ~(Is(s, "+") \/ Is(s, "-")) THEN Fail
    ELSE LET digits == getDigits(Tail(s), 1, 9)
             n == digits.n
             drop == IF n > 4 THEN (n - 3) \div 2 ELSE 0
             head == digits.v \div 100^drop
             split == n - 2 * drop > 2
             colon == ~split /\ Is(digits.s, ":")
             minutes == getDigits(Tail(digits.s), 2, 2)
             hh == IF split THEN head \div 100 ELSE head
             mm == IF split THEN head % 100 ELSE IF colon THEN minutes.v ELSE 0
         IN IF ~digits.ok \/ (strict /\ n # 2 /\ n # 4) \/ (colon /\ ~minutes.ok) \/ hh > 23 \/ mm > 59 THEN Fail
            ELSE [ok |-> TRUE, v |-> IF s[1][1] = "-" THEN -(hh * 60 + mm) ELSE hh * 60 + mm, s |-> IF colon THEN minutes.s ELSE digits.s]

\* A date is <<year, month, day, hour, min, sec, msec>>, months from 1, with the offset, or local.
NoDate == [ok |-> FALSE, f |-> <<0, 0, 0, 0, 0, 0, 0>>, zone |-> 0, isLocal |-> FALSE]

\* [date_parser.go parseDateISOString]
parseDateISOString(s) ==
    LET signed == Is(s, "+") \/ Is(s, "-")
        y == IF signed THEN getDigits(Tail(s), 6, 6) ELSE getDigits(s, 4, 4)
        minus == Is(s, "-")
        hasMonth == Is(y.s, "-")
        m == IF hasMonth THEN getDigits(Tail(y.s), 2, 2) ELSE [ok |-> TRUE, v |-> 1, s |-> y.s]
        hasDay == hasMonth /\ Is(m.s, "-")
        d == IF hasDay THEN getDigits(Tail(m.s), 2, 2) ELSE [ok |-> TRUE, v |-> 1, s |-> m.s]
        hasTime == Is(d.s, "T")
        zero == [ok |-> TRUE, v |-> 0, s |-> d.s]
        h == IF hasTime THEN getDigits(Tail(d.s), 2, 2) ELSE zero
        min == IF hasTime THEN (IF Is(h.s, ":") THEN getDigits(Tail(h.s), 2, 2) ELSE Fail) ELSE zero
        hasSec == hasTime /\ Is(min.s, ":")
        sec == IF hasSec THEN getDigits(Tail(min.s), 2, 2) ELSE [ok |-> TRUE, v |-> 0, s |-> min.s]
        ms == IF hasSec THEN getMilliseconds(sec.s) ELSE [v |-> 0, s |-> sec.s]
        hasZone == ms.s # <<>>
        zone == IF hasZone THEN getTimeZoneOffset(ms.s, TRUE) ELSE [ok |-> TRUE, v |-> 0, s |-> <<>>]
    IN IF ~(y.ok /\ m.ok /\ d.ok /\ h.ok /\ min.ok /\ sec.ok /\ zone.ok) \/ m.v < 1 \/ d.v < 1 \/ zone.s # <<>> \/ (minus /\ y.v = 0) THEN NoDate
       ELSE [ok |-> TRUE, f |-> <<IF minus THEN -y.v ELSE y.v, m.v, d.v, h.v, min.v, sec.v, ms.v>>, zone |-> zone.v, isLocal |-> hasTime /\ ~hasZone]

\* What is left of the parser when it has read some lexemes
Start == [ok |-> TRUE, s |-> <<>>, f |-> <<2001, 1, 1, 0, 0, 0, 0>>, zone |-> 0, isLocal |-> TRUE, nums |-> <<>>, hasYear |-> FALSE, hasMon |-> FALSE, hasTime |-> FALSE]
Century(v) == IF v < 50 THEN v + 2000 ELSE IF v < 100 THEN v + 1900 ELSE v
Rest(p, s) == [p EXCEPT !.s = skipAll(s, {"-", "/", ".", ","})]
Reject(p) == [p EXCEPT !.ok = FALSE]

\* A time and the am or pm behind it
\* [date_parser.go:284-312 parseDateOtherString]
TimePart(p, hour, s) ==
    LET min == getDigits(s, 1, 2)
        sec == IF Is(min.s, ":") THEN getDigits(Tail(min.s), 1, 2) ELSE [ok |-> TRUE, v |-> 0, s |-> min.s]
        ms == IF Is(min.s, ":") THEN getMilliseconds(sec.s) ELSE [v |-> 0, s |-> sec.s]
        t == skipAll(ms.s, {" "})
        half == t # <<>> /\ t[1][1] \in {"am", "pm"}
        h == IF half /\ t[1][1] = "pm" /\ hour < 12 THEN hour + 12 ELSE IF half /\ t[1][1] = "am" /\ hour = 12 THEN 0 ELSE hour
        read == [p EXCEPT !.f = <<p.f[1], p.f[2], p.f[3], h, min.v, sec.v, ms.v>>, !.hasTime = TRUE]
    IN IF ~min.ok \/ ~sec.ok THEN Reject(p) ELSE IF half THEN [read EXCEPT !.s = Tail(t)] ELSE Rest(read, ms.s)

\* A sign starts an offset behind a time, and a year otherwise
\* [date_parser.go:264-283 parseDateOtherString]
SignPart(p) ==
    LET zone == IF p.hasTime THEN getTimeZoneOffset(p.s, FALSE) ELSE Fail
        year == getDigits(Tail(p.s), 1, 9)
        minus == Is(p.s, "-")
    IN IF zone.ok THEN Rest([p EXCEPT !.zone = zone.v, !.isLocal = FALSE], zone.s)
       ELSE IF ~year.ok THEN Rest(p, Tail(p.s))
       ELSE IF minus /\ year.v = 0 THEN Reject(p)
       ELSE Rest([p EXCEPT !.f[1] = IF minus THEN -year.v ELSE year.v, !.hasYear = TRUE], year.s)

\* Any other number: a year when it cannot be a month or a day
\* [date_parser.go:313-331 parseDateOtherString]
NumberPart(p, number) ==
    LET s == number.s
    IN IF number.n > 2 THEN Rest([p EXCEPT !.f[1] = number.v, !.hasYear = TRUE], s)
       ELSE IF number.v \notin 1..31 THEN Rest([p EXCEPT !.f[1] = Century(number.v), !.hasYear = TRUE], s)
       ELSE IF Len(p.nums) = 3 THEN Reject(p)
       ELSE Rest([p EXCEPT !.nums = Append(@, number.v)], s)

\* Behind the parentheses that are open
RECURSIVE Closed(_, _)
Closed(s, level) == IF level = 0 \/ s = <<>> THEN <<s, level>> ELSE Closed(Tail(s), IF Is(s, "(") THEN level + 1 ELSE IF Is(s, ")") THEN level - 1 ELSE level)

\* A month, a zone, a phrase in parentheses, or a word, that may only come first
\* [date_parser.go:332-371 parseDateOtherString]
WordPart(p) ==
    LET after == Tail(p.s)
        closed == Closed(after, 1)
        began == p.hasYear \/ p.hasMon \/ p.hasTime \/ p.nums # <<>>
    IN CASE Is(p.s, "month") -> Rest([p EXCEPT !.f[2] = p.s[1][2], !.hasMon = TRUE], skipUntil(after, {"n", " ", "-", "/", "("}))
         [] Is(p.s, "zone") \/ Is(p.s, "Z") ->
              IF Letter(after) THEN Reject(p)
              ELSE [p EXCEPT !.zone = IF Is(p.s, "Z") THEN 0 ELSE p.s[1][2], !.isLocal = FALSE, !.s = after]
         [] Is(p.s, "(") -> IF closed[2] > 0 THEN Reject(p) ELSE Rest(p, closed[1])
         [] Is(p.s, ")") -> Reject(p)
         [] OTHER -> IF began THEN Reject(p) ELSE Rest(p, skipUntil(p.s, {" ", "-", "/", "("}))

\* [date_parser.go:247-263 parseDateOtherString]
RECURSIVE ReadOther(_)
ReadOther(before) ==
    LET p == [before EXCEPT !.s = skipAll(before.s, {" "})]
        number == getDigits(p.s, 1, 9)
    IN IF ~p.ok \/ p.s = <<>> THEN p
       ELSE ReadOther(IF Is(p.s, "+") \/ Is(p.s, "-") THEN SignPart(p)
                      ELSE IF ~number.ok THEN WordPart(p)
                      ELSE IF Is(number.s, ":") THEN TimePart(p, number.v, Tail(number.s))
                      ELSE NumberPart(p, number))

\* What the numbers are, once the whole text is read
\* [date_parser.go:373-426 parseDateOtherString]
parseDateOtherString(s) ==
    LET p == ReadOther([Start EXCEPT !.s = s])
        k == Len(p.nums)
        count == k + (IF p.hasYear THEN 1 ELSE 0) + (IF p.hasMon THEN 1 ELSE 0)
        year == IF k = 3 THEN Century(p.nums[3]) ELSE IF k = 2 /\ ~p.hasYear /\ p.hasMon THEN Century(p.nums[2]) ELSE p.f[1]
        month == IF k = 0 \/ p.hasMon THEN p.f[2] ELSE p.nums[1]
        day == CASE k = 0 \/ (k = 1 /\ ~p.hasMon) -> p.f[3] [] k = 1 -> p.nums[1] [] k = 2 /\ p.hasMon /\ ~p.hasYear -> p.nums[1] [] OTHER -> p.nums[2]
    IN IF ~p.ok \/ count > 3 \/ (k = 0 /\ ~p.hasYear) \/ month <= 0 \/ day <= 0 THEN NoDate
       ELSE [ok |-> TRUE, f |-> <<year, month, day, p.f[4], p.f[5], p.f[6], p.f[7]>>, zone |-> p.zone, isLocal |-> p.isLocal]

\* [date.go dateParse]
dateParse(s, zone) ==
    LET iso == parseDateISOString(s)
        d == IF iso.ok THEN iso ELSE parseDateOtherString(s)
        f == d.f
        t == timeToMsec([f EXCEPT ![2] = @ - 1], IF d.isLocal THEN zone ELSE [Utc EXCEPT !.before = d.zone, !.after = d.zone])
    IN IF ~d.ok \/ f[2] > 12 \/ f[3] > 31 \/ f[4] > 24 \/ f[5] > 59 \/ f[6] > 59 \/ (f[4] = 24 /\ <<f[5], f[6], f[7]>> # <<0, 0, 0>>)
            \/ t = Unset THEN Unset
       ELSE setTimeMs(t)

---------------------------------------------------------------------------
(* The constructor.                                                        *)

\* A copy of an unset date passes the check of the range, for the smallest int64 is its own negation; the time it gives is the unset one again.
\* [builtin_date.go makeDate]
makeDate(args, zone) ==
    IF Len(args) >= 2 THEN LET t == dateSetYear(args, zone) IN IF t = Unset THEN Unset ELSE setTimeMs(t)
    ELSE CASE args[1].v[1] = "date" -> args[1].v[2]
           [] args[1].v[1] = "string" -> dateParse(args[1].v[2], zone)
           [] OTHER -> setTime(args).v
\* [builtin_date.go date_UTC]
date_UTC(args) ==
    makeDate(IF Len(args) < 2 THEN <<[v |-> Arg(args, 1), sets |-> <<>>], [v |-> <<"int", 0>>, sets |-> <<>>]>> ELSE args, Utc)

=============================================================================
