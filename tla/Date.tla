-------------------------------- MODULE Date --------------------------------
(***************************************************************************)
(* utils/date.h.  Its calendar: days counted from 1970-01-01 and the ways  *)
(* to name one of them.  A year, month, day or weekday is its number, a    *)
(* date the tuple of its parts, so that the comparison operators of the    *)
(* classes are = and the order of tuples.  A walk from one day to the next *)
(* by the rules of the Gregorian calendar is the reference.                *)
(*                                                                         *)
(* Then writing and reading points in time by a format (to_stream and      *)
(* parse).  A text is a sequence of characters; the names that the         *)
(* locale's facets write and read are one character each.  An element of a *)
(* format is an ordinary character or a command with the modifier E or O   *)
(* and the width that may precede it.  A point in time is a day and a      *)
(* number of ticks from its start on, Second ticks to the second.  What    *)
(* only facets do (%c %x %X %p %r and the modified commands they handle),  *)
(* %n and %t are left out.                                                 *)
(***************************************************************************)
EXTENDS Integers, Sequences, SequencesExt

CONSTANTS
    Start,      \* the days the walks start at, as <<year, month, day, weekday, number>>
    Walk,       \* the days a walk takes
    SubWidth,   \* the decimal digits of a second's fraction in a Duration
    Formats,    \* the formats
    Times,      \* times of the day, in ticks
    Offsets     \* offsets from UTC, in minutes

VARIABLES
    n,          \* the day, counted from 1970-01-01 (sys_days, local_days)
    walked,     \* its date, by the walk
    wday,       \* its weekday, by the walk
    steps       \* the days the walk has taken

calendarVars == <<n, walked, wday, steps>>

-----------------------------------------------------------------------------
(* Rounding.  C++ divides towards zero. *)

trunc(a, b) == IF a >= 0 THEN a \div b ELSE -((-a) \div b)

abs(d) == IF d >= 0 THEN d ELSE -d

\* d ticks in units of k ticks, rounded down
floor(d, k) == LET t == trunc(d, k) IN IF t * k > d THEN t - 1 ELSE t

\* ... to the nearest, and to the even one of two
round(d, k) ==
    LET t0 == floor(d, k)
        diff0 == d - t0 * k
        diff1 == (t0 + 1) * k - d
    IN  IF diff0 < diff1 \/ (diff0 = diff1 /\ t0 - trunc(t0, 2) * 2 = 0)
        THEN t0 ELSE t0 + 1

ceil(d, k) == LET t == trunc(d, k) IN IF t * k < d THEN t + 1 ELSE t

-----------------------------------------------------------------------------
(* Months, years and weekdays. *)

month_ok(m) == 1 <= m /\ m <= 12

\* The difference of two months is taken in unsigned arithmetic.
month_minus(x, y) == LET d == x - y IN IF d < 0 \/ d > 11 THEN d + 12 ELSE d

month_plus(m, dm) ==
    LET mu == m - 1 + dm
        yr == trunc(IF mu >= 0 THEN mu ELSE mu - 11, 12)
    IN  mu - yr * 12 + 1

is_leap(y) == y % 4 = 0 /\ (y % 100 # 0 \/ y % 400 = 0)

\* Sunday is 0.  The number of days is counted from a Thursday.
weekday_from_days(z) ==
    LET rem(a) == a - trunc(a, 7) * 7
    IN  IF z >= -4 THEN rem(z + 4) ELSE rem(z + 5) + 6

weekday_minus(x, y) == LET d == x - y IN IF d < 0 \/ d > 6 THEN d + 7 ELSE d

weekday_plus(x, dd) ==
    LET wdu == x + dd
        wk == trunc(IF wdu >= 0 THEN wdu ELSE wdu - 6, 7)
    IN  wdu - wk * 7

year_month_plus(ym, dm) ==
    LET dmi == ym[2] - 1 + dm
        dy == trunc(IF dmi >= 0 THEN dmi ELSE dmi - 11, 12)
    IN  <<ym[1] + dy, dmi - dy * 12 + 1>>

\* The difference of two months of years, in months
year_month_minus(x, y) == (x[1] - y[1]) * 12 + (x[2] - y[2])

\* A month and a day that some year has
month_day_ok(m, d) ==
    /\ month_ok(m)
    /\ 1 <= d
    /\ d <= <<31, 29, 31, 30, 31, 30, 31, 31, 30, 31, 30, 31>>[m]

-----------------------------------------------------------------------------
(* Dates. *)

\* The last day of a month (year_month_day_last::day)
last_day(y, m) ==
    IF m # 2 \/ ~is_leap(y)
    THEN <<31, 28, 31, 30, 31, 30, 31, 31, 30, 31, 30, 31>>[m]
    ELSE 29

year_month_day_ok(ymd) ==
    month_ok(ymd[2]) /\ 1 <= ymd[3] /\ ymd[3] <= last_day(ymd[1], ymd[2])

year_month_day_less(x, y) ==
    \/ x[1] < y[1]
    \/ x[1] = y[1] /\ (x[2] < y[2] \/ (x[2] = y[2] /\ x[3] < y[3]))

\* Years start in March here, so that the leap day is a year's last.
to_days(ymd) ==
    LET y == ymd[1] - (IF ymd[2] <= 2 THEN 1 ELSE 0)
        era == trunc(IF y >= 0 THEN y ELSE y - 399, 400)
        yoe == y - era * 400
        mp == IF ymd[2] > 2 THEN ymd[2] - 3 ELSE ymd[2] + 9
        doy == (153 * mp + 2) \div 5 + ymd[3] - 1
        doe == yoe * 365 + yoe \div 4 - yoe \div 100 + doy
    IN  era * 146097 + doe - 719468

\* The date of day doy of a year that starts in March, of day doe of an era of
\* 400 such years, and of a day.
of_year(y, doy) ==
    LET mp == (5 * doy + 2) \div 153
        m == IF mp < 10 THEN mp + 3 ELSE mp - 9
    IN  <<y + (IF m <= 2 THEN 1 ELSE 0), m, doy - (153 * mp + 2) \div 5 + 1>>

of_era(era, doe) ==
    LET yoe == (doe - doe \div 1460 + doe \div 36524 - doe \div 146096) \div 365
    IN  of_year(yoe + era * 400, doe - (365 * yoe + yoe \div 4 - yoe \div 100))

from_days(dp) ==
    LET z == dp + 719468
        era == trunc(IF z >= 0 THEN z ELSE z - 146096, 146097)
    IN  of_era(era, z - era * 146097)

\* A date plus months: the day of the month stays, and the sum may be no date.
year_month_day_plus(ymd, dm) ==
    LET ym == year_month_plus(<<ymd[1], ymd[2]>>, dm) IN <<ym[1], ym[2], ymd[3]>>

\* The index-th of a weekday in a month: <<year, month, weekday, index>>
year_month_weekday_ok(x) ==
    /\ month_ok(x[2]) /\ x[3] \in 0..6 /\ x[4] >= 1
    /\ x[4] > 4 =>
         weekday_minus(x[3], weekday_from_days(to_days(<<x[1], x[2], 1>>)))
             + (x[4] - 1) * 7 + 1 <= last_day(x[1], x[2])

year_month_weekday_from_days(d) ==
    LET ymd == from_days(d)
    IN  <<ymd[1], ymd[2], weekday_from_days(d), (ymd[3] - 1) \div 7 + 1>>

year_month_weekday_to_days(x) ==
    LET d == to_days(<<x[1], x[2], 1>>)
    IN  d + weekday_minus(x[3], weekday_from_days(d)) + (x[4] - 1) * 7

\* The last of a weekday in a month
year_month_weekday_last_to_days(y, m, wd) ==
    LET d == to_days(<<y, m, last_day(y, m)>>)
    IN  d - weekday_minus(weekday_from_days(d), wd)

-----------------------------------------------------------------------------
(* Times of a day, in ticks, Second ticks to the second.  mode is 0 for a  *)
(* 24-hour clock, 1 for am and 2 for pm.                                   *)

make_time(d, Second) ==
    LET h == abs(trunc(d, 3600 * Second))
        m == trunc(abs(d) - h * 3600 * Second, 60 * Second)
    IN  [h |-> h, m |-> m, s |-> abs(d) - (h * 60 + m) * 60 * Second,
         mode |-> 0, neg |-> d < 0]

to24hr(t) ==
    CASE t.mode = 2 /\ t.h # 12 -> t.h + 12
      [] t.mode = 1 /\ t.h = 12 -> 0
      [] OTHER -> t.h

make24(t) == [t EXCEPT !.h = to24hr(t), !.mode = 0]

make12(t) ==
    IF t.mode # 0 THEN t
    ELSE [t EXCEPT !.h = CASE t.h > 12 -> t.h - 12 [] t.h = 0 -> 12 [] OTHER -> t.h,
                   !.mode = IF t.h >= 12 THEN 2 ELSE 1]

to_duration(t, Second) ==
    LET p == (to24hr(t) * 60 + t.m) * 60 * Second + t.s IN IF t.neg THEN -p ELSE p

-----------------------------------------------------------------------------
(* The walk.  Month lengths and leap years are those of the calendar, said *)
(* a second time and in another way.                                       *)

Leap(y) == \/ \E c \in -10..30 : y = 400 * c
           \/ (\E c \in -1000..3000 : y = 4 * c) /\ ~\E c \in -40..120 : y = 100 * c

Length(y, m) == CASE m \in {4, 6, 9, 11} -> 30 [] m = 2 -> (IF Leap(y) THEN 29 ELSE 28)
                  [] OTHER -> 31

DayAfter(d) ==
    IF d[3] < Length(d[1], d[2]) THEN <<d[1], d[2], d[3] + 1>>
    ELSE IF d[2] < 12 THEN <<d[1], d[2] + 1, 1>>
    ELSE <<d[1] + 1, 1, 1>>

CalendarInit ==
    \E s \in Start :
        /\ n = s[5] /\ walked = <<s[1], s[2], s[3]>> /\ wday = s[4] /\ steps = 0

NextDay ==
    /\ steps < Walk
    /\ n' = n + 1
    /\ walked' = DayAfter(walked)
    /\ wday' = (wday + 1) % 7
    /\ steps' = steps + 1

-----------------------------------------------------------------------------

\* Every way to name a day names this one and no other: its date, the n-th
\* and, in the last week of a month, the last of its weekday in the month, and
\* the number of days from 1970.  Dates go up with the days, in years before
\* 0 and across leap days and centuries too (year_month_day, year_month_weekday
\* and year_month_weekday_last of date.h).
NamesExact ==
    LET ymd == from_days(n)
        ymw == year_month_weekday_from_days(n)
    IN  /\ ymd = walked /\ year_month_day_ok(ymd) /\ to_days(ymd) = n
        /\ month_day_ok(ymd[2], ymd[3])
        /\ year_month_day_less(ymd, from_days(n + 1))
        /\ weekday_from_days(n) = wday
        /\ year_month_weekday_ok(ymw) /\ year_month_weekday_to_days(ymw) = n
        /\ (year_month_weekday_last_to_days(ymd[1], ymd[2], wday) = n)
             <=> (ymd[3] + 7 > Length(ymd[1], ymd[2]))
        /\ ~year_month_weekday_ok([ymw EXCEPT ![4] = 5])
             <=> (year_month_weekday_from_days(
                     year_month_weekday_to_days([ymw EXCEPT ![4] = 5]))[2] # ymd[2])

\* Arithmetic on months and weekdays can be undone, and a month added to a date
\* gives a date exactly when the month has that day.
ArithmeticExact ==
    LET ym == <<walked[1], walked[2]>> IN
    \A k \in {-25, -13, -12, -11, -1, 0, 1, 2, 11, 12, 13, 24, 25} :
        LET later == year_month_plus(ym, k)
            moved == year_month_day_plus(walked, k)
        IN  /\ month_ok(later[2]) /\ year_month_minus(later, ym) = k
            /\ month_plus(ym[2], k) = later[2]
            /\ month_plus(ym[2], month_minus(later[2], ym[2])) = later[2]
            /\ year_month_day_ok(moved) <=> (from_days(to_days(moved)) = moved)
            /\ weekday_plus(wday, k) = weekday_from_days(n + k)
            /\ weekday_plus(wday, weekday_minus(weekday_from_days(n + k), wday))
                 = weekday_from_days(n + k)

\* The names of a day are its own, and arithmetic on them is that of the days
\* (the classes of date.h, whose formulas are closed forms over a 400-year era).
DatesExact == NamesExact /\ ArithmeticExact

-----------------------------------------------------------------------------
(* Points in time and texts. *)

Second == 10 ^ SubWidth
Minute == 60 * Second
Day == 86400 * Second

\* floor<days>(tp), and the time point with the ticks of that day
floor_days(tp) == tp[1] + floor(tp[2], Day)
Normal(tp) == <<floor_days(tp), tp[2] - floor(tp[2], Day) * Day>>

Digit == <<"0", "1", "2", "3", "4", "5", "6", "7", "8", "9">>
IsDigit(c) == \E i \in 1..10 : Digit[i] = c
Value(c) == (CHOOSE i \in 1..10 : Digit[i] = c) - 1
WeekdayName == <<"Sun", "Mon", "Tue", "Wed", "Thu", "Fri", "Sat">>
MonthName == <<"Jan", "Feb", "Mar", "Apr", "May", "Jun",
               "Jul", "Aug", "Sep", "Oct", "Nov", "Dec">>

Char(c) == [cmd |-> FALSE, c |-> c, mod |-> "", w |-> -1]
Cmd(c) == [cmd |-> TRUE, c |-> c, mod |-> "", w |-> -1]

-----------------------------------------------------------------------------
(* Writing. *)

\* v in decimal, filled with zeros to w characters
Pad(v, w) ==
    LET digits[x \in 0..v] == IF x < 10 THEN <<Digit[x + 1]>>
                              ELSE Append(digits[x \div 10], Digit[(x % 10) + 1])
        fill(k) == [i \in 1..k |-> "0"]
        s == digits[v]
    IN  IF Len(s) < w THEN fill(w - Len(s)) \o s ELSE s

\* A number with its sign.  The fill characters precede the sign.
Signed(v, w) == IF v >= 0 THEN Pad(v, w) ELSE <<"-">> \o Pad(-v, w - 1)

\* operator<< of a year fills behind the sign.
PutYear(y) == IF y >= 0 THEN Pad(y, 4) ELSE <<"-">> \o Pad(-y, 4)

PutDate(ymd) == PutYear(ymd[1]) \o <<"-">> \o Pad(ymd[2], 2) \o <<"-">> \o Pad(ymd[3], 2)

\* The first day of a year as ISO 8601 counts weeks: they start on Monday, and
\* the first holds the year's first Thursday.
iso_start(y) == year_month_weekday_last_to_days(y - 1, 12, 4) + weekday_minus(1, 4)

iso_week_in(ld, y) ==
    LET iso == IF ld < iso_start(y) THEN y - 1 ELSE y
    IN  <<iso, trunc(ld - iso_start(iso), 7) + 1>>

\* The year and the number of a day's week
iso_week(ld) == iso_week_in(ld, from_days(ld + 3)[1])

\* The weeks of a year that start on weekday wd, counted from the first one
week_of_year(ld, wd) ==
    LET st == year_month_weekday_to_days(<<from_days(ld)[1], 1, wd, 1>>)
    IN  IF ld < st THEN 0 ELSE trunc(ld - st, 7) + 1

\* decimal_format_seconds: seconds and, where Duration has one, their fraction
put_seconds(s) ==
    Pad(trunc(s, Second), 2)
        \o (IF SubWidth = 0 THEN <<>> ELSE <<".">> \o Pad(s % Second, SubWidth))

put_name(c, ld) ==
    IF c \in {"a", "A"} THEN <<WeekdayName[weekday_from_days(ld) + 1]>>
    ELSE <<MonthName[from_days(ld)[2]]>>

put_date(c, ld) ==
    LET ymd == from_days(ld)
        y == ymd[1]
    IN  CASE c = "C" -> IF y >= 0 THEN Pad(trunc(y, 100), 2)
                        ELSE <<"-">> \o Pad(trunc(-(y - 99), 100), 2)
          [] c = "d" -> Pad(ymd[3], 2)
          [] c = "e" -> IF ymd[3] < 10 THEN <<" ">> \o Pad(ymd[3], 1) ELSE Pad(ymd[3], 2)
          [] c = "D" -> Pad(ymd[2], 2) \o <<"/">> \o Pad(ymd[3], 2) \o <<"/">>
                            \o Signed(y - trunc(y, 100) * 100, 2)
          [] c = "F" -> PutDate(ymd)

put_number(c, ld, t) ==
    CASE c = "G" -> PutYear(iso_week(ld)[1])
      [] c = "g" -> LET y == iso_week(ld)[1] IN Signed(y - trunc(y, 100) * 100, 2)
      [] c = "H" -> Pad(t.h, 2)
      [] c = "I" -> Pad(make12(t).h, 2)
      [] c = "j" -> Pad(ld - to_days(<<from_days(ld)[1], 1, 1>>) + 1, 3)
      [] c = "m" -> Pad(from_days(ld)[2], 2)
      [] c = "M" -> Pad(t.m, 2)

put_time(c, t) ==
    CASE c = "R" -> Pad(t.h, 2) \o <<":">> \o Pad(t.m, 2)
      [] c = "S" -> put_seconds(t.s)
      [] c = "T" -> Pad(t.h, 2) \o <<":">> \o Pad(t.m, 2) \o <<":">> \o put_seconds(t.s)

put_week(c, ld) ==
    LET wd == weekday_from_days(ld) IN
    CASE c = "u" -> Pad(IF wd # 0 THEN wd ELSE 7, 1)
      [] c = "U" -> Pad(week_of_year(ld, 0), 2)
      [] c = "V" -> Pad(iso_week(ld)[2], 2)
      [] c = "w" -> Pad(wd, 1)
      [] c = "W" -> Pad(week_of_year(ld, 1), 2)

put_year(c, ld) ==
    LET y == from_days(ld)[1] IN IF c = "y" THEN Pad(abs(y) % 100, 2) ELSE PutYear(y)

put_zone(e, offset) ==
    LET h == trunc(abs(offset), 60) IN
    IF e.c = "Z" THEN <<"UTC">>
    ELSE <<IF offset < 0 THEN "-" ELSE "+">> \o Pad(h, 2)
             \o (IF e.mod # "" THEN <<":">> ELSE <<>>) \o Pad(abs(offset) - h * 60, 2)

\* The text of a command that is none: the characters themselves
Literally(e) ==
    <<"%">> \o (IF e.w = -1 THEN <<>> ELSE Pad(e.w, 1))
        \o (IF e.mod = "" THEN <<>> ELSE <<e.mod>>) \o <<e.c>>

\* One pass of the loop of to_stream
put(e, ld, t, offset) ==
    CASE ~e.cmd -> <<e.c>>
      [] e.cmd /\ (e.w # -1 \/ (e.mod # "" /\ e.c # "z")) -> Literally(e)
      [] OTHER ->
         CASE e.c \in {"a", "A", "b", "B", "h"} -> put_name(e.c, ld)
           [] e.c \in {"C", "d", "e", "D", "F"} -> put_date(e.c, ld)
           [] e.c \in {"G", "g", "H", "I", "j", "m", "M"} -> put_number(e.c, ld, t)
           [] e.c \in {"R", "S", "T"} -> put_time(e.c, t)
           [] e.c \in {"u", "U", "V", "w", "W"} -> put_week(e.c, ld)
           [] e.c \in {"y", "Y"} -> put_year(e.c, ld)
           [] e.c \in {"z", "Z"} -> put_zone(e, offset)
           [] e.c = "%" -> <<"%">>

to_stream(fmt, tp, offset) ==
    LET ld == floor_days(tp)
        t == make_time(Normal(tp)[2], Second)
    IN  FoldLeft(LAMBDA text, e : text \o put(e, ld, t, offset), <<>>, fmt)

-----------------------------------------------------------------------------
(* Reading.  The state of the stream, the text that is left and the fields *)
(* read so far; stop says that a read returned before its last argument,   *)
(* undefined that a local variable is then used that was never assigned.   *)

NoYear == 33000
NoCentury == 330
No2Digit == 100
NoWeekday == 7
NoWeek == 100

Fields == [Y |-> NoYear, C |-> NoCentury, y |-> No2Digit, m |-> 0, d |-> 0, j |-> 0,
           wd |-> NoWeekday, I |-> 0, h |-> 0, min |-> 0, s |-> 0, g |-> No2Digit,
           G |-> NoYear, V |-> NoWeek, U |-> NoWeek, W |-> NoWeek, oh |-> 0, om |-> 0]

Stream(text) == [text |-> text, eof |-> FALSE, fail |-> FALSE, stop |-> FALSE,
                 undefined |-> FALSE, f |-> Fields]

good(st) == ~st.eof /\ ~st.fail

\* The digits that a read of at most M digits takes
Taken(text, M) ==
    LET most == IF Len(text) < M THEN Len(text) ELSE M
    IN  CHOOSE k \in 0..most :
            /\ \A i \in 1..k : IsDigit(text[i])
            /\ k < most => ~IsDigit(text[k + 1])

Number(digits) == FoldLeft(LAMBDA x, c : 10 * x + Value(c), 0, digits)

\* From the k-th character on; peeking at the end sets eofbit, which a read
\* that took all M digits does not do.
Advance(st, k, M) ==
    [st EXCEPT !.text = SubSeq(st.text, k + 1, Len(st.text)),
               !.eof = st.eof \/ (k < M /\ k = Len(st.text))]

read_unsigned(st, field, least, M) ==
    LET k == Taken(st.text, M)
        after == Advance(st, k, M)
    IN  IF k < least THEN [after EXCEPT !.fail = TRUE]
        ELSE [after EXCEPT !.f[field] = Number(SubSeq(st.text, 1, k))]

read_signed(st, field, least, M) ==
    IF st.text = <<>> \/ ~(IsDigit(st.text[1]) \/ st.text[1] \in {"-", "+"})
    THEN [st EXCEPT !.fail = TRUE]
    ELSE LET neg == st.text[1] = "-"
             sign == ~IsDigit(st.text[1])
             got == read_unsigned(IF sign THEN [st EXCEPT !.text = Tail(st.text)] ELSE st,
                                  field, least, M)
         IN  IF neg /\ ~got.fail THEN [got EXCEPT !.f[field] = -got.f[field]] ELSE got

\* Seconds: digits with a point among them, M digits at most, and the nearest
\* number of ticks
read_long_double(st, M) ==
    LET k == Taken(st.text, M)
        point == k < M /\ k < Len(st.text) /\ st.text[k + 1] = "."
        rest == SubSeq(st.text, k + 2, Len(st.text))
        l == IF point THEN Taken(rest, M - k) ELSE 0
        digits == SubSeq(st.text, 1, k) \o SubSeq(rest, 1, l)
        after == Advance(st, IF point THEN k + 1 + l ELSE k, IF point THEN M + 1 ELSE M)
    IN  IF digits = <<>> THEN [after EXCEPT !.fail = TRUE]
        ELSE [after EXCEPT !.f.s = round(Number(digits) * Second, 10 ^ l)]

\* An ordinary character.  At the end of the text it is taken as read.
read_char(st, c) ==
    CASE st.text = <<>> -> [st EXCEPT !.eof = TRUE, !.stop = TRUE]
      [] st.text # <<>> /\ st.text[1] = c -> [st EXCEPT !.text = Tail(st.text)]
      [] OTHER -> [st EXCEPT !.fail = TRUE]

skip_spaces(st) ==
    LET k == CHOOSE i \in 0..Len(st.text) :
                 /\ \A j \in 1..i : st.text[j] = " "
                 /\ i < Len(st.text) => st.text[i + 1] # " "
    IN  Advance(st, k, k + 1)

\* read(is, args...): each argument in turn, until one fails or the text ends
\* before an ordinary character
read(st, args) ==
    LET one(x, a) ==
            IF x.fail \/ x.stop THEN x
            ELSE CASE a[1] = "ru" -> read_unsigned(x, a[2], a[3], a[4])
                   [] a[1] = "rs" -> read_signed(x, a[2], a[3], a[4])
                   [] a[1] = "rld" -> read_long_double(x, a[2])
                   [] a[1] = "ws" -> skip_spaces(x)
                   [] a[1] = "ch" -> read_char(x, a[2])
    IN  FoldLeft(one, [st EXCEPT !.stop = FALSE], args)

SecondsWidth == IF SubWidth = 0 THEN 2 ELSE 3 + SubWidth

\* What the commands read
Space == <<"ws">>
Ch(c) == <<"ch", c>>
Width(e, k) == IF e.w = -1 THEN k ELSE e.w

get_date(e) ==
    CASE e.c = "C" -> <<<<"rs", "C", 1, Width(e, 2)>>>>
      [] e.c = "D" -> <<<<"ru", "m", 1, 2>>, Space, Ch("/"), Space, <<"ru", "d", 1, 2>>,
                        Space, Ch("/"), Space, <<"rs", "y", 1, 2>>>>
      [] e.c = "F" -> <<<<"rs", "Y", 1, Width(e, 4)>>, Ch("-"), <<"ru", "m", 1, 2>>,
                        Ch("-"), <<"ru", "d", 1, 2>>>>
      [] e.c \in {"d", "e"} -> <<<<"rs", "d", 1, Width(e, 2)>>>>

get_number(e) ==
    CASE e.c = "H" -> <<<<"ru", "h", 1, Width(e, 2)>>>>
      [] e.c = "I" -> <<<<"rs", "I", 1, Width(e, 2)>>>>
      [] e.c = "j" -> <<<<"ru", "j", 1, Width(e, 3)>>>>
      [] e.c = "M" -> <<<<"ru", "min", 1, Width(e, 2)>>>>
      [] e.c = "m" -> <<<<"rs", "m", 1, Width(e, 2)>>>>

get_time(e) ==
    CASE e.c = "R" -> <<<<"ru", "h", 1, 2>>, Space, Ch(":"), Space, <<"ru", "min", 1, 2>>, Space>>
      [] e.c = "S" -> <<<<"rld", Width(e, SecondsWidth)>>>>
      [] e.c = "T" -> <<<<"ru", "h", 1, 2>>, Ch(":"), <<"ru", "min", 1, 2>>,
                        Ch(":"), <<"rld", SecondsWidth>>>>

get_year(e) ==
    IF e.c \in {"Y", "G"} THEN <<<<"rs", e.c, 1, Width(e, 4)>>>>
    ELSE <<<<"ru", e.c, 1, Width(e, 2)>>>>

get_zone(e) ==
    <<<<"rs", "oh", 2, 2>>>> \o (IF e.mod = "" THEN <<>> ELSE <<Ch(":")>>) \o <<<<"ru", "om", 2, 2>>>>

Arguments(e) ==
    CASE e.c \in {"C", "D", "F", "d", "e"} -> get_date(e)
      [] e.c \in {"H", "I", "j", "M", "m"} -> get_number(e)
      [] e.c \in {"R", "S", "T"} -> get_time(e)
      [] e.c \in {"Y", "y", "g", "G", "U", "V", "W"} -> get_year(e)
      [] e.c \in {"u", "w"} -> <<<<"ru", "wd", 1, Width(e, 1)>>>>
      [] e.c = "z" -> get_zone(e)
      [] e.c = "%" -> <<Ch("%")>>

\* A name, which a facet reads
get_name(st, names, field, first) ==
    IF st.text = <<>> \/ ~\E i \in 1..Len(names) : names[i] = st.text[1]
    THEN [st EXCEPT !.fail = TRUE]
    ELSE [st EXCEPT !.text = Tail(st.text),
                    !.f[field] = (CHOOSE i \in 1..Len(names) : names[i] = st.text[1]) - 1 + first]

\* A command of parse: the read, and the checks that follow it
check_command(got, e) ==
    CASE e.c = "I" /\ got.f.I # 0 /\ got.f.I \notin 1..12 -> [got EXCEPT !.fail = TRUE]
      [] e.c = "u" /\ got.f.wd = 7 -> [got EXCEPT !.f.wd = 0]
      [] e.c \in {"R", "T", "z"} -> [got EXCEPT !.undefined = got.stop /\ ~got.fail]
      [] OTHER -> got

get_command(st, e) == check_command(read(st, Arguments(e)), e)

\* One pass of the loop of parse
get(st, e) ==
    CASE ~good(st) -> st
      [] good(st) /\ ~e.cmd ->
            IF e.c = " " THEN skip_spaces(st) ELSE read(st, <<Ch(e.c)>>)
      [] good(st) /\ e.cmd /\ e.c \in {"a", "A"} -> get_name(st, WeekdayName, "wd", 0)
      [] good(st) /\ e.cmd /\ e.c \in {"b", "B", "h"} -> get_name(st, MonthName, "m", 1)
      [] good(st) /\ e.cmd /\ e.c # "z" /\ e.mod # "" ->
            read(st, [i \in 1..Len(Literally(e)) |-> Ch(Literally(e)[i])])
      [] good(st) /\ e.cmd /\ e.c = "Z" /\ e.mod = "" -> get_name(st, <<"UTC">>, "I", 0)
      [] OTHER -> get_command(st, e)

-----------------------------------------------------------------------------
(* From the fields to the point in time.  <<>> is "broken". *)

\* A year from its two last digits yy, the century C and the year Y where they
\* are known
with_century(yy, C, Y) ==
    LET century == IF C # NoCentury THEN C
                   ELSE IF Y = NoYear THEN (IF yy >= 69 THEN 19 ELSE 20)
                   ELSE trunc(IF Y >= 0 THEN Y ELSE Y - 100, 100)
        year == IF century >= 0 THEN 100 * century + yy
                ELSE 100 * (century + 1) - (IF yy = 0 THEN 100 ELSE yy)
    IN  IF yy \notin 0..99 \/ Y \notin {NoYear, year} THEN <<>> ELSE <<century, year>>

\* Month and day of a date that other fields give, where they agree with it
fill(f, ymd) ==
    IF f.m \notin {0, ymd[2]} \/ f.d \notin {0, ymd[3]} THEN <<>>
    ELSE <<[f EXCEPT !.m = ymd[2], !.d = ymd[3]]>>

\* A list of steps, each of which may be the last
Then(r, Step(_)) == IF r = <<>> THEN <<>> ELSE Step(r[1])

two_digit_years(f) ==
    LET of_y == with_century(f.y, f.C, f.Y)
        y == CASE f.y = No2Digit -> <<f>>
               [] f.y # No2Digit /\ of_y = <<>> -> <<>>
               [] OTHER -> <<[f EXCEPT !.C = of_y[1], !.Y = of_y[2]]>>
        of_g(x) == with_century(x.g, x.C, x.G)
        g(x) == CASE x.g = No2Digit -> <<x>>
                  [] x.g # No2Digit /\ of_g(x) = <<>> -> <<>>
                  [] OTHER -> <<[x EXCEPT !.C = of_g(x)[1], !.G = of_g(x)[2]]>>
    IN  Then(y, g)

iso_date(f) ==
    LET ymd == from_days(iso_start(f.G) + (f.V - 1) * 7 + weekday_minus(f.wd, 1))
    IN  CASE f.G = NoYear -> <<f>>
          [] f.G # NoYear /\ (f.V = NoWeek \/ f.wd = NoWeekday) -> <<>>
          [] OTHER -> IF f.Y \notin {NoYear, ymd[1]} THEN <<>>
                      ELSE fill([f EXCEPT !.Y = ymd[1]], ymd)

day_of_year(f) ==
    IF f.Y = NoYear THEN <<>>
    ELSE IF f.j = 0 THEN <<f>> ELSE fill(f, from_days(to_days(<<f.Y, 1, 1>>) + f.j - 1))

\* A week that starts on weekday first.  Week 0 ends with the year before, so
\* that its days are never of year Y.
week_date(f, week, first) ==
    LET sd == IF week = 0 THEN year_month_weekday_last_to_days(f.Y - 1, 12, f.wd)
              ELSE year_month_weekday_to_days(<<f.Y, 1, first, 1>>) + (week - 1) * 7
                       + weekday_minus(f.wd, first)
    IN  CASE week = NoWeek -> <<f>>
          [] week # NoWeek /\ f.wd = NoWeekday -> <<>>
          [] OTHER -> IF from_days(sd)[1] # f.Y THEN <<>> ELSE fill(f, from_days(sd))

date_of(f) ==
    LET ymd == <<f.Y, f.m, f.d>> IN
    IF \/ f.m = 0
       \/ f.d = 0
       \/ ~year_month_day_ok(ymd)
       \/ f.wd \notin {NoWeekday, weekday_from_days(to_days(ymd))}
    THEN <<>>
    ELSE <<<<to_days(ymd), f.h * 60 * Minute + f.min * Minute + f.s>>>>

\* The end of parse: the fields are made to agree, or the stream fails.
week_of_sunday(f) == week_date(f, f.U, 0)
week_of_monday(f) == week_date(f, f.W, 1)

resolve(f) ==
    Then(Then(Then(Then(Then(two_digit_years(f), iso_date), day_of_year), week_of_sunday),
              week_of_monday), date_of)

scanned(fmt, text) == FoldLeft(get, Stream(text), fmt)

\* parse into a sys_time: the offset, minutes of the same sign or not, is taken off
take_offset(tp, offset) == IF tp = <<>> THEN <<>> ELSE <<Normal(<<tp[1][1], tp[1][2] - offset * Minute>>)>>

parsed(st) == IF st.fail THEN <<>> ELSE take_offset(resolve(st.f), st.f.oh * 60 + st.f.om)

parse(fmt, text) == parsed(scanned(fmt, text))

-----------------------------------------------------------------------------

Has(fmt, cs) == \E i \in 1..Len(fmt) : fmt[i].cmd /\ fmt[i].c \in cs

\* The part of a point in time that a format shows
Shown(fmt, tp) ==
    CASE Has(fmt, {"T", "S"}) -> tp
      [] Has(fmt, {"R", "M"}) /\ ~Has(fmt, {"T", "S"}) ->
             <<tp[1], floor(tp[2], Minute) * Minute>>
      [] Has(fmt, {"H"}) /\ ~Has(fmt, {"T", "S", "R", "M"}) ->
             <<tp[1], floor(tp[2], 60 * Minute) * 60 * Minute>>
      [] OTHER -> <<floor_days(tp), 0>>

\* Week 0 of a year cannot be read back.
WeekZero(fmt, ld) ==
    \/ (Has(fmt, {"U"}) /\ week_of_year(ld, 0) = 0)
    \/ (Has(fmt, {"W"}) /\ week_of_year(ld, 1) = 0)

\* Two digits stand for a year from 1969 to 2068.
Readable(fmt, ld) ==
    Has(fmt, {"D", "g"}) \/ (Has(fmt, {"y"}) /\ ~Has(fmt, {"C", "Y"}))
        => (from_days(ld)[1] \in 1969..2068 /\ iso_week(ld)[1] \in 1969..2068)

ReadsAs(st, tp) == ~st.undefined /\ parsed(st) = tp

\* What to_stream has written by a format that names a day, parse reads back as
\* the same point in time, to the precision of the format: dates by month, by
\* day of the year and by weeks of three kinds, times and offsets.  The days
\* before a year's first Sunday (%U) or Monday (%W) are refused, never misread,
\* and no variable is used that was not read.
ParseInverts ==
    \A fmt \in Formats, t \in Times, offset \in Offsets :
        LET local == <<n, t + offset * Minute>>
            ld == floor_days(local)
            shown == Shown(fmt, local)
            utc == IF Has(fmt, {"z"}) THEN offset * Minute ELSE 0
        IN  Readable(fmt, ld) =>
                ReadsAs(scanned(fmt, to_stream(fmt, local, offset)),
                        IF WeekZero(fmt, ld) THEN <<>> ELSE <<Normal(<<shown[1], shown[2] - utc>>)>>)

\* A text with one more field than it needs is read only if the field agrees:
\* no weekday but its own goes with a date.
ParseAgrees ==
    \A wd \in 0..6 :
        LET text == PutDate(walked) \o <<" ", WeekdayName[wd + 1]>>
            fmt == <<Cmd("F"), Char(" "), Cmd("a")>>
        IN  (parse(fmt, text) # <<>>) <=> (wd = wday)

\* A time of day, before midnight of the epoch too, is the same on a 12-hour
\* clock and back, and the three roundings enclose it.
TimesExact ==
    \A t \in Times, sign \in {-1, 1} :
        LET d == sign * t
            clock == make12(make_time(d, Second))
        IN  /\ clock.h \in 1..12
            /\ to_duration(clock, Second) = d /\ to_duration(make24(clock), Second) = d
            /\ floor(d, Minute) <= round(d, Minute) /\ round(d, Minute) <= ceil(d, Minute)
            /\ abs(round(d, Minute) * Minute - d) * 2 <= Minute

\* Reading inverts writing and refuses what disagrees (to_stream and parse).
ParseExact == ParseInverts /\ ParseAgrees /\ TimesExact

=============================================================================
