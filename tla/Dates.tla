-------------------------------- MODULE Dates --------------------------------
(***************************************************************************)
(* Dates and times of day: ebisu_time_from_civil() and                     *)
(* ebisu_time_to_civil() (ebisu_time.c), and the Date header of a response *)
(* (khc_http_date.c), checked against a calendar that is walked day by     *)
(* day, or year by year where nothing of interest happens in between.      *)
(*                                                                         *)
(* Abstracted: the seconds since 1970 are a pair <<day, second of the      *)
(* day>>, as TLC's integers have 32 bits; a header is its form and its     *)
(* fields.                                                                 *)
(***************************************************************************)
EXTENDS Integers

CONSTANTS
    WalkedYears,   \* bound: years walked day by day
    FloorYears     \* bound: years the earliest date taken is in

\* The years that have a civil time.
IsYear(year) == year >= 1 /\ year <= 9999

ASSUME DatesAssumption ==
    /\ WalkedYears \subseteq Nat /\ \A year \in WalkedYears : IsYear(year)
    /\ FloorYears \subseteq Nat /\ \A year \in FloorYears : year >= 1970 /\ year <= 9999

VARIABLE calendar   \* a day of the calendar: its number, from 1970-01-01, date and weekday

-----------------------------------------------------------------------------
(* ebisu_time.c.                                                           *)

_is_leap(year) == year % 4 = 0 /\ (year % 100 # 0 \/ year % 400 = 0)

_days_in_month(year, month) ==
    IF month = 2 /\ _is_leap(year) THEN 29
    ELSE <<31, 28, 31, 30, 31, 30, 31, 31, 30, 31, 30, 31>>[month]

\* The days of 400 years, and 1970-01-01, both counted from 0000-03-01.
DaysOfEra == 146097
Day1970 == 719468

_days_from_civil(year, month, day) ==
    LET y == IF month <= 2 THEN year - 1 ELSE year
        m == IF month <= 2 THEN month + 9 ELSE month - 3
    IN  y * 365 + y \div 4 - y \div 100 + y \div 400 + (153 * m + 2) \div 5 + day - 1 - Day1970

\* What a call that returns false gives.
Refused == <<>>

\* A time of a day that exists, or a leap second, which only ever ends a day.
IsCivil(t) ==
    /\ IsYear(t.year) /\ t.month \in 1..12 /\ t.day \in 1.._days_in_month(t.year, t.month)
    /\ t.hour \in 0..23 /\ t.minute \in 0..59 /\ t.second \in 0..60
    /\ t.second = 60 => t.hour = 23 /\ t.minute = 59

\* A leap second is the next day's first.
ebisu_time_from_civil(t) ==
    IF ~IsCivil(t) THEN Refused
    ELSE LET days == _days_from_civil(t.year, t.month, t.day)
             of_day == (t.hour * 60 + t.minute) * 60 + t.second
         IN  <<days + of_day \div 86400, of_day % 86400>>

FirstDay == -719162   \* of _FIRST_SECOND
LastDay == 2932896    \* of _LAST_SECOND

YearOfEra(day) == (day - day \div 1460 + day \div 36524 - day \div 146096) \div 365
DayOfYear(day, year) == day - (365 * year + year \div 4 - year \div 100)

\* For times from FirstDay to LastDay: others are refused.
ebisu_time_to_civil(seconds) ==
    LET days == seconds[1]
        of_day == seconds[2]
        z == days + Day1970
        era == z \div DaysOfEra
        day_of_era == z - era * DaysOfEra
        year_of_era == YearOfEra(day_of_era)
        day_of_year == DayOfYear(day_of_era, year_of_era)
        m == (5 * day_of_year + 2) \div 153
        month == IF m < 10 THEN m + 3 ELSE m - 9
    IN  [year |-> year_of_era + era * 400 + (IF month <= 2 THEN 1 ELSE 0),
         month |-> month,
         day |-> day_of_year - (153 * m + 2) \div 5 + 1,
         hour |-> of_day \div 3600, minute |-> (of_day \div 60) % 60, second |-> of_day % 60,
         weekday |-> (days - FirstDay + 1) % 7]

-----------------------------------------------------------------------------
(* khc_http_date.c.                                                        *)

\* The year the floor falls in; 1970 for anything earlier.
_year_of(seconds) ==
    IF seconds[1] >= 0 /\ seconds[1] <= LastDay
    THEN ebisu_time_to_civil(seconds).year ELSE 1970

\* Mutant: the year is of the present century.
YearOfTwoDigitsInCentury(two_digits, present_year) ==
    present_year - (present_year % 100) + two_digits

\* _parse_rfc850(): the year with these two digits within 50 years either side.
YearOfTwoDigits(two_digits, present_year) ==
    LET year == present_year - (present_year % 100) + two_digits IN
    IF year > present_year + 50 THEN year - 100
    ELSE IF year <= present_year - 50 THEN year + 100
    ELSE year

\* _parse_imf_fixdate(), _parse_asctime() and _parse_rfc850(): the header's fields.
Fields(header, floor) ==
    IF header.form = "rfc850"
    THEN [header.date EXCEPT !.year = YearOfTwoDigits(@, _year_of(floor))]
    ELSE header.date

Before(s, t) == s[1] < t[1] \/ (s[1] = t[1] /\ s[2] < t[2])

\* _parse_http_date(), of a Date header with the layout of one of the three forms
_parse_http_date(header, floor) ==
    LET d == Fields(header, floor)
        date == ebisu_time_from_civil(d)
        midnight == _days_from_civil(d.year, d.month, d.day)
    IN  IF d.year < 1970 \/ date = Refused THEN Refused
        ELSE IF (midnight + 4) % 7 # d.weekday \/ Before(date, floor) THEN Refused
        ELSE date

-----------------------------------------------------------------------------
(* The calendar.                                                           *)

Jan1(year, days, weekday) ==
    [days |-> days, year |-> year, month |-> 1, day |-> 1, weekday |-> weekday]

\* The calendar before it is opened.
NoDay == Jan1(0, 0, 0)

CalendarInit == calendar = NoDay

\* 0001-01-01 was a Monday, 1970-01-01 a Thursday and 2000-01-01 a Saturday.
FirstDays == {Jan1(1, -719162, 1), Jan1(1970, 0, 4), Jan1(2000, 10957, 6)}

OpenCalendar == calendar = NoDay /\ calendar' \in FirstDays

\* The Gregorian calendar's own rules.
LeapYear(year) == IF year % 100 = 0 THEN year % 400 = 0 ELSE year % 4 = 0
LengthOfMonth(year, month) ==
    IF month \in {4, 6, 9, 11} THEN 30
    ELSE IF month # 2 THEN 31
    ELSE IF LeapYear(year) THEN 29 ELSE 28

NextYear ==
    LET length == IF LeapYear(calendar.year) THEN 366 ELSE 365 IN
    /\ calendar # NoDay
    /\ calendar.month = 1 /\ calendar.day = 1
    /\ calendar.year < 9999 /\ calendar.year \notin WalkedYears
    /\ calendar' = Jan1(calendar.year + 1, calendar.days + length, (calendar.weekday + length) % 7)

NextDay ==
    /\ calendar # NoDay
    /\ calendar.year \in WalkedYears
    /\ LET c == [calendar EXCEPT !.days = @ + 1, !.weekday = (@ + 1) % 7] IN
       calendar' =
         IF calendar.day < LengthOfMonth(calendar.year, calendar.month)
         THEN [c EXCEPT !.day = @ + 1]
         ELSE IF calendar.month < 12 THEN [c EXCEPT !.day = 1, !.month = @ + 1]
         ELSE Jan1(c.year + 1, c.days, c.weekday)
    /\ calendar'.year <= 9999

CalendarNext == OpenCalendar \/ NextYear \/ NextDay

CalendarSpec == CalendarInit /\ [][CalendarNext]_calendar

-----------------------------------------------------------------------------
(* Properties.                                                             *)

\* Times of day at its ends, and one inside; and those no day has.
TimesOfDay == {<<0, 0, 0>>, <<8, 49, 37>>, <<23, 59, 59>>}
At(c, time) ==
    [year |-> c.year, month |-> c.month, day |-> c.day, weekday |-> c.weekday,
     hour |-> time[1], minute |-> time[2], second |-> time[3]]

SecondOf(time) == time[1] * 3600 + time[2] * 60 + time[3]

\* Both conversions agree with the calendar, for every day walked and every time of day
\* on it: the day after a leap day, the turn of a century, a leap second, which is the
\* next day's midnight, and a day past the month's end, which is none
\* (ebisu_time_from_civil(), ebisu_time_to_civil()).
TimesAreTheCalendars ==
    /\ \A time \in TimesOfDay :
        /\ ebisu_time_from_civil(At(calendar, time)) = <<calendar.days, SecondOf(time)>>
        /\ ebisu_time_to_civil(<<calendar.days, SecondOf(time)>>) = At(calendar, time)
    /\ ebisu_time_from_civil(At(calendar, <<23, 59, 60>>)) = <<calendar.days + 1, 0>>
    /\ ebisu_time_from_civil(At(calendar, <<23, 58, 60>>)) = Refused
    /\ LET past == [calendar EXCEPT !.day = LengthOfMonth(calendar.year, calendar.month) + 1]
       IN  ebisu_time_from_civil(At(past, <<0, 0, 0>>)) = Refused

\* A Date a server sent, of a time from the floor on and less than 50 years after its
\* year, is read as that time in all three forms, so that nobody's response is left
\* without its time where the two digits of a year turn over; and whatever is sent, no
\* time is taken that is before the floor, or, of two digits, more than 50 years after
\* its year (_parse_http_date(), _parse_rfc850()).
DateIsTheSenders ==
    \A time \in {<<0, 0, 0>>, <<23, 59, 59>>}, form \in {"imf", "asctime", "rfc850"},
       year \in FloorYears :
        LET sent == At(calendar, time)
            header == [form |-> form,
                       date |-> IF form = "rfc850" THEN [sent EXCEPT !.year = @ % 100] ELSE sent]
            floor == <<_days_from_civil(year, 7, 1), 0>>
            read == _parse_http_date(header, floor)
        IN  /\ Before(<<calendar.days, SecondOf(time)>>, floor) /\ form # "rfc850" => read = Refused
            /\ ~Before(<<calendar.days, SecondOf(time)>>, floor)
               /\ (form # "rfc850" \/ calendar.year <= year + 50)
                    => read = <<calendar.days, SecondOf(time)>>
            /\ read # Refused => ~Before(read, floor)
            /\ read # Refused /\ form = "rfc850" => ebisu_time_to_civil(read).year <= year + 50

\* Dates are the calendar's, and the Date of a response is its sender's.
DatesAreTheCalendars == calendar # NoDay => TimesAreTheCalendars /\ DateIsTheSenders

=============================================================================
