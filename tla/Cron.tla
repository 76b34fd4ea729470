-------------------------------- MODULE Cron --------------------------------
(***************************************************************************)
(* Cron expressions (_croniter.py): how an expression is expanded, and the *)
(* search for the next and the previous time it matches, one iteration of  *)
(* the loop of _calc after the other. Times are in UTC.                    *)
(*                                                                         *)
(* An expression is the sequence of its fields, the seconds first when it  *)
(* has more than five; a field is the sequence of its items:               *)
(*   [t |-> "star"], [t |-> "any"] (a question mark), [t |-> "last"] (l),  *)
(*   [t |-> "at", v], [t |-> "range", lo, hi, step], [t |-> "every", step] *)
(*   (an asterisk with a step), [t |-> "from", lo, step],                  *)
(*   [t |-> "nth", lo, hi, n] (2#3, mon-tue#3), [t |-> "lastof", v] (l5),  *)
(*   [t |-> "random", lo, hi], with lo = -1 for the whole range, and       *)
(*   [t |-> "randomstep", lo, hi, step].                                   *)
(* An instant is [day, sec]: days since 1970-01-01, seconds of the day.    *)
(***************************************************************************)
EXTENDS Integers, Sequences, FiniteSets, FiniteSetsExt

CONSTANTS
    Requests,   \* [expr, start, op, stop]: what is asked of an iterator
    Draws,      \* the random integers an expression may be expanded with
    MaxYears,   \* max_years_between_matches
    MaxCalls    \* bound on the times an iterator is asked for

\* An asterisk is the only item of its field.
CronAssumption ==
    /\ MaxYears \in Nat \ {0} /\ MaxCalls \in Nat \ {0} /\ Draws \subseteq Nat
    /\ \A r \in Requests : \A i \in DOMAIN r.expr : \A k \in DOMAIN r.expr[i] :
          r.expr[i][k].t = "star" => Len(r.expr[i]) = 1

\* The fields, in the order of the expansion.
Minute == 1
Hour == 2
Day == 3
Month == 4
Dow == 5
Second == 6
Year == 7

Low == <<0, 0, 1, 1, 0, 0, 1970>>
High == <<59, 23, 31, 12, 7, 59, 2099>>
LenMeansAll == <<60, 24, 31, 12, 7, 60, 130>>

-----------------------------------------------------------------------------
(* The calendar of the datetime and dateutil libraries.                    *)

IsLeap(y) == y % 400 = 0 \/ (y % 4 = 0 /\ y % 100 # 0)
DaysIn == <<31, 28, 31, 30, 31, 30, 31, 31, 30, 31, 30, 31>>
DaysOf(y, m) == DaysIn[m] + (IF m = 2 /\ IsLeap(y) THEN 1 ELSE 0)

\* The number of a day, from years that begin in March.
DayNumber(y, m, d) ==
    LET yy == IF m <= 2 THEN y - 1 ELSE y
        mm == (m + 9) % 12
    IN  365 * yy + yy \div 4 - yy \div 100 + yy \div 400 + (153 * mm + 2) \div 5 + d - 1 - 719468

Date(n) ==
    LET z == n + 719468
        era == z \div 146097
        doe == z % 146097
        yoe == (doe - doe \div 1460 + doe \div 36524 - doe \div 146096) \div 365
        doy == doe - (365 * yoe + yoe \div 4 - yoe \div 100)
        mp == (5 * doy + 2) \div 153
        m == IF mp < 10 THEN mp + 3 ELSE mp - 9
    IN  [y |-> yoe + 400 * era + (IF m <= 2 THEN 1 ELSE 0), m |-> m,
         d |-> doy - (153 * mp + 2) \div 5 + 1]

\* 0 is Sunday; the first of January 1970 was a Thursday.
Weekday(n) == (n + 4) % 7

At(n, h, m, s) == [day |-> n, sec |-> h * 3600 + m * 60 + s]
Shift(t, n) == LET s == t.sec + n IN [day |-> t.day + s \div 86400, sec |-> s % 86400]
Before(a, b) == a.day < b.day \/ (a.day = b.day /\ a.sec < b.sec)
HourOf(t) == t.sec \div 3600
MinuteOf(t) == (t.sec \div 60) % 60
SecondOf(t) == t.sec % 60

-----------------------------------------------------------------------------
(* _expand: the values of a field, whether it has an asterisk, whether it  *)
(* has l, and the days of the week it takes by number in the month.        *)

Bad == [ok |-> FALSE, vals |-> {}, star |-> FALSE, last |-> FALSE, nth |-> {}]
Values(vs) == [Bad EXCEPT !.ok = TRUE, !.vals = vs]

\* LOWMAP: 0 is the first day of the month and 7 is Sunday, depending on how
\* many fields the expression has.
Normal(i, v, n) ==
    CASE i = Day /\ v = 0 /\ n = 6 -> 1
      [] i = Dow /\ v = 7 /\ n = 5 -> 0
      [] OTHER -> v

Literal(i, v, n) ==
    LET w == Normal(i, v, n) IN IF w \in Low[i]..High[i] THEN Values({w}) ELSE Bad

Stepped(lo, hi, step) == {v \in lo..hi : (v - lo) % step = 0}

\* A range up to Sunday ends at 7.
Ranged(i, lo, hi, step, n) ==
    LET top == IF lo > hi /\ i = Dow /\ hi = 0 THEN 7 ELSE hi
        all == {Literal(i, v, n) : v \in Stepped(lo, top, step)}
    IN  IF lo > top \/ step = 0 \/ top > High[i] \/ \E r \in all : ~r.ok THEN Bad
        ELSE Values(UNION {r.vals : r \in all})

\* HashExpander.do, for a field of the expression.
Draw(i, crc, lo, hi) == ((crc \div 2^(i - 1)) % (hi - lo + 1)) + lo

Item(i, e, n, crc) ==
    CASE e.t = "star" -> [Values({}) EXCEPT !.star = TRUE]
      [] e.t = "any" -> IF i \in {Day, Dow} THEN [Values({}) EXCEPT !.star = TRUE] ELSE Bad
      [] e.t = "last" -> IF i = Day THEN [Values({}) EXCEPT !.last = TRUE] ELSE Bad
      [] e.t = "at" -> Literal(i, e.v, n)
      [] e.t = "range" -> Ranged(i, e.lo, e.hi, e.step, n)
      [] e.t = "every" -> Ranged(i, Low[i], High[i], e.step, n)
      [] e.t = "from" -> Ranged(i, e.lo, High[i], e.step, n)
      [] e.t = "nth" ->
            LET r == Ranged(i, e.lo, e.hi, 1, n)
            IN  IF i # Dow \/ e.n \notin 1..5 THEN Bad
                ELSE [r EXCEPT !.nth = r.vals \X {e.n}]
      [] e.t = "lastof" ->
            LET r == Literal(i, e.v, n)
            IN  IF i # Dow THEN Bad ELSE [r EXCEPT !.nth = r.vals \X {0}]
      [] e.t = "random" ->
            IF e.lo = -1 THEN Literal(i, Draw(i, crc, Low[i], High[i]), n)
            ELSE IF e.lo >= e.hi THEN Bad
            ELSE Literal(i, Draw(i, crc, e.lo, e.hi), n)
      [] e.t = "randomstep" ->
            LET lo == IF e.lo = -1 THEN Low[i] ELSE e.lo
                hi == IF e.lo = -1 THEN High[i] ELSE e.hi
            IN  IF e.step = 0 \/ lo >= hi THEN Bad
                ELSE Ranged(i, Draw(i, crc, lo, e.step - 1 + lo), hi, e.step, n)

\* The seconds, which are written first, become the sixth field.
Written(expr, i) ==
    IF Len(expr) = 5 THEN expr[i]
    ELSE IF i = Second THEN expr[1] ELSE IF i < Second THEN expr[i + 1] ELSE expr[i]

Starred(expr, i) == \E k \in DOMAIN Written(expr, i) : Written(expr, i)[k].t \in {"star", "every"}

\* A field that has every value is an asterisk, but a day of the month or of
\* the week stays a list unless the other one has an asterisk.
Field(expr, i, crc) ==
    LET its == {Item(i, Written(expr, i)[k], Len(expr), crc) : k \in DOMAIN Written(expr, i)}
        alone == \A k \in DOMAIN Written(expr, i) :
                    Written(expr, i)[k].t \in {"any", "random", "randomstep"} => Len(Written(expr, i)) = 1
        f == [ok |-> alone /\ \A r \in its : r.ok,
              vals |-> UNION {r.vals : r \in its},
              star |-> \E r \in its : r.star,
              last |-> \E r \in its : r.last,
              nth |-> UNION {r.nth : r \in its}]
        size == Cardinality(f.vals) + (IF f.star THEN 1 ELSE 0) + (IF f.last THEN 1 ELSE 0)
        listed == \/ i = Day /\ ~Starred(expr, Dow)
                  \/ i = Dow /\ ~Starred(expr, Day)
    IN  IF size = LenMeansAll[i] /\ ~listed
        THEN [f EXCEPT !.star = TRUE, !.vals = {}, !.last = FALSE] ELSE f

\* Literal days of the week do not mix with numbered ones.
Mixed(f) ==
    /\ f.nth # {}
    /\ f.vals \ {x[1] : x \in f.nth} # {}
    /\ Cardinality(f.vals) # LenMeansAll[Dow]

Expand(expr, crc) ==
    IF Len(expr) \in {5, 6, 7} THEN [i \in DOMAIN expr |-> Field(expr, i, crc[i])] ELSE <<>>

IsValid(f) == f # <<>> /\ (\A i \in DOMAIN f : f[i].ok) /\ ~Mixed(f[Dow])

-----------------------------------------------------------------------------
(* The steps of _calc. f is the expanded expression, t the time the search *)
(* has reached; back tells a search for the previous time.                 *)

NextDiff(x, g, range) ==
    LET later == {v \in g.vals : v >= x}
    IN  IF later # {} THEN Min(later) - x
        ELSE IF g.last THEN range - x
        ELSE Min(g.vals) - x + range

\* A day that the month before does not have sends the search to its last day.
PrevDiff(x, g, range) ==
    LET earlier == {v \in g.vals : v <= x}
        wrapped == {v \in g.vals : v <= range}
    IN  IF earlier # {} THEN Max(earlier) - x
        ELSE IF g.last \/ wrapped = {} THEN -x
        ELSE Max(wrapped) - x - range

NearestDiff(x, g, range, back) == IF back THEN PrevDiff(x, g, range) ELSE NextDiff(x, g, range)

\* The first second of a day, or the last one when the search goes back.
Edge(n, back) == IF back THEN At(n, 23, 59, 59) ELSE At(n, 0, 0, 0)

\* proc_year: there may be no year left.
YearsLeft(f, t, back) ==
    {v \in f[Year].vals : IF back THEN v <= Date(t.day).y ELSE v >= Date(t.day).y}
HasYears(f) == Len(f) = Year /\ ~f[Year].star
ByYear(f, t, back) ==
    IF ~HasYears(f) THEN t
    ELSE LET y == IF back THEN Max(YearsLeft(f, t, back)) ELSE Min(YearsLeft(f, t, back))
         IN  IF y = Date(t.day).y THEN t
             ELSE IF back THEN Edge(DayNumber(y, 12, 31), back) ELSE Edge(DayNumber(y, 1, 1), back)

ByMonth(f, t, back) ==
    LET d == Date(t.day)
        diff == NearestDiff(d.m, f[Month], 12, back)
        k == 12 * d.y + d.m - 1 + diff
        y == k \div 12
        m == (k % 12) + 1
    IN  IF f[Month].star \/ diff = 0 THEN t
        ELSE Edge(DayNumber(y, m, IF back THEN DaysOf(y, m) ELSE 1), back)

\* The length of the month before is taken without the leap day.
ByDayOfMonth(f, t, back) ==
    LET d == Date(t.day)
        range == IF back THEN DaysIn[((d.m + 10) % 12) + 1] ELSE DaysOf(d.y, d.m)
        diff == NearestDiff(d.d, f[Day], range, back)
    IN  IF f[Day].star \/ (f[Day].last /\ d.d = DaysOf(d.y, d.m)) \/ diff = 0 THEN t
        ELSE Edge(t.day + diff, back)

ByDayOfWeek(f, t, back) ==
    LET diff == NearestDiff(Weekday(t.day), f[Dow], 7, back)
    IN  IF f[Dow].star \/ diff = 0 THEN t ELSE Edge(t.day + diff, back)

\* The days of a month that are a given day of the week, numbered from 1; the
\* last one is 0.
NthWeekday(y, m, w, n) ==
    LET days == {d \in 1..DaysOf(y, m) : Weekday(DayNumber(y, m, d)) = w}
    IN  IF n = 0 THEN {Max(days)}
        ELSE {d \in days : Cardinality({e \in days : e <= d}) = n}

ByNthDayOfWeek(f, t, back) ==
    LET d == Date(t.day)
        all == UNION {NthWeekday(d.y, d.m, x[1], x[2]) : x \in f[Dow].nth}
        candidates == {c \in all : IF back THEN c <= d.d ELSE d.d <= c}
        c == IF back THEN Max(candidates) ELSE Min(candidates)
    IN  IF candidates = {}
        THEN Edge(IF back THEN t.day - d.d ELSE t.day + DaysOf(d.y, d.m) - d.d + 1, back)
        ELSE IF c = d.d THEN t ELSE Edge(t.day + c - d.d, back)

ByHour(f, t, back) ==
    LET diff == NearestDiff(HourOf(t), f[Hour], 24, back)
    IN  IF f[Hour].star \/ diff = 0 THEN t
        ELSE Shift(At(t.day, HourOf(t), IF back THEN 59 ELSE 0, IF back THEN 59 ELSE 0),
                   3600 * diff)

ByMinute(f, t, back) ==
    LET diff == NearestDiff(MinuteOf(t), f[Minute], 60, back)
    IN  IF f[Minute].star \/ diff = 0 THEN t
        ELSE Shift(At(t.day, HourOf(t), MinuteOf(t), IF back THEN 59 ELSE 0), 60 * diff)

BySecond(f, t, back) ==
    IF Len(f) < Second THEN t
    ELSE IF f[Second].star THEN t
    ELSE Shift(t, NearestDiff(SecondOf(t), f[Second], 60, back))

\* One iteration: the first of the steps that changes the time.
Iterate(f, t, back) ==
    LET month == ByMonth(f, t, back)
        day == ByDayOfMonth(f, t, back)
        week == IF f[Dow].nth # {} THEN ByNthDayOfWeek(f, t, back) ELSE ByDayOfWeek(f, t, back)
        hour == ByHour(f, t, back)
        minute == ByMinute(f, t, back)
    IN  IF ByYear(f, t, back) # t THEN ByYear(f, t, back)
        ELSE IF month # t THEN month
        ELSE IF day # t THEN day
        ELSE IF week # t THEN week
        ELSE IF hour # t THEN hour
        ELSE IF minute # t THEN minute
        ELSE BySecond(f, t, back)

-----------------------------------------------------------------------------
VARIABLES
    req,        \* the request
    fields,     \* its expression, expanded
    cur,        \* the time the iterator is at: [at, frac], frac for a fraction of a second
    leg,        \* "both", or "dom" and then "dow" for the union of the two fields of days
    dst,        \* the time the search has reached
    since,      \* the year it began in
    first,      \* what the first leg found
    got,        \* the times found so far
    phase       \* "idle", "search", "end", "none" (CroniterBadDateError) or "invalid"

cronVars == <<req, fields, cur, leg, dst, since, first, got, phase>>

Back(r) == r.op \in {"prev", "match"} \/ (r.op = "range" /\ Before(r.stop, r.start))

\* match_range moves the time it tests, and croniter_range both its ends, by a
\* microsecond, so that they count.
StartOf(r) ==
    CASE r.op \in {"next", "prev"} -> [at |-> r.start, frac |-> FALSE]
      [] r.op = "range" /\ ~Back(r) -> [at |-> Shift(r.start, -1), frac |-> TRUE]
      [] OTHER -> [at |-> r.start, frac |-> TRUE]

CronInit ==
    /\ req \in Requests
    /\ fields \in {Expand(req.expr, crc) : crc \in [DOMAIN req.expr -> Draws]}
    /\ phase = IF IsValid(fields) THEN "idle" ELSE "invalid"
    /\ cur = StartOf(req)
    /\ leg = "both"
    /\ dst = req.start
    /\ since = 0
    /\ first = req.start
    /\ got = <<>>

\* Where a search begins: the next second or minute, or the one before.
Begin(c, back) ==
    LET up == IF c.frac THEN Shift(c.at, 1) ELSE c.at
    IN  IF ~back THEN Shift(c.at, IF Len(fields) > 5 THEN 1 ELSE 60)
        ELSE Shift(up, IF Len(fields) > 5 \/ SecondOf(up) > 0 THEN -1 ELSE -60)

\* _get_next: two searches when both fields of days are restricted.
Ask ==
    /\ phase = "idle" /\ (req.op = "range" \/ Len(got) < MaxCalls)
    /\ leg' = IF ~fields[Day].star /\ ~fields[Dow].star THEN "dom" ELSE "both"
    /\ dst' = Begin(cur, Back(req))
    /\ since' = Date(dst'.day).y
    /\ phase' = "search"
    /\ UNCHANGED <<req, fields, cur, first, got>>

\* The fields of the leg.
Legged ==
    CASE leg = "dom" -> [fields EXCEPT ![Dow].star = TRUE]
      [] leg = "dow" -> [fields EXCEPT ![Day].star = TRUE]
      [] OTHER -> fields

\* croniter_range looks no further than the years it spans.
Apart(y, z) == IF y < z THEN z - y ELSE y - z
Span ==
    IF req.op # "range" THEN MaxYears
    ELSE 1 + Apart(Date(StartOf(req).at.day).y,
                   Date((IF Back(req) THEN Shift(req.stop, -1) ELSE req.stop).day).y)
Near == Apart(Date(dst.day).y, since) <= Span
Exhausted == HasYears(fields) /\ YearsLeft(fields, dst, Back(req)) = {}

Move ==
    /\ phase = "search" /\ Near /\ ~Exhausted
    /\ Iterate(Legged, dst, Back(req)) # dst
    /\ dst' = Iterate(Legged, dst, Back(req))
    /\ UNCHANGED <<req, fields, cur, leg, since, first, got, phase>>

GiveUp ==
    /\ phase = "search" /\ (~Near \/ Exhausted)
    /\ phase' = "none"
    /\ UNCHANGED <<req, fields, cur, leg, dst, since, first, got>>

\* Five fields: the second is 0.
Landed == IF Len(fields) = 5 THEN At(dst.day, HourOf(dst), MinuteOf(dst), 0) ELSE dst

\* Mutant: the day of the month wins, whichever comes first.
DomFirst(a, b) == a

\* The two day fields are alternatives, of which the nearer one counts.
Nearer(a, b) == IF Back(req) THEN (IF Before(b, a) THEN a ELSE b) ELSE (IF Before(a, b) THEN a ELSE b)

\* What the iterator does with the time it has found. croniter_range stops at
\* the first one past its end.
Deliver(t) ==
    /\ cur' = [at |-> t, frac |-> FALSE]
    /\ IF req.op = "range" /\ (IF Back(req) THEN Before(t, req.stop) ELSE Before(req.stop, t))
       THEN phase' = "end" /\ UNCHANGED got
       ELSE /\ phase' = IF req.op = "match" THEN "end" ELSE "idle"
            /\ got' = Append(got, t)

Land ==
    /\ phase = "search" /\ Near /\ ~Exhausted
    /\ Iterate(Legged, dst, Back(req)) = dst
    /\ IF leg = "dom"
       THEN /\ first' = Landed
            /\ leg' = "dow"
            /\ dst' = Begin(cur, Back(req))
            /\ UNCHANGED <<cur, got, phase>>
       ELSE /\ Deliver(IF leg = "dow" THEN Nearer(first, Landed) ELSE Landed)
            /\ UNCHANGED <<leg, dst, first>>
    /\ UNCHANGED <<req, fields, since>>

\* The answer of match_range: the time it found is less than a second, or a
\* minute, away.
Answer ==
    /\ phase = "end"
    /\ 86400 * (req.start.day - got[1].day) + req.start.sec - got[1].sec
          < (IF Len(fields) > 5 THEN 1 ELSE 60)

Over ==
    /\ \/ phase \in {"end", "none", "invalid"}
       \/ phase = "idle" /\ req.op # "range" /\ Len(got) >= MaxCalls
    /\ UNCHANGED cronVars

CronNext == Ask \/ Move \/ GiveUp \/ Land \/ Over

-----------------------------------------------------------------------------
(* What an expression means, from its items: the times it matches.         *)

\* Whether an item names the value v of field i.
Names(i, e, v) ==
    LET meant(w) == IF i = Dow THEN w % 7 ELSE IF i = Day /\ w = 0 THEN 1 ELSE w
        named(lo, hi, step) == \E w \in lo..hi : (w - lo) % step = 0 /\ v = meant(w)
    IN  CASE e.t \in {"star", "any"} -> TRUE
          [] e.t = "at" -> named(e.v, e.v, 1)
          [] e.t = "range" -> named(e.lo, IF i = Dow /\ e.hi = 0 THEN 7 ELSE e.hi, e.step)
          [] e.t = "every" -> named(Low[i], High[i], e.step)
          [] e.t = "from" -> named(e.lo, High[i], e.step)
          [] e.t \in {"random", "randomstep"} ->
                e.lo = -1 \/ named(e.lo, e.hi, 1)
          [] OTHER -> FALSE

NamesDay(i, e, n) ==
    LET d == Date(n)
    IN  IF i = Day THEN Names(i, e, d.d) \/ (e.t = "last" /\ d.d = DaysOf(d.y, d.m))
        ELSE \/ Names(i, e, Weekday(n))
             \/ e.t = "nth" /\ Weekday(n) \in e.lo..e.hi /\ (d.d + 6) \div 7 = e.n
             \/ e.t = "lastof" /\ Weekday(n) = e.v /\ d.d + 7 > DaysOf(d.y, d.m)

Some(w, i, v) == \E k \in DOMAIN w : Names(i, w[k], v)
SomeDay(w, i, n) == \E k \in DOMAIN w : NamesDay(i, w[k], n)
Restricted(w) == \A k \in DOMAIN w : w[k].t \notin {"star", "any"}

\* When both the day of the month and the day of the week are restricted, one
\* of them has to match.
MatchesDay(expr, n) ==
    LET dom == Written(expr, Day)
        dow == Written(expr, Dow)
        d == Date(n)
    IN  /\ Some(Written(expr, Month), Month, d.m)
        /\ Len(expr) = 7 => Some(Written(expr, Year), Year, d.y)
        /\ IF Restricted(dom) /\ Restricted(dow) THEN SomeDay(dom, Day, n) \/ SomeDay(dow, Dow, n)
           ELSE SomeDay(dom, Day, n) /\ SomeDay(dow, Dow, n)

MatchesTime(expr, h, m, s) ==
    /\ Some(Written(expr, Hour), Hour, h)
    /\ Some(Written(expr, Minute), Minute, m)
    /\ IF Len(expr) = 5 THEN s = 0 ELSE Some(Written(expr, Second), Second, s)

Matches(expr, t) ==
    MatchesDay(expr, t.day) /\ MatchesTime(expr, HourOf(t), MinuteOf(t), SecondOf(t))

\* The seconds of a day that an expression matches.
Times(expr) ==
    {3600 * h + 60 * m + s :
        h \in {x \in 0..23 : Some(Written(expr, Hour), Hour, x)},
        m \in {x \in 0..59 : Some(Written(expr, Minute), Minute, x)},
        s \in IF Len(expr) = 5 THEN {0} ELSE {x \in 0..59 : Some(Written(expr, Second), Second, x)}}

\* No time after a and before b matches.
NoneBetween(expr, a, b) ==
    /\ \A n \in a.day + 1..b.day - 1 : ~MatchesDay(expr, n)
    /\ a.day < b.day /\ MatchesDay(expr, a.day) => \A s \in Times(expr) : s <= a.sec
    /\ a.day < b.day /\ MatchesDay(expr, b.day) => \A s \in Times(expr) : s >= b.sec
    /\ a.day = b.day /\ MatchesDay(expr, a.day) =>
          \A s \in Times(expr) : s <= a.sec \/ s >= b.sec

\* Expressions with random fields match some times of what they name.
Random(expr) ==
    \E i \in DOMAIN expr : \E k \in DOMAIN expr[i] : expr[i][k].t \in {"random", "randomstep"}

-----------------------------------------------------------------------------
(* Properties.                                                             *)

\* The type invariant: an expanded field has a value, and none out of range.
CronTypeOK ==
    /\ phase \in {"idle", "search", "end", "none", "invalid"}
    /\ phase # "invalid" => \A i \in DOMAIN fields :
          /\ fields[i].vals \subseteq Low[i]..High[i]
          /\ fields[i].star \/ fields[i].last \/ fields[i].vals # {}
    /\ dst.sec \in 0..86399

\* Every time the iterator returns matches the expression (_calc).
Sound == req.op # "match" => \A k \in DOMAIN got : Matches(req.expr, got[k])

\* The iterator skips no time: none that matches lies between the time it was
\* asked from and the one it returns, in either direction (_get_next).
NoneSkipped ==
    req.op \in {"next", "prev"} /\ ~Random(req.expr) => \A k \in DOMAIN got :
        LET a == IF k = 1 THEN req.start ELSE got[k - 1]
        IN  IF Back(req) THEN Before(got[k], a) /\ NoneBetween(req.expr, got[k], a)
            ELSE Before(a, got[k]) /\ NoneBetween(req.expr, a, got[k])

\* CroniterBadDateError is raised only when nothing matches for MaxYears.
GivesUpRightly ==
    phase = "none" /\ req.op \in {"next", "prev"} /\ got = <<>> =>
        IF Back(req) THEN NoneBetween(req.expr, Shift(req.start, -86400 * 365 * MaxYears), req.start)
        ELSE NoneBetween(req.expr, req.start, Shift(req.start, 86400 * 365 * MaxYears))

\* match tells whether the expression matches the time, to the second or to
\* the minute (match_range).
MatchAgrees ==
    req.op = "match" /\ phase \in {"end", "none"} =>
        LET t == IF Len(req.expr) = 5 THEN At(req.start.day, HourOf(req.start), MinuteOf(req.start), 0)
                 ELSE req.start
        IN  Matches(req.expr, t) = Answer

\* croniter_range yields the times from one end to the other, the ends included.
RangeComplete ==
    req.op = "range" /\ phase \in {"end", "none"} =>
        LET lo == IF Back(req) THEN req.stop ELSE req.start
            hi == IF Back(req) THEN req.start ELSE req.stop
            all == {t \in [day : lo.day..hi.day, sec : Times(req.expr)] :
                        MatchesDay(req.expr, t.day) /\ ~Before(t, lo) /\ ~Before(hi, t)}
        IN  {got[k] : k \in DOMAIN got} = all

\* The search never turns back: each iteration is later, or earlier, than the
\* one before it. A search is therefore over after MaxYears (_calc).
SearchProgresses ==
    phase = "search" /\ phase' = "search" /\ leg' = leg =>
        IF Back(req) THEN Before(dst', dst) ELSE Before(dst, dst')
=============================================================================
