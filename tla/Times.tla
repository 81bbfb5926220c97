-------------------------------- MODULE Times -------------------------------
(***************************************************************************)
(* Time zones (timezone/zone.cpp), periods (period.cpp) and the functions  *)
(* that read, round, shift and enumerate times in a zone (ztime.cpp,       *)
(* ztime_vector.cpp, seq in base_funcs.cpp).                               *)
(*                                                                         *)
(* A time is an integer; Den of its units are a second.  A zone is the     *)
(* sequence of its transitions, in seconds, the offset from each of them   *)
(* on, and the one before the first.  The calendar is a small one: a year  *)
(* has the months of MonthDays.                                            *)
(***************************************************************************)
EXTENDS Integers, SequencesExt

CONSTANTS Den,         \* Global::dtime::duration::period::den
          DaySecs,     \* seconds in a day
          MonthDays,   \* days of the months of a year
          Zone,        \* records: ats, off, default
          When,        \* the times
          Shift,       \* records: months, days, dur
          SeqEnd,      \* the times a sequence goes to
          Lengths      \* values of length.out

IsZone(z) ==
  /\ z.ats \in Seq(Int) /\ z.off \in Seq(Int) /\ Len(z.ats) = Len(z.off) /\ z.default \in Int
  /\ \A i \in 2 .. Len(z.ats) : z.ats[i - 1] < z.ats[i]
Period == [months : Int, days : Int, dur : Int]

ASSUME TimesAssumption ==
  /\ {Den, DaySecs} \subseteq Nat \ {0} /\ MonthDays \in Seq(Nat \ {0}) /\ MonthDays # <<>>
  /\ When \cup SeqEnd \subseteq Int /\ Lengths \subseteq Nat
  /\ Shift \subseteq Period /\ \A z \in Zone : IsZone(z)

VARIABLES tf,          \* the function called
          tz,          \* its zone
          targ,        \* its other arguments
          tres,        \* the times it returns
          tpc

zvars == <<tf, tz, targ, tres, tpc>>

-----------------------------------------------------------------------------
(* The calendar, on days counted from the epoch.                           *)

Day == DaySecs * Den
Months == Len(MonthDays)
DaysBefore(m) ==
  LET before[k \in 0 .. Months] == IF k = 0 THEN 0 ELSE before[k - 1] + MonthDays[k] IN before[m - 1]
YearDays == DaysBefore(Months + 1)

from_days(n) ==
  LET doy == n % YearDays
      m   == CHOOSE k \in 1 .. Months : DaysBefore(k) <= doy /\ doy < DaysBefore(k + 1)
  IN  [y |-> n \div YearDays, m |-> m, d |-> doy - DaysBefore(m) + 1]

\* A day behind the end of its month is one of the next month.
to_days(ymd) == ymd.y * YearDays + DaysBefore(ymd.m) + ymd.d - 1

plus_months(ymd, k) ==
  [ymd EXCEPT !.y = @ + ((ymd.m - 1 + k) \div Months), !.m = ((ymd.m - 1 + k) % Months) + 1]

-----------------------------------------------------------------------------
(* Zone::getoffset.  Positions count from 0.                               *)

\* Division truncates.
SecondsOf(t) == IF t >= 0 THEN t \div Den ELSE -((-t) \div Den)

bs(z, t) ==
  LET At(i) == z.ats[i + 1]
      search[span \in (0 .. Len(z.ats)) \X (-1 .. Len(z.ats) - 1)] ==
        LET middle == (span[1] + span[2]) \div 2
        IN  IF span[1] > span[2] \/ At(middle) = t THEN middle
            ELSE IF At(middle) < t THEN search[<<middle + 1, span[2]>>]
            ELSE search[<<span[1], middle - 1>>]
  IN  search[<<0, Len(z.ats) - 1>>]

getoffset(z, t) ==
  IF z.ats # <<>> /\ z.ats[1] < SecondsOf(t)
  THEN LET i == bs(z, SecondsOf(t)) IN [off |-> z.off[i + 1], pos |-> i]
  ELSE [off |-> z.default, pos |-> -1]

\* From the position of an earlier look-up, forwards or backwards; a time that is
\* a transition is before it going forwards, and before all going backwards.
getoffset_from(z, t, pos, dir) ==
  LET n     == Len(z.ats)
      At(i) == z.ats[i + 1] * Den
      up    == CHOOSE i \in pos .. n - 1 : /\ i = n - 1 \/ t <= At(i + 1)
                                           /\ \A j \in pos .. i - 1 : t > At(j + 1)
      down  == CHOOSE i \in 0 .. pos : /\ i = 0 \/ t >= At(i)
                                       /\ \A j \in i + 1 .. pos : t < At(j)
  IN  CASE pos < 0 -> getoffset(z, t)
        [] pos >= 0 /\ dir >= 0 -> [off |-> z.off[up + 1], pos |-> up]
        [] OTHER -> [off |-> IF t > At(down) THEN z.off[down + 1] ELSE z.default, pos |-> down]

\* Mutant: a time that comes twice is taken for its second coming.
buildRl_second(z, i) ==
  LET prev == IF i = 1 THEN z.default ELSE z.off[i - 1]
      cur  == z.off[i]
  IN  IF cur > prev THEN <<<<z.ats[i] + prev, {}>>, <<z.ats[i] + cur, {cur}>>>>
      ELSE <<<<z.ats[i] + cur, {cur}>>>>

\* Where the local time of a zone has another set of offsets than before.
buildRl(z, i) ==
  LET prev == IF i = 1 THEN z.default ELSE z.off[i - 1]
      cur  == z.off[i]
  IN  IF cur > prev THEN <<<<z.ats[i] + prev, {}>>, <<z.ats[i] + cur, {cur}>>>>
      ELSE IF cur < prev THEN <<<<z.ats[i] + cur, {prev, cur}>>, <<z.ats[i] + prev, {cur}>>>>
      ELSE <<<<z.ats[i] + cur, {cur}>>>>

\* The entry at or before the local time; the last one written for its key.
getReverseOffset(z, local) ==
  LET rl   == FlattenSeq([i \in 1 .. Len(z.ats) |-> buildRl(z, i)])
      here == {k \in 1 .. Len(rl) : rl[k][1] <= SecondsOf(local)}
      last == CHOOSE k \in here : \A j \in here : rl[j][1] < rl[k][1] \/ (rl[j][1] = rl[k][1] /\ j <= k)
  IN  IF here = {} THEN {z.default} ELSE rl[last][2]

-----------------------------------------------------------------------------
(* Periods.                                                                *)

\* The months are added to the local date.
add_months(t, off, k) ==
  IF k = 0 THEN t
  ELSE Day * to_days(plus_months(from_days((t + off) \div Day), k)) - off + ((t + off) % Day)

\* Mutant: the offset of the new time is not looked up.
Adjusted_naive(z, t, res, o) == res

\* The local time is kept when the offset of the new time is another.
Adjusted(z, t, res, o) ==
  res + (o.off - getoffset_from(z, res, o.pos, IF res >= t THEN 1 ELSE -1).off) * Den

plus_from(z, t, p, o) ==
  Adjusted(z, t, add_months(t, o.off * Den, p.months) + p.days * Day + p.dur,
           getoffset_from(z, t, o.pos, 1))

plus(z, t, p) == plus_from(z, t, p, getoffset_from(z, t, -1, 1))

-----------------------------------------------------------------------------
(* Rounding to a day, a month or a year of the zone.                       *)

Units == {"day", "month", "year"}

Floored(ymd, unit) ==
  CASE unit = "day" -> ymd
    [] unit = "month" -> [ymd EXCEPT !.d = 1]
    [] unit = "year" -> [ymd EXCEPT !.m = 1, !.d = 1]

\* The month behind the last is the first of the same year.
Ceiled(ymd, unit) ==
  CASE unit = "day" -> [ymd EXCEPT !.d = @ + 1]
    [] unit = "month" -> [ymd EXCEPT !.m = (@ % Months) + 1, !.d = 1]
    [] unit = "year" -> [y |-> ymd.y + 1, m |-> 1, d |-> 1]

\* The offset of a local day is looked up as if it were a time.
rounded(z, t, ymd(_), dir) ==
  LET o    == getoffset_from(z, t, -1, dir)
      days == Day * to_days(ymd(from_days((t + o.off * Den) \div Day)))
  IN  days - getoffset_from(z, days, o.pos, dir).off * Den

\* Mutant: the offset of the time is taken for that of the day.
floor_tz_once(z, t, unit) ==
  LET off == getoffset(z, t).off * Den
  IN  Day * to_days(Floored(from_days((t + off) \div Day), unit)) - off

floor_tz(z, t, unit) == rounded(z, t, LAMBDA ymd : Floored(ymd, unit), -1)
ceiling_tz(z, t, unit) == rounded(z, t, LAMBDA ymd : Ceiled(ymd, unit), 1)

-----------------------------------------------------------------------------
Given(S) == {<<>>} \cup {<<e>> : e \in S}

Utc == [ats |-> <<>>, off |-> <<>>, default |-> 0]
TInit == tf = "none" /\ tz = Utc /\ targ = <<>> /\ tres = <<>> /\ tpc = "idle"

Ends(f, z, arg, res, end) == tf' = f /\ tz' = z /\ targ' = arg /\ tres' = res /\ tpc' = end

CallPlus(z, t, p) == tpc = "idle" /\ Ends("plus", z, <<t, p>>, <<plus(z, t, p)>>, "done")

CallRound(z, t, unit) ==
  /\ tpc = "idle"
  /\ \/ Ends("floor", z, <<t, unit>>, <<floor_tz(z, t, unit)>>, "done")
     \/ Ends("ceiling", z, <<t, unit>>, <<ceiling_tz(z, t, unit)>>, "done")

\* dtime_from_numbers of a local time.
Read(f, z, arg, local) ==
  LET offs == getReverseOffset(z, local)
  IN  IF \E o \in offs : offs = {o} THEN Ends(f, z, arg, <<local - (CHOOSE o \in offs : TRUE) * Den>>, "done")
      ELSE Ends(f, z, arg, <<>>, "throw")

CallRead(z, local) == tpc = "idle" /\ Read("read", z, <<local>>, local)

\* Mutant: a time is written as it is in UTC.
CallReadBack_utc(z, t) == tpc = "idle" /\ Read("readback", z, <<t>>, t)

\* to_string, and what it wrote is read again.
CallReadBack(z, t) == tpc = "idle" /\ Read("readback", z, <<t>>, t + getoffset(z, t).off * Den)

-----------------------------------------------------------------------------
(* seq.                                                                    *)

Dist(s, t) == IF s >= t THEN s - t ELSE t - s

\* By a period, to a time ...
CallSeq(z, start, to, p) ==
  tpc = "idle" /\ Ends("seq", z, <<start, to, p, Dist(start, to)>>, <<start>>, "loop")

SeqStep ==
  /\ tpc = "loop"
  /\ \E next \in {plus(tz, Last(tres), targ[3])} :
       IF (IF targ[2] >= targ[1] THEN next > targ[2] ELSE next < targ[2])
       THEN Ends(tf, tz, targ, tres, "done")
       ELSE Ends(tf, tz, [targ EXCEPT ![4] = Dist(targ[2], next)], Append(tres, next),
                 IF Dist(targ[2], next) >= targ[4] THEN "throw" ELSE "loop")

\* ... or so many; there is always the first.
CallSeqN(z, start, p, n) ==
  LET r[i \in 1 .. n + 1] == IF i = 1 THEN start ELSE plus(z, r[i - 1], p)
  IN  tpc = "idle" /\ Ends("seq_n", z, <<start, p, n>>, [i \in 1 .. Max({n, 1}) |-> r[i]], "done")

\* The division of seq_helper_numeric is unsigned: of a negative difference it is
\* exact by 1 and positive, so refused, by any other number.  Here 0 is refused.
ByLength(diff, n) == IF n = 2 THEN diff ELSE IF n > 2 /\ diff >= 0 THEN diff \div (n - 1) ELSE 0

\* Array(seq_to, ...), by > 0.  Mutant: the last element is left out.
seq_to_short(start, to, by) ==
  [i \in 1 .. Max({1, Dist(start, to) \div by}) |-> IF to < start THEN start - (i - 1) * by ELSE start + (i - 1) * by]

seq_to(start, to, by) ==
  [i \in 1 .. (Dist(start, to) \div by) + 1 |-> IF to < start THEN start - (i - 1) * by ELSE start + (i - 1) * by]

\* By a duration.  to, by and n are <<>> where they are not given; a length of 1
\* divides by zero.
CallSeqBy(start, to, by, n) ==
  LET default == IF to # <<>> /\ to[1] < start THEN -Den ELSE Den
      step    == CASE to # <<>> /\ n # <<>> -> ByLength(to[1] - start, n[1])
                   [] by # <<>>             -> by[1]
                   [] OTHER                 -> default
      End(end, res) == Ends("seq_by", tz, <<start, to, by, n>>, res, end)
  IN  /\ tpc = "idle"
      /\ CASE to # <<>> /\ by # <<>> /\ n # <<>> -> End("throw", <<>>)
           [] to # <<>> /\ by = <<>> /\ n = <<1>> -> End("trap", <<>>)
           [] to # <<>> /\ ~(by # <<>> /\ n # <<>>) /\ n # <<1>> ->
                IF step # 0 /\ (to[1] >= start <=> step > 0)
                THEN End("done", seq_to(start, to[1], IF to[1] >= start THEN step ELSE -step))
                ELSE End("throw", <<>>)
           [] to = <<>> /\ n = <<>> -> End("throw", <<>>)
           [] OTHER -> End("done", [i \in 1 .. Max({n[1], 1}) |-> start + (i - 1) * step])

TNext ==
  \/ /\ tpc = "idle"
     /\ \/ \E z \in Zone, t \in When :
             \/ \E p \in Shift : CallPlus(z, t, p)
             \/ \E unit \in Units : CallRound(z, t, unit)
             \/ CallRead(z, t)
             \/ CallReadBack(z, t)
             \/ \E p \in Shift : (\E to \in SeqEnd : CallSeq(z, t, to, p)) \/ (\E n \in Lengths : CallSeqN(z, t, p, n))
        \/ \E start \in SeqEnd, to \in Given(SeqEnd), by \in Given({p.dur : p \in Shift}), n \in Given(Lengths) :
             CallSeqBy(start, to, by, n)
  \/ SeqStep
TSpec == TInit /\ [][TNext]_zvars

-----------------------------------------------------------------------------
(* Properties.                                                             *)

\* The offset of a zone at a time.
OffsetAt(z, t) ==
  LET past == {i \in 1 .. Len(z.ats) : z.ats[i] * Den <= t}
  IN  IF past = {} THEN z.default ELSE z.off[Max(past)]
Local(z, t) == t + OffsetAt(z, t) * Den
ChangesIn(z, s, t) == \E i \in 1 .. Len(z.ats) : s <= z.ats[i] * Den /\ z.ats[i] * Den <= t

\* Lookups cut the fraction of a second off, and take the second of the first transition
\* for one before it.
Plain(t) == t >= 0 \/ t % Den = 0
AtFirst(z, t) == z.ats # <<>> /\ SecondsOf(t) = z.ats[1]

\* By how much the offsets of a zone differ at most; and a time that is far from a change.
Spread(z) == LET O == {z.default} \cup ToSet(z.off) IN Den * (Max(O) - Min(O))
Calm(z, t) == Plain(t) /\ ~ChangesIn(z, t - Spread(z), t + Spread(z))

\* The offset of a beginning is looked up as if its local time were a time: no clock changes
\* within an offset of it, or within what two offsets differ by.
Far(z, t) ==
  LET O == {z.default} \cup ToSet(z.off)
      w == Den * Max({Dist(x[1], x[2]) : x \in O \X (O \cup {0})})
  IN  ~ChangesIn(z, t - w, t + w)
LastMonth == tf = "ceiling" /\ targ[2] = "month" /\ from_days(Local(tz, targ[1]) \div Day).m = Months

\* The times that are local in a zone.
Meanings(z, local) == {t \in {local - o * Den : o \in {z.default} \cup ToSet(z.off)} : Local(z, t) = local}

\* A local time is read as the time it is in the zone, and refused exactly when the
\* clock never shows it or shows it twice; but for fractions of a second before the
\* epoch, which are cut off the wrong way.
LocalTimeIsRead ==
  tf = "read" /\ Plain(targ[1]) =>
    IF tpc = "done" THEN Meanings(tz, targ[1]) = {tres[1]}
    ELSE \A t \in Meanings(tz, targ[1]) : Meanings(tz, targ[1]) # {t}

\* What is written of a time is read as that time or refused; excepted are the second
\* in which the first transition falls and fractions before the epoch, of the time or of
\* what is written.
WrittenIsRead ==
  tf = "readback" /\ tpc = "done" /\ Plain(targ[1]) /\ Plain(Local(tz, targ[1])) /\ ~AtFirst(tz, targ[1])
    => tres[1] = targ[1]

\* The months, days and duration of a period are added to the local time, also when
\* the clocks change in between, once or several times, but not close to the result.
PeriodIsAdded ==
  tf = "plus" =>
    \E t \in {targ[1]}, p \in {targ[2]} : Calm(tz, t) /\ Calm(tz, tres[1]) =>
      LET local == Local(tz, t)
      IN  Local(tz, tres[1]) = Day * (to_days(plus_months(from_days(local \div Day), p.months)) + p.days) + (local % Day) + p.dur

\* floor is the last beginning of a day, month or year of the zone that is not after the
\* time, and ceiling the first one after it.
RoundingIsRight ==
  tf \in {"floor", "ceiling"} /\ Calm(tz, targ[1]) /\ Far(tz, tres[1]) /\ ~LastMonth =>
    LET begins(t) == Local(tz, t) = Day * to_days(Floored(from_days(Local(tz, t) \div Day), targ[2]))
    IN  /\ begins(tres[1])
        /\ tf = "floor" => tres[1] <= targ[1] /\ \A t \in tres[1] + 1 .. targ[1] : ~begins(t)
        /\ tf = "ceiling" => tres[1] > targ[1] /\ \A t \in targ[1] + 1 .. tres[1] - 1 : ~begins(t)

Span(s, t) == Min({s, t}) .. Max({s, t})
SeqCalm == LET w == Dist(0, targ[3].days * Day + targ[3].dur)
           IN  ~ChangesIn(tz, Min(ToSet(tres)) - w, Max(ToSet(tres)) + w)
Steps == IF Len(tres) > 1 THEN {tres[2] - tres[1]} ELSE {Den, -Den} \cup ToSet(targ[3])
Steady(step) == \A i \in 1 .. Len(tres) - 1 : tres[i + 1] - tres[i] = step

\* A sequence begins at its start and runs to its end without passing it or stopping short of
\* it, in equal steps where a duration is given and in steps of the same sign otherwise,
\* and it is refused only if the step does not lead from the start to the end; a number
\* of elements is met, unless the step that this needs is not a whole one.
SequenceIsRight ==
  /\ tf = "seq" /\ tpc = "done" =>
       LET sign == IF targ[2] >= targ[1] THEN 1 ELSE -1
       IN  /\ tres[1] = targ[1] /\ ToSet(tres) \subseteq Span(targ[1], targ[2])
           /\ \A i \in 1 .. Len(tres) - 1 : sign * (tres[i + 1] - tres[i]) > 0
  /\ tf = "seq" /\ tpc = "throw" /\ targ[3].months = 0 /\ SeqCalm =>
       LET step == targ[3].days * Day + targ[3].dur
       IN  step = 0 \/ (step > 0 <=> targ[2] < targ[1])
  /\ tf = "seq_by" /\ tpc = "done" =>
       \E step \in Steps :
         /\ tres[1] = targ[1] /\ Steady(step)
         /\ targ[2] # <<>> => /\ ToSet(tres) \subseteq Span(targ[1], targ[2][1])
                              /\ Last(tres) + step \notin Span(targ[1], targ[2][1])
         /\ targ[3] # <<>> => step = targ[3][1]
         /\ targ[4] # <<>> => \/ Len(tres) = targ[4][1] \/ targ[4][1] = 0
                              \/ targ[2] # <<>> /\ (targ[2][1] - targ[1]) % (targ[4][1] - 1) # 0

\* Local times are read and written as the times they are, around every change of the
\* clocks (Zone::buildRl, getReverseOffset, to_string).
LocalTimesAreRight == LocalTimeIsRead /\ WrittenIsRead

\* Shifting, rounding and enumerating times respects the changes of the clocks
\* (tz::plus, floor_tz, ceiling_tz, seq).
TimeFunctionsAreRight == PeriodIsAdded /\ RoundingIsRight /\ SequenceIsRight
=============================================================================
