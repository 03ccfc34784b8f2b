----------------------------- MODULE BriefingDigest -----------------------------
(***************************************************************************)
(* The lessons a briefing lists (lessonsForDate in internal/worker/        *)
(* briefing.go): those the timetable has on the date, as changed by the    *)
(* exceptions of that date, one after the other as they stand in the       *)
(* document.  That order is nobody's choice: clients merge documents.      *)
(***************************************************************************)
EXTENDS BriefingCalendar, Sequences, FiniteSets

CONSTANTS
  Timetable,      \* the lessons of the document, a sequence
  Exceptions,     \* what an exception of the date may say
  MaxExceptions,  \* bound: exceptions of one date
  NoLesson,       \* the empty lessonId
  Unnamed,        \* the title that a lesson without one gets
  Blank           \* a title of nothing but spaces

Kinds == {"CANCEL", "RESCHEDULE", "MAKE_UP"}

\* Titles are numbers, as they are sorted by; 0 is the empty one.  A minute of -1 is not given; opens
\* and closes are the minutes that startTime and endTime say, 0 when they say none.
ASSUME DigestAssumption ==
  /\ MaxExceptions \in Nat /\ Unnamed \in Nat \ {0} /\ Blank \in Nat \ {0, Unnamed}
  /\ Len(Timetable) \in Nat /\ DOMAIN Timetable = 1..Len(Timetable)
  /\ \A i \in DOMAIN Timetable :
       /\ Timetable[i].title \in Nat /\ Timetable[i].begin \in Int /\ Timetable[i].end \in Int
       /\ Timetable[i].opens \in Nat /\ Timetable[i].closes \in Nat
  /\ \A e \in Exceptions : e.kind \in Kinds /\ e.title \in Nat /\ e.begin \in Int /\ e.end \in Int

VARIABLES
  phase,   \* "idle", "exceptions" or "ready"
  shown,   \* lessons by their place on the list; a place that was given up stays free until the end
  applied  \* history: the exceptions that were applied

digestVars == <<calendarVars, phase, shown, applied>>

Given(value, fallback) == IF value >= 0 THEN value ELSE fallback
Trim(title) == IF title = Blank THEN 0 ELSE title
NonBlank(title, fallback) == IF Trim(title) # 0 THEN title ELSE fallback

DigestInit == CalendarInit /\ phase = "idle" /\ shown = <<>> /\ applied = <<>>

-----------------------------------------------------------------------------
\* normalizeLesson, of the weeks, of the minutes and of the title.
FromWeek(l)  == IF l.from < 1 THEN 1 ELSE l.from
UntilWeek(l) == IF l.until < FromWeek(l) THEN 30 ELSE l.until
Entry(l) ==
  LET begin == IF l.begin = 0 THEN l.opens ELSE l.begin
      end   == IF l.end = 0 THEN l.closes ELSE l.end
  IN [id |-> l.id, title |-> Trim(l.title), begin |-> begin, end |-> IF end <= begin THEN begin + 90 ELSE end,
      opens |-> l.opens, closes |-> l.closes]

DayOfWeek == IF Weekday(target) = 0 THEN 7 ELSE Weekday(target)

Held(l) ==
  /\ Trim(l.title) # 0 /\ l.day = DayOfWeek
  /\ Week \in FromWeek(l)..UntilWeek(l)
  /\ l.parity = "ODD" => Week % 2 # 0
  /\ l.parity = "EVEN" => Week % 2 = 0

StartDigest ==
  /\ phase = "idle"
  /\ phase' = "exceptions"
  /\ shown' = [i \in {k \in DOMAIN Timetable : Held(Timetable[k])} |-> Entry(Timetable[i])]
  /\ UNCHANGED <<calendarVars, applied>>

\* The places of the lessons an exception leaves: a cancelled or moved one is taken off.
LeftUnlessCancelled(e) ==
  IF e.kind = "CANCEL" /\ e.lesson # NoLesson THEN {i \in DOMAIN shown : shown[i].id # e.lesson} ELSE DOMAIN shown
Left(e) ==
  IF e.kind \in {"CANCEL", "RESCHEDULE"} /\ e.lesson # NoLesson
  THEN {i \in DOMAIN shown : shown[i].id # e.lesson} ELSE DOMAIN shown

\* What it adds: the first lesson of that id that is on the list, with what the exception changes, or
\* what the exception says alone.  Only an empty title is replaced, and only then are titles trimmed.
Originals(e) == {i \in DOMAIN shown : e.lesson # NoLesson /\ shown[i].id = e.lesson}
Template(e)  ==
  IF Originals(e) # {} THEN shown[CHOOSE i \in Originals(e) : \A j \in Originals(e) : i <= j]
  ELSE [id |-> e.lesson, title |-> e.title, begin |-> 0, end |-> 0, opens |-> 0, closes |-> 0]
Titled(e)    == NonBlank(e.title, Template(e).title)
Added(e)     ==
  LET from == Template(e)
  IN Entry([id |-> e.lesson, title |-> IF Titled(e) = 0 THEN Unnamed ELSE Titled(e),
            begin |-> Given(e.begin, from.begin), end |-> Given(e.end, from.end),
            opens |-> from.opens, closes |-> from.closes])

\* The place at the end of the list, behind every lesson there was.
End == Len(Timetable) + Len(applied) + 1

ApplyException(e) ==
  /\ phase = "exceptions" /\ Len(applied) < MaxExceptions
  /\ shown' = [i \in Left(e) \cup (IF e.kind = "CANCEL" THEN {} ELSE {End}) |-> IF i = End THEN Added(e) ELSE shown[i]]
  /\ applied' = Append(applied, e)
  /\ UNCHANGED <<calendarVars, phase>>

\* sort.SliceStable by begin and title: a lesson's new place is behind all that precede it.
Before(l, m)   == l.begin < m.begin \/ (l.begin = m.begin /\ l.title < m.title)
Precedes(i, j) == Before(shown[i], shown[j]) \/ (~Before(shown[j], shown[i]) /\ i < j)
Rank(i)        == Cardinality({j \in DOMAIN shown : Precedes(j, i)}) + 1
Sorted         == [n \in {Rank(i) : i \in DOMAIN shown} |-> shown[CHOOSE i \in DOMAIN shown : Rank(i) = n]]

FinishDigest ==
  /\ phase = "exceptions"
  /\ phase' = "ready" /\ shown' = Sorted
  /\ UNCHANGED <<calendarVars, applied>>

NextBriefing ==
  /\ phase \in {"idle", "ready"}
  /\ NextDay
  /\ phase' = "idle" /\ shown' = <<>> /\ applied' = <<>>

DigestNext ==
  \/ StartDigest \/ FinishDigest \/ NextBriefing
  \/ \E e \in Exceptions : ApplyException(e)

DigestSpec == DigestInit /\ [][DigestNext]_digestVars

-----------------------------------------------------------------------------
DigestTypeOK ==
  /\ CalendarTypeOK /\ phase \in {"idle", "exceptions", "ready"}
  /\ applied \in Seq(Exceptions) /\ DOMAIN shown \subseteq Nat \ {0}
  /\ \A i \in DOMAIN shown :
       /\ shown[i].title \in Nat \ {Blank} /\ shown[i].begin \in Int /\ shown[i].end \in Int /\ shown[i].begin < shown[i].end
       /\ shown[i].opens \in Nat /\ shown[i].closes \in Nat

Ids          == {Timetable[i].id : i \in DOMAIN Timetable} \cup {NoLesson}
About(id)    == {k \in DOMAIN applied : applied[k].lesson = id}
TakenOff(id) == {k \in About(id) : applied[k].kind # "MAKE_UP" /\ id # NoLesson}
AddedBy(id)  == {k \in About(id) : applied[k].kind # "CANCEL"}

HeldToday(id) == {i \in DOMAIN Timetable : Timetable[i].id = id /\ Held(Timetable[i])}
OnList(id)    == {i \in DOMAIN shown : shown[i].id = id}

\* An exception that adds a lesson and that no later one takes off again.
Lasting(id) == {k \in AddedBy(id) : \A j \in TakenOff(id) : j <= k}

\* As scheduled, while no exception has taken it off.
Scheduled(id) == IF TakenOff(id) = {} THEN HeldToday(id) ELSE {}

\* Titles that name nothing.
NoName == {0, Unnamed}

\* An exception that names nothing, about a lesson that was cancelled already or is not held that day.
Nameless(k, id) ==
  /\ Trim(applied[k].title) = 0
  /\ id = NoLesson \/ HeldToday(id) = {} \/ \E j \in TakenOff(id) : j < k /\ applied[j].kind = "CANCEL"

\* The document itself calls the lesson that.
CalledUnnamed(id) ==
  \/ \E i \in DOMAIN Timetable : Timetable[i].id = id /\ Timetable[i].title = Unnamed
  \/ \E k \in About(id) : applied[k].title = Unnamed

\* While the loop edits the list in place, a lesson is on it once for each exception that added it and
\* lasts, and as scheduled if it is held that day and was never taken off; and by its name, unless an
\* exception without one added it when it was cancelled already or is not held that day.  (Then the
\* exception alone is listed: a make-up class of another day, or one moved after it was cancelled, is
\* called Unnamed, or nothing at all if its title was all spaces.  A lesson that the document calls Unnamed has that for its name.)
DigestExplained ==
  phase # "idle" =>
    \A id \in Ids :
      /\ Cardinality(OnList(id)) = Cardinality(Lasting(id)) + Cardinality(Scheduled(id))
      /\ \A i \in OnList(id) : shown[i].title \in NoName =>
           CalledUnnamed(id) \/ \E k \in Lasting(id) : Nameless(k, id)

\* While the loop runs, that and where each lesson stands: a scheduled one at its place in the
\* timetable, one that an exception added at that of the exception; and a lesson that is gone was
\* cancelled, not moved.
ListFits(id) ==
  /\ OnList(id) = Scheduled(id) \cup {Len(Timetable) + k : k \in Lasting(id)}
  /\ ~CalledUnnamed(id) =>
       /\ \A i \in Scheduled(id) : shown[i].title \notin NoName
       /\ \A k \in Lasting(id) : shown[Len(Timetable) + k].title \in NoName => Nameless(k, id)
  /\ TakenOff(id) # {} /\ Lasting(id) = {} => \E j \in TakenOff(id) : applied[j].kind = "CANCEL"

DigestInv ==
  /\ DigestTypeOK /\ (phase = "ready" => DigestExplained)
  /\ phase = "idle" => shown = <<>> /\ applied = <<>>
  /\ phase = "exceptions" => DOMAIN shown \subseteq 1..(End - 1) /\ \A id \in Ids : ListFits(id)
=============================================================================
