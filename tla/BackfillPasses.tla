--------------------------- MODULE BackfillPasses ---------------------------
(***************************************************************************)
(* The scheduled passes that read one document per row and mark the row    *)
(* with a flag: backfill_us_financials.py, which walks the rows by id with *)
(* a cursor, and backfill_prospectus_financials.py and                     *)
(* backfill_india_rhp.py, which always begin with the latest listing.      *)
(***************************************************************************)
EXTENDS Integers, FiniteSets
LOCAL INSTANCE FiniteSetsExt
LOCAL INSTANCE Sequences
LOCAL INSTANCE SequencesExt

Scripts == {"by id", "latest first"}

CONSTANTS
  Ids,        \* rows, by the order the script takes them in
  PassLimit,  \* [script -> its --limit]
  MaxCuts     \* bound: passes that run out of time or die

ASSUME PassAssumption == Ids \subseteq Nat \ {0} /\ PassLimit \in [Scripts -> Nat \ {0}]

VARIABLES
  script,   \* the one this is a run of
  nature,   \* [Ids -> how its document answers]
  present,  \* rows there are so far
  marked,   \* rows with a flag of the script
  tried,    \* rows whose document was asked for
  cursor,   \* last_cursor
  queue,    \* the rest of the open pass's rows
  open, upTo, short,  \* the open pass: last row tried, fewer rows than its limit
  cuts

passesVars == <<script, nature, present, marked, tried, cursor, queue, open, upTo, short, cuts>>

\* "useful" and "empty" documents give their row a flag (only the first fill
\* its revenue); one that "fails", or is not published yet, leaves it as it was.
\* A "fatal" one raises what the two scripts "latest first" do not catch, such as
\* zipfile.BadZipFile, and pypdf's errors.
PassesInit ==
  /\ script \in Scripts
  /\ nature \in [Ids -> {"useful", "empty", "fails", "fatal"}]
  /\ \E r \in Ids : present = Ids \ {r} /\ (script = "by id" => r = Max(Ids))
  /\ marked = {} /\ tried = {}
  /\ cursor = 0 /\ queue = <<>> /\ open = FALSE /\ upTo = 0 /\ short = FALSE /\ cuts = 0

\* One more row is ingested, the last by its id, anywhere by its listing date.
AppearRow(r) ==
  /\ r \notin present
  /\ present' = present \cup {r}
  /\ UNCHANGED <<script, nature, marked, tried, cursor, queue, open, upTo, short, cuts>>

-----------------------------------------------------------------------------
Places == PassLimit[script]
InOrder(rs) == SetToSortSeq(rs, <)
Shortest(s, n) == SubSeq(s, 1, Min({n, Len(s)}))

\* The rows without revenue that follow the cursor, three times the limit.
Window ==
  Shortest(InOrder({r \in present : r > cursor /\ ~(r \in marked /\ nature[r] = "useful")}),
           3 * Places)

\* Mutant: marked rows are read again.
ChoiceAll == Shortest(IF script = "by id" THEN Window ELSE InOrder(present), Places)

\* candidates.
Choice ==
  Shortest(IF script = "by id" THEN SelectSeq(Window, LAMBDA r : r \notin marked)
           ELSE InOrder(present \ marked), Places)

OpenBackfill ==
  /\ ~open /\ open' = TRUE
  /\ queue' = Choice /\ short' = (Len(Choice) < Places) /\ upTo' = cursor
  /\ UNCHANGED <<script, nature, present, marked, tried, cursor, cuts>>

\* The rows process flags, whatever it finds.
Flagged(r) == nature[r] \in {"useful", "empty"}

Fatal(r) == script = "latest first" /\ nature[r] = "fatal"

\* process and its commit, or its rollback.
TryRow ==
  /\ queue # <<>> /\ ~Fatal(Head(queue))
  /\ LET r == Head(queue) IN
       /\ tried' = tried \cup {r} /\ upTo' = r
       /\ marked' = IF Flagged(r) THEN marked \cup {r} ELSE marked
  /\ queue' = Tail(queue)
  /\ UNCHANGED <<script, nature, present, cursor, open, short, cuts>>

\* The exception leaves run, and refresh_data rolls back: the pass is over, and
\* the next one comes to the same row.
DieAtRow ==
  /\ queue # <<>> /\ Fatal(Head(queue))
  /\ tried' = tried \cup {Head(queue)}
  /\ open' = FALSE /\ queue' = <<>>
  /\ UNCHANGED <<script, nature, present, marked, cursor, upTo, short, cuts>>

\* What the run's row says, as last_cursor reads it.
NextCursor(exhausted) == IF exhausted THEN 0 ELSE upTo

EndOfRows ==
  /\ open /\ queue = <<>>
  /\ open' = FALSE /\ cursor' = NextCursor(short)
  /\ UNCHANGED <<script, nature, present, marked, tried, queue, upTo, short, cuts>>

\* The time is up, or the script is killed and leaves no "ok" run.
CutShort ==
  /\ open /\ queue # <<>> /\ cuts < MaxCuts /\ cuts' = cuts + 1
  /\ open' = FALSE /\ queue' = <<>>
  /\ \E recorded \in BOOLEAN : cursor' = IF recorded THEN NextCursor(FALSE) ELSE cursor
  /\ UNCHANGED <<script, nature, present, marked, tried, upTo, short>>

PassesNext ==
  (\E r \in Ids : AppearRow(r)) \/ OpenBackfill \/ TryRow \/ DieAtRow \/ EndOfRows \/ CutShort

\* The workflow runs the scripts every day, and every download has a timeout.
PassesStep == OpenBackfill \/ TryRow \/ DieAtRow \/ EndOfRows
PassesSpec == PassesInit /\ [][PassesNext]_passesVars /\ WF_passesVars(PassesStep)

-----------------------------------------------------------------------------
\* Rows the next passes will see again at the head of their choice: those that
\* are never marked and, with the cursor, those marked without a revenue.
Stuck ==
  IF script = "by id" THEN {r \in Ids : nature[r] = "empty"}
  ELSE {r \in Ids : nature[r] = "fails"}

RoomLeft == Cardinality(Stuck) <= IF script = "by id" THEN 2 * Places ELSE Places - 1

\* Rows behind one that ends the run: no pass ever comes to them.
CutOff == {r \in present : \E q \in present : q < r /\ Fatal(q)}

\* Once a pass is open every row there is gets its turn, through passes that
\* fail, end early or die, as long as the stuck rows leave room for others and no
\* row ahead of it ends the run; the rows beyond such rows never have one.
EveryRowIsTried == (open /\ RoomLeft) ~> present \ CutOff \subseteq tried
=============================================================================
