----------------------------- MODULE Supervisor -----------------------------
(***************************************************************************)
(* How activity on GitHub becomes tickets and turns: the supervisor's tick *)
(* (apps/desktop/src-tauri/src/pipeline.rs) over one source, its poll      *)
(* (crates/openbad-pipeline/src/source.rs) and read position (cursor.rs).  *)
(*                                                                         *)
(* A tick reads the position, asks for three feeds one request after the   *)
(* other, judges what is new one trigger at a time and saves the position  *)
(* when all of it was handled.  Two ticks may be under way: a watcher's    *)
(* and one a person asks for in the panel.  Meanwhile people and bots      *)
(* write, and the executor (module Executor) begins and ends turns.        *)
(*                                                                         *)
(* An action is one request or one lock section.  Time is the provider's   *)
(* and the app's alike, in units within which order is not told apart.     *)
(***************************************************************************)
EXTENDS Admission, FiniteSets, Sequences

CONSTANTS
  Issues, Pulls,  \* threads: issues, and pull requests
  Comments, Reviews,  \* messages; a review is written on a pull request
  Ticks,          \* identities for ticks under way at the same time
  Watcher,        \* the one of them that starts again and again
  Authors,        \* who may open an issue, and write a message
  Overlap,        \* WATERMARK_OVERLAP_MS
  PollTime,       \* how long a poll may take from first to last request
  Page,           \* per_page of every feed
  Listed,         \* MAX_PULL_REQUESTS
  Remembered,     \* MAX_REMEMBERED_TRIGGERS
  MaxTime,        \* time ends here (bounds the model)
  Faults,         \* what may go wrong: a subset of {"crash", "feed"}
  NoPull

ASSUME ConstantsAssumption ==
  /\ Issues \cap Pulls = {}
  /\ Issues \cap (Comments \cup Reviews) = {}
  /\ Comments \cap Reviews = {}
  /\ IsFiniteSet(Issues \cup Comments \cup Reviews) /\ IsFiniteSet(Pulls)
  /\ Watcher \in Ticks
  /\ \A g \in Issues \cup Comments \cup Reviews : Authors[g] \subseteq Actor
  /\ Overlap \in Nat /\ PollTime \in Nat /\ MaxTime \in Nat \ {0}
  /\ Page \in Nat \ {0} /\ Listed \in Nat \ {0} /\ Remembered \in Nat
  /\ Faults \subseteq {"crash", "feed"}
  /\ NoPull \notin Issues \cup Pulls

Messages == Comments \cup Reviews
Threads  == Issues \cup Pulls
Triggers == Issues \cup Messages   \* an issue's admission, or a message
Times    == 0 .. MaxTime
Work     == {"none", "launched", "pending", "running", "stranded"}
TickStep == {"idle", "issues", "comments", "reviews", "judging",
             "admitting", "waking"}

VARIABLES
  now,
  author,    \* GitHub: who opened a labelled issue or wrote a message
  message,   \* GitHub: what was written, at time Never before it is
  touched,   \* GitHub: updated_at of a thread, Never before it is opened
  ticket,    \* row: state of the ticket a trigger created
  opened,    \* rows: those triggers in the order of created_at
  work,      \* rows: the ticket's active assignment
  begun,     \* when the turn under way began
  spoke,     \* rows: when its newest turn ended, MAX(ended_at)
  pull,      \* the pull request the ticket's branch opened
  resumed,   \* setting pipeline.retry.<ticket>, with one attempt allowed
  cursor,    \* row: the saved position
  tick,      \* ticks under way
  judged,    \* triggers some tick has handled
  reached,   \* messages since which a turn on their thread was attempted
  woken      \* which triggers gave an assignment to which tickets

github == <<author, message, touched>>
turns  == <<work, begun, spoke, pull, resumed, reached>>
vars   == <<now, github, ticket, opened, turns, cursor, tick, judged, woken>>

Unwritten == [thread |-> NoPull, at |-> Never, found |-> "none"]
Start     == [watermark |-> 0, emitted |-> <<>>]
IdleTick  == [step |-> "idle", asked |-> 0, since |-> 0, position |-> Start,
              batch |-> <<>>]

-----------------------------------------------------------------------------
(* Reading GitHub and the rows.                                             *)

Bigger(a, b) == IF a >= b THEN a ELSE b

IsWritten(g) == author[g] # "none"

ThreadOf(g) == IF g \in Issues THEN g ELSE message[g].thread
KindOf(g)   == IF g \in Issues THEN "issue" ELSE "message"

(* A trigger's at_ms, and what its feed selects it by.                      *)
At(g) == IF g \in Issues THEN touched[g] ELSE message[g].at

IsActive(g) == work[g] # "none"

Existing == {x \in Pulls : touched[x] # Never}

(* The tickets on a thread, and the newest of them by created_at.           *)
TicketsOn(x) == {g \in Triggers : ticket[g] # "absent" /\ ThreadOf(g) = x}
IsNewest(g, x) ==
  \E i \in DOMAIN opened :
    /\ opened[i] = g
    /\ g \in TicketsOn(x)
    /\ \A j \in DOMAIN opened : opened[j] \in TicketsOn(x) => j <= i
IsLive(g, x) == g \in TicketsOn(x) /\ ticket[g] = "open"

(* pipeline_thread_context, and spoke_at of the thread's newest ticket.     *)
ThreadContext(x) ==
  IF TicketsOn(x) = {} THEN [state |-> "none", spoke |-> Never]
  ELSE LET g == CHOOSE h \in Triggers : IsNewest(h, x)
       IN  [state |-> ticket[g], spoke |-> spoke[g]]

-----------------------------------------------------------------------------
(* The read position.                                                       *)

MutantNoOverlap(c) == c.watermark
Since(c) == Bigger(c.watermark - Overlap, 0)

(* The newest of what was emitted; the rest is drained from the front.      *)
MutantNeverForgets(s) == s
Recent(s) == IF Len(s) > Remembered
             THEN SubSeq(s, Len(s) - Remembered + 1, Len(s)) ELSE s

(* Whether the position remembers g after the first n of s were taken in.   *)
Remembers(c, s, n, g) ==
  \E i \in DOMAIN Recent(c.emitted \o SubSeq(s, 1, n)) :
    Recent(c.emitted \o SubSeq(s, 1, n))[i] = g

(* A response that lists the oldest first may have g after the first n of s.*)
InPlace(s, n, g) == /\ \A i \in 1 .. n : At(s[i]) <= At(g)
                    /\ \A i \in n + 1 .. Len(s) : At(g) <= At(s[i])

(* The orders of a set, and what accept() for one trigger after the other   *)
(* may take in of a page, itself sorted or in any order: what is dropped is *)
(* remembered at its place, while older triggers are being forgotten.       *)
Orders(S) == {s \in [1 .. Cardinality(S) -> S] :
                \A g \in S : \E i \in DOMAIN s : s[i] = g}
Accepted(c, page, sorted) ==
  {s \in UNION {Orders(S) : S \in SUBSET page} :
     /\ \A i \in DOMAIN s : /\ ~Remembers(c, s, i - 1, s[i])
                            /\ sorted => InPlace(s, i - 1, s[i])
     /\ \A g \in page : \/ \E i \in DOMAIN s : s[i] = g
                        \/ \E n \in 0 .. Len(s) : /\ Remembers(c, s, n, g)
                                                  /\ sorted => InPlace(s, n, g)}

(* The first page of a feed, oldest first.                                  *)
FirstPages(S) ==
  {P \in SUBSET S :
     /\ Cardinality(P) = IF Cardinality(S) < Page THEN Cardinality(S) ELSE Page
     /\ \A g \in P, h \in S \ P : At(g) <= At(h)}

(* What the position has after it.                                          *)
Taken(c, s) ==
  [watermark |-> CHOOSE w \in {c.watermark} \cup {At(s[i]) : i \in DOMAIN s} :
                   /\ w >= c.watermark
                   /\ \A i \in DOMAIN s : w >= At(s[i]),
   emitted   |-> Recent(c.emitted \o s)]

-----------------------------------------------------------------------------
(* GitHub and the executor.                                                 *)

(* A tick acts on a verdict, or is about to ask again, within a unit.       *)
Advance ==
  /\ now < MaxTime
  /\ \A p \in Ticks :
       /\ tick[p].step \notin {"admitting", "waking"}
       /\ tick[p].step \in {"issues", "comments", "reviews"} =>
            now < tick[p].asked + PollTime
  /\ now' = now + 1
  /\ UNCHANGED <<github, ticket, opened, turns, cursor, tick, judged, woken>>

(* An issue is given the admitting label.                                   *)
Label(x, by) ==
  /\ ~IsWritten(x)
  /\ author' = [author EXCEPT ![x] = by]
  /\ touched' = [touched EXCEPT ![x] = now]
  /\ UNCHANGED <<now, message, ticket, opened, turns, cursor, tick, judged,
                 woken>>

(* A pull request is opened, pushed to or labelled, by a turn or by anybody.*)
TouchPull(x) ==
  /\ touched' = [touched EXCEPT ![x] = now]
  /\ UNCHANGED <<now, author, message, ticket, opened, turns, cursor, tick,
                 judged, woken>>

(* What a message finds on its thread: no ticket, or one whose last turn    *)
(* ended in this very unit ("none"), a ticket with an assignment ("busy"),  *)
(* or one that has none ("quiet").                                          *)
Found(x) ==
  IF TicketsOn(x) = {} THEN "none"
  ELSE LET g == CHOOSE h \in Triggers : IsNewest(h, x)
       IN  IF IsActive(g) THEN "busy"
           ELSE IF now > spoke[g] THEN "quiet" ELSE "none"

(* The executor writes only during its own turn, on its ticket's thread or  *)
(* its pull request; anybody else on any of them.                           *)
MayWrite(m, x, by) ==
  /\ \/ m \in Comments /\ x \in Issues
     \/ x \in Existing
  /\ by \in {"self", "executor"} =>
       \E g \in Triggers : work[g] = "running" /\ x \in {ThreadOf(g), pull[g]}

Post(m, x, by) ==
  /\ ~IsWritten(m) /\ MayWrite(m, x, by)
  /\ author' = [author EXCEPT ![m] = by]
  /\ message' = [message EXCEPT ![m] =
                   [thread |-> x, at |-> now, found |-> Found(x)]]
  /\ touched' = [touched EXCEPT ![x] = now]
  /\ UNCHANGED <<now, ticket, opened, turns, cursor, tick, judged, woken>>

(* launch: an open ticket nobody works on is given a pending assignment, on *)
(* which preparing its worktree may yet fail.                               *)
Launch(g) ==
  /\ ticket[g] = "open" /\ ~IsActive(g)
  /\ work' = [work EXCEPT ![g] = "launched"]
  /\ UNCHANGED <<now, github, ticket, opened, begun, spoke, pull, resumed,
                 reached, cursor, tick, judged, woken>>

(* resume_unfinished: an ended ticket whose pull request is still open is   *)
(* reopened, unless the thread has a live one by now (a unique index), and  *)
(* given an assignment.                                                     *)
Resume(g) ==
  /\ ticket[g] = "ended" /\ pull[g] # NoPull /\ g \notin resumed
  /\ \A h \in Triggers : ~IsLive(h, ThreadOf(g))
  /\ ticket' = [ticket EXCEPT ![g] = "open"]
  /\ work' = [work EXCEPT ![g] = IF IsActive(g) THEN @ ELSE "pending"]
  /\ resumed' = resumed \cup {g}
  /\ UNCHANGED <<now, github, opened, begun, spoke, pull, reached, cursor,
                 tick, judged, woken>>

(* A turn is attempted: it sees what is written on its thread, or a report  *)
(* says that it could not be.                                               *)
Reaches(g) ==
  reached' = reached \cup {m \in Messages : IsWritten(m)
                                            /\ ThreadOf(m) = ThreadOf(g)}

BeginTurn(g) ==
  /\ work[g] \in {"launched", "pending"}
  /\ work' = [work EXCEPT ![g] = "running"]
  /\ begun' = [begun EXCEPT ![g] = now]
  /\ Reaches(g)
  /\ UNCHANGED <<now, github, ticket, opened, spoke, pull, resumed, cursor,
                 tick, judged, woken>>

(* A turn takes longer than a tick takes to act on a verdict.  Its report   *)
(* may end the ticket, and its branch may have a pull request by then.      *)
FinishTurn(g, outcome, p) ==
  /\ work[g] = "running" /\ begun[g] < now
  /\ \/ p = pull[g]
     \/ pull[g] = NoPull /\ p \in Existing /\ \A h \in Triggers : pull[h] # p
  /\ work' = [work EXCEPT ![g] = "none"]
  /\ begun' = [begun EXCEPT ![g] = Never]
  /\ spoke' = [spoke EXCEPT ![g] = now]
  /\ pull' = [pull EXCEPT ![g] = p]
  /\ ticket' = [ticket EXCEPT ![g] = outcome]
  /\ UNCHANGED <<now, github, opened, resumed, reached, cursor, tick, judged,
                 woken>>

(* The worktree cannot be prepared: the report of it ends the assignment    *)
(* and the ticket, and shows the person why.                                *)
PrepareFails(g) ==
  /\ work[g] = "launched"
  /\ work' = [work EXCEPT ![g] = "none"]
  /\ spoke' = [spoke EXCEPT ![g] = now]
  /\ ticket' = [ticket EXCEPT ![g] = "ended"]
  /\ Reaches(g)
  /\ UNCHANGED <<now, github, opened, begun, pull, resumed, cursor, tick, judged,
                 woken>>

-----------------------------------------------------------------------------
(* A tick.                                                                  *)

StartTick(p) ==
  /\ tick[p].step = "idle"
  /\ tick' = [tick EXCEPT ![p] =
       [step |-> "issues", asked |-> now, since |-> Since(cursor),
        position |-> cursor, batch |-> <<>>]]
  /\ UNCHANGED <<now, github, ticket, opened, turns, cursor, judged, woken>>

(* What the source's own filters leave of a response: nothing its bot       *)
(* wrote, and nothing emitted before.  It joins the batch.                  *)
Fresh(p, page, sorted) ==
  Accepted(tick[p].position, {g \in page : ~IsOwnBot(author[g])}, sorted)

TakeIn(p, s, next) ==
  /\ tick' = [tick EXCEPT ![p].step = next,
                          ![p].position = Taken(@, s),
                          ![p].batch = @ \o s]
  /\ UNCHANGED <<now, github, ticket, opened, turns, cursor, judged, woken>>

(* Issues with an admitting label, and comments, updated since.             *)
ReadIssues(p) ==
  /\ tick[p].step = "issues"
  /\ \E page \in FirstPages({x \in Issues : /\ IsWritten(x)
                                            /\ At(x) >= tick[p].since}) :
     \E s \in Fresh(p, page, TRUE) : TakeIn(p, s, "comments")

ReadComments(p) ==
  /\ tick[p].step = "comments"
  /\ \E page \in FirstPages({m \in Comments : /\ IsWritten(m)
                                              /\ At(m) >= tick[p].since}) :
     \E s \in Fresh(p, page, TRUE) : TakeIn(p, s, "reviews")

(* The listing of pull requests: so many, the last updated of them all.     *)
Listings ==
  {P \in SUBSET Existing :
     /\ Cardinality(P) = IF Cardinality(Existing) < Listed
                         THEN Cardinality(Existing) ELSE Listed
     /\ \A x \in P, y \in Existing \ P : touched[x] >= touched[y]}

(* The reviews of the listed pull requests touched since, whatever the age  *)
(* of a review, in whatever order the pull requests are visited.            *)
ReviewsOf(x) == {m \in Reviews : ThreadOf(m) = x}
Reviewed(p) == {x \in Existing : touched[x] >= tick[p].since}
ReadReviews(p) ==
  /\ tick[p].step = "reviews"
  /\ \E P \in Listings :
     \E page \in SUBSET UNION {ReviewsOf(x) : x \in P \cap Reviewed(p)} :
       /\ \A x \in P \cap Reviewed(p) :
            page \cap ReviewsOf(x) \in FirstPages(ReviewsOf(x))
       /\ \E s \in Fresh(p, page, FALSE) : TakeIn(p, s, "judging")

(* A request fails: nothing of the poll is kept.                            *)
PollFails(p) ==
  /\ "feed" \in Faults
  /\ tick[p].step \in {"issues", "comments", "reviews"}
  /\ tick' = [tick EXCEPT ![p] = IdleTick]
  /\ UNCHANGED <<now, github, ticket, opened, turns, cursor, judged, woken>>

(* The next trigger was handled, and the tick goes on to the one after it.  *)
Handled(p) ==
  /\ judged' = judged \cup {Head(tick[p].batch)}
  /\ tick' = [tick EXCEPT ![p].step = "judging", ![p].batch = Tail(@)]

NextTrigger(p) == Head(tick[p].batch)
Verdict(g) == Judge(KindOf(g), author[g], At(g), ThreadContext(ThreadOf(g)))

(* thread_context takes the lock and lets it go: the verdict is acted on    *)
(* under another one.                                                       *)
Ignore(p) ==
  /\ tick[p].step = "judging" /\ tick[p].batch # <<>>
  /\ Verdict(NextTrigger(p)) = "ignore"
  /\ Handled(p)
  /\ UNCHANGED <<now, github, ticket, opened, turns, cursor, woken>>

Decide(p) ==
  /\ tick[p].step = "judging" /\ tick[p].batch # <<>>
  /\ Verdict(NextTrigger(p)) # "ignore"
  /\ tick' = [tick EXCEPT ![p].step =
       IF Verdict(NextTrigger(p)) = "accept" THEN "admitting" ELSE "waking"]
  /\ UNCHANGED <<now, github, ticket, opened, turns, cursor, judged, woken>>

(* create_ticket: the ticket this trigger created before, or a new one.     *)
Admit(p) ==
  LET g == NextTrigger(p) IN
  /\ tick[p].step = "admitting"
  /\ \/ /\ ticket[g] # "absent"
        /\ UNCHANGED <<ticket, opened>>
     \/ /\ ticket[g] = "absent"
        /\ \A h \in Triggers : ~IsLive(h, ThreadOf(g))
        /\ ticket' = [ticket EXCEPT ![g] = "open"]
        /\ opened' = Append(opened, g)
  /\ Handled(p)
  /\ UNCHANGED <<now, github, turns, cursor, woken>>

(* Another ticket is live on the thread: a conflict, and the tick is over   *)
(* with nothing saved.                                                      *)
MutantSavesOnConflict(p) ==
  LET g == NextTrigger(p) IN
  /\ tick[p].step = "admitting"
  /\ ticket[g] = "absent"
  /\ \E h \in Triggers : IsLive(h, ThreadOf(g))
  /\ cursor' = tick[p].position
  /\ tick' = [tick EXCEPT ![p] = IdleTick]
  /\ UNCHANGED <<now, github, ticket, opened, turns, judged, woken>>
AdmitConflicts(p) ==
  LET g == NextTrigger(p) IN
  /\ tick[p].step = "admitting"
  /\ ticket[g] = "absent"
  /\ \E h \in Triggers : IsLive(h, ThreadOf(g))
  /\ tick' = [tick EXCEPT ![p] = IdleTick]
  /\ UNCHANGED <<now, github, ticket, opened, turns, cursor, judged, woken>>

(* The ticket a message wakes: the live one, or else the newest, reopened.  *)
IsWoken(g, x) ==
  \/ IsLive(g, x)
  \/ IsNewest(g, x) /\ \A h \in Triggers : ~IsLive(h, x)

(* wake: the ticket keeps the assignment it has, or is given one.           *)
MutantOnlyReopens(p, g) ==
  /\ tick[p].step = "waking"
  /\ IsWoken(g, ThreadOf(NextTrigger(p)))
  /\ ticket' = [ticket EXCEPT ![g] = "open"]
  /\ IF IsActive(g) \/ ticket[g] = "ended" THEN UNCHANGED <<work, woken>>
     ELSE /\ work' = [work EXCEPT ![g] = "pending"]
          /\ woken' = woken \cup {<<NextTrigger(p), g>>}
  /\ Handled(p)
  /\ UNCHANGED <<now, github, opened, begun, spoke, pull, resumed, reached,
                 cursor>>
Wake(p, g) ==
  /\ tick[p].step = "waking"
  /\ IsWoken(g, ThreadOf(NextTrigger(p)))
  /\ ticket' = [ticket EXCEPT ![g] = "open"]
  /\ IF IsActive(g) THEN UNCHANGED <<work, woken>>
     ELSE /\ work' = [work EXCEPT ![g] = "pending"]
          /\ woken' = woken \cup {<<NextTrigger(p), g>>}
  /\ Handled(p)
  /\ UNCHANGED <<now, github, opened, begun, spoke, pull, resumed, reached,
                 cursor>>

(* Every trigger of the batch was handled.                                  *)
MutantSavesHalfway(p) ==
  /\ tick[p].step = "judging"
  /\ cursor' = tick[p].position
  /\ tick' = [tick EXCEPT ![p] = IdleTick]
  /\ UNCHANGED <<now, github, ticket, opened, turns, judged, woken>>
SavePosition(p) ==
  /\ tick[p].step = "judging" /\ tick[p].batch = <<>>
  /\ cursor' = tick[p].position
  /\ tick' = [tick EXCEPT ![p] = IdleTick]
  /\ UNCHANGED <<now, github, ticket, opened, turns, judged, woken>>

(* The app goes down.  Rows stay: a running assignment with nobody at it, a *)
(* pending one with nobody left to prepare for it.                          *)
Crashes ==
  /\ "crash" \in Faults
  /\ tick' = [p \in Ticks |-> IdleTick]
  /\ work' = [g \in Triggers |->
                CASE work[g] = "running"  -> "stranded"
                  [] work[g] = "launched" -> "pending"
                  [] OTHER                -> work[g]]
  /\ begun' = [g \in Triggers |-> Never]
  /\ UNCHANGED <<now, github, opened, spoke, pull, resumed, reached, cursor,
                 judged, woken>>

Crash == Crashes /\ UNCHANGED ticket

(* ... between the two commits of wake.                                     *)
CrashWhileWaking(p, g) ==
  /\ tick[p].step = "waking"
  /\ IsWoken(g, ThreadOf(NextTrigger(p))) /\ ticket[g] = "ended"
  /\ ticket' = [ticket EXCEPT ![g] = "open"]
  /\ Crashes

-----------------------------------------------------------------------------

Init ==
  /\ now = 1
  /\ author = [g \in Triggers |-> "none"]
  /\ message = [m \in Messages |-> Unwritten]
  /\ touched = [x \in Threads |-> Never]
  /\ ticket = [g \in Triggers |-> "absent"]
  /\ opened = <<>>
  /\ work = [g \in Triggers |-> "none"]
  /\ begun = [g \in Triggers |-> Never]
  /\ spoke = [g \in Triggers |-> Never]
  /\ pull = [g \in Triggers |-> NoPull]
  /\ cursor = Start
  /\ tick = [p \in Ticks |-> IdleTick]
  /\ judged = {} /\ reached = {} /\ resumed = {}
  /\ woken = {}

GitHubNext ==
  \/ \E x \in Issues : \E by \in Authors[x] : Label(x, by)
  \/ \E x \in Pulls : TouchPull(x)
  \/ \E m \in Messages, x \in Threads : \E by \in Authors[m] : Post(m, x, by)

ExecutorNext ==
  \E g \in Triggers :
    \/ Launch(g) \/ Resume(g) \/ BeginTurn(g) \/ PrepareFails(g)
    \/ \E outcome \in {"open", "ended"}, p \in Pulls \cup {NoPull} :
         FinishTurn(g, outcome, p)

TickNext(p) ==
  \/ StartTick(p)
  \/ ReadIssues(p) \/ ReadComments(p) \/ ReadReviews(p) \/ PollFails(p)
  \/ Ignore(p) \/ Decide(p)
  \/ Admit(p) \/ AdmitConflicts(p)
  \/ \E g \in Triggers : Wake(p, g)
  \/ SavePosition(p)

Next ==
  \/ Advance \/ GitHubNext \/ ExecutorNext
  \/ \E p \in Ticks : TickNext(p)
  \/ Crash
  \/ \E p \in Ticks, g \in Triggers : CrashWhileWaking(p, g)

Spec == Init /\ [][Next]_vars

(* A watcher polls on every pass.  A request that is repeated forever is    *)
(* answered at some time, and the app is not always down before a tick got  *)
(* any further.                                                             *)
Fairness ==
  /\ WF_vars(StartTick(Watcher))
  /\ SF_vars(ReadIssues(Watcher))
  /\ SF_vars(ReadComments(Watcher))
  /\ SF_vars(ReadReviews(Watcher))
  /\ SF_vars(Ignore(Watcher) \/ Decide(Watcher))
  /\ SF_vars(Admit(Watcher) \/ AdmitConflicts(Watcher))
  /\ SF_vars(\E g \in Triggers : Wake(Watcher, g))
  /\ SF_vars(SavePosition(Watcher))

FairSpec == Spec /\ Fairness
-----------------------------------------------------------------------------
(* Properties.                                                              *)

Positions == [watermark : Times, emitted : Seq(Triggers)]

(* The variables keep their types, a position remembers no more triggers    *)
(* than it may, and the rows of a ticket agree: an assignment is of a       *)
(* ticket, and an active turn's ticket has begun.                           *)
TypeOK ==
  /\ now \in Times
  /\ author \in [Triggers -> Actor \cup {"none"}]
  /\ message \in [Messages ->
       [thread : Threads \cup {NoPull}, at : Times,
        found : {"none", "busy", "quiet"}]]
  /\ touched \in [Threads -> Times]
  /\ ticket \in [Triggers -> {"absent", "open", "ended"}]
  /\ opened \in Seq(Triggers)
  /\ work \in [Triggers -> Work]
  /\ begun \in [Triggers -> Times] /\ spoke \in [Triggers -> Times]
  /\ pull \in [Triggers -> Pulls \cup {NoPull}]
  /\ cursor \in Positions /\ Len(cursor.emitted) <= Remembered
  /\ tick \in [Ticks -> [step : TickStep, asked : Times, since : Times,
                         position : Positions, batch : Seq(Triggers)]]
  /\ judged \subseteq Triggers /\ resumed \subseteq Triggers
  /\ reached \subseteq Messages
  /\ woken \subseteq Triggers \X Triggers

(* What the supervisor is to look at: everything but its own bot's words.   *)
IsVisible(g) == IsWritten(g) /\ ~IsOwnBot(author[g])

(* The saved position never reads past an event nobody handled: what the    *)
(* feeds would no longer list has been judged.  The watermark is shared by  *)
(* three requests made at different times, by two ticks that overwrite each *)
(* other's position, and by ticks that end half way.                        *)
NothingPassedOver ==
  \A g \in Triggers :
    IsVisible(g) /\ At(g) < Since(cursor) => g \in judged

(* It holds while whoever reads the reviews has no more pull requests to    *)
(* read them of than a listing has: the rest of them is never asked for.    *)
PullsFit ==
  \A p \in Ticks : tick[p].step = "reviews" => Cardinality(Reviewed(p)) <= Listed

(* ... and what the position remembers as emitted was handled, so that      *)
(* dropping it as a duplicate loses nothing.                                *)
EmittedWasHandled ==
  \A i \in DOMAIN cursor.emitted : cursor.emitted[i] \in judged

(* A turn was attempted since the message was written, or some assignment   *)
(* on the thread is active.                                                 *)
IsServed(m) ==
  m \in reached \/ \E g \in TicketsOn(ThreadOf(m)) : IsActive(g)

(* A person's message on a thread whose ticket was at rest reaches a turn:  *)
(* once judged, some turn on the thread has begun since it was written, or  *)
(* an assignment is active.                                                 *)
RepliesAreServed ==
  \A m \in judged \cap Messages :
    author[m] = "person" /\ message[m].found = "quiet" => IsServed(m)

(* What the executor wrote on its own issue, under the person's identity,   *)
(* is no new input once its turn is over.                                   *)
OwnOutputIsIgnored ==
  \A m \in Messages, g \in Triggers :
    /\ author[m] = "executor" /\ IsWritten(m) /\ ThreadOf(m) \in Issues
    /\ TicketsOn(ThreadOf(m)) = {g} /\ ~IsActive(g)
    => Verdict(m) = "ignore"

(* A person's message that woke a ticket does not wake it again once that   *)
(* assignment is over, though a crash before the position was saved, the    *)
(* other tick, or a position that forgot it may have it judged once more.   *)
(* (A bot's message does: rule 4 of the admission comes before rule 7.)     *)
WokenIsSpent ==
  \A m \in Messages, g \in Triggers :
    /\ <<m, g>> \in woken /\ ~IsBotKnown(author[m])
    /\ IsNewest(g, ThreadOf(m)) /\ ~IsActive(g)
    => Verdict(m) = "ignore"

(* A tick cannot get past a trigger that would be accepted while another    *)
(* one's ticket is live on its thread.                                      *)
IsStuck ==
  \E g \in Triggers :
    /\ IsVisible(g) /\ ticket[g] = "absent"
    /\ Verdict(g) = "accept"
    /\ \E h \in Triggers : IsLive(h, ThreadOf(g))

(* Whatever is written is judged at some time, unless a tick is stuck.      *)
EventsAreJudged ==
  \A g \in Triggers : IsVisible(g) ~> (g \in judged \/ IsStuck)
=============================================================================
