------------------------------- MODULE AsyncLog -------------------------------
(***************************************************************************)
(* NKLog::AsyncLog: lines are queued by the threads that write them and    *)
(* brought to the devices by the log thread, which the first line starts.  *)
(* The destructor joins the log thread and flushes what is left.  The      *)
(* devices are those of NKEngineLog, in the order it registers them: the   *)
(* DailyFileLog of every NKLogger, which opens a new file when the day of  *)
(* the year has changed, and a ConsoleLog, which can be turned off.        *)
(***************************************************************************)
EXTENDS Naturals, Sequences

CONSTANTS
    Threads,    \* the threads that write
    Lines,      \* the lines, each written once
    Infos,      \* those of them that are written as LAYOUT_INFO
    MaxDay,     \* bound of the model: the last day
    DayOfYear,  \* tm_yday of each day; days a year apart have the same
    MayFail     \* whether a file may fail to open, or a write to it

ASSUME LogAssumption ==
    /\ MaxDay \in Nat \ {0} /\ DayOfYear \in [1 .. MaxDay -> Nat]
    /\ MayFail \in BOOLEAN /\ Infos \subseteq Lines

VARIABLES
    queue,      \* AsyncLog::_logdata_queue
    started,    \* AsyncLog::_start_thread
    pc,         \* where each thread is in write
    run,        \* NKThread::_run of the log thread
    thread,     \* where the log thread is
    phase,      \* of the destructor
    at,         \* where each reader is in onRun
    chain,      \* the nodes it holds
    since,      \* the day it began its line
    day,        \* the day
    created,    \* DailyFileLog::_last_creation_time
    file,       \* the day of the file that is open, or 0
    bad,        \* whether its stream has failed
    console,    \* the layouts that pass the _layout_set and _category_set of ConsoleLog
    arrived,    \* history: the lines in the order of their pushes
    written,    \* history: the lines the file device got: when, and to which file
    shown,      \* history: the lines on the console
    hushed      \* history: the lines queued with the console turned off for them

vars == <<queue, started, pc, run, thread, phase, at, chain, since,
          day, created, file, bad, console, arrived, written, shown, hushed>>

\* onRun is called by the log thread's loop and by flush in the destructor.
Readers == {"thread", "flush"}

logVars == <<queue, arrived, hushed, started, pc>>
threadVars == <<run, thread, phase>>
fileVars == <<day, created, file, bad>>
consoleVars == <<console, shown>>

Layouts == {"error", "info"}
LayoutOf(l) == IF l \in Infos THEN "info" ELSE "error"

Elements(s) == {s[i] : i \in DOMAIN s}

\* NKEngineLog's ConsoleLogger registers every layout.
ConsoleInit == console = Layouts /\ shown = <<>> /\ hushed = {}

\* AsyncLog and the devices of NKEngineLog, when its constructor is through
Init ==
    /\ queue = <<>> /\ started = FALSE
    /\ pc = [t \in Threads |-> "idle"]
    /\ run = FALSE /\ thread = "none"
    /\ phase = "open"
    /\ at = [r \in Readers |-> "idle"]
    /\ chain = [r \in Readers |-> <<>>]
    /\ since = [r \in Readers |-> 1]
    /\ day = 1 /\ created = 1 /\ file = 1 /\ bad = FALSE
    /\ ConsoleInit
    /\ arrived = <<>> /\ written = <<>>

-------------------------------------------------------------------------------
\* AsyncLog::write: the push
Enqueue(t, l) ==
    /\ pc[t] = "idle" /\ l \notin Elements(arrived)
    /\ queue' = Append(queue, l) /\ arrived' = Append(arrived, l)
    /\ hushed' = IF LayoutOf(l) \in console THEN hushed ELSE hushed \cup {l}
    /\ pc' = [pc EXCEPT ![t] = "start"]
    /\ UNCHANGED <<started, threadVars, at, chain, since, fileVars, consoleVars, written>>

\* NKLogger::write.  Nobody writes once the log is being destroyed.
Push(t, l) == phase = "open" /\ Enqueue(t, l)

\* Mutation of Exchange: expected and desired are swapped.
ExchangeNever(t) ==
    /\ pc[t] = "start"
    /\ pc' = [pc EXCEPT ![t] = IF started THEN "create" ELSE "idle"]
    /\ UNCHANGED <<queue, arrived, hushed, started, threadVars, at, chain, since, fileVars,
                  consoleVars, written>>

\* compare_exchange_strong of _start_thread
Exchange(t) ==
    /\ pc[t] = "start"
    /\ started' = TRUE
    /\ pc' = [pc EXCEPT ![t] = IF started THEN "idle" ELSE "create"]
    /\ UNCHANGED <<queue, arrived, hushed, threadVars, at, chain, since, fileVars,
                  consoleVars, written>>

\* NKThread::create
Create(t) ==
    /\ pc[t] = "create"
    /\ run' = TRUE /\ thread' = "top"
    /\ pc' = [pc EXCEPT ![t] = "idle"]
    /\ UNCHANGED <<queue, arrived, hushed, started, phase, at, chain, since, fileVars,
                  consoleVars, written>>

Write(t) == Exchange(t) \/ Create(t)

-------------------------------------------------------------------------------
\* LogThread::onRun: popQueue, and its early return after a sleep.
Pop(r) ==
    /\ at[r] = "pop"
    /\ chain' = [chain EXCEPT ![r] = queue] /\ queue' = <<>>
    /\ at' = [at EXCEPT ![r] = IF queue = <<>> THEN "done" ELSE "check"]
    /\ UNCHANGED <<arrived, hushed, started, pc, threadVars, since, fileVars,
                  consoleVars, written>>

\* Mutation of Check: the date is never looked at.
CheckNot(r) ==
    /\ at[r] = "check"
    /\ since' = [since EXCEPT ![r] = day]
    /\ at' = [at EXCEPT ![r] = "write"]
    /\ UNCHANGED <<logVars, threadVars, chain, fileVars, consoleVars, written>>

\* A line on its way through writeDeviceDetails to DailyFileLog::onWrite, which
\* compares the day of the year with that of the last creation, and no more.
Check(r) ==
    /\ at[r] = "check"
    /\ since' = [since EXCEPT ![r] = day]
    /\ at' = [at EXCEPT ![r] = IF DayOfYear[created] # DayOfYear[day] THEN "create" ELSE "write"]
    /\ UNCHANGED <<logVars, threadVars, chain, fileVars, consoleVars, written>>

\* close and DailyFileLog::create, which asks for the time itself, and keeps it
\* even if the file does not open.
CreateFile(r) ==
    /\ at[r] = "create"
    /\ created' = day
    /\ file' \in {day} \cup (IF MayFail THEN {0} ELSE {})
    /\ bad' = FALSE
    /\ at' = [at EXCEPT ![r] = "write"]
    /\ UNCHANGED <<logVars, threadVars, chain, since, day, consoleVars, written>>

\* Mutation of Passes: the layout and the category are not looked at.
PassesAlways(l) == TRUE

\* LogDevice::write of the console
Passes(l) == LayoutOf(l) \in console

\* ConsoleLog::onWrite
Show(l) == shown' = IF Passes(l) THEN Append(shown, l) ELSE shown

\* Mutation of ErrorHandling: the stream is not cleared, and takes nothing.
ErrorHandlingUncleared(able) == FALSE

\* errorHandling clears the stream and writes the line as numbers: it is there
\* if the system is able to write again.
ErrorHandling(able) == able

\* FileLog::onWrite; a stream that has failed takes no text.
WriteFile(r) ==
    \E text, able \in IF MayFail THEN BOOLEAN ELSE {TRUE} :
      LET kept == file # 0 /\ ((text /\ ~ bad) \/ ErrorHandling(able))
      IN  /\ written' = Append(written,
                [line |-> Head(chain[r]), began |-> since[r], able |-> file # 0 /\ (able \/ kept),
                 to |-> IF kept THEN file ELSE 0])
          /\ bad' = (file # 0 /\ ~ kept)

\* Then the console, and on to the next node.
WriteLine(r) ==
    /\ at[r] = "write"
    /\ WriteFile(r)
    /\ chain' = [chain EXCEPT ![r] = Tail(@)]
    /\ at' = [at EXCEPT ![r] = IF Len(chain[r]) > 1 THEN "check" ELSE "done"]
    /\ Show(Head(chain[r]))
    /\ UNCHANGED <<logVars, threadVars, since, day, created, file, console>>

Read(r) == Pop(r) \/ Check(r) \/ CreateFile(r) \/ WriteLine(r)

\* NKThread::run: the loop of the log thread.
Top ==
    /\ thread = "top" /\ at["thread"] = "idle"
    /\ \/ run /\ at' = [at EXCEPT !["thread"] = "pop"] /\ UNCHANGED thread
       \/ ~ run /\ thread' = "ended" /\ UNCHANGED at
    /\ UNCHANGED <<logVars, run, phase, chain, since, fileVars, consoleVars, written>>

Again ==
    /\ at["thread"] = "done"
    /\ at' = [at EXCEPT !["thread"] = "idle"]
    /\ UNCHANGED <<logVars, threadVars, chain, since, fileVars, consoleVars, written>>

LogThread == Top \/ Read("thread") \/ Again

-------------------------------------------------------------------------------
\* ~AsyncLog: join sets _run to false ...
BeginDestroy ==
    /\ phase = "open"
    /\ run' = FALSE /\ phase' = "join"
    /\ UNCHANGED <<logVars, thread, at, chain, since, fileVars, consoleVars, written>>

\* In ReleaseEngine this comes when all that write are done.
Join == BeginDestroy /\ \A t \in Threads : pc[t] = "idle"

\* Mutation of Joined: it does not wait.
JoinedAtOnce ==
    /\ phase = "join"
    /\ phase' = "flush" /\ at' = [at EXCEPT !["flush"] = "pop"]
    /\ UNCHANGED <<logVars, run, thread, chain, since, fileVars, consoleVars, written>>

\* Mutation of Joined: there is no flush.
JoinedOnly ==
    /\ phase = "join" /\ thread \in {"none", "ended"}
    /\ phase' = "flush" /\ at' = [at EXCEPT !["flush"] = "done"]
    /\ UNCHANGED <<logVars, run, thread, chain, since, fileVars, consoleVars, written>>

\* ... and waits for the thread, if there is one; then flush.
Joined ==
    /\ phase = "join" /\ thread \in {"none", "ended"}
    /\ phase' = "flush" /\ at' = [at EXCEPT !["flush"] = "pop"]
    /\ UNCHANGED <<logVars, run, thread, chain, since, fileVars, consoleVars, written>>

Deleted ==
    /\ at["flush"] = "done"
    /\ phase' = "deleted" /\ at' = [at EXCEPT !["flush"] = "idle"]
    /\ UNCHANGED <<logVars, run, thread, chain, since, fileVars, consoleVars, written>>

Destroy == Joined \/ Read("flush") \/ Deleted

Midnight ==
    /\ day < MaxDay
    /\ day' = day + 1
    /\ UNCHANGED <<logVars, threadVars, at, chain, since, created, file, bad, consoleVars, written>>

\* UniqueIDSetSafe::unregisterID of what the console registered
Unregister(layouts) ==
    /\ phase = "open"
    /\ console' = console \ layouts
    /\ UNCHANGED <<logVars, threadVars, at, chain, since, fileVars, shown, written>>

\* turnoffConsoleLogInfo, and turnoffConsole, which takes the category away:
\* no layout passes any more.
TurnOffInfo == Unregister({"info"})
TurnOff == Unregister(Layouts)

Next ==
    \/ \E t \in Threads : Write(t) \/ \E l \in Lines : Push(t, l)
    \/ LogThread \/ Join \/ Destroy \/ Midnight
    \/ TurnOffInfo \/ TurnOff

Spec == Init /\ [][Next]_vars

\* Threads are scheduled and devices return; nobody has to write, or to destroy
\* the log.
FairSpec ==
    /\ Spec
    /\ \A t \in Threads : WF_vars(Write(t))
    /\ WF_vars(LogThread) /\ WF_vars(Destroy)

-------------------------------------------------------------------------------
TypeOK ==
    /\ queue \in Seq(Lines) /\ started \in BOOLEAN
    /\ pc \in [Threads -> {"idle", "start", "create"}]
    /\ run \in BOOLEAN /\ thread \in {"none", "top", "ended"}
    /\ phase \in {"open", "join", "flush", "deleted"}
    /\ at \in [Readers -> {"idle", "pop", "check", "create", "write", "done"}]
    /\ chain \in [Readers -> Seq(Lines)]
    /\ \A r \in Readers : at[r] \in {"check", "create", "write"} => chain[r] # <<>>
    /\ since \in [Readers -> 1 .. MaxDay]
    /\ day \in 1 .. MaxDay /\ created \in 1 .. MaxDay /\ file \in 0 .. MaxDay
    /\ bad \in BOOLEAN /\ (bad => file # 0)
    /\ arrived \in Seq(Lines)
    /\ written \in Seq([line : Lines, began : 1 .. MaxDay, able : BOOLEAN, to : 0 .. MaxDay])
    /\ console \in SUBSET Layouts /\ shown \in Seq(Lines) /\ hushed \in SUBSET Lines

\* The lines reach the device once each and in the order in which they were
\* queued, be it by the log thread or by the flush of the destructor.
Handled == [i \in DOMAIN written |-> written[i].line]
InOrderOnce == arrived = Handled \o chain["thread"] \o chain["flush"] \o queue

\* The destructor leaves no line behind, whether the log thread was ever
\* started, is asleep, or in the middle of a batch.
NothingLeft == phase = "deleted" => Handled = arrived

\* Mutation of Serves: what the comment in onWrite says, "if date has changed, create
\* new file".  Not so in the code.
ServesAsSaid(e, d) == e >= d

\* The file of day e serves for a line begun on day d: it is of that day, or of a
\* later one on which the line was still being written, or of a day of another year
\* that onWrite cannot tell from it.
Serves(e, d) == e >= d \/ DayOfYear[e] = DayOfYear[d]

\* A line is in the file of a day on which it was being written, and not in the
\* file of a day before, however midnight falls between the two times that are
\* asked for - except that of the same day of an earlier year.  A line is in no
\* file only if none was open, or the system was not able to write when this very
\* line was due: a stream that failed before does not lose it.
FileOfItsDay ==
    \A i \in DOMAIN written :
        IF written[i].to = 0 THEN ~ written[i].able ELSE Serves(written[i].to, written[i].began)

\* A line that is queued when the console has been turned off for it does not
\* appear there, and what does appear was written to the file as well, in the
\* same order; the filter is asked late, by the thread that writes.
InStep ==
    \E place \in [DOMAIN shown -> DOMAIN written] :
        /\ \A i \in DOMAIN shown : written[place[i]].line = shown[i]
        /\ \A i, j \in DOMAIN shown : i < j => place[i] < place[j]
QuietOnceOff == Elements(shown) \cap hushed = {} /\ InStep

\* Every line that was queued reaches the device while the log lives: some
\* thread's write starts the log thread, and only one.
EveryLineWritten == \A l \in Lines : l \in Elements(arrived) ~> l \in Elements(Handled)

-------------------------------------------------------------------------------
\* The abstract executor: its line is what a reader has taken, then the queue; the
\* reader that has begun with a line executes it.
Pending == chain["thread"] \o (chain["flush"] \o queue)
Begun == \E r \in Readers : at[r] \in {"create", "write"}

Abstract == INSTANCE SerialExecutor WITH
    Requests <- Lines,
    waiting <- IF Begun THEN Tail(Pending) ELSE Pending,
    current <- IF Begun THEN <<Head(Pending)>> ELSE <<>>,
    finished <- Handled

\* The log implements the serial executor, though two threads read its queue, one
\* after the other: the devices get one line at a time, each once, in order.
ImplementsSerialExecutor == Abstract!Spec
===============================================================================
