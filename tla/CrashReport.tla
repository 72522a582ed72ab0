------------------------------ MODULE CrashReport ------------------------------
(***************************************************************************)
(* The crash handlers of CrashReport: the filter for exceptions nobody     *)
(* handles, the handler for invalid parameters and the one for pure calls. *)
(* Each writes to the log, then reports to a file under _report_mutex.     *)
(* The filter also destroys the log (AsyncLog), to have its lines written  *)
(* before the process ends, while other threads may be writing, or be in   *)
(* a handler themselves; the thread that crashes may be the log thread.    *)
(*                                                                         *)
(* A line that is written once the log was destroyed goes to a new log,    *)
(* which getInstance creates and which has no devices: it is not modelled. *)
(***************************************************************************)
EXTENDS Naturals, Sequences, FiniteSets

CONSTANTS
    Users,      \* the threads that run and write, the log thread excepted
    Logger,     \* the log thread
    Nobody,     \* no thread
    Texts,      \* the lines written by Users in the ordinary way
    Kinds,      \* the kinds of crashes that happen
    MaxCrashes, \* bound of the model: the threads that crash
    MayFail     \* whether calls of the system may fail

Threads == Users \cup {Logger}

\* Line 48, and the lines 54 to 58 as one; they are named for their thread.
Lines == Texts \cup (Threads \X {"note", "detail"})

ASSUME CrashAssumption ==
    /\ Logger \notin Users /\ Nobody \notin Threads
    /\ Kinds \subseteq {"exception", "parameter", "purecall"}
    /\ MaxCrashes \in Nat /\ MayFail \in BOOLEAN

VARIABLES
    queue, started, pc, run, thread, phase, at, chain, since, day, created, file, bad,
    console, arrived, written, shown, hushed,
    step,       \* where each thread is in its handler
    kind,       \* the handler it is in
    owner,      \* the thread that holds _report_mutex
    opened,     \* the thread that has the report file open
    alive,      \* whether the process is
    report,     \* history: the parts of the report file, by thread
    failed,     \* history: the threads whose CreateFile failed
    before      \* history: the lines that were queued before the log's destruction

Log == INSTANCE AsyncLog WITH
    Infos <- {}, MaxDay <- 1, DayOfYear <- [d \in 1 .. 1 |-> 0], MayFail <- FALSE

logVars == <<queue, started, pc, run, thread, phase, at, chain, since, day, created, file, bad,
             console, arrived, written, shown, hushed>>
reportVars == <<opened, report, failed>>
vars == <<logVars, step, kind, owner, reportVars, alive, before>>

Init ==
    /\ Log!Init
    /\ step = [t \in Threads |-> "none"] /\ kind = [t \in Threads |-> "none"]
    /\ owner = Nobody /\ opened = Nobody
    /\ alive = TRUE
    /\ report = <<>> /\ failed = {} /\ before = <<>>

-------------------------------------------------------------------------------
Go(t, s) == step' = [step EXCEPT ![t] = s]

\* A thread runs as usual, before it crashes or after an invalid parameter.
Running(t) == step[t] = "none" \/ (step[t] = "returned" /\ kind[t] = "parameter")

AddPart(t, part) == report' = Append(report, [by |-> t, part |-> part])

\* A thread writes a line, at any time.
Push(t, l) ==
    /\ Running(t) /\ phase # "deleted" /\ Log!Enqueue(t, l)
    /\ UNCHANGED <<step, kind, owner, reportVars, alive, before>>

\* A thread goes on with its write, be it called by a handler or not.
Write(t) ==
    /\ phase # "deleted" /\ Log!Write(t)
    /\ UNCHANGED <<step, kind, owner, reportVars, alive, before>>

\* It does so on a log that was deleted: the memory is as it was, or the thread
\* crashes; if it is in a handler already, that ends the process.
WriteDeleted(t) ==
    /\ phase = "deleted" /\ pc[t] # "idle"
    /\ pc' = [pc EXCEPT ![t] = "idle"]
    /\ \/ alive' = alive
       \/ ~ Running(t) /\ alive' = FALSE
    /\ UNCHANGED <<queue, started, run, thread, phase, at, chain, since, day, created, file, bad,
                   console, arrived, written, shown, hushed,
                   step, kind, owner, reportVars, before>>

\* The log thread, unless it has crashed; on a deleted log it is as good as gone.
LogThread ==
    /\ Running(Logger) /\ phase # "deleted" /\ Log!LogThread
    /\ UNCHANGED <<step, kind, owner, reportVars, alive, before>>

-------------------------------------------------------------------------------
\* UnhandledExceptionFilter, InvalidParameterHandler or PureCallHandler is called.
Crash(t, k) ==
    /\ step[t] = "none" /\ pc[t] = "idle"
    /\ t = Logger => thread = "top"
    /\ Cardinality({u \in Threads : step[u] # "none"}) < MaxCrashes
    /\ kind' = [kind EXCEPT ![t] = k]
    /\ Go(t, "note")
    /\ UNCHANGED <<logVars, owner, reportVars, alive, before>>

\* NKENGINELOG_ERROR, before the mutex is taken
Note(t) ==
    /\ step[t] = "note"
    /\ IF phase = "deleted" THEN UNCHANGED logVars ELSE Log!Enqueue(t, <<t, "note">>)
    /\ Go(t, "lock")
    /\ UNCHANGED <<kind, owner, reportVars, alive, before>>

\* Mutation of Lock: nobody waits.
LockNot(t) ==
    /\ step[t] = "lock" /\ pc[t] = "idle"
    /\ owner' = t
    /\ Go(t, IF kind[t] = "exception" THEN "detail" ELSE "open")
    /\ UNCHANGED <<logVars, kind, reportVars, alive, before>>

\* lock_guard of _report_mutex
Lock(t) ==
    /\ step[t] = "lock" /\ pc[t] = "idle"
    /\ owner = Nobody /\ owner' = t
    /\ Go(t, IF kind[t] = "exception" THEN "detail" ELSE "open")
    /\ UNCHANGED <<logVars, kind, reportVars, alive, before>>

\* The lines about the exception and its thread
Detail(t) ==
    /\ step[t] = "detail"
    /\ IF phase = "deleted" THEN UNCHANGED logVars ELSE Log!Enqueue(t, <<t, "detail">>)
    /\ Go(t, "open")
    /\ UNCHANGED <<kind, owner, reportVars, alive, before>>

Later(t) == IF kind[t] = "exception" THEN "destroy" ELSE "previous"

\* CreateFile of the report, which is shared with nobody
Open(t) ==
    /\ step[t] = "open" /\ pc[t] = "idle"
    /\ \/ opened = Nobody /\ opened' = t /\ Go(t, "report") /\ UNCHANGED failed
       \/ opened # Nobody /\ Go(t, Later(t)) /\ UNCHANGED <<opened, failed>>
       \/ MayFail /\ failed' = failed \cup {t} /\ Go(t, Later(t)) /\ UNCHANGED opened
    /\ UNCHANGED <<logVars, kind, owner, report, alive, before>>

\* GenerateExceptionReport: banner, fault and registers, which need nothing else
Banner(t) ==
    /\ step[t] = "report" /\ kind[t] = "exception"
    /\ AddPart(t, "banner")
    /\ Go(t, "dbghelp")
    /\ UNCHANGED <<logVars, kind, owner, opened, failed, alive, before>>

\* InitImagehlpFunctions: it fails without DbgHelp.dll, or one of its functions.
InitImagehlpFunctions == IF MayFail THEN BOOLEAN ELSE {TRUE}

\* A text the report quotes: what RaiseCrash was given, or the expression of an
\* invalid parameter.  It may not fit in WRITECRASHLOG's buffer of 2048 characters:
\* sprintf_s calls InvalidParameterHandler, which takes the mutex its thread holds,
\* and that ends the process.
Describe == {"nothing", "text", "end of the process"}

\* The mini dump goes to a file of its own; then the text is due.  Without
\* InitImagehlpFunctions the report has no more.
Dump(t) ==
    /\ step[t] = "dbghelp"
    /\ \E found \in InitImagehlpFunctions, text \in Describe :
         /\ alive' = (found => text # "end of the process")
         /\ Go(t, IF found THEN "walk" ELSE "close")
    /\ UNCHANGED <<logVars, kind, owner, reportVars, before>>

\* ImagehlpStackWalk, all the frames there are
ImagehlpStackWalk(t) ==
    /\ step[t] = "walk"
    /\ AddPart(t, "stack")
    /\ Go(t, "close")
    /\ UNCHANGED <<logVars, kind, owner, opened, failed, alive, before>>

\* The report of ParameterHandler: what was wrong, and where
ReportParameter(t) ==
    /\ step[t] = "report" /\ kind[t] = "parameter"
    /\ AddPart(t, "parameter")
    /\ \E text \in Describe : alive' = (text # "end of the process")
    /\ Go(t, "close")
    /\ UNCHANGED <<logVars, kind, owner, opened, failed, before>>

\* The report of PureCallFunctionHanlder: the guards the thread is in
ReportPureCall(t) ==
    /\ step[t] = "report" /\ kind[t] = "purecall"
    /\ AddPart(t, "guards")
    /\ Go(t, "close")
    /\ UNCHANGED <<logVars, kind, owner, opened, failed, alive, before>>

\* CloseHandle
CloseReport(t) ==
    /\ step[t] = "close"
    /\ opened' = Nobody
    /\ Go(t, Later(t))
    /\ UNCHANGED <<logVars, kind, owner, report, failed, alive, before>>

\* AsyncLogSingleton::destroy.  The log thread would join itself: join throws, in
\* a destructor, and that ends the process.
Destroy(t) ==
    /\ step[t] = "destroy"
    /\ \/ phase = "deleted" /\ Go(t, "previous") /\ UNCHANGED <<logVars, alive, before>>
       \/ /\ t # Logger /\ Log!BeginDestroy
          /\ before' = arrived
          /\ Go(t, "join") /\ UNCHANGED alive
       \/ /\ t = Logger /\ phase = "open"
          /\ alive' = FALSE /\ UNCHANGED <<logVars, step, before>>
    /\ UNCHANGED <<kind, owner, reportVars>>

\* ~AsyncLog goes on, on this thread.
Destroying(t) ==
    /\ step[t] = "join"
    /\ \/ Log!Destroy /\ UNCHANGED step
       \/ phase = "deleted" /\ Go(t, "previous") /\ UNCHANGED logVars
    /\ UNCHANGED <<kind, owner, reportVars, alive, before>>

\* Mutation of Return: the mutex is not released.
ReturnLocked(t) ==
    /\ step[t] = "previous"
    /\ owner' = owner
    /\ Go(t, "returned")
    /\ UNCHANGED <<logVars, kind, reportVars, alive, before>>

\* The handler of before, if any, and the end of the function
Return(t) ==
    /\ step[t] = "previous"
    /\ owner' = Nobody
    /\ Go(t, "returned")
    /\ UNCHANGED <<logVars, kind, reportVars, alive, before>>

\* EXCEPTION_CONTINUE_SEARCH ends the process, and so does _purecall.
Terminate(t) ==
    /\ step[t] = "returned" /\ kind[t] # "parameter"
    /\ alive' = FALSE
    /\ UNCHANGED <<logVars, step, kind, owner, reportVars, before>>

GenerateExceptionReport(t) == Banner(t) \/ Dump(t) \/ ImagehlpStackWalk(t)

Handle(t) ==
    \/ Note(t) \/ Lock(t) \/ Detail(t) \/ Open(t)
    \/ GenerateExceptionReport(t) \/ ReportParameter(t) \/ ReportPureCall(t)
    \/ CloseReport(t)
    \/ Destroy(t) \/ Destroying(t) \/ Return(t) \/ Terminate(t)

Next ==
    /\ alive
    /\ \/ LogThread
       \/ \E t \in Users, l \in Texts : Push(t, l)
       \/ \E t \in Threads :
            \/ Write(t) \/ WriteDeleted(t) \/ Handle(t)
            \/ \E k \in Kinds : Crash(t, k)

Spec == Init /\ [][Next]_vars

\* Threads are scheduled, and the calls of the system return.
FairSpec ==
    /\ Spec /\ WF_vars(alive /\ LogThread)
    /\ \A t \in Threads :
         WF_vars(alive /\ (Write(t) \/ WriteDeleted(t))) /\ WF_vars(alive /\ Handle(t))

-------------------------------------------------------------------------------
Locked == {"detail", "open", "report", "dbghelp", "walk", "close",
           "destroy", "join", "previous"}

TypeOK ==
    /\ Log!TypeOK
    /\ step \in [Threads -> {"none", "note", "lock", "returned"} \cup Locked]
    /\ kind \in [Threads -> Kinds \cup {"none"}]
    /\ \A t \in Threads : step[t] \in Locked <=> owner = t
    /\ opened \in {owner, Nobody}
    /\ alive \in BOOLEAN
    /\ report \in Seq([by : Threads, part : {"banner", "stack", "parameter", "guards"}])
    /\ failed \in SUBSET Threads /\ before \in Seq(Lines)

\* When the filter has destroyed the log, every line that was queued before is
\* written - the line about the crash, and what led to it -, whatever the log
\* thread and the other threads were doing; unless one of them was just starting
\* the log thread, which then is still at it.
CrashLinesKept ==
    phase = "deleted" /\ thread # "top" =>
        Log!Elements(before) \subseteq Log!Elements(Log!Handled)

\* Threads that crash at the same time all get their report, each in one piece:
\* the file is shared with nobody, so that one that does not wait for another
\* finds it open and reports nothing.
PartsOf(t) == {i \in DOMAIN report : report[i].by = t}
EveryCrashReported ==
    \A t \in Threads :
        step[t] \in {"destroy", "join", "previous", "returned"} =>
            \/ t \in failed
            \/ /\ PartsOf(t) # {}
               /\ \A i, j \in PartsOf(t) : i .. j \subseteq PartsOf(t)

\* The log is being joined by a thread that holds _report_mutex, while the log
\* thread has crashed too and waits for it, or was started all over by a write
\* that was just starting it.
Entangled == phase = "join" /\ (step[Logger] = "lock" \/ run)

\* A crash ends the process, and an invalid parameter lets its thread go on:
\* no handler waits for ever, for the mutex or for the log thread, but for the
\* two cases of Entangled.
CrashEnds ==
    \A t \in Threads :
        step[t] \in Locked \cup {"note", "lock"} ~>
            ~ alive \/ (step[t] = "returned" /\ kind[t] = "parameter") \/ Entangled
===============================================================================
