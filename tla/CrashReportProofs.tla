--------------------------- MODULE CrashReportProofs ---------------------------
(***************************************************************************)
(* Theorems about CrashReport, for any threads, lines and crashes: what    *)
(* the mutex gives the reports, and what the log's destruction, in the     *)
(* midst of everything, leaves of the lines.                               *)
(***************************************************************************)
EXTENDS CrashReport, SequenceTheorems, TLAPS

Steps == {"none", "note", "lock", "returned"} \cup Locked
Parts == [by : Threads, part : {"banner", "stack", "parameter", "guards"}]

\* One thread at most is past the mutex; it alone has the report file open.
Reporting == {"report", "dbghelp", "walk", "close"}
Handlers ==
    /\ step \in [Threads -> Steps] /\ kind \in [Threads -> Kinds \cup {"none"}]
    /\ owner \in Threads \cup {Nobody} /\ opened \in Threads \cup {Nobody}
    /\ \A t \in Threads : step[t] \in Locked <=> owner = t
    /\ \A t \in Threads : step[t] \in Reporting <=> opened = t
    /\ alive \in BOOLEAN /\ failed \subseteq Threads /\ report \in Seq(Parts)

\* The parts of the thread that reports are the last ones.
ReportOf(t) ==
    /\ step[t] \in {"none", "note", "lock", "detail", "open", "report"} => PartsOf(t) = {}
    /\ step[t] \in {"dbghelp", "walk", "close"} => Len(report) \in PartsOf(t)
    /\ step[t] \in {"destroy", "join", "previous", "returned"} => t \in failed \/ PartsOf(t) # {}
    /\ \A i, j \in PartsOf(t) : i .. j \subseteq PartsOf(t)
Reports == \A t \in Threads : ReportOf(t)

LEMMA InitHandlers == Init => Handlers /\ Reports
<1> SUFFICES ASSUME Init PROVE Handlers /\ Reports
  OBVIOUS
<1>1. /\ step = [t \in Threads |-> "none"] /\ kind = [t \in Threads |-> "none"]
      /\ owner = Nobody /\ opened = Nobody /\ alive = TRUE /\ report = <<>> /\ failed = {}
  BY DEF Init
<1>2. Handlers
  BY <1>1, CrashAssumption, EmptySeq DEF Handlers, Steps, Locked, Reporting
<1>3. Reports
  BY <1>1 DEF Reports, ReportOf, PartsOf
<1> QED
  BY <1>2, <1>3

\* A thread goes from one step to the next, nothing else of the handlers changing
\* but perhaps the mutex and the file, and the report stays as it is.
LEMMA GoSame ==
  ASSUME Handlers, Reports, NEW t \in Threads, NEW s \in Steps, Go(t, s),
         report' = report, failed \subseteq failed', t \in failed' \/ failed' = failed,
         \/ step[t] \in {"none", "note", "lock", "detail"} /\ s \in {"note", "lock", "detail", "open"}
         \/ step[t] = "open" /\ s = "report"
         \/ step[t] = "open" /\ s \in {"destroy", "previous"} /\ t \in failed'
         \/ step[t] = "dbghelp" /\ s \in {"walk", "close"}
         \/ step[t] = "close" /\ s \in {"destroy", "previous"}
         \/ step[t] \in {"destroy", "join", "previous"} /\ s \in {"join", "previous", "returned"}
  PROVE  Reports'
<1>1. step'[t] = s /\ \A u \in Threads : u # t => step'[u] = step[u]
  BY DEF Go, Handlers
<1>2. \A u \in Threads : PartsOf(u)' = PartsOf(u)
  BY DEF PartsOf
<1>3. ASSUME NEW u \in Threads, u # t PROVE ReportOf(u)'
  BY <1>1, <1>2, <1>3 DEF Reports, ReportOf
<1>4. ReportOf(t)'
  <2>1. ReportOf(t)
    BY DEF Reports
  <2>2. PartsOf(t)' = PartsOf(t)
    BY <1>2
  <2> QED
    BY <1>1, <2>1, <2>2 DEF ReportOf
<1> QED
  BY <1>3, <1>4 DEF Reports

\* The thread that has the file open adds a part.
LEMMA AddPartReports ==
  ASSUME Handlers, Reports, NEW t \in Threads, NEW p \in {"banner", "stack", "parameter", "guards"},
         AddPart(t, p), NEW s \in {"dbghelp", "close"}, Go(t, s), failed' = failed,
         step[t] \in {"report", "walk"}
  PROVE  Reports' /\ report' \in Seq(Parts)
<1> DEFINE rec == [by |-> t, part |-> p]
<1>1. step'[t] = s /\ \A u \in Threads : u # t => step'[u] = step[u]
  BY DEF Go, Handlers
<1>2. /\ report \in Seq(Parts) /\ report' = Append(report, rec) /\ rec \in Parts
  BY DEF AddPart, Handlers, Parts
<1>3. /\ report' \in Seq(Parts) /\ Len(report) \in Nat /\ DOMAIN report = 1 .. Len(report)
      /\ DOMAIN report' = 1 .. Len(report) + 1 /\ Len(report') = Len(report) + 1
      /\ \A i \in 1 .. Len(report) : report'[i] = report[i]
      /\ report'[Len(report) + 1] = rec
  BY <1>2, AppendProperties, LenProperties
<1>4. PartsOf(t)' = PartsOf(t) \cup {Len(report) + 1}
  BY <1>3 DEF PartsOf
<1>5. \A u \in Threads : u # t => PartsOf(u)' = PartsOf(u)
  BY <1>3 DEF PartsOf
<1>6. \A u \in Threads : PartsOf(u) \subseteq 1 .. Len(report)
  BY <1>3 DEF PartsOf
<1>7. ASSUME NEW u \in Threads, u # t PROVE ReportOf(u)'
  <2>1. step[t] \in Reporting /\ opened = t
    BY DEF Handlers, Reporting
  <2>2. step[u] \notin Reporting
    BY <1>7, <2>1 DEF Handlers
  <2>3. ReportOf(u) /\ PartsOf(u)' = PartsOf(u) /\ step'[u] = step[u]
    BY <1>1, <1>5, <1>7 DEF Reports
  <2> QED
    BY <2>2, <2>3 DEF ReportOf, Reporting
<1>8. ReportOf(t)'
  <2>1. ReportOf(t)
    BY DEF Reports
  <2>2. PartsOf(t) = {} \/ Len(report) \in PartsOf(t)
    BY <2>1 DEF ReportOf
  <2>3. ASSUME NEW i \in PartsOf(t)', NEW j \in PartsOf(t)' PROVE i .. j \subseteq PartsOf(t)'
    <3> SUFFICES ASSUME NEW k \in i .. j PROVE k \in PartsOf(t)'
      OBVIOUS
    <3>0. i \in 1 .. Len(report) + 1 /\ j \in 1 .. Len(report) + 1
      BY <1>3, <1>4, <1>6
    <3>1. CASE k = Len(report) + 1
      BY <1>4, <3>1
    <3>2. CASE k # Len(report) + 1
      <4>1. i # Len(report) + 1 /\ k \in i .. Len(report)
        BY <1>3, <3>0, <3>2
      <4>2. i \in PartsOf(t) /\ Len(report) \in PartsOf(t)
        BY <1>4, <2>2, <4>1
      <4> QED
        BY <1>4, <2>1, <4>1, <4>2 DEF ReportOf
    <3> QED
      BY <3>1, <3>2
  <2>4. Len(report') \in PartsOf(t)'
    BY <1>3, <1>4
  <2> QED
    BY <1>1, <2>3, <2>4 DEF ReportOf
<1> QED
  BY <1>3, <1>7, <1>8 DEF Reports

\* Nothing that the handlers are about changes.
handlerVars == <<step, kind, owner, opened, alive, report, failed>>
LEMMA SameHandlers ==
  ASSUME Handlers, Reports, UNCHANGED handlerVars PROVE Handlers' /\ Reports'
<1> USE DEF handlerVars
<1>1. Handlers'
  BY DEF Handlers
<1>2. \A u \in Threads : PartsOf(u)' = PartsOf(u)
  BY DEF PartsOf
<1>3. Reports'
  BY <1>2 DEF Reports, ReportOf
<1> QED
  BY <1>1, <1>3

LEMMA CrashReports ==
  ASSUME Handlers, Reports, NEW t \in Threads, NEW k \in Kinds, Crash(t, k)
  PROVE  Handlers' /\ Reports'
<1>1. Handlers'
  BY DEF Crash, Go, Handlers, Steps, Locked, Reporting, reportVars
<1>2. "note" \in Steps /\ Go(t, "note") /\ step[t] = "none" /\ UNCHANGED <<report, failed>>
  BY DEF Crash, Steps, reportVars
<1>3. Reports'
  BY <1>2, GoSame
<1> QED
  BY <1>1, <1>3

LEMMA NoteReports ==
  ASSUME Handlers, Reports, NEW t \in Threads, Note(t) PROVE Handlers' /\ Reports'
<1>0. step[t] = "note" /\ Go(t, "lock") /\ UNCHANGED <<kind, owner, opened, alive, report, failed>>
  BY DEF Note, reportVars
<1>1. Handlers'
  BY <1>0 DEF Go, Handlers, Steps, Locked, Reporting
<1>2. "lock" \in Steps
  BY DEF Steps
<1>3. Reports'
  BY <1>0, <1>2, GoSame
<1> QED
  BY <1>1, <1>3

LEMMA LockReports ==
  ASSUME Handlers, Reports, NEW t \in Threads, Lock(t) PROVE Handlers' /\ Reports'
<1>0. PICK s \in {"detail", "open"} :
        /\ step[t] = "lock" /\ owner = Nobody /\ owner' = t /\ Go(t, s)
        /\ UNCHANGED <<kind, opened, alive, report, failed>>
  BY DEF Lock, reportVars
<1>1. \A u \in Threads : step[u] \notin Locked /\ owner # u
  BY <1>0, CrashAssumption DEF Handlers
<1>2. Handlers'
  BY <1>0, <1>1 DEF Go, Handlers, Steps, Locked, Reporting
<1>3. s \in Steps
  BY DEF Steps, Locked
<1>4. Reports'
  BY <1>0, <1>3, GoSame
<1> QED
  BY <1>2, <1>4

LEMMA DetailReports ==
  ASSUME Handlers, Reports, NEW t \in Threads, Detail(t) PROVE Handlers' /\ Reports'
<1>0. step[t] = "detail" /\ Go(t, "open") /\ UNCHANGED <<kind, owner, opened, alive, report, failed>>
  BY DEF Detail, reportVars
<1>1. Handlers'
  BY <1>0 DEF Go, Handlers, Steps, Locked, Reporting
<1>2. "open" \in Steps
  BY DEF Steps, Locked
<1>3. Reports'
  BY <1>0, <1>2, GoSame
<1> QED
  BY <1>1, <1>3

\* The thread that holds the mutex finds the file closed.
LEMMA OpenReports ==
  ASSUME Handlers, Reports, NEW t \in Threads, Open(t) PROVE Handlers' /\ Reports'
<1>0. /\ step[t] = "open" /\ UNCHANGED <<kind, owner, alive, report>>
      /\ \/ opened = Nobody /\ opened' = t /\ Go(t, "report") /\ failed' = failed
         \/ opened # Nobody /\ Go(t, Later(t)) /\ UNCHANGED <<opened, failed>>
         \/ failed' = failed \cup {t} /\ Go(t, Later(t)) /\ UNCHANGED opened
  BY DEF Open
<1>1. /\ owner = t /\ opened = Nobody
      /\ \A u \in Threads : u # t => step[u] \notin Locked
  <2>1. owner = t
    BY <1>0 DEF Handlers, Locked
  <2>2. \A u \in Threads : u # t => step[u] \notin Locked
    BY <2>1 DEF Handlers
  <2>3. \A u \in Threads : step[u] \notin Reporting
    BY <1>0, <2>2 DEF Reporting, Locked
  <2> QED
    BY <2>1, <2>2, <2>3 DEF Handlers
<1>2. Later(t) \in {"destroy", "previous"}
  BY DEF Later
<1>3. CASE opened' = t /\ Go(t, "report") /\ failed' = failed
  <2>1. Handlers'
    BY <1>0, <1>1, <1>3, CrashAssumption DEF Go, Handlers, Steps, Locked, Reporting
  <2>2. "report" \in Steps
    BY DEF Steps, Locked
  <2> QED
    BY <1>0, <1>3, <2>1, <2>2, GoSame
<1>4. CASE failed' = failed \cup {t} /\ Go(t, Later(t)) /\ UNCHANGED opened
  <2>1. PICK s \in {"destroy", "previous"} : Go(t, s)
    BY <1>2, <1>4
  <2>2. Handlers'
    BY <1>0, <1>1, <1>4, <2>1, CrashAssumption DEF Go, Handlers, Steps, Locked, Reporting
  <2>3. s \in Steps
    BY DEF Steps, Locked
  <2>4. failed \subseteq failed' /\ t \in failed'
    BY <1>4
  <2>5. Reports'
    BY <1>0, <2>1, <2>3, <2>4, GoSame
  <2> QED
    BY <2>2, <2>5
<1> QED
  BY <1>0, <1>1, <1>3, <1>4

LEMMA PartReports ==
  ASSUME Handlers, Reports, NEW t \in Threads,
         Banner(t) \/ ImagehlpStackWalk(t) \/ ReportParameter(t) \/ ReportPureCall(t)
  PROVE  Handlers' /\ Reports'
<1>0. PICK p \in {"banner", "stack", "parameter", "guards"}, s \in {"dbghelp", "close"} :
        /\ step[t] \in {"report", "walk"} /\ AddPart(t, p) /\ Go(t, s)
        /\ alive' \in BOOLEAN
        /\ UNCHANGED <<kind, owner, opened, failed>>
  BY DEF Handlers, Banner, ImagehlpStackWalk, ReportParameter, ReportPureCall
<1>1. Reports' /\ report' \in Seq(Parts)
  BY <1>0, AddPartReports
<1>2. Handlers'
  BY <1>0, <1>1 DEF Go, Handlers, Steps, Locked, Reporting
<1> QED
  BY <1>1, <1>2

LEMMA DumpReports ==
  ASSUME Handlers, Reports, NEW t \in Threads, Dump(t) PROVE Handlers' /\ Reports'
<1>0. PICK s \in {"walk", "close"} :
        /\ step[t] = "dbghelp" /\ Go(t, s) /\ alive' \in BOOLEAN
        /\ UNCHANGED <<kind, owner, opened, report, failed>>
  BY DEF Dump, reportVars, InitImagehlpFunctions
<1>1. Handlers'
  BY <1>0 DEF Go, Handlers, Steps, Locked, Reporting
<1>2. s \in Steps
  BY DEF Steps, Locked
<1>3. Reports'
  BY <1>0, <1>2, GoSame
<1> QED
  BY <1>1, <1>3

LEMMA CloseReports ==
  ASSUME Handlers, Reports, NEW t \in Threads, CloseReport(t) PROVE Handlers' /\ Reports'
<1>0. PICK s \in {"destroy", "previous"} :
        /\ step[t] = "close" /\ opened' = Nobody /\ Go(t, s)
        /\ UNCHANGED <<kind, owner, alive, report, failed>>
  BY DEF CloseReport, Later
<1>1. \A u \in Threads : u # t => step[u] \notin Reporting
  BY <1>0 DEF Handlers, Reporting
<1>2. Handlers'
  BY <1>0, <1>1, CrashAssumption DEF Go, Handlers, Steps, Locked, Reporting
<1>3. s \in Steps
  BY DEF Steps, Locked
<1>4. Reports'
  BY <1>0, <1>3, GoSame
<1> QED
  BY <1>2, <1>4

LEMMA DestroyReports ==
  ASSUME Handlers, Reports, NEW t \in Threads, Destroy(t) \/ Destroying(t)
  PROVE  Handlers' /\ Reports'
<1>0. /\ step[t] \in {"destroy", "join"} /\ alive' \in BOOLEAN
      /\ UNCHANGED <<kind, owner, opened, report, failed>>
      /\ step' = step \/ Go(t, "join") \/ Go(t, "previous")
  BY DEF Destroy, Destroying, reportVars, Handlers
<1>1. CASE step' = step
  <2>1. Handlers'
    BY <1>0, <1>1 DEF Handlers
  <2>2. \A u \in Threads : PartsOf(u)' = PartsOf(u)
    BY <1>0 DEF PartsOf
  <2> QED
    BY <1>0, <1>1, <2>1, <2>2 DEF Reports, ReportOf
<1>2. ASSUME NEW s \in {"join", "previous"}, Go(t, s) PROVE Handlers' /\ Reports'
  <2>1. Handlers'
    BY <1>0, <1>2 DEF Go, Handlers, Steps, Locked, Reporting
  <2>2. s \in Steps
    BY DEF Steps, Locked
  <2> QED
    BY <1>0, <1>2, <2>1, <2>2, GoSame
<1> QED
  BY <1>0, <1>1, <1>2

LEMMA ReturnReports ==
  ASSUME Handlers, Reports, NEW t \in Threads, Return(t) PROVE Handlers' /\ Reports'
<1>0. /\ step[t] = "previous" /\ owner' = Nobody /\ Go(t, "returned")
      /\ UNCHANGED <<kind, opened, alive, report, failed>>
  BY DEF Return, reportVars
<1>1. \A u \in Threads : u # t => step[u] \notin Locked
  BY <1>0 DEF Handlers, Locked
<1>2. Handlers'
  BY <1>0, <1>1, CrashAssumption DEF Go, Handlers, Steps, Locked, Reporting
<1>3. "returned" \in Steps
  BY DEF Steps
<1>4. Reports'
  BY <1>0, <1>3, GoSame
<1> QED
  BY <1>2, <1>4

LEMMA TerminateReports ==
  ASSUME Handlers, Reports, UNCHANGED <<step, kind, owner, opened, report, failed>>,
         alive' \in BOOLEAN
  PROVE  Handlers' /\ Reports'
<1>1. Handlers'
  BY DEF Handlers
<1>2. \A u \in Threads : PartsOf(u)' = PartsOf(u)
  BY DEF PartsOf
<1> QED
  BY <1>1, <1>2 DEF Reports, ReportOf

LEMMA HandlersStep == Handlers /\ Reports /\ [Next]_vars => Handlers' /\ Reports'
<1> SUFFICES ASSUME Handlers, Reports, [Next]_vars PROVE Handlers' /\ Reports'
  OBVIOUS
<1>1. ASSUME NEW t \in Threads, Handle(t) PROVE Handlers' /\ Reports'
  <2>1. CASE Terminate(t)
    BY <2>1, TerminateReports DEF Terminate, reportVars
  <2> QED
    BY <1>1, <2>1, NoteReports, LockReports, DetailReports, OpenReports, PartReports, DumpReports,
       CloseReports, DestroyReports, ReturnReports DEF Handle, GenerateExceptionReport
<1>2. ASSUME NEW t \in Threads, NEW k \in Kinds, Crash(t, k) PROVE Handlers' /\ Reports'
  BY <1>2, CrashReports
<1>3. ASSUME NEW t \in Threads, WriteDeleted(t) PROVE Handlers' /\ Reports'
  <2>1. alive' \in BOOLEAN
    BY <1>3 DEF WriteDeleted, Handlers
  <2> QED
    BY <1>3, <2>1, TerminateReports DEF WriteDeleted, reportVars
<1>4. ASSUME NEW t \in Threads, Write(t) \/ \E l \in Texts : Push(t, l)
      PROVE  Handlers' /\ Reports'
  BY <1>4, SameHandlers DEF Write, Push, handlerVars, reportVars
<1>5. CASE LogThread
  BY <1>5, SameHandlers DEF LogThread, handlerVars, reportVars
<1>6. CASE UNCHANGED vars
  BY <1>6, SameHandlers DEF vars, handlerVars, reportVars
<1>7. Users \subseteq Threads
  BY DEF Threads
<1> QED
  BY <1>1, <1>2, <1>3, <1>4, <1>5, <1>6, <1>7 DEF Next

LEMMA AlwaysHandlers == Spec => [](Handlers /\ Reports)
BY InitHandlers, HandlersStep, PTL DEF Spec

\* However many threads crash, in whichever of the three ways, each handler
\* reports under _report_mutex, to a file that no other has open: every one has
\* its report, and in one piece.
THEOREM CrashesReported == Spec => []EveryCrashReported
<1>1. Reports => EveryCrashReported
  BY DEF Reports, ReportOf, EveryCrashReported
<1> QED
  BY <1>1, AlwaysHandlers, PTL

-------------------------------------------------------------------------------
\* The elements of a sequence to which one is appended, and of its tail
LEMMA AppendElements ==
  ASSUME NEW S, NEW s \in Seq(S), NEW e \in S
  PROVE  Log!Elements(Append(s, e)) = Log!Elements(s) \cup {e}
<1>1. /\ Len(s) \in Nat /\ DOMAIN s = 1 .. Len(s) /\ DOMAIN Append(s, e) = 1 .. Len(s) + 1
      /\ \A i \in 1 .. Len(s) : Append(s, e)[i] = s[i]
      /\ Append(s, e)[Len(s) + 1] = e
  BY AppendProperties, LenProperties
<1>2. ASSUME NEW i \in DOMAIN Append(s, e) PROVE Append(s, e)[i] \in Log!Elements(s) \cup {e}
  <2>1. i \in 1 .. Len(s) \/ i = Len(s) + 1
    BY <1>1
  <2> QED
    BY <1>1, <2>1 DEF Log!Elements
<1>3. Len(s) + 1 \in DOMAIN Append(s, e)
  BY <1>1
<1>4. e \in Log!Elements(Append(s, e))
  BY <1>1, <1>3 DEF Log!Elements
<1>5. ASSUME NEW i \in DOMAIN s PROVE s[i] \in Log!Elements(Append(s, e))
  <2>1. i \in DOMAIN Append(s, e) /\ Append(s, e)[i] = s[i]
    BY <1>1
  <2> QED
    BY <2>1 DEF Log!Elements
<1> QED
  BY <1>2, <1>4, <1>5 DEF Log!Elements

LEMMA TailElements ==
  ASSUME NEW S, NEW s \in Seq(S), s # <<>>
  PROVE  Log!Elements(s) \subseteq {Head(s)} \cup Log!Elements(Tail(s))
<1>1. /\ Len(s) \in Nat /\ DOMAIN s = 1 .. Len(s) /\ Tail(s) \in Seq(S)
      /\ Len(Tail(s)) = Len(s) - 1 /\ \A k \in 1 .. Len(Tail(s)) : Tail(s)[k] = s[k + 1]
      /\ Len(s) # 0 /\ Head(s) = s[1]
  BY HeadTailProperties, LenProperties, EmptySeq
<1>2. DOMAIN Tail(s) = 1 .. Len(s) - 1
  BY <1>1, LenProperties
<1>3. ASSUME NEW i \in DOMAIN s PROVE s[i] \in {Head(s)} \cup Log!Elements(Tail(s))
  <2>1. CASE i = 1
    BY <1>1, <2>1
  <2>2. CASE i # 1
    <3>1. i - 1 \in DOMAIN Tail(s) /\ Tail(s)[i - 1] = s[i]
      BY <1>1, <1>2, <2>2
    <3> QED
      BY <3>1 DEF Log!Elements
  <2> QED
    BY <2>1, <2>2
<1> QED
  BY <1>3 DEF Log!Elements

LEMMA NoElements == Log!Elements(<<>>) = {}
BY DEF Log!Elements

-------------------------------------------------------------------------------
\* A reader that is not at its lines has none; the log thread reads while it
\* lives, and once it was joined it lives only if a write started it again, and
\* then for good.
Reading ==
    /\ \A r \in Log!Readers : at[r] \in {"idle", "pop", "done"} => chain[r] = <<>>
    /\ at["thread"] # "idle" => thread = "top"
    /\ at["flush"] # "idle" => phase = "flush"
    /\ phase \in {"flush", "deleted"} /\ thread = "top" => run

\* No line that was queued is lost, and none of those queued before the
\* destruction is still in the queue when the flush has emptied it.
Reached(l) ==
    \/ l \in Log!Elements(Log!Handled)
    \/ l \in Log!Elements(chain["thread"]) \/ l \in Log!Elements(chain["flush"])

Kept ==
    /\ \A l \in Log!Elements(arrived) : Reached(l) \/ l \in Log!Elements(queue)
    /\ Log!Elements(before) \subseteq Log!Elements(arrived)
    /\ phase = "deleted" \/ at["flush"] \in {"check", "create", "write", "done"} =>
         \A l \in Log!Elements(before) : Reached(l)

LogInv == Log!TypeOK /\ before \in Seq(Lines) /\ Reading /\ Kept

LEMMA InitLog == Init => LogInv
<1> SUFFICES ASSUME Init PROVE LogInv
  OBVIOUS
<1> USE DEF Init, Log!Init, Log!ConsoleInit
<1>1. /\ <<>> \in Seq(Lines) /\ 1 \in 1 .. 1 /\ 1 \in 0 .. 1
      /\ <<>> \in Seq([line : Lines, began : 1 .. 1, able : BOOLEAN, to : 0 .. 1])
  BY EmptySeq
<1>2. Log!TypeOK
  BY <1>1 DEF Log!TypeOK, Log!Readers, Log!Layouts
<1>3. Reading
  BY DEF Reading, Log!Readers
<1>4. Kept
  BY NoElements DEF Kept, Log!Readers
<1> QED
  BY <1>1, <1>2, <1>3, <1>4 DEF LogInv

\* What a step of the crash handlers is to the log
LEMMA LogCases ==
  ASSUME [Next]_vars
  PROVE  \/ UNCHANGED <<logVars, before>>
         \/ before' = before /\ \E t \in Threads, l \in Lines : Log!Enqueue(t, l)
         \/ before' = before /\ phase # "deleted"
              /\ \E t \in Threads : Log!Exchange(t) \/ Log!Create(t)
         \/ before' = before /\ \E t \in Threads : WriteDeleted(t)
         \/ before' = before /\ phase # "deleted" /\ Log!LogThread
         \/ before' = arrived /\ Log!BeginDestroy
         \/ before' = before /\ Log!Destroy
<1>1. ASSUME NEW t \in Threads
      PROVE  <<t, "note">> \in Lines /\ <<t, "detail">> \in Lines
  BY DEF Lines
<1>2. Texts \subseteq Lines /\ Users \subseteq Threads
  BY DEF Lines, Threads
<1>3. ASSUME NEW t \in Threads, Handle(t)
      PROVE  \/ UNCHANGED <<logVars, before>>
             \/ before' = before /\ \E l \in Lines : Log!Enqueue(t, l)
             \/ before' = arrived /\ Log!BeginDestroy
             \/ before' = before /\ Log!Destroy
  <2>1. CASE Note(t) \/ Detail(t)
    BY <1>1, <2>1 DEF Note, Detail
  <2>2. CASE Destroy(t) \/ Destroying(t)
    BY <2>2 DEF Destroy, Destroying
  <2>3. CASE Lock(t) \/ Open(t) \/ GenerateExceptionReport(t) \/ ReportParameter(t)
               \/ ReportPureCall(t) \/ CloseReport(t) \/ Return(t) \/ Terminate(t)
    BY <2>3 DEF Lock, Open, GenerateExceptionReport, Banner, Dump, ImagehlpStackWalk,
                ReportParameter, ReportPureCall, CloseReport, Return, Terminate
  <2> QED
    BY <1>3, <2>1, <2>2, <2>3 DEF Handle
<1>4. ASSUME NEW t \in Threads, NEW k \in Kinds, Crash(t, k) PROVE UNCHANGED <<logVars, before>>
  BY <1>4 DEF Crash
<1>5. CASE UNCHANGED vars
  BY <1>5 DEF vars
<1>6. ASSUME NEW t \in Threads, Write(t)
      PROVE  before' = before /\ phase # "deleted" /\ (Log!Exchange(t) \/ Log!Create(t))
  BY <1>6 DEF Write, Log!Write
<1>7. ASSUME NEW t \in Users, NEW l \in Texts, Push(t, l)
      PROVE  before' = before /\ Log!Enqueue(t, l)
  BY <1>7 DEF Push
<1>8. CASE LogThread
  BY <1>8 DEF LogThread
<1>9. ASSUME NEW t \in Threads, WriteDeleted(t) PROVE before' = before
  BY <1>9 DEF WriteDeleted
<1> QED
  BY <1>2, <1>3, <1>4, <1>5, <1>6, <1>7, <1>8, <1>9 DEF Next

LEMMA SameLog == ASSUME LogInv, UNCHANGED <<logVars, before>> PROVE LogInv'
<1> USE DEF logVars
<1>1. Log!TypeOK' /\ before' \in Seq(Lines)
  BY DEF LogInv, Log!TypeOK
<1>2. Log!Handled' = Log!Handled
  BY DEF Log!Handled
<1>3. \A l : Reached(l)' <=> Reached(l)
  BY <1>2 DEF Reached
<1>4. Reading' /\ Kept'
  BY <1>3 DEF LogInv, Reading, Kept
<1> QED
  BY <1>1, <1>4 DEF LogInv

\* A line that is queued
LEMMA EnqueueLog ==
  ASSUME LogInv, NEW t \in Threads, NEW l \in Lines, Log!Enqueue(t, l), before' = before
  PROVE  LogInv'
<1>0. /\ queue' = Append(queue, l) /\ arrived' = Append(arrived, l)
      /\ pc' = [pc EXCEPT ![t] = "start"]
      /\ UNCHANGED <<started, run, thread, phase, at, chain, since, day, created, file, bad,
                     console, shown, written>>
      /\ hushed' = IF Log!LayoutOf(l) \in console THEN hushed ELSE hushed \cup {l}
  BY DEF Log!Enqueue, Log!threadVars, Log!fileVars, Log!consoleVars
<1>1. /\ queue \in Seq(Lines) /\ arrived \in Seq(Lines)
  BY DEF LogInv, Log!TypeOK
<1>2. Log!TypeOK'
  <2>1. queue' \in Seq(Lines) /\ arrived' \in Seq(Lines)
    BY <1>0, <1>1, AppendProperties
  <2>2. hushed' \in SUBSET Lines /\ pc' \in [Threads -> {"idle", "start", "create"}]
    BY <1>0 DEF LogInv, Log!TypeOK
  <2> QED
    BY <1>0, <2>1, <2>2 DEF LogInv, Log!TypeOK
<1>3. Reading'
  BY <1>0 DEF LogInv, Reading
<1>4. /\ Log!Elements(queue') = Log!Elements(queue) \cup {l}
      /\ Log!Elements(arrived') = Log!Elements(arrived) \cup {l}
  BY <1>0, <1>1, AppendElements
<1>5. Log!Handled' = Log!Handled
  BY <1>0 DEF Log!Handled
<1>6. \A k : Reached(k)' <=> Reached(k)
  BY <1>0, <1>5 DEF Reached
<1>7. Kept'
  BY <1>0, <1>4, <1>6 DEF LogInv, Kept
<1> QED
  BY <1>2, <1>3, <1>7 DEF LogInv

\* A write that goes on: only thread and run matter, and once the log was joined
\* a log thread that is started is told to run.
LEMMA WriteLog ==
  ASSUME LogInv, NEW t \in Threads, Log!Exchange(t) \/ Log!Create(t) \/ WriteDeleted(t),
         before' = before
  PROVE  LogInv'
<1>0. /\ pc' \in [Threads -> {"idle", "start", "create"}] /\ started' \in BOOLEAN
      /\ UNCHANGED <<queue, arrived, hushed, phase, at, chain, since, day, created, file, bad,
                     console, shown, written>>
      /\ UNCHANGED <<run, thread>> \/ (run' = TRUE /\ thread' = "top")
  BY DEF Log!Exchange, Log!Create, WriteDeleted, Log!threadVars, Log!fileVars, Log!consoleVars,
         LogInv, Log!TypeOK
<1>1. Log!TypeOK'
  BY <1>0 DEF LogInv, Log!TypeOK
<1>2. Reading'
  BY <1>0 DEF LogInv, Reading
<1>3. Log!Handled' = Log!Handled
  BY <1>0 DEF Log!Handled
<1>4. \A k : Reached(k)' <=> Reached(k)
  BY <1>0, <1>3 DEF Reached
<1>5. Kept'
  BY <1>0, <1>4 DEF LogInv, Kept
<1> QED
  BY <1>0, <1>1, <1>2, <1>5 DEF LogInv

\* A reader takes the queue.
LEMMA PopLog ==
  ASSUME LogInv, NEW r \in Log!Readers, Log!Pop(r), before' = before
  PROVE  LogInv'
<1>0. /\ at[r] = "pop" /\ chain' = [chain EXCEPT ![r] = queue] /\ queue' = <<>>
      /\ at' = [at EXCEPT ![r] = IF queue = <<>> THEN "done" ELSE "check"]
      /\ UNCHANGED <<arrived, hushed, started, pc, run, thread, phase, since, day, created, file,
                     bad, console, shown, written>>
  BY DEF Log!Pop, Log!threadVars, Log!fileVars, Log!consoleVars
<1>1. /\ at'[r] = (IF queue = <<>> THEN "done" ELSE "check") /\ chain'[r] = queue
      /\ chain[r] = <<>>
      /\ \A u \in Log!Readers : u # r => at'[u] = at[u] /\ chain'[u] = chain[u]
  BY <1>0 DEF LogInv, Log!TypeOK, Reading
<1>2. Log!TypeOK'
  <2>1. queue \in Seq(Lines) /\ <<>> \in Seq(Lines)
    BY EmptySeq DEF LogInv, Log!TypeOK
  <2>2. /\ at' \in [Log!Readers -> {"idle", "pop", "check", "create", "write", "done"}]
        /\ chain' \in [Log!Readers -> Seq(Lines)]
    BY <1>0, <2>1 DEF LogInv, Log!TypeOK
  <2>3. \A u \in Log!Readers : at'[u] \in {"check", "create", "write"} => chain'[u] # <<>>
    BY <1>1 DEF LogInv, Log!TypeOK
  <2> QED
    BY <1>0, <2>1, <2>2, <2>3 DEF LogInv, Log!TypeOK
<1>3. Reading'
  BY <1>0, <1>1 DEF LogInv, Reading, Log!Readers
<1>4. Log!Handled' = Log!Handled
  BY <1>0 DEF Log!Handled
<1>5. \A k : Reached(k) \/ k \in Log!Elements(queue) => Reached(k)'
  <2> SUFFICES ASSUME NEW k, Reached(k) \/ k \in Log!Elements(queue) PROVE Reached(k)'
    OBVIOUS
  <2>1. k \notin Log!Elements(chain[r])
    BY <1>1, NoElements
  <2>2. k \in Log!Elements(queue) => k \in Log!Elements(chain'[r])
    BY <1>1
  <2> QED
    BY <1>1, <1>4, <2>1, <2>2 DEF Reached, Log!Readers
<1>6. Kept'
  BY <1>0, <1>5 DEF LogInv, Kept
<1> QED
  BY <1>2, <1>3, <1>6 DEF LogInv

\* It looks at the date, and opens a file.
LEMMA CheckLog ==
  ASSUME LogInv, NEW r \in Log!Readers, Log!Check(r) \/ Log!CreateFile(r), before' = before
  PROVE  LogInv'
<1>0. PICK s \in {"create", "write"} :
        /\ at[r] \in {"check", "create"} /\ at' = [at EXCEPT ![r] = s]
        /\ UNCHANGED <<queue, arrived, hushed, started, pc, run, thread, phase, chain, day,
                       console, shown, written>>
  BY DEF Log!Check, Log!CreateFile, Log!logVars, Log!threadVars, Log!fileVars, Log!consoleVars
<1>1. /\ since' \in [Log!Readers -> 1 .. 1] /\ created' \in 1 .. 1 /\ file' \in 0 .. 1
      /\ bad' \in BOOLEAN /\ (bad' => file' # 0)
  <2>1. CASE Log!Check(r)
    BY <2>1 DEF Log!Check, Log!fileVars, LogInv, Log!TypeOK
  <2>2. CASE Log!CreateFile(r)
    <3>1. created' = day /\ file' = day /\ bad' = FALSE /\ since' = since
      BY <2>2 DEF Log!CreateFile
    <3>2. day \in 1 .. 1 /\ since \in [Log!Readers -> 1 .. 1]
      BY DEF LogInv, Log!TypeOK
    <3>3. bad' \in BOOLEAN /\ (bad' => file' # 0)
      BY <3>1
    <3>4. created' \in 1 .. 1 /\ file' \in 0 .. 1
      BY <3>1, <3>2
    <3> QED
      BY <3>1, <3>2, <3>3, <3>4
  <2> QED
    BY <2>1, <2>2
<1>2. /\ at'[r] = s /\ \A u \in Log!Readers : u # r => at'[u] = at[u]
      /\ at' \in [Log!Readers -> {"idle", "pop", "check", "create", "write", "done"}]
  BY <1>0 DEF LogInv, Log!TypeOK
<1>3. Log!TypeOK'
  <2>1. \A u \in Log!Readers : at'[u] \in {"check", "create", "write"} => chain'[u] # <<>>
    BY <1>0, <1>2 DEF LogInv, Log!TypeOK
  <2> QED
    BY <1>0, <1>1, <1>2, <2>1 DEF LogInv, Log!TypeOK
<1>4. Reading'
  BY <1>0, <1>2 DEF LogInv, Reading, Log!Readers
<1>5. Log!Handled' = Log!Handled
  BY <1>0 DEF Log!Handled
<1>6. \A k : Reached(k)' <=> Reached(k)
  BY <1>0, <1>5 DEF Reached
<1>7. at'["flush"] \in {"check", "create", "write", "done"} =>
        at["flush"] \in {"check", "create", "write", "done"}
  BY <1>0, <1>2 DEF Log!Readers
<1>8. Kept'
  BY <1>0, <1>6, <1>7 DEF LogInv, Kept
<1> QED
  BY <1>0, <1>3, <1>4, <1>8 DEF LogInv

\* A line goes from the reader to the file.
LEMMA WriteLineLog ==
  ASSUME LogInv, NEW r \in Log!Readers, Log!WriteLine(r), before' = before
  PROVE  LogInv'
<1> DEFINE Records == [line : Lines, began : 1 .. 1, able : BOOLEAN, to : 0 .. 1]
           l == Head(chain[r])
<1>0. /\ at[r] = "write" /\ chain' = [chain EXCEPT ![r] = Tail(@)]
      /\ at' = [at EXCEPT ![r] = IF Len(chain[r]) > 1 THEN "check" ELSE "done"]
      /\ shown' = shown \/ shown' = Append(shown, l)
      /\ UNCHANGED <<queue, arrived, hushed, started, pc, run, thread, phase, since, day,
                     created, file, console>>
  BY DEF Log!WriteLine, Log!Show, Log!logVars, Log!threadVars
<1>1. /\ chain[r] \in Seq(Lines) /\ chain[r] # <<>>
      /\ chain \in [Log!Readers -> Seq(Lines)] /\ written \in Seq(Records)
      /\ at \in [Log!Readers -> {"idle", "pop", "check", "create", "write", "done"}]
  BY <1>0 DEF LogInv, Log!TypeOK
<1>2. /\ l \in Lines /\ Tail(chain[r]) \in Seq(Lines) /\ Len(chain[r]) \in Nat
      /\ Len(Tail(chain[r])) = Len(chain[r]) - 1 /\ Len(chain[r]) # 0
  BY <1>1, HeadTailProperties, LenProperties, EmptySeq
<1>3. /\ chain'[r] = Tail(chain[r])
      /\ at'[r] = IF Len(chain[r]) > 1 THEN "check" ELSE "done"
      /\ \A u \in Log!Readers : u # r => chain'[u] = chain[u] /\ at'[u] = at[u]
  BY <1>0, <1>1
<1>4. at'[r] = "check" => chain'[r] # <<>>
  <2>1. PICK c \in Seq(Lines) : c = Tail(chain[r])
    BY <1>2
  <2>2. c = <<>> => Len(c) = 0
    BY EmptySeq
  <2> QED
    BY <1>2, <1>3, <2>1, <2>2
<1>5. at'[r] = "done" => chain'[r] = <<>>
  <2>1. PICK c \in Seq(Lines) : c = Tail(chain[r])
    BY <1>2
  <2>2. Len(c) = 0 => c = <<>>
    BY EmptySeq
  <2> QED
    BY <1>2, <1>3, <2>1, <2>2
<1>6. PICK rec \in Records :
        /\ written' = Append(written, rec) /\ rec.line = l
        /\ bad' \in BOOLEAN /\ (bad' => file # 0)
  <2> DEFINE kept == file # 0 /\ ((TRUE /\ ~ bad) \/ TRUE)
             is == file # 0 /\ (TRUE \/ kept)
             rec == [line |-> l, began |-> since[r], able |-> is, to |-> IF kept THEN file ELSE 0]
  <2>1. written' = Append(written, rec) /\ bad' = (file # 0 /\ ~ kept)
    BY DEF Log!WriteLine, Log!WriteFile, Log!ErrorHandling
  <2>2. since[r] \in 1 .. 1 /\ file \in 0 .. 1 /\ 0 \in 0 .. 1
    BY DEF LogInv, Log!TypeOK
  <2>3. is \in BOOLEAN
    OBVIOUS
  <2>4. bad' \in BOOLEAN /\ (bad' => file # 0)
    BY <2>1
  <2> HIDE DEF kept, is
  <2>5. rec \in Records /\ rec.line = l
    BY <1>2, <2>2, <2>3
  <2> QED
    BY <2>1, <2>4, <2>5
<1>7. Log!TypeOK'
  <2>1. chain' \in [Log!Readers -> Seq(Lines)]
    BY <1>0, <1>1, <1>2
  <2>2. at' \in [Log!Readers -> {"idle", "pop", "check", "create", "write", "done"}]
    BY <1>0, <1>1
  <2>3. \A u \in Log!Readers : at'[u] \in {"check", "create", "write"} => chain'[u] # <<>>
    BY <1>3, <1>4 DEF LogInv, Log!TypeOK
  <2>4. written' \in Seq(Records)
    BY <1>1, <1>6, AppendProperties
  <2>5. shown' \in Seq(Lines)
    <3>1. shown \in Seq(Lines)
      BY DEF LogInv, Log!TypeOK
    <3> HIDE DEF l
    <3> QED
      BY <1>0, <1>2, <3>1, AppendProperties
  <2> QED
    BY <1>0, <1>6, <2>1, <2>2, <2>3, <2>4, <2>5 DEF LogInv, Log!TypeOK
<1>8. Reading'
  BY <1>0, <1>3, <1>5 DEF LogInv, Reading, Log!Readers
<1>9. Log!Elements(Log!Handled)' = Log!Elements(Log!Handled) \cup {l}
  <2>1. /\ Len(written) \in Nat /\ DOMAIN written = 1 .. Len(written)
        /\ DOMAIN written' = 1 .. Len(written) + 1
        /\ \A i \in 1 .. Len(written) : written'[i] = written[i]
        /\ written'[Len(written) + 1] = rec
    BY <1>1, <1>6, AppendProperties, LenProperties
  <2>2. /\ Log!Elements(Log!Handled) = {written[i].line : i \in 1 .. Len(written)}
        /\ Log!Elements(Log!Handled)' = {written'[i].line : i \in 1 .. Len(written) + 1}
    BY <2>1 DEF Log!Elements, Log!Handled
  <2>3. 1 .. Len(written) + 1 = 1 .. Len(written) \cup {Len(written) + 1}
    BY <2>1
  <2> QED
    BY <1>6, <2>1, <2>2, <2>3
<1>10. Log!Elements(chain[r]) \subseteq {l} \cup Log!Elements(chain'[r])
  BY <1>1, <1>3, TailElements
<1>11. \A k : Reached(k) => Reached(k)'
  BY <1>3, <1>9, <1>10 DEF Reached, Log!Readers
<1>12. at'["flush"] \in {"check", "create", "write", "done"} =>
         at["flush"] \in {"check", "create", "write", "done"}
  BY <1>0, <1>3 DEF Log!Readers
<1>13. Kept'
  BY <1>0, <1>11, <1>12 DEF LogInv, Kept
<1> QED
  BY <1>0, <1>7, <1>8, <1>13 DEF LogInv

\* The other steps of the log thread and of the destructor move no line.
LEMMA MoveLog ==
  ASSUME LogInv,
         UNCHANGED <<queue, started, pc, chain, since, day, created, file, bad, console, arrived,
                     written, shown, hushed>>,
         \/ Log!Top \/ Log!Again \/ Log!Joined \/ Log!Deleted,
         phase # "deleted", before' = before
  PROVE  LogInv'
<1>1. Log!Handled' = Log!Handled
  BY DEF Log!Handled
<1>2. \A k : Reached(k)' <=> Reached(k)
  BY <1>1 DEF Reached
<1>3. CASE Log!Top
  <2>1. Log!TypeOK'
    BY <1>3 DEF Log!Top, LogInv, Log!TypeOK, Log!Readers
  <2>2. Reading'
    BY <1>3 DEF Log!Top, LogInv, Log!TypeOK, Reading, Log!Readers
  <2>3. phase' = phase /\ at'["flush"] = at["flush"]
    BY <1>3 DEF Log!Top, LogInv, Log!TypeOK, Log!Readers
  <2> QED
    BY <1>2, <2>1, <2>2, <2>3 DEF LogInv, Kept
<1>4. CASE Log!Again
  <2>1. Log!TypeOK'
    BY <1>4 DEF Log!Again, Log!threadVars, LogInv, Log!TypeOK, Log!Readers
  <2>2. Reading'
    BY <1>4 DEF Log!Again, Log!threadVars, LogInv, Log!TypeOK, Reading, Log!Readers
  <2>3. phase' = phase /\ at'["flush"] = at["flush"]
    BY <1>4 DEF Log!Again, Log!threadVars, LogInv, Log!TypeOK, Log!Readers
  <2> QED
    BY <1>2, <2>1, <2>2, <2>3 DEF LogInv, Kept
<1>5. CASE Log!Joined
  <2>1. Log!TypeOK'
    BY <1>5 DEF Log!Joined, LogInv, Log!TypeOK, Log!Readers
  <2>2. Reading'
    BY <1>5 DEF Log!Joined, LogInv, Log!TypeOK, Reading, Log!Readers
  <2>3. phase' = "flush" /\ at'["flush"] = "pop"
    BY <1>5 DEF Log!Joined, LogInv, Log!TypeOK, Log!Readers
  <2> QED
    BY <1>2, <2>1, <2>2, <2>3 DEF LogInv, Kept
<1>6. CASE Log!Deleted
  <2>1. Log!TypeOK'
    BY <1>6 DEF Log!Deleted, LogInv, Log!TypeOK, Log!Readers
  <2>2. Reading'
    BY <1>6 DEF Log!Deleted, LogInv, Log!TypeOK, Reading, Log!Readers
  <2>3. at["flush"] = "done"
    BY <1>6 DEF Log!Deleted
  <2> QED
    BY <1>2, <2>1, <2>2, <2>3 DEF LogInv, Kept
<1> QED
  BY <1>3, <1>4, <1>5, <1>6

LEMMA BeginDestroyLog == ASSUME LogInv, Log!BeginDestroy, before' = arrived PROVE LogInv'
<1> USE DEF Log!BeginDestroy, Log!logVars, Log!fileVars, Log!consoleVars
<1>1. Log!TypeOK' /\ before' \in Seq(Lines)
  BY DEF LogInv, Log!TypeOK
<1>2. Log!Handled' = Log!Handled
  BY DEF Log!Handled
<1>3. \A k : Reached(k)' <=> Reached(k)
  BY <1>2 DEF Reached
<1>4. Reading'
  BY DEF LogInv, Reading
<1>5. Kept'
  <2>1. phase' = "join" /\ at'["flush"] \notin {"check", "create", "write", "done"}
    BY DEF LogInv, Reading
  <2> QED
    BY <1>3, <2>1 DEF LogInv, Kept
<1> QED
  BY <1>1, <1>4, <1>5 DEF LogInv

LEMMA LogStep == LogInv /\ [Next]_vars => LogInv'
<1> SUFFICES ASSUME LogInv, [Next]_vars PROVE LogInv'
  OBVIOUS
<1>1. ASSUME NEW r \in Log!Readers, Log!Read(r), before' = before PROVE LogInv'
  BY <1>1, PopLog, CheckLog, WriteLineLog DEF Log!Read
<1>2. ASSUME Log!LogThread, phase # "deleted", before' = before PROVE LogInv'
  <2>1. Log!Top \/ Log!Again => UNCHANGED <<queue, started, pc, chain, since, day, created, file,
                                            bad, console, arrived, written, shown, hushed>>
    BY DEF Log!Top, Log!Again, Log!logVars, Log!fileVars, Log!consoleVars
  <2> QED
    BY <1>1, <1>2, <2>1, MoveLog DEF Log!LogThread, Log!Readers
<1>3. ASSUME Log!Destroy, before' = before PROVE LogInv'
  <2>1. Log!Joined \/ Log!Deleted =>
          UNCHANGED <<queue, started, pc, chain, since, day, created, file, bad, console, arrived,
                      written, shown, hushed>>
    BY DEF Log!Joined, Log!Deleted, Log!logVars, Log!fileVars, Log!consoleVars
  <2>2. Log!Joined \/ Log!Deleted => phase # "deleted"
    BY DEF Log!Joined, Log!Deleted, LogInv, Reading
  <2> QED
    BY <1>1, <1>3, <2>1, <2>2, MoveLog DEF Log!Destroy, Log!Readers
<1> QED
  BY <1>2, <1>3, LogCases, SameLog, EnqueueLog, WriteLog, BeginDestroyLog

LEMMA AlwaysLog == Spec => []LogInv
BY InitLog, LogStep, PTL DEF Spec

\* The mutex is held by the thread that is past it, the report file is open for
\* its holder alone, and the log is well formed whenever it is destroyed.
THEOREM TypeCorrect == Spec => []TypeOK
<1>1. Handlers /\ LogInv => TypeOK
  <2> SUFFICES ASSUME Handlers, LogInv PROVE TypeOK
    OBVIOUS
  <2>1. opened \in {owner, Nobody}
    BY DEF Handlers, Reporting, Locked
  <2> QED
    BY <2>1 DEF Handlers, LogInv, TypeOK, Steps, Parts
<1> QED
  BY <1>1, AlwaysHandlers, AlwaysLog, PTL

\* The filter for exceptions destroys the log wherever the log thread and the
\* writers are, and every line that was queued by then is written (AsyncLog's
\* destructor): a write that starts the log thread too late is the only way out.
THEOREM LinesBeforeTheCrash == Spec => []CrashLinesKept
<1>1. LogInv => CrashLinesKept
  <2> SUFFICES ASSUME LogInv, phase = "deleted", thread # "top",
                      NEW l \in Log!Elements(before)
               PROVE  l \in Log!Elements(Log!Handled)
    BY DEF CrashLinesKept
  <2>1. Reached(l)
    BY DEF LogInv, Kept
  <2>2. at["thread"] = "idle" /\ at["flush"] = "idle"
    BY DEF LogInv, Reading
  <2>3. chain["thread"] = <<>> /\ chain["flush"] = <<>>
    BY <2>2 DEF LogInv, Reading, Log!Readers
  <2> QED
    BY <2>1, <2>3, NoElements DEF Reached
<1> QED
  BY <1>1, AlwaysLog, PTL
===============================================================================
