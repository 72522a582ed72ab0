----------------------------- MODULE AsyncLogProofs -----------------------------
(***************************************************************************)
(* Theorems about AsyncLog, for any threads and lines, any number of days, *)
(* years of any length and a system that may fail or not.                  *)
(***************************************************************************)
EXTENDS AsyncLog, SequenceTheorems, TLAPS

\* One thread at most creates the log thread, and before the destructor begins.
Starting ==
    /\ phase # "open" => \A t \in Threads : pc[t] = "idle"
    /\ \A t \in Threads : pc[t] = "create" => started /\ thread = "none"
    /\ \A t, u \in Threads : pc[t] = "create" /\ pc[u] = "create" => t = u
    /\ thread # "none" => started

\* The log thread reads while it lives, the flush when it has ended.
OneReader ==
    /\ at["thread"] # "idle" => thread = "top"
    /\ at["flush"] # "idle" => phase = "flush"
    /\ phase \in {"flush", "deleted"} => thread # "top"
    /\ \A r \in Readers : at[r] \in {"idle", "pop", "done"} => chain[r] = <<>>

\* What the flush finds is all there is.
Flushed ==
    /\ at["flush"] \in {"check", "create", "write", "done"} => queue = <<>>
    /\ phase = "deleted" => queue = <<>>

Order == arrived = Handled \o (chain["thread"] \o (chain["flush"] \o queue))

\* The open file is of the last creation, and serves for the line it takes.
Dates ==
    /\ file \in {0, created} /\ created <= day
    /\ \A r \in Readers : since[r] <= day
    /\ \A r \in Readers : at[r] = "write" /\ file # 0 => Serves(file, since[r])

Inv == TypeOK /\ Starting /\ OneReader /\ Flushed /\ Dates

LEMMA InitInv == Init => Inv
<1> SUFFICES ASSUME Init PROVE Inv
  OBVIOUS
<1> USE LogAssumption DEF Init, ConsoleInit
<1>1. /\ 1 \in 1 .. MaxDay /\ 1 \in 0 .. MaxDay
      /\ <<>> \in Seq(Lines)
      /\ <<>> \in Seq([line : Lines, began : 1 .. MaxDay, able : BOOLEAN, to : 0 .. MaxDay])
  BY EmptySeq
<1>2. TypeOK
  BY <1>1 DEF TypeOK, Readers, Layouts
<1>3. Starting /\ OneReader /\ Flushed /\ Dates
  BY DEF Starting, OneReader, Flushed, Dates, Readers
<1> QED
  BY <1>2, <1>3 DEF Inv

\* All that the actions need to know of the constants.
LEMMA DaysCounted == MaxDay \in Nat \ {0}
  BY LogAssumption

LEMMA PushInv == ASSUME Inv, NEW t \in Threads, NEW l \in Lines, Push(t, l) PROVE Inv'
<1> USE DaysCounted DEF Inv, Push, Enqueue, logVars, threadVars, fileVars, consoleVars
<1>1. TypeOK'
  BY DEF TypeOK, Readers
<1>2. Starting'
  BY DEF TypeOK, Starting
<1>3. OneReader'
  BY DEF TypeOK, OneReader, Starting, Readers
<1>4. Flushed'
  BY DEF TypeOK, Flushed, OneReader, Readers
<1>5. Dates'
  BY DEF TypeOK, Dates, OneReader, Readers
<1> QED
  BY <1>1, <1>2, <1>3, <1>4, <1>5

LEMMA ExchangeInv == ASSUME Inv, NEW t \in Threads, Exchange(t) PROVE Inv'
<1> USE DaysCounted DEF Inv, Exchange, logVars, threadVars, fileVars, consoleVars
<1>1. TypeOK'
  BY DEF TypeOK, Readers
<1>2. Starting'
  BY DEF TypeOK, Starting
<1>3. OneReader'
  BY DEF TypeOK, OneReader, Starting, Readers
<1>4. Flushed'
  BY DEF TypeOK, Flushed, OneReader, Readers
<1>5. Dates'
  BY DEF TypeOK, Dates, OneReader, Readers
<1> QED
  BY <1>1, <1>2, <1>3, <1>4, <1>5

LEMMA CreateInv == ASSUME Inv, NEW t \in Threads, Create(t) PROVE Inv'
<1> USE DaysCounted DEF Inv, Create, logVars, threadVars, fileVars, consoleVars
<1>1. TypeOK'
  BY DEF TypeOK, Readers
<1>2. Starting'
  BY DEF TypeOK, Starting
<1>3. OneReader'
  BY DEF TypeOK, OneReader, Starting, Readers
<1>4. Flushed'
  BY DEF TypeOK, Flushed, OneReader, Readers
<1>5. Dates'
  BY DEF TypeOK, Dates, OneReader, Readers
<1> QED
  BY <1>1, <1>2, <1>3, <1>4, <1>5

LEMMA PopInv == ASSUME Inv, NEW r \in Readers, Pop(r) PROVE Inv'
<1> USE DaysCounted DEF Inv, Pop, logVars, threadVars, fileVars, consoleVars
<1>1. TypeOK'
  BY DEF TypeOK, Readers
<1>2. Starting'
  BY DEF TypeOK, Starting
<1>3. OneReader'
  BY DEF TypeOK, OneReader, Starting, Readers
<1>4. Flushed'
  BY DEF TypeOK, Flushed, OneReader, Readers
<1>5. Dates'
  BY DEF TypeOK, Dates, OneReader, Readers
<1> QED
  BY <1>1, <1>2, <1>3, <1>4, <1>5

LEMMA CheckInv == ASSUME Inv, NEW r \in Readers, Check(r) PROVE Inv'
<1> USE DaysCounted DEF Inv, Check, logVars, threadVars, fileVars, consoleVars
<1>1. TypeOK'
  BY DEF TypeOK, Readers
<1>2. Starting'
  BY DEF TypeOK, Starting
<1>3. OneReader'
  BY DEF TypeOK, OneReader, Starting, Readers
<1>4. Flushed'
  BY DEF TypeOK, Flushed, OneReader, Readers
<1>5. Dates'
  <2>1. /\ UNCHANGED <<day, created, file>>
        /\ \A q \in Readers : since'[q] = IF q = r THEN day ELSE since[q]
        /\ \A q \in Readers : at'[q] = "write"
                               => IF q = r THEN DayOfYear[created] = DayOfYear[day] ELSE at[q] = "write"
    BY DEF TypeOK
  <2>2. day \in Nat /\ file \in {0, created} /\ created <= day
    BY DEF TypeOK, Dates
  <2>3. file # 0 /\ DayOfYear[created] = DayOfYear[day] => Serves(file, day)
    BY <2>2 DEF Serves
  <2> QED
    BY <2>1, <2>2, <2>3 DEF Dates
<1> QED
  BY <1>1, <1>2, <1>3, <1>4, <1>5

LEMMA CreateFileInv == ASSUME Inv, NEW r \in Readers, CreateFile(r) PROVE Inv'
<1> USE DaysCounted DEF Inv, CreateFile, logVars, threadVars, fileVars, consoleVars
<1>1. TypeOK'
  <2>1. file' \in 0 .. MaxDay /\ created' \in 1 .. MaxDay /\ bad' = FALSE
    BY DEF TypeOK
  <2>2. /\ at' \in [Readers -> {"idle", "pop", "check", "create", "write", "done"}]
        /\ \A u \in Readers : at'[u] \in {"check", "create", "write"} => chain'[u] # <<>>
    BY DEF TypeOK
  <2> QED
    BY <2>1, <2>2 DEF TypeOK
<1>2. Starting'
  BY DEF TypeOK, Starting
<1>3. OneReader'
  BY DEF TypeOK, OneReader, Starting, Readers
<1>4. Flushed'
  BY DEF TypeOK, Flushed, OneReader, Readers
<1>5. Dates'
  <2>1. /\ created' = day /\ file' \in {0, day} /\ UNCHANGED <<day, since>>
        /\ \A q \in Readers : at'[q] = "write" => q = r
    BY DEF TypeOK, OneReader, Readers
  <2>2. day \in Nat /\ since[r] \in Nat /\ since[r] <= day
    BY DEF TypeOK, Dates
  <2>3. file' # 0 => Serves(file', since[r])
    BY <2>1, <2>2 DEF Serves
  <2> QED
    BY <2>1, <2>2, <2>3 DEF Dates
<1> QED
  BY <1>1, <1>2, <1>3, <1>4, <1>5

\* What a write adds to the history, and whether the stream is good after it
LEMMA WriteFileAdds ==
  ASSUME Inv, NEW r \in Readers, WriteLine(r)
  PROVE  \E rec \in [line : Lines, began : 1 .. MaxDay, able : BOOLEAN, to : 0 .. MaxDay] :
            /\ written' = Append(written, rec) /\ rec.line = Head(chain[r])
            /\ rec.to = 0 => ~ rec.able
            /\ rec.to # 0 => rec.to = file /\ rec.began = since[r]
            /\ bad' \in BOOLEAN /\ (bad' => file # 0)
<1> USE DaysCounted
<1>1. PICK text \in BOOLEAN, able \in BOOLEAN :
        LET kept == file # 0 /\ ((text /\ ~ bad) \/ able)
        IN  /\ written' = Append(written,
                  [line |-> Head(chain[r]), began |-> since[r], able |-> file # 0 /\ (able \/ kept),
                   to |-> IF kept THEN file ELSE 0])
            /\ bad' = (file # 0 /\ ~ kept)
  BY DEF WriteLine, WriteFile, ErrorHandling
<1> DEFINE kept == file # 0 /\ ((text /\ ~ bad) \/ able)
           is == file # 0 /\ (able \/ kept)
           rec == [line |-> Head(chain[r]), began |-> since[r], able |-> is,
                   to |-> IF kept THEN file ELSE 0]
<1>2. chain[r] \in Seq(Lines) /\ chain[r] # <<>> /\ at[r] = "write"
  BY DEF Inv, TypeOK, WriteLine
<1>3. Head(chain[r]) \in Lines
  BY <1>2, HeadTailProperties
<1>4. since[r] \in 1 .. MaxDay /\ file \in 0 .. MaxDay /\ 0 \in 0 .. MaxDay
  BY DEF Inv, TypeOK
<1>5. is \in BOOLEAN /\ kept \in BOOLEAN
  OBVIOUS
<1>6. (kept => file # 0) /\ (~ kept => ~ is)
  OBVIOUS
<1>7. written' = Append(written, rec) /\ bad' = (file # 0 /\ ~ kept)
  BY <1>1
<1>8. bad' \in BOOLEAN /\ (bad' => file # 0)
  BY <1>7
<1> HIDE DEF kept, is
<1>9. rec \in [line : Lines, began : 1 .. MaxDay, able : BOOLEAN, to : 0 .. MaxDay]
  BY <1>3, <1>4, <1>5
<1>10. /\ rec.line = Head(chain[r]) /\ rec.began = since[r] /\ rec.able = is
       /\ rec.to = IF kept THEN file ELSE 0
  OBVIOUS
<1> QED
  BY <1>6, <1>7, <1>8, <1>9, <1>10

LEMMA WriteLineInv == ASSUME Inv, NEW r \in Readers, WriteLine(r) PROVE Inv'
<1> USE DEF Inv
<1>0. /\ at[r] = "write" /\ chain' = [chain EXCEPT ![r] = Tail(@)]
      /\ at' = [at EXCEPT ![r] = IF Len(chain[r]) > 1 THEN "check" ELSE "done"]
      /\ Show(Head(chain[r]))
      /\ UNCHANGED <<queue, arrived, hushed, started, pc, run, thread, phase, since, day, created,
                     file, console>>
  BY DEF WriteLine, logVars, threadVars
<1>1. TypeOK'
  <2>1. chain[r] \in Seq(Lines) /\ chain[r] # <<>>
    BY <1>0 DEF TypeOK
  <2>2. /\ Head(chain[r]) \in Lines /\ Tail(chain[r]) \in Seq(Lines)
        /\ Len(Tail(chain[r])) = Len(chain[r]) - 1 /\ Len(chain[r]) \in Nat
    BY <2>1, HeadTailProperties, LenProperties
  <2>3. chain'[r] = Tail(chain[r]) /\ \A u \in Readers : u # r => chain'[u] = chain[u] /\ at'[u] = at[u]
    BY <1>0 DEF TypeOK
  <2>4. at'[r] # "done" => at'[r] = "check" /\ chain'[r] # <<>>
    <3>1. Len(chain[r]) > 1 => Tail(chain[r]) # <<>>
      <4> DEFINE c == Tail(chain[r])
      <4>1. Len(c) = Len(chain[r]) - 1 /\ Len(chain[r]) \in Nat
        BY <2>2
      <4> HIDE DEF c
      <4>2. c = <<>> => Len(c) = 0
        OBVIOUS
      <4>3. Len(chain[r]) > 1 => c # <<>>
        BY <4>1, <4>2
      <4> QED
        BY <4>3 DEF c
    <3> QED
      BY <1>0, <2>3, <3>1 DEF TypeOK
  <2>5. \A u \in Readers : at'[u] \in {"check", "create", "write"} => chain'[u] # <<>>
    BY <2>3, <2>4 DEF TypeOK
  <2>6. shown' \in Seq(Lines)
    BY <1>0, <2>2 DEF Show, TypeOK
  <2>7. /\ written' \in Seq([line : Lines, began : 1 .. MaxDay, able : BOOLEAN, to : 0 .. MaxDay])
        /\ bad' \in BOOLEAN /\ (bad' => file # 0)
    <3>1. PICK rec \in [line : Lines, began : 1 .. MaxDay, able : BOOLEAN, to : 0 .. MaxDay] :
            written' = Append(written, rec) /\ bad' \in BOOLEAN /\ (bad' => file # 0)
      BY WriteFileAdds
    <3>2. written \in Seq([line : Lines, began : 1 .. MaxDay, able : BOOLEAN, to : 0 .. MaxDay])
      BY DEF TypeOK
    <3> QED
      BY <3>1, <3>2, AppendProperties
  <2>8. /\ chain' \in [Readers -> Seq(Lines)]
        /\ at' \in [Readers -> {"idle", "pop", "check", "create", "write", "done"}]
    BY <1>0, <2>2 DEF TypeOK
  <2>9. /\ queue' \in Seq(Lines) /\ started' \in BOOLEAN
        /\ pc' \in [Threads -> {"idle", "start", "create"}]
        /\ run' \in BOOLEAN /\ thread' \in {"none", "top", "ended"}
        /\ phase' \in {"open", "join", "flush", "deleted"}
        /\ since' \in [Readers -> 1 .. MaxDay]
        /\ day' \in 1 .. MaxDay /\ created' \in 1 .. MaxDay /\ file' \in 0 .. MaxDay
        /\ arrived' \in Seq(Lines) /\ console' \in SUBSET Layouts /\ hushed' \in SUBSET Lines
    BY <1>0 DEF TypeOK
  <2>10. file' = file
    BY <1>0
  <2> QED
    BY <2>5, <2>6, <2>7, <2>8, <2>9, <2>10 DEF TypeOK
<1>2. Starting'
  BY <1>0 DEF TypeOK, Starting
<1>3. OneReader'
  <2>1. chain[r] \in Seq(Lines) /\ chain[r] # <<>>
    BY <1>0 DEF TypeOK
  <2>2. /\ Tail(chain[r]) \in Seq(Lines) /\ Len(chain[r]) \in Nat
        /\ Len(Tail(chain[r])) = Len(chain[r]) - 1 /\ Len(chain[r]) # 0
    BY <2>1, HeadTailProperties, LenProperties, EmptySeq
  <2>3. Len(chain[r]) <= 1 => Tail(chain[r]) = <<>>
    BY <2>2, EmptySeq
  <2> QED
    BY <1>0, <2>2, <2>3 DEF TypeOK, OneReader, Readers
<1>4. Flushed'
  BY <1>0 DEF TypeOK, Flushed, Readers
<1>5. Dates'
  BY <1>0 DEF TypeOK, Dates, Readers
<1> QED
  BY <1>1, <1>2, <1>3, <1>4, <1>5

LEMMA TopInv == ASSUME Inv, Top PROVE Inv'
<1> USE DaysCounted DEF Inv, Top, logVars, threadVars, fileVars, consoleVars
<1>1. TypeOK'
  BY DEF TypeOK, Readers
<1>2. Starting'
  BY DEF TypeOK, Starting
<1>3. OneReader'
  BY DEF TypeOK, OneReader, Starting, Readers
<1>4. Flushed'
  BY DEF TypeOK, Flushed, OneReader, Readers
<1>5. Dates'
  BY DEF TypeOK, Dates, OneReader, Readers
<1> QED
  BY <1>1, <1>2, <1>3, <1>4, <1>5

LEMMA AgainInv == ASSUME Inv, Again PROVE Inv'
<1> USE DaysCounted DEF Inv, Again, logVars, threadVars, fileVars, consoleVars
<1>1. TypeOK'
  BY DEF TypeOK, Readers
<1>2. Starting'
  BY DEF TypeOK, Starting
<1>3. OneReader'
  BY DEF TypeOK, OneReader, Starting, Readers
<1>4. Flushed'
  BY DEF TypeOK, Flushed, OneReader, Readers
<1>5. Dates'
  BY DEF TypeOK, Dates, OneReader, Readers
<1> QED
  BY <1>1, <1>2, <1>3, <1>4, <1>5

LEMMA JoinInv == ASSUME Inv, Join PROVE Inv'
<1> USE DaysCounted DEF Inv, Join, BeginDestroy, logVars, threadVars, fileVars, consoleVars
<1>1. TypeOK'
  BY DEF TypeOK, Readers
<1>2. Starting'
  BY DEF TypeOK, Starting
<1>3. OneReader'
  BY DEF TypeOK, OneReader, Starting, Readers
<1>4. Flushed'
  BY DEF TypeOK, Flushed, OneReader, Readers
<1>5. Dates'
  BY DEF TypeOK, Dates, OneReader, Readers
<1> QED
  BY <1>1, <1>2, <1>3, <1>4, <1>5

LEMMA JoinedInv == ASSUME Inv, Joined PROVE Inv'
<1> USE DaysCounted DEF Inv, Joined, logVars, threadVars, fileVars, consoleVars
<1>1. TypeOK'
  BY DEF TypeOK, Readers
<1>2. Starting'
  BY DEF TypeOK, Starting
<1>3. OneReader'
  BY DEF TypeOK, OneReader, Starting, Readers
<1>4. Flushed'
  BY DEF TypeOK, Flushed, OneReader, Readers
<1>5. Dates'
  BY DEF TypeOK, Dates, OneReader, Readers
<1> QED
  BY <1>1, <1>2, <1>3, <1>4, <1>5

LEMMA DeletedInv == ASSUME Inv, Deleted PROVE Inv'
<1> USE DaysCounted DEF Inv, Deleted, logVars, threadVars, fileVars, consoleVars
<1>1. TypeOK'
  BY DEF TypeOK, Readers
<1>2. Starting'
  BY DEF TypeOK, Starting, OneReader, Readers
<1>3. OneReader'
  BY DEF TypeOK, OneReader, Starting, Readers
<1>4. Flushed'
  BY DEF TypeOK, Flushed, OneReader, Readers
<1>5. Dates'
  BY DEF TypeOK, Dates, OneReader, Readers
<1> QED
  BY <1>1, <1>2, <1>3, <1>4, <1>5

LEMMA MidnightInv == ASSUME Inv, Midnight PROVE Inv'
<1> USE DaysCounted DEF Inv, Midnight, logVars, threadVars, fileVars, consoleVars
<1>1. TypeOK'
  BY DEF TypeOK, Readers
<1>2. Starting'
  BY DEF TypeOK, Starting
<1>3. OneReader'
  BY DEF TypeOK, OneReader, Starting, Readers
<1>4. Flushed'
  BY DEF TypeOK, Flushed, OneReader, Readers
<1>5. Dates'
  BY DEF TypeOK, Dates, OneReader, Readers
<1> QED
  BY <1>1, <1>2, <1>3, <1>4, <1>5

LEMMA UnregisterInv == ASSUME Inv, NEW layouts, Unregister(layouts) PROVE Inv'
<1> USE DaysCounted DEF Inv, Unregister, logVars, threadVars, fileVars, consoleVars
<1>1. TypeOK'
  BY DEF TypeOK, Readers
<1>2. Starting'
  BY DEF TypeOK, Starting
<1>3. OneReader'
  BY DEF TypeOK, OneReader, Starting, Readers
<1>4. Flushed'
  BY DEF TypeOK, Flushed, OneReader, Readers
<1>5. Dates'
  BY DEF TypeOK, Dates, OneReader, Readers
<1> QED
  BY <1>1, <1>2, <1>3, <1>4, <1>5


LEMMA NextInv == Inv /\ [Next]_vars => Inv'
<1> SUFFICES ASSUME Inv, [Next]_vars PROVE Inv'
  OBVIOUS
<1>1. ASSUME NEW t \in Threads, Write(t) PROVE Inv'
  BY <1>1, ExchangeInv, CreateInv DEF Write
<1>2. ASSUME NEW t \in Threads, NEW l \in Lines, Push(t, l) PROVE Inv'
  BY <1>2, PushInv
<1>3. ASSUME NEW r \in Readers, Read(r) PROVE Inv'
  BY <1>3, PopInv, CheckInv, CreateFileInv, WriteLineInv DEF Read
<1>4. CASE LogThread
  BY <1>3, <1>4, TopInv, AgainInv DEF LogThread, Readers
<1>5. CASE Destroy
  BY <1>3, <1>5, JoinedInv, DeletedInv DEF Destroy, Readers
<1>6. CASE Join \/ Midnight \/ TurnOffInfo \/ TurnOff
  BY <1>6, JoinInv, MidnightInv, UnregisterInv DEF TurnOffInfo, TurnOff
<1>7. CASE UNCHANGED vars
  BY <1>7 DEF vars, threadVars, fileVars, consoleVars, Inv, TypeOK, Starting, OneReader, Flushed,
              Dates
<1> QED
  BY <1>1, <1>2, <1>4, <1>5, <1>6, <1>7 DEF Next

LEMMA AlwaysInv == Spec => []Inv
BY InitInv, NextInv, PTL DEF Spec

\* The state of the log, its threads and its devices is well formed.
THEOREM TypeCorrect == Spec => []TypeOK
<1>1. Inv => TypeOK
  BY DEF Inv
<1> QED
  BY <1>1, AlwaysInv, PTL

-------------------------------------------------------------------------------
\* What a step adds to the history: nothing, or the record of one line
LEMMA WrittenStep ==
  ASSUME Inv, [Next]_vars, ~ UNCHANGED written
  PROVE  \E r \in Readers : WriteLine(r)
BY DEF Next, Write, Exchange, Create, Push, Enqueue, LogThread, Top, Again, Read, Pop, Check,
       CreateFile, Join, BeginDestroy, Destroy, Joined, Deleted, Midnight, TurnOffInfo, TurnOff,
       Unregister, Readers, vars

LEMMA FileStep == Inv /\ FileOfItsDay /\ [Next]_vars => FileOfItsDay'
<1> SUFFICES ASSUME Inv, FileOfItsDay, [Next]_vars PROVE FileOfItsDay'
  OBVIOUS
<1>1. CASE UNCHANGED written
  BY <1>1 DEF FileOfItsDay
<1>2. ASSUME NEW r \in Readers, WriteLine(r) PROVE FileOfItsDay'
  <2>1. PICK rec \in [line : Lines, began : 1 .. MaxDay, able : BOOLEAN, to : 0 .. MaxDay] :
          /\ written' = Append(written, rec)
          /\ rec.to = 0 => ~ rec.able
          /\ rec.to # 0 => rec.to = file /\ rec.began = since[r]
    BY <1>2, WriteFileAdds
  <2>2. written \in Seq([line : Lines, began : 1 .. MaxDay, able : BOOLEAN, to : 0 .. MaxDay])
    BY DEF Inv, TypeOK
  <2>3. /\ Len(written) \in Nat /\ DOMAIN written = 1 .. Len(written)
        /\ DOMAIN written' = 1 .. Len(written) + 1
        /\ \A i \in 1 .. Len(written) : written'[i] = written[i]
        /\ written'[Len(written) + 1] = rec
    BY <2>1, <2>2, AppendProperties, LenProperties
  <2>4. rec.to # 0 => Serves(rec.to, rec.began)
    BY <1>2, <2>1 DEF WriteLine, Inv, Dates
  <2>5. ASSUME NEW i \in DOMAIN written'
        PROVE  IF written'[i].to = 0 THEN ~ written'[i].able
               ELSE Serves(written'[i].to, written'[i].began)
    <3>1. CASE i \in 1 .. Len(written)
      BY <2>3, <3>1 DEF FileOfItsDay
    <3>2. CASE i = Len(written) + 1
      BY <2>1, <2>3, <2>4, <3>2
    <3> QED
      BY <2>3, <2>5, <3>1, <3>2
  <2> QED
    BY <2>5 DEF FileOfItsDay
<1> QED
  BY <1>1, <1>2, WrittenStep

\* However midnight falls between the two times a line's write asks for, and
\* whatever fails (DailyFileLog::onWrite and create, FileLog::errorHandling), no
\* line is in a file of an earlier day than its own, unless that has the same
\* tm_yday, and none is lost to a stream that failed before it.  It holds for any
\* number of days, however the years fall among them.
THEOREM FilesOfTheirDays == Spec => []FileOfItsDay
<1>1. Init => FileOfItsDay
  BY DEF Init, FileOfItsDay
<1> QED
  BY <1>1, FileStep, AlwaysInv, PTL DEF Spec

-------------------------------------------------------------------------------
\* ConcatAssociative for lines
LEMMA LinesAssociative == \A a, b, c \in Seq(Lines) : (a \o b) \o c = a \o (b \o c)
<1> SUFFICES ASSUME NEW a \in Seq(Lines), NEW b \in Seq(Lines), NEW c \in Seq(Lines)
             PROVE  (a \o b) \o c = a \o (b \o c)
  OBVIOUS
<1> QED
  BY ConcatAssociative

\* Moving a head to the end of the one before, of three in a line
LEMMA MoveHead ==
  ASSUME NEW a \in Seq(Lines), NEW b \in Seq(Lines), NEW c \in Seq(Lines), b # <<>>
  PROVE  Append(a, Head(b)) \o (Tail(b) \o c) = a \o (b \o c)
<1>1. /\ Head(b) \in Lines /\ Tail(b) \in Seq(Lines)
      /\ <<Head(b)>> \in Seq(Lines) /\ b = <<Head(b)>> \o Tail(b)
  BY HeadTailProperties, ConcatProperties
<1>2. Append(a, Head(b)) = a \o <<Head(b)>>
  BY <1>1, AppendIsConcat
<1>3. Tail(b) \o c \in Seq(Lines)
  BY <1>1, ConcatProperties
<1>4. (a \o <<Head(b)>>) \o (Tail(b) \o c) = a \o (<<Head(b)>> \o (Tail(b) \o c))
  BY <1>1, <1>3, LinesAssociative
<1>5. <<Head(b)>> \o (Tail(b) \o c) = (<<Head(b)>> \o Tail(b)) \o c
  BY <1>1, LinesAssociative
<1> QED
  BY <1>1, <1>2, <1>4, <1>5

LEMMA HandledTypes == ASSUME Inv PROVE Handled \in Seq(Lines)
<1>1. written \in Seq([line : Lines, began : 1 .. MaxDay, able : BOOLEAN, to : 0 .. MaxDay])
  BY DEF Inv, TypeOK
<1>2. Len(written) \in Nat /\ DOMAIN written = 1 .. Len(written)
  BY <1>1, LenProperties
<1>3. ASSUME NEW i \in 1 .. Len(written) PROVE written[i].line \in Lines
  <2>1. written[i] \in [line : Lines, began : 1 .. MaxDay, able : BOOLEAN, to : 0 .. MaxDay]
    BY <1>1, ElementOfSeq
  <2> QED
    BY <2>1
<1>4. Handled \in [1 .. Len(written) -> Lines]
  BY <1>2, <1>3 DEF Handled
<1> QED
  BY <1>2, <1>4, IsASeq

LEMMA HandledGrows ==
  ASSUME Inv, NEW r \in Readers, WriteLine(r)
  PROVE  Handled' = Append(Handled, Head(chain[r]))
<1>1. PICK rec \in [line : Lines, began : 1 .. MaxDay, able : BOOLEAN, to : 0 .. MaxDay] :
        written' = Append(written, rec) /\ rec.line = Head(chain[r])
  BY WriteFileAdds
<1>2. written \in Seq([line : Lines, began : 1 .. MaxDay, able : BOOLEAN, to : 0 .. MaxDay])
  BY DEF Inv, TypeOK
<1>3. /\ Len(written) \in Nat /\ DOMAIN written = 1 .. Len(written)
      /\ DOMAIN written' = 1 .. Len(written) + 1
      /\ \A i \in 1 .. Len(written) : written'[i] = written[i]
      /\ written'[Len(written) + 1] = rec
  BY <1>1, <1>2, AppendProperties, LenProperties
<1>4. Handled \in Seq(Lines) /\ Len(Handled) = Len(written)
  BY <1>3, HandledTypes, LenProperties DEF Handled
<1>5. rec.line \in Lines
  OBVIOUS
<1>6. /\ Append(Handled, rec.line) \in Seq(Lines)
      /\ DOMAIN Append(Handled, rec.line) = 1 .. Len(written) + 1
      /\ \A i \in 1 .. Len(written) : Append(Handled, rec.line)[i] = Handled[i]
      /\ Append(Handled, rec.line)[Len(written) + 1] = rec.line
  BY <1>4, <1>5, AppendProperties, LenProperties
<1>7. \A i \in 1 .. Len(written) + 1 : Handled'[i] = Append(Handled, rec.line)[i]
  BY <1>3, <1>6 DEF Handled
<1>8. DOMAIN Handled' = 1 .. Len(written) + 1
  BY <1>3 DEF Handled
<1> QED
  BY <1>1, <1>6, <1>7, <1>8 DEF Handled

LEMMA PushOrder == ASSUME Inv, Order, NEW t \in Threads, NEW l \in Lines, Push(t, l) PROVE Order'
<1>1. /\ arrived' = Append(arrived, l) /\ queue' = Append(queue, l)
      /\ chain' = chain /\ written' = written
  BY DEF Push, Enqueue
<1>2. Handled' = Handled
  BY <1>1 DEF Handled
<1>3. /\ chain["thread"] \in Seq(Lines) /\ chain["flush"] \in Seq(Lines) /\ queue \in Seq(Lines)
  BY DEF Inv, TypeOK, Readers
<1>4. Handled \in Seq(Lines)
  BY HandledTypes
<1>5. Append(Handled \o (chain["thread"] \o (chain["flush"] \o queue)), l)
        = Handled \o (chain["thread"] \o (chain["flush"] \o Append(queue, l)))
  <2>1. PICK a \in Seq(Lines), b \in Seq(Lines), c \in Seq(Lines), d \in Seq(Lines) :
          a = Handled /\ b = chain["thread"] /\ c = chain["flush"] /\ d = queue
    BY <1>3, <1>4
  <2>2. a \o (b \o (c \o Append(d, l))) = Append(a \o (b \o (c \o d)), l)
    <3>1. /\ Append(d, l) = d \o <<l>> /\ <<l>> \in Seq(Lines)
          /\ c \o d \in Seq(Lines) /\ b \o (c \o d) \in Seq(Lines)
          /\ a \o (b \o (c \o d)) \in Seq(Lines)
      BY AppendIsConcat, ConcatProperties
    <3>2. c \o (d \o <<l>>) = (c \o d) \o <<l>>
      BY <3>1, LinesAssociative
    <3>3. b \o ((c \o d) \o <<l>>) = (b \o (c \o d)) \o <<l>>
      BY <3>1, LinesAssociative
    <3>4. a \o ((b \o (c \o d)) \o <<l>>) = (a \o (b \o (c \o d))) \o <<l>>
      BY <3>1, LinesAssociative
    <3> QED
      BY <3>1, <3>2, <3>3, <3>4, AppendIsConcat
  <2> QED
    BY <2>1, <2>2
<1> QED
  BY <1>1, <1>2, <1>5 DEF Order

\* popQueue moves lines from the queue to a chain, not in their order.
LEMMA PopKeepsLine == ASSUME Inv, NEW r \in Readers, Pop(r) PROVE Pending' = Pending
<1>1. queue' = <<>> /\ at[r] = "pop" /\ chain' = [chain EXCEPT ![r] = queue]
  BY DEF Pop
<1>3. /\ chain \in [Readers -> Seq(Lines)] /\ queue \in Seq(Lines)
  BY DEF Inv, TypeOK
<1>4. chain["thread"] = <<>> /\ chain["flush"] = <<>>
  BY <1>1 DEF Inv, TypeOK, OneReader, Readers
<1>5. <<>> \o queue = queue /\ queue \o <<>> = queue /\ <<>> \o (<<>> \o queue) = queue
  BY <1>3, ConcatEmptySeq
<1>6. chain'["thread"] \o (chain'["flush"] \o queue') = queue
  <2>1. CASE r = "thread"
    <3>1. chain'["thread"] = queue /\ chain'["flush"] = <<>>
      BY <1>1, <1>3, <1>4, <2>1 DEF Readers
    <3>2. <<>> \o <<>> = <<>>
      BY ConcatEmptySeq, EmptySeq
    <3> QED
      BY <1>1, <1>5, <3>1, <3>2
  <2>2. CASE r = "flush"
    <3>1. chain'["thread"] = <<>> /\ chain'["flush"] = queue
      BY <1>1, <1>3, <1>4, <2>2 DEF Readers
    <3> QED
      BY <1>1, <1>5, <3>1
  <2> QED
    BY <2>1, <2>2 DEF Readers
<1>7. chain["thread"] \o (chain["flush"] \o queue) = queue
  BY <1>4, <1>5
<1> QED
  BY <1>6, <1>7 DEF Pending

LEMMA PopOrder == ASSUME Inv, Order, NEW r \in Readers, Pop(r) PROVE Order'
<1>1. arrived' = arrived /\ written' = written
  BY DEF Pop, logVars
<1>2. Handled' = Handled
  BY <1>1 DEF Handled
<1> QED
  BY <1>1, <1>2, PopKeepsLine DEF Order, Pending

LEMMA WriteOrder == ASSUME Inv, Order, NEW r \in Readers, WriteLine(r) PROVE Order'
<1>1. /\ arrived' = arrived /\ queue' = queue
      /\ at[r] = "write" /\ chain' = [chain EXCEPT ![r] = Tail(@)]
  BY DEF WriteLine, logVars
<1>2. /\ chain \in [Readers -> Seq(Lines)] /\ queue \in Seq(Lines) /\ chain[r] # <<>>
  BY <1>1 DEF Inv, TypeOK
<1>3. Handled' = Append(Handled, Head(chain[r])) /\ Handled \in Seq(Lines)
  BY HandledGrows, HandledTypes
<1>4. CASE r = "thread"
  <2>1. chain'["thread"] = Tail(chain["thread"]) /\ chain'["flush"] = chain["flush"]
    BY <1>1, <1>2, <1>4 DEF Readers
  <2>2. chain["flush"] \in Seq(Lines) /\ chain["flush"] \o queue \in Seq(Lines)
    BY <1>2, ConcatProperties DEF Readers
  <2>3. Append(Handled, Head(chain["thread"])) \o (Tail(chain["thread"]) \o (chain["flush"] \o queue))
          = Handled \o (chain["thread"] \o (chain["flush"] \o queue))
    <3>1. PICK a \in Seq(Lines), b \in Seq(Lines), c \in Seq(Lines) :
            a = Handled /\ b = chain["thread"] /\ c = chain["flush"] \o queue
      BY <1>2, <1>3, <1>4, <2>2
    <3>2. b # <<>>
      BY <1>2, <1>4, <3>1
    <3>3. Append(a, Head(b)) \o (Tail(b) \o c) = a \o (b \o c)
      BY <3>2, MoveHead
    <3> QED
      BY <3>1, <3>3
  <2> QED
    BY <1>1, <1>3, <1>4, <2>1, <2>3 DEF Order
<1>5. CASE r = "flush"
  <2>1. chain'["flush"] = Tail(chain["flush"]) /\ chain'["thread"] = chain["thread"]
    BY <1>1, <1>2, <1>5 DEF Readers
  <2>2. chain["thread"] = <<>>
    BY <1>1, <1>5 DEF Inv, TypeOK, OneReader, Readers
  <2>3. /\ Tail(chain["flush"]) \in Seq(Lines) /\ Tail(chain["flush"]) \o queue \in Seq(Lines)
        /\ chain["flush"] \o queue \in Seq(Lines)
    BY <1>2, <1>5, HeadTailProperties, ConcatProperties
  <2>4. /\ <<>> \o (Tail(chain["flush"]) \o queue) = Tail(chain["flush"]) \o queue
        /\ <<>> \o (chain["flush"] \o queue) = chain["flush"] \o queue
    BY <2>3, ConcatEmptySeq
  <2>5. Append(Handled, Head(chain["flush"])) \o (Tail(chain["flush"]) \o queue)
          = Handled \o (chain["flush"] \o queue)
    BY <1>2, <1>3, <1>5, MoveHead
  <2> QED
    BY <1>1, <1>3, <1>5, <2>1, <2>2, <2>4, <2>5 DEF Order
<1> QED
  BY <1>4, <1>5 DEF Readers

LEMMA OrderStep == Inv /\ Order /\ [Next]_vars => Order'
<1> SUFFICES ASSUME Inv, Order, [Next]_vars PROVE Order'
  OBVIOUS
<1>1. ASSUME NEW t \in Threads, NEW l \in Lines, Push(t, l) PROVE Order'
  BY <1>1, PushOrder
<1>2. ASSUME NEW r \in Readers, Pop(r) \/ WriteLine(r) PROVE Order'
  BY <1>2, PopOrder, WriteOrder
<1>3. CASE UNCHANGED <<arrived, queue, chain, written>>
  BY <1>3 DEF Order, Handled
<1>4. \/ \E t \in Threads, l \in Lines : Push(t, l)
      \/ \E r \in Readers : Pop(r) \/ WriteLine(r)
      \/ UNCHANGED <<arrived, queue, chain, written>>
  BY DEF Next, Write, Exchange, Create, LogThread, Top, Again, Read, Check, CreateFile, Join,
         BeginDestroy, Destroy, Joined, Deleted, Midnight, TurnOffInfo, TurnOff, Unregister,
         Readers, vars, logVars
<1> QED
  BY <1>1, <1>2, <1>3, <1>4

LEMMA AlwaysOrder == Spec => []Order
<1>1. Init => Order
  <2> SUFFICES ASSUME Init PROVE Order
    OBVIOUS
  <2>1. /\ arrived = <<>> /\ chain["thread"] = <<>> /\ chain["flush"] = <<>>
        /\ queue = <<>> /\ written = <<>>
    BY DEF Init, Readers
  <2>2. Handled = <<>>
    BY <2>1 DEF Handled
  <2>3. <<>> \o (<<>> \o (<<>> \o <<>>)) = <<>>
    BY ConcatEmptySeq, EmptySeq
  <2> QED
    BY <2>1, <2>2, <2>3 DEF Order
<1> QED
  BY <1>1, OrderStep, AlwaysInv, PTL DEF Spec

\* Whoever reads the queue, the log thread (LogThread::onRun) or the flush of the
\* destructor, and however the writers are interleaved: every line pushed is at
\* the device, in the chain of a reader or in the queue, once and in its place.
THEOREM LinesInOrderOnce == Spec => []InOrderOnce
<1>1. Inv /\ Order => InOrderOnce
  <2> SUFFICES ASSUME Inv, Order PROVE InOrderOnce
    OBVIOUS
  <2>1. /\ Handled \in Seq(Lines) /\ queue \in Seq(Lines)
        /\ chain["thread"] \in Seq(Lines) /\ chain["flush"] \in Seq(Lines)
    BY HandledTypes DEF Inv, TypeOK, Readers
  <2>2. PICK a \in Seq(Lines), b \in Seq(Lines), c \in Seq(Lines), d \in Seq(Lines) :
          a = Handled /\ b = chain["thread"] /\ c = chain["flush"] /\ d = queue
    BY <2>1
  <2>3. ((a \o b) \o c) \o d = a \o (b \o (c \o d))
    <3>1. a \o b \in Seq(Lines) /\ c \o d \in Seq(Lines)
      BY ConcatProperties
    <3>2. ((a \o b) \o c) \o d = (a \o b) \o (c \o d)
      BY <3>1, LinesAssociative
    <3>3. (a \o b) \o (c \o d) = a \o (b \o (c \o d))
      <4>1. PICK e \in Seq(Lines) : e = c \o d
        BY <3>1
      <4>2. (a \o b) \o e = a \o (b \o e)
        BY LinesAssociative
      <4> QED
        BY <4>1, <4>2
    <3> QED
      BY <3>2, <3>3
  <2> QED
    BY <2>2, <2>3 DEF Order, InOrderOnce
<1> QED
  BY <1>1, AlwaysInv, AlwaysOrder, PTL

\* When the destructor of AsyncLog is through, every line that was ever pushed
\* has been given to the device, whether or not the log thread was started.
THEOREM NoLineLeft == Spec => []NothingLeft
<1>1. Inv /\ Order => NothingLeft
  <2> SUFFICES ASSUME Inv, Order, phase = "deleted" PROVE Handled = arrived
    BY DEF NothingLeft
  <2>1. queue = <<>> /\ chain["thread"] = <<>> /\ chain["flush"] = <<>>
    BY DEF Inv, TypeOK, Flushed, OneReader, Readers
  <2>2. <<>> \o (<<>> \o <<>>) = <<>> /\ Handled \o <<>> = Handled
    BY HandledTypes, ConcatEmptySeq, EmptySeq
  <2> QED
    BY <2>1, <2>2 DEF Order
<1> QED
  BY <1>1, AlwaysInv, AlwaysOrder, PTL

-------------------------------------------------------------------------------
\* What is hushed stays turned off, and what is shown was written.
HushedOff == \A l \in hushed : LayoutOf(l) \notin console

LEMMA InStepStep == Inv /\ InStep /\ [Next]_vars => InStep'
<1> SUFFICES ASSUME Inv, InStep, [Next]_vars PROVE InStep'
  OBVIOUS
<1>1. CASE UNCHANGED <<shown, written>>
  BY <1>1 DEF InStep
<1>2. ASSUME NEW r \in Readers, WriteLine(r) PROVE InStep'
  <2>1. PICK rec \in [line : Lines, began : 1 .. MaxDay, able : BOOLEAN, to : 0 .. MaxDay] :
          written' = Append(written, rec) /\ rec.line = Head(chain[r])
    BY <1>2, WriteFileAdds
  <2>2. /\ written \in Seq([line : Lines, began : 1 .. MaxDay, able : BOOLEAN, to : 0 .. MaxDay])
        /\ shown \in Seq(Lines)
    BY DEF Inv, TypeOK
  <2>3. /\ Len(written) \in Nat /\ DOMAIN written = 1 .. Len(written)
        /\ DOMAIN written' = 1 .. Len(written) + 1
        /\ \A i \in 1 .. Len(written) : written'[i] = written[i]
        /\ written'[Len(written) + 1] = rec
    BY <2>1, <2>2, AppendProperties, LenProperties
  <2>4. PICK place \in [DOMAIN shown -> DOMAIN written] :
          /\ \A i \in DOMAIN shown : written[place[i]].line = shown[i]
          /\ \A i, j \in DOMAIN shown : i < j => place[i] < place[j]
    BY DEF InStep
  <2>5. CASE shown' = shown
    <3>1. place \in [DOMAIN shown' -> DOMAIN written']
      BY <2>3, <2>4, <2>5
    <3>2. \A i \in DOMAIN shown' : written'[place[i]].line = shown'[i]
      BY <2>3, <2>4, <2>5
    <3>3. \A i, j \in DOMAIN shown' : i < j => place[i] < place[j]
      BY <2>4, <2>5
    <3> QED
      BY <3>1, <3>2, <3>3 DEF InStep
  <2>6. CASE shown' = Append(shown, rec.line)
    <3>1. /\ Len(shown) \in Nat /\ DOMAIN shown = 1 .. Len(shown)
          /\ DOMAIN shown' = 1 .. Len(shown) + 1
          /\ \A i \in 1 .. Len(shown) : shown'[i] = shown[i]
          /\ shown'[Len(shown) + 1] = rec.line
      BY <2>2, <2>6, AppendProperties, LenProperties
    <3> DEFINE next == [i \in 1 .. Len(shown) + 1 |->
                          IF i \in 1 .. Len(shown) THEN place[i] ELSE Len(written) + 1]
    <3>2. next \in [DOMAIN shown' -> DOMAIN written']
      BY <2>3, <2>4, <3>1
    <3>3. /\ \A i \in 1 .. Len(shown) : next[i] = place[i] /\ next[i] \in 1 .. Len(written)
          /\ next[Len(shown) + 1] = Len(written) + 1
      BY <2>3, <2>4, <3>1
    <3> HIDE DEF next
    <3>4. \A i \in DOMAIN shown' : written'[next[i]].line = shown'[i]
      <4> SUFFICES ASSUME NEW i \in DOMAIN shown' PROVE written'[next[i]].line = shown'[i]
        OBVIOUS
      <4>1. CASE i \in 1 .. Len(shown)
        BY <2>3, <2>4, <3>1, <3>3, <4>1
      <4>2. CASE i = Len(shown) + 1
        BY <2>3, <3>1, <3>3, <4>2
      <4> QED
        BY <3>1, <4>1, <4>2
    <3>5. \A i, j \in DOMAIN shown' : i < j => next[i] < next[j]
      <4> SUFFICES ASSUME NEW i \in DOMAIN shown', NEW j \in DOMAIN shown', i < j
                   PROVE  next[i] < next[j]
        OBVIOUS
      <4>1. i \in 1 .. Len(shown)
        BY <3>1
      <4>2. CASE j \in 1 .. Len(shown)
        BY <2>4, <3>1, <3>3, <4>1, <4>2
      <4>3. CASE j = Len(shown) + 1
        BY <2>3, <3>3, <4>1, <4>3
      <4> QED
        BY <3>1, <4>2, <4>3
    <3> QED
      BY <3>2, <3>4, <3>5 DEF InStep
  <2>7. shown' = shown \/ shown' = Append(shown, rec.line)
    BY <1>2, <2>1 DEF WriteLine, Show
  <2> QED
    BY <2>5, <2>6, <2>7
<1>3. ~ UNCHANGED <<shown, written>> => \E r \in Readers : WriteLine(r)
  BY DEF Next, Write, Exchange, Create, Push, Enqueue, LogThread, Top, Again, Read, Pop, Check,
         CreateFile, Join, BeginDestroy, Destroy, Joined, Deleted, Midnight, TurnOffInfo, TurnOff,
         Unregister, Readers, vars, consoleVars
<1> QED
  BY <1>1, <1>2, <1>3

LEMMA ShownArrived == Inv /\ Order /\ InStep => Elements(shown) \subseteq Elements(arrived)
<1> SUFFICES ASSUME Inv, Order, InStep, NEW i \in DOMAIN shown PROVE shown[i] \in Elements(arrived)
  BY DEF Elements
<1>1. PICK k \in DOMAIN written : written[k].line = shown[i]
  BY DEF InStep
<1>2. /\ Handled \in Seq(Lines) /\ queue \in Seq(Lines)
      /\ chain["thread"] \in Seq(Lines) /\ chain["flush"] \in Seq(Lines)
  BY HandledTypes DEF Inv, TypeOK, Readers
<1>3. PICK rest \in Seq(Lines) : arrived = Handled \o rest
  BY <1>2, ConcatProperties DEF Order
<1>4. k \in DOMAIN Handled /\ Handled[k] = shown[i]
  BY <1>1 DEF Handled
<1>5. k \in DOMAIN arrived /\ arrived[k] = Handled[k]
  BY <1>2, <1>3, <1>4, ConcatProperties, LenProperties
<1> QED
  BY <1>4, <1>5 DEF Elements

LEMMA HushedStep ==
  Inv /\ Order /\ InStep /\ HushedOff /\ Elements(shown) \cap hushed = {} /\ [Next]_vars
    => HushedOff' /\ (Elements(shown) \cap hushed = {})'
<1> SUFFICES ASSUME Inv, Order, InStep, HushedOff, Elements(shown) \cap hushed = {}, [Next]_vars
             PROVE  HushedOff' /\ (Elements(shown) \cap hushed = {})'
  OBVIOUS
<1>1. ASSUME NEW t \in Threads, NEW l \in Lines, Push(t, l)
      PROVE  HushedOff' /\ (Elements(shown) \cap hushed = {})'
  <2>1. /\ shown' = shown /\ console' = console /\ l \notin Elements(arrived)
        /\ hushed' = IF LayoutOf(l) \in console THEN hushed ELSE hushed \cup {l}
    BY <1>1 DEF Push, Enqueue, consoleVars
  <2>2. l \notin Elements(shown)
    BY <2>1, ShownArrived
  <2>3. HushedOff'
    BY <2>1 DEF HushedOff, LayoutOf
  <2> QED
    BY <2>1, <2>2, <2>3 DEF Elements
<1>2. ASSUME NEW r \in Readers, WriteLine(r)
      PROVE  HushedOff' /\ (Elements(shown) \cap hushed = {})'
  <2>1. /\ hushed' = hushed /\ console' = console /\ Show(Head(chain[r]))
    BY <1>2 DEF WriteLine, logVars
  <2>2. chain[r] \in Seq(Lines) /\ chain[r] # <<>> /\ shown \in Seq(Lines)
    BY <1>2 DEF WriteLine, Inv, TypeOK
  <2>3. Head(chain[r]) \in Lines
    BY <2>2, HeadTailProperties
  <2>4. CASE shown' = shown
    BY <2>1, <2>4 DEF HushedOff, Elements
  <2>5. CASE Passes(Head(chain[r])) /\ shown' = Append(shown, Head(chain[r]))
    <3>1. Head(chain[r]) \notin hushed
      BY <2>5 DEF HushedOff, Passes
    <3>2. /\ DOMAIN shown = 1 .. Len(shown) /\ Len(shown) \in Nat
          /\ DOMAIN shown' = 1 .. Len(shown) + 1
          /\ \A i \in 1 .. Len(shown) : shown'[i] = shown[i]
          /\ shown'[Len(shown) + 1] = Head(chain[r])
      BY <2>2, <2>3, <2>5, AppendProperties, LenProperties
    <3>3. \A i \in DOMAIN shown' : shown'[i] \notin hushed
      <4> SUFFICES ASSUME NEW i \in DOMAIN shown' PROVE shown'[i] \notin hushed
        OBVIOUS
      <4>1. CASE i \in 1 .. Len(shown)
        BY <3>2, <4>1 DEF Elements
      <4>2. CASE i = Len(shown) + 1
        BY <3>1, <3>2, <4>2
      <4> QED
        BY <3>2, <4>1, <4>2
    <3> QED
      BY <2>1, <3>3 DEF HushedOff, Elements
  <2> QED
    BY <2>1, <2>4, <2>5 DEF Show
<1>3. ASSUME NEW layouts, Unregister(layouts)
      PROVE  HushedOff' /\ (Elements(shown) \cap hushed = {})'
  BY <1>3 DEF Unregister, HushedOff, LayoutOf, logVars, Elements
<1>4. CASE UNCHANGED <<shown, hushed, console>>
  BY <1>4 DEF HushedOff, Elements, LayoutOf
<1>5. \/ \E t \in Threads, l \in Lines : Push(t, l)
      \/ \E r \in Readers : WriteLine(r)
      \/ TurnOffInfo \/ TurnOff
      \/ UNCHANGED <<shown, hushed, console>>
  BY DEF Next, Write, Exchange, Create, LogThread, Top, Again, Read, Pop, Check, CreateFile, Join,
         BeginDestroy, Destroy, Joined, Deleted, Midnight, Readers, vars, logVars, consoleVars
<1> QED
  BY <1>1, <1>2, <1>3, <1>4, <1>5 DEF TurnOffInfo, TurnOff

\* A console that was turned off (turnoffConsole, turnoffConsoleLogInfo) shows no
\* line that is written afterwards, though the log thread asks its filter late and
\* lines from before are still queued; and what it shows is in step with the file.
THEOREM TurnedOffIsQuiet == Spec => []QuietOnceOff
<1> DEFINE Quiet == HushedOff /\ Elements(shown) \cap hushed = {}
<1>1. Init => InStep /\ Quiet
  <2> SUFFICES ASSUME Init PROVE InStep /\ Quiet
    OBVIOUS
  <2>1. shown = <<>> /\ written = <<>> /\ hushed = {}
    BY DEF Init, ConsoleInit
  <2>2. DOMAIN shown = {}
    BY <2>1
  <2>3. InStep
    <3> DEFINE place == [i \in DOMAIN shown |-> i]
    <3>1. place \in [DOMAIN shown -> DOMAIN written]
      BY <2>2
    <3> HIDE DEF place
    <3>2. \A i \in DOMAIN shown : FALSE
      BY <2>2
    <3> QED
      BY <3>1, <3>2 DEF InStep
  <2> QED
    BY <2>1, <2>3 DEF HushedOff
<1>2. Inv /\ Order /\ InStep /\ Quiet /\ [Next]_vars => InStep' /\ Quiet'
  BY InStepStep, HushedStep
<1>3. InStep /\ Quiet => QuietOnceOff
  BY DEF QuietOnceOff
<1> HIDE DEF Quiet
<1> QED
  BY <1>1, <1>2, <1>3, AlwaysInv, AlwaysOrder, PTL DEF Spec

-------------------------------------------------------------------------------
\* What is not handled yet, as one line
LEMMA OneLine ==
  ASSUME Inv
  PROVE  /\ chain \in [Readers -> Seq(Lines)] /\ queue \in Seq(Lines)
         /\ chain["flush"] \o queue \in Seq(Lines) /\ Pending \in Seq(Lines)
<1>1. chain \in [Readers -> Seq(Lines)] /\ queue \in Seq(Lines)
  BY DEF Inv, TypeOK
<1>2. chain["thread"] \in Seq(Lines) /\ chain["flush"] \in Seq(Lines)
  BY <1>1 DEF Readers
<1>3. chain["flush"] \o queue \in Seq(Lines)
  BY <1>1, <1>2, ConcatProperties
<1> QED
  BY <1>1, <1>2, <1>3, ConcatProperties DEF Pending

\* The head of two sequences in a line
LEMMA HeadOfTwo ==
  ASSUME NEW a \in Seq(Lines), NEW b \in Seq(Lines), a # <<>>
  PROVE  a \o b # <<>> /\ Head(a \o b) = Head(a) /\ Tail(a \o b) = Tail(a) \o b
<1>1. /\ Head(a) \in Lines /\ Tail(a) \in Seq(Lines)
      /\ <<Head(a)>> \in Seq(Lines) /\ a = <<Head(a)>> \o Tail(a)
      /\ Len(a) \in Nat /\ Len(a) > 0 /\ Len(b) \in Nat
  BY HeadTailProperties, ConcatProperties, LenProperties, EmptySeq
<1>2. /\ a \o b \in Seq(Lines) /\ Len(a \o b) = Len(a) + Len(b)
      /\ (a \o b)[1] = a[1]
  BY <1>1, ConcatProperties
<1>3. a \o b # <<>> /\ Head(a \o b) = Head(a)
  BY <1>1, <1>2, HeadTailProperties, EmptySeq
<1>4. a \o b = <<Head(a)>> \o (Tail(a) \o b) /\ Tail(a) \o b \in Seq(Lines)
  BY <1>1, ConcatAssociative, ConcatProperties
<1>5. a \o b = <<Head(a \o b)>> \o Tail(a \o b) /\ Tail(a \o b) \in Seq(Lines)
  BY <1>2, <1>3, HeadTailProperties, ConcatProperties
<1>6. Tail(a \o b) = Tail(a) \o b
  BY <1>1, <1>3, <1>4, <1>5, ConcatSimplifications
<1> QED
  BY <1>3, <1>6

\* Only one reader is inside onRun.
LEMMA OnlyReader ==
  ASSUME Inv, NEW r \in Readers, at[r] # "idle", NEW q \in Readers, q # r
  PROVE  at[q] = "idle" /\ chain[q] = <<>>
BY DEF Inv, OneReader, Readers

\* The line that reader r is at is the head of what is not handled.
LEMMA ReaderAtHead ==
  ASSUME Inv, NEW r \in Readers, at[r] \in {"check", "create", "write"}
  PROVE  Pending = chain[r] \o (IF r = "thread" THEN chain["flush"] \o queue ELSE queue)
         /\ Pending # <<>> /\ Head(Pending) = Head(chain[r])
<1>1. chain[r] \in Seq(Lines) /\ chain[r] # <<>>
  BY DEF Inv, TypeOK
<1>2. CASE r = "thread"
  BY <1>1, <1>2, OneLine, HeadOfTwo DEF Pending
<1>3. CASE r = "flush"
  <2>1. chain["thread"] = <<>>
    BY <1>3, OnlyReader DEF Readers
  <2>2. Pending = chain["flush"] \o queue
    BY <2>1, OneLine, ConcatEmptySeq DEF Pending
  <2> QED
    BY <1>1, <1>3, <2>2, OneLine, HeadOfTwo
<1> QED
  BY <1>2, <1>3 DEF Readers

LEMMA Stutters ==
  ASSUME Begun' = Begun, Pending' = Pending, Handled' = Handled
  PROVE  UNCHANGED Abstract!vars
BY DEF Abstract!vars

\* What is handled and what is pending has arrived.
LEMMA ElementsOfBoth ==
  ASSUME NEW a \in Seq(Lines), NEW b \in Seq(Lines)
  PROVE  Elements(a) \subseteq Elements(a \o b) /\ Elements(b) \subseteq Elements(a \o b)
<1>1. /\ Len(a) \in Nat /\ Len(b) \in Nat /\ Len(a \o b) = Len(a) + Len(b)
      /\ DOMAIN a = 1 .. Len(a) /\ DOMAIN b = 1 .. Len(b)
      /\ DOMAIN (a \o b) = 1 .. Len(a) + Len(b)
      /\ \A i \in 1 .. Len(a) + Len(b) : (a \o b)[i] = IF i <= Len(a) THEN a[i] ELSE b[i - Len(a)]
  BY ConcatProperties, LenProperties
<1>2. PICK c : c = a \o b
  OBVIOUS
<1>3. PICK n \in Nat, m \in Nat : n = Len(a) /\ m = Len(b)
  BY <1>1
<1>4. ASSUME NEW i \in 1 .. n PROVE i \in DOMAIN c /\ c[i] = a[i]
  BY <1>1, <1>2, <1>3
<1>5. ASSUME NEW i \in 1 .. m PROVE n + i \in DOMAIN c /\ c[n + i] = b[i]
  BY <1>1, <1>2, <1>3
<1>6. DOMAIN a = 1 .. n /\ DOMAIN b = 1 .. m
  BY <1>1, <1>3
<1>7. Elements(a) \subseteq Elements(c) /\ Elements(b) \subseteq Elements(c)
  BY <1>4, <1>5, <1>6 DEF Elements
<1> QED
  BY <1>2, <1>7

LEMMA RefinesStep ==
  ASSUME Inv, Order, [Next]_vars
  PROVE  [Abstract!Next]_(Abstract!vars)
<1>t. /\ TypeOK /\ chain \in [Readers -> Seq(Lines)] /\ queue \in Seq(Lines)
      /\ Pending \in Seq(Lines) /\ Handled \in Seq(Lines)
      /\ at \in [Readers -> {"idle", "pop", "check", "create", "write", "done"}]
  BY OneLine, HandledTypes DEF Inv, TypeOK
<1>1. ASSUME UNCHANGED <<chain, queue, written>>, Begun' = Begun PROVE UNCHANGED Abstract!vars
  BY <1>1, Stutters DEF Pending, Handled
<1>2. ASSUME NEW t \in Threads, NEW l \in Lines, Push(t, l)
      PROVE  Abstract!Accept(l)
  <2>1. /\ l \notin Elements(arrived) /\ queue' = Append(queue, l)
        /\ UNCHANGED <<at, chain, written>>
    BY <1>2 DEF Push, Enqueue
  <2>2. Begun' = Begun /\ Handled' = Handled
    BY <2>1 DEF Begun, Handled
  <2>3. Pending' = Append(Pending, l)
    <3>1. /\ chain["thread"] \in Seq(Lines) /\ chain["flush"] \in Seq(Lines)
      BY <1>t DEF Readers
    <3>2. PICK b \in Seq(Lines), c \in Seq(Lines), d \in Seq(Lines) :
            b = chain["thread"] /\ c = chain["flush"] /\ d = queue
      BY <3>1, <1>t
    <3>3. /\ Append(d, l) = d \o <<l>> /\ <<l>> \in Seq(Lines)
          /\ c \o d \in Seq(Lines) /\ b \o (c \o d) \in Seq(Lines)
      BY AppendIsConcat, ConcatProperties
    <3>4. c \o (d \o <<l>>) = (c \o d) \o <<l>>
      BY <3>3, LinesAssociative
    <3>5. b \o ((c \o d) \o <<l>>) = (b \o (c \o d)) \o <<l>>
      BY <3>3, LinesAssociative
    <3> QED
      BY <2>1, <3>2, <3>3, <3>4, <3>5, AppendIsConcat DEF Pending
  <2>4. Elements(Handled) \subseteq Elements(arrived) /\ Elements(Pending) \subseteq Elements(arrived)
    BY <1>t, ElementsOfBoth DEF Order, Pending
  <2>5. \A s \in {Handled, Pending} : \A i \in DOMAIN s : s[i] # l
    BY <2>1, <2>4 DEF Elements
  <2>6. CASE ~ Begun
    BY <2>2, <2>3, <2>5, <2>6 DEF Abstract!Accept
  <2>7. CASE Begun
    <3>1. Pending # <<>>
      BY <2>7, ReaderAtHead DEF Begun
    <3>2. PICK p \in Seq(Lines) : p = Pending
      BY <1>t
    <3>3. /\ 1 \in DOMAIN p /\ Head(p) = p[1]
          /\ \A i \in DOMAIN Tail(p) : i + 1 \in DOMAIN p /\ Tail(p)[i] = p[i + 1]
      BY <3>1, <3>2
    <3>4. Head(Append(p, l)) = Head(p) /\ Tail(Append(p, l)) = Append(Tail(p), l)
      <4>1. /\ <<l>> \in Seq(Lines) /\ Append(p, l) = p \o <<l>>
            /\ Tail(p) \in Seq(Lines) /\ Append(Tail(p), l) = Tail(p) \o <<l>>
        BY <3>1, <3>2, AppendIsConcat
      <4> QED
        BY <4>1, <3>1, <3>2, HeadOfTwo
    <3>5. \A s \in {Tail(Pending), <<Head(Pending)>>, Handled} : \A i \in DOMAIN s : s[i] # l
      BY <2>5, <3>2, <3>3
    <3> QED
      BY <2>2, <2>3, <2>7, <3>2, <3>4, <3>5 DEF Abstract!Accept
  <2> QED
    BY <2>6, <2>7
<1>3. ASSUME NEW r \in Readers, Pop(r) PROVE UNCHANGED Abstract!vars
  <2>1. /\ at[r] = "pop" /\ at'[r] \in {"done", "check"} /\ written' = written
        /\ \A q \in Readers : q # r => at'[q] = at[q]
    BY <1>3, <1>t DEF Pop
  <2>2. Begun' = Begun
    BY <2>1, OnlyReader DEF Begun
  <2>3. Pending' = Pending /\ Handled' = Handled
    BY <1>3, <2>1, PopKeepsLine DEF Handled
  <2> QED
    BY <2>2, <2>3, Stutters
<1>4. ASSUME NEW r \in Readers, Check(r) PROVE Abstract!Start
  <2>1. /\ at[r] = "check" /\ at'[r] \in {"create", "write"} /\ UNCHANGED <<chain, queue, written>>
        /\ \A q \in Readers : q # r => at'[q] = at[q]
    BY <1>4, <1>t DEF Check, logVars
  <2>2. ~ Begun /\ Begun'
    BY <2>1, OnlyReader DEF Begun
  <2>3. Pending' = Pending /\ Pending # <<>> /\ Handled' = Handled
    BY <2>1, ReaderAtHead DEF Pending, Handled
  <2> QED
    BY <2>2, <2>3 DEF Abstract!Start
<1>5. ASSUME NEW r \in Readers, CreateFile(r) PROVE UNCHANGED Abstract!vars
  <2>1. /\ at[r] = "create" /\ at'[r] = "write" /\ UNCHANGED <<chain, queue, written>>
    BY <1>5, <1>t DEF CreateFile, logVars
  <2>2. Begun /\ Begun'
    BY <2>1 DEF Begun
  <2> QED
    BY <1>1, <2>1, <2>2
<1>6. ASSUME NEW r \in Readers, WriteLine(r) PROVE Abstract!Finish
  <2>1. /\ at[r] = "write" /\ at'[r] \in {"check", "done"} /\ queue' = queue
        /\ chain' = [chain EXCEPT ![r] = Tail(@)]
        /\ \A q \in Readers : q # r => at'[q] = at[q]
    BY <1>6, <1>t DEF WriteLine, logVars
  <2>2. Begun /\ ~ Begun'
    BY <2>1, OnlyReader DEF Begun
  <2>3. chain[r] # <<>> /\ chain[r] \in Seq(Lines)
    BY <2>1, <1>t DEF TypeOK
  <2>4. Head(Pending) = Head(chain[r])
    BY <2>1, ReaderAtHead
  <2>5. Pending' = Tail(Pending)
    <3>1. CASE r = "thread"
      <4>1. chain'["thread"] = Tail(chain["thread"]) /\ chain'["flush"] = chain["flush"]
        BY <2>1, <1>t, <3>1 DEF Readers
      <4> QED
        BY <2>1, <2>3, <3>1, <4>1, OneLine, HeadOfTwo DEF Pending
    <3>2. CASE r = "flush"
      <4>1. chain["thread"] = <<>>
        BY <2>1, <3>2, OnlyReader DEF Readers
      <4>2. chain'["thread"] = <<>> /\ chain'["flush"] = Tail(chain["flush"])
        BY <2>1, <1>t, <3>2, <4>1 DEF Readers
      <4>3. Tail(chain["flush"]) \o queue \in Seq(Lines)
        BY <2>3, <3>2, <1>t, HeadTailProperties, ConcatProperties
      <4>4. Pending = chain["flush"] \o queue
        BY <4>1, OneLine, ConcatEmptySeq DEF Pending
      <4>5. Pending' = Tail(chain["flush"]) \o queue
        BY <2>1, <4>2, <4>3, ConcatEmptySeq DEF Pending
      <4> QED
        BY <2>3, <3>2, <4>4, <4>5, <1>t, HeadOfTwo
    <3> QED
      BY <3>1, <3>2 DEF Readers
  <2>6. Handled' = Handled \o <<Head(Pending)>>
    <3>1. Handled' = Append(Handled, Head(chain[r]))
      BY <1>6, HandledGrows
    <3>2. Head(chain[r]) \in Lines
      BY <2>3, HeadTailProperties
    <3> QED
      BY <2>4, <3>1, <3>2, <1>t, AppendIsConcat
  <2> QED
    BY <2>2, <2>5, <2>6 DEF Abstract!Finish
<1>7. ASSUME UNCHANGED <<chain, queue, written>>,
             \A r \in Readers : at'[r] = at[r] \/ (at[r] \in {"idle", "done"} /\ at'[r] \in {"idle", "pop"})
      PROVE  UNCHANGED Abstract!vars
  <2>1. Begun' = Begun
    BY <1>7 DEF Begun
  <2> QED
    BY <1>1, <1>7, <2>1
<1>8. CASE Top \/ Again \/ Join \/ Joined \/ Deleted \/ Midnight \/ TurnOffInfo \/ TurnOff
  <2>1. UNCHANGED <<chain, queue, written>>
    BY <1>8 DEF Top, Again, Join, BeginDestroy, Joined, Deleted, Midnight, TurnOffInfo, TurnOff,
       Unregister, logVars
  <2>2. \A r \in Readers : at'[r] = at[r] \/ (at[r] \in {"idle", "done"} /\ at'[r] \in {"idle", "pop"})
    <3>1. CASE Top \/ Again \/ Deleted
      BY <3>1, <1>t DEF Top, Again, Deleted
    <3>2. CASE Joined
      BY <3>2, <1>t DEF Joined, Inv, OneReader
    <3>3. CASE Join \/ Midnight \/ TurnOffInfo \/ TurnOff
      BY <3>3 DEF Join, BeginDestroy, Midnight, TurnOffInfo, TurnOff, Unregister
    <3> QED
      BY <1>8, <3>1, <3>2, <3>3
  <2> QED
    BY <1>7, <2>1, <2>2
<1>9. ASSUME NEW t \in Threads, Write(t) PROVE UNCHANGED Abstract!vars
  BY <1>7, <1>9 DEF Write, Exchange, Create
<1>10. CASE UNCHANGED vars
  BY <1>7, <1>10 DEF vars
<1> QED
  BY <1>2, <1>3, <1>4, <1>5, <1>6, <1>8, <1>9, <1>10
  DEF Next, LogThread, Destroy, Read, Readers, Abstract!Next

LEMMA RefinesInit == Init => Abstract!Init
<1> SUFFICES ASSUME Init PROVE Abstract!Init
  OBVIOUS
<1>1. /\ chain["thread"] = <<>> /\ chain["flush"] = <<>> /\ queue = <<>> /\ ~ Begun /\ Handled = <<>>
  BY DEF Init, Readers, Begun, Handled
<1>2. <<>> \o (<<>> \o <<>>) = <<>>
  BY ConcatEmptySeq, EmptySeq
<1> QED
  BY <1>1, <1>2 DEF Abstract!Init, Pending

\* The log does for lines what a serializer does for jobs: although the log thread and
\* the flush of the destructor both run LogThread::onRun, the devices get one line at
\* a time, each once, in the order of the pushes.
THEOREM Refines == Spec => ImplementsSerialExecutor
<1>1. Inv /\ Order /\ [Next]_vars => [Abstract!Next]_(Abstract!vars)
  BY RefinesStep
<1> QED
  BY <1>1, RefinesInit, AlwaysInv, AlwaysOrder, PTL
  DEF Spec, Abstract!Spec, ImplementsSerialExecutor
===============================================================================
