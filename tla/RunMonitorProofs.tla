-------------------------- MODULE RunMonitorProofs --------------------------
(***************************************************************************)
(* The safety of RunMonitor, for every length of the stream, whatever      *)
(* Redis trims or loses, and for any number of visits, cancel calls and    *)
(* faults.                                                                 *)
(*                                                                         *)
(* What the page shows comes from four places: the row as a thread detail  *)
(* or a cancel response read it, the entries of the stream, the frames     *)
(* made up from the row, and earlier visits.  The invariant says of each   *)
(* what it may still tell the page.                                        *)
(***************************************************************************)
EXTENDS RunMonitor, TLAPS

-----------------------------------------------------------------------------
(* The stream.                                                             *)

\* An interaction and an end tell of the row's decision.
LogTellsRow ==
  \A i \in 1..Len(log) :
    /\ log[i].type = "end" => status \in Terminal /\ log[i].status = status
    /\ log[i].type = "interaction" => status = "interrupted"

NoneOf(type, n) == \A i \in 1..n : log[i].type # type

\* How the stream of an interrupted run ends: before its question, with the
\* question, and with one or two ends behind it.
Unasked == NoneOf("interaction", Len(log)) /\ NoneOf("end", Len(log))

AskedLast ==
  Len(log) >= 1 /\ log[Len(log)].type = "interaction" /\ NoneOf("end", Len(log))

EndedOnce ==
  /\ Len(log) >= 2
  /\ log[Len(log) - 1].type = "interaction"
  /\ log[Len(log)].type = "end"
  /\ NoneOf("end", Len(log) - 1)

EndedTwice ==
  /\ Len(log) >= 3
  /\ log[Len(log) - 2].type = "interaction"
  /\ log[Len(log) - 1].type = "end"
  /\ log[Len(log)].type = "end"
  /\ NoneOf("end", Len(log) - 2)

QuestionFirst ==
  status = "interrupted" => Unasked \/ AskedLast \/ EndedOnce \/ EndedTwice

\* Trimming leaves three entries at least, unless the stream expires as a whole.
Retained ==
  /\ first <= Len(log) + 1
  /\ first = 1 \/ first <= Len(log) - 2 \/ Expired

StreamInv == Len(log) <= MaxLog /\ LogTellsRow /\ QuestionFirst /\ Retained

-----------------------------------------------------------------------------
(* The connection.                                                         *)

\* A frame from the stream is one of its entries; one made up from the row
\* tells how the run was decided.
FrameTrue(f) ==
  /\ f.id # 0 => f = FrameOf(f.id) /\ f.id \in conn.cursor + 1 .. Len(log)
  /\ f.id = 0 => f.type \in {"interaction", "final", "end"}
  /\ f.type = "end" => status \in Terminal /\ f.status = status

\* The frames of a batch follow each other without a gap; the first is the one
\* behind the cursor, unless entries have been trimmed.
FramesFollow ==
  /\ \A k \in DOMAIN conn.frames : conn.frames[1].id # 0 =>
       conn.frames[k].id = conn.frames[1].id + k - 1
  /\ \A k \in DOMAIN conn.frames : conn.frames[1].id = 0 => conn.frames[k].id = 0
  /\ first = 1 /\ conn.frames # <<>> /\ conn.frames[1].id # 0
       => conn.frames[1].id = conn.cursor + 1

ConnInv ==
  /\ conn.at = "sending" <=> conn.frames # <<>>
  /\ conn.cursor <= Len(log)
  /\ \A k \in DOMAIN conn.frames : FrameTrue(conn.frames[k])
  /\ FramesFollow

\* Only the page's operation consumes the stream, only then is there a
\* connection, and the page has not left the stream.
Connected ==
  /\ \A o \in Ops : monitor[o] = "consuming" => o = op /\ view.url
  /\ conn.at # "closed" <=> op # 0 /\ monitor[op] = "consuming"

-----------------------------------------------------------------------------
(* The page.                                                               *)

\* An operation waits for a detail exactly where it awaits one; none is ahead of
\* the page's operation.
Awaiting ==
  \A o \in Ops :
    /\ detail[o].at # "none" <=> monitor[o] \in {"loading", "created", "settling", "recovering"}
    /\ o > op => monitor[o] = "none"

\* What a thread detail or a cancel response says of the end is true, and what a
\* detail leaves out has ended.
AnswersTrue ==
  /\ \A o \in Ops :
       /\ detail[o].listed \in Terminal => detail[o].listed = status
       /\ detail[o].at \in {"question", "ready"} /\ detail[o].active = "none"
            => status \in Terminal
       /\ /\ detail[o].at = "ready"
          /\ detail[o].active = "none"
          /\ status = "interrupted"
          => detail[o].question
  /\ \A c \in Cancels : cancel[c] \in Terminal => cancel[c] = status

\* A page without the stream shows a run that has ended, and its question.
LeftStream ==
  view.run /\ ~view.url =>
    /\ status \in Terminal
    /\ status = "interrupted" => view.question

PageInv == Awaiting /\ AnswersTrue /\ ShownEndIsTrue /\ LeftStream

\* The question on the page and in the frames: an entry that asks it and that
\* the connection has passed is shown, or it is about to be; and the question
\* comes before the end.
LastRead ==
  IF conn.frames = <<>> \/ conn.frames[1].id = 0 THEN conn.cursor
  ELSE conn.frames[Len(conn.frames)].id

QuestionComes ==
  conn.at # "closed" =>
    /\ \A i \in first..LastRead : log[i].type = "interaction" =>
         view.question \/ \E k \in DOMAIN conn.frames : conn.frames[k].id = i
    /\ status = "interrupted" =>
         \A k \in DOMAIN conn.frames : conn.frames[k].type = "end" =>
           view.question \/ \E j \in 1..k-1 : conn.frames[j].type = "interaction"

\* The streamed text on the page consists of entries of the log.
TextWritten == \A i \in 1..Len(text) : text[i] \in 1..Len(log)

\* A thread detail that the page awaits after an end was asked for after it.
AskedAfterEnd ==
  op # 0 /\ view.run /\ ~view.url /\ detail[op].at # "none" =>
    /\ monitor[op] = "settling"
    /\ detail[op].at # "messages" => detail[op].listed = status

IndInv ==
  /\ TypeOK /\ StreamInv /\ ConnInv /\ Connected /\ PageInv /\ QuestionComes
  /\ AskedAfterEnd /\ TextWritten /\ TextIsStream

-----------------------------------------------------------------------------
(* The run moves on.                                                       *)

LEMMA Appended ==
  ASSUME StreamTypeOK, NEW e \in Entry, log' = Append(log, e)
  PROVE  /\ log' \in Seq(Entry)
         /\ Len(log) \in Nat /\ Len(log') = Len(log) + 1
         /\ log'[Len(log')] = e
         /\ \A i \in 1..Len(log) : log'[i] = log[i]
         /\ log' # log
BY DEF StreamTypeOK

\* What a step of the run may do: a decided run stays decided, and nothing that
\* was written changes.
Prolonged ==
  /\ status' \in Status
  /\ status \in Terminal => status' = status
  /\ log' \in Seq(Entry) /\ Len(log) \in Nat /\ Len(log') \in Nat /\ Len(log') >= Len(log)
  /\ \A i \in 1..Len(log) : log'[i] = log[i]

LEMMA RunProlongs ==
  ASSUME StreamTypeOK, StreamNext
  PROVE  /\ Prolonged
         /\ \/ UNCHANGED log
            \/ \E e \in Entry : log' = Append(log, e) /\ UNCHANGED status
PROOF
<1>1. CASE Begin \/ AskToStop \/ Decide
  BY <1>1 DEF Begin, AskToStop, Decide, Prolonged, StreamTypeOK, Status, Active, Terminal
<1>2. ASSUME NEW e \in Entry, Write(e)
      PROVE  Prolonged
  BY <1>2, Appended DEF Write, Prolonged, StreamTypeOK
<1>3. /\ Plain("running") \in Entry /\ Plain("content") \in Entry /\ Plain("interaction") \in Entry
      /\ \A s \in Terminal : End(s) \in Entry
  BY DEF Plain, End, Entry, EntryType
<1>4. CASE WriteRunning \/ WriteContent \/ WriteInteraction \/ WriteEnd
  <2>1. \E e \in Entry : Write(e)
    BY <1>3, <1>4 DEF WriteRunning, WriteContent, WriteInteraction, WriteEnd
  <2> QED  BY <1>2, <2>1 DEF Write
<1> QED  BY <1>1, <1>4 DEF StreamNext, Begin, AskToStop, Decide

\* Before the decision the stream has neither a question nor an end.
LEMMA UndecidedIsPlain ==
  ASSUME StreamTypeOK, LogTellsRow, status \notin Terminal
  PROVE  \A i \in 1..Len(log) : log[i].type \notin {"end", "interaction"}
BY DEF LogTellsRow, Terminal

LEMMA StreamNextKeeps ==
  ASSUME StreamTypeOK, LogTellsRow, QuestionFirst, StreamNext
  PROVE  LogTellsRow' /\ QuestionFirst'
PROOF
<1>. USE DEF NoneOf, Terminal
<1>1. CASE Begin \/ AskToStop \/ Decide
  <2>1. UNCHANGED log /\ status \notin Terminal
    BY <1>1 DEF Begin, AskToStop, Decide
  <2>2. \A i \in 1..Len(log) : log[i].type \notin {"end", "interaction"}
    BY <2>1, UndecidedIsPlain
  <2> QED  BY <2>1, <2>2 DEF LogTellsRow, QuestionFirst, Unasked
<1>2. CASE WriteRunning \/ WriteContent
  <2>1. PICK e \in Entry : log' = Append(log, e) /\ e.type \in {"running", "content"}
    BY <1>2 DEF WriteRunning, WriteContent, Write, Plain, Entry, EntryType
  <2>2. UNCHANGED status /\ status \notin Terminal
    BY <1>2 DEF WriteRunning, WriteContent, Write
  <2>3. \A i \in 1..Len(log) : log[i].type \notin {"end", "interaction"}
    BY <2>2, UndecidedIsPlain
  <2>4. \A i \in 1..Len(log') : log'[i].type \notin {"end", "interaction"}
    BY <2>1, <2>3, Appended
  <2> QED  BY <2>2, <2>4 DEF LogTellsRow, QuestionFirst
<1>3. CASE WriteInteraction
  <2>1. /\ Plain("interaction") \in Entry /\ log' = Append(log, Plain("interaction"))
        /\ Plain("interaction").type = "interaction"
        /\ UNCHANGED status /\ status = "interrupted"
        /\ \A i \in 1..Len(log) : log[i].type # "end"
    BY <1>3 DEF WriteInteraction, Write, Plain, Entry, EntryType, Logged
  <2>2. /\ Len(log) \in Nat /\ Len(log') = Len(log) + 1
        /\ log'[Len(log')].type = "interaction"
        /\ \A i \in 1..Len(log) : log'[i] = log[i]
    BY <2>1, Appended
  <2>3. \A i \in 1..Len(log') : log'[i].type # "end"
    BY <2>1, <2>2
  <2> QED  BY <2>1, <2>2, <2>3 DEF LogTellsRow, QuestionFirst, AskedLast
<1>4. CASE WriteEnd
  <2>1. /\ End(status) \in Entry /\ log' = Append(log, End(status))
        /\ End(status).type = "end" /\ End(status).status = status
        /\ UNCHANGED status /\ status \in Terminal
        /\ \A i, j \in 1..Len(log) : log[i].type = "end" /\ log[j].type = "end" => i = j
        /\ status = "interrupted" => \E i \in 1..Len(log) : log[i].type = "interaction"
    BY <1>4 DEF WriteEnd, Write, End, Entry, EntryType, Logged
  <2>2. /\ Len(log) \in Nat /\ Len(log') = Len(log) + 1
        /\ log'[Len(log')].type = "end" /\ log'[Len(log')].status = status
        /\ \A i \in 1..Len(log) : log'[i] = log[i]
    BY <2>1, Appended
  <2>3. LogTellsRow'
    BY <2>1, <2>2 DEF LogTellsRow
  <2>4. ASSUME status = "interrupted"
        PROVE  EndedOnce' \/ EndedTwice'
    <3>1. ~Unasked /\ ~EndedTwice
      BY <2>1, <2>2, <2>4 DEF Unasked, EndedTwice
    <3>2. CASE AskedLast
      BY <2>2, <3>2 DEF AskedLast, EndedOnce
    <3>3. CASE EndedOnce
      BY <2>2, <3>3 DEF EndedOnce, EndedTwice
    <3> QED  BY <2>4, <3>1, <3>2, <3>3 DEF QuestionFirst
  <2> QED  BY <2>1, <2>3, <2>4 DEF QuestionFirst
<1> QED  BY <1>1, <1>2, <1>3, <1>4 DEF StreamNext

\* What Redis keeps never grows backwards, and is not trimmed without a write.
Trimmed == first' \in Nat \ {0} /\ first' >= first

LEMMA RunStepKeeps ==
  ASSUME ReaderTypeOK, StreamInv, RunStep
  PROVE  Prolonged /\ Trimmed /\ StreamInv'
PROOF
<1>1. StreamTypeOK /\ StreamNext /\ first \in Nat \ {0} /\ MaxRetained \in Nat \ {0, 1, 2}
  BY ReaderAssumption DEF ReaderTypeOK, RunStep
<1>2. /\ Prolonged
      /\ \/ UNCHANGED log
         \/ \E e \in Entry : log' = Append(log, e) /\ UNCHANGED status
  BY <1>1, RunProlongs
<1>3. LogTellsRow' /\ QuestionFirst'
  BY <1>1, StreamNextKeeps DEF StreamInv
<1>4. Len(log) \in Nat
  BY <1>2 DEF Prolonged
<1>5. CASE UNCHANGED log
  <2>1. first' = first
    BY <1>1, <1>5 DEF RunStep
  <2> QED  BY <1>1, <1>2, <1>3, <1>5, <2>1 DEF StreamInv, Retained, Expired, Trimmed
<1>6. ASSUME NEW e \in Entry, log' = Append(log, e)
      PROVE  Trimmed /\ StreamInv'
  <2>1. log' # log /\ Len(log') = Len(log) + 1 /\ log' # <<>>
    BY <1>1, <1>6, Appended
  <2>2. Len(log) < MaxLog /\ ~Expired
    BY <2>1 DEF RunStep
  <2>3. first' \in first .. (IF Len(log') - MaxRetained + 1 > first
                             THEN Len(log') - MaxRetained + 1 ELSE first)
    BY <2>1 DEF RunStep
  <2>4. first <= Len(log) + 1 /\ (first = 1 \/ first <= Len(log) - 2)
    BY <1>1, <1>4, <2>2 DEF StreamInv, Retained
  <2>5. first' \in Nat \ {0} /\ first' >= first /\ (first' = 1 \/ first' <= Len(log') - 2)
    BY <1>1, <1>4, <2>1, <2>3, <2>4
  <2>6. MaxLog \in Nat /\ Len(log') <= MaxLog
    BY <1>4, <2>1, <2>2, ReaderAssumption
  <2>7. first' <= Len(log') + 1
    BY <1>4, <2>1, <2>5
  <2> QED  BY <1>3, <2>5, <2>6, <2>7 DEF StreamInv, Retained, Trimmed
<1> QED  BY <1>2, <1>5, <1>6

LEMMA ExpireKeeps ==
  ASSUME ReaderTypeOK, StreamInv, Expire
  PROVE  Prolonged /\ Trimmed /\ StreamInv'
PROOF
<1>1. /\ UNCHANGED <<status, log>> /\ first' = Len(log) + 1 /\ log # <<>>
      /\ first \in Nat \ {0} /\ log \in Seq(Entry) /\ status \in Status
      /\ Len(log) \in Nat /\ first <= Len(log) + 1
  BY DEF ReaderTypeOK, StreamTypeOK, Expire, StreamInv, Retained
<1>2. Trimmed /\ Prolonged /\ Retained'
  BY <1>1 DEF Trimmed, Prolonged, Retained, Expired
<1> QED
  BY <1>1, <1>2 DEF StreamInv, LogTellsRow, QuestionFirst, Unasked, AskedLast, EndedOnce,
                    EndedTwice, NoneOf

\* A cancel call is served like a step of the run.
LEMMA CommitKeeps ==
  ASSUME ReaderTypeOK, StreamInv, NEW c \in Cancels, CommitCancel(c)
  PROVE  Prolonged /\ Trimmed /\ StreamInv'
PROOF
<1>1. StreamTypeOK /\ UNCHANGED <<log, first>> /\ first \in Nat \ {0}
  BY DEF ReaderTypeOK, CommitCancel, AskToStop
<1>2. AskToStop \/ UNCHANGED status
  BY DEF CommitCancel
<1>3. Prolonged
  <2>1. CASE AskToStop
    BY <1>1, <2>1, RunProlongs DEF StreamNext
  <2> QED  BY <1>1, <1>2, <2>1 DEF Prolonged, StreamTypeOK
<1>4. LogTellsRow' /\ QuestionFirst'
  <2>1. CASE AskToStop
    BY <1>1, <2>1, StreamNextKeeps DEF StreamNext, StreamInv
  <2>2. CASE UNCHANGED status
    BY <1>1, <2>2 DEF StreamInv, LogTellsRow, QuestionFirst, Unasked, AskedLast, EndedOnce,
                      EndedTwice, NoneOf
  <2> QED  BY <1>2, <2>1, <2>2
<1> QED  BY <1>1, <1>3, <1>4 DEF StreamInv, Retained, Expired, Trimmed

\* Whatever the run does, what the page and the connection know stays true.
LEMMA KnowledgeStays ==
  ASSUME IndInv, Prolonged, Trimmed, UNCHANGED <<conn, op, monitor, detail, view, text>>,
         \A c \in Cancels : cancel'[c] \in Terminal => cancel'[c] = status'
  PROVE  /\ ConnInv' /\ Connected' /\ PageInv' /\ QuestionComes' /\ AskedAfterEnd'
         /\ TextWritten' /\ TextIsStream'
PROOF
<1>1. /\ conn \in Conn /\ log \in Seq(Entry) /\ text \in Seq(1..MaxLog) /\ view \in View
      /\ detail \in [Ops -> Detail] /\ first \in Nat \ {0} /\ status \in Status
  BY DEF IndInv, TypeOK, ReaderTypeOK, StreamTypeOK
<1>2. /\ conn.cursor \in Nat /\ conn.frames \in Seq(Frame) /\ Len(conn.frames) \in Nat
      /\ \A k \in DOMAIN conn.frames : conn.frames[k].id \in Nat
      /\ conn.cursor <= Len(log) /\ Len(log) \in Nat
  <2>1. conn.cursor \in Nat /\ conn.frames \in Seq(Frame)
    BY <1>1 DEF Conn
  <2>2. \A k \in DOMAIN conn.frames : conn.frames[k] \in Frame
    BY <2>1
  <2> QED  BY <1>1, <2>1, <2>2 DEF Frame, IndInv, ConnInv
<1>3. \A f : FrameTrue(f) => FrameTrue(f)'
  BY <1>2 DEF FrameTrue, FrameOf, Prolonged
<1>4. ConnInv'
  <2>1. FramesFollow'
    BY <1>1 DEF IndInv, ConnInv, FramesFollow, Trimmed
  <2> QED  BY <1>2, <1>3, <2>1 DEF IndInv, ConnInv, Prolonged
<1>5. Connected' /\ Awaiting'
  BY DEF IndInv, Connected, PageInv, Awaiting
<1>6. AnswersTrue' /\ ShownEndIsTrue' /\ LeftStream'
  BY DEF IndInv, PageInv, AnswersTrue, ShownEndIsTrue, LeftStream, Prolonged, Terminal
<1>7. LastRead' = LastRead /\ LastRead \in 0..Len(log)
  BY <1>2 DEF LastRead, IndInv, ConnInv, FrameTrue
<1>8. QuestionComes'
  <2>1. ASSUME conn.at # "closed", NEW i \in first'..LastRead, log'[i].type = "interaction"
        PROVE  view.question \/ \E k \in DOMAIN conn.frames : conn.frames[k].id = i
    <3>1. i \in first..LastRead /\ i \in 1..Len(log)
      BY <1>1, <1>2, <1>7, <2>1 DEF Trimmed
    <3>2. log[i].type = "interaction"
      BY <2>1, <3>1 DEF Prolonged
    <3> QED  BY <2>1, <3>1, <3>2 DEF IndInv, QuestionComes
  <2>2. ASSUME conn.at # "closed", status' = "interrupted", NEW k \in DOMAIN conn.frames,
               conn.frames[k].type = "end"
        PROVE  view.question \/ \E j \in 1..k-1 : conn.frames[j].type = "interaction"
    <3>1. status = status'
      BY <2>2 DEF IndInv, ConnInv, FrameTrue, Prolonged
    <3> QED  BY <2>2, <3>1 DEF IndInv, QuestionComes
  <2> QED  BY <1>7, <2>1, <2>2 DEF QuestionComes
<1>9. AskedAfterEnd'
  BY DEF IndInv, AskedAfterEnd, PageInv, LeftStream, Prolonged
<1>10. TextWritten' /\ TextIsStream'
  <2>1. \A i \in 1..Len(text) : text[i] \in 1..Len(log)
    BY DEF IndInv, TextWritten
  <2>2. TextWritten'
    BY <1>2, <2>1 DEF TextWritten, Prolonged
  <2>3. conn.at # "closed" /\ first' = 1 => conn.cursor \in 0..Len(log) /\ first = 1
    BY <1>1, <1>2 DEF Trimmed
  <2>4. ASSUME conn.at # "closed", first' = 1
        PROVE  \A n \in 1..conn.cursor : log'[n].type = "content" =>
                  \E i \in 1..Len(text) : text[i] = n
    BY <1>2, <2>3, <2>4 DEF IndInv, TextIsStream, Prolonged
  <2> QED  BY <1>2, <2>1, <2>2, <2>4 DEF IndInv, TextIsStream, Prolonged
<1> QED  BY <1>4, <1>5, <1>6, <1>8, <1>9, <1>10 DEF PageInv

-----------------------------------------------------------------------------
(* The generator.                                                          *)

\* The types of what the connection works with.
LEMMA ConnTypes ==
  ASSUME IndInv
  PROVE  /\ conn.at \in {"closed", "reading", "deciding", "sending"}
         /\ conn.cursor \in Nat /\ conn.frames \in Seq(Frame) /\ Len(conn.frames) \in Nat
         /\ \A k \in DOMAIN conn.frames : conn.frames[k] \in Frame
         /\ DOMAIN conn.frames = 1..Len(conn.frames)
         /\ first \in Nat \ {0} /\ log \in Seq(Entry) /\ Len(log) \in Nat
         /\ \A i \in 1..Len(log) : log[i] \in Entry
         /\ conn = [at |-> conn.at, cursor |-> conn.cursor, frames |-> conn.frames]
PROOF
<1>1. conn \in Conn /\ first \in Nat \ {0} /\ log \in Seq(Entry)
  BY DEF IndInv, TypeOK, ReaderTypeOK, StreamTypeOK
<1> QED  BY <1>1 DEF Conn

\* What a step of the generator leaves alone stays true.
LEMMA ReaderLeaves ==
  ASSUME IndInv, UNCHANGED <<status, log, first, pageVars>>,
         conn' \in Conn, conn.at # "closed", conn'.at # "closed", conn'.cursor = conn.cursor
  PROVE  /\ StreamInv' /\ Connected' /\ PageInv' /\ AskedAfterEnd' /\ TextWritten'
         /\ TextIsStream'
         /\ faults' \in 0..MaxFaults => TypeOK'
PROOF
<1>. USE DEF pageVars
<1>1. StreamInv'
  BY DEF IndInv, StreamInv, LogTellsRow, QuestionFirst, Unasked, AskedLast, EndedOnce,
         EndedTwice, NoneOf, Retained, Expired
<1>2. Connected'
  BY DEF IndInv, Connected
<1>3. PageInv'
  BY DEF IndInv, PageInv, Awaiting, AnswersTrue, ShownEndIsTrue, LeftStream
<1>4. AskedAfterEnd' /\ TextWritten' /\ TextIsStream'
  BY DEF IndInv, AskedAfterEnd, TextWritten, TextIsStream
<1> QED  BY <1>1, <1>2, <1>3, <1>4 DEF IndInv, TypeOK, ReaderTypeOK, StreamTypeOK

\* The question of an interrupted run is among the last three entries once it has
\* ended.
LEMMA QuestionBeforeEnd ==
  ASSUME Len(log) \in Nat, QuestionFirst, status = "interrupted",
         NEW e \in 1..Len(log), log[e].type = "end"
  PROVE  \E q \in 1..Len(log) : q < e /\ q >= Len(log) - 2 /\ log[q].type = "interaction"
PROOF
<1>1. CASE EndedOnce
  <2>1. e = Len(log) /\ Len(log) - 1 \in 1..Len(log)
    BY <1>1 DEF EndedOnce, NoneOf
  <2> QED  BY <1>1, <2>1 DEF EndedOnce
<1>2. CASE EndedTwice
  <2>1. e > Len(log) - 2 /\ Len(log) - 2 \in 1..Len(log)
    BY <1>2 DEF EndedTwice, NoneOf
  <2> QED  BY <1>2, <2>1 DEF EndedTwice
<1> QED  BY <1>1, <1>2 DEF QuestionFirst, Unasked, AskedLast, NoneOf

LEMMA BatchKeeps ==
  ASSUME IndInv, ReadBatch, UNCHANGED <<status, log, first, faults, pageVars>>
  PROVE  IndInv'
PROOF
<1>. DEFINE n == Len(log) - NextId + 1
            batch == [k \in 1..n |-> FrameOf(NextId + k - 1)]
<1>1. /\ conn.at = "reading" /\ NextId <= Len(log)
      /\ conn' = [at |-> "sending", cursor |-> conn.cursor, frames |-> batch]
  BY ConnTypes DEF ReadBatch
<1>2. /\ NextId \in Nat \ {0} /\ NextId >= first /\ NextId > conn.cursor
      /\ first = 1 => NextId = conn.cursor + 1
  BY ConnTypes DEF NextId
<1>3. n \in Nat \ {0} /\ \A k \in 1..n : NextId + k - 1 \in 1..Len(log)
  BY <1>1, <1>2, ConnTypes
<1>4. /\ DOMAIN batch = 1..n
      /\ \A k \in 1..n : /\ batch[k] = FrameOf(NextId + k - 1)
                         /\ batch[k].id = NextId + k - 1
                         /\ batch[k].type = log[NextId + k - 1].type
                         /\ batch[k].status = log[NextId + k - 1].status
  BY DEF FrameOf
<1>5. \A i \in 1..Len(log) : FrameOf(i) \in Frame
  BY ConnTypes DEF FrameOf, Frame, Entry
<1>6. batch \in [1..n -> Frame]
  BY <1>3, <1>5
<1>. HIDE DEF n, batch
<1>7. batch \in Seq(Frame) /\ Len(batch) = n /\ batch # <<>>
  BY <1>3, <1>6
<1>8. /\ conn' \in Conn /\ conn'.at = "sending" /\ conn'.cursor = conn.cursor
      /\ conn'.frames = batch /\ DOMAIN conn'.frames = 1..n
  BY <1>1, <1>4, <1>7, ConnTypes DEF Conn
<1>9. ConnInv'
  <2>1. ASSUME NEW k \in DOMAIN conn'.frames
        PROVE  FrameTrue(conn.frames[k])'
    <3>1. /\ LogTellsRow /\ NextId + k - 1 \in 1..Len(log) /\ NextId + k - 1 > conn.cursor
          /\ conn'.frames[k] = FrameOf(NextId + k - 1)
      BY <1>2, <1>3, <1>4, <1>8, ConnTypes DEF IndInv, StreamInv
    <3>2. PICK i \in conn.cursor + 1 .. Len(log) : conn'.frames[k] = FrameOf(i)
      BY <3>1, <1>2, <1>3, ConnTypes
    <3> QED  BY <3>1, <3>2, <1>8, ConnTypes DEF FrameTrue, LogTellsRow, FrameOf
  <2>2. FramesFollow'
    <3>1. \A k \in 1..n : conn'.frames[k].id = NextId + k - 1
      BY <1>4, <1>8
    <3>2. conn'.frames[1].id = NextId /\ NextId # 0
      BY <1>2, <1>3, <3>1
    <3>3. first' = 1 => NextId = conn'.cursor + 1
      BY <1>2, <1>8
    <3> QED  BY <1>8, <3>1, <3>2, <3>3 DEF FramesFollow
  <2> QED  BY <1>7, <1>8, <2>1, <2>2 DEF IndInv, ConnInv
<1>10. QuestionComes'
  <2>1. conn.frames = <<>> /\ LastRead = conn.cursor
    BY <1>1 DEF IndInv, ConnInv, LastRead
  <2>2. LastRead' = Len(log)
    <3>1. 1 \in 1..n /\ n \in 1..n /\ NextId + n - 1 = Len(log)
      <4>1. n = Len(log) - NextId + 1 /\ n \in Nat \ {0} /\ NextId \in Nat /\ Len(log) \in Nat
        BY <1>2, <1>3, ConnTypes DEF n
      <4> QED  BY <4>1
    <3>2. batch[1].id # 0 /\ batch[n].id = Len(log)
      BY <1>2, <1>4, <3>1
    <3> QED  BY <1>7, <1>8, <3>2 DEF LastRead
  <2>3. ASSUME NEW i \in first..Len(log), log[i].type = "interaction"
        PROVE  view.question \/ \E k \in 1..n : batch[k].id = i
    <3>1. CASE i <= conn.cursor
      BY <1>1, <2>1, <2>3, <3>1, ConnTypes DEF IndInv, QuestionComes
    <3>2. CASE i > conn.cursor
      <4>1. i >= NextId
        BY <2>3, <3>2, ConnTypes DEF NextId
      <4>2. i - NextId + 1 \in 1..n /\ batch[i - NextId + 1].id = i
        BY SMTT(30), <1>2, <1>3, <1>4, <4>1, ConnTypes DEF n
      <4> QED  BY <4>2
    <3> QED  BY <3>1, <3>2, ConnTypes
  <2>4. ASSUME status = "interrupted", NEW k \in 1..n, batch[k].type = "end"
        PROVE  view.question \/ \E j \in 1..k-1 : batch[j].type = "interaction"
    <3>. DEFINE e == NextId + k - 1
    <3>1. e \in first..Len(log) /\ e >= NextId /\ log[e].type = "end" /\ first <= Len(log)
      BY <1>2, <1>3, <1>4, <2>4, ConnTypes
    <3>2. PICK q \in 1..Len(log) : q < e /\ q >= Len(log) - 2 /\ log[q].type = "interaction"
      <4>1. e \in 1..Len(log) /\ Len(log) \in Nat /\ QuestionFirst
        BY <3>1, ConnTypes DEF IndInv, StreamInv
      <4>. HIDE DEF e
      <4> QED  BY <2>4, <3>1, <4>1, QuestionBeforeEnd
    <3>3. q >= first
      BY <3>1, <3>2, ConnTypes DEF IndInv, StreamInv, Retained, Expired
    <3>4. CASE q <= conn.cursor
      BY <1>1, <2>1, <3>2, <3>3, <3>4, ConnTypes DEF IndInv, QuestionComes
    <3>5. CASE q > conn.cursor
      <4>1. q >= NextId
        BY <3>3, <3>5, ConnTypes DEF NextId
      <4>2. q - NextId + 1 \in 1..k-1 /\ NextId + (q - NextId + 1) - 1 = q
        BY <1>2, <1>3, <3>2, <4>1
      <4>3. PICK j \in 1..k-1 : NextId + j - 1 = q
        BY <4>2
      <4>4. batch[j].type = log[NextId + j - 1].type
        BY <1>3, <1>4
      <4> QED  BY <3>2, <4>3, <4>4
    <3> QED  BY <3>4, <3>5, ConnTypes
  <2> QED  BY <1>8, <2>2, <2>3, <2>4 DEF QuestionComes, pageVars
<1> QED
  BY <1>1, <1>8, <1>9, <1>10, ReaderLeaves DEF IndInv, TypeOK, ReaderTypeOK

LEMMA NothingKeeps ==
  ASSUME IndInv, ReadNothing, UNCHANGED <<status, log, first, faults, pageVars>>
  PROVE  IndInv'
PROOF
<1>1. conn.at = "reading" /\ conn' = [at |-> "deciding", cursor |-> conn.cursor, frames |-> conn.frames]
  BY ConnTypes DEF ReadNothing
<1>2. /\ conn' \in Conn /\ conn'.at = "deciding" /\ conn'.cursor = conn.cursor
      /\ conn'.frames = conn.frames /\ conn.frames = <<>>
  BY <1>1, ConnTypes DEF Conn, IndInv, ConnInv
<1>3. ConnInv'
  BY <1>2 DEF IndInv, ConnInv, FramesFollow
<1>4. QuestionComes'
  BY <1>1, <1>2 DEF IndInv, QuestionComes, LastRead, pageVars
<1> QED
  BY <1>1, <1>2, <1>3, <1>4, ReaderLeaves DEF IndInv, TypeOK, ReaderTypeOK

\* What the row is turned into.
LEMMA AnswersAre ==
  ASSUME status \in Status, NEW answer \in Answers
  PROVE  \/ answer = <<>> /\ status \notin Terminal
         \/ /\ status \in Terminal
            /\ \/ answer = <<Made("end", status)>> /\ status # "interrupted"
               \/ answer = <<Made("final", "none"), Made("end", status)>> /\ status # "interrupted"
               \/ answer = <<Made("interaction", "none"), Made("end", status)>>
PROOF
<1>2. CASE status = "completed"
  BY <1>2 DEF Answers, MadeEnd, Terminal
<1>3. CASE status = "interrupted"
  BY <1>3 DEF Answers, MadeEnd, Terminal
<1>4. CASE status \in {"failed", "cancelled"}
  BY <1>4 DEF Answers, MadeEnd, Terminal
<1>5. CASE status \in Active
  BY <1>5 DEF Answers, Terminal, Active
<1> QED  BY <1>2, <1>3, <1>4, <1>5 DEF Status, Terminal

LEMMA DecidedKeeps ==
  ASSUME IndInv, Decided, UNCHANGED <<status, log, first, faults, pageVars>>
  PROVE  IndInv'
PROOF
<1>1. PICK answer \in Answers :
        /\ conn.at = "deciding"
        /\ conn' = IF answer = <<>> THEN [conn EXCEPT !.at = "reading"]
                   ELSE [conn EXCEPT !.at = "sending", !.frames = answer]
  BY DEF Decided
<1>2. conn.frames = <<>> /\ status \in Status
  BY <1>1 DEF IndInv, ConnInv, TypeOK, ReaderTypeOK, StreamTypeOK
<1>3. CASE answer = <<>>
  <2>1. conn' = [at |-> "reading", cursor |-> conn.cursor, frames |-> conn.frames]
    BY <1>1, <1>3, ConnTypes
  <2>2. /\ conn' \in Conn /\ conn'.at = "reading" /\ conn'.cursor = conn.cursor
        /\ conn'.frames = conn.frames
    BY <2>1, ConnTypes DEF Conn
  <2>3. ConnInv'
    BY <1>2, <2>2 DEF IndInv, ConnInv, FramesFollow
  <2>4. QuestionComes'
    BY <1>1, <1>2, <2>2 DEF IndInv, QuestionComes, LastRead, pageVars
  <2> QED
    BY <1>1, <2>2, <2>3, <2>4, ReaderLeaves DEF IndInv, TypeOK, ReaderTypeOK
<1>4. CASE answer # <<>>
  <2>1. PICK x \in {"final", "interaction"} :
          /\ status \in Terminal
          /\ status = "interrupted" => x = "interaction"
          /\ \/ answer = <<Made("end", status)>> /\ status # "interrupted"
             \/ answer = <<Made(x, "none"), Made("end", status)>>
    BY <1>2, <1>4, AnswersAre
  <2>2. \A t \in {"final", "interaction", "end"}, d \in Terminal \cup {"none"} :
          /\ Made(t, d) \in Frame /\ Made(t, d).id = 0 /\ Made(t, d).type = t
          /\ Made(t, d).status = d
    BY DEF Made, Frame, EntryType
  <2>3. /\ answer \in Seq(Frame) /\ 1 \in DOMAIN answer
        /\ \A k \in DOMAIN answer : /\ answer[k].id = 0
                                    /\ answer[k].type \in {"final", "interaction", "end"}
                                    /\ answer[k].type = "end" => answer[k].status = status
    <3>1. Made("end", status) \in Frame /\ Made(x, "none") \in Frame
      BY <2>1, <2>2
    <3>2. CASE answer = <<Made("end", status)>>
      <4>1. answer \in Seq(Frame) /\ DOMAIN answer = {1} /\ answer[1] = Made("end", status)
        BY <3>1, <3>2
      <4> QED  BY <2>1, <2>2, <4>1
    <3>3. CASE answer = <<Made(x, "none"), Made("end", status)>>
      <4>1. /\ answer \in Seq(Frame) /\ DOMAIN answer = 1..2
            /\ answer[1] = Made(x, "none") /\ answer[2] = Made("end", status)
        BY <3>1, <3>3
      <4>2. /\ Made(x, "none").id = 0 /\ Made(x, "none").type = x
            /\ Made("end", status).id = 0 /\ Made("end", status).type = "end"
            /\ Made("end", status).status = status
        BY <2>1, <2>2
      <4>3. 1 \in DOMAIN answer /\ \A k \in DOMAIN answer : k = 1 \/ k = 2
        BY <4>1
      <4> QED  BY <2>1, <4>1, <4>2, <4>3
    <3> QED  BY <2>1, <3>2, <3>3
  <2>4. status = "interrupted" => \A k \in DOMAIN answer : answer[k].type = "end" =>
          \E j \in 1..k-1 : answer[j].type = "interaction"
    <3>1. ASSUME status = "interrupted", NEW k \in DOMAIN answer, answer[k].type = "end"
          PROVE  1 \in 1..k-1 /\ answer[1].type = "interaction"
      BY <2>1, <2>2, <3>1
    <3> QED  BY <3>1
  <2>5. conn' = [at |-> "sending", cursor |-> conn.cursor, frames |-> answer]
    BY <1>1, <1>4, ConnTypes
  <2>6. /\ conn' \in Conn /\ conn'.at = "sending" /\ conn'.cursor = conn.cursor
        /\ conn'.frames = answer
    BY <2>3, <2>5, ConnTypes DEF Conn
  <2>7. ConnInv'
    <3>1. \A k \in DOMAIN conn'.frames : FrameTrue(conn.frames[k])'
      BY <2>1, <2>3, <2>6 DEF FrameTrue
    <3>2. FramesFollow'
      BY <2>3, <2>6 DEF FramesFollow
    <3> QED  BY <1>4, <2>6, <3>1, <3>2 DEF IndInv, ConnInv
  <2>8. QuestionComes'
    <3>1. LastRead' = LastRead
      BY <1>2, <2>3, <2>6 DEF LastRead
    <3> QED  BY <1>1, <1>2, <2>4, <2>6, <3>1 DEF IndInv, QuestionComes, pageVars
  <2> QED
    BY <1>1, <2>6, <2>7, <2>8, ReaderLeaves DEF IndInv, TypeOK, ReaderTypeOK
<1> QED  BY <1>3, <1>4

LEMMA ReaderKeeps ==
  ASSUME IndInv, ReaderStep, UNCHANGED pageVars
  PROVE  IndInv'
BY BatchKeeps, NothingKeeps, DecidedKeeps DEF ReaderStep

-----------------------------------------------------------------------------
(* The page.                                                               *)

\* The types of what the page works with.
LEMMA PageTypes ==
  ASSUME IndInv
  PROVE  /\ op \in 0..MaxOps /\ MaxOps \in Nat
         /\ monitor \in [Ops -> MonitorState] /\ detail \in [Ops -> Detail]
         /\ view \in View /\ text \in Seq(1..MaxLog) /\ cancel \in [Cancels -> CancelState]
         /\ ReaderTypeOK /\ StreamTypeOK /\ status \in Status /\ conn \in Conn
BY MonitorAssumption DEF IndInv, TypeOK, ReaderTypeOK, StreamTypeOK

\* What the page starts from.
LEMMA Blanks ==
  /\ NoRun \in View
  /\ NoRun = [run |-> FALSE, status |-> "pending", url |-> FALSE, question |-> FALSE,
              cancelling |-> FALSE]
  /\ NoDetail \in Detail /\ NoDetail.at = "none" /\ NoDetail.listed = "pending"
  /\ Asked \in Detail /\ Asked.at = "messages" /\ Asked.listed = "pending"
  /\ Closed \in Conn /\ Closed.at = "closed" /\ Closed.frames = <<>> /\ Closed.cursor = 0
PROOF
<1>1. NoRun = [run |-> FALSE, status |-> "pending", url |-> FALSE, question |-> FALSE,
               cancelling |-> FALSE]
  BY DEF NoRun
<1>2. NoRun \in View
  BY DEF NoRun, View, Status, Active
<1>3. /\ NoDetail = [at |-> "none", listed |-> "pending", active |-> "none", question |-> FALSE]
      /\ Asked = [at |-> "messages", listed |-> "pending", active |-> "none", question |-> FALSE]
  <2>1. NoDetail = [at |-> "none", listed |-> "pending", active |-> "none", question |-> FALSE]
    BY DEF NoDetail
  <2>2. Asked = [NoDetail EXCEPT !.at = "messages"]
    BY DEF Asked
  <2> QED  BY <2>1, <2>2
<1>4. NoDetail \in Detail /\ Asked \in Detail
  BY <1>3 DEF Detail, Status, Active
<1>5. Closed \in Conn /\ Closed.at = "closed" /\ Closed.frames = <<>> /\ Closed.cursor = 0
  BY DEF Closed, Conn
<1> QED  BY <1>1, <1>2, <1>3, <1>4, <1>5

\* A step of the page that leaves the connection alone, or is without one, says
\* nothing new of the stream.
LEMMA PageRests ==
  ASSUME IndInv, UNCHANGED stream,
         \/ conn' \in {conn, Closed} /\ conn'.at = "closed" /\ text' \in {text, <<>>}
         \/ UNCHANGED <<conn, text>>
  PROVE  /\ StreamInv' /\ ConnInv' /\ TextWritten' /\ TextIsStream'
         /\ StreamTypeOK' /\ first' \in Nat \ {0} /\ conn' \in Conn /\ text' \in Seq(1..MaxLog)
         /\ conn'.at = "closed" \/ (view.question => view'.question) => QuestionComes'
PROOF
<1>. USE DEF stream
<1>1. Closed \in Conn /\ Closed.at = "closed" /\ Closed.frames = <<>> /\ Closed.cursor = 0
  BY Blanks
<1>2. /\ StreamTypeOK' /\ first' \in Nat \ {0} /\ conn' \in Conn /\ text' \in Seq(1..MaxLog)
  <2>1. StreamTypeOK' /\ first' \in Nat \ {0}
    BY PageTypes, ConnTypes DEF StreamTypeOK
  <2>2. conn' \in Conn
    BY <1>1, PageTypes
  <2>3. text' \in Seq(1..MaxLog)
    <3>1. text \in Seq(1..MaxLog) /\ <<>> \in Seq(1..MaxLog)
      BY PageTypes
    <3>2. text' = text \/ text' = <<>>
      OBVIOUS
    <3> QED  BY <3>1, <3>2
  <2> QED  BY <2>1, <2>2, <2>3
<1>3. StreamInv'
  BY DEF IndInv, StreamInv, LogTellsRow, QuestionFirst, Unasked, AskedLast, EndedOnce,
         EndedTwice, NoneOf, Retained, Expired
<1>4. ConnInv'
  <2>1. CASE UNCHANGED conn
    BY <2>1 DEF IndInv, ConnInv, FrameTrue, FrameOf, FramesFollow
  <2>2. CASE conn' = Closed
    BY <1>1, <2>2, ConnTypes DEF ConnInv, FramesFollow
  <2> QED  BY <2>1, <2>2
<1>5. TextWritten' /\ TextIsStream'
  <2>1. CASE UNCHANGED <<conn, text>>
    BY <2>1 DEF IndInv, TextWritten, TextIsStream
  <2>2. CASE conn'.at = "closed" /\ text' = text
    BY <2>2 DEF IndInv, TextWritten, TextIsStream
  <2>3. CASE conn'.at = "closed" /\ text' = <<>>
    BY <2>3 DEF TextWritten, TextIsStream
  <2> QED  BY <2>1, <2>2, <2>3
<1>6. conn'.at = "closed" \/ (view.question => view'.question) => QuestionComes'
  <2>1. CASE conn'.at = "closed"
    BY <2>1 DEF QuestionComes
  <2>2. CASE UNCHANGED conn /\ (view.question => view'.question)
    BY <2>2 DEF IndInv, QuestionComes, LastRead
  <2> QED  BY <2>1, <2>2
<1> QED  BY <1>2, <1>3, <1>4, <1>5, <1>6

LEMMA CreateKeeps ==
  ASSUME IndInv, CreateRun
  PROVE  IndInv'
PROOF
<1>. USE DEF CreateRun
<1>1. /\ op = 0 /\ op' = 1 /\ 1 \in Ops
      /\ \A o \in Ops : monitor[o] = "none" /\ detail[o].at = "none"
      /\ conn.at = "closed"
  BY MonitorAssumption, PageTypes DEF IndInv, PageInv, Awaiting, Connected, Ops
<1>2. /\ monitor' = [monitor EXCEPT ![1] = "created"]
      /\ detail' = [detail EXCEPT ![1] = Asked]
  BY DEF Request
<1>3. view' \in View /\ view'.status = "pending" /\ view'.url
  BY Blanks DEF View
<1>4. /\ StreamInv' /\ ConnInv' /\ TextWritten' /\ TextIsStream' /\ QuestionComes'
      /\ TypeOK'
  <2>1. view' \in View /\ monitor' \in [Ops -> MonitorState] /\ detail' \in [Ops -> Detail]
    BY <1>2, <1>3, Blanks, PageTypes DEF MonitorState
  <2> QED  BY <1>1, <2>1, PageRests, PageTypes DEF TypeOK, ReaderTypeOK, Ops
<1>5. Connected' /\ Awaiting'
  BY <1>1, <1>2, Blanks, PageTypes DEF Connected, Awaiting, Ops
<1>6. AnswersTrue'
  BY <1>1, <1>2, Blanks, PageTypes DEF IndInv, PageInv, AnswersTrue, stream, Terminal
<1>7. ShownEndIsTrue' /\ LeftStream' /\ AskedAfterEnd'
  BY <1>3 DEF ShownEndIsTrue, LeftStream, AskedAfterEnd, Terminal
<1> QED  BY <1>4, <1>5, <1>6, <1>7 DEF IndInv, PageInv

LEMMA OpenKeeps ==
  ASSUME IndInv, OpenThread
  PROVE  IndInv'
PROOF
<1>. USE DEF OpenThread
<1>1. /\ op' = op + 1 /\ op' \in Ops
      /\ \A o \in Ops : o > op => monitor[o] = "none"
  BY PageTypes DEF IndInv, PageInv, Awaiting, Ops
<1>2. detail' = [detail EXCEPT ![op'] = Asked] /\ conn' = Closed /\ view' = NoRun
  OBVIOUS
<1>3. monitor' = [o \in Ops |-> IF o = op' THEN "loading"
                                ELSE IF monitor[o] = "consuming" THEN "done" ELSE monitor[o]]
  <2>1. CASE op = 0
    <3>1. \A o \in Ops : monitor[o] # "consuming"
      BY <2>1, PageTypes DEF IndInv, Connected, Ops
    <3> QED  BY <1>1, <2>1, <3>1, PageTypes
  <2>2. CASE op # 0
    <3>1. op \in Ops
      BY <2>2, PageTypes DEF Ops
    <3>2. monitor' = [Abort EXCEPT ![op'] = "loading"]
      BY <1>1, <2>2
    <3>3. Abort = [o \in Ops |-> IF monitor[o] = "consuming" THEN "done" ELSE monitor[o]]
      BY <3>1, PageTypes DEF Abort, IndInv, Connected
    <3> QED  BY <1>1, <3>2, <3>3
  <2> QED  BY <2>1, <2>2
<1>4. /\ StreamInv' /\ ConnInv' /\ TextWritten' /\ TextIsStream' /\ QuestionComes'
      /\ TypeOK'
  <2>1. view' \in View /\ monitor' \in [Ops -> MonitorState] /\ detail' \in [Ops -> Detail]
    <3>1. monitor' \in [Ops -> MonitorState]
      BY <1>3, PageTypes DEF MonitorState
    <3> QED  BY <1>1, <1>2, <3>1, Blanks, PageTypes
  <2> QED  BY <1>1, <1>2, <2>1, Blanks, PageRests, PageTypes DEF TypeOK, ReaderTypeOK, Ops
<1>5. Connected'
  BY <1>1, <1>2, <1>3, Blanks, PageTypes DEF Connected, Ops
<1>6. Awaiting'
  <2>1. ASSUME NEW o \in Ops
        PROVE  /\ detail'[o].at # "none" <=> monitor'[o] \in {"loading", "created", "settling", "recovering"}
               /\ o > op' => monitor'[o] = "none"
    <3>1. CASE o = op'
      BY <1>1, <1>2, <1>3, <3>1, Blanks, PageTypes DEF Ops
    <3>2. CASE o # op'
      BY <1>1, <1>2, <1>3, <3>2, PageTypes DEF IndInv, PageInv, Awaiting, Ops
    <3> QED  BY <3>1, <3>2
  <2> QED  BY <2>1 DEF Awaiting
<1>7. AnswersTrue'
  BY <1>1, <1>2, Blanks, PageTypes DEF IndInv, PageInv, AnswersTrue, stream, Terminal
<1>8. ShownEndIsTrue' /\ LeftStream' /\ AskedAfterEnd'
  BY <1>2, Blanks DEF ShownEndIsTrue, LeftStream, AskedAfterEnd
<1> QED  BY <1>4, <1>5, <1>6, <1>7, <1>8 DEF IndInv, PageInv

LEMMA ReadDetailKeeps ==
  ASSUME IndInv, NEW o \in Ops, ReadDetail(o)
  PROVE  IndInv'
PROOF
<1>. DEFINE d == detail[o]
<1>1. /\ UNCHANGED <<stream, conn, faults, op, monitor, view, text, cancel>>
      /\ d \in Detail
      /\ d = [at |-> d.at, listed |-> d.listed, active |-> d.active, question |-> d.question]
  BY PageTypes DEF ReadDetail, Detail
<1>2. PICK e \in Detail :
        /\ detail' = [detail EXCEPT ![o] = e]
        /\ \/ /\ d.at = "messages" /\ e.at = "active" /\ e.listed = status
           \/ /\ d.at = "active" /\ e.at = "question"
              /\ \/ status \in Active /\ e.listed = status /\ e.active = status
                 \/ status \in Terminal /\ e.listed = d.listed
           \/ /\ d.at = "question" /\ e.at = "ready" /\ e.active = d.active
              /\ \/ e.listed = status /\ e.question
                 \/ status # "interrupted" /\ e.listed = d.listed
  <2>1. CASE d.at = "messages"
    <3>. DEFINE e == [at |-> "active", listed |-> status, active |-> d.active, question |-> d.question]
    <3>1. e \in Detail
      BY <1>1, PageTypes DEF Detail
    <3>2. detail' = [detail EXCEPT ![o] = e]
      BY <1>1, <2>1, PageTypes DEF ReadDetail, Detail
    <3> QED  BY <2>1, <3>1, <3>2
  <2>2. CASE d.at = "active" /\ status \in Active
    <3>. DEFINE e == [at |-> "question", listed |-> status, active |-> status, question |-> d.question]
    <3>1. e \in Detail
      BY <1>1, <2>2, PageTypes DEF Detail
    <3>2. detail' = [detail EXCEPT ![o] = e]
      BY ZenonT(40), <1>1, <2>2, PageTypes DEF ReadDetail, Detail
    <3> QED  BY <2>2, <3>1, <3>2
  <2>3. CASE d.at = "active" /\ status \notin Active
    <3>. DEFINE e == [at |-> "question", listed |-> d.listed, active |-> d.active, question |-> d.question]
    <3>1. e \in Detail
      BY <1>1, <2>3, PageTypes DEF Detail
    <3>2. detail' = [detail EXCEPT ![o] = e]
      BY <1>1, <2>3, PageTypes DEF ReadDetail, Detail
    <3>3. status \in Terminal
      BY <2>3, PageTypes DEF Status
    <3> QED  BY <2>3, <3>1, <3>2, <3>3
  <2>4. CASE d.at = "question" /\ status = "interrupted"
    <3>. DEFINE e == [at |-> "ready", listed |-> status, active |-> d.active, question |-> TRUE]
    <3>1. e \in Detail
      BY <1>1, <2>4, PageTypes DEF Detail
    <3>2. detail' = [detail EXCEPT ![o] = e]
      BY ZenonT(40), <1>1, <2>4, PageTypes DEF ReadDetail, Detail
    <3> QED  BY <2>4, <3>1, <3>2
  <2>5. CASE d.at = "question" /\ status # "interrupted"
    <3>. DEFINE e == [at |-> "ready", listed |-> d.listed, active |-> d.active, question |-> d.question]
    <3>1. e \in Detail
      BY <1>1, <2>5, PageTypes DEF Detail
    <3>2. detail' = [detail EXCEPT ![o] = e]
      BY <1>1, <2>5, PageTypes DEF ReadDetail, Detail
    <3> QED  BY <2>5, <3>1, <3>2
  <2> QED  BY <2>1, <2>2, <2>3, <2>4, <2>5 DEF ReadDetail
<1>. HIDE DEF d
<1>3. /\ \A x \in Ops : detail'[x] = IF x = o THEN e ELSE detail[x]
      /\ UNCHANGED status /\ d = detail[o] /\ Terminal \cap Active = {}
      /\ d.at # "none" /\ e.at # "none"
  BY <1>1, <1>2, PageTypes DEF d, stream, Active, Terminal
<1>4. /\ StreamInv' /\ ConnInv' /\ TextWritten' /\ TextIsStream' /\ QuestionComes' /\ TypeOK'
  BY <1>1, <1>2, PageRests, PageTypes DEF TypeOK, ReaderTypeOK
<1>5. Connected' /\ ShownEndIsTrue' /\ LeftStream'
  BY <1>1, <1>3 DEF IndInv, PageInv, Connected, ShownEndIsTrue, LeftStream
<1>6. Awaiting'
  BY <1>1, <1>3 DEF IndInv, PageInv, Awaiting
<1>7. AnswersTrue'
  <2>1. AnswersTrue
    BY DEF IndInv, PageInv
  <2>2. /\ e.listed \in Terminal => e.listed = status
        /\ e.at \in {"question", "ready"} /\ e.active = "none" => status \in Terminal
        /\ e.at = "ready" /\ e.active = "none" /\ status = "interrupted" => e.question
    <3>1. d.listed \in Terminal => d.listed = status
      BY <1>3, <2>1 DEF AnswersTrue
    <3>2. d.at = "question" /\ d.active = "none" => status \in Terminal
      BY <1>3, <2>1 DEF AnswersTrue
    <3>3. status \in Active => status # "none"
      BY DEF Active
    <3>4. CASE d.at = "messages" /\ e.at = "active" /\ e.listed = status
      BY <3>4
    <3>5. CASE d.at = "active" /\ e.at = "question"
      BY <1>2, <1>3, <3>1, <3>3, <3>5
    <3>6. CASE d.at = "question" /\ e.at = "ready"
      BY <1>2, <3>1, <3>2, <3>6
    <3> QED  BY <1>2, <3>4, <3>5, <3>6
  <2> QED  BY <1>1, <1>3, <2>1, <2>2 DEF AnswersTrue
<1>8. AskedAfterEnd'
  <2>1. CASE o = op
    BY <1>1, <1>2, <1>3, <2>1 DEF IndInv, AskedAfterEnd
  <2>2. CASE o # op
    BY SMTT(30), <1>1, <1>3, <2>2, PageTypes DEF IndInv, AskedAfterEnd, Ops
  <2> QED  BY <2>1, <2>2
<1> QED  BY <1>4, <1>5, <1>6, <1>7, <1>8 DEF IndInv, PageInv

\* An operation that has its detail, or has not got it, waits no longer.
LEMMA WaitEnds ==
  ASSUME IndInv, NEW o \in Ops, NEW m \in {"done", "looping"}, detail[o].at # "none",
         monitor' = [monitor EXCEPT ![o] = m],
         detail' = [detail EXCEPT ![o] = NoDetail],
         UNCHANGED <<stream, conn, op, cancel>>,
         o = op \/ UNCHANGED view
  PROVE  /\ monitor' \in [Ops -> MonitorState] /\ detail' \in [Ops -> Detail]
         /\ Connected' /\ Awaiting' /\ AnswersTrue' /\ AskedAfterEnd'
         /\ o = op => conn.at = "closed"
PROOF
<1>. USE DEF stream
<1>1. monitor' \in [Ops -> MonitorState] /\ detail' \in [Ops -> Detail]
  BY PageTypes, Blanks DEF MonitorState
<1>2. /\ monitor[o] \in {"loading", "created", "settling", "recovering"}
      /\ o <= op /\ op \in Nat /\ op # 0
      /\ o = op => conn.at = "closed"
  BY PageTypes DEF IndInv, PageInv, Awaiting, Connected, Ops
<1>3. \A x \in Ops : /\ monitor'[x] = IF x = o THEN m ELSE monitor[x]
                     /\ detail'[x] = IF x = o THEN NoDetail ELSE detail[x]
  BY PageTypes
<1>4. Connected'
  <2>1. ASSUME NEW x \in Ops, monitor'[x] = "consuming"
        PROVE  x = op /\ view'.url
    BY <1>2, <1>3, <2>1 DEF IndInv, Connected
  <2>2. op \in Ops
    BY <1>2, PageTypes DEF Ops
  <2>3. conn'.at # "closed" <=> op' # 0 /\ monitor'[op'] = "consuming"
    BY <1>2, <1>3, <2>2 DEF IndInv, Connected
  <2> QED  BY <2>1, <2>3 DEF Connected
<1>5. Awaiting'
  BY <1>2, <1>3, Blanks, PageTypes DEF IndInv, PageInv, Awaiting, Ops
<1>6. AnswersTrue'
  BY <1>3, Blanks DEF IndInv, PageInv, AnswersTrue, Terminal
<1>7. AskedAfterEnd'
  <2>1. op \in Ops
    BY <1>2, PageTypes DEF Ops
  <2> QED  BY <1>3, <2>1, Blanks DEF IndInv, AskedAfterEnd
<1> QED  BY <1>1, <1>2, <1>4, <1>5, <1>6, <1>7

LEMMA ArrivesKeeps ==
  ASSUME IndInv, NEW o \in Ops, DetailArrives(o)
  PROVE  IndInv'
PROOF
<1>. DEFINE d == detail[o]
<1>1. /\ d.at = "ready" /\ d \in Detail
      /\ UNCHANGED <<stream, conn, faults, op, cancel>>
      /\ detail' = [detail EXCEPT ![o] = NoDetail]
  BY PageTypes DEF DetailArrives
<1>2. PICK m \in {"done", "looping"} : monitor' = [monitor EXCEPT ![o] = m]
  BY DEF DetailArrives, Continue
<1>3. \/ o = op /\ text' = <<>>
         /\ view' = [view EXCEPT !.run = TRUE, !.status = d.listed,
                                 !.url = d.active # "none", !.question = d.question]
      \/ o # op /\ UNCHANGED <<view, text>>
  BY DEF DetailArrives, RestoreIfCurrent, Restore
<1>. HIDE DEF d
<1>4. /\ monitor' \in [Ops -> MonitorState] /\ detail' \in [Ops -> Detail]
      /\ Connected' /\ Awaiting' /\ AnswersTrue' /\ AskedAfterEnd'
      /\ o = op => conn.at = "closed"
  BY <1>1, <1>2, <1>3, WaitEnds DEF d
<1>5. CASE o = op
  <2>1. /\ view' = [run |-> TRUE, status |-> d.listed, url |-> d.active # "none",
                    question |-> d.question, cancelling |-> view.cancelling]
        /\ text' = <<>> /\ view.cancelling \in BOOLEAN
    BY <1>3, <1>5, PageTypes DEF View
  <2>2. d.listed \in Status /\ d.question \in BOOLEAN
    BY <1>1 DEF Detail
  <2>3. view' \in View
    BY <2>1, <2>2 DEF View
  <2>4. /\ StreamInv' /\ ConnInv' /\ TextWritten' /\ TextIsStream' /\ QuestionComes'
        /\ StreamTypeOK' /\ first' \in Nat \ {0} /\ conn' \in Conn /\ text' \in Seq(1..MaxLog)
    BY <1>1, <1>4, <1>5, <2>1, PageRests
  <2>5. TypeOK'
    BY <1>1, <1>4, <2>3, <2>4, PageTypes DEF TypeOK, ReaderTypeOK
  <2>6. ShownEndIsTrue' /\ LeftStream'
    <3>1. /\ d.listed \in Terminal => d.listed = status
          /\ d.active = "none" => status \in Terminal
          /\ d.active = "none" /\ status = "interrupted" => d.question
      BY <1>1 DEF IndInv, PageInv, AnswersTrue, d
    <3>2. view'.status = d.listed /\ (view'.url <=> d.active # "none") /\ (view'.question <=> d.question)
      BY <2>1
    <3> QED  BY <1>1, <3>1, <3>2 DEF ShownEndIsTrue, LeftStream, stream
  <2> QED  BY <1>4, <2>4, <2>5, <2>6 DEF IndInv, PageInv
<1>6. CASE o # op
  <2>1. UNCHANGED <<view, text, conn, stream>>
    BY <1>1, <1>3, <1>6
  <2>2. /\ StreamInv' /\ ConnInv' /\ TextWritten' /\ TextIsStream' /\ QuestionComes'
        /\ StreamTypeOK' /\ first' \in Nat \ {0} /\ conn' \in Conn /\ text' \in Seq(1..MaxLog)
    BY <2>1, PageRests
  <2>3. TypeOK'
    BY <1>1, <1>4, <2>1, <2>2, PageTypes DEF TypeOK, ReaderTypeOK
  <2>4. ShownEndIsTrue' /\ LeftStream'
    BY <2>1 DEF IndInv, PageInv, ShownEndIsTrue, LeftStream, stream
  <2> QED  BY <1>4, <2>2, <2>3, <2>4 DEF IndInv, PageInv
<1> QED  BY <1>5, <1>6

LEMMA FailsKeeps ==
  ASSUME IndInv, NEW o \in Ops, DetailFails(o)
  PROVE  IndInv'
PROOF
<1>1. /\ detail[o].at # "none"
      /\ UNCHANGED <<stream, conn, op, cancel, view, text>>
      /\ detail' = [detail EXCEPT ![o] = NoDetail]
      /\ faults' \in 0..MaxFaults
  BY PageTypes, ReaderAssumption DEF DetailFails, Fault, ReaderTypeOK
<1>2. PICK m \in {"done", "looping"} : monitor' = [monitor EXCEPT ![o] = m]
  BY DEF DetailFails, Continue
<1>3. /\ monitor' \in [Ops -> MonitorState] /\ detail' \in [Ops -> Detail]
      /\ Connected' /\ Awaiting' /\ AnswersTrue' /\ AskedAfterEnd'
  BY <1>1, <1>2, WaitEnds
<1>4. /\ StreamInv' /\ ConnInv' /\ TextWritten' /\ TextIsStream' /\ QuestionComes'
      /\ StreamTypeOK' /\ first' \in Nat \ {0} /\ conn' \in Conn /\ text' \in Seq(1..MaxLog)
  BY <1>1, PageRests
<1>5. TypeOK'
  BY <1>1, <1>3, <1>4, PageTypes DEF TypeOK, ReaderTypeOK
<1>6. ShownEndIsTrue' /\ LeftStream'
  BY <1>1 DEF IndInv, PageInv, ShownEndIsTrue, LeftStream, stream
<1> QED  BY <1>3, <1>4, <1>5, <1>6 DEF IndInv, PageInv

\* A new connection begins before the first entry, and so does the text.
LEMMA LoopKeeps ==
  ASSUME IndInv, NEW o \in Ops, Loop(o)
  PROVE  IndInv'
PROOF
<1>1. /\ monitor[o] = "looping"
      /\ UNCHANGED <<stream, faults, op, detail, view, cancel>>
  BY DEF Loop
<1>2. /\ ShownEndIsTrue' /\ LeftStream' /\ AnswersTrue'
      /\ o <= op /\ op \in Ops
  BY <1>1, PageTypes DEF IndInv, PageInv, Awaiting, AnswersTrue, ShownEndIsTrue, LeftStream, stream, Ops
<1>3. CASE o = op /\ view.url /\ Connect(o)
  <2>1. /\ conn.at = "closed" /\ text' = <<>>
        /\ monitor' = [monitor EXCEPT ![o] = "consuming"]
        /\ conn' = [at |-> "reading", cursor |-> 0, frames |-> <<>>]
    BY <1>3 DEF Connect, Open, Closed
  <2>2. conn' \in Conn /\ conn'.at = "reading" /\ conn'.cursor = 0 /\ conn'.frames = <<>>
    BY <2>1 DEF Conn
  <2>3. /\ monitor' \in [Ops -> MonitorState] /\ text' \in Seq(1..MaxLog)
        /\ \A x \in Ops : monitor'[x] = IF x = o THEN "consuming" ELSE monitor[x]
    BY <2>1, PageTypes DEF MonitorState
  <2>4. TypeOK'
    BY <1>1, <2>2, <2>3, PageTypes DEF TypeOK, ReaderTypeOK, StreamTypeOK, stream
  <2>5. StreamInv'
    BY <1>1 DEF IndInv, StreamInv, LogTellsRow, QuestionFirst, Unasked, AskedLast, EndedOnce,
                EndedTwice, NoneOf, Retained, Expired, stream
  <2>6. ConnInv' /\ QuestionComes'
    <3>1. ConnInv'
      BY <1>1, <2>2, ConnTypes DEF ConnInv, FramesFollow, stream
    <3>2. LastRead' = 0 /\ first' \in Nat \ {0}
      BY <1>1, <2>2, ConnTypes DEF LastRead, stream
    <3>3. QuestionComes'
      BY <2>2, <3>2 DEF QuestionComes
    <3> QED  BY <3>1, <3>3
  <2>7. TextWritten' /\ TextIsStream'
    BY <2>1, <2>2 DEF TextWritten, TextIsStream
  <2>8. Connected'
    <3>1. \A x \in Ops : monitor[x] = "consuming" => x = op
      BY DEF IndInv, Connected
    <3>2. op # 0 /\ op' = op /\ view' = view /\ monitor'[op] = "consuming"
      BY <1>1, <1>2, <1>3, <2>3 DEF Ops
    <3> QED  BY <1>3, <2>2, <2>3, <3>1, <3>2 DEF Connected
  <2>9. Awaiting'
    BY <1>1, <1>2, <2>3 DEF IndInv, PageInv, Awaiting
  <2>10. AskedAfterEnd'
    BY <1>1, <1>3 DEF AskedAfterEnd
  <2> QED  BY <1>2, <2>4, <2>5, <2>6, <2>7, <2>8, <2>9, <2>10 DEF IndInv, PageInv
<1>4. CASE monitor' = [monitor EXCEPT ![o] = "done"] /\ UNCHANGED <<conn, text>>
  <2>1. /\ monitor' \in [Ops -> MonitorState]
        /\ \A x \in Ops : monitor'[x] = IF x = o THEN "done" ELSE monitor[x]
    BY <1>4, PageTypes DEF MonitorState
  <2>2. /\ StreamInv' /\ ConnInv' /\ TextWritten' /\ TextIsStream' /\ QuestionComes'
        /\ StreamTypeOK' /\ first' \in Nat \ {0} /\ conn' \in Conn /\ text' \in Seq(1..MaxLog)
    BY <1>1, <1>4, PageRests
  <2>3. TypeOK'
    BY <1>1, <2>1, <2>2, PageTypes DEF TypeOK, ReaderTypeOK
  <2>4. Connected' /\ Awaiting'
    BY <1>1, <1>2, <1>4, <2>1 DEF IndInv, PageInv, Connected, Awaiting
  <2>5. AskedAfterEnd'
    BY <1>1, <1>2, <2>1 DEF IndInv, AskedAfterEnd, PageInv, Awaiting, stream
  <2> QED  BY <1>2, <2>2, <2>3, <2>4, <2>5 DEF IndInv, PageInv
<1> QED  BY <1>3, <1>4 DEF Loop

LEMMA BreaksKeeps ==
  ASSUME IndInv, NEW o \in Ops, ConnectionBreaks(o)
  PROVE  IndInv'
PROOF
<1>1. /\ monitor[o] = "consuming" /\ conn' = Closed
      /\ monitor' = [monitor EXCEPT ![o] = "recovering"]
      /\ detail' = [detail EXCEPT ![o] = Asked]
      /\ UNCHANGED <<stream, op, view, text, cancel>>
      /\ faults' \in 0..MaxFaults
  BY PageTypes, ReaderAssumption DEF ConnectionBreaks, Break, Request, Fault, ReaderTypeOK
<1>2. /\ monitor' \in [Ops -> MonitorState] /\ detail' \in [Ops -> Detail]
      /\ \A x \in Ops : /\ monitor'[x] = IF x = o THEN "recovering" ELSE monitor[x]
                        /\ detail'[x] = IF x = o THEN Asked ELSE detail[x]
  BY <1>1, Blanks, PageTypes DEF MonitorState
<1>3. o = op /\ view.url /\ conn'.at = "closed"
  BY <1>1, Blanks DEF IndInv, Connected
<1>4. /\ StreamInv' /\ ConnInv' /\ TextWritten' /\ TextIsStream' /\ QuestionComes'
      /\ StreamTypeOK' /\ first' \in Nat \ {0} /\ conn' \in Conn /\ text' \in Seq(1..MaxLog)
  BY <1>1, <1>3, PageRests
<1>5. TypeOK'
  BY <1>1, <1>2, <1>4, PageTypes DEF TypeOK, ReaderTypeOK
<1>6. Connected' /\ Awaiting'
  BY <1>1, <1>2, <1>3, Blanks, PageTypes DEF IndInv, PageInv, Connected, Awaiting, Ops
<1>7. AnswersTrue'
  BY <1>1, <1>2, Blanks DEF IndInv, PageInv, AnswersTrue, stream, Terminal
<1>8. ShownEndIsTrue' /\ LeftStream' /\ AskedAfterEnd'
  BY <1>1, <1>3 DEF IndInv, PageInv, ShownEndIsTrue, LeftStream, AskedAfterEnd, stream
<1> QED  BY <1>4, <1>5, <1>6, <1>7, <1>8 DEF IndInv, PageInv

-----------------------------------------------------------------------------
(* What the page reads from the connection.                                *)

\* One more element at the end.
LEMMA AppendIs ==
  ASSUME NEW S, NEW s \in Seq(S), NEW e \in S
  PROVE  /\ Append(s, e) \in Seq(S) /\ Len(Append(s, e)) = Len(s) + 1
         /\ Append(s, e)[Len(s) + 1] = e
         /\ \A i \in 1..Len(s) : Append(s, e)[i] = s[i]
OBVIOUS

\* The first frame is sent, and it does not end the stream.
LEMMA SendKeeps ==
  ASSUME IndInv, NEW f, conn.at = "sending", f = Head(conn.frames), Send(f), f.type # "end",
         UNCHANGED <<stream, faults, op, monitor, detail, cancel>>,
         view' \in View, view'.url = view.url,
         view.question \/ f.type = "interaction" => view'.question,
         text' = IF f.type = "content" THEN Append(text, f.id) ELSE text
  PROVE  /\ StreamInv' /\ ConnInv' /\ QuestionComes' /\ TextWritten' /\ TextIsStream'
         /\ Connected' /\ Awaiting' /\ AnswersTrue' /\ AskedAfterEnd' /\ TypeOK'
PROOF
<1>. DEFINE frames == conn.frames
            m == Len(frames)
<1>1. /\ frames \in Seq(Frame) /\ frames # <<>> /\ m \in Nat \ {0} /\ DOMAIN frames = 1..m
      /\ f = frames[1] /\ f \in Frame /\ f.id \in Nat
  <2>1. frames \in Seq(Frame) /\ frames # <<>>
    BY ConnTypes DEF IndInv, ConnInv
  <2>2. f = frames[1] /\ 1 \in 1..m /\ m \in Nat \ {0}
    BY <2>1
  <2>3. frames[1] \in Frame
    BY <2>1, <2>2
  <2> QED  BY <2>1, <2>2, <2>3 DEF Frame
<1>2. /\ Tail(frames) \in Seq(Frame) /\ Len(Tail(frames)) = m - 1
      /\ \A k \in 1..m-1 : Tail(frames)[k] = frames[k+1]
  BY <1>1
<1>3. conn' = [at     |-> IF m = 1 THEN "reading" ELSE "sending",
               cursor |-> IF f.id = 0 THEN conn.cursor ELSE f.id,
               frames |-> Tail(frames)]
  BY DEF Send
<1>4. /\ conn'.at = (IF m = 1 THEN "reading" ELSE "sending")
      /\ conn'.cursor = (IF f.id = 0 THEN conn.cursor ELSE f.id)
      /\ conn'.frames = Tail(frames)
      /\ DOMAIN conn'.frames = 1..m-1
      /\ conn' \in Conn
  <2>1. conn'.cursor \in Nat /\ conn'.at \in {"reading", "sending"}
    BY <1>1, <1>3, ConnTypes
  <2> QED  BY <1>1, <1>2, <1>3, <2>1 DEF Conn
<1>. HIDE DEF frames, m
<1>5. /\ UNCHANGED <<status, log, first>>
      /\ \A g : FrameTrue(g) <=> /\ g.id # 0 => g = FrameOf(g.id) /\ g.id \in conn.cursor + 1 .. Len(log)
                                 /\ g.id = 0 => g.type \in {"interaction", "final", "end"}
                                 /\ g.type = "end" => status \in Terminal /\ g.status = status
      /\ \A k \in 1..m : FrameTrue(frames[k])
      /\ \A k \in 1..m : f.id # 0 => frames[k].id = f.id + k - 1
      /\ \A k \in 1..m : f.id = 0 => frames[k].id = 0
      /\ first = 1 /\ f.id # 0 => f.id = conn.cursor + 1
      /\ conn.cursor \in 0..Len(log) /\ Len(log) \in Nat
  BY <1>1, ConnTypes DEF FrameTrue, IndInv, ConnInv, FramesFollow, frames, stream
<1>6. /\ conn'.cursor \in 0..Len(log) /\ conn'.cursor >= conn.cursor
      /\ f.id # 0 => f = FrameOf(f.id) /\ f.id \in conn.cursor + 1 .. Len(log)
      /\ f.id # 0 => f.type = log[f.id].type
      /\ f.type = "content" => f.id # 0
  <2>1. f.id # 0 => f = FrameOf(f.id) /\ f.id \in conn.cursor + 1 .. Len(log)
    BY <1>1, <1>5
  <2>2. f.id = 0 => f.type # "content"
    BY <1>1, <1>5
  <2>3. conn'.cursor \in 0..Len(log) /\ conn'.cursor >= conn.cursor
    BY <1>1, <1>4, <1>5, <2>1
  <2>4. f.id # 0 => f.type = log[f.id].type
    BY <2>1 DEF FrameOf
  <2> QED  BY <2>1, <2>2, <2>3, <2>4
<1>7. StreamInv'
  BY <1>5 DEF IndInv, StreamInv, LogTellsRow, QuestionFirst, Unasked, AskedLast, EndedOnce,
              EndedTwice, NoneOf, Retained, Expired
<1>8. ConnInv'
  <2>1. conn'.at = "sending" <=> conn'.frames # <<>>
    BY <1>1, <1>2, <1>4
  <2>2. ASSUME NEW k \in DOMAIN conn'.frames
        PROVE  FrameTrue(conn.frames[k])'
    <3>1. k \in 1..m-1 /\ k + 1 \in 1..m /\ conn'.frames[k] = frames[k+1]
      BY <1>1, <1>2, <1>4
    <3>2. /\ FrameTrue(frames[k+1])
          /\ f.id # 0 => frames[k+1].id = f.id + k
          /\ f.id = 0 => frames[k+1].id = 0
      BY SMTT(30), <1>1, <1>5, <3>1
    <3>3. frames[k+1].id # 0 => frames[k+1].id \in conn'.cursor + 1 .. Len(log)
      <4>1. CASE f.id = 0
        BY <3>2, <4>1
      <4>2. CASE f.id # 0
        <5>1. frames[k+1].id = f.id + k /\ f.id + k # 0 /\ conn'.cursor = f.id
          BY <1>1, <1>4, <3>1, <3>2, <4>2
        <5>2. f.id + k \in conn.cursor + 1 .. Len(log)
          BY <1>5, <3>2, <5>1
        <5>3. f.id + k >= f.id + 1
          BY <1>1, <3>1
        <5> QED  BY <1>1, <1>5, <5>1, <5>2, <5>3
      <4> QED  BY <4>1, <4>2
    <3> QED  BY <1>5, <3>1, <3>2, <3>3 DEF FrameTrue, FrameOf
  <2>3. FramesFollow'
    <3>1. ASSUME m > 1
          PROVE  /\ 1 \in 1..m-1 /\ conn'.frames[1].id = (IF f.id = 0 THEN 0 ELSE f.id + 1)
                 /\ \A k \in 1..m-1 : conn'.frames[k].id = (IF f.id = 0 THEN 0 ELSE f.id + k)
      <4>1. ASSUME NEW k \in 1..m-1
            PROVE  conn'.frames[k].id = (IF f.id = 0 THEN 0 ELSE f.id + k)
        <5>1. k + 1 \in 1..m /\ conn'.frames[k] = frames[k+1] /\ (k + 1) - 1 = k
          BY <1>1, <1>2, <1>4
        <5> QED  BY <1>1, <1>5, <5>1
      <4> QED  BY <1>1, <3>1, <4>1
    <3>2. ASSUME m = 1
          PROVE  conn'.frames = <<>>
      BY <1>2, <1>4, <3>2
    <3>3. CASE m = 1
      BY <1>4, <3>2, <3>3 DEF FramesFollow
    <3>4. CASE m > 1
      <4>1. conn'.frames[1].id # 0 => \A k \in 1..m-1 : conn'.frames[k].id = conn'.frames[1].id + k - 1
        BY <1>1, <3>1, <3>4
      <4>2. conn'.frames[1].id = 0 => \A k \in 1..m-1 : conn'.frames[k].id = 0
        BY <1>1, <3>1, <3>4
      <4>3. conn'.frames[1].id # 0 => conn'.frames[1].id = conn'.cursor + 1
        BY <1>1, <1>4, <3>1, <3>4
      <4> QED  BY <1>4, <4>1, <4>2, <4>3 DEF FramesFollow
    <3> QED  BY <1>1, <3>3, <3>4
  <2> QED  BY <1>5, <1>6, <2>1, <2>2, <2>3 DEF ConnInv
<1>9. QuestionComes'
  <2>1. LastRead' = LastRead
    <3>1. LastRead = IF f.id = 0 THEN conn.cursor ELSE f.id + m - 1
      <4>1. m \in 1..m
        BY <1>1
      <4> QED  BY <1>1, <1>5, <4>1, ConnTypes DEF LastRead, frames, m
    <3>2. CASE m = 1
      <4>1. conn'.frames = <<>>
        BY <1>2, <1>4, <3>2
      <4> QED  BY <1>1, <1>4, <3>1, <3>2, <4>1 DEF LastRead
    <3>3. CASE m > 1
      <4>1. /\ 1 \in 1..m-1 /\ m - 1 \in 1..m-1 /\ (m - 1) + 1 = m /\ 2 \in 1..m /\ m \in 1..m
            /\ 1 + 1 = 2 /\ Len(conn'.frames) = m - 1 /\ conn'.frames # <<>>
        BY <1>1, <1>2, <1>4, <3>3
      <4>2. conn'.frames[1] = frames[2] /\ conn'.frames[m-1] = frames[m]
        BY <1>2, <1>4, <4>1
      <4>3. /\ conn'.frames[1].id = (IF f.id = 0 THEN 0 ELSE f.id + 1)
            /\ conn'.frames[m-1].id = (IF f.id = 0 THEN 0 ELSE f.id + m - 1)
        BY <1>1, <1>5, <4>1, <4>2
      <4> QED  BY <1>1, <1>4, <3>1, <4>1, <4>3 DEF LastRead
    <3> QED  BY <1>1, <3>2, <3>3
  <2>2. ASSUME NEW k \in 1..m, k # 1
        PROVE  k - 1 \in 1..m-1 /\ conn'.frames[k-1] = frames[k]
    <3>1. k - 1 \in 1..m-1 /\ (k - 1) + 1 = k
      BY <1>1, <2>2
    <3> QED  BY <1>2, <1>4, <3>1
  <2>3. ASSUME NEW i \in first..LastRead, log[i].type = "interaction"
        PROVE  view'.question \/ \E k \in DOMAIN conn'.frames : conn'.frames[k].id = i
    <3>1. view.question \/ \E k \in 1..m : frames[k].id = i
      BY <1>1, <2>3 DEF IndInv, QuestionComes, frames
    <3>2. ASSUME NEW k \in 1..m, frames[k].id = i
          PROVE  view'.question \/ \E j \in DOMAIN conn'.frames : conn'.frames[j].id = i
      <4>1. CASE k = 1
        <5>1. f.id = i /\ i # 0
          BY <1>1, <2>3, <3>2, <4>1, ConnTypes
        <5> QED  BY <1>6, <2>3, <5>1
      <4>2. CASE k # 1
        BY <1>4, <2>2, <3>2, <4>2
      <4> QED  BY <4>1, <4>2
    <3> QED  BY <3>1, <3>2
  <2>4. ASSUME status = "interrupted", NEW k \in DOMAIN conn'.frames, conn'.frames[k].type = "end"
        PROVE  view'.question \/ \E j \in 1..k-1 : conn'.frames[j].type = "interaction"
    <3>1. k \in 1..m-1 /\ k + 1 \in 1..m /\ conn'.frames[k] = frames[k+1] /\ (k + 1) - 1 = k
      BY <1>1, <1>2, <1>4
    <3>2. view.question \/ \E j \in 1..k : frames[j].type = "interaction"
      BY <1>1, <2>4, <3>1 DEF IndInv, QuestionComes, frames
    <3>3. ASSUME NEW j \in 1..k, frames[j].type = "interaction"
          PROVE  view'.question \/ \E l \in 1..k-1 : conn'.frames[l].type = "interaction"
      <4>1. CASE j = 1
        BY <1>1, <3>3, <4>1
      <4>2. CASE j # 1
        <5>1. j \in 1..m /\ j - 1 \in 1..k-1
          BY <1>1, <3>1, <4>2
        <5> QED  BY <2>2, <3>3, <4>2, <5>1
      <4> QED  BY <4>1, <4>2
    <3> QED  BY <3>2, <3>3
  <2> QED  BY <1>5, <2>1, <2>3, <2>4 DEF QuestionComes
<1>10. TextWritten' /\ TextIsStream' /\ text' \in Seq(1..MaxLog)
  <2>1. /\ text \in Seq(1..MaxLog) /\ Len(text) \in Nat
        /\ \A i \in 1..Len(text) : text[i] \in 1..Len(log) /\ text[i] <= conn.cursor
        /\ \A i, j \in 1..Len(text) : i < j => text[i] < text[j]
        /\ \A i \in 1..Len(text) : log[text[i]].type = "content"
        /\ first = 1 => \A n \in 1..conn.cursor : log[n].type = "content" =>
             \E i \in 1..Len(text) : text[i] = n
    BY PageTypes DEF IndInv, TextWritten, TextIsStream
  <2>2. CASE f.type # "content"
    <3>1. text' = text /\ \A i \in 1..Len(text) : text[i] <= conn'.cursor
      BY <1>5, <1>6, <2>1, <2>2
    <3>2. ASSUME first = 1, NEW n \in 1..conn'.cursor, log[n].type = "content"
          PROVE  \E i \in 1..Len(text) : text[i] = n
      <4>1. n \in 1..conn.cursor
        BY SMTT(30), <1>1, <1>4, <1>5, <1>6, <2>2, <3>2
      <4> QED  BY <2>1, <3>2, <4>1
    <3> QED  BY <1>5, <2>1, <3>1, <3>2 DEF TextWritten, TextIsStream
  <2>3. CASE f.type = "content"
    <3>1. /\ f.id \in conn.cursor + 1 .. Len(log) /\ log[f.id].type = "content"
          /\ conn'.cursor = f.id
      BY <1>4, <1>6, <2>3
    <3>2. f.id \in 1..MaxLog /\ text' = Append(text, f.id)
      BY <1>5, <2>3, <3>1, ReaderAssumption DEF IndInv, StreamInv
    <3>3. /\ text' \in Seq(1..MaxLog) /\ Len(text') = Len(text) + 1 /\ text'[Len(text) + 1] = f.id
          /\ \A i \in 1..Len(text) : text'[i] = text[i]
      <4>1. /\ Append(text, f.id) \in Seq(1..MaxLog)
            /\ Len(Append(text, f.id)) = Len(text) + 1
            /\ Append(text, f.id)[Len(text) + 1] = f.id
            /\ \A i \in 1..Len(text) : Append(text, f.id)[i] = text[i]
        BY <2>1, <3>2, AppendIs
      <4> QED  BY <3>2, <4>1
    <3>4. \A i \in 1..Len(text') : i \in 1..Len(text) \/ i = Len(text) + 1
      BY <2>1, <3>3
    <3>5. \A i \in 1..Len(text') : /\ text'[i] \in 1..Len(log) /\ text'[i] <= conn'.cursor
                                   /\ log[text'[i]].type = "content"
      <4>1. ASSUME NEW i \in 1..Len(text)
            PROVE  text[i] <= f.id
        BY <1>5, <2>1, <3>1
      <4>2. f.id \in 1..Len(log) /\ f.id <= f.id
        BY <1>5, <3>1
      <4> QED  BY <2>1, <3>1, <3>3, <3>4, <4>1, <4>2
    <3>6. \A i, j \in 1..Len(text') : i < j => text'[i] < text'[j]
      <4>1. \A i \in 1..Len(text) : text[i] \in Nat /\ text[i] < f.id
        BY <1>5, <2>1, <3>1
      <4>2. ASSUME NEW i \in 1..Len(text'), NEW j \in 1..Len(text'), i < j
            PROVE  text'[i] < text'[j]
        <5>1. i \in 1..Len(text)
          BY <2>1, <3>3, <4>2
        <5>2. CASE j \in 1..Len(text)
          BY <2>1, <3>3, <4>2, <5>1, <5>2
        <5>3. CASE j = Len(text) + 1
          BY <3>3, <4>1, <5>1, <5>3
        <5> QED  BY <3>4, <5>2, <5>3
      <4> QED  BY <4>2
    <3>7. ASSUME first = 1, NEW n \in 1..conn'.cursor, log[n].type = "content"
          PROVE  \E i \in 1..Len(text') : text'[i] = n
      <4>1. CASE n = f.id
        BY <2>1, <3>3, <4>1
      <4>2. CASE n # f.id
        <5>1. n \in 1..conn.cursor
          BY SMTT(30), <1>1, <1>5, <1>6, <2>3, <3>1, <3>7, <4>2
        <5>2. PICK i \in 1..Len(text) : text[i] = n
          BY <2>1, <3>7, <5>1
        <5> QED  BY <2>1, <3>3, <5>2
      <4> QED  BY <4>1, <4>2
    <3> QED  BY <1>5, <3>3, <3>5, <3>6, <3>7 DEF TextWritten, TextIsStream
  <2> QED  BY <2>1, <2>2, <2>3
<1>11. Connected' /\ Awaiting' /\ AnswersTrue'
  <2>1. conn'.at # "closed" /\ conn.at # "closed"
    BY <1>4
  <2> QED  BY <1>5, <2>1 DEF IndInv, PageInv, Connected, Awaiting, AnswersTrue
<1>12. AskedAfterEnd'
  <2>1. op # 0 /\ monitor[op] = "consuming"
    BY DEF IndInv, Connected
  <2>2. op \in Ops
    BY <2>1, PageTypes DEF Ops
  <2> QED  BY <2>1, <2>2 DEF IndInv, PageInv, Awaiting, AskedAfterEnd
<1>13. TypeOK'
  BY <1>4, <1>5, <1>10, PageTypes DEF TypeOK, ReaderTypeOK, StreamTypeOK
<1> QED  BY <1>7, <1>8, <1>9, <1>10, <1>11, <1>12, <1>13

\* The end is sent: the page leaves the stream.
LEMMA EndKeeps ==
  ASSUME IndInv, NEW o \in Ops, monitor[o] = "consuming", NEW f,
         conn.at = "sending", f = Head(conn.frames), Send(f), f.type = "end",
         UNCHANGED <<stream, faults, op, cancel, text>>,
         view' = [view EXCEPT !.status = f.status, !.url = FALSE],
         Request(o, "settling")
  PROVE  IndInv'
PROOF
<1>1. /\ f = conn.frames[1] /\ 1 \in DOMAIN conn.frames
  BY ConnTypes DEF IndInv, ConnInv
<1>2. /\ status \in Terminal /\ f.status = status
      /\ status = "interrupted" => view.question
  <2>1. FrameTrue(f)
    BY <1>1 DEF IndInv, ConnInv
  <2>2. status = "interrupted" => view.question \/ \E j \in 1..1-1 : conn.frames[j].type = "interaction"
    BY <1>1 DEF IndInv, QuestionComes
  <2> QED  BY <2>1, <2>2 DEF FrameTrue
<1>3. /\ view' \in View /\ view'.status = status /\ view'.url = FALSE
      /\ view'.run = view.run /\ view'.question = view.question
  BY <1>2, PageTypes DEF View, Status
<1>4. /\ monitor' = [monitor EXCEPT ![o] = "settling"]
      /\ detail' = [detail EXCEPT ![o] = Asked]
  BY DEF Request
<1>5. /\ monitor' \in [Ops -> MonitorState] /\ detail' \in [Ops -> Detail]
      /\ \A x \in Ops : /\ monitor'[x] = IF x = o THEN "settling" ELSE monitor[x]
                        /\ detail'[x] = IF x = o THEN Asked ELSE detail[x]
  BY <1>4, Blanks, PageTypes DEF MonitorState
<1>6. o = op /\ op' = op /\ conn' = Closed /\ conn'.at = "closed" /\ UNCHANGED <<status, log, first>>
  BY Blanks DEF IndInv, Connected, Send, stream
<1>7. /\ StreamInv' /\ ConnInv' /\ TextWritten' /\ TextIsStream' /\ QuestionComes'
      /\ StreamTypeOK' /\ first' \in Nat \ {0} /\ conn' \in Conn /\ text' \in Seq(1..MaxLog)
  BY <1>6, PageRests
<1>8. TypeOK'
  BY <1>3, <1>5, <1>7, PageTypes DEF TypeOK, ReaderTypeOK
<1>9. Connected' /\ Awaiting'
  <2>1. Connected'
    <3>1. \A x \in Ops : monitor'[x] # "consuming"
      BY <1>5, <1>6 DEF IndInv, Connected
    <3>2. op' = 0 \/ monitor'[op'] # "consuming"
      BY <1>5, <1>6
    <3> QED  BY <1>6, <3>1, <3>2 DEF Connected
  <2>2. Awaiting'
    BY <1>5, <1>6, Blanks, PageTypes DEF IndInv, PageInv, Awaiting, Ops
  <2> QED  BY <2>1, <2>2
<1>10. AnswersTrue'
  BY <1>5, <1>6, Blanks DEF IndInv, PageInv, AnswersTrue, Terminal
<1>11. ShownEndIsTrue' /\ LeftStream'
  BY <1>2, <1>3, <1>6 DEF ShownEndIsTrue, LeftStream
<1>12. AskedAfterEnd'
  BY <1>5, <1>6, Blanks DEF AskedAfterEnd
<1> QED  BY <1>7, <1>8, <1>9, <1>10, <1>11, <1>12 DEF IndInv, PageInv

LEMMA ReceiveKeeps ==
  ASSUME IndInv, NEW o \in Ops, ReceiveFrame(o)
  PROVE  IndInv'
PROOF
<1>. DEFINE f == Head(conn.frames)
<1>1. /\ monitor[o] = "consuming" /\ conn.at = "sending" /\ Send(f) /\ Receive(o, f)
      /\ UNCHANGED <<stream, faults, op, cancel>>
  BY DEF ReceiveFrame
<1>2. /\ view \in View
      /\ view = [run |-> view.run, status |-> view.status, url |-> view.url,
                 question |-> view.question, cancelling |-> view.cancelling]
  BY PageTypes DEF View
<1>. HIDE DEF f
<1>3. CASE f.type = "end"
  BY <1>1, <1>3, EndKeeps DEF Receive, f
<1>4. ASSUME f.type # "end", view' \in View, view'.url = view.url, view'.run = view.run,
             view'.status \in {view.status, "running"},
             view.question \/ f.type = "interaction" => view'.question,
             UNCHANGED <<monitor, detail>>,
             text' = IF f.type = "content" THEN Append(text, f.id) ELSE text
      PROVE  IndInv'
  <2>1. /\ StreamInv' /\ ConnInv' /\ QuestionComes' /\ TextWritten' /\ TextIsStream'
        /\ Connected' /\ Awaiting' /\ AnswersTrue' /\ AskedAfterEnd' /\ TypeOK'
    <3>1. Send(f) /\ f = Head(conn.frames) /\ conn.at = "sending"
      BY <1>1 DEF f
    <3> QED  BY <1>1, <1>4, <3>1, SendKeeps
  <2>2. ShownEndIsTrue' /\ LeftStream'
    BY <1>1, <1>4 DEF IndInv, PageInv, ShownEndIsTrue, LeftStream, stream, Terminal
  <2> QED  BY <2>1, <2>2 DEF IndInv, PageInv
<1>5. CASE f.type = "running"
  <2>1. /\ view' = [run |-> view.run, status |-> "running", url |-> view.url,
                    question |-> view.question, cancelling |-> view.cancelling]
        /\ UNCHANGED <<text, monitor, detail>>
    BY <1>1, <1>2, <1>5 DEF Receive
  <2>2. view' \in View
    BY <1>2, <2>1 DEF View, Status, Active
  <2> QED  BY <1>4, <1>5, <2>1, <2>2
<1>6. CASE f.type = "content"
  BY <1>1, <1>2, <1>4, <1>6 DEF Receive
<1>7. CASE f.type = "interaction"
  <2>1. /\ view' = [run |-> view.run, status |-> view.status, url |-> view.url,
                    question |-> TRUE, cancelling |-> view.cancelling]
        /\ UNCHANGED <<text, monitor, detail>>
    BY <1>1, <1>2, <1>7 DEF Receive
  <2>2. view' \in View
    BY <1>2, <2>1 DEF View
  <2> QED  BY <1>4, <1>7, <2>1, <2>2
<1>8. CASE f.type = "final"
  BY <1>1, <1>2, <1>4, <1>8 DEF Receive
<1> QED  BY <1>1, <1>3, <1>5, <1>6, <1>7, <1>8 DEF Receive

-----------------------------------------------------------------------------
(* The cancel calls.                                                       *)

LEMMA SendCancelKeeps ==
  ASSUME IndInv, NEW c \in Cancels, SendCancel(c)
  PROVE  IndInv'
PROOF
<1>1. /\ UNCHANGED <<stream, conn, faults, op, monitor, detail, text>>
      /\ cancel' = [cancel EXCEPT ![c] = "sent"]
      /\ view' = [view EXCEPT !.cancelling = TRUE]
  BY DEF SendCancel
<1>2. /\ view' \in View /\ view'.run = view.run /\ view'.url = view.url
      /\ view'.status = view.status /\ view'.question = view.question
  BY <1>1, PageTypes DEF View
<1>3. cancel' \in [Cancels -> CancelState]
  BY <1>1, PageTypes DEF CancelState
<1>4. /\ StreamInv' /\ ConnInv' /\ TextWritten' /\ TextIsStream' /\ QuestionComes'
      /\ StreamTypeOK' /\ first' \in Nat \ {0} /\ conn' \in Conn /\ text' \in Seq(1..MaxLog)
  BY <1>1, <1>2, PageRests
<1>5. TypeOK'
  BY <1>1, <1>2, <1>3, <1>4, PageTypes DEF TypeOK, ReaderTypeOK
<1>6. Connected' /\ Awaiting' /\ AskedAfterEnd'
  BY <1>1, <1>2 DEF IndInv, PageInv, Connected, Awaiting, AskedAfterEnd, stream
<1>7. AnswersTrue'
  <2>1. \A x \in Cancels : cancel'[x] = IF x = c THEN "sent" ELSE cancel[x]
    BY <1>1, PageTypes
  <2> QED  BY <1>1, <2>1 DEF IndInv, PageInv, AnswersTrue, stream, Terminal
<1>8. ShownEndIsTrue' /\ LeftStream'
  BY <1>1, <1>2 DEF IndInv, PageInv, ShownEndIsTrue, LeftStream, stream
<1> QED  BY <1>4, <1>5, <1>6, <1>7, <1>8 DEF IndInv, PageInv

LEMMA CancelReturnsKeeps ==
  ASSUME IndInv, NEW c \in Cancels, CancelReturns(c)
  PROVE  IndInv'
PROOF
<1>1. /\ UNCHANGED <<stream, conn, faults, op, monitor, detail, text>>
      /\ cancel' = [cancel EXCEPT ![c] = "none"]
      /\ cancel[c] \in Status \cup {"error"}
  BY DEF CancelReturns
<1>2. /\ view' \in View /\ view'.run = view.run /\ view'.url = view.url
      /\ view'.question = view.question
      /\ \/ view'.status = view.status
         \/ cancel[c] \in Status /\ view'.status = cancel[c]
  <2>1. view = [run |-> view.run, status |-> view.status, url |-> view.url,
                question |-> view.question, cancelling |-> view.cancelling]
    BY PageTypes DEF View
  <2>2. CASE view' = view
    BY <2>2, PageTypes
  <2>3. CASE view' = [view EXCEPT !.cancelling = FALSE]
    BY <2>1, <2>3, PageTypes DEF View
  <2>4. CASE cancel[c] \in Status /\ view' = [view EXCEPT !.cancelling = FALSE, !.status = cancel[c]]
    <3>1. view' = [run |-> view.run, status |-> cancel[c], url |-> view.url,
                   question |-> view.question, cancelling |-> FALSE]
      BY <2>1, <2>4
    <3>2. view.run \in BOOLEAN /\ view.url \in BOOLEAN /\ view.question \in BOOLEAN
      BY PageTypes DEF View
    <3> QED  BY <2>4, <3>1, <3>2 DEF View
  <2> QED  BY <1>1, <2>2, <2>3, <2>4 DEF CancelReturns
<1>3. cancel' \in [Cancels -> CancelState]
  BY <1>1, PageTypes DEF CancelState
<1>4. /\ StreamInv' /\ ConnInv' /\ TextWritten' /\ TextIsStream' /\ QuestionComes'
      /\ StreamTypeOK' /\ first' \in Nat \ {0} /\ conn' \in Conn /\ text' \in Seq(1..MaxLog)
  BY <1>1, <1>2, PageRests
<1>5. TypeOK'
  BY <1>1, <1>2, <1>3, <1>4, PageTypes DEF TypeOK, ReaderTypeOK
<1>6. Connected' /\ Awaiting' /\ AskedAfterEnd'
  BY <1>1, <1>2 DEF IndInv, PageInv, Connected, Awaiting, AskedAfterEnd, stream
<1>7. AnswersTrue'
  <2>1. \A x \in Cancels : cancel'[x] = IF x = c THEN "none" ELSE cancel[x]
    BY <1>1, PageTypes
  <2> QED  BY <1>1, <2>1 DEF IndInv, PageInv, AnswersTrue, stream, Terminal
<1>8. ShownEndIsTrue' /\ LeftStream'
  BY <1>1, <1>2 DEF IndInv, PageInv, AnswersTrue, ShownEndIsTrue, LeftStream, stream
<1> QED  BY <1>4, <1>5, <1>6, <1>7, <1>8 DEF IndInv, PageInv

LEMMA CommitCancelKeeps ==
  ASSUME IndInv, NEW c \in Cancels, CommitCancel(c)
  PROVE  IndInv'
PROOF
<1>1. /\ ReaderTypeOK /\ StreamInv
      /\ UNCHANGED <<first, conn, op, monitor, detail, view, text>>
      /\ faults' \in 0..MaxFaults
  BY PageTypes, ReaderAssumption DEF IndInv, CommitCancel, Fault, ReaderTypeOK
<1>2. Prolonged /\ Trimmed /\ StreamInv'
  BY <1>1, CommitKeeps
<1>3. PICK a \in {"cancel_requested", "error"} \cup Terminal :
        /\ cancel' = [cancel EXCEPT ![c] = a]
        /\ a \in Terminal => status' = status /\ a = status
  BY DEF CommitCancel, Terminal, AskToStop
<1>4. /\ cancel' \in [Cancels -> CancelState]
      /\ \A x \in Cancels : cancel'[x] = IF x = c THEN a ELSE cancel[x]
  BY <1>3, PageTypes DEF CancelState, Status, Active
<1>5. \A x \in Cancels : cancel'[x] \in Terminal => cancel'[x] = status'
  BY <1>2, <1>3, <1>4 DEF IndInv, PageInv, AnswersTrue, Prolonged
<1>6. /\ ConnInv' /\ Connected' /\ PageInv' /\ QuestionComes' /\ AskedAfterEnd'
      /\ TextWritten' /\ TextIsStream'
  BY <1>1, <1>2, <1>5, KnowledgeStays
<1>7. TypeOK'
  <2>1. log' \in Seq(Entry) /\ status' \in Status /\ first' \in Nat \ {0}
    BY <1>2 DEF Prolonged, Trimmed
  <2> QED  BY <1>1, <1>4, <2>1, PageTypes DEF TypeOK, ReaderTypeOK, StreamTypeOK
<1> QED  BY <1>2, <1>6, <1>7 DEF IndInv

LEMMA RunKeeps ==
  ASSUME IndInv, RunStep \/ Expire, UNCHANGED pageVars
  PROVE  IndInv'
PROOF
<1>1. ReaderTypeOK /\ StreamInv
  BY PageTypes DEF IndInv
<1>2. Prolonged /\ Trimmed /\ StreamInv'
  BY <1>1, RunStepKeeps, ExpireKeeps
<1>3. UNCHANGED <<conn, op, monitor, detail, view, text, cancel>> /\ faults' \in 0..MaxFaults
  BY <1>1, ReaderAssumption DEF RunStep, Expire, Fault, ReaderTypeOK, pageVars
<1>4. \A x \in Cancels : cancel'[x] \in Terminal => cancel'[x] = status'
  BY <1>2, <1>3 DEF IndInv, PageInv, AnswersTrue, Prolonged
<1>5. /\ ConnInv' /\ Connected' /\ PageInv' /\ QuestionComes' /\ AskedAfterEnd'
      /\ TextWritten' /\ TextIsStream'
  BY <1>2, <1>3, <1>4, KnowledgeStays
<1>6. TypeOK'
  <2>1. log' \in Seq(Entry) /\ status' \in Status /\ first' \in Nat \ {0}
    BY <1>2 DEF Prolonged, Trimmed
  <2> QED  BY <1>3, <2>1, PageTypes DEF TypeOK, ReaderTypeOK, StreamTypeOK
<1> QED  BY <1>2, <1>5, <1>6 DEF IndInv

-----------------------------------------------------------------------------
(* The theorems.                                                           *)

LEMMA InitHolds == Init => IndInv
PROOF
<1>. SUFFICES ASSUME Init
              PROVE  IndInv
  OBVIOUS
<1>1. /\ status = "pending" /\ log = <<>> /\ first = 1 /\ faults = 0 /\ op = 0
      /\ conn.at = "closed" /\ conn.frames = <<>> /\ conn.cursor = 0 /\ conn \in Conn
      /\ monitor = [o \in Ops |-> "none"] /\ detail = [o \in Ops |-> NoDetail]
      /\ view \in View /\ ~view.run /\ text = <<>> /\ cancel = [c \in Cancels |-> "none"]
  BY Blanks DEF Init, ReaderInit, StreamInit
<1>2. TypeOK
  <2>1. log \in Seq(Entry) /\ text \in Seq(1..MaxLog) /\ status \in Status
    BY <1>1 DEF Status, Active
  <2>2. faults \in 0..MaxFaults /\ op \in 0..MaxOps /\ first \in Nat \ {0}
    BY <1>1, ReaderAssumption, MonitorAssumption
  <2>3. monitor \in [Ops -> MonitorState] /\ detail \in [Ops -> Detail]
        /\ cancel \in [Cancels -> CancelState]
    BY <1>1, Blanks DEF MonitorState, CancelState
  <2> QED  BY <1>1, <2>1, <2>2, <2>3 DEF TypeOK, ReaderTypeOK, StreamTypeOK
<1>3. StreamInv
  BY <1>1, ReaderAssumption DEF StreamInv, LogTellsRow, QuestionFirst, Retained
<1>4. ConnInv /\ QuestionComes
  BY <1>1 DEF ConnInv, FramesFollow, QuestionComes
<1>5. Connected /\ Awaiting
  BY <1>1, Blanks DEF Connected, Awaiting
<1>6. AnswersTrue /\ ShownEndIsTrue /\ LeftStream /\ AskedAfterEnd
  BY <1>1, Blanks DEF AnswersTrue, ShownEndIsTrue, LeftStream, AskedAfterEnd, Terminal
<1>7. TextWritten /\ TextIsStream
  BY <1>1 DEF TextWritten, TextIsStream
<1> QED  BY <1>2, <1>3, <1>4, <1>5, <1>6, <1>7 DEF IndInv, PageInv

LEMMA StutterKeeps ==
  ASSUME IndInv, UNCHANGED vars
  PROVE  IndInv'
PROOF
<1>1. UNCHANGED <<stream, conn, faults, op, monitor, detail, view, text, cancel>>
  BY DEF vars, readerVars, pageVars, stream
<1>2. /\ StreamInv' /\ ConnInv' /\ TextWritten' /\ TextIsStream' /\ QuestionComes'
      /\ StreamTypeOK' /\ first' \in Nat \ {0} /\ conn' \in Conn /\ text' \in Seq(1..MaxLog)
  BY <1>1, PageRests
<1>3. TypeOK'
  BY <1>1, <1>2, PageTypes DEF TypeOK, ReaderTypeOK
<1>4. Connected' /\ PageInv' /\ AskedAfterEnd'
  BY <1>1 DEF IndInv, Connected, PageInv, Awaiting, AnswersTrue, ShownEndIsTrue, LeftStream,
              AskedAfterEnd, stream
<1> QED  BY <1>2, <1>3, <1>4 DEF IndInv

LEMMA NextKeeps == IndInv /\ [Next]_vars => IndInv'
PROOF
<1>. SUFFICES ASSUME IndInv, [Next]_vars
              PROVE  IndInv'
  OBVIOUS
<1>1. CASE (RunStep \/ Expire \/ ReaderStep) /\ UNCHANGED pageVars
  BY <1>1, RunKeeps, ReaderKeeps
<1>2. CASE CreateRun \/ OpenThread
  BY <1>2, CreateKeeps, OpenKeeps
<1>3. CASE \E o \in Ops : PageStep(o) \/ DetailFails(o) \/ ConnectionBreaks(o)
  BY <1>3, ReadDetailKeeps, ArrivesKeeps, LoopKeeps, ReceiveKeeps, FailsKeeps, BreaksKeeps
  DEF PageStep
<1>4. CASE \E c \in Cancels : SendCancel(c) \/ CancelStep(c)
  BY <1>4, SendCancelKeeps, CommitCancelKeeps, CancelReturnsKeeps DEF CancelStep
<1>5. CASE UNCHANGED vars
  BY <1>5, StutterKeeps
<1> QED  BY <1>1, <1>2, <1>3, <1>4, <1>5 DEF Next

\* What the chat page, the connection and the run may be together: the inductive
\* invariant of the page that watches a run.
THEOREM Invariance == Spec => []IndInv
PROOF
<1> QED  BY InitHolds, NextKeeps, PTL DEF Spec

\* Every variable of the page and of the connection keeps its type: a cursor is an
\* entry id, and a detail, a view and a cancel call are what the code's types say.
THEOREM TypeCorrect == Spec => []TypeOK
PROOF
<1>1. IndInv => TypeOK
  BY DEF IndInv
<1> QED  BY <1>1, Invariance, PTL

\* The streamed text on the page is that of the stream, whatever was replayed,
\* trimmed or lost on a broken connection: no entry twice, none out of order, and
\* none missing as long as Redis has the whole log.
THEOREM TextTrue == Spec => []TextIsStream
PROOF
<1>1. IndInv => TextIsStream
  BY DEF IndInv
<1> QED  BY <1>1, Invariance, PTL

\* The page never says that the run is over, or how it ended, unless the row says
\* so, wherever it has it from: the stream, the frames made up from the row, a late
\* thread detail or a late cancel response.
THEOREM EndTrue == Spec => []ShownEndIsTrue
PROOF
<1>1. IndInv => ShownEndIsTrue
  BY DEF IndInv, PageInv
<1> QED  BY <1>1, Invariance, PTL

\* A page that has left the stream of an interrupted run shows the question, on
\* whichever of the three ways it came.
THEOREM QuestionShown == Spec => []QuestionIsShown
PROOF
<1>1. IndInv => QuestionIsShown
  BY DEF IndInv, PageInv, ShownEndIsTrue, LeftStream, QuestionIsShown, Terminal
<1> QED  BY <1>1, Invariance, PTL

\* A page that has left the stream keeps the end it shows until its operation ends
\* or a cancel response arrives: an answer to an earlier operation, or one that was
\* read before the end, does not take it back.
THEOREM EndStays == Spec => ShownEndStays
PROOF
<1>1. ASSUME IndInv, [Next]_vars,
             view.run, ~view.url, view.status \in Terminal, op' = op, cancel' = cancel
      PROVE  view'.status = view.status
  <2>1. CASE (RunStep \/ Expire \/ ReaderStep) /\ UNCHANGED pageVars
    BY <2>1 DEF pageVars
  <2>2. CASE CreateRun \/ OpenThread
    BY <1>1, <2>2, PageTypes DEF CreateRun, OpenThread
  <2>3. ASSUME NEW o \in Ops, ReadDetail(o) \/ DetailFails(o) \/ Loop(o) \/ ConnectionBreaks(o)
        PROVE  view'.status = view.status
    BY <2>3 DEF ReadDetail, DetailFails, Loop, ConnectionBreaks
  <2>4. ASSUME NEW o \in Ops, DetailArrives(o)
        PROVE  view'.status = view.status
    <3>1. CASE o # op
      BY <2>4, <3>1 DEF DetailArrives, RestoreIfCurrent
    <3>2. CASE o = op
      <4>1. /\ detail[op].at = "ready" /\ op # 0
            /\ view' = [view EXCEPT !.run = TRUE, !.status = detail[op].listed,
                                    !.url = detail[op].active # "none",
                                    !.question = detail[op].question]
        BY <2>4, <3>2 DEF DetailArrives, RestoreIfCurrent, Restore, Ops
      <4>2. detail[op].listed = status
        BY <1>1, <4>1 DEF IndInv, AskedAfterEnd
      <4>3. view.status = status
        BY <1>1 DEF IndInv, PageInv, ShownEndIsTrue
      <4>4. view'.status = detail[op].listed
        BY <1>1, <4>1, PageTypes DEF View
      <4> QED  BY <4>2, <4>3, <4>4
    <3> QED  BY <3>1, <3>2
  <2>5. ASSUME NEW o \in Ops, ReceiveFrame(o)
        PROVE  view'.status = view.status
    BY <1>1, <2>5 DEF ReceiveFrame, IndInv, Connected
  <2>6. ASSUME NEW c \in Cancels, SendCancel(c) \/ CancelStep(c)
        PROVE  view'.status = view.status
    <3>1. cancel'[c] # cancel[c]
      BY <1>1, <2>6, PageTypes
      DEF SendCancel, CancelStep, CommitCancel, CancelReturns, Status, Active, Terminal
    <3> QED  BY <1>1, <3>1
  <2>7. CASE UNCHANGED vars
    BY <2>7 DEF vars, pageVars
  <2> QED
    BY <1>1, <2>1, <2>2, <2>3, <2>4, <2>5, <2>6, <2>7 DEF Next, PageStep
<1>2. IndInv /\ [Next]_vars =>
        [view.run /\ ~view.url /\ view.status \in Terminal /\ op' = op /\ cancel' = cancel
           => view'.status = view.status]_vars
  BY <1>1
<1> QED  BY <1>2, Invariance, PTL DEF Spec, ShownEndStays
=============================================================================
