--------------------------------- MODULE Log ---------------------------------
(***************************************************************************)
(* The logger (Log.cpp): threads that log append lines to a current buffer *)
(* under _mutex, full buffers go to _workList, the writer thread (OnProc)  *)
(* writes them to a file and gives them back through _freeList.  When it   *)
(* has found nothing to write for a while it writes the current buffer in  *)
(* place.  Files are named by the second they are opened in.               *)
(***************************************************************************)
EXTENDS Integers, FiniteSets, SequencesExt

CONSTANTS
    Thread,         \* threads that log
    Buffer,         \* the CBuffers, 3 of them in the code
    BufSize,        \* _iBufSize
    Lens,           \* lengths of lines
    MaxLines,       \* bound: lines logged
    TickLimit,      \* liTickMSec reaches it before the current buffer is written
    FileSize,       \* _iFileSize
    MaxSecond       \* bound: the clock of GetFileName

ASSUME LogAssumption ==
    /\ BufSize \in Nat \ {0} /\ Lens \subseteq 1 .. BufSize
    /\ 0 \notin Thread \cup Buffer /\ IsFiniteSet(Buffer)
    /\ {MaxLines, TickLimit, FileSize, MaxSecond} \subseteq Nat \ {0}

Nobody == 0
NoBuffer == 0

VARIABLES
    pc,             \* a thread in Write: "out", "in" (read _bStop), "locked"
    owner,          \* of _mutex (the writer and UnInit hold it within a step)
    free, work,     \* _freeList, _workList
    cur,            \* _pCurBuffer
    content,        \* buffer -> [ids, writePos]: the lines in it, and _iWritePos
    lines,          \* lines given to Append so far: the id of the next is one more
    writer,         \* OnProc: [at, buf, tick]
    stop,           \* _bStop
    uninit,         \* UnInit: "out", "join", "clean", "done"
    disk,           \* the lines written to files: [id, file, flushed]
    file,           \* the open file: [opened, name, size]
    second,         \* the time of day
    spoiled         \* history: lines that fwrite failed for or a file was opened over

vars == <<pc, owner, free, work, cur, content, lines, writer, stop, uninit, disk, file,
          second, spoiled>>

\* A CBuffer after Init and after Reset.
EmptyBuffer == [ids |-> <<>>, writePos |-> 0]

LinesOf(b) == ToSet(content[b].ids)

\* The lines in a file: fopen with "wb+" leaves none, they are in no file then.
NoFile == -1

InFile(f) == {disk[i].id : i \in {j \in DOMAIN disk : disk[j].file = f}}

\* Log::Init: the first file is opened, or not.
Opened == [opened : BOOLEAN, name : {0}, size : {0}]

\* Loger::Init does not look at what Log::Init returns.
Init ==
    /\ pc = [t \in Thread |-> "out"] /\ owner = Nobody
    /\ free = SetToSeq(Buffer) /\ work = <<>> /\ cur = NoBuffer
    /\ content = [b \in Buffer |-> EmptyBuffer] /\ lines = 0
    /\ writer = [at |-> "file", buf |-> NoBuffer, tick |-> 0]
    /\ stop = FALSE /\ uninit = "out" /\ disk = <<>> /\ second = 0 /\ spoiled = {}
    /\ file \in Opened

-----------------------------------------------------------------------------
(* CBuffer and Write, on the thread that logs. *)

DataLen(b) == content[b].writePos

LeftSize(b) == BufSize - DataLen(b)

\* WLog does not call Write for a line that formats to nothing.
WLog(t) ==
    /\ pc[t] = "out" /\ ~ stop
    /\ pc' = [pc EXCEPT ![t] = "in"]
    /\ UNCHANGED <<owner, free, work, cur, content, lines, writer, stop, uninit, disk, file,
                   second, spoiled>>

Lock(t) ==
    /\ pc[t] = "in" /\ owner = Nobody /\ lines < MaxLines
    /\ owner' = t /\ pc' = [pc EXCEPT ![t] = "locked"]
    /\ UNCHANGED <<free, work, cur, content, lines, writer, stop, uninit, disk, file, second,
                   spoiled>>

\* GetWait, with _mutex held.
GetWait(t) ==
    /\ pc[t] = "locked" /\ cur = NoBuffer /\ free # <<>>
    /\ cur' = Head(free) /\ free' = Tail(free)
    /\ UNCHANGED <<pc, owner, work, content, lines, writer, stop, uninit, disk, file, second,
                   spoiled>>

\* Variant: CQueue::Add puts the buffer at the front.
AddFront(list, b) == <<b>> \o list

Add(list, b) == Append(list, b)

\* Variant: the buffer stays the current one.
HandOverKept == work' = Add(work, cur) /\ cur' = cur

HandOver == work' = Add(work, cur) /\ cur' = NoBuffer

\* Variant: a line must leave room in the buffer.
FitsLoosely(n) == n < LeftSize(cur)

Fits(n) == n <= LeftSize(cur)

\* A line that does not fit is gone: continue leaves the do { } while(0).
AppendLine(t) ==
    /\ pc[t] = "locked" /\ cur # NoBuffer
    /\ lines' = lines + 1
    /\ \E n \in Lens :
        IF Fits(n)
        THEN /\ content' = [content EXCEPT ![cur] = [ids |-> Append(content[cur].ids, lines + 1),
                                                     writePos |-> DataLen(cur) + n]]
             /\ UNCHANGED <<work, cur>>
        ELSE HandOver /\ content' = content
    /\ owner' = Nobody /\ pc' = [pc EXCEPT ![t] = "out"]
    /\ UNCHANGED <<free, writer, stop, uninit, disk, file, second, spoiled>>

Logging == \E t \in Thread : WLog(t) \/ Lock(t) \/ GetWait(t) \/ AppendLine(t)

-----------------------------------------------------------------------------
(* OnProc, on the thread of the writer. *)

ChangeFile == file.size >= FileSize

\* fopen empties the file when it is there already.
Open ==
    /\ disk' = [i \in DOMAIN disk |->
                  IF disk[i].file = second
                  THEN [id |-> disk[i].id, file |-> NoFile, flushed |-> disk[i].flushed]
                  ELSE disk[i]]
    /\ file' = [opened |-> TRUE, name |-> second, size |-> 0]
    /\ spoiled' = spoiled \cup InFile(second)

OpenFails == file' = [file EXCEPT !.opened = FALSE] /\ UNCHANGED <<disk, spoiled>>

\* OnProc from the top of its loop to Get.
CheckFile ==
    /\ writer.at = "file"
    /\ IF stop
       THEN writer' = [writer EXCEPT !.at = "ended"] /\ UNCHANGED <<stop, disk, file, spoiled>>
       ELSE IF ~ ChangeFile
       THEN writer' = [writer EXCEPT !.at = "get"] /\ UNCHANGED <<stop, disk, file, spoiled>>
       ELSE \/ Open /\ writer' = [writer EXCEPT !.at = "get"] /\ stop' = stop
            \/ OpenFails /\ writer' = [writer EXCEPT !.at = "ended"] /\ stop' = TRUE
    /\ UNCHANGED <<pc, owner, free, work, cur, content, lines, uninit, second>>

\* Variant: the ticks start over and the current buffer is never written.
TickedOver(n) == [at |-> "file", buf |-> NoBuffer, tick |-> n % TickLimit]

Ticked(n) == [at |-> IF n >= TickLimit THEN "flush" ELSE "file", buf |-> NoBuffer, tick |-> n]

Get ==
    /\ writer.at = "get"
    /\ IF work # <<>>
       THEN /\ writer' = [at |-> "write", buf |-> Head(work), tick |-> 0]
            /\ work' = Tail(work)
       ELSE writer' = Ticked(writer.tick + 1) /\ work' = work
    /\ UNCHANGED <<pc, owner, free, cur, content, lines, stop, uninit, disk, file, second,
                   spoiled>>

\* Log::Write of a buffer: fwrite may fail, and does without a file.
Written(b, flushed) ==
    /\ file.opened /\ DataLen(b) # 0
    /\ disk' = disk \o [i \in DOMAIN content[b].ids |->
                          [id |-> content[b].ids[i], file |-> file.name, flushed |-> flushed]]
    /\ file' = [file EXCEPT !.size = @ + DataLen(b)] /\ spoiled' = spoiled

NotWritten(b) == spoiled' = spoiled \cup LinesOf(b) /\ UNCHANGED <<disk, file>>

Reset(b) == content' = [content EXCEPT ![b] = EmptyBuffer]

\* When fwrite fails the buffer is in no list any more.
WriteWork ==
    /\ writer.at = "write"
    /\ \/ /\ Written(writer.buf, FALSE) /\ Reset(writer.buf)
          /\ free' = Add(free, writer.buf) /\ stop' = stop
          /\ writer' = [at |-> "file", buf |-> NoBuffer, tick |-> 0]
       \/ /\ NotWritten(writer.buf)
          /\ stop' = TRUE /\ writer' = [writer EXCEPT !.at = "ended"]
          /\ UNCHANGED <<free, content>>
    /\ UNCHANGED <<pc, owner, work, cur, lines, uninit, second>>

\* The writer takes _mutex to write the current buffer.
FlushCurrent ==
    /\ writer.at = "flush" /\ owner = Nobody
    /\ IF cur # NoBuffer /\ DataLen(cur) # 0
       THEN (Written(cur, TRUE) \/ NotWritten(cur)) /\ Reset(cur)
       ELSE UNCHANGED <<content, disk, file, spoiled>>
    /\ writer' = [at |-> "file", buf |-> NoBuffer, tick |-> 0]
    /\ UNCHANGED <<pc, owner, free, work, cur, lines, stop, uninit, second>>

OnProc == CheckFile \/ Get \/ WriteWork \/ FlushCurrent

-----------------------------------------------------------------------------
(* UnInit, on a thread of its own, and the time of day. *)

StopWriter ==
    /\ uninit = "out"
    /\ stop' = TRUE /\ uninit' = "join"
    /\ UNCHANGED <<pc, owner, free, work, cur, content, lines, writer, disk, file, second,
                   spoiled>>

Clean ==
    /\ uninit = "join" /\ writer.at = "ended"
    /\ free' = <<>> /\ work' = <<>> /\ uninit' = "clean"
    /\ UNCHANGED <<pc, owner, cur, content, lines, writer, stop, disk, file, second, spoiled>>

DeleteCurrent ==
    /\ uninit = "clean" /\ owner = Nobody
    /\ cur' = NoBuffer /\ uninit' = "done"
    /\ UNCHANGED <<pc, owner, free, work, content, lines, writer, stop, disk, file, second,
                   spoiled>>

UnInit == StopWriter \/ Clean \/ DeleteCurrent

Tick ==
    /\ second < MaxSecond
    /\ second' = second + 1
    /\ UNCHANGED <<pc, owner, free, work, cur, content, lines, writer, stop, uninit, disk, file,
                   spoiled>>

Next == Logging \/ OnProc \/ UnInit \/ Tick

Spec == Init /\ [][Next]_vars

\* The writer runs on, and so does a thread that has _mutex.
FairSpec ==
    /\ Spec /\ WF_vars(OnProc)
    /\ WF_vars(\E t \in Thread : GetWait(t) \/ AppendLine(t))
    /\ WF_vars(Clean \/ DeleteCurrent)

-----------------------------------------------------------------------------
(* Properties. *)

Held == (IF cur = NoBuffer THEN {} ELSE {cur}) \cup
        (IF writer.buf = NoBuffer THEN {} ELSE {writer.buf})

\* Types, and that every buffer has one owner: it is in one list once, or the
\* current one, or the writer's, or deleted; a free buffer is empty.
TypeOK ==
    /\ pc \in [Thread -> {"out", "in", "locked"}]
    /\ \A t \in Thread : pc[t] = "locked" <=> owner = t
    /\ writer.at \in {"file", "get", "write", "flush", "ended"} /\ writer.tick \in 0 .. TickLimit
    /\ cur \in Buffer \cup {NoBuffer} /\ {stop, file.opened} \subseteq BOOLEAN
    /\ uninit \in {"out", "join", "clean", "done"} /\ second \in 0 .. MaxSecond
    /\ IsInjective(free) /\ IsInjective(work)
    /\ ToSet(free) \cap ToSet(work) = {} /\ (ToSet(free) \cup ToSet(work)) \cap Held = {}
    /\ cur # writer.buf \/ cur = NoBuffer
    /\ \A b \in Buffer : DataLen(b) <= BufSize /\ (b \in ToSet(free) => content[b] = EmptyBuffer)

Kept == Held \cup ToSet(work)

\* The lines that are somewhere, or that the disk lost.
Accounted ==
    spoiled \cup {disk[i].id : i \in DOMAIN disk} \cup UNION {LinesOf(b) : b \in Kept}

\* No line is in two places or twice in one, and of two lines that follow each
\* other one is kept: a line is lost for want of room only, and then the next
\* has an empty buffer.  Until the logger stops, save what the disk lost.
LostOnlyWhenFull ==
    /\ \A i, j \in DOMAIN disk : disk[i].id = disk[j].id => i = j
    /\ \A b \in Kept :
          /\ IsInjective(content[b].ids)
          /\ \A i \in DOMAIN disk : disk[i].id \notin LinesOf(b)
          /\ \A c \in Kept \ {b} : LinesOf(b) \cap LinesOf(c) = {}
    /\ stop \/ \A n \in 1 .. lines - 1 : {n, n + 1} \cap Accounted # {}

\* The files hold the lines in the order they were logged, but for buffers that
\* were written in place: those may come before ones in _workList.
InOrderUnlessFlushed ==
    \A i, j \in DOMAIN disk : i < j /\ disk[i].id > disk[j].id => disk[i].flushed

\* Every buffer is in _workList, the thread that logs waits for a free one with
\* _mutex, and the writer, which found _workList empty, for _mutex.
Deadlocked ==
    /\ writer.at = "flush" /\ cur = NoBuffer /\ free = <<>> /\ owner # Nobody

\* A line in a buffer comes to the files in the end, though nobody logs another,
\* unless the logger stops or every thread of it waits.
LinesAreWritten ==
    \A n \in 1 .. MaxLines :
        (\E b \in Kept : n \in LinesOf(b))
            ~> (\E i \in DOMAIN disk : disk[i].id = n) \/ n \in spoiled \/ stop \/ Deadlocked

=============================================================================
