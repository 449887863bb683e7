--------------------------- MODULE TelemetryLogger ---------------------------
(***************************************************************************)
(* The lock-free single-producer single-consumer ring buffer of            *)
(* high_precision_optical_simulator/src/optical/TelemetryLogger.cpp: the   *)
(* control loop (the owner) pushes frames and finally calls stop(); the    *)
(* writer thread drains the ring into a CSV file.                          *)
(*                                                                         *)
(* Each atomic access is a step.  A load of the other thread's atomic may  *)
(* return any value that thread stored since this thread's last load of it *)
(* (coherence, no more): headSeen and tailSeen hold the last values seen.  *)
(* A frame is its number in the order of the push() calls, as ts_us is.    *)
(***************************************************************************)
EXTENDS Naturals, Sequences

CONSTANTS N,        \* capacity: slots of the ring, N-1 of them usable
          MaxPush   \* bound: how many times the control loop calls push()

ASSUME TelemetryAssumption == N \in Nat \ {0} /\ MaxPush \in Nat

NoFrame == 0

VARIABLES buf, head, tail, dropped, running,   \* the object's members
          owner, headSeen,                     \* control loop
          writer, tailSeen,                    \* writer thread
          accepted,   \* history: frames for which push() stored tail_
          written,    \* rows handed to the file stream, in order
          flushed     \* how many rows have left the stream's buffer

loggerVars == <<buf, head, tail, dropped, running, owner, headSeen,
          writer, tailSeen, accepted, written, flushed>>

Slot == 0 .. N - 1

\* The slot k places after slot i, k < N, and how far j is ahead of i.
Ahead(i, k) == IF i + k < N THEN i + k ELSE i + k - N
Gap(i, j)   == IF i <= j THEN j - i ELSE j + N - i
Succ(i)     == IF i + 1 < N THEN i + 1 ELSE 0

\* The frame the control loop is pushing, or will push next.
Frame == 1 .. MaxPush
Current == Len(accepted) + dropped + 1

LoggerInit ==
    /\ buf = [i \in Slot |-> NoFrame]
    /\ head = 0 /\ tail = 0 /\ dropped = 0 /\ running = TRUE
    /\ owner = "idle" /\ headSeen = 0
    /\ writer = "load" /\ tailSeen = 0
    /\ accepted = <<>> /\ written = <<>> /\ flushed = 0

------------------------------------------------------------------------------
(* push(), one step per shared access. *)

\* Mutation: the full test of lines 17-20 is dropped.
PushCheckNeverFull ==
    /\ owner = "idle"
    /\ Current <= MaxPush
    /\ owner' = "fill"
    /\ UNCHANGED <<buf, head, tail, dropped, running, headSeen, writer, tailSeen,
                   accepted, written, flushed>>

PushCheck ==
    /\ owner = "idle"
    /\ Current <= MaxPush
    /\ \E k \in 0 .. Gap(headSeen, head) : headSeen' = Ahead(headSeen, k)
    /\ \/ /\ Succ(tail) = headSeen'
          /\ dropped' = dropped + 1
          /\ UNCHANGED owner
       \/ /\ Succ(tail) # headSeen'
          /\ owner' = "fill"
          /\ UNCHANGED dropped
    /\ UNCHANGED <<buf, head, tail, running, writer, tailSeen, accepted, written, flushed>>

PushFill ==
    /\ owner = "fill"
    /\ buf' = [buf EXCEPT ![tail] = Current]
    /\ owner' = "publish"
    /\ UNCHANGED <<head, tail, dropped, running, headSeen, writer, tailSeen,
                   accepted, written, flushed>>

PushPublish ==
    /\ owner = "publish"
    /\ tail' = Succ(tail)
    /\ accepted' = Append(accepted, Current)
    /\ owner' = "idle"
    /\ UNCHANGED <<buf, head, dropped, running, headSeen, writer, tailSeen, written, flushed>>

------------------------------------------------------------------------------
(* stop(): ask, then join.  The destructor's second stop() changes nothing. *)

\* Mutation: stop() joins without telling the writer.
StopAskSilently ==
    /\ owner = "idle"
    /\ owner' = "join"
    /\ UNCHANGED <<buf, head, tail, dropped, running, headSeen, writer, tailSeen,
                   accepted, written, flushed>>

StopAsk ==
    /\ owner = "idle"
    /\ running' = FALSE
    /\ owner' = "join"
    /\ UNCHANGED <<buf, head, tail, dropped, headSeen, writer, tailSeen,
                   accepted, written, flushed>>

StopJoin ==
    /\ owner = "join"
    /\ writer = "done"
    /\ owner' = "stopped"
    /\ UNCHANGED <<buf, head, tail, dropped, running, headSeen, writer, tailSeen,
                   accepted, written, flushed>>

------------------------------------------------------------------------------
(* writerLoop().  head_ is this thread's own: its local h differs from it   *)
(* only between a row and the store that releases its slot.                 *)

LoadTail(k) ==
    /\ writer = "load"
    /\ k \in 0 .. Gap(tailSeen, tail)
    /\ tailSeen' = Ahead(tailSeen, k)
    /\ writer' = IF head = tailSeen' THEN "check" ELSE "row"
    /\ UNCHANGED <<buf, head, tail, dropped, running, owner, headSeen,
                   accepted, written, flushed>>

\* A relaxed load of running_: FALSE only after the store, TRUE also later.
\* Leaving the loop closes the stream, which flushes it.
SeeRunning ==
    /\ writer = "check"
    /\ writer' = "load"
    /\ UNCHANGED <<buf, head, tail, dropped, running, owner, headSeen, tailSeen,
                   accepted, written, flushed>>

SeeStopped ==
    /\ writer = "check"
    /\ ~running
    /\ writer' = "done"
    /\ flushed' = Len(written)
    /\ UNCHANGED <<buf, head, tail, dropped, running, owner, headSeen, tailSeen,
                   accepted, written>>

WriteRow ==
    /\ writer = "row"
    /\ written' = Append(written, buf[head])
    /\ writer' = "release"
    /\ UNCHANGED <<buf, head, tail, dropped, running, owner, headSeen, tailSeen,
                   accepted, flushed>>

\* Mutation: one store releases everything seen, after the first row.
ReleaseAllSeen ==
    /\ writer = "release"
    /\ head' = tailSeen
    /\ writer' = "flush"
    /\ UNCHANGED <<buf, tail, dropped, running, owner, headSeen, tailSeen,
                   accepted, written, flushed>>

\* Mutation: the flush after a drain is dropped.
ReleaseNoFlush ==
    /\ writer = "release"
    /\ head' = Succ(head)
    /\ writer' = IF head' = tailSeen THEN "load" ELSE "row"
    /\ UNCHANGED <<buf, tail, dropped, running, owner, headSeen, tailSeen,
                   accepted, written, flushed>>

ReleaseSlot ==
    /\ writer = "release"
    /\ head' = Succ(head)
    /\ writer' = IF head' = tailSeen THEN "flush" ELSE "row"
    /\ UNCHANGED <<buf, tail, dropped, running, owner, headSeen, tailSeen,
                   accepted, written, flushed>>

Flush ==
    /\ writer = "flush"
    /\ flushed' = Len(written)
    /\ writer' = "load"
    /\ UNCHANGED <<buf, head, tail, dropped, running, owner, headSeen, tailSeen,
                   accepted, written>>

------------------------------------------------------------------------------
\* Both threads are gone.
Stopped == owner = "stopped" /\ UNCHANGED loggerVars

LoadLatest == LoadTail(Gap(tailSeen, tail))

Owner  == PushCheck \/ PushFill \/ PushPublish \/ StopAsk \/ StopJoin
Writer == \/ \E k \in Slot : LoadTail(k)
          \/ SeeRunning \/ SeeStopped \/ WriteRow \/ ReleaseSlot \/ Flush
LoggerNext == Owner \/ Writer \/ Stopped

(***************************************************************************)
(* The scheduler runs both threads; the control loop need not ever push    *)
(* again or stop.  A store becomes visible to a thread that keeps loading  *)
(* the atomic (the progress guarantee of the C++ memory model), so a load  *)
(* tried for ever returns the latest value some day.                       *)
(***************************************************************************)
Fairness ==
    /\ WF_loggerVars(PushFill \/ PushPublish \/ StopJoin)
    /\ WF_loggerVars(Writer)
    /\ SF_loggerVars(LoadLatest)
    /\ SF_loggerVars(SeeStopped)

LoggerSpec == LoggerInit /\ [][LoggerNext]_loggerVars
FairSpec == LoggerSpec /\ Fairness

------------------------------------------------------------------------------
LoggerTypeOK ==
    /\ buf \in [Slot -> Frame \cup {NoFrame}]
    /\ head \in Slot /\ tail \in Slot /\ headSeen \in Slot /\ tailSeen \in Slot
    /\ dropped \in Nat /\ running \in BOOLEAN /\ flushed \in Nat
    /\ owner \in {"idle", "fill", "publish", "join", "stopped"}
    /\ writer \in {"load", "check", "row", "release", "flush", "done"}
    /\ accepted \in Seq(Frame) /\ written \in Seq(Frame)

\* The rows of the file are the accepted frames, in order, none twice, none
\* torn or overwritten before it was read, whatever stale indexes were used.
FileIsPrefix ==
    /\ Len(written) <= Len(accepted)
    /\ \A i \in 1 .. Len(written) : written[i] = accepted[i]

\* The control loop never assigns the slot the writer is reading: buf_ is
\* not atomic, so the two accesses would be a data race.
NoSlotRace == ~(owner = "fill" /\ writer = "row" /\ tail = head)

\* The writer never exits with a row still in the stream's buffer, nor with
\* a frame it has itself seen published left in the ring.
ExitIsFlushed ==
    writer = "done" => head = tailSeen /\ flushed = Len(written)

\* push() reports a drop only when the ring is full as far as the last load
\* of head_ tells, and an accepted frame never makes a full ring look empty:
\* the number of unread frames never reaches N.
NeverOverfull == Len(accepted) - Len(written) < N

\* Safety of the ring, all of it: rows, slots, shutdown and capacity.
RingSafe == FileIsPrefix /\ NoSlotRace /\ ExitIsFlushed /\ NeverOverfull

\* The inductive invariant.  Released is how many frames head_ has passed;
\* the four indexes lie on the ring in the order headSeen, head, tailSeen,
\* tail; the slots from head to tail hold the accepted frames not released.
Released == IF writer = "release" THEN Len(written) - 1 ELSE Len(written)

RingOrder ==
    /\ Gap(headSeen, head) + Gap(head, tail) = Gap(headSeen, tail)
    /\ Gap(head, tailSeen) + Gap(tailSeen, tail) = Gap(head, tail)
    /\ Released \in Nat
    /\ Len(accepted) = Released + Gap(head, tail)

RingContents ==
    \A i \in Slot : i < Gap(head, tail) =>
        buf[Ahead(head, i)] = accepted[Released + i + 1]

OwnerInv ==
    /\ owner \in {"fill", "publish"} => Succ(tail) # headSeen /\ Current <= MaxPush
    /\ owner = "publish" => buf[tail] = Current
    /\ owner \in {"join", "stopped"} <=> ~running
    /\ owner = "stopped" => writer = "done"

WriterInv ==
    /\ writer \in {"row", "release"} => head # tailSeen
    /\ writer \in {"check", "flush", "done"} => head = tailSeen
    /\ writer = "done" => flushed = Len(written) /\ ~running

RingInv == RingOrder /\ RingContents /\ OwnerInv /\ WriterInv /\ FileIsPrefix

\* The invariant the proofs show inductive.
IInv == LoggerTypeOK /\ RingInv

\* stop() returns: the join is not left waiting for the writer thread.
StopReturns == owner = "join" ~> owner = "stopped"

\* As long as nobody calls stop(), every accepted frame reaches the disk.
RowsReachDisk ==
    \A n \in 1 .. MaxPush :
        (Len(accepted) >= n) ~> (flushed >= n \/ ~running)

\* What the ring promises its users.
Fifo == INSTANCE LossyFifo
          WITH Item <- Frame, Room <- N - 1, delivered <- written
ImplementsLossyFifo == Fifo!Spec
==============================================================================
