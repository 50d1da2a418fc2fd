------------------------------ MODULE MsgPipe -------------------------------
(***************************************************************************)
(* The in-memory pipe that simulations and tests run protocols over        *)
(* (p2p/message.go).  A write hands its message to a read at the other end *)
(* and waits until the payload has been read; the payload itself tells the *)
(* writer, through eofSignal.  Either end may close the pipe, at any       *)
(* moment, more than once.                                                 *)
(***************************************************************************)
EXTENDS Integers, Sequences, FiniteSets

CONSTANTS
    Closers,   \* goroutines that close the pipe
    Writers,   \* ends that write
    MaxMsgs,   \* messages an end writes
    MaxSize    \* bytes of a payload

Ends == {1, 2}
Far(e) == 3 - e

VARIABLES
    write,     \* write[e]: the WriteMsg call of end e
    outcome,   \* outcome[e][i]: how the i-th write of end e returned
    read,      \* read[e]: the ReadMsg call of end e, or the payload it reads
    got,       \* got[e]: messages end e has received
    eaten,     \* eaten[e]: messages end e has read to the end
    closed,    \* the counter
    closing,   \* whether the channel is closed
    closer     \* closer[c]: the Close call of c

vars == <<write, outcome, read, got, eaten, closed, closing, closer>>

\* What the constants must satisfy.
PipeAssumption == Writers \subseteq {1, 2} /\ MaxMsgs \in Nat /\ MaxSize \in Nat

Init ==
    /\ write = [e \in Ends |-> [st |-> "idle", size |-> 0]]
    /\ outcome = [e \in Ends |-> <<>>]
    /\ read = [e \in Ends |-> [st |-> "idle", left |-> 0, eof |-> FALSE]]
    /\ got = [e \in Ends |-> 0] /\ eaten = [e \in Ends |-> {}]
    /\ closed = 0 /\ closing = 0 /\ closer = [c \in Closers |-> "idle"]

WriteReturns(e, n, err) ==
    /\ write' = [write EXCEPT ![e] = [st |-> "idle", size |-> 0]]
    /\ outcome' = [outcome EXCEPT ![e] =
                      Append(@, [err |-> err, size |-> n, closing |-> closing > 0])]

\* WriteMsg: refused on a closed pipe.
WriteMsg(e, n) ==
    /\ write[e].st = "idle" /\ e \in Writers /\ Len(outcome[e]) < MaxMsgs
    /\ IF closed = 0
       THEN write' = [write EXCEPT ![e] = [st |-> "offer", size |-> n]] /\ UNCHANGED outcome
       ELSE WriteReturns(e, n, TRUE)
    /\ UNCHANGED <<read, got, eaten, closed, closing, closer>>

ReadMsg(e) ==
    /\ Far(e) \in Writers /\ read[e].st = "idle" /\ closed = 0
    /\ read' = [read EXCEPT ![e] = [st |-> "wait", left |-> 0, eof |-> FALSE]]
    /\ UNCHANGED <<write, outcome, got, eaten, closed, closing, closer>>

\* The message goes from the write to the read; one of no size is done with.
HandOver(e) ==
    /\ write[e].st = "offer" /\ read[Far(e)].st = "wait"
    /\ IF write[e].size > 0
       THEN write' = [write EXCEPT ![e].st = "consume"] /\ UNCHANGED outcome
       ELSE WriteReturns(e, write[e].size, FALSE)
    /\ read' = [read EXCEPT ![Far(e)] = [st |-> "payload", left |-> write[e].size, eof |-> TRUE]]
    /\ got' = [got EXCEPT ![Far(e)] = @ + 1]
    /\ UNCHANGED <<eaten, closed, closing, closer>>

\* eofSignal.Read: n bytes, and the signal with the last one, or when a read
\* finds nothing left; after the signal only EOF.
Read(e, n) ==
    /\ read[e].st = "payload" /\ n <= read[e].left /\ (n = 0 => read[e].left = 0)
    /\ read[e].eof
    /\ LET left == read[e].left - n IN
       /\ read' = [read EXCEPT ![e].left = left, ![e].eof = left # 0]
       /\ eaten' = IF left = 0 THEN [eaten EXCEPT ![e] = @ \cup {got[e]}] ELSE eaten
    /\ UNCHANGED <<write, outcome, got, closed, closing, closer>>

\* The reader goes on to its next message, the payload read or not.
NextMsg(e) ==
    /\ read[e].st = "payload" /\ read' = [read EXCEPT ![e].st = "idle"]
    /\ UNCHANGED <<write, outcome, got, eaten, closed, closing, closer>>

\* The channel consumed, which each write has of its own, has been signalled.
Consumed(e) ==
    /\ write[e].st = "consume" /\ got[Far(e)] \in eaten[Far(e)]
    /\ WriteReturns(e, write[e].size, FALSE)
    /\ UNCHANGED <<read, got, eaten, closed, closing, closer>>

\* closing unblocks a write, which returns nil when its message was received.
WriteUnblocked(e) ==
    /\ closing > 0 /\ write[e].st \in {"offer", "consume"}
    /\ WriteReturns(e, write[e].size, write[e].st = "offer")
    /\ UNCHANGED <<read, got, eaten, closed, closing, closer>>

ReadUnblocked(e) ==
    /\ closing > 0 /\ read[e].st = "wait" /\ read' = [read EXCEPT ![e].st = "idle"]
    /\ UNCHANGED <<write, outcome, got, eaten, closed, closing, closer>>

\* Close: the one whose increment gives 1 closes the channel, the others put
\* the counter back to 1.
Close(c) ==
    /\ closer[c] = "idle"
    /\ closed' = closed + 1
    /\ closer' = [closer EXCEPT ![c] = IF closed = 0 THEN "first" ELSE "other"]
    /\ UNCHANGED <<write, outcome, read, got, eaten, closing>>

CloseEnds(c) ==
    /\ \/ closer[c] = "first" /\ closing' = closing + 1 /\ UNCHANGED closed
       \/ closer[c] = "other" /\ closed' = 1 /\ UNCHANGED closing
    /\ closer' = [closer EXCEPT ![c] = "done"]
    /\ UNCHANGED <<write, outcome, read, got, eaten>>

End(e) ==
    \/ \E n \in 0..MaxSize : WriteMsg(e, n) \/ Read(e, n)
    \/ ReadMsg(e) \/ HandOver(e) \/ NextMsg(e)
    \/ Consumed(e) \/ WriteUnblocked(e) \/ ReadUnblocked(e)

Next == (\E e \in Ends : End(e)) \/ (\E c \in Closers : Close(c) \/ CloseEnds(c))

Spec == Init /\ [][Next]_vars

---------------------------------------------------------------------------

\* The writes of end e that returned without an error; the i-th write, one of
\* them, was the message Number(e, i) of those the far end has received.
Delivered(e) == {i \in DOMAIN outcome[e] : ~outcome[e][i].err}
Number(e, i) == Cardinality(Delivered(e) \cap 1..i)

\* A write that returned without an error has had its message received, and
\* read to the end unless it has no bytes or the pipe was being closed; one that
\* returned an error was not received.  The channel is closed once, however
\* many close the pipe.
PipeSound ==
    /\ closing <= 1
    /\ \A e \in Ends :
        /\ Cardinality(Delivered(e)) + (IF write[e].st = "consume" THEN 1 ELSE 0) = got[Far(e)]
        /\ \A i \in Delivered(e) :
              outcome[e][i].size > 0 /\ ~outcome[e][i].closing => Number(e, i) \in eaten[Far(e)]
=============================================================================
