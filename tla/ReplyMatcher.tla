---------------------------- MODULE ReplyMatcher ----------------------------
(***************************************************************************)
(* The reply matcher of node discovery v4 (p2p/discover/udp.go): callers   *)
(* register what they wait for with the goroutine loop, which keeps the    *)
(* list plist and one timer; readLoop hands it every reply that arrives.   *)
(*                                                                         *)
(* The list is a container/list.  Removing an element ends the iteration   *)
(* that stands on it, so a pass of the loop removes at most one element.   *)
(* Remote nodes may answer late, more than once, or never.                 *)
(***************************************************************************)
EXTENDS Integers, Sequences, FiniteSets, SequencesExt

CONSTANTS
    Calls,        \* callers of ping, waitping and findnode
    Remotes,      \* remote nodes
    RespTimeout,  \* respTimeout, in ticks
    K,            \* bucketSize: neighbors that complete a findnode
    MaxLate,      \* bound on the ticks that pass while a timeout is to be handled
    MaxJumps,     \* bound on jumps of the clock
    None

\* What the constants must satisfy.
MatcherAssumption ==
    RespTimeout \in Nat \ {0} /\ K \in Nat \ {0} /\ MaxLate \in Nat
    /\ MaxJumps \in Nat /\ None \notin Calls

VARIABLES
    now,          \* the clock
    late,         \* ticks that passed while a timeout was to be handled
    jumps,        \* how often it was set back
    call,         \* of each caller: what it does, waits for, and its answers
    plist,        \* pending replies, in the order they were registered
    nextTimeout,  \* head of plist when the timer was last set, or None
    timer,        \* ticks until the timer fires; -1 when it is stopped
    fired,        \* the time in the timer's channel, or -1
    loop          \* "run", "closing" (net.close was called) or "ended"

vars == <<now, late, jumps, call, plist, nextTimeout, timer, fired, loop>>

\* Which packet answers which call: ping waits for a pong with the token of
\* the packet, waitping for any ping, findnode for neighbors until there
\* are K of them.
PType == [ping |-> "pong", waitping |-> "ping", findnode |-> "neighbors"]

NewCall == [st |-> "idle", kind |-> "ping", from |-> CHOOSE n \in Remotes : TRUE,
            deadline |-> 0, got |-> 0, sent |-> FALSE, answers |-> <<>>]

Init ==
    /\ now = 0 /\ late = 0 /\ jumps = 0
    /\ call = [c \in Calls |-> NewCall]
    /\ plist = <<>> /\ nextTimeout = None
    /\ timer = -1 /\ fired = -1
    /\ loop = "run"

\* An answer on errc, after which the call's other fields are of no use.
Answered(x, e) == [x EXCEPT !.answers = Append(@, e), !.st = "done", !.deadline = 0, !.got = 0]
Answer(cl, c, e) == [cl EXCEPT ![c] = Answered(@, e)]

\* resetTimeout, at the top of every pass of the loop.  A deadline too far
\* ahead is removed, which ends the iteration: the timer is then stopped,
\* with whatever else is in the list.
ResetTimeout(cl, pl, nt, tm) ==
    IF pl = <<>> \/ nt = Head(pl)
    THEN /\ call' = cl /\ plist' = pl /\ nextTimeout' = nt /\ timer' = tm
    ELSE LET dist == cl[Head(pl)].deadline - now
         IN  IF dist < 2 * RespTimeout
             THEN /\ call' = cl /\ plist' = pl /\ nextTimeout' = Head(pl)
                  /\ timer' = IF dist > 0 THEN dist ELSE 0
             ELSE /\ call' = Answer(cl, Head(pl), "clockwarp")
                  /\ plist' = Tail(pl) /\ nextTimeout' = None /\ timer' = -1

-----------------------------------------------------------------------------
\* A caller enters ping, waitping or findnode.
Call(c, kind, n) ==
    /\ call[c].st = "idle"
    /\ call' = [call EXCEPT ![c].st = "adding", ![c].kind = kind, ![c].from = n]
    /\ UNCHANGED <<now, late, jumps, plist, nextTimeout, timer, fired, loop>>

\* pending: the loop takes the element from addpending and gives it its deadline.
AddPending(c) ==
    /\ loop # "ended" /\ call[c].st = "adding"
    /\ ResetTimeout([call EXCEPT ![c].st = "pending", ![c].deadline = now + RespTimeout],
                    Append(plist, c), nextTimeout, timer)
    /\ UNCHANGED <<now, late, jumps, fired, loop>>

\* pending, when t.closing is closed: errClosed.
PendingClosed(c) ==
    /\ loop # "run" /\ call[c].st = "adding"
    /\ call' = Answer(call, c, "closed")
    /\ UNCHANGED <<now, late, jumps, plist, nextTimeout, timer, fired, loop>>

\* The packet goes out after the reply was registered.
Write(c) ==
    /\ call[c].st = "pending" /\ ~call[c].sent /\ call[c].kind # "waitping"
    /\ loop = "run"
    /\ call' = [call EXCEPT ![c].sent = TRUE]
    /\ UNCHANGED <<now, late, jumps, plist, nextTimeout, timer, fired, loop>>

\* The callback: whether the reply completes the call.
Complete(c, r) ==
    CASE call[c].kind = "ping" -> r.tok = c
      [] call[c].kind = "waitping" -> TRUE
      [] call[c].kind = "findnode" -> call[c].got + r.n >= K

\* The first of some places in the list.
First(places) == CHOOSE i \in places : \A j \in places : i <= j

\* One pass over the list: the places whose callback runs, up to and with the
\* first that it completes.
Matching(r) == {i \in DOMAIN plist : call[plist[i]].from = r.from /\ PType[call[plist[i]].kind] = r.ptype}
Completing(r) == {i \in Matching(r) : Complete(plist[i], r)}
Passed(r) == IF Completing(r) = {} THEN Matching(r)
             ELSE {i \in Matching(r) : i <= First(Completing(r))}

\* What the callbacks do: findnode counts the neighbors.
Counted(r) ==
    [c \in Calls |-> IF \E i \in Passed(r) : plist[i] = c
                     THEN [call[c] EXCEPT !.got = IF @ + r.n > K THEN K ELSE @ + r.n]
                     ELSE call[c]]

\* handleReply and the loop's gotreply case.  (What follows a ping that nobody
\* waited for is BondPinged of DiscTable.)
GotReply(r) ==
    /\ loop # "ended"
    /\ IF Completing(r) = {} THEN ResetTimeout(Counted(r), plist, nextTimeout, timer)
       ELSE LET first == First(Completing(r))
            IN  ResetTimeout(Answer(Counted(r), plist[first], "ok"), RemoveAt(plist, first),
                             nextTimeout, timer)
    /\ UNCHANGED <<now, late, jumps, fired, loop>>

\* What may arrive: answers to packets that were sent, at any later time and
\* any number of times, and pings.
Replies ==
    {[from |-> call[c].from, ptype |-> "pong", tok |-> c, n |-> 0] :
        c \in {d \in Calls : call[d].sent /\ call[d].kind = "ping"}}
    \cup {[from |-> call[c].from, ptype |-> "neighbors", tok |-> None, n |-> k] :
        c \in {d \in Calls : call[d].sent /\ call[d].kind = "findnode"}, k \in 0 .. K}
    \cup {[from |-> n, ptype |-> "ping", tok |-> None, n |-> 0] : n \in Remotes}

-----------------------------------------------------------------------------
\* The timer sends the time on its channel, which holds one.
Fire ==
    /\ timer = 0
    /\ timer' = -1
    /\ fired' = IF fired = -1 THEN now ELSE fired
    /\ UNCHANGED <<now, late, jumps, call, plist, nextTimeout, loop>>

\* The elements that have expired, by the time the timer sent.
Due == {i \in DOMAIN plist : call[plist[i]].deadline <= fired}

\* Mutant of Timeout: the element that expired is told but not removed.
TimeoutKeeps ==
    /\ loop # "ended" /\ fired # -1
    /\ IF Due = {} THEN ResetTimeout(call, plist, None, timer)
       ELSE ResetTimeout(Answer(call, plist[First(Due)], "timeout"), plist, None, timer)
    /\ fired' = -1
    /\ UNCHANGED <<now, late, jumps, loop>>

\* The loop's timeout case: the first element that has expired is removed.
Timeout ==
    /\ loop # "ended" /\ fired # -1
    /\ IF Due = {} THEN ResetTimeout(call, plist, None, timer)
       ELSE ResetTimeout(Answer(call, plist[First(Due)], "timeout"), RemoveAt(plist, First(Due)),
                         None, timer)
    /\ fired' = -1
    /\ UNCHANGED <<now, late, jumps, loop>>

\* net.close, called by the table's loop.
Close ==
    /\ loop = "run"
    /\ loop' = "closing"
    /\ UNCHANGED <<now, late, jumps, call, plist, nextTimeout, timer, fired>>

\* The loop's closing case: everyone in the list is told, nothing is removed.
EndLoop ==
    /\ loop = "closing"
    /\ loop' = "ended"
    /\ call' = [c \in Calls |-> IF c \in Range(plist)
                                THEN Answered(call[c], "closed")
                                ELSE call[c]]
    /\ UNCHANGED <<now, late, jumps, plist, nextTimeout, timer, fired>>

\* Time passes, while the timer runs; and for a bounded time when it is due.
Tick ==
    /\ timer > 0 \/ fired # -1
    /\ late' = IF fired = -1 THEN late ELSE late + 1
    /\ late' <= MaxLate
    /\ now' = now + 1
    /\ timer' = IF timer > 0 THEN timer - 1 ELSE timer
    /\ UNCHANGED <<jumps, call, plist, nextTimeout, fired, loop>>

\* The system clock is set back, which the timer does not notice.
ClockJump ==
    /\ jumps < MaxJumps /\ now > 0
    /\ jumps' = jumps + 1
    /\ now' = 0
    /\ UNCHANGED <<late, call, plist, nextTimeout, timer, fired, loop>>

\* What goes on by itself: the goroutine loop, the runtime's timer and the
\* callers; the network owes nothing.
Progress ==
    \/ \E c \in Calls : AddPending(c) \/ PendingClosed(c)
    \/ Tick \/ Fire \/ Timeout \/ EndLoop

Next ==
    \/ Progress
    \/ \E c \in Calls : Write(c) \/ \E kind \in DOMAIN PType, n \in Remotes : Call(c, kind, n)
    \/ \E r \in Replies : GotReply(r)
    \/ Close \/ ClockJump

Spec == Init /\ [][Next]_vars

-----------------------------------------------------------------------------
\* loop never blocks on errc, whose buffer holds one answer: no call is
\* answered twice, and a call is in the list exactly while it has none.
AnsweredOnce ==
    \A c \in Calls :
        /\ Len(call[c].answers) <= 1
        /\ call[c].st = "pending" => \E i \in DOMAIN plist : plist[i] = c
        /\ loop # "ended" => Cardinality({i \in DOMAIN plist : plist[i] = c})
                             = IF call[c].st = "pending" THEN 1 ELSE 0

\* resetTimeout: unless the clock was set back, the timer is set for the head
\* of the list and fires by the head's deadline, or has fired.
TimerCoversHead ==
    loop # "ended" /\ plist # <<>> /\ jumps = 0 =>
        /\ nextTimeout = Head(plist)
        /\ fired # -1 \/ (timer >= 0 /\ now + timer <= call[Head(plist)].deadline)
           \/ (timer = 0 /\ now >= call[Head(plist)].deadline)

\* Both: the loop answers every call once, and always has a timer for the next.
RepliesSound == AnsweredOnce /\ TimerCoversHead

\* Every ping, waitping and findnode returns, whatever the network does and
\* whenever the transport is closed, unless the clock was set back.
CallsReturn ==
    \A c \in Calls :
        call[c].st \in {"adding", "pending"} ~>
            (call[c].st = "done" \/ jumps > 0)
=============================================================================
