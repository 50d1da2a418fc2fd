-------------------------- MODULE ConnectionsProof --------------------------
(***************************************************************************)
(* Proofs about the connections of a node, each for every value of its     *)
(* constants: what the RPC client and server tell their callers, that      *)
(* frames on the link to a peer are whole, that the pipe delivers what was *)
(* written, that a reply over UDP completes its call once, and that two    *)
(* nodes that set a connection up agree on it.  Each part has an inductive *)
(* invariant of its own (ClientInv, ServerInv, LinkInv, PipeInv, UdpInv,   *)
(* HsInv); the lemmas on values say what one handler does to a wire, a log *)
(* or a list, and those on steps find the values.                          *)
(***************************************************************************)
EXTENDS NodeConnections, FiniteSetTheorems, WellFoundedInduction, TLAPS

-----------------------------------------------------------------------------
(* The RPC client (rpc/client.go)                                          *)

\* One request: where it stands (st), whether its ids wait (rw), its channel.
RequestSound(o, st, rw, an, cl) ==
    /\ rw \cap Ids(o) = {} \/ Ids(o) \subseteq rw
    /\ st \in {"idle", "send"} => rw \cap Ids(o) = {} /\ an = 0 /\ cl = 0
    /\ rw \cap Ids(o) # {} => an = 0 /\ cl = 0
    /\ cl <= 1 /\ an <= Cardinality(Ids(o)) /\ (cl = 0 \/ an = 0)

OpStates == {"idle", "send", "write", "reconnect", "wait", "done"}
ReaderStates == {<<"none">>, <<"reads">>, <<"fails">>, <<"ended">>} \cup ({"has"} \X Ops \X BOOLEAN)

ClientTypeOK ==
    /\ op \in [Ops -> OpStates]
    /\ answered \in [Ops -> Nat] /\ closed \in [Ops -> Nat]
    /\ reader \in [Conns -> ReaderStates]
    /\ subs \in SUBSET Subs /\ once \in [Subs -> {"free", "busy", "done"}]

\* The lock is with the request that writes, which has not reported yet.
LockHeld ==
    /\ \A o \in Ops : op[o] \in {"write", "reconnect"} => lock = o /\ sendDone = None
    /\ lock = None => sendDone = None

\* A subscription whose quitOnce is free has not unsubscribed.
QuitOnce == \A s \in Subs : once[s] = "free" => op[Unsub(s)] = "idle"

ChannelsSound == \A o \in Ops : RequestSound(o, op[o], respWait, answered[o], closed[o])

ClientInv == ClientTypeOK /\ LockHeld /\ QuitOnce /\ ChannelsSound

-----------------------------------------------------------------------------
\* Requests have ids of their own.
LEMMA IdsOf ==
    ASSUME NEW o
    PROVE  /\ Ids(o) # {} /\ Cardinality(Ids(o)) \in Nat \ {0}
           /\ \A p : p # o => Ids(p) \cap Ids(o) = {}
<1> DEFINE a == <<o, 1>>
           b == <<o, 2>>
<1>1. a # b /\ \A p : p # o => Ids(p) \cap Ids(o) = {}
  BY DEF Ids
<1>2. Ids(o) = {a} \cup {b} \/ Ids(o) = {a}
  BY DEF Ids
<1> HIDE DEF a, b
<1>3. IsFiniteSet({a}) /\ Cardinality({a}) = 1
  BY FS_Singleton
<1>4. Cardinality({a} \cup {b}) = 2
  <2>1. b \notin {a}
    BY <1>1
  <2>2. Cardinality({a} \cup {b}) = Cardinality({a}) + 1
    BY <1>3, <2>1, FS_AddElement
  <2> QED
    BY <1>3, <2>2
<1>5. Cardinality(Ids(o)) = 1 \/ Cardinality(Ids(o)) = 2
  BY <1>2, <1>3, <1>4
<1>6. Ids(o) # {}
  BY <1>2
<1> QED
  BY <1>1, <1>5, <1>6

\* A step of the request o alone, among those that write.
LEMMA OpMoves ==
    ASSUME ClientInv, NEW o \in Ops, NEW st \in OpStates,
           op' = [op EXCEPT ![o] = st],
           UNCHANGED <<respWait, answered, closed, subs, once>>, reader' \in [Conns -> ReaderStates],
           op[o] # "idle" \/ o \in Calls \cup Subs,
           st = "send" => op[o] = "idle", st # "idle",
           LockHeld'
    PROVE  ClientInv'
<1>1. /\ op' \in [Ops -> OpStates] /\ op'[o] = st /\ \A p \in Ops : p # o => op'[p] = op[p]
      /\ ClientTypeOK /\ QuitOnce /\ ChannelsSound
  BY DEF ClientInv, ClientTypeOK
<1>2. ClientTypeOK'
  BY <1>1 DEF ClientTypeOK
<1>3. QuitOnce'
  <2> SUFFICES ASSUME NEW s \in Subs, once[s] = "free" PROVE op'[Unsub(s)] = "idle"
    BY DEF QuitOnce
  <2>1. op[Unsub(s)] = "idle" /\ Unsub(s) \in Ops
    BY <1>1 DEF QuitOnce, Ops
  <2>2. Unsub(s) # o
    BY <2>1, RpcOpsAssumption
  <2> QED
    BY <1>1, <2>1, <2>2
<1>4. ChannelsSound'
  <2> SUFFICES ASSUME NEW p \in Ops
               PROVE  RequestSound(p, op'[p], respWait, answered[p], closed[p])
    BY DEF ChannelsSound
  <2>1. RequestSound(p, op[p], respWait, answered[p], closed[p])
    BY <1>1 DEF ChannelsSound
  <2>2. op'[p] \in {"idle", "send"} => op[p] \in {"idle", "send"}
    BY <1>1
  <2> QED
    BY <2>1, <2>2 DEF RequestSound
<1> QED
  BY <1>2, <1>3, <1>4 DEF ClientInv

\* A step that leaves the requests and their channels alone.
LEMMA OthersMove ==
    ASSUME ClientInv, UNCHANGED <<op, respWait, answered, closed, subs, lock, sendDone, once>>,
           reader' \in [Conns -> ReaderStates]
    PROVE  ClientInv'
<1>1. ClientTypeOK'
  BY DEF ClientInv, ClientTypeOK
<1>2. LockHeld' /\ QuitOnce'
  BY DEF ClientInv, LockHeld, QuitOnce
<1>3. ChannelsSound'
  BY DEF ClientInv, ChannelsSound
<1> QED
  BY <1>1, <1>2, <1>3 DEF ClientInv

\* A client that has just been dialled.
LEMMA ClientInit == Init => ClientInv
<1> SUFFICES ASSUME Init PROVE ClientInv
  OBVIOUS
<1>1. ClientTypeOK
  BY DEF Init, ClientTypeOK, OpStates, ReaderStates
<1>2. LockHeld
  BY DEF Init, LockHeld
<1>3. QuitOnce
  BY DEF Init, QuitOnce, Ops
<1>4. ChannelsSound
  <2> SUFFICES ASSUME NEW o \in Ops PROVE RequestSound(o, op[o], respWait, answered[o], closed[o])
    BY DEF ChannelsSound
  <2>1. respWait = {} /\ answered[o] = 0 /\ closed[o] = 0
    BY DEF Init
  <2> QED
    BY <2>1, IdsOf DEF RequestSound
<1> QED
  BY <1>1, <1>2, <1>3, <1>4 DEF ClientInv

\* The reading goroutines and the requests are where they can be.
LEMMA ReaderTyped ==
    ASSUME ClientInv
    PROVE  reader \in [Conns -> ReaderStates] /\ op \in [Ops -> OpStates]
BY DEF ClientInv, ClientTypeOK

\* Callers.
LEMMA CallerStep ==
    ASSUME ClientInv, NEW o \in Ops, NEW ok \in BOOLEAN,
           Request(o) \/ GiveUp(o) \/ Write(o, ok) \/ Connect(o, ok) \/ ReconnectQuits(o) \/ Return(o) \/ Reconnected(o)
    PROVE  ClientInv'
<1>1. op \in [Ops -> OpStates] /\ LockHeld /\ None \notin Ops
  BY ReaderTyped, RpcOpsAssumption DEF ClientInv
<1>2. reader \in [Conns -> ReaderStates]
  BY ReaderTyped
<1>3. ASSUME NEW st \in {"send", "done"}, op' = [op EXCEPT ![o] = st], UNCHANGED <<lock, sendDone>>
      PROVE  LockHeld'
  BY <1>1, <1>3 DEF LockHeld
<1>4. ASSUME NEW st \in {"wait", "done"}, op' = [op EXCEPT ![o] = st], UNCHANGED lock,
             op[o] \in {"write", "reconnect"}
      PROVE  LockHeld'
  BY <1>1, <1>4 DEF LockHeld
<1>5. ASSUME NEW st \in {"write", "reconnect"}, op' = [op EXCEPT ![o] = st], UNCHANGED <<lock, sendDone>>,
             op[o] \in {"write", "reconnect"}
      PROVE  LockHeld'
  BY <1>1, <1>5 DEF LockHeld
<1>6. CASE Request(o)
  <2>1. /\ op[o] = "idle" /\ o \in Calls \cup Subs /\ op' = [op EXCEPT ![o] = "send"]
        /\ UNCHANGED <<lock, sendDone, respWait, answered, closed, subs, once, reader>>
    BY <1>6 DEF Request, readVars
  <2>2. LockHeld'
    BY <1>3, <2>1
  <2> QED
    BY <1>2, <2>1, <2>2, OpMoves DEF OpStates
<1>7. CASE GiveUp(o)
  <2>1. /\ op[o] \in {"send", "wait"} /\ op' = [op EXCEPT ![o] = "done"]
        /\ UNCHANGED <<lock, sendDone, respWait, answered, closed, subs, once, reader>>
    BY <1>7 DEF GiveUp, readVars
  <2>2. LockHeld'
    BY <1>3, <2>1
  <2> QED
    BY <1>2, <2>1, <2>2, OpMoves DEF OpStates
<1>8. CASE Write(o, ok)
  <2> DEFINE st == IF ok THEN "wait" ELSE "done"
  <2>1. /\ op[o] = "write" /\ op' = [op EXCEPT ![o] = st]
        /\ UNCHANGED <<lock, respWait, answered, closed, subs, once, reader>>
    BY <1>8 DEF Write
  <2>2. st \in {"wait", "done"}
    OBVIOUS
  <2> HIDE DEF st
  <2>3. LockHeld'
    BY <1>4, <2>1, <2>2
  <2> QED
    BY <1>2, <2>1, <2>2, <2>3, OpMoves DEF OpStates
<1>9. CASE Connect(o, ok)
  <2>1. /\ op[o] = "write"
        /\ UNCHANGED <<lock, respWait, answered, closed, subs, once, reader>>
        /\ \/ op' = [op EXCEPT ![o] = "reconnect"] /\ UNCHANGED sendDone
           \/ op' = [op EXCEPT ![o] = "done"]
    BY <1>9 DEF Connect, readVars
  <2>2. LockHeld'
    BY <1>4, <1>5, <2>1
  <2> QED
    BY <1>2, <2>1, <2>2, OpMoves DEF OpStates
<1>10. CASE ReconnectQuits(o)
  <2>1. /\ op[o] = "reconnect" /\ op' = [op EXCEPT ![o] = "done"]
        /\ UNCHANGED <<lock, respWait, answered, closed, subs, once, reader>>
    BY <1>10 DEF ReconnectQuits, readVars
  <2>2. LockHeld'
    BY <1>4, <2>1
  <2> QED
    BY <1>2, <2>1, <2>2, OpMoves DEF OpStates
<1>11. CASE Return(o)
  <2>1. /\ op[o] = "wait" /\ op' = [op EXCEPT ![o] = "done"]
        /\ UNCHANGED <<lock, sendDone, respWait, answered, closed, subs, once, reader>>
    BY <1>11 DEF Return, readVars
  <2>2. LockHeld'
    BY <1>3, <2>1
  <2> QED
    BY <1>2, <2>1, <2>2, OpMoves DEF OpStates
<1>12. CASE Reconnected(o)
  <2>1. /\ op[o] = "reconnect" /\ op' = [op EXCEPT ![o] = "write"]
        /\ UNCHANGED <<lock, sendDone, respWait, answered, closed, subs, once>>
    BY <1>12 DEF Reconnected
  <2>2. reader' \in [Conns -> ReaderStates]
    BY <1>2, <1>12 DEF Reconnected, ReaderStates
  <2>3. LockHeld'
    BY <1>5, <2>1
  <2> QED
    BY <2>1, <2>2, <2>3, OpMoves DEF OpStates
<1> QED
  BY <1>6, <1>7, <1>8, <1>9, <1>10, <1>11, <1>12

\* Client.dispatch takes a request: its ids wait from here on.
LEMMA RequestOpStep ==
    ASSUME ClientInv, NEW o \in Ops, RequestOp(o)
    PROVE  ClientInv'
<1>1. /\ lock = None /\ op[o] = "send" /\ lock' = o /\ respWait' = respWait \cup Ids(o)
      /\ op' = [op EXCEPT ![o] = "write"]
      /\ UNCHANGED <<sendDone, answered, closed, subs, once, reader>>
  BY DEF RequestOp, readVars
<1>2. ClientTypeOK /\ LockHeld /\ QuitOnce /\ ChannelsSound /\ None \notin Ops
  BY RpcOpsAssumption DEF ClientInv
<1>3. op' \in [Ops -> OpStates] /\ op'[o] = "write" /\ \A p \in Ops : p # o => op'[p] = op[p]
  BY <1>1, <1>2 DEF ClientTypeOK, OpStates
<1>4. ClientTypeOK'
  BY <1>1, <1>2, <1>3 DEF ClientTypeOK
<1>5. LockHeld'
  BY <1>1, <1>2, <1>3 DEF LockHeld
<1>6. QuitOnce'
  <2> SUFFICES ASSUME NEW s \in Subs, once[s] = "free" PROVE op'[Unsub(s)] = "idle"
    BY <1>1 DEF QuitOnce
  <2>1. op[Unsub(s)] = "idle" /\ Unsub(s) \in Ops
    BY <1>2 DEF QuitOnce, Ops
  <2> QED
    BY <1>1, <1>3, <2>1
<1>7. ChannelsSound'
  <2> SUFFICES ASSUME NEW p \in Ops
               PROVE  RequestSound(p, op'[p], respWait \cup Ids(o), answered[p], closed[p])
    BY <1>1 DEF ChannelsSound
  <2>1. RequestSound(p, op[p], respWait, answered[p], closed[p])
    BY <1>2 DEF ChannelsSound
  <2>2. CASE p = o
    <3>1. answered[p] = 0 /\ closed[p] = 0
      BY <1>1, <2>1, <2>2 DEF RequestSound
    <3> QED
      BY <1>3, <2>1, <2>2, <3>1 DEF RequestSound
  <2>3. CASE p # o
    <3>1. (respWait \cup Ids(o)) \cap Ids(p) = respWait \cap Ids(p)
      BY <2>3, IdsOf
    <3>2. Ids(p) \subseteq respWait => Ids(p) \subseteq respWait \cup Ids(o)
      OBVIOUS
    <3> QED
      BY <1>3, <2>1, <2>3, <3>1, <3>2 DEF RequestSound
  <2> QED
    BY <2>2, <2>3
<1> QED
  BY <1>4, <1>5, <1>6, <1>7 DEF ClientInv

\* handleResponse
LEMMA HandleResponseSound ==
    ASSUME ClientInv, NEW o \in Ops, HandleResponse(o), UNCHANGED <<op, lock, sendDone, once>>,
           reader' \in [Conns -> ReaderStates]
    PROVE  ClientInv'
<1> DEFINE known == respWait \cap Ids(o)
<1>1. /\ ClientTypeOK /\ LockHeld /\ QuitOnce /\ ChannelsSound
  BY DEF ClientInv
<1>2. LockHeld' /\ QuitOnce'
  BY <1>1 DEF LockHeld, QuitOnce
<1>3. RequestSound(o, op[o], respWait, answered[o], closed[o])
  BY <1>1 DEF ChannelsSound
<1>4. respWait' = respWait \ known /\ respWait' \cap Ids(o) = {}
  BY DEF HandleResponse
<1>5. known = {} \/ known = Ids(o)
  BY <1>3 DEF RequestSound
<1>6. Cardinality(Ids(o)) \in Nat \ {0} /\ Cardinality({}) = 0
  BY IdsOf, FS_EmptySet
<1>7. ASSUME answered' \in [Ops -> Nat], closed' \in [Ops -> Nat], subs' \subseteq Subs,
             \A p \in Ops : p # o => answered'[p] = answered[p] /\ closed'[p] = closed[p],
             closed'[o] <= 1 /\ answered'[o] <= Cardinality(Ids(o)) /\ (closed'[o] = 0 \/ answered'[o] = 0),
             known = {} => answered'[o] = answered[o] /\ closed'[o] = closed[o]
      PROVE  ClientInv'
  <2>1. ClientTypeOK'
    BY <1>1, <1>7 DEF ClientTypeOK
  <2>2. ASSUME NEW p \in Ops, p # o
        PROVE  RequestSound(p, op[p], respWait', answered'[p], closed'[p])
    <3>1. RequestSound(p, op[p], respWait, answered[p], closed[p])
      BY <1>1 DEF ChannelsSound
    <3>2. respWait' \cap Ids(p) = respWait \cap Ids(p) /\ (Ids(p) \subseteq respWait => Ids(p) \subseteq respWait')
      BY <1>4, <2>2, IdsOf
    <3>3. answered'[p] = answered[p] /\ closed'[p] = closed[p]
      BY <1>7, <2>2
    <3> QED
      BY <3>1, <3>2, <3>3 DEF RequestSound
  <2>3. RequestSound(o, op[o], respWait', answered'[o], closed'[o])
    <3>1. op[o] \in {"idle", "send"} => known = {} /\ answered[o] = 0 /\ closed[o] = 0
      BY <1>3 DEF RequestSound
    <3> HIDE DEF known
    <3> QED
      BY <1>4, <1>7, <3>1 DEF RequestSound
  <2>4. ChannelsSound'
    BY <2>2, <2>3 DEF ChannelsSound
  <2> QED
    BY <1>2, <2>1, <2>4 DEF ClientInv
<1>8. answered \in [Ops -> Nat] /\ closed \in [Ops -> Nat] /\ subs \subseteq Subs
  BY <1>1 DEF ClientTypeOK
<1>9. CASE o \notin Subs \/ known = {}
  <2>1. answered' = [answered EXCEPT ![o] = @ + Cardinality(known)] /\ UNCHANGED <<closed, subs>>
    BY <1>9 DEF HandleResponse
  <2>2. known # {} => answered[o] = 0 /\ closed[o] = 0
    BY <1>3 DEF RequestSound
  <2>3. closed[o] <= 1 /\ answered[o] <= Cardinality(Ids(o)) /\ (closed[o] = 0 \/ answered[o] = 0)
    BY <1>3 DEF RequestSound
  <2> HIDE DEF known
  <2>4. Cardinality(known) \in Nat /\ (known = {} => Cardinality(known) = 0)
        /\ (known # {} => Cardinality(known) = Cardinality(Ids(o)))
    BY <1>5, <1>6
  <2>5. /\ answered' \in [Ops -> Nat] /\ answered'[o] = answered[o] + Cardinality(known)
        /\ \A p \in Ops : p # o => answered'[p] = answered[p]
    BY <1>8, <2>1, <2>4
  <2> QED
    BY <1>7, <1>8, <2>1, <2>2, <2>3, <2>4, <2>5
<1>10. CASE ~(o \notin Subs \/ known = {})
  <2>1. closed' = [closed EXCEPT ![o] = @ + 1] /\ UNCHANGED answered /\ subs' \subseteq Subs
    BY <1>8, <1>10 DEF HandleResponse
  <2>2. answered[o] = 0 /\ closed[o] = 0
    BY <1>3, <1>10 DEF RequestSound
  <2> HIDE DEF known
  <2>3. closed' \in [Ops -> Nat] /\ closed'[o] = 1 /\ \A p \in Ops : p # o => closed'[p] = closed[p]
    BY <1>8, <2>1, <2>2
  <2> QED
    BY <1>6, <1>7, <1>8, <1>10, <2>1, <2>2, <2>3
<1> QED
  BY <1>9, <1>10

\* Client.dispatch takes what a reader has read.
LEMMA ReadRespStep ==
    ASSUME ClientInv, NEW c \in Conns, ReadResp(c)
    PROVE  ClientInv'
<1>1. reader \in [Conns -> ReaderStates] /\ reader[c][1] = "has"
  BY ReaderTyped DEF ReadResp, HasMessage
<1>2. reader[c] \in {"has"} \X Ops \X BOOLEAN
  BY <1>1 DEF ReaderStates
<1>3. reader[c][2] \in Ops
  BY <1>2
<1>4. reader' = [reader EXCEPT ![c] = <<"reads">>] /\ UNCHANGED <<op, lock, sendDone, once>>
  BY DEF ReadResp, callerVars
<1>5. reader' \in [Conns -> ReaderStates]
  BY <1>1, <1>4 DEF ReaderStates
<1>6. CASE reader[c][3]
  <2>1. UNCHANGED <<respWait, answered, closed, subs>>
    BY <1>6 DEF ReadResp
  <2> QED
    BY <1>4, <1>5, <2>1, OthersMove
<1>7. CASE ~reader[c][3]
  <2>1. HandleResponse(reader[c][2])
    BY <1>7 DEF ReadResp
  <2> QED
    BY <1>3, <1>4, <1>5, <2>1, HandleResponseSound
<1> QED
  BY <1>6, <1>7

\* quitWithError
LEMMA QuitSound ==
    ASSUME ClientInv, NEW s, QuitWithError(s),
           UNCHANGED <<respWait, answered, closed, subs, lock, sendDone, reader>>
    PROVE  ClientInv'
<1>1. /\ ClientTypeOK /\ LockHeld /\ QuitOnce /\ ChannelsSound
  BY DEF ClientInv
<1>2. s \in Subs /\ once[s] = "free" /\ Unsub(s) \in Ops
  BY <1>1 DEF QuitWithError, ClientTypeOK, Ops
<1> DEFINE u == Unsub(s)
<1>3. op[u] = "idle" /\ op' = [op EXCEPT ![u] = "send"] /\ once' = [once EXCEPT ![s] = "busy"]
  BY <1>1, <1>2 DEF QuitOnce, QuitWithError
<1>4. \A t \in Subs : Unsub(t) \in Ops /\ (Unsub(t) = u => t = s)
  BY DEF Unsub, Ops
<1>5. u \in Ops
  BY <1>2
<1> HIDE DEF u
<1>6. op' \in [Ops -> OpStates] /\ op'[u] = "send" /\ \A p \in Ops : p # u => op'[p] = op[p]
  BY <1>1, <1>3, <1>5 DEF ClientTypeOK, OpStates
<1>7. once' \in [Subs -> {"free", "busy", "done"}] /\ once'[s] = "busy" /\ \A t \in Subs : t # s => once'[t] = once[t]
  BY <1>1, <1>2, <1>3 DEF ClientTypeOK
<1>8. ClientTypeOK'
  BY <1>1, <1>6, <1>7 DEF ClientTypeOK
<1>9. LockHeld'
  BY <1>1, <1>6 DEF LockHeld
<1>10. QuitOnce'
  BY <1>1, <1>4, <1>6, <1>7 DEF QuitOnce
<1>11. ASSUME NEW p \in Ops PROVE RequestSound(p, op'[p], respWait, answered[p], closed[p])
  <2>1. RequestSound(p, op[p], respWait, answered[p], closed[p])
    BY <1>1 DEF ChannelsSound
  <2>2. op'[p] \in {"idle", "send"} => op[p] \in {"idle", "send"}
    BY <1>3, <1>6
  <2> QED
    BY <2>1, <2>2 DEF RequestSound
<1>12. ChannelsSound'
  BY <1>11 DEF ChannelsSound
<1> QED
  BY <1>8, <1>9, <1>10, <1>12 DEF ClientInv

\* closeRequestOps
LEMMA CloseOpsSound ==
    ASSUME ClientInv, NEW then, CloseRequestOps(then), UNCHANGED <<op, lock, sendDone>>,
           reader' \in [Conns -> ReaderStates]
    PROVE  ClientInv'
<1>1. /\ ClientTypeOK /\ LockHeld /\ QuitOnce /\ ChannelsSound
  BY DEF ClientInv
<1>2. /\ closed' = [o \in Ops |-> IF respWait \cap Ids(o) # {} THEN closed[o] + 1 ELSE closed[o]]
      /\ respWait' = {} /\ subs' = {} /\ answered' = answered
      /\ once' = [s \in Subs |-> IF s \in subs /\ once[s] = "free" THEN "done" ELSE once[s]]
  BY DEF CloseRequestOps, SignalOps
<1>3. ClientTypeOK'
  BY <1>1, <1>2 DEF ClientTypeOK
<1>4. LockHeld' /\ QuitOnce'
  BY <1>1, <1>2 DEF LockHeld, QuitOnce
<1>5. ASSUME NEW o \in Ops PROVE RequestSound(o, op[o], {}, answered[o], closed'[o])
  <2>1. RequestSound(o, op[o], respWait, answered[o], closed[o]) /\ Cardinality(Ids(o)) \in Nat
    BY <1>1, IdsOf DEF ChannelsSound
  <2>2. closed'[o] = IF respWait \cap Ids(o) # {} THEN closed[o] + 1 ELSE closed[o]
    BY <1>2
  <2>3. closed[o] \in Nat /\ answered[o] \in Nat
    BY <1>1 DEF ClientTypeOK
  <2>4. CASE respWait \cap Ids(o) # {}
    <3>1. answered[o] = 0 /\ closed'[o] = 1 /\ op[o] \notin {"idle", "send"}
      BY <2>1, <2>2, <2>4 DEF RequestSound
    <3> QED
      BY <2>1, <3>1 DEF RequestSound
  <2>5. CASE respWait \cap Ids(o) = {}
    BY <2>1, <2>2, <2>5 DEF RequestSound
  <2> QED
    BY <2>4, <2>5
<1>6. ChannelsSound'
  BY <1>2, <1>5 DEF ChannelsSound
<1> QED
  BY <1>3, <1>4, <1>6 DEF ClientInv

\* The other cases of Client.dispatch, and its deferred end.
LEMMA DispatchStep ==
    ASSUME ClientInv, NEW c \in Conns,
           ReadErr(c) \/ Deliver \/ Quitted \/ OldReaderEnds \/ Close \/ Drain
    PROVE  ClientInv'
<1>1. reader \in [Conns -> ReaderStates]
  BY ReaderTyped
<1>2. CASE ReadErr(c)
  <2>1. reader' \in [Conns -> ReaderStates]
    BY <1>1, <1>2 DEF ReadErr, ReaderStates
  <2> QED
    BY <1>2, <2>1, CloseOpsSound DEF ReadErr, callerVars
<1>3. CASE Close
  BY <1>1, <1>3, CloseOpsSound DEF Close, callerVars
<1>4. CASE Deliver
  <2>1. UNCHANGED <<respWait, answered, closed, subs, lock, sendDone, reader>>
    BY <1>4 DEF Deliver, readVars
  <2>2. CASE UNCHANGED <<op, once>>
    BY <1>1, <2>1, <2>2, OthersMove
  <2>3. CASE QuitWithError(disp.arg)
    BY <2>1, <2>3, QuitSound
  <2> QED
    BY <1>4, <2>2, <2>3 DEF Deliver
<1>5. CASE Quitted
  BY <1>1, <1>5, OthersMove DEF Quitted, callerVars, readVars
<1>6. CASE OldReaderEnds
  <2>1. reader' \in [Conns -> ReaderStates]
    BY <1>1, <1>6 DEF OldReaderEnds, ReaderStates
  <2> QED
    BY <1>6, <2>1, OthersMove DEF OldReaderEnds, callerVars
<1>7. CASE Drain
  <2>1. reader' \in [Conns -> ReaderStates]
    BY <1>1, <1>7 DEF Drain, ReaderStates
  <2> QED
    BY <1>7, <2>1, OthersMove DEF Drain, callerVars
<1> QED
  BY <1>2, <1>3, <1>4, <1>5, <1>6, <1>7

\* A request reports that it has written, and is dropped when it has not.
LEMMA SendDoneStep ==
    ASSUME ClientInv, SendDone
    PROVE  ClientInv'
<1>1. /\ ClientTypeOK /\ LockHeld /\ QuitOnce /\ ChannelsSound
  BY DEF ClientInv
<1>2. /\ sendDone # None /\ lock' = None /\ sendDone' = None
      /\ respWait' = IF sendDone.ok THEN respWait ELSE respWait \ Ids(lock)
      /\ UNCHANGED <<op, answered, closed, subs, once, reader>>
  BY DEF SendDone, readVars
<1>3. ClientTypeOK' /\ QuitOnce'
  BY <1>1, <1>2 DEF ClientTypeOK, QuitOnce
<1>4. LockHeld'
  BY <1>1, <1>2 DEF LockHeld
<1>5. ASSUME NEW o \in Ops PROVE RequestSound(o, op[o], respWait', answered[o], closed[o])
  <2>1. RequestSound(o, op[o], respWait, answered[o], closed[o])
    BY <1>1 DEF ChannelsSound
  <2>2. respWait' \cap Ids(o) = respWait \cap Ids(o) \/ respWait' \cap Ids(o) = {}
    BY <1>2, IdsOf
  <2> QED
    BY <2>1, <2>2 DEF RequestSound
<1>6. ChannelsSound'
  BY <1>2, <1>5 DEF ChannelsSound
<1> QED
  BY <1>3, <1>4, <1>6 DEF ClientInv

\* Client.read: a message comes.
LEMMA ReadStep ==
    ASSUME ClientInv, NEW c \in Conns, NEW o \in Ops, NEW note \in BOOLEAN, Read(c, o, note)
    PROVE  ClientInv'
<1>1. reader' \in [Conns -> ReaderStates]
  BY ReaderTyped DEF Read, ReaderStates
<1>2. UNCHANGED <<op, respWait, answered, closed, subs, lock, sendDone, once>>
  BY DEF Read, callerVars
<1> QED
  BY <1>1, <1>2, OthersMove

\* A connection breaks, or its reader fails.
LEMMA ReaderEndsStep ==
    ASSUME ClientInv, NEW c \in Conns, Break(c) \/ ReadFails(c)
    PROVE  ClientInv'
<1>1. reader' \in [Conns -> ReaderStates]
  BY ReaderTyped DEF Break, ReadFails, ReaderStates
<1>2. UNCHANGED <<op, respWait, answered, closed, subs, lock, sendDone, once>>
  BY DEF Break, ReadFails, callerVars
<1> QED
  BY <1>1, <1>2, OthersMove

\* ClientSubscription.Unsubscribe.
LEMMA SubscriptionStep ==
    ASSUME ClientInv, NEW s \in Subs, Unsubscribe(s) \/ Unsubscribed(s)
    PROVE  ClientInv'
<1>1. CASE Unsubscribe(s)
  <2>1. QuitWithError(s) /\ UNCHANGED <<respWait, answered, closed, subs, lock, sendDone, reader>>
    BY <1>1 DEF Unsubscribe, readVars
  <2> QED
    BY <2>1, QuitSound
<1>2. CASE Unsubscribed(s)
  <2>1. /\ once' = [once EXCEPT ![s] = "done"]
        /\ UNCHANGED <<op, respWait, answered, closed, subs, lock, sendDone, reader>>
    BY <1>2 DEF Unsubscribed, callerVars, readVars
  <2>2. ClientTypeOK' /\ QuitOnce'
    BY <2>1 DEF ClientInv, ClientTypeOK, QuitOnce
  <2>3. LockHeld'
    BY <2>1 DEF ClientInv, LockHeld
  <2>4. ChannelsSound'
    BY <2>1 DEF ClientInv, ChannelsSound
  <2> QED
    BY <2>2, <2>3, <2>4 DEF ClientInv
<1> QED
  BY <1>1, <1>2

\* Every step of the client keeps ClientInv.
LEMMA ClientStep == ClientInv /\ [Next]_vars => ClientInv'
<1> SUFFICES ASSUME ClientInv, [Next]_vars PROVE ClientInv'
  OBVIOUS
<1>1. CASE UNCHANGED vars
  <2>1. UNCHANGED <<op, respWait, answered, closed, subs, lock, sendDone, once, reader>>
    BY <1>1 DEF vars
  <2> QED
    BY <2>1, ReaderTyped, OthersMove
<1>2. 1 \in Conns /\ TRUE \in BOOLEAN /\ FALSE \in BOOLEAN /\ \A s \in Subs : s \in Ops
  BY RpcClientAssumption DEF Conns, Ops
<1>3. ASSUME NEW o \in Ops, RequestOp(o) \/ Request(o) \/ GiveUp(o) \/ ReconnectQuits(o) \/ Return(o) \/ Reconnected(o)
      PROVE  ClientInv'
  BY <1>2, <1>3, RequestOpStep, CallerStep
<1>4. ASSUME NEW o \in Ops, NEW ok \in BOOLEAN, Write(o, ok) \/ Connect(o, ok) PROVE ClientInv'
  BY <1>4, CallerStep
<1>5. ASSUME NEW c \in Conns, ReadFails(c) \/ ReadResp(c) \/ ReadErr(c) \/ Break(c) PROVE ClientInv'
  BY <1>5, ReaderEndsStep, ReadRespStep, DispatchStep
<1>6. ASSUME NEW c \in Conns, NEW o \in Ops, Read(c, o, FALSE) \/ Read(c, o, TRUE) PROVE ClientInv'
  BY <1>2, <1>6, ReadStep
<1>7. CASE Deliver \/ Quitted \/ OldReaderEnds \/ SendDone \/ Drain \/ Close
  BY <1>2, <1>7, DispatchStep, SendDoneStep
<1>8. ASSUME NEW s \in Subs, Unsubscribe(s) \/ Unsubscribed(s) PROVE ClientInv'
  BY <1>8, SubscriptionStep
<1>9. CASE Progress
  BY <1>3, <1>4, <1>5, <1>6, <1>7, <1>8, <1>9 DEF Progress
<1> QED
  BY <1>1, <1>2, <1>3, <1>5, <1>6, <1>7, <1>8, <1>9 DEF Next

\* ClientInv says more than ResponsesOnce.
LEMMA ClientInvSound == ClientInv => ResponsesOnce
BY DEF ClientInv, LockHeld, ChannelsSound, RequestSound, ResponsesOnce

\* rpc/client.go: every request gets its answers or one end, and nothing after.
LEMMA ClientSound == Spec => []ResponsesOnce
BY ClientInit, ClientStep, ClientInvSound, PTL DEF Spec

-----------------------------------------------------------------------------
(* The RPC server (rpc/server.go, rpc/subscription.go)                     *)

SubIds == Codecs \X Nat \X Nat
Entries == {<<"error">>} \cup ({"response"} \X SUBSET SubIds) \cup ({"note"} \X SubIds)
TaskSet == [codec : Codecs, n : Nat, at : {"read", "handle", "write", "close", "activate"}, i : Nat,
            msg : Seq(Server!Requests)]

ServerTypeOK ==
    /\ tasks \in SUBSET TaskSet /\ reads \in [Codecs -> Nat]
    /\ written \in [Codecs -> Seq(Entries)]
    /\ inactive \in SUBSET SubIds /\ active \in SUBSET SubIds /\ ended \in SUBSET SubIds

\* The client has been sent the id of s.
HasId(w, s) == \E j \in DOMAIN w : w[j][1] = "response" /\ s \in w[j][2]

\* So it has, or it is gone.
Told(wr, gone, s) == HasId(wr[s[1]], s) \/ s[1] \in gone
Gone == shut \cup broken

NotesAfter(w) ==
    \A i \in DOMAIN w : w[i][1] = "note" =>
        \E j \in 1..(i - 1) : w[j][1] = "response" /\ w[i][2] \in w[j][2]

TaskFits(t, rd, wr, gone) ==
    /\ t.n <= rd[t.codec]
    /\ t.at = "activate" => \A s \in Server!NewSubs(t) : Told(wr, gone, s)
    /\ t.at = "close" => t.codec \in gone

\* No task is going to make the subscription s, or to activate it.
SubOver(s, rd, ts) == s[2] <= rd[s[1]] /\ \A t \in ts : ~(t.codec = s[1] /\ t.n = s[2])

TasksSound ==
    /\ \A t, u \in tasks : t.codec = u.codec /\ t.n = u.n => t = u
    /\ \A t \in tasks : TaskFits(t, reads, written, Gone)
SubsSound ==
    /\ \A s \in active : Told(written, Gone, s)
    /\ \A s \in active \cup ended : SubOver(s, reads, tasks)
    /\ active \cap ended = {} /\ active \cap inactive = {}
NotesSound == \A c \in Codecs : NotesAfter(written[c])

ServerInv == ServerTypeOK /\ TasksSound /\ SubsSound /\ NotesSound

-----------------------------------------------------------------------------
\* Another entry, which is a notification only after its id.
LEMMA EntryAdded ==
    ASSUME NEW w \in Seq(Entries), NEW e \in Entries, NotesAfter(w),
           e[1] = "note" => HasId(w, e[2])
    PROVE  LET v == Append(w, e)
           IN  /\ v \in Seq(Entries) /\ NotesAfter(v)
               /\ \A s : HasId(w, s) => HasId(v, s)
               /\ e[1] = "response" => \A s \in e[2] : HasId(v, s)
<1> DEFINE v == Append(w, e)
           n == Len(w)
<1>1. /\ v \in Seq(Entries) /\ n \in Nat /\ DOMAIN w = 1..n /\ DOMAIN v = 1..(n + 1) /\ v[n + 1] = e
      /\ \A i \in 1..n : v[i] = w[i]
  OBVIOUS
<1> HIDE DEF v, n
<1>2. ASSUME NEW s, HasId(w, s) PROVE HasId(v, s)
  BY <1>1, <1>2 DEF HasId
<1>3. ASSUME e[1] = "response", NEW s \in e[2] PROVE HasId(v, s)
  BY <1>1, <1>3 DEF HasId
<1>4. ASSUME NEW i \in DOMAIN v, v[i][1] = "note"
      PROVE  \E j \in 1..(i - 1) : v[j][1] = "response" /\ v[i][2] \in v[j][2]
  <2>1. CASE i = n + 1
    <3>1. PICK j \in 1..n : w[j][1] = "response" /\ e[2] \in w[j][2]
      BY <1>1, <1>4, <2>1 DEF HasId
    <3>2. j \in 1..(i - 1) /\ v[j] = w[j] /\ v[i] = e
      BY <1>1, <2>1, <3>1
    <3> QED
      BY <3>1, <3>2
  <2>2. CASE i # n + 1
    <3>1. i \in 1..n /\ v[i] = w[i]
      BY <1>1, <2>2
    <3>2. PICK j \in 1..(i - 1) : w[j][1] = "response" /\ w[i][2] \in w[j][2]
      BY <1>1, <1>4, <3>1 DEF NotesAfter
    <3>3. v[j] = w[j]
      BY <1>1, <3>1, <3>2
    <3> QED
      BY <3>1, <3>2, <3>3
  <2> QED
    BY <2>1, <2>2
<1> QED
  BY <1>1, <1>2, <1>3, <1>4 DEF NotesAfter, v

\* What has been said and closed stays so.
Grows ==
    /\ \A s \in SubIds : Told(written, Gone, s) => Told(written', Gone', s)
    /\ Gone \subseteq Gone'
    /\ \A c \in Codecs : reads[c] <= reads'[c]

\* An entry is written.
LEMMA GrowsByEntry ==
    ASSUME ServerInv, reads' \in [Codecs -> Nat], \A c \in Codecs : reads[c] <= reads'[c],
           Gone \subseteq Gone', NEW c \in Codecs, NEW e \in Entries,
           written' = [written EXCEPT ![c] = Append(@, e)],
           e[1] = "note" => HasId(written[c], e[2])
    PROVE  /\ Grows /\ NotesSound' /\ written' \in [Codecs -> Seq(Entries)]
           /\ e[1] = "response" => \A s \in e[2] : HasId(written'[c], s)
<1>1. written \in [Codecs -> Seq(Entries)] /\ NotesSound /\ written[c] \in Seq(Entries)
  BY DEF ServerInv, ServerTypeOK
<1> DEFINE v == Append(written[c], e)
<1>2. /\ v \in Seq(Entries) /\ NotesAfter(v)
      /\ \A s : HasId(written[c], s) => HasId(v, s)
      /\ e[1] = "response" => \A s \in e[2] : HasId(v, s)
  BY <1>1, EntryAdded DEF NotesSound
<1> HIDE DEF v
<1>3. written' \in [Codecs -> Seq(Entries)] /\ written'[c] = v /\ \A d \in Codecs : d # c => written'[d] = written[d]
  BY <1>1, <1>2 DEF v
<1>4. NotesSound'
  BY <1>1, <1>2, <1>3 DEF NotesSound
<1>5. ASSUME NEW s \in SubIds, Told(written, Gone, s) PROVE Told(written', Gone', s)
  <2>1. s[1] \in Codecs
    BY DEF SubIds
  <2> QED
    BY <1>2, <1>3, <1>5, <2>1 DEF Told
<1> QED
  BY <1>2, <1>3, <1>4, <1>5 DEF Grows

\* Nothing is written.
LEMMA GrowsQuietly ==
    ASSUME ServerInv, \A c \in Codecs : reads[c] <= reads'[c], Gone \subseteq Gone', UNCHANGED written
    PROVE  Grows /\ NotesSound' /\ written' \in [Codecs -> Seq(Entries)]
BY DEF ServerInv, ServerTypeOK, NotesSound, Grows, Told

\* The subscriptions of a task are its own.
LEMMA NewSubsIn ==
    ASSUME NEW t \in TaskSet
    PROVE  /\ Server!NewSubs(t) \in SUBSET SubIds
           /\ \A s \in Server!NewSubs(t) : s[1] = t.codec /\ s[2] = t.n
<1>1. t.codec \in Codecs /\ t.n \in Nat /\ DOMAIN t.msg \subseteq Nat
  BY DEF TaskSet
<1> QED
  BY <1>1 DEF Server!NewSubs, Server!Sub, SubIds

\* A task that is as before still fits.
LEMMA FitsGrows ==
    ASSUME ServerInv, Grows, reads' \in [Codecs -> Nat], NEW t \in tasks
    PROVE  TaskFits(t, reads', written', Gone')
<1>1. t \in TaskSet /\ t.codec \in Codecs /\ t.n \in Nat /\ reads \in [Codecs -> Nat] /\ TaskFits(t, reads, written, Gone)
  BY DEF ServerInv, ServerTypeOK, TaskSet, TasksSound
<1>2. Server!NewSubs(t) \in SUBSET SubIds
  BY <1>1, NewSubsIn
<1>3. t.n <= reads'[t.codec]
  BY <1>1 DEF Grows, TaskFits
<1> QED
  BY <1>1, <1>2, <1>3 DEF Grows, TaskFits

\* Tasks that stay or leave.
LEMMA TasksLeave ==
    ASSUME ServerInv, Grows, reads' \in [Codecs -> Nat], tasks' \subseteq tasks
    PROVE  TasksSound' /\ \A s \in SubIds : SubOver(s, reads, tasks) => SubOver(s, reads', tasks')
<1>1. TasksSound'
  BY FitsGrows DEF TasksSound, ServerInv
<1>2. ASSUME NEW s \in SubIds, SubOver(s, reads, tasks) PROVE SubOver(s, reads', tasks')
  <2>1. s[1] \in Codecs /\ s[2] \in Nat /\ reads \in [Codecs -> Nat]
    BY DEF SubIds, ServerInv, ServerTypeOK
  <2>2. s[2] <= reads'[s[1]]
    BY <1>2, <2>1 DEF SubOver, Grows
  <2> QED
    BY <1>2, <2>2 DEF SubOver
<1> QED
  BY <1>1, <1>2

\* A task goes on.
LEMMA TaskGoesOn ==
    ASSUME ServerInv, Grows, reads' \in [Codecs -> Nat], NEW t \in tasks, NEW u,
           u.codec = t.codec, u.n = t.n, TaskFits(u, reads', written', Gone'),
           tasks' = (tasks \ {t}) \cup {u}
    PROVE  TasksSound' /\ \A s \in SubIds : SubOver(s, reads, tasks) => SubOver(s, reads', tasks')
<1>1. \A x \in tasks' : \E y \in tasks : x.codec = y.codec /\ x.n = y.n /\ (x = u <=> y = t) /\ (x # u => x = y)
  BY DEF ServerInv, TasksSound
<1>2. \A x, y \in tasks' : x.codec = y.codec /\ x.n = y.n => x = y
  BY <1>1 DEF ServerInv, TasksSound
<1>3. TasksSound'
  BY <1>2, FitsGrows DEF TasksSound
<1>4. ASSUME NEW s \in SubIds, SubOver(s, reads, tasks) PROVE SubOver(s, reads', tasks')
  <2>1. s[1] \in Codecs /\ s[2] \in Nat /\ reads \in [Codecs -> Nat]
    BY DEF SubIds, ServerInv, ServerTypeOK
  <2>2. s[2] <= reads'[s[1]]
    BY <1>4, <2>1 DEF SubOver, Grows
  <2> QED
    BY <1>1, <1>4, <2>2 DEF SubOver
<1> QED
  BY <1>3, <1>4

\* The subscriptions are as before.
LEMMA SubsStay ==
    ASSUME ServerInv, Grows, UNCHANGED <<inactive, active, ended>>,
           \A s \in SubIds : SubOver(s, reads, tasks) => SubOver(s, reads', tasks')
    PROVE  SubsSound'
BY DEF ServerInv, ServerTypeOK, SubsSound, Grows

\* A server that has served nobody.
LEMMA ServerInit == Server!Init => ServerInv
<1> SUFFICES ASSUME Server!Init PROVE ServerInv
  OBVIOUS
<1>1. /\ reads = [c \in Codecs |-> 0] /\ tasks = {} /\ inactive = {} /\ active = {} /\ ended = {}
      /\ written = [c \in Codecs |-> <<>>]
  BY DEF Server!Init
<1>2. ServerTypeOK
  BY <1>1 DEF ServerTypeOK
<1>3. TasksSound /\ SubsSound
  BY <1>1 DEF TasksSound, SubsSound
<1>4. NotesSound
  BY <1>1 DEF NotesSound, NotesAfter
<1> QED
  BY <1>2, <1>3, <1>4 DEF ServerInv

\* The types, for the lemmas about handlers.
LEMMA ServerTyped ==
    ASSUME ServerInv
    PROVE  /\ tasks \in SUBSET TaskSet /\ reads \in [Codecs -> Nat]
           /\ written \in [Codecs -> Seq(Entries)]
           /\ inactive \in SUBSET SubIds /\ active \in SUBSET SubIds /\ ended \in SUBSET SubIds
           /\ \A c \in Codecs : reads[c] <= reads[c]
BY DEF ServerInv, ServerTypeOK

\* A step of serveRequest, Stop or the client that starts no task.
LEMMA QuietStep ==
    ASSUME ServerInv, UNCHANGED <<reads, tasks, written, inactive, active, ended>>, Gone \subseteq Gone'
    PROVE  ServerInv'
<1>1. Grows /\ NotesSound'
  BY ServerTyped, GrowsQuietly
<1>2. TasksSound' /\ \A s \in SubIds : SubOver(s, reads, tasks) => SubOver(s, reads', tasks')
  BY <1>1, ServerTyped, TasksLeave
<1>3. SubsSound' /\ ServerTypeOK'
  BY <1>1, <1>2, SubsStay DEF ServerInv, ServerTypeOK
<1> QED
  BY <1>1, <1>2, <1>3 DEF ServerInv

\* A step that writes an entry and starts no task.
LEMMA EntryStep ==
    ASSUME ServerInv, UNCHANGED <<inactive, active, ended>>, Gone \subseteq Gone',
           reads' \in [Codecs -> Nat], \A c \in Codecs : reads[c] <= reads'[c], tasks' \subseteq tasks,
           NEW c \in Codecs, NEW e \in Entries, written' = [written EXCEPT ![c] = Append(@, e)],
           e[1] = "note" => HasId(written[c], e[2])
    PROVE  ServerInv'
<1>1. Grows /\ NotesSound' /\ written' \in [Codecs -> Seq(Entries)]
  BY GrowsByEntry
<1>2. TasksSound' /\ \A s \in SubIds : SubOver(s, reads, tasks) => SubOver(s, reads', tasks')
  BY <1>1, TasksLeave
<1>3. SubsSound' /\ ServerTypeOK'
  BY <1>1, <1>2, ServerTyped, SubsStay DEF ServerTypeOK
<1> QED
  BY <1>1, <1>2, <1>3 DEF ServerInv

\* An error response is no notification.
LEMMA ErrorEntry == <<"error">> \in Entries /\ <<"error">>[1] # "note"
BY DEF Entries

\* What is made of a message.
LEMMA HeadersRead ==
    ASSUME NEW m \in Messages
    PROVE  Server!ReadRequestHeaders(m) \in Seq(Server!Requests)
<1>1. m.batch \in BOOLEAN /\ m.reqs \in Seq(Server!Requests) /\ Len(m.reqs) > 0
  BY ServerAssumption DEF Server!RpcServerAssumption
<1>2. Server!ParseBatchRequest(m.reqs) \in Seq(Server!Requests)
  <2> DEFINE f == [i \in DOMAIN m.reqs |-> IF m.reqs[i] = "misnamed" THEN "unknown" ELSE m.reqs[i]]
  <2>1. \A i \in DOMAIN m.reqs : m.reqs[i] \in Server!Requests /\ "unknown" \in Server!Requests
    BY <1>1 DEF Server!Requests
  <2>2. DOMAIN m.reqs = 1..Len(m.reqs) /\ Len(m.reqs) \in Nat
    BY <1>1
  <2>3. f \in Seq(Server!Requests)
    BY <2>1, <2>2
  <2> QED
    BY <2>3 DEF Server!ParseBatchRequest
<1>3. m.reqs[1] \in Server!Requests
  BY <1>1
<1>4. Server!ParseRequest(m.reqs[1]) \in Seq(Server!Requests)
  BY <1>3 DEF Server!ParseRequest
<1> QED
  BY <1>2, <1>4 DEF Server!ReadRequestHeaders

\* serveRequest reads a message and starts a task.
LEMMA ReadRequestStep ==
    ASSUME ServerInv, NEW c \in Codecs, NEW m \in Messages, Server!ReadRequest(c, m)
    PROVE  ServerInv'
<1> DEFINE msg == Server!ReadRequestHeaders(m)
           t == Server!Task(c, reads[c] + 1, "read", 1, msg)
<1>1. /\ reads' = [reads EXCEPT ![c] = @ + 1]
      /\ tasks' = IF msg = <<>> THEN tasks ELSE tasks \cup {t}
      /\ written' = IF msg = <<>> THEN [written EXCEPT ![c] = Append(@, <<"error">>)] ELSE written
      /\ UNCHANGED <<inactive, active, ended, shut, broken>>
  BY DEF Server!ReadRequest, Server!subVars
<1>2. Gone' = Gone
  BY <1>1 DEF Gone
<1>3. /\ reads' \in [Codecs -> Nat] /\ reads'[c] = reads[c] + 1 /\ reads[c] \in Nat
      /\ \A d \in Codecs : reads[d] <= reads'[d]
  BY <1>1, ServerTyped
<1>4. CASE msg = <<>>
  BY <1>1, <1>2, <1>3, <1>4, ErrorEntry, EntryStep
<1>5. CASE msg # <<>>
  <2>1. tasks' = tasks \cup {t} /\ written' = written
    BY <1>1, <1>5
  <2>2. t \in TaskSet /\ t.codec = c /\ t.n = reads[c] + 1 /\ t.at = "read"
    BY <1>3, HeadersRead DEF Server!Task, TaskSet
  <2> HIDE DEF t
  <2>3. Grows /\ NotesSound' /\ written' \in [Codecs -> Seq(Entries)]
    BY <1>2, <1>3, <2>1, GrowsQuietly
  <2>4. ServerTypeOK'
    BY <1>1, <1>3, <2>1, <2>2, ServerTyped DEF ServerTypeOK
  <2>5. \A u \in tasks : ~(u.codec = c /\ u.n = reads[c] + 1)
    <3>1. \A u \in tasks : u.n \in Nat /\ u.n <= reads[u.codec]
      BY ServerTyped DEF TaskSet, ServerInv, TasksSound, TaskFits
    <3> QED
      BY <1>3, <3>1
  <2>6. TaskFits(t, reads', written', Gone')
    BY <1>3, <2>2 DEF TaskFits
  <2>7. TasksSound'
    <3>1. \A u, v \in tasks' : u.codec = v.codec /\ u.n = v.n => u = v
      BY <2>1, <2>2, <2>5 DEF ServerInv, TasksSound
    <3> QED
      BY <1>3, <2>1, <2>3, <2>6, <3>1, FitsGrows DEF TasksSound
  <2>8. ASSUME NEW s \in SubIds, SubOver(s, reads, tasks) PROVE SubOver(s, reads', tasks')
    <3>1. s[1] \in Codecs /\ s[2] \in Nat /\ reads \in [Codecs -> Nat] /\ s[2] <= reads[s[1]]
      BY <2>8, ServerTyped DEF SubIds, SubOver
    <3>2. s[2] <= reads'[s[1]] /\ ~(t.codec = s[1] /\ t.n = s[2])
      BY <1>3, <2>2, <3>1
    <3> QED
      BY <2>1, <2>8, <3>2 DEF SubOver
  <2>9. SubsSound'
    BY <1>1, <2>3, <2>8, SubsStay
  <2> QED
    BY <2>3, <2>4, <2>7, <2>9 DEF ServerInv
<1> QED
  BY <1>4, <1>5

\* A task goes on and the subscriptions stay.
LEMMA TaskStep ==
    ASSUME ServerInv, Grows, NotesSound', written' \in [Codecs -> Seq(Entries)],
           UNCHANGED <<reads, inactive, active, ended>>, NEW t \in tasks, NEW u \in TaskSet,
           u.codec = t.codec, u.n = t.n, TaskFits(u, reads', written', Gone'),
           tasks' = (tasks \ {t}) \cup {u}
    PROVE  ServerInv'
<1>1. reads' \in [Codecs -> Nat] /\ tasks \in SUBSET TaskSet
  BY ServerTyped
<1>2. TasksSound' /\ \A s \in SubIds : SubOver(s, reads, tasks) => SubOver(s, reads', tasks')
  BY <1>1, TaskGoesOn
<1>3. SubsSound'
  BY <1>2, SubsStay
<1>4. ServerTypeOK'
  BY <1>1, ServerTyped DEF ServerTypeOK
<1> QED
  BY <1>2, <1>3, <1>4 DEF ServerInv

\* What is next in the life of a task.
LEMMA TaskNext ==
    ASSUME NEW t \in TaskSet, NEW at \in {"read", "handle", "write", "close", "activate"}
    PROVE  LET u == [t EXCEPT !.at = at]
           IN  /\ u \in TaskSet /\ u.codec = t.codec /\ u.n = t.n /\ u.at = at
               /\ Server!NewSubs(u) = Server!NewSubs(t)
<1> DEFINE u == [t EXCEPT !.at = at]
<1>1. u \in TaskSet /\ u.codec = t.codec /\ u.n = t.n /\ u.at = at /\ u.msg = t.msg
  BY DEF TaskSet
<1> HIDE DEF u
<1>2. Server!NewSubs(u) = Server!NewSubs(t)
  BY <1>1 DEF Server!NewSubs, Server!Sub
<1> QED
  BY <1>1, <1>2 DEF u

\* serveRequest finds the server stopped, and answers a task with an error.
LEMMA CheckRunStep ==
    ASSUME ServerInv, NEW c \in Codecs, Server!CheckRun(c)
    PROVE  ServerInv'
<1>1. PICK t \in tasks :
        /\ t.codec = c /\ t.at = "read"
        /\ tasks' = (tasks \ {t}) \cup (IF run THEN {[t EXCEPT !.at = "handle"]} ELSE {})
        /\ written' = IF ~run /\ Server!Open(c) THEN [written EXCEPT ![c] = Append(@, <<"error">>)] ELSE written
        /\ UNCHANGED <<shut, broken, reads, inactive, active, ended>>
  BY DEF Server!CheckRun, Server!subVars
<1>2. Gone' = Gone /\ t \in TaskSet /\ reads' \in [Codecs -> Nat] /\ \A d \in Codecs : reads[d] <= reads'[d]
  BY <1>1, ServerTyped DEF Gone
<1>3. CASE run
  <2> DEFINE u == [t EXCEPT !.at = "handle"]
  <2>1. tasks' = (tasks \ {t}) \cup {u} /\ written' = written
    BY <1>1, <1>3
  <2>2. u \in TaskSet /\ u.codec = t.codec /\ u.n = t.n /\ u.at = "handle"
    BY <1>2, TaskNext
  <2> HIDE DEF u
  <2>3. Grows /\ NotesSound' /\ written' \in [Codecs -> Seq(Entries)]
    BY <1>1, <1>2, <2>1, GrowsQuietly
  <2>4. TaskFits(u, reads', written', Gone')
    BY <1>1, <2>2 DEF TaskFits, ServerInv, TasksSound
  <2> QED
    BY <1>1, <2>1, <2>2, <2>3, <2>4, TaskStep
<1>4. CASE ~run
  <2>1. tasks' \subseteq tasks
    BY <1>1, <1>4
  <2>2. CASE written' = [written EXCEPT ![c] = Append(@, <<"error">>)]
    BY <1>1, <1>2, <2>1, <2>2, ErrorEntry, EntryStep
  <2>3. CASE written' = written
    <3>1. Grows /\ NotesSound' /\ written' \in [Codecs -> Seq(Entries)]
      BY <1>1, <1>2, <2>3, GrowsQuietly
    <3>2. TasksSound' /\ \A s \in SubIds : SubOver(s, reads, tasks) => SubOver(s, reads', tasks')
      BY <1>2, <2>1, <3>1, TasksLeave
    <3>3. SubsSound' /\ ServerTypeOK'
      BY <1>1, <1>2, <2>1, <3>1, <3>2, ServerTyped, SubsStay DEF ServerTypeOK
    <3> QED
      BY <3>1, <3>2, <3>3 DEF ServerInv
  <2> QED
    BY <1>1, <2>2, <2>3
<1> QED
  BY <1>3, <1>4

\* exec and execBatch write the responses of a task.
LEMMA ServerWriteStep ==
    ASSUME ServerInv, NEW t \in tasks, Server!Write(t)
    PROVE  ServerInv'
<1>1. t.at = "write" /\ UNCHANGED <<shut, broken, reads, inactive, active, ended>>
  BY DEF Server!Write, Server!subVars
<1>2. /\ Gone' = Gone /\ t \in TaskSet /\ reads' \in [Codecs -> Nat] /\ t.codec \in Codecs
      /\ \A d \in Codecs : reads[d] <= reads'[d]
  BY <1>1, ServerTyped DEF Gone, TaskSet
<1>3. t.n <= reads'[t.codec]
  BY <1>1 DEF ServerInv, TasksSound, TaskFits
<1>4. CASE Server!Open(t.codec)
  <2> DEFINE u == [t EXCEPT !.at = "activate"]
             e == <<"response", Server!NewSubs(t)>>
  <2>1. tasks' = (tasks \ {t}) \cup {u} /\ written' = [written EXCEPT ![t.codec] = Append(@, e)]
    BY <1>4 DEF Server!Write, Server!Goto
  <2>2. /\ u \in TaskSet /\ u.codec = t.codec /\ u.n = t.n /\ u.at = "activate"
        /\ Server!NewSubs(u) = Server!NewSubs(t)
    BY <1>2, TaskNext
  <2>3. e \in Entries /\ e[1] = "response" /\ e[2] = Server!NewSubs(t) /\ e[1] # "note"
    BY <1>2, NewSubsIn DEF Entries
  <2> HIDE DEF u, e
  <2>4. /\ Grows /\ NotesSound' /\ written' \in [Codecs -> Seq(Entries)]
        /\ \A s \in Server!NewSubs(t) : HasId(written'[t.codec], s)
    <3> DEFINE c == t.codec
    <3>1. c \in Codecs /\ Gone \subseteq Gone' /\ written' = [written EXCEPT ![c] = Append(@, e)]
      BY <1>2, <2>1
    <3> HIDE DEF c
    <3>2. /\ Grows /\ NotesSound' /\ written' \in [Codecs -> Seq(Entries)]
          /\ \A s \in e[2] : HasId(written'[c], s)
      BY <1>2, <2>3, <3>1, GrowsByEntry
    <3> QED
      BY <2>3, <3>2 DEF c
  <2>5. \A s \in Server!NewSubs(u) : Told(written', Gone', s)
    BY <1>2, <2>2, <2>4, NewSubsIn DEF Told
  <2>6. TaskFits(u, reads', written', Gone')
    BY <1>3, <2>2, <2>5 DEF TaskFits
  <2> QED
    BY <1>1, <2>1, <2>2, <2>4, <2>6, TaskStep
<1>5. CASE ~Server!Open(t.codec)
  <2> DEFINE u == [t EXCEPT !.at = "close"]
  <2>1. tasks' = (tasks \ {t}) \cup {u} /\ written' = written
    BY <1>5 DEF Server!Write, Server!Goto
  <2>2. u \in TaskSet /\ u.codec = t.codec /\ u.n = t.n /\ u.at = "close"
    BY <1>2, TaskNext
  <2> HIDE DEF u
  <2>3. Grows /\ NotesSound' /\ written' \in [Codecs -> Seq(Entries)]
    BY <1>2, <2>1, GrowsQuietly
  <2>4. TaskFits(u, reads', written', Gone')
    BY <1>2, <1>3, <1>5, <2>2 DEF TaskFits, Server!Open, Gone
  <2> QED
    BY <1>1, <2>1, <2>2, <2>3, <2>4, TaskStep
<1> QED
  BY <1>4, <1>5

\* The codec of a response that could not be written is closed.
LEMMA CloseCodecStep ==
    ASSUME ServerInv, NEW t \in tasks, Server!CloseCodec(t)
    PROVE  ServerInv'
<1> DEFINE u == [t EXCEPT !.at = "activate"]
<1>1. /\ t.at = "close" /\ tasks' = (tasks \ {t}) \cup {u} /\ shut' = shut \cup {t.codec}
      /\ UNCHANGED <<broken, reads, inactive, active, ended, written>>
  BY DEF Server!CloseCodec, Server!Goto, Server!subVars
<1>2. /\ Gone \subseteq Gone' /\ t.codec \in Gone' /\ t \in TaskSet
      /\ \A d \in Codecs : reads[d] <= reads'[d]
  BY <1>1, ServerTyped DEF Gone
<1>3. /\ u \in TaskSet /\ u.codec = t.codec /\ u.n = t.n /\ u.at = "activate"
      /\ Server!NewSubs(u) = Server!NewSubs(t)
  BY <1>2, TaskNext
<1> HIDE DEF u
<1>4. Grows /\ NotesSound' /\ written' \in [Codecs -> Seq(Entries)]
  BY <1>1, <1>2, GrowsQuietly
<1>5. \A s \in Server!NewSubs(u) : Told(written', Gone', s)
  BY <1>2, <1>3, NewSubsIn DEF Told
<1>6. t.n <= reads'[t.codec]
  BY <1>1 DEF ServerInv, TasksSound, TaskFits
<1>7. TaskFits(u, reads', written', Gone')
  BY <1>3, <1>5, <1>6 DEF TaskFits
<1> QED
  BY <1>1, <1>3, <1>4, <1>7, TaskStep

\* handle: the next request of a task.
LEMMA HandleStep ==
    ASSUME ServerInv, NEW t \in tasks, Server!Handle(t)
    PROVE  ServerInv'
<1> DEFINE u == IF t.i = Len(t.msg) THEN [t EXCEPT !.at = "write"] ELSE [t EXCEPT !.i = @ + 1]
           s == Server!Sub(t, t.i)
<1>1. /\ t.at = "handle" /\ tasks' = (tasks \ {t}) \cup {u}
      /\ UNCHANGED <<shut, broken, reads, written>>
  BY DEF Server!Handle
<1>2. \/ inactive' = inactive \cup {s} /\ UNCHANGED <<active, ended>>
      \/ UNCHANGED inactive /\ \E d \in active : active' = active \ {d} /\ ended' = ended \cup {d}
      \/ UNCHANGED <<inactive, active, ended>>
  BY DEF Server!Handle
<1>3. /\ Gone' = Gone /\ t \in TaskSet /\ \A d \in Codecs : reads[d] <= reads'[d]
      /\ reads' \in [Codecs -> Nat] /\ t.codec \in Codecs /\ t.n \in Nat /\ t.i \in Nat
  BY <1>1, ServerTyped DEF Gone, TaskSet
<1>4. u \in TaskSet /\ u.codec = t.codec /\ u.n = t.n /\ u.at \in {"handle", "write"}
  <2>1. CASE t.i = Len(t.msg)
    BY <1>3, <2>1, TaskNext
  <2>2. CASE t.i # Len(t.msg)
    BY <1>1, <1>3, <2>2 DEF TaskSet
  <2> QED
    BY <2>1, <2>2
<1>5. s \in SubIds /\ s[1] = t.codec /\ s[2] = t.n
  BY <1>3 DEF Server!Sub, SubIds
<1> HIDE DEF u, s
<1>6. Grows /\ NotesSound' /\ written' \in [Codecs -> Seq(Entries)]
  BY <1>1, <1>3, GrowsQuietly
<1>7. t.n <= reads'[t.codec]
  BY <1>1 DEF ServerInv, TasksSound, TaskFits
<1>8. TaskFits(u, reads', written', Gone')
  BY <1>4, <1>7 DEF TaskFits
<1>9. TasksSound' /\ \A x \in SubIds : SubOver(x, reads, tasks) => SubOver(x, reads', tasks')
  BY <1>1, <1>3, <1>4, <1>6, <1>8, TaskGoesOn
<1>10. ServerTypeOK'
  BY <1>1, <1>2, <1>3, <1>4, <1>5, <1>6, ServerTyped DEF ServerTypeOK
<1>11. s \notin active
  BY <1>5 DEF ServerInv, SubsSound, SubOver
<1>12. SubsSound'
  <2>1. /\ \A x \in active : Told(written', Gone', x)
        /\ \A x \in active \cup ended : SubOver(x, reads', tasks')
    BY <1>6, <1>9, ServerTyped DEF ServerInv, SubsSound, Grows
  <2>2. active' \subseteq active /\ active' \cup ended' \subseteq active \cup ended
    BY <1>2
  <2>3. active' \cap ended' = {} /\ active' \cap inactive' = {}
    BY <1>2, <1>11 DEF ServerInv, SubsSound
  <2> QED
    BY <2>1, <2>2, <2>3 DEF SubsSound
<1> QED
  BY <1>6, <1>9, <1>10, <1>12 DEF ServerInv

\* The callbacks of a task activate its subscriptions.
LEMMA ActivateStep ==
    ASSUME ServerInv, NEW t \in tasks, Server!Activate(t)
    PROVE  ServerInv'
<1> DEFINE new == Server!NewSubs(t)
<1>1. /\ t.at = "activate" /\ tasks' = tasks \ {t}
      /\ active' = active \cup (new \cap inactive) /\ inactive' = inactive \ new
      /\ UNCHANGED <<shut, broken, reads, ended, written>>
  BY DEF Server!Activate, Server!Done
<1>2. /\ Gone' = Gone /\ t \in TaskSet /\ \A d \in Codecs : reads[d] <= reads'[d]
      /\ reads' \in [Codecs -> Nat] /\ tasks' \subseteq tasks
  BY <1>1, ServerTyped DEF Gone
<1>3. new \in SUBSET SubIds /\ \A s \in new : s[1] = t.codec /\ s[2] = t.n
  BY <1>2, NewSubsIn
<1>4. t.n <= reads[t.codec] /\ \A s \in new : Told(written, Gone, s)
  BY <1>1 DEF ServerInv, TasksSound, TaskFits
<1> HIDE DEF new
<1>5. Grows /\ NotesSound' /\ written' \in [Codecs -> Seq(Entries)]
  BY <1>1, <1>2, GrowsQuietly
<1>6. TasksSound' /\ \A s \in SubIds : SubOver(s, reads, tasks) => SubOver(s, reads', tasks')
  BY <1>2, <1>5, TasksLeave
<1>7. ServerTypeOK'
  BY <1>1, <1>2, <1>3, <1>5, ServerTyped DEF ServerTypeOK
<1>8. \A s \in new : SubOver(s, reads', tasks')
  <2>1. \A x \in tasks' : ~(x.codec = t.codec /\ x.n = t.n)
    BY <1>1 DEF ServerInv, TasksSound
  <2> QED
    BY <1>1, <1>3, <1>4, <2>1 DEF SubOver
<1>9. \A s \in new : s \notin ended
  BY <1>3 DEF ServerInv, SubsSound, SubOver
<1>10. SubsSound'
  <2>1. /\ \A x \in active : Told(written', Gone', x)
        /\ \A x \in active \cup ended : SubOver(x, reads', tasks')
    BY <1>5, <1>6, ServerTyped DEF ServerInv, SubsSound, Grows
  <2>2. \A x \in active' : Told(written', Gone', x)
    BY <1>1, <1>2, <1>4, <2>1
  <2>3. \A x \in active' \cup ended' : SubOver(x, reads', tasks')
    BY <1>1, <1>8, <2>1
  <2>4. active' \cap ended' = {} /\ active' \cap inactive' = {}
    BY <1>1, <1>9 DEF ServerInv, SubsSound
  <2> QED
    BY <2>2, <2>3, <2>4 DEF SubsSound
<1> QED
  BY <1>5, <1>6, <1>7, <1>10 DEF ServerInv

\* Notifier.Notify writes a notification of an active subscription.
LEMMA NotifyStep ==
    ASSUME ServerInv, NEW s \in active, Server!Notify(s)
    PROVE  ServerInv'
<1>1. UNCHANGED <<broken, reads, tasks, inactive, active, ended>>
  BY DEF Server!Notify
<1>2. s \in SubIds /\ s[1] \in Codecs /\ Told(written, Gone, s)
  BY ServerTyped DEF SubIds, ServerInv, SubsSound
<1>3. CASE Server!Open(s[1])
  <2> DEFINE e == <<"note", s>>
  <2>1. written' = [written EXCEPT ![s[1]] = Append(@, e)] /\ shut' = shut
    BY <1>3 DEF Server!Notify
  <2>2. e \in Entries /\ e[2] = s
    BY <1>2 DEF Entries
  <2>3. HasId(written[s[1]], s)
    BY <1>2, <1>3 DEF Told, Server!Open, Gone
  <2>4. Gone \subseteq Gone' /\ tasks' \subseteq tasks /\ reads' \in [Codecs -> Nat] /\ \A d \in Codecs : reads[d] <= reads'[d]
    BY <1>1, <2>1, ServerTyped DEF Gone
  <2> HIDE DEF e
  <2> QED
    BY <1>1, <1>2, <2>1, <2>2, <2>3, <2>4, EntryStep
<1>4. CASE ~Server!Open(s[1])
  <2>1. written' = written /\ Gone \subseteq Gone'
    BY <1>1, <1>4 DEF Server!Notify, Gone
  <2> QED
    BY <1>1, <2>1, QuietStep
<1> QED
  BY <1>3, <1>4

\* Every step of the server keeps ServerInv.
LEMMA ServerStep == ServerInv /\ [Server!Next]_(Server!vars) => ServerInv'
<1> SUFFICES ASSUME ServerInv, [Server!Next]_(Server!vars) PROVE ServerInv'
  OBVIOUS
<1>1. CASE UNCHANGED Server!vars
  BY <1>1, QuietStep DEF Server!vars, Gone
<1>2. ASSUME NEW c \in Codecs, Server!Serve(c) \/ Server!TestRun(c) \/ Server!ReadEnds(c) \/ Server!Pending(c)
      PROVE  ServerInv'
  BY <1>2, QuietStep DEF Server!Serve, Server!TestRun, Server!ReadEnds, Server!Pending, Server!subVars, Gone
<1>3. ASSUME NEW c \in Codecs, Server!Leave(c) \/ Server!Hangup(c) PROVE ServerInv'
  <2>1. UNCHANGED <<reads, tasks, written, inactive, active, ended>> /\ Gone \subseteq Gone'
    BY <1>3 DEF Server!Leave, Server!Hangup, Server!subVars, Gone
  <2> QED
    BY <2>1, QuietStep
<1>4. CASE Server!CloseAll \/ Server!Stop
  <2>1. UNCHANGED <<reads, tasks, written, inactive, active, ended>> /\ Gone \subseteq Gone'
    BY <1>4 DEF Server!CloseAll, Server!Stop, Server!subVars, Gone
  <2> QED
    BY <2>1, QuietStep
<1>5. ASSUME NEW t \in tasks, Server!Handle(t) \/ Server!Write(t) \/ Server!CloseCodec(t) \/ Server!Activate(t)
      PROVE  ServerInv'
  BY <1>5, HandleStep, ServerWriteStep, CloseCodecStep, ActivateStep
<1>6. CASE Server!Progress
  BY <1>2, <1>3, <1>4, <1>5, <1>6, CheckRunStep DEF Server!Progress
<1> QED
  BY <1>1, <1>2, <1>3, <1>4, <1>6, ReadRequestStep, NotifyStep DEF Server!Next

\* ServerInv says more than IdsFirst.
LEMMA ServerInvSound == ServerInv => Server!IdsFirst
BY DEF ServerInv, SubsSound, NotesSound, NotesAfter, Server!IdsFirst

\* rpc/subscription.go: no client meets a notification before the id it is about.
LEMMA ServerSound == Server!Spec => []Server!IdsFirst
BY ServerInit, ServerStep, ServerInvSound, PTL DEF Server!Spec

\* Both ends of an RPC connection are sound (RpcSound).
THEOREM RpcIsSound == Spec /\ Server!Spec => []RpcSound
BY ClientSound, ServerSound, PTL DEF RpcSound

-----------------------------------------------------------------------------
(* The link to a peer (p2p/peer.go, p2p/rlpx.go)                           *)

Parts == {"head", "body"} \X Link!Writers

LinkTypeOK ==
    /\ writer \in [Link!Writers -> {"idle", "token", "want", "body", "ok", "fail"}]
    /\ linkWire \in Seq(Parts) /\ wmu \in Link!Writers \cup {"free"}
    /\ remote \in BOOLEAN /\ failed \in BOOLEAN

\* The lock is with the goroutine that has written a header and no body; the
\* ping loop and Peer.run start a write only when their last one is over.
LockWithBody ==
    /\ \A k \in Link!Writers : writer[k] = "body" <=> wmu = k
    /\ ping = "sleep" => writer["ping"] = "idle"
    /\ peerRun \in {"loop", "closing"} => writer["disc"] = "idle"

\* The parts of a wire w are whole frames, but for a header that holder has
\* just written.
Whole(w, holder) ==
    /\ \A i \in DOMAIN w :
        /\ w[i][1] = "head" => IF i = Len(w) THEN w[i][2] = holder ELSE w[i + 1] = <<"body", w[i][2]>>
        /\ w[i][1] = "body" => i > 1 /\ w[i - 1] = <<"head", w[i][2]>>
    /\ holder # "free" => w # <<>> /\ w[Len(w)] = <<"head", holder>>

WireWhole ==
    /\ ~remote => linkWire = <<>>
    /\ ~failed /\ remote => Whole(linkWire, wmu)

LinkInv == LinkTypeOK /\ LockWithBody /\ WireWhole

-----------------------------------------------------------------------------
\* WriteMsg writes a header on a wire of whole frames.
LEMMA HeadWhole ==
    ASSUME NEW w \in Seq(Parts), NEW k \in Link!Writers, Whole(w, "free")
    PROVE  Append(w, <<"head", k>>) \in Seq(Parts) /\ Whole(Append(w, <<"head", k>>), k)
<1> DEFINE p == <<"head", k>>
           v == Append(w, p)
           n == Len(w)
<1>1. p \in Parts /\ p[1] = "head" /\ p[2] = k /\ "free" \notin Link!Writers
  BY DEF Parts, Link!Writers
<1> HIDE DEF p
<1>2. /\ v \in Seq(Parts) /\ v # <<>> /\ n \in Nat /\ DOMAIN w = 1..n /\ DOMAIN v = 1..(n + 1)
      /\ Len(v) = n + 1 /\ v[n + 1] = p /\ \A i \in 1..n : v[i] = w[i] /\ w[i] \in Parts
  BY <1>1
<1> HIDE DEF v, n
<1>3. n = Len(w)
  BY DEF n
<1>4. ASSUME NEW i \in DOMAIN v
      PROVE  /\ v[i][1] = "head" => IF i = Len(v) THEN v[i][2] = k ELSE v[i + 1] = <<"body", v[i][2]>>
             /\ v[i][1] = "body" => i > 1 /\ v[i - 1] = <<"head", v[i][2]>>
  <2>1. CASE i = n + 1
    BY <1>1, <1>2, <2>1
  <2>2. CASE i # n + 1
    <3>1. i \in 1..n /\ v[i] = w[i] /\ w[i] \in Parts
      BY <1>2, <2>2
    <3>2. w[i][2] # "free"
      BY <1>1, <3>1 DEF Parts
    <3>3. w[i][1] = "head" => i # n /\ w[i + 1] = <<"body", w[i][2]>>
      BY <1>2, <1>3, <3>1, <3>2 DEF Whole
    <3>4. i # n => v[i + 1] = w[i + 1]
      BY <1>2, <3>1
    <3>5. w[i][1] = "body" => i > 1 /\ w[i - 1] = <<"head", w[i][2]>> /\ v[i - 1] = w[i - 1]
      BY <1>2, <3>1 DEF Whole
    <3> QED
      BY <1>2, <2>2, <3>1, <3>3, <3>4, <3>5
  <2> QED
    BY <2>1, <2>2
<1>5. v[Len(v)] = <<"head", k>>
  BY <1>2 DEF p
<1>6. Whole(v, k)
  BY <1>2, <1>4, <1>5 DEF Whole
<1> QED
  BY <1>2, <1>6 DEF v, p

\* WriteMsg writes the body that the header on the wire is for.
LEMMA BodyWhole ==
    ASSUME NEW w \in Seq(Parts), NEW k \in Link!Writers, Whole(w, k)
    PROVE  Append(w, <<"body", k>>) \in Seq(Parts) /\ Whole(Append(w, <<"body", k>>), "free")
<1> DEFINE p == <<"body", k>>
           v == Append(w, p)
           n == Len(w)
<1>1. p \in Parts /\ p[1] = "body" /\ p[2] = k /\ k # "free"
  BY DEF Parts, Link!Writers
<1>2. w # <<>> /\ w[n] = <<"head", k>>
  BY <1>1 DEF Whole
<1> HIDE DEF p
<1>3. /\ v \in Seq(Parts) /\ n \in Nat /\ n > 0 /\ DOMAIN w = 1..n /\ DOMAIN v = 1..(n + 1)
      /\ Len(v) = n + 1 /\ v[n + 1] = p /\ \A i \in 1..n : v[i] = w[i] /\ w[i] \in Parts
  BY <1>1, <1>2
<1> HIDE DEF v, n
<1>4. n = Len(w)
  BY DEF n
<1>5. ASSUME NEW i \in DOMAIN v
      PROVE  /\ v[i][1] = "head" => i # Len(v) /\ v[i + 1] = <<"body", v[i][2]>>
             /\ v[i][1] = "body" => i > 1 /\ v[i - 1] = <<"head", v[i][2]>>
  <2>1. CASE i = n + 1
    <3>1. v[i - 1] = <<"head", k>> /\ i > 1
      BY <1>2, <1>3, <2>1
    <3> QED
      BY <1>1, <1>3, <2>1, <3>1
  <2>2. CASE i # n + 1
    <3>1. i \in 1..n /\ v[i] = w[i] /\ w[i] \in Parts /\ i # Len(v)
      BY <1>3, <2>2
    <3>2. w[i][1] = "body" => i > 1 /\ w[i - 1] = <<"head", w[i][2]>> /\ v[i - 1] = w[i - 1]
      BY <1>3, <3>1 DEF Whole
    <3>3. CASE i = n
      BY <1>1, <1>2, <1>3, <3>1, <3>2, <3>3 DEF p
    <3>4. CASE i # n
      <4>1. w[i][1] = "head" => w[i + 1] = <<"body", w[i][2]>>
        BY <1>3, <1>4, <3>1, <3>4 DEF Whole
      <4>2. v[i + 1] = w[i + 1]
        BY <1>3, <3>1, <3>4
      <4> QED
        BY <3>1, <3>2, <4>1, <4>2
    <3> QED
      BY <3>3, <3>4
  <2> QED
    BY <2>1, <2>2
<1>6. Whole(v, "free")
  BY <1>5 DEF Whole
<1> QED
  BY <1>3, <1>6 DEF v, p

\* The remote side reads a frame.
LEMMA ReadWhole ==
    ASSUME NEW w \in Seq(Parts), NEW m, Whole(w, m), Len(w) >= 2
    PROVE  SubSeq(w, 3, Len(w)) \in Seq(Parts) /\ Whole(SubSeq(w, 3, Len(w)), m)
<1> DEFINE v == SubSeq(w, 3, Len(w))
           n == Len(w)
<1>1. n \in Nat /\ n >= 2 /\ DOMAIN w = 1..n /\ \A i \in 1..n : w[i] \in Parts
  OBVIOUS
<1>2. /\ v \in Seq(Parts) /\ Len(v) = n - 2 /\ DOMAIN v = 1..(n - 2)
      /\ \A i \in 1..(n - 2) : v[i] = w[i + 2]
  BY <1>1
<1>3. n = Len(w)
  OBVIOUS
<1> HIDE DEF v, n
<1>4. \A i \in 1..n : w[i][1] \in {"head", "body"}
  BY <1>1 DEF Parts
<1>5. w[1][1] = "head" /\ w[2] = <<"body", w[1][2]>>
  <2>1. w[1][1] # "body"
    BY <1>1 DEF Whole
  <2>2. 1 \in 1..n /\ 1 # Len(w)
    BY <1>1, <1>3
  <2>3. w[1][1] = "head"
    BY <1>4, <2>1, <2>2
  <2> QED
    BY <1>1, <2>2, <2>3 DEF Whole
<1>6. w[2][1] = "body"
  BY <1>5
<1>7. ASSUME NEW i \in DOMAIN v
      PROVE  /\ v[i][1] = "head" => IF i = Len(v) THEN v[i][2] = m ELSE v[i + 1] = <<"body", v[i][2]>>
             /\ v[i][1] = "body" => i > 1 /\ v[i - 1] = <<"head", v[i][2]>>
  <2> DEFINE j == i + 2
  <2>1. /\ j \in 1..n /\ v[i] = w[j] /\ (i = Len(v) <=> j = n) /\ (i # Len(v) => v[i + 1] = w[j + 1])
        /\ (i > 1 => v[i - 1] = w[j - 1]) /\ (i = 1 => j - 1 = 2) /\ i \in Nat /\ i >= 1
    <3>1. i \in 1..(n - 2) /\ i \in Nat /\ i >= 1 /\ j \in 1..n /\ (i = n - 2 <=> j = n)
      BY <1>1, <1>2
    <3>2. ASSUME i # Len(v) PROVE v[i + 1] = w[j + 1]
      <4>1. i + 1 \in 1..(n - 2) /\ (i + 1) + 2 = j + 1
        BY <1>1, <1>2, <3>1, <3>2
      <4> QED
        BY <1>2, <4>1
    <3>3. ASSUME i > 1 PROVE v[i - 1] = w[j - 1]
      <4>1. i - 1 \in 1..(n - 2) /\ (i - 1) + 2 = j - 1
        BY <1>1, <1>2, <3>1, <3>3
      <4> QED
        BY <1>2, <4>1
    <3> QED
      BY <1>2, <3>1, <3>2, <3>3
  <2> HIDE DEF j
  <2>2. /\ w[j][1] = "head" => IF j = n THEN w[j][2] = m ELSE w[j + 1] = <<"body", w[j][2]>>
        /\ w[j][1] = "body" => w[j - 1] = <<"head", w[j][2]>>
    BY <1>1, <1>3, <2>1 DEF Whole
  <2>3. ASSUME w[j][1] = "body" PROVE i > 1
    <3> SUFFICES ASSUME i = 1 PROVE FALSE
      BY <2>1
    <3>1. w[2] = <<"head", w[j][2]>>
      BY <2>1, <2>2, <2>3
    <3> QED
      BY <1>6, <3>1
  <2> QED
    BY <2>1, <2>2, <2>3
<1>8. ASSUME m # "free" PROVE v # <<>> /\ v[Len(v)] = <<"head", m>>
  <2>1. w[n] = <<"head", m>>
    BY <1>3, <1>8 DEF Whole
  <2>2. w[n][1] = "head"
    BY <2>1
  <2>3. n # 2
    BY <1>6, <2>2
  <2>4. Len(v) \in 1..(n - 2) /\ Len(v) + 2 = n
    BY <1>1, <1>2, <2>3
  <2>5. v[Len(v)] = w[n]
    BY <1>2, <2>4
  <2>6. v # <<>>
    BY <1>2, <2>4
  <2> QED
    BY <2>1, <2>5, <2>6
<1>9. Whole(v, m)
  BY <1>7, <1>8 DEF Whole
<1> QED
  BY <1>2, <1>3, <1>9 DEF v

-----------------------------------------------------------------------------
\* A peer that has just been started.
LEMMA LinkInit == Link!Init => LinkInv
<1> SUFFICES ASSUME Link!Init PROVE LinkInv
  OBVIOUS
<1>1. /\ writer = [k \in Link!Writers |-> "idle"] /\ wmu = "free" /\ linkWire = <<>>
      /\ failed = FALSE /\ remote = TRUE
  BY DEF Link!Init
<1>2. "free" \notin Link!Writers /\ "ping" \in Link!Writers /\ "disc" \in Link!Writers
  BY DEF Link!Writers
<1>3. Whole(<<>>, "free")
  BY DEF Whole
<1>4. remote /\ ~failed /\ remote \in BOOLEAN /\ failed \in BOOLEAN
  BY <1>1
<1>5. WireWhole
  BY <1>1, <1>3, <1>4 DEF WireWhole
<1>6. LinkTypeOK
  BY <1>1, <1>4 DEF LinkTypeOK
<1>7. LockWithBody
  BY <1>1, <1>2 DEF LockWithBody
<1> QED
  BY <1>5, <1>6, <1>7 DEF LinkInv

\* A step that leaves the lock and the wire alone: some goroutine k, which is
\* not in the middle of a frame, goes on.
LEMMA WriterMoves ==
    ASSUME LinkInv, UNCHANGED <<wmu, linkWire, failed, remote>>,
           NEW k \in Link!Writers, NEW st \in {"idle", "token", "want"}, writer[k] # "body",
           writer' = [writer EXCEPT ![k] = st],
           ping' = "sleep" => (IF k = "ping" THEN st = "idle" ELSE ping = "sleep"),
           peerRun' \in {"loop", "closing"} => k # "disc" /\ peerRun \in {"loop", "closing"}
    PROVE  LinkInv'
<1>1. LinkTypeOK /\ LockWithBody /\ WireWhole
  BY DEF LinkInv
<1>2. /\ writer' \in [Link!Writers -> {"idle", "token", "want", "body", "ok", "fail"}]
      /\ writer'[k] = st /\ \A j \in Link!Writers : j # k => writer'[j] = writer[j]
  BY <1>1 DEF LinkTypeOK
<1>3. "ping" \in Link!Writers /\ "disc" \in Link!Writers
  BY DEF Link!Writers
<1>4. LinkTypeOK' /\ WireWhole'
  BY <1>1, <1>2 DEF LinkTypeOK, WireWhole
<1>5. LockWithBody'
  BY <1>1, <1>2, <1>3 DEF LockWithBody
<1> QED
  BY <1>4, <1>5 DEF LinkInv

\* A step that leaves the writers alone too.
LEMMA LinkOthers ==
    ASSUME LinkInv, UNCHANGED <<wmu, linkWire, failed, remote, writer>>,
           ping' = "sleep" => ping = "sleep",
           peerRun' \in {"loop", "closing"} => peerRun \in {"loop", "closing"}
    PROVE  LinkInv'
BY DEF LinkInv, LinkTypeOK, LockWithBody, WireWhole

\* WriteMsg: the header, the body, and the errors.
LEMMA FrameStep ==
    ASSUME LinkInv, NEW k \in Link!Writers, Link!WriteHead(k) \/ Link!WriteBody(k) \/ Link!WriteFails(k)
    PROVE  LinkInv'
<1>1. LinkTypeOK /\ LockWithBody /\ WireWhole /\ UNCHANGED <<ping, peerRun, remote>>
  BY DEF LinkInv, Link!WriteHead, Link!WriteBody, Link!WriteFails, Link!runVars, Link!loopVars, Link!netVars
<1>2. /\ "free" \notin Link!Writers /\ "ping" \in Link!Writers /\ "disc" \in Link!Writers
  BY DEF Link!Writers
<1>3. linkWire \in Seq(Parts)
  BY <1>1 DEF LinkTypeOK
<1>4. CASE Link!WriteHead(k)
  <2>1. /\ writer[k] = "want" /\ wmu = "free" /\ wmu' = k /\ writer' = [writer EXCEPT ![k] = "body"]
        /\ remote /\ linkWire' = Append(linkWire, <<"head", k>>) /\ failed' = failed
    BY <1>4 DEF Link!WriteHead, Link!Puts, Link!Writes
  <2>2. linkWire' \in Seq(Parts) /\ (Whole(linkWire, "free") => Whole(linkWire', k))
    <3>1. linkWire' \in Seq(Parts)
      BY <1>3, <2>1 DEF Parts
    <3> QED
      BY <1>3, <2>1, <3>1, HeadWhole
  <2>3. /\ writer' \in [Link!Writers -> {"idle", "token", "want", "body", "ok", "fail"}]
        /\ writer'[k] = "body" /\ \A j \in Link!Writers : j # k => writer'[j] = writer[j]
    BY <1>1, <2>1 DEF LinkTypeOK
  <2>4. LinkTypeOK' /\ WireWhole'
    BY <1>1, <2>1, <2>2, <2>3 DEF LinkTypeOK, WireWhole
  <2>5. LockWithBody'
    BY <1>1, <1>2, <2>1, <2>3 DEF LockWithBody
  <2> QED
    BY <2>4, <2>5 DEF LinkInv
<1>5. CASE Link!WriteBody(k)
  <2>1. /\ writer[k] = "body" /\ wmu' = "free" /\ writer' = [writer EXCEPT ![k] = "ok"]
        /\ remote /\ linkWire' = Append(linkWire, <<"body", k>>) /\ failed' = failed
    BY <1>5 DEF Link!WriteBody, Link!Puts, Link!Writes
  <2>2. wmu = k
    BY <1>1, <2>1 DEF LockWithBody
  <2>3. linkWire' \in Seq(Parts) /\ (Whole(linkWire, k) => Whole(linkWire', "free"))
    <3>1. linkWire' \in Seq(Parts)
      BY <1>3, <2>1 DEF Parts
    <3> QED
      BY <1>3, <2>1, <3>1, BodyWhole
  <2>4. /\ writer' \in [Link!Writers -> {"idle", "token", "want", "body", "ok", "fail"}]
        /\ writer'[k] = "ok" /\ \A j \in Link!Writers : j # k => writer'[j] = writer[j]
    BY <1>1, <2>1 DEF LinkTypeOK
  <2>5. LinkTypeOK' /\ WireWhole'
    BY <1>1, <2>1, <2>2, <2>3, <2>4 DEF LinkTypeOK, WireWhole
  <2>6. LockWithBody'
    BY <1>1, <1>2, <2>1, <2>2, <2>4 DEF LockWithBody
  <2> QED
    BY <2>5, <2>6 DEF LinkInv
<1>6. CASE Link!WriteFails(k)
  <2>1. /\ writer[k] \in {"want", "body"} /\ (writer[k] = "want" => wmu = "free")
        /\ wmu' = "free" /\ writer' = [writer EXCEPT ![k] = "fail"]
        /\ linkWire' = linkWire /\ failed' = TRUE
    BY <1>6 DEF Link!WriteFails, Link!Writes
  <2>2. /\ writer' \in [Link!Writers -> {"idle", "token", "want", "body", "ok", "fail"}]
        /\ writer'[k] = "fail" /\ \A j \in Link!Writers : j # k => writer'[j] = writer[j]
    BY <1>1, <2>1 DEF LinkTypeOK
  <2>3. LinkTypeOK' /\ WireWhole'
    BY <1>1, <2>1, <2>2 DEF LinkTypeOK, WireWhole
  <2>4. LockWithBody'
    BY <1>1, <1>2, <2>1, <2>2 DEF LockWithBody
  <2> QED
    BY <2>3, <2>4 DEF LinkInv
<1> QED
  BY <1>4, <1>5, <1>6

\* The remote side reads a frame or leaves.
LEMMA RemoteStep ==
    ASSUME LinkInv, Link!RemoteReads \/ Link!RemoteLeaves
    PROVE  LinkInv'
<1>1. LinkTypeOK /\ LockWithBody /\ WireWhole /\ UNCHANGED <<ping, peerRun, writer, wmu, failed>>
  BY DEF LinkInv, Link!RemoteReads, Link!RemoteLeaves, Link!runVars, Link!loopVars
<1>2. LockWithBody'
  BY <1>1 DEF LockWithBody
<1>3. CASE Link!RemoteReads
  <2>1. remote /\ remote' = remote /\ Len(linkWire) >= 2 /\ linkWire' = SubSeq(linkWire, 3, Len(linkWire))
    BY <1>3 DEF Link!RemoteReads, Link!netVars
  <2>2. linkWire \in Seq(Parts) /\ linkWire' \in Seq(Parts)
    BY <1>1, <2>1 DEF LinkTypeOK
  <2>3. Whole(linkWire, wmu) => Whole(linkWire', wmu)
    BY <2>1, <2>2, ReadWhole
  <2>4. LinkTypeOK' /\ WireWhole'
    BY <1>1, <2>1, <2>2, <2>3 DEF LinkTypeOK, WireWhole
  <2> QED
    BY <1>2, <2>4 DEF LinkInv
<1>4. CASE Link!RemoteLeaves
  <2>1. ~remote' /\ remote' \in BOOLEAN /\ linkWire' = <<>> /\ linkWire' \in Seq(Parts)
    <3>1. remote' = FALSE /\ linkWire' = <<>>
      BY <1>4 DEF Link!RemoteLeaves
    <3>2. <<>> \in Seq(Parts)
      OBVIOUS
    <3>3. linkWire' \in Seq(Parts)
      BY <3>1, <3>2
    <3> QED
      BY <3>1, <3>3
  <2>2. LinkTypeOK'
    BY <1>1, <2>1 DEF LinkTypeOK
  <2>3. WireWhole'
    BY <2>1 DEF WireWhole
  <2> QED
    BY <1>2, <2>2, <2>3 DEF LinkInv
<1> QED
  BY <1>3, <1>4

\* The goroutines that write, by name.
LEMMA LinkTyped ==
    ASSUME LinkInv
    PROVE  /\ "proto" \in Link!Writers /\ "app" \in Link!Writers /\ "ping" \in Link!Writers
           /\ "pong" \in Link!Writers /\ "disc" \in Link!Writers
BY DEF Link!Writers

\* The goroutines that write.
LEMMA WriterStep ==
    ASSUME LinkInv, NEW k \in Link!Writers, Link!TakeToken(k) \/ Link!RefuseWrite(k) \/ Link!WriteDone(k)
    PROVE  LinkInv'
<1>1. UNCHANGED <<wmu, linkWire, failed, remote, ping, peerRun>>
  BY DEF Link!TakeToken, Link!RefuseWrite, Link!WriteDone, Link!runVars, Link!loopVars, Link!wireVars, Link!netVars
<1>2. LockWithBody
  BY DEF LinkInv
<1>3. CASE Link!TakeToken(k)
  <2>1. writer[k] = "token" /\ writer' = [writer EXCEPT ![k] = "want"]
    BY <1>3 DEF Link!TakeToken, Link!Writes
  <2>2. (ping = "sleep" => k # "ping") /\ (peerRun \in {"loop", "closing"} => k # "disc")
    BY <1>2, <2>1 DEF LockWithBody
  <2> QED
    BY <1>1, <2>1, <2>2, WriterMoves
<1>4. CASE Link!RefuseWrite(k)
  <2>1. writer[k] = "token" /\ writer' = [writer EXCEPT ![k] = "idle"]
    BY <1>4 DEF Link!RefuseWrite, Link!Writes
  <2>2. (ping = "sleep" => k # "ping") /\ (peerRun \in {"loop", "closing"} => k # "disc")
    BY <1>2, <2>1 DEF LockWithBody
  <2> QED
    BY <1>1, <2>1, <2>2, WriterMoves
<1>5. CASE Link!WriteDone(k)
  <2>1. k \in {"proto", "app"} /\ writer[k] \in {"ok", "fail"} /\ writer' = [writer EXCEPT ![k] = "idle"]
    BY <1>5 DEF Link!WriteDone, Link!Writes
  <2> QED
    BY <1>1, <2>1, WriterMoves
<1> QED
  BY <1>3, <1>4, <1>5

\* A goroutine starts a write, or ends one.
LEMMA StartStep ==
    ASSUME LinkInv,
           Link!ProtoSend \/ Link!AppSend \/ Link!PongEnds \/ Link!PingTick \/ Link!PingSent
    PROVE  LinkInv'
<1>1. UNCHANGED <<wmu, linkWire, failed, remote, peerRun>>
  BY DEF Link!ProtoSend, Link!AppSend, Link!PongEnds, Link!PingTick, Link!PingSent,
         Link!runVars, Link!loopVars, Link!wireVars, Link!netVars
<1>2. LockWithBody
  BY DEF LinkInv
<1>3. CASE Link!ProtoSend
  <2>1. writer["proto"] = "idle" /\ writer' = [writer EXCEPT !["proto"] = "token"] /\ ping' = ping
    BY <1>3 DEF Link!ProtoSend, Link!Writes, Link!loopVars
  <2> QED
    BY <1>1, <2>1, LinkTyped, WriterMoves
<1>4. CASE Link!AppSend
  <2>1. writer["app"] = "idle" /\ writer' = [writer EXCEPT !["app"] = "token"] /\ ping' = ping
    BY <1>4 DEF Link!AppSend, Link!Writes, Link!loopVars
  <2> QED
    BY <1>1, <2>1, LinkTyped, WriterMoves
<1>5. CASE Link!PongEnds
  <2>1. writer["pong"] \in {"ok", "fail"} /\ writer' = [writer EXCEPT !["pong"] = "idle"] /\ ping' = ping
    BY <1>5 DEF Link!PongEnds, Link!Writes, Link!loopVars
  <2> QED
    BY <1>1, <2>1, LinkTyped, WriterMoves
<1>6. CASE Link!PingTick
  <2>1. ping = "sleep" /\ ping' = "write" /\ writer' = [writer EXCEPT !["ping"] = "want"]
    BY <1>6 DEF Link!PingTick, Link!Writes
  <2>2. writer["ping"] # "body"
    BY <1>2, <2>1 DEF LockWithBody
  <2> QED
    BY <1>1, <2>1, <2>2, LinkTyped, WriterMoves
<1>7. CASE Link!PingSent
  <2>1. writer["ping"] = "ok" /\ writer' = [writer EXCEPT !["ping"] = "idle"]
    BY <1>7 DEF Link!PingSent, Link!Writes
  <2> QED
    BY <1>1, <2>1, LinkTyped, WriterMoves
<1> QED
  BY <1>3, <1>4, <1>5, <1>6, <1>7

\* readLoop handles a message; a ping is answered.
LEMMA ReadMessageStep ==
    ASSUME LinkInv, NEW kind, Link!ReadMessage(kind)
    PROVE  LinkInv'
<1>1. UNCHANGED <<wmu, linkWire, failed, remote, peerRun, ping>>
  BY DEF Link!ReadMessage, Link!runVars, Link!wireVars, Link!netVars
<1>2. CASE kind = "ping" /\ writer["pong"] = "idle"
  <2>1. writer' = [writer EXCEPT !["pong"] = "want"]
    BY <1>2 DEF Link!ReadMessage, Link!Writes
  <2> QED
    BY <1>1, <1>2, <2>1, LinkTyped, WriterMoves
<1>3. CASE ~(kind = "ping" /\ writer["pong"] = "idle")
  <2>1. UNCHANGED writer
    BY <1>3 DEF Link!ReadMessage
  <2> QED
    BY <1>1, <2>1, LinkOthers
<1> QED
  BY <1>2, <1>3

\* Peer.run sends the reason it closes the connection for.
LEMMA RunCloseStep ==
    ASSUME LinkInv, Link!RunClose
    PROVE  LinkInv'
<1>1. UNCHANGED <<wmu, linkWire, failed, remote, ping>> /\ peerRun = "closing" /\ peerRun' \in {"wait", "disc"}
  BY DEF Link!RunClose, Link!loopVars, Link!wireVars
<1>2. CASE reason = "network"
  <2>1. UNCHANGED writer
    BY <1>2 DEF Link!RunClose
  <2> QED
    BY <1>1, <2>1, LinkOthers
<1>3. CASE reason # "network"
  <2>1. writer' = [writer EXCEPT !["disc"] = "want"]
    BY <1>3 DEF Link!RunClose, Link!Writes
  <2>2. writer["disc"] # "body"
    BY <1>1 DEF LinkInv, LockWithBody
  <2> QED
    BY <1>1, <2>1, <2>2, LinkTyped, WriterMoves
<1> QED
  BY <1>2, <1>3

\* Everything else leaves the writers, the lock and the wire alone.
LEMMA LinkRestStep ==
    ASSUME LinkInv,
           \/ Link!Deliver \/ (\E eof \in BOOLEAN : Link!ProtoFails(eof)) \/ Link!ProtoReturns \/ Link!ReadFails
           \/ Link!PingFails \/ Link!PingEnds \/ Link!RunWriteOk \/ Link!RunBreaks \/ Link!Disconnect
           \/ Link!RunDiscSent \/ Link!RunReturns \/ UNCHANGED Link!vars
    PROVE  LinkInv'
<1>1. CASE Link!Deliver \/ (\E eof \in BOOLEAN : Link!ProtoFails(eof)) \/ Link!ProtoReturns \/ Link!ReadFails
  <2>1. UNCHANGED <<wmu, linkWire, failed, remote, writer, ping, peerRun>>
    BY <1>1 DEF Link!Deliver, Link!ProtoFails, Link!ProtoReturns, Link!ReadFails,
                Link!runVars, Link!loopVars, Link!wireVars, Link!netVars
  <2> QED
    BY <2>1, LinkOthers
<1>2. CASE Link!PingFails \/ Link!PingEnds
  <2>1. UNCHANGED <<wmu, linkWire, failed, remote, writer, peerRun>> /\ ping' = "done"
    BY <1>2 DEF Link!PingFails, Link!PingEnds, Link!runVars, Link!wireVars, Link!netVars
  <2> QED
    BY <2>1, LinkOthers
<1>3. CASE Link!RunWriteOk \/ Link!RunBreaks \/ Link!Disconnect
  <2>1. UNCHANGED <<wmu, linkWire, failed, remote, writer, ping>> /\ peerRun = "loop"
    BY <1>3 DEF Link!RunWriteOk, Link!RunBreaks, Link!Disconnect, Link!Breaks,
                Link!loopVars, Link!wireVars, Link!netVars
  <2> QED
    BY <2>1, LinkOthers
<1>4. CASE Link!RunDiscSent \/ Link!RunReturns
  <2>1. UNCHANGED <<wmu, linkWire, failed, remote, writer, ping>> /\ peerRun' \notin {"loop", "closing"}
    BY <1>4 DEF Link!RunDiscSent, Link!RunReturns, Link!loopVars, Link!wireVars, Link!netVars
  <2> QED
    BY <2>1, LinkOthers
<1>5. CASE UNCHANGED Link!vars
  <2>1. UNCHANGED <<wmu, linkWire, failed, remote, writer, ping, peerRun>>
    BY <1>5 DEF Link!vars, Link!runVars, Link!loopVars, Link!wireVars, Link!netVars
  <2> QED
    BY <2>1, LinkOthers
<1> QED
  BY <1>1, <1>2, <1>3, <1>4, <1>5

\* Every step of the link keeps LinkInv.
LEMMA LinkStep == LinkInv /\ [Link!Next]_(Link!vars) => LinkInv'
<1> SUFFICES ASSUME LinkInv, [Link!Next]_(Link!vars) PROVE LinkInv'
  OBVIOUS
<1>1. CASE UNCHANGED Link!vars
  BY <1>1, LinkRestStep
<1>2. CASE Link!Progress
  <2>1. TRUE \in BOOLEAN
    OBVIOUS
  <2> QED
    BY <1>2, <2>1, FrameStep, WriterStep, StartStep, RunCloseStep, LinkRestStep DEF Link!Progress
<1>3. CASE Link!ProtoFails(FALSE) \/ Link!AppSend \/ Link!PingTick \/ Link!Disconnect
  <2>1. FALSE \in BOOLEAN
    OBVIOUS
  <2> QED
    BY <1>3, <2>1, StartStep, LinkRestStep
<1>4. CASE Link!RemoteReads \/ Link!RemoteLeaves
  BY <1>4, RemoteStep
<1> QED
  BY <1>1, <1>2, <1>3, <1>4, ReadMessageStep DEF Link!Next

\* LinkInv says that the remote side finds whole frames.
LEMMA LinkInvSound == LinkInv => Link!FramesWhole
<1> SUFFICES ASSUME LinkInv, ~failed PROVE Link!FramesWhole
  BY DEF Link!FramesWhole
<1>1. linkWire = <<>> \/ Whole(linkWire, wmu)
  BY DEF LinkInv, WireWhole
<1>2. CASE linkWire = <<>>
  BY <1>2 DEF Link!FramesWhole
<1>3. CASE Whole(linkWire, wmu)
  BY <1>3 DEF Link!FramesWhole, Whole
<1> QED
  BY <1>1, <1>2, <1>3

\* p2p/rlpx.go: the remote side of a link finds whole frames, however many
\* goroutines write, until a write fails (FramesWhole).
THEOREM FramesAreWhole == Link!Spec => []Link!FramesWhole
BY LinkInit, LinkStep, LinkInvSound, PTL DEF Link!Spec

-----------------------------------------------------------------------------
(* The pipe (p2p/message.go)                                               *)

PipeOutcome == [err : BOOLEAN, size : Nat, closing : BOOLEAN]

PipeTypeOK ==
    /\ write \in [{1, 2} -> [st : {"idle", "offer", "consume"}, size : Nat]]
    /\ outcome \in [{1, 2} -> Seq(PipeOutcome)]
    /\ got \in [{1, 2} -> Nat] /\ eaten \in [{1, 2} -> SUBSET Nat]
    /\ pipeClosed \in Nat /\ closing \in {0, 1}
    /\ closer \in [Closers -> {"idle", "first", "other", "done"}]

\* The counter is 0 until the first Close, whose caller alone closes the channel.
ClosedByOne ==
    /\ pipeClosed = 0 => closing = 0 /\ \A c \in Closers : closer[c] \notin {"first", "other"}
    /\ closing = 1 => \A c \in Closers : closer[c] # "first"
    /\ \A c, d \in Closers : closer[c] = "first" /\ closer[d] = "first" => c = d

PipeInv == PipeTypeOK /\ ClosedByOne /\ Pipe!PipeSound

\* The entries of a log of outcomes that are no error.
Good(s) == {i \in DOMAIN s : ~s[i].err}

\* They are finitely many.
LEMMA GoodFinite ==
    ASSUME NEW s \in Seq(PipeOutcome)
    PROVE  IsFiniteSet(Good(s)) /\ Cardinality(Good(s)) \in Nat
<1>1. IsFiniteSet(1..Len(s))
  BY FS_Interval
<1>2. Good(s) \subseteq 1..Len(s)
  BY DEF Good
<1> QED
  BY <1>1, <1>2, FS_Subset, FS_CardinalityType

\* Another outcome.
LEMMA GoodAppend ==
    ASSUME NEW s \in Seq(PipeOutcome), NEW o \in PipeOutcome
    PROVE  LET t == Append(s, o) IN
           /\ t \in Seq(PipeOutcome)
           /\ DOMAIN t = DOMAIN s \cup {Len(s) + 1} /\ t[Len(s) + 1] = o
           /\ Cardinality(Good(t)) = Cardinality(Good(s)) + (IF o.err THEN 0 ELSE 1)
           /\ Good(t) = Good(s) \cup (IF o.err THEN {} ELSE {Len(s) + 1})
           /\ Good(t) \cap 1..(Len(s) + 1) = Good(t)
           /\ \A i \in DOMAIN s : t[i] = s[i] /\ Good(t) \cap 1..i = Good(s) \cap 1..i
<1> DEFINE t == Append(s, o)
           n == Len(s)
<1>1. /\ t \in Seq(PipeOutcome) /\ n \in Nat /\ DOMAIN s = 1..n /\ DOMAIN t = 1..(n + 1)
      /\ t[n + 1] = o /\ \A i \in 1..n : t[i] = s[i]
  OBVIOUS
<1> HIDE DEF t, n
<1>2. Good(t) = Good(s) \cup (IF o.err THEN {} ELSE {n + 1})
  <2>1. \A i : i \in 1..(n + 1) <=> i \in 1..n \/ i = n + 1
    BY <1>1
  <2>2. o.err \in BOOLEAN
    BY DEF PipeOutcome
  <2> QED
    BY <1>1, <2>1, <2>2 DEF Good
<1>3. n + 1 \notin Good(s)
  BY <1>1 DEF Good
<1>4. Cardinality(Good(t)) = Cardinality(Good(s)) + (IF o.err THEN 0 ELSE 1)
  <2>1. CASE o.err
    <3>1. Good(t) = Good(s)
      BY <1>2, <2>1
    <3> QED
      BY <2>1, <3>1, GoodFinite
  <2>2. CASE ~o.err
    <3>1. Good(t) = Good(s) \cup {n + 1}
      BY <1>2, <2>2
    <3> QED
      BY <1>3, <2>2, <3>1, GoodFinite, FS_AddElement
  <2> QED
    BY <2>1, <2>2
<1>5. Good(t) \cap 1..(n + 1) = Good(t)
  BY <1>1 DEF Good
<1>6. ASSUME NEW i \in 1..n PROVE Good(t) \cap 1..i = Good(s) \cap 1..i
  BY <1>1, <1>2
<1> QED
  BY <1>1, <1>2, <1>4, <1>5, <1>6 DEF t, n

\* PipeSound for one end, of the values it is about.
EndSound(w, s, g, E) ==
    /\ Cardinality(Good(s)) + (IF w.st = "consume" THEN 1 ELSE 0) = g
    /\ \A i \in Good(s) :
          s[i].size > 0 /\ ~s[i].closing => Cardinality(Good(s) \cap 1..i) \in E

\* Cardinality in the instance is Cardinality.
LEMMA PipeCardinality == \A S : Pipe!Cardinality(S) = Cardinality(S)
BY DEF Pipe!Cardinality, Cardinality

\* PipeSound is EndSound of both ends.
LEMMA PipeSoundEnds ==
    Pipe!PipeSound <=>
        closing <= 1 /\ \A e \in {1, 2} : EndSound(write[e], outcome[e], got[3 - e], eaten[3 - e])
<1>1. \A e : Pipe!Delivered(e) = Good(outcome[e])
  BY DEF Pipe!Delivered, Good
<1>2. \A e, i : Pipe!Number(e, i) = Cardinality(Good(outcome[e]) \cap 1..i)
  BY <1>1, PipeCardinality DEF Pipe!Number
<1> QED
  BY <1>1, <1>2, PipeCardinality DEF Pipe!PipeSound, Pipe!Ends, Pipe!Far, EndSound

\* The same in the next state.
LEMMA PipeSoundEndsThen ==
    (Pipe!PipeSound <=>
        closing <= 1 /\ \A e \in {1, 2} : EndSound(write[e], outcome[e], got[3 - e], eaten[3 - e]))'
BY PipeSoundEnds, PTL

\* A write returns: with an error, or with its message received.
LEMMA EndReturns ==
    ASSUME NEW s \in Seq(PipeOutcome), NEW o \in PipeOutcome, NEW w, NEW v, NEW g \in Nat, NEW E,
           EndSound(w, s, g, E), v.st # "consume",
           o.err => w.st # "consume",
           ~o.err => w.st = "consume",
           ~o.err /\ o.size > 0 /\ ~o.closing => g \in E
    PROVE  EndSound(v, Append(s, o), g, E)
<1> DEFINE t == Append(s, o)
<1>1. /\ DOMAIN t = DOMAIN s \cup {Len(s) + 1} /\ t[Len(s) + 1] = o
      /\ Cardinality(Good(t)) = Cardinality(Good(s)) + (IF o.err THEN 0 ELSE 1)
      /\ Good(t) = Good(s) \cup (IF o.err THEN {} ELSE {Len(s) + 1})
      /\ Good(t) \cap 1..(Len(s) + 1) = Good(t)
      /\ \A i \in DOMAIN s : t[i] = s[i] /\ Good(t) \cap 1..i = Good(s) \cap 1..i
  BY GoodAppend
<1>2. Cardinality(Good(s)) \in Nat
  BY GoodFinite
<1>3. Good(s) \subseteq DOMAIN s
  BY DEF Good
<1> HIDE DEF t
<1>4. Cardinality(Good(t)) = g
  BY <1>1, <1>2 DEF EndSound
<1>5. ASSUME NEW i \in Good(t), t[i].size > 0, ~t[i].closing
      PROVE  Cardinality(Good(t) \cap 1..i) \in E
  <2>1. CASE i \in Good(s)
    BY <1>1, <1>3, <1>5, <2>1 DEF EndSound
  <2>2. CASE i \notin Good(s)
    <3>1. ~o.err /\ i = Len(s) + 1
      BY <1>1, <2>2
    <3> QED
      BY <1>1, <1>4, <1>5, <3>1
  <2> QED
    BY <2>1, <2>2
<1>6. EndSound(v, t, g, E)
  BY <1>2, <1>4, <1>5 DEF EndSound
<1> QED
  BY <1>6 DEF t

\* A pipe that has just been made.
LEMMA PipeInit == Pipe!Init => PipeInv
<1> SUFFICES ASSUME Pipe!Init PROVE PipeInv
  OBVIOUS
<1>1. PipeTypeOK /\ ClosedByOne
  BY DEF Pipe!Init, Pipe!Ends, PipeTypeOK, ClosedByOne, PipeOutcome
<1>2. Good(<<>>) = {}
  BY DEF Good
<1>3. \A e \in {1, 2} : EndSound(write[e], outcome[e], got[3 - e], eaten[3 - e])
  BY <1>2, FS_EmptySet DEF Pipe!Init, Pipe!Ends, EndSound
<1> QED
  BY <1>1, <1>3, PipeSoundEnds DEF PipeInv, Pipe!Init

\* What WriteReturns does to the log and the call of one end.
LEMMA ReturnTypes ==
    ASSUME PipeTypeOK, NEW e \in {1, 2}, NEW n \in Nat, NEW err \in BOOLEAN,
           Pipe!WriteReturns(e, n, err)
    PROVE  /\ write' \in [{1, 2} -> [st : {"idle", "offer", "consume"}, size : Nat]]
           /\ outcome' \in [{1, 2} -> Seq(PipeOutcome)]
           /\ write'[e].st = "idle" /\ write'[3 - e] = write[3 - e]
           /\ outcome'[3 - e] = outcome[3 - e]
           /\ outcome'[e] = Append(outcome[e], [err |-> err, size |-> n, closing |-> closing > 0])
           /\ [err |-> err, size |-> n, closing |-> closing > 0] \in PipeOutcome
<1> DEFINE o == [err |-> err, size |-> n, closing |-> closing > 0]
<1>1. o \in PipeOutcome
  BY DEF PipeTypeOK, PipeOutcome
<1>2. Append(outcome[e], o) \in Seq(PipeOutcome)
  BY <1>1 DEF PipeTypeOK
<1>3. write' = [write EXCEPT ![e] = [st |-> "idle", size |-> 0]]
  BY DEF Pipe!WriteReturns
<1>4. outcome' = [outcome EXCEPT ![e] = Append(@, o)]
  BY DEF Pipe!WriteReturns
<1> HIDE DEF o
<1>5. 3 - e \in {1, 2} /\ 3 - e # e
  OBVIOUS
<1>6. /\ write' \in [{1, 2} -> [st : {"idle", "offer", "consume"}, size : Nat]]
      /\ write'[e].st = "idle" /\ write'[3 - e] = write[3 - e]
  BY <1>3, <1>5 DEF PipeTypeOK
<1>7. /\ outcome' \in [{1, 2} -> Seq(PipeOutcome)] /\ outcome'[3 - e] = outcome[3 - e]
      /\ outcome'[e] = Append(outcome[e], o)
  BY <1>2, <1>4, <1>5 DEF PipeTypeOK
<1> QED
  BY <1>1, <1>6, <1>7 DEF o

\* The invariant after a step that leaves Close alone.
LEMMA PipeNow ==
    ASSUME PipeInv
    PROVE  \A e \in {1, 2} :
              EndSound(write[e], outcome[e], got[3 - e], eaten[3 - e]) /\ 3 - e \in {1, 2}
BY PipeSoundEnds DEF PipeInv

\* The invariant after a step that leaves Close alone.
LEMMA PipeThen ==
    ASSUME PipeInv, PipeTypeOK', UNCHANGED <<pipeClosed, closing, closer>>,
           NEW e \in {1, 2},
           EndSound(write'[e], outcome'[e], got'[3 - e], eaten'[3 - e]),
           EndSound(write'[3 - e], outcome'[3 - e], got'[e], eaten'[e])
    PROVE  PipeInv'
<1>1. \A f \in {1, 2} : EndSound(write'[f], outcome'[f], got'[3 - f], eaten'[3 - f])
  <2>1. \A f \in {1, 2} : f = e \/ (f = 3 - e /\ 3 - f = e)
    OBVIOUS
  <2> QED
    BY <2>1
<1>2. closing' <= 1 /\ ClosedByOne'
  BY DEF PipeInv, PipeTypeOK, ClosedByOne
<1> QED
  BY <1>1, <1>2, PipeSoundEndsThen DEF PipeInv

\* The steps of an end, one after the other.
LEMMA PipeEndStep ==
    ASSUME PipeInv, NEW e \in {1, 2}, Pipe!End(e)
    PROVE  PipeInv'
<1> DEFINE f == 3 - e
<1>1. PipeTypeOK /\ MaxSize \in Nat
  BY PipeAssumption DEF PipeInv, Pipe!PipeAssumption
<1>2. /\ EndSound(write[e], outcome[e], got[f], eaten[f])
      /\ EndSound(write[f], outcome[f], got[e], eaten[e])
      /\ f \in {1, 2} /\ 3 - f = e /\ f # e
  <2>1. f \in {1, 2} /\ 3 - f = e /\ f # e
    OBVIOUS
  <2> QED
    BY <2>1, PipeNow
<1>3. ASSUME UNCHANGED <<write, outcome, got, eaten, pipeClosed, closing, closer>>
      PROVE  PipeInv'
  <2>1. PipeTypeOK'
    BY <1>1, <1>3 DEF PipeTypeOK
  <2> QED
    BY <1>2, <1>3, <2>1, PipeThen
\* WriteReturns, of a message that the far end has received or not.
<1>4. ASSUME NEW n \in Nat, NEW err \in BOOLEAN, Pipe!WriteReturns(e, n, err),
             UNCHANGED <<pipeClosed, closing, closer>>, eaten' = eaten,
             got' \in [{1, 2} -> Nat], got'[e] = got[e],
             NEW w, EndSound(w, outcome[e], got'[f], eaten[f]),
             err <=> w.st # "consume",
             ~err /\ n > 0 /\ closing = 0 => got'[f] \in eaten[f]
      PROVE  PipeInv'
  <2> DEFINE o == [err |-> err, size |-> n, closing |-> closing > 0]
  <2>1. /\ write' \in [{1, 2} -> [st : {"idle", "offer", "consume"}, size : Nat]]
        /\ outcome' \in [{1, 2} -> Seq(PipeOutcome)]
        /\ write'[e].st = "idle" /\ write'[f] = write[f]
        /\ outcome'[f] = outcome[f] /\ outcome'[e] = Append(outcome[e], o) /\ o \in PipeOutcome
    BY <1>1, <1>4, ReturnTypes
  <2>2. /\ o.err <=> err
        /\ o.closing <=> closing > 0
        /\ o.size = n
    BY DEF o
  <2>3. closing \in {0, 1} /\ outcome[e] \in Seq(PipeOutcome) /\ got'[f] \in Nat
    BY <1>1, <1>2, <1>4 DEF PipeTypeOK
  <2> HIDE DEF o, f
  <2>4. PipeTypeOK'
    BY <1>1, <1>4, <2>1 DEF PipeTypeOK
  <2>5. /\ write'[e].st # "consume"
        /\ o.err => w.st # "consume"
        /\ ~o.err => w.st = "consume"
        /\ ~o.err /\ o.size > 0 /\ ~o.closing => got'[f] \in eaten[f]
    BY <1>4, <2>1, <2>2, <2>3
  <2>6. EndSound(write'[e], Append(outcome[e], o), got'[f], eaten[f])
    BY <1>4, <2>1, <2>3, <2>5, EndReturns
  <2> QED
    BY <1>2, <1>4, <2>1, <2>4, <2>6, PipeThen DEF f
<1>5. ASSUME NEW n \in 0..MaxSize, Pipe!WriteMsg(e, n) PROVE PipeInv'
  <2>1. write[e].st = "idle" /\ UNCHANGED <<got, eaten, pipeClosed, closing, closer>>
    BY <1>5 DEF Pipe!WriteMsg
  <2>2. CASE pipeClosed = 0
    <3>1. write' = [write EXCEPT ![e] = [st |-> "offer", size |-> n]] /\ outcome' = outcome
      BY <1>5, <2>2 DEF Pipe!WriteMsg
    <3>2. PipeTypeOK' /\ write'[f] = write[f] /\ write'[e].st # "consume"
      BY <1>1, <1>2, <2>1, <3>1 DEF PipeTypeOK
    <3>3. EndSound(write'[e], outcome'[e], got'[f], eaten'[f])
      BY <1>2, <2>1, <3>1, <3>2 DEF EndSound
    <3> QED
      BY <1>2, <2>1, <3>1, <3>2, <3>3, PipeThen
  <2>3. CASE pipeClosed # 0
    <3>1. Pipe!WriteReturns(e, n, TRUE)
      BY <1>5, <2>3 DEF Pipe!WriteMsg
    <3>2. n \in Nat /\ got' \in [{1, 2} -> Nat] /\ got'[e] = got[e]
      BY <1>1, <2>1 DEF PipeTypeOK
    <3>3. EndSound(write[e], outcome[e], got'[f], eaten[f]) /\ (TRUE <=> write[e].st # "consume")
      BY <1>2, <2>1
    <3> HIDE DEF f
    <3> QED
      BY <1>4, <2>1, <3>1, <3>2, <3>3
  <2> QED
    BY <2>2, <2>3
<1>6. ASSUME Pipe!HandOver(e) PROVE PipeInv'
  <2>1. /\ write[e].st = "offer" /\ got' = [got EXCEPT ![f] = @ + 1]
        /\ UNCHANGED <<eaten, pipeClosed, closing, closer>>
    BY <1>6 DEF Pipe!HandOver, Pipe!Far
  <2>2. /\ got' \in [{1, 2} -> Nat] /\ got'[f] = got[f] + 1 /\ got'[e] = got[e] /\ got[f] \in Nat
        /\ write[e].size \in Nat
    BY <1>1, <1>2, <2>1 DEF PipeTypeOK
  <2> DEFINE w == [st |-> "consume"]
  <2>3. EndSound(w, outcome[e], got'[f], eaten[f])
    <3>1. outcome[e] \in Seq(PipeOutcome)
      BY <1>1 DEF PipeTypeOK
    <3>2. Cardinality(Good(outcome[e])) \in Nat
      BY <3>1, GoodFinite
    <3>3. Cardinality(Good(outcome[e])) = got[f]
      BY <1>2, <2>1, <3>2 DEF EndSound
    <3>4. Cardinality(Good(outcome[e])) + 1 = got'[f]
      BY <2>2, <3>3
    <3> QED
      BY <1>2, <3>4 DEF EndSound
  <2>4. CASE write[e].size > 0
    <3>1. write' = [write EXCEPT ![e].st = "consume"] /\ outcome' = outcome
      BY <1>6, <2>4 DEF Pipe!HandOver
    <3>2. /\ write' \in [{1, 2} -> [st : {"idle", "offer", "consume"}, size : Nat]]
          /\ write'[f] = write[f] /\ write'[e].st = "consume"
      BY <1>1, <1>2, <3>1 DEF PipeTypeOK
    <3>3. PipeTypeOK'
      BY <1>1, <2>1, <2>2, <3>1, <3>2 DEF PipeTypeOK
    <3>4. EndSound(write'[e], outcome'[e], got'[f], eaten'[f])
      BY <2>1, <2>3, <3>1, <3>2 DEF EndSound
    <3> QED
      BY <1>2, <2>1, <2>2, <3>1, <3>2, <3>3, <3>4, PipeThen
  <2>5. CASE ~(write[e].size > 0)
    <3>1. Pipe!WriteReturns(e, write[e].size, FALSE)
      BY <1>6, <2>5 DEF Pipe!HandOver
    <3> QED
      BY <1>4, <2>1, <2>2, <2>3, <2>5, <3>1
  <2> QED
    BY <2>4, <2>5
<1>7. ASSUME NEW n \in 0..MaxSize, Pipe!Read(e, n) PROVE PipeInv'
  <2>1. /\ UNCHANGED <<write, outcome, got, pipeClosed, closing, closer>>
        /\ eaten' = [eaten EXCEPT ![e] = @ \cup {got[e]}] \/ eaten' = eaten
    BY <1>7 DEF Pipe!Read
  <2>2. /\ eaten' \in [{1, 2} -> SUBSET Nat]
        /\ eaten'[f] = eaten[f] /\ eaten[e] \subseteq eaten'[e]
    BY <1>1, <1>2, <2>1 DEF PipeTypeOK
  <2>3. PipeTypeOK'
    BY <1>1, <2>1, <2>2 DEF PipeTypeOK
  <2>4. EndSound(write[f], outcome[f], got[e], eaten'[e])
    BY <1>2, <2>2 DEF EndSound
  <2> QED
    BY <1>2, <2>1, <2>2, <2>3, <2>4, PipeThen
<1>8. ASSUME Pipe!Consumed(e) \/ Pipe!WriteUnblocked(e) PROVE PipeInv'
  <2>1. UNCHANGED <<got, eaten, pipeClosed, closing, closer>>
    BY <1>8 DEF Pipe!Consumed, Pipe!WriteUnblocked
  <2>2. write[e].size \in Nat /\ got \in [{1, 2} -> Nat] /\ closing \in {0, 1}
    BY <1>1 DEF PipeTypeOK
  <2>3. CASE Pipe!Consumed(e)
    <3>1. /\ write[e].st = "consume" /\ got[f] \in eaten[f]
          /\ Pipe!WriteReturns(e, write[e].size, FALSE)
      BY <2>3 DEF Pipe!Consumed, Pipe!Far
    <3> QED
      BY <1>2, <1>4, <2>1, <2>2, <3>1
  <2>4. CASE Pipe!WriteUnblocked(e)
    <3>1. /\ write[e].st \in {"offer", "consume"} /\ closing > 0
          /\ Pipe!WriteReturns(e, write[e].size, write[e].st = "offer")
      BY <2>4 DEF Pipe!WriteUnblocked
    <3>2. closing # 0 /\ (write[e].st = "offer") \in BOOLEAN
      BY <2>2, <3>1
    <3> DEFINE err == write[e].st = "offer"
    <3>3. err <=> write[e].st # "consume"
      BY <3>1
    <3> HIDE DEF err
    <3>4. err \in BOOLEAN /\ Pipe!WriteReturns(e, write[e].size, err)
      BY <3>1, <3>2 DEF err
    <3> QED
      BY <1>2, <1>4, <2>1, <2>2, <3>2, <3>3, <3>4
  <2> QED
    BY <1>8, <2>3, <2>4
<1>9. ASSUME Pipe!ReadMsg(e) \/ Pipe!NextMsg(e) \/ Pipe!ReadUnblocked(e) PROVE PipeInv'
  BY <1>3, <1>9 DEF Pipe!ReadMsg, Pipe!NextMsg, Pipe!ReadUnblocked
<1> QED
  BY <1>5, <1>6, <1>7, <1>8, <1>9 DEF Pipe!End

\* A Close leaves the ends alone.
LEMMA PipeCloseStep ==
    ASSUME PipeInv, NEW c \in Closers, Pipe!Close(c) \/ Pipe!CloseEnds(c)
    PROVE  PipeInv'
<1>1. PipeTypeOK /\ ClosedByOne
  BY DEF PipeInv
<1>2. UNCHANGED <<write, outcome, got, eaten>>
  BY DEF Pipe!Close, Pipe!CloseEnds
<1>3. \A e \in {1, 2} : EndSound(write'[e], outcome'[e], got'[3 - e], eaten'[3 - e])
  BY <1>2, PipeNow
<1>4. CASE Pipe!Close(c)
  <2>1. PipeTypeOK' /\ ClosedByOne'
    BY <1>1, <1>2, <1>4 DEF Pipe!Close, PipeTypeOK, ClosedByOne
  <2>2. closing' <= 1
    BY <2>1 DEF PipeTypeOK
  <2> QED
    BY <1>3, <2>1, <2>2, PipeSoundEndsThen DEF PipeInv
<1>5. CASE Pipe!CloseEnds(c)
  <2>1. PipeTypeOK' /\ ClosedByOne'
    BY <1>1, <1>2, <1>5 DEF Pipe!CloseEnds, PipeTypeOK, ClosedByOne
  <2>2. closing' <= 1
    BY <2>1 DEF PipeTypeOK
  <2> QED
    BY <1>3, <2>1, <2>2, PipeSoundEndsThen DEF PipeInv
<1> QED
  BY <1>4, <1>5

\* Every step of the pipe keeps PipeInv.
LEMMA PipeStep == PipeInv /\ [Pipe!Next]_(Pipe!vars) => PipeInv'
<1> SUFFICES ASSUME PipeInv, [Pipe!Next]_(Pipe!vars) PROVE PipeInv'
  OBVIOUS
<1>1. CASE UNCHANGED Pipe!vars
  <2>1. UNCHANGED <<write, outcome, got, eaten, pipeClosed, closing, closer>>
    BY <1>1 DEF Pipe!vars
  <2>2. PipeTypeOK'
    BY <2>1 DEF PipeInv, PipeTypeOK
  <2> QED
    BY <2>1, <2>2, PipeNow, PipeThen
<1>2. CASE Pipe!Next
  BY <1>2, PipeEndStep, PipeCloseStep DEF Pipe!Next, Pipe!Ends
<1> QED
  BY <1>1, <1>2

\* p2p/message.go: a write returns without an error exactly once for every
\* message that was received, with a payload only when that was consumed or the
\* pipe is closing, and the channel is closed once (PipeSound).
THEOREM PipeIsSound == Pipe!Spec => []Pipe!PipeSound
<1>1. PipeInv => Pipe!PipeSound
  BY DEF PipeInv
<1> QED
  BY <1>1, PipeInit, PipeStep, PTL DEF Pipe!Spec

-----------------------------------------------------------------------------
(* The replies over UDP (p2p/discover/udp.go)                              *)

UdpErrors == {"ok", "timeout", "clockwarp", "closed"}

UdpCall == [st : {"idle", "adding", "pending", "done"}, kind : {"ping", "waitping", "findnode"},
            from : Remotes \cup {CHOOSE n \in Remotes : TRUE}, deadline : Nat, got : Nat,
            sent : BOOLEAN, answers : Seq(UdpErrors)]

\* The list pl holds every call that waits, once; a call is answered when it is done.
Listed(pl, c) == \E i \in DOMAIN pl : pl[i] = c
CallsSound(cl) ==
    /\ cl \in [UdpCalls -> UdpCall]
    /\ \A c \in UdpCalls : Len(cl[c].answers) = IF cl[c].st = "done" THEN 1 ELSE 0
Distinct(pl) == pl \in Seq(UdpCalls) /\ \A i, j \in DOMAIN pl : pl[i] = pl[j] => i = j
ListSound(cl, pl) ==
    /\ CallsSound(cl) /\ Distinct(pl)
    /\ \A c \in UdpCalls : cl[c].st = "pending" <=> Listed(pl, c)

\* No deadline is further ahead than respTimeout.
Near(cl, t) == \A c \in UdpCalls : cl[c].st = "pending" => cl[c].deadline <= t + RespTimeout

\* nextTimeout has been in the list.
Known(cl, nt) == nt # None => nt \in UdpCalls /\ cl[nt].st \in {"pending", "done"}

\* The timer covers a deadline.
Covers(dl, tm, fd, t) ==
    fd # -1 \/ (tm >= 0 /\ t + tm <= dl) \/ (tm = 0 /\ t >= dl)

UdpInv ==
    /\ now \in Nat /\ jumps \in Nat /\ timer \in Nat \cup {-1} /\ fired \in Nat \cup {-1}
    /\ CallsSound(udpCall) /\ Distinct(plist) /\ Known(udpCall, nextTimeout)
    /\ IF loop = "ended" THEN \A c \in UdpCalls : udpCall[c].st # "pending"
                         ELSE ListSound(udpCall, plist)
    /\ jumps = 0 =>
        /\ Near(udpCall, now)
        /\ loop # "ended" /\ plist # <<>> =>
               nextTimeout = plist[1] /\ Covers(udpCall[plist[1]].deadline, timer, fired, now)

-----------------------------------------------------------------------------
\* q is the list pl without its i-th element.
Without(pl, i, q) ==
    /\ Distinct(q)
    /\ \A c : Listed(q, c) <=> c # pl[i] /\ Listed(pl, c)
    /\ q # <<>> /\ i # 1 => q[1] = pl[1]

\* list.Remove
LEMMA RemoveAtWithout ==
    ASSUME NEW pl, Distinct(pl), NEW i \in DOMAIN pl
    PROVE  Without(pl, i, Udp!RemoveAt(pl, i))
<1> DEFINE q == Udp!RemoveAt(pl, i)
           n == Len(pl)
<1>1. pl \in Seq(UdpCalls) /\ n \in Nat /\ DOMAIN pl = 1..n /\ i \in 1..n
  BY DEF Distinct
<1>2. /\ SubSeq(pl, 1, i - 1) \in Seq(UdpCalls) /\ Len(SubSeq(pl, 1, i - 1)) = i - 1
      /\ \A j \in 1..(i - 1) : SubSeq(pl, 1, i - 1)[j] = pl[j]
  BY <1>1
<1>3. /\ SubSeq(pl, i + 1, n) \in Seq(UdpCalls) /\ Len(SubSeq(pl, i + 1, n)) = n - i
      /\ \A j \in 1..(n - i) : SubSeq(pl, i + 1, n)[j] = pl[i + j]
  BY <1>1
<1>4. /\ q \in Seq(UdpCalls) /\ Len(q) = n - 1 /\ DOMAIN q = 1..(n - 1)
      /\ \A j \in 1..(n - 1) : q[j] = IF j < i THEN pl[j] ELSE pl[j + 1]
  <2> DEFINE a == SubSeq(pl, 1, i - 1)
             b == SubSeq(pl, i + 1, n)
  <2>1. q = a \o b
    BY DEF Udp!RemoveAt
  <2> HIDE DEF a, b, q, n
  <2>2. a \in Seq(UdpCalls) /\ b \in Seq(UdpCalls) /\ Len(a) = i - 1 /\ Len(b) = n - i
    BY <1>2, <1>3 DEF a, b
  <2>3. /\ a \o b \in Seq(UdpCalls) /\ Len(a \o b) = n - 1 /\ DOMAIN (a \o b) = 1..(n - 1)
        /\ \A j \in 1..(n - 1) : (a \o b)[j] = IF j < i THEN a[j] ELSE b[j - (i - 1)]
    <3>1. /\ a \o b \in Seq(UdpCalls) /\ Len(a \o b) = Len(a) + Len(b)
          /\ DOMAIN (a \o b) = 1..(Len(a) + Len(b))
          /\ \A j \in 1..(Len(a) + Len(b)) :
                (a \o b)[j] = IF j <= Len(a) THEN a[j] ELSE b[j - Len(a)]
      BY <2>2
    <3>2. Len(a) + Len(b) = n - 1 /\ \A j \in 1..(n - 1) : j <= i - 1 <=> j < i
      BY <1>1, <2>2
    <3> HIDE DEF a, b
    <3> QED
      BY <2>2, <3>1, <3>2
  <2>4. ASSUME NEW j \in 1..(n - 1) PROVE (a \o b)[j] = IF j < i THEN pl[j] ELSE pl[j + 1]
    <3>1. CASE j < i
      BY <1>1, <1>2, <2>3, <3>1 DEF a
    <3>2. CASE ~(j < i)
      <4>1. j - (i - 1) \in 1..(n - i) /\ i + (j - (i - 1)) = j + 1
        BY <1>1, <3>2
      <4>2. b[j - (i - 1)] = pl[j + 1]
        BY <1>3, <4>1 DEF b
      <4> QED
        BY <2>3, <3>2, <4>2
    <3> QED
      BY <3>1, <3>2
  <2> QED
    BY <2>1, <2>3, <2>4
<1> HIDE DEF q, n
<1>5. \A j, k \in DOMAIN pl : pl[j] = pl[k] => j = k
  BY DEF Distinct
<1>6. ASSUME NEW j \in DOMAIN q, NEW k \in DOMAIN q, q[j] = q[k] PROVE j = k
  <2>1. \A m \in DOMAIN q : \E x \in DOMAIN pl : q[m] = pl[x] /\ x = IF m < i THEN m ELSE m + 1
    BY <1>1, <1>4
  <2>2. PICK x \in DOMAIN pl : q[j] = pl[x] /\ x = IF j < i THEN j ELSE j + 1
    BY <2>1
  <2>3. PICK y \in DOMAIN pl : q[k] = pl[y] /\ y = IF k < i THEN k ELSE k + 1
    BY <2>1
  <2>4. x = y
    BY <1>5, <1>6, <2>2, <2>3
  <2>5. j \in Int /\ k \in Int /\ i \in Int
    BY <1>1, <1>4
  <2> QED
    BY <2>2, <2>3, <2>4, <2>5
<1>7. ASSUME NEW c, NEW j \in DOMAIN q, q[j] = c PROVE c # pl[i] /\ Listed(pl, c)
  <2>1. \E x \in DOMAIN pl : q[j] = pl[x] /\ x # i
    <3>1. CASE j < i
      BY <1>1, <1>4, <3>1
    <3>2. CASE ~(j < i)
      <4>1. j + 1 \in DOMAIN pl /\ q[j] = pl[j + 1] /\ j + 1 # i
        BY <1>1, <1>4, <3>2
      <4> QED
        BY <4>1
    <3> QED
      BY <3>1, <3>2
  <2> QED
    BY <1>5, <1>7, <2>1 DEF Listed
<1>8. ASSUME NEW c, NEW j \in DOMAIN pl, pl[j] = c, c # pl[i] PROVE Listed(q, c)
  <2>1. CASE j < i
    BY <1>1, <1>4, <1>8, <2>1 DEF Listed
  <2>2. CASE j > i
    <3>1. j - 1 \in DOMAIN q /\ q[j - 1] = c
      BY <1>1, <1>4, <1>8, <2>2
    <3> QED
      BY <3>1 DEF Listed
  <2> QED
    BY <1>1, <1>8, <2>1, <2>2
<1>9. ASSUME q # <<>>, i # 1 PROVE q[1] = pl[1]
  BY <1>1, <1>4, <1>9
<1>10. \A c : Listed(q, c) <=> c # pl[i] /\ Listed(pl, c)
  BY <1>7, <1>8 DEF Listed
<1> QED
  BY <1>4, <1>6, <1>9, <1>10 DEF Without, Distinct, q

\* list.Remove of the first element.
LEMMA TailWithout ==
    ASSUME NEW pl, Distinct(pl), pl # <<>>
    PROVE  Without(pl, 1, Tail(pl)) /\ 1 \in DOMAIN pl /\ Head(pl) = pl[1]
<1> DEFINE q == Tail(pl)
           n == Len(pl)
<1>1. pl \in Seq(UdpCalls) /\ n \in Nat /\ n > 0 /\ DOMAIN pl = 1..n /\ Head(pl) = pl[1]
  BY DEF Distinct
<1>2. q \in Seq(UdpCalls) /\ DOMAIN q = 1..(n - 1) /\ \A j \in 1..(n - 1) : q[j] = pl[j + 1]
  BY <1>1
<1> HIDE DEF q, n
<1>3. \A j, k \in DOMAIN pl : pl[j] = pl[k] => j = k
  BY DEF Distinct
<1>4. \A j, k \in DOMAIN q : q[j] = q[k] => j = k
  <2> SUFFICES ASSUME NEW j \in DOMAIN q, NEW k \in DOMAIN q, q[j] = q[k] PROVE j = k
    OBVIOUS
  <2>1. j + 1 \in DOMAIN pl /\ k + 1 \in DOMAIN pl /\ j \in Int /\ k \in Int
    BY <1>1, <1>2
  <2>2. pl[j + 1] = pl[k + 1]
    BY <1>2
  <2>3. j + 1 = k + 1
    BY <1>3, <2>1, <2>2
  <2> QED
    BY <2>1, <2>3
<1>5. ASSUME NEW c, NEW j \in DOMAIN q, q[j] = c PROVE c # pl[1] /\ Listed(pl, c)
  BY <1>1, <1>2, <1>3, <1>5 DEF Listed
<1>6. ASSUME NEW c, NEW j \in DOMAIN pl, pl[j] = c, c # pl[1] PROVE Listed(q, c)
  <2>1. j - 1 \in DOMAIN q /\ q[j - 1] = c
    BY <1>1, <1>2, <1>6
  <2> QED
    BY <2>1 DEF Listed
<1>7. \A c : Listed(q, c) <=> c # pl[1] /\ Listed(pl, c)
  BY <1>5, <1>6 DEF Listed
<1> QED
  BY <1>1, <1>2, <1>4, <1>7 DEF Without, Distinct, q

\* An answer: the call is done, and nothing else changes.
LEMMA AnswerCalls ==
    ASSUME NEW cl, CallsSound(cl), NEW c \in UdpCalls, NEW e \in UdpErrors, cl[c].st # "done"
    PROVE  LET a == Udp!Answer(cl, c, e)
           IN  CallsSound(a) /\ a[c].st = "done" /\ \A d \in UdpCalls : d # c => a[d] = cl[d]
<1> DEFINE a == Udp!Answer(cl, c, e)
           x == Udp!Answered(cl[c], e)
<1>1. cl \in [UdpCalls -> UdpCall] /\ cl[c] \in UdpCall /\ cl[c].answers \in Seq(UdpErrors) /\ Len(cl[c].answers) = 0
  BY DEF CallsSound, UdpCall
<1>2. Append(cl[c].answers, e) \in Seq(UdpErrors) /\ Len(Append(cl[c].answers, e)) = 1
  BY <1>1
<1>3. x \in UdpCall /\ x.st = "done" /\ x.answers = Append(cl[c].answers, e)
  <2> DEFINE x1 == [cl[c] EXCEPT !.answers = Append(@, e)]
             x2 == [x1 EXCEPT !.st = "done"]
             x3 == [x2 EXCEPT !.deadline = 0]
             x4 == [x3 EXCEPT !.got = 0]
  <2>1. x = x4
    BY DEF Udp!Answered
  <2>2. x1 \in UdpCall /\ x1.answers = Append(cl[c].answers, e)
    BY <1>1, <1>2 DEF UdpCall
  <2> HIDE DEF x, x1
  <2>3. x2 \in UdpCall /\ x2.answers = x1.answers /\ x2.st = "done"
    BY <2>2 DEF UdpCall
  <2> HIDE DEF x2
  <2>4. x3 \in UdpCall /\ x3.answers = x2.answers /\ x3.st = x2.st
    BY <2>3 DEF UdpCall
  <2> HIDE DEF x3
  <2>5. x4 \in UdpCall /\ x4.answers = x3.answers /\ x4.st = x3.st
    BY <2>4 DEF UdpCall
  <2> HIDE DEF x4
  <2> QED
    BY <2>1, <2>2, <2>3, <2>4, <2>5
<1>4. a = [cl EXCEPT ![c] = x]
  BY DEF Udp!Answer
<1> HIDE DEF a, x
<1>5. a \in [UdpCalls -> UdpCall] /\ a[c] = x /\ \A d \in UdpCalls : d # c => a[d] = cl[d]
  BY <1>1, <1>3, <1>4
<1>6. \A d \in UdpCalls : Len(a[d].answers) = IF a[d].st = "done" THEN 1 ELSE 0
  BY <1>2, <1>3, <1>5 DEF CallsSound
<1> QED
  BY <1>3, <1>5, <1>6 DEF CallsSound, a

\* The i-th element of the list is answered and leaves it.
LEMMA AnswerKeeps ==
    ASSUME NEW cl, NEW pl, ListSound(cl, pl), NEW i \in DOMAIN pl, NEW q, Without(pl, i, q),
           NEW e \in UdpErrors, NEW nt, Known(cl, nt)
    PROVE  LET a == Udp!Answer(cl, pl[i], e)
           IN  /\ ListSound(a, q) /\ Known(a, nt)
               /\ \A t : Near(cl, t) => Near(a, t)
               /\ \A c \in UdpCalls : Listed(q, c) => a[c] = cl[c]
<1> DEFINE a == Udp!Answer(cl, pl[i], e)
<1>1. pl[i] \in UdpCalls /\ Listed(pl, pl[i])
  BY DEF ListSound, Distinct, Listed
<1>2. CallsSound(cl) /\ cl[pl[i]].st = "pending"
  BY <1>1 DEF ListSound
<1>3. /\ CallsSound(a) /\ a[pl[i]].st = "done"
      /\ \A d \in UdpCalls : d # pl[i] => a[d] = cl[d]
  BY <1>1, <1>2, AnswerCalls
<1> HIDE DEF a
<1>4. \A c \in UdpCalls : Listed(q, c) => a[c] = cl[c]
  BY <1>3 DEF Without
<1>5. \A c \in UdpCalls : a[c].st = "pending" <=> Listed(q, c)
  BY <1>3 DEF Without, ListSound
<1>6. Known(a, nt)
  BY <1>1, <1>3 DEF Known
<1>7. \A t : Near(cl, t) => Near(a, t)
  BY <1>3 DEF Near
<1> QED
  BY <1>3, <1>4, <1>5, <1>6, <1>7 DEF ListSound, Without, a

\* resetTimeout, with the calls and the list that a step leaves.
LEMMA ResetKeeps ==
    ASSUME now \in Nat, jumps \in Nat, now' = now, jumps' = jumps, loop' = loop, loop # "ended",
           NEW cl, NEW pl, NEW nt, NEW tm \in Nat \cup {-1}, fired' \in Nat \cup {-1},
           ListSound(cl, pl), Known(cl, nt), jumps = 0 => Near(cl, now),
           jumps = 0 /\ pl # <<>> /\ nt = pl[1] => Covers(cl[pl[1]].deadline, tm, fired', now),
           Udp!ResetTimeout(cl, pl, nt, tm)
    PROVE  UdpInv'
<1>1. RespTimeout \in Nat /\ RespTimeout > 0 /\ None \notin UdpCalls
  BY MatcherAssumption DEF Udp!MatcherAssumption
<1>2. CASE pl = <<>> \/ nt = Head(pl)
  <2>1. udpCall' = cl /\ plist' = pl /\ nextTimeout' = nt /\ timer' = tm
    BY <1>2 DEF Udp!ResetTimeout
  <2>2. pl # <<>> => Head(pl) = pl[1]
    BY TailWithout DEF ListSound
  <2>3. CallsSound(cl) /\ Distinct(pl)
    BY DEF ListSound
  <2> QED
    BY <1>2, <2>1, <2>2, <2>3 DEF UdpInv
<1>3. CASE ~(pl = <<>> \/ nt = Head(pl))
  <2> DEFINE c == pl[1]
             dist == cl[c].deadline - now
  <2>1. Without(pl, 1, Tail(pl)) /\ 1 \in DOMAIN pl /\ Head(pl) = c
    BY <1>3, TailWithout DEF ListSound
  <2>2. c \in UdpCalls /\ Listed(pl, c) /\ cl[c].st = "pending" /\ cl[c].deadline \in Nat
    <3>1. c \in UdpCalls /\ Listed(pl, c)
      BY <2>1 DEF ListSound, Distinct, Listed
    <3> QED
      BY <3>1 DEF ListSound, CallsSound, UdpCall
  <2>3. IF dist < 2 * RespTimeout
        THEN /\ udpCall' = cl /\ plist' = pl /\ nextTimeout' = c
             /\ timer' = IF dist > 0 THEN dist ELSE 0
        ELSE /\ udpCall' = Udp!Answer(cl, c, "clockwarp")
             /\ plist' = Tail(pl) /\ nextTimeout' = None /\ timer' = -1
    BY <1>3, <2>1 DEF Udp!ResetTimeout
  <2>4. CallsSound(cl) /\ Distinct(pl)
    BY DEF ListSound
  <2>5. dist \in Int /\ (jumps = 0 => dist < 2 * RespTimeout)
    BY <1>1, <2>2 DEF Near
  <2>6. CASE dist < 2 * RespTimeout
    <3>1. timer' \in Nat /\ Covers(cl[c].deadline, timer', fired', now)
      BY <2>2, <2>3, <2>5, <2>6 DEF Covers
    <3>2. Known(cl, c)
      BY <2>2 DEF Known
    <3>3. udpCall' = cl /\ plist' = pl /\ nextTimeout' = c
      BY <2>3, <2>6
    <3> QED
      BY <2>4, <3>1, <3>2, <3>3 DEF UdpInv
  <2>7. CASE ~(dist < 2 * RespTimeout)
    <3>1. jumps # 0
      BY <2>5, <2>7
    <3>2. /\ udpCall' = Udp!Answer(cl, c, "clockwarp")
          /\ plist' = Tail(pl) /\ nextTimeout' = None /\ timer' = -1
      BY <2>3, <2>7
    <3>3. Known(cl, None)
      BY DEF Known
    <3>4. ListSound(udpCall', plist') /\ Known(udpCall', None)
      <4>1. "clockwarp" \in UdpErrors
        BY DEF UdpErrors
      <4>2. /\ ListSound(Udp!Answer(cl, pl[1], "clockwarp"), Tail(pl))
            /\ Known(Udp!Answer(cl, pl[1], "clockwarp"), None)
        BY <2>1, <3>3, <4>1, AnswerKeeps
      <4> QED
        BY <3>2, <4>2
    <3>5. CallsSound(udpCall') /\ Distinct(plist')
      BY <3>4 DEF ListSound
    <3> QED
      BY <3>1, <3>2, <3>4, <3>5 DEF UdpInv
  <2> QED
    BY <2>6, <2>7
<1> QED
  BY <1>2, <1>3

\* The element i is answered, and the loop goes on.
LEMMA AnswerStep ==
    ASSUME UdpInv, now' = now, jumps' = jumps, loop' = loop, loop # "ended",
           NEW cl, ListSound(cl, plist), Known(cl, nextTimeout), jumps = 0 => Near(cl, now),
           \A c \in UdpCalls : cl[c].deadline = udpCall[c].deadline,
           NEW i \in DOMAIN plist, NEW e \in UdpErrors, fired' \in Nat \cup {-1}, NEW nt,
           nt = None \/ (nt = nextTimeout /\ fired' = fired),
           Udp!ResetTimeout(Udp!Answer(cl, plist[i], e), Udp!RemoveAt(plist, i), nt, timer)
    PROVE  UdpInv'
<1> DEFINE a == Udp!Answer(cl, plist[i], e)
           q == Udp!RemoveAt(plist, i)
<1>1. Without(plist, i, q)
  BY RemoveAtWithout DEF ListSound
<1>2. Known(cl, nt) /\ None \notin UdpCalls
  BY MatcherAssumption DEF Udp!MatcherAssumption, Known
<1>3. /\ ListSound(a, q) /\ Known(a, nt)
      /\ \A t : Near(cl, t) => Near(a, t)
      /\ \A c \in UdpCalls : Listed(q, c) => a[c] = cl[c]
  BY <1>1, <1>2, AnswerKeeps
<1> HIDE DEF a, q
<1>4. ASSUME jumps = 0, q # <<>>, nt = q[1] PROVE Covers(a[q[1]].deadline, timer, fired', now)
  <2>1. q[1] \in UdpCalls /\ Listed(q, q[1])
    <3>1. 1 \in DOMAIN q
      BY <1>3, <1>4, TailWithout DEF ListSound
    <3> QED
      BY <1>3, <3>1 DEF ListSound, Distinct, Listed
  <2>2. nt = nextTimeout /\ fired' = fired
    BY <1>2, <1>4, <2>1
  <2>3. plist # <<>>
    OBVIOUS
  <2>4. nextTimeout = plist[1] /\ Covers(udpCall[plist[1]].deadline, timer, fired, now)
    BY <1>4, <2>3 DEF UdpInv
  <2>5. a[q[1]] = cl[q[1]] /\ q[1] = plist[1]
    BY <1>3, <1>4, <2>1, <2>2, <2>4
  <2> QED
    BY <2>1, <2>2, <2>4, <2>5
<1>5. now \in Nat /\ jumps \in Nat /\ timer \in Nat \cup {-1} /\ (jumps = 0 => Near(a, now))
  BY <1>3 DEF UdpInv
<1>6. Udp!ResetTimeout(a, q, nt, timer)
  BY DEF a, q
<1> QED
  BY <1>3, <1>4, <1>5, <1>6, ResetKeeps

-----------------------------------------------------------------------------
\* Least elements, from the well-foundedness of the natural numbers.
LEMMA Least ==
    ASSUME NEW T \in SUBSET Nat, T # {}
    PROVE  \E m \in T : \A n \in T : m <= n
<1> DEFINE R == OpToRel(<, Nat)
<1>1. \E m \in T : \A n \in T : ~(<<n, m>> \in R)
  <2> HIDE DEF R
  <2>1. IsWellFoundedOn(R, Nat)
    BY NatLessThanWellFounded DEF R
  <2> QED
    BY <2>1, WFMin
<1>2. PICK m \in T : \A n \in T : ~(<<n, m>> \in R)
  BY <1>1
<1>3. \A n \in T : ~(n < m)
  BY <1>2 DEF OpToRel
<1> QED
  BY <1>3

\* The least of some indices is one of them.
LEMMA FirstIn ==
    ASSUME NEW S \in SUBSET Nat, S # {}
    PROVE  Udp!First(S) \in S
<1>1. \E i \in S : \A j \in S : i <= j
  BY Least
<1> QED
  BY <1>1 DEF Udp!First

\* A transport that has just been made.
LEMMA UdpInit == Udp!Init => UdpInv
<1> SUFFICES ASSUME Udp!Init PROVE UdpInv
  OBVIOUS
<1>1. Udp!NewCall \in UdpCall /\ Udp!NewCall.st = "idle" /\ Len(Udp!NewCall.answers) = 0
  BY DEF Udp!NewCall, UdpCall
<1>2. udpCall = [c \in UdpCalls |-> Udp!NewCall]
  BY DEF Udp!Init
<1>3. CallsSound(udpCall) /\ \A c \in UdpCalls : udpCall[c].st = "idle"
  BY <1>1, <1>2 DEF CallsSound
<1>4. /\ now = 0 /\ jumps = 0 /\ plist = <<>> /\ nextTimeout = None
      /\ timer = -1 /\ fired = -1 /\ loop = "run"
  BY DEF Udp!Init
<1>5. Distinct(plist) /\ \A c : ~Listed(plist, c)
  BY <1>4 DEF Distinct, Listed
<1>6. Near(udpCall, now) /\ Known(udpCall, nextTimeout) /\ ListSound(udpCall, plist)
  BY <1>3, <1>4, <1>5 DEF Near, Known, ListSound
<1> QED
  BY <1>3, <1>4, <1>5, <1>6 DEF UdpInv

\* What the invariant says while the loop runs.
LEMMA UdpOpen ==
    ASSUME UdpInv, loop # "ended"
    PROVE  /\ ListSound(udpCall, plist) /\ Known(udpCall, nextTimeout)
           /\ now \in Nat /\ jumps \in Nat /\ timer \in Nat \cup {-1} /\ fired \in Nat \cup {-1}
           /\ jumps = 0 => Near(udpCall, now)
           /\ jumps = 0 /\ plist # <<>> =>
                  nextTimeout = plist[1] /\ Covers(udpCall[plist[1]].deadline, timer, fired, now)
BY DEF UdpInv

\* A step that changes one call, which does not wait before or after.
LEMMA OtherCall ==
    ASSUME UdpInv, NEW c \in UdpCalls, NEW x \in UdpCall, udpCall' = [udpCall EXCEPT ![c] = x],
           UNCHANGED <<now, jumps, plist, nextTimeout, timer, fired, loop>>,
           x.st = "pending" <=> udpCall[c].st = "pending",
           udpCall[c].st \in {"pending", "done"} => x.st \in {"pending", "done"},
           x.deadline = udpCall[c].deadline \/ x.st # "pending",
           Len(x.answers) = IF x.st = "done" THEN 1 ELSE 0
    PROVE  UdpInv'
<1>1. /\ CallsSound(udpCall) /\ Distinct(plist) /\ Known(udpCall, nextTimeout)
      /\ now \in Nat /\ jumps \in Nat /\ timer \in Nat \cup {-1} /\ fired \in Nat \cup {-1}
  BY DEF UdpInv
<1>2. /\ udpCall' \in [UdpCalls -> UdpCall] /\ udpCall'[c] = x
      /\ \A d \in UdpCalls : d # c => udpCall'[d] = udpCall[d]
  BY <1>1 DEF CallsSound
<1>3. CallsSound(udpCall')
  BY <1>1, <1>2 DEF CallsSound
<1>4. Known(udpCall', nextTimeout)
  BY <1>1, <1>2 DEF Known
<1>5. \A d \in UdpCalls : udpCall'[d].st = "pending" <=> udpCall[d].st = "pending"
  BY <1>2
<1>6. \A d \in UdpCalls : udpCall[d].st = "pending" => udpCall'[d].deadline = udpCall[d].deadline
  BY <1>2
<1>7. Near(udpCall, now) => Near(udpCall', now)
  BY <1>5, <1>6 DEF Near
<1>8. CASE loop = "ended"
  BY <1>1, <1>3, <1>4, <1>5, <1>7, <1>8 DEF UdpInv
<1>9. CASE loop # "ended"
  <2>1. ListSound(udpCall, plist)
    BY <1>9, UdpOpen
  <2>2. ListSound(udpCall', plist)
    BY <1>3, <1>5, <2>1 DEF ListSound
  <2>3. plist # <<>> => plist[1] \in UdpCalls /\ udpCall[plist[1]].st = "pending"
    <3>1. plist # <<>> => 1 \in DOMAIN plist /\ plist[1] \in UdpCalls
      BY <2>1 DEF ListSound, Distinct
    <3> QED
      BY <2>1, <3>1 DEF ListSound, Listed
  <2>4. plist # <<>> => udpCall'[plist[1]].deadline = udpCall[plist[1]].deadline
    BY <1>6, <2>3
  <2> QED
    BY <1>1, <1>3, <1>4, <1>7, <1>9, <2>2, <2>4, UdpOpen DEF UdpInv
<1> QED
  BY <1>8, <1>9

\* The callers.
LEMMA CallStep ==
    ASSUME UdpInv, NEW c \in UdpCalls, NEW kind \in {"ping", "waitping", "findnode"},
           NEW n \in Remotes, Udp!Call(c, kind, n)
    PROVE  UdpInv'
<1> DEFINE x1 == [udpCall[c] EXCEPT !.st = "adding"]
           x2 == [x1 EXCEPT !.kind = kind]
           x3 == [x2 EXCEPT !.from = n]
<1>1. /\ udpCall \in [UdpCalls -> UdpCall] /\ udpCall[c] \in UdpCall
      /\ udpCall[c].st = "idle" /\ Len(udpCall[c].answers) = 0
  BY DEF UdpInv, CallsSound, Udp!Call
<1>2. udpCall' = [udpCall EXCEPT ![c] = x3]
  BY <1>1 DEF Udp!Call
<1>3. x1 \in UdpCall /\ x1.answers = udpCall[c].answers /\ x1.st = "adding"
  BY <1>1 DEF UdpCall
<1> HIDE DEF x1
<1>4. x2 \in UdpCall /\ x2.answers = x1.answers /\ x2.st = x1.st
  BY <1>3 DEF UdpCall
<1> HIDE DEF x2
<1>5. x3 \in UdpCall /\ x3.answers = x2.answers /\ x3.st = x2.st
  BY <1>4 DEF UdpCall
<1> HIDE DEF x3
<1>6. UNCHANGED <<now, jumps, plist, nextTimeout, timer, fired, loop>>
  BY DEF Udp!Call
<1> QED
  BY <1>1, <1>2, <1>3, <1>4, <1>5, <1>6, OtherCall

\* The packet of a call is written.
LEMMA UdpWriteStep ==
    ASSUME UdpInv, NEW c \in UdpCalls, Udp!Write(c)
    PROVE  UdpInv'
<1> DEFINE x == [udpCall[c] EXCEPT !.sent = TRUE]
<1>1. /\ udpCall \in [UdpCalls -> UdpCall] /\ udpCall[c] \in UdpCall
      /\ Len(udpCall[c].answers) = IF udpCall[c].st = "done" THEN 1 ELSE 0
  BY DEF UdpInv, CallsSound
<1>2. udpCall' = [udpCall EXCEPT ![c] = x]
  BY <1>1 DEF Udp!Write
<1>3. x \in UdpCall /\ x.answers = udpCall[c].answers /\ x.st = udpCall[c].st /\ x.deadline = udpCall[c].deadline
  BY <1>1 DEF UdpCall
<1> HIDE DEF x
<1>4. UNCHANGED <<now, jumps, plist, nextTimeout, timer, fired, loop>>
  BY DEF Udp!Write
<1> QED
  BY <1>1, <1>2, <1>3, <1>4, OtherCall

\* pending finds the transport closed.
LEMMA PendingClosedStep ==
    ASSUME UdpInv, NEW c \in UdpCalls, Udp!PendingClosed(c)
    PROVE  UdpInv'
<1>1. CallsSound(udpCall) /\ udpCall[c].st = "adding" /\ udpCall' = Udp!Answer(udpCall, c, "closed")
  BY DEF UdpInv, Udp!PendingClosed
<1>2. "closed" \in UdpErrors
  BY DEF UdpErrors
<1>3. /\ CallsSound(udpCall') /\ udpCall'[c].st = "done"
      /\ \A d \in UdpCalls : d # c => udpCall'[d] = udpCall[d]
  BY <1>1, <1>2, AnswerCalls
<1> DEFINE x == udpCall'[c]
<1>4. udpCall' = [udpCall EXCEPT ![c] = x] /\ x \in UdpCall /\ Len(x.answers) = 1
  BY <1>1, <1>3 DEF CallsSound
<1>5. UNCHANGED <<now, jumps, plist, nextTimeout, timer, fired, loop>>
  BY DEF Udp!PendingClosed
<1> QED
  BY <1>1, <1>3, <1>4, <1>5, OtherCall

\* A new element at the end of the list.
LEMMA AddPendingStep ==
    ASSUME UdpInv, NEW c \in UdpCalls, Udp!AddPending(c)
    PROVE  UdpInv'
<1> DEFINE x1 == [udpCall[c] EXCEPT !.st = "pending"]
           x == [x1 EXCEPT !.deadline = now + RespTimeout]
           cl == [udpCall EXCEPT ![c] = x]
           pl == Append(plist, c)
<1>1. /\ loop # "ended" /\ udpCall[c].st = "adding" /\ UNCHANGED <<now, jumps, fired, loop>>
      /\ Udp!ResetTimeout(
            [udpCall EXCEPT ![c].st = "pending", ![c].deadline = now + RespTimeout],
            pl, nextTimeout, timer)
  BY DEF Udp!AddPending
<1>2. /\ ListSound(udpCall, plist) /\ Known(udpCall, nextTimeout)
      /\ now \in Nat /\ jumps \in Nat /\ timer \in Nat \cup {-1} /\ fired \in Nat \cup {-1}
  BY <1>1, UdpOpen
<1>3. /\ CallsSound(udpCall) /\ Distinct(plist) /\ ~Listed(plist, c)
      /\ udpCall \in [UdpCalls -> UdpCall] /\ udpCall[c] \in UdpCall
      /\ Len(udpCall[c].answers) = 0 /\ plist \in Seq(UdpCalls)
  BY <1>1, <1>2 DEF ListSound, CallsSound, Distinct
<1>4. RespTimeout \in Nat /\ now + RespTimeout \in Nat /\ None \notin UdpCalls
  BY <1>2, MatcherAssumption DEF Udp!MatcherAssumption
<1>5. Udp!ResetTimeout(cl, pl, nextTimeout, timer)
  <2>1. [udpCall EXCEPT ![c].st = "pending", ![c].deadline = now + RespTimeout] = cl
    BY <1>3
  <2> QED
    BY <1>1, <2>1
<1>6. x1 \in UdpCall /\ x1.st = "pending" /\ x1.answers = udpCall[c].answers
  BY <1>3 DEF UdpCall
<1> HIDE DEF x1
<1>7. /\ x \in UdpCall /\ x.st = "pending" /\ x.answers = udpCall[c].answers
      /\ x.deadline = now + RespTimeout
  BY <1>4, <1>6 DEF UdpCall
<1> HIDE DEF x
<1>8. /\ cl \in [UdpCalls -> UdpCall] /\ cl[c] = x /\ \A d \in UdpCalls : d # c => cl[d] = udpCall[d]
  BY <1>3, <1>7
<1>9. /\ pl \in Seq(UdpCalls) /\ pl # <<>> /\ DOMAIN pl = DOMAIN plist \cup {Len(plist) + 1}
      /\ pl[Len(plist) + 1] = c /\ \A i \in DOMAIN plist : pl[i] = plist[i]
      /\ IF plist = <<>> THEN pl[1] = c ELSE pl[1] = plist[1] /\ 1 \in DOMAIN plist
  BY <1>3
<1> HIDE DEF cl, pl
<1>10. CallsSound(cl)
  BY <1>3, <1>7, <1>8 DEF CallsSound
<1>11. Distinct(pl) /\ \A d : Listed(pl, d) <=> d = c \/ Listed(plist, d)
  <2>1. \A i \in DOMAIN plist : plist[i] # c
    BY <1>3 DEF Listed
  <2>2. \A i, j \in DOMAIN pl : pl[i] = pl[j] => i = j
    BY <1>3, <1>9, <2>1 DEF Distinct
  <2> QED
    BY <1>9, <2>2 DEF Distinct, Listed
<1>12. ListSound(cl, pl)
  BY <1>2, <1>7, <1>8, <1>10, <1>11 DEF ListSound
<1>13. Known(cl, nextTimeout)
  BY <1>2, <1>7, <1>8 DEF Known
<1>14. Near(udpCall, now) => Near(cl, now)
  BY <1>2, <1>4, <1>7, <1>8 DEF Near
<1>15. ASSUME jumps = 0, nextTimeout = pl[1] PROVE Covers(cl[pl[1]].deadline, timer, fired', now)
  <2>1. nextTimeout # c
    BY <1>1, <1>2, <1>4 DEF Known
  <2>2. plist # <<>> /\ pl[1] = plist[1] /\ 1 \in DOMAIN plist
    BY <1>9, <1>15, <2>1
  <2>3. plist[1] # c /\ plist[1] \in UdpCalls
    BY <1>3, <2>2 DEF Listed
  <2>4. Covers(udpCall[plist[1]].deadline, timer, fired, now)
    BY <1>1, <1>15, <2>2, UdpOpen
  <2> QED
    BY <1>1, <1>8, <2>2, <2>3, <2>4
<1>16. jumps = 0 => Near(cl, now)
  BY <1>1, <1>14, UdpOpen
<1> QED
  BY <1>1, <1>2, <1>5, <1>12, <1>13, <1>15, <1>16, ResetKeeps

\* What the callbacks of a pass change is of no concern to the list.
LEMMA CountedKeeps ==
    ASSUME UdpInv, loop # "ended", NEW r, r.n \in Nat
    PROVE  LET cl == Udp!Counted(r)
           IN  /\ ListSound(cl, plist) /\ Known(cl, nextTimeout) /\ (jumps = 0 => Near(cl, now))
               /\ \A c \in UdpCalls : cl[c].deadline = udpCall[c].deadline
<1> DEFINE cl == Udp!Counted(r)
           y(c) == [udpCall[c] EXCEPT !.got = IF @ + r.n > K THEN K ELSE @ + r.n]
<1>1. ListSound(udpCall, plist) /\ Known(udpCall, nextTimeout) /\ (jumps = 0 => Near(udpCall, now))
  BY UdpOpen
<1>2. udpCall \in [UdpCalls -> UdpCall] /\ K \in Nat
  BY <1>1, MatcherAssumption DEF ListSound, CallsSound, Udp!MatcherAssumption
<1>3. ASSUME NEW c \in UdpCalls
      PROVE  /\ y(c) \in UdpCall /\ y(c).st = udpCall[c].st
             /\ y(c).answers = udpCall[c].answers /\ y(c).deadline = udpCall[c].deadline
  <2>1. udpCall[c] \in UdpCall /\ udpCall[c].got \in Nat
    BY <1>2 DEF UdpCall
  <2> DEFINE g == IF udpCall[c].got + r.n > K THEN K ELSE udpCall[c].got + r.n
  <2>2. g \in Nat
    BY <1>2, <2>1
  <2>3. y(c) = [udpCall[c] EXCEPT !.got = g]
    OBVIOUS
  <2> HIDE DEF g, y
  <2> QED
    BY <2>1, <2>2, <2>3 DEF UdpCall
<1> HIDE DEF y
<1>4. cl = [c \in UdpCalls |-> IF \E i \in Udp!Passed(r) : plist[i] = c THEN y(c) ELSE udpCall[c]]
  BY DEF Udp!Counted, y
<1> HIDE DEF cl
<1>5. cl \in [UdpCalls -> UdpCall]
      /\ \A c \in UdpCalls : /\ cl[c].st = udpCall[c].st /\ cl[c].answers = udpCall[c].answers
                             /\ cl[c].deadline = udpCall[c].deadline
  BY <1>2, <1>3, <1>4
<1>6. ListSound(cl, plist)
  BY <1>1, <1>5 DEF ListSound, CallsSound
<1>7. Known(cl, nextTimeout) /\ (jumps = 0 => Near(cl, now))
  BY <1>1, <1>5 DEF Known, Near
<1> QED
  BY <1>5, <1>6, <1>7 DEF cl

\* handleReply reaches the loop.
LEMMA GotReplyStep ==
    ASSUME UdpInv, NEW r, r.n \in Nat, Udp!GotReply(r)
    PROVE  UdpInv'
<1> DEFINE cl == Udp!Counted(r)
<1>1. loop # "ended" /\ UNCHANGED <<now, jumps, fired, loop>>
  BY DEF Udp!GotReply
<1>2. /\ ListSound(cl, plist) /\ Known(cl, nextTimeout) /\ (jumps = 0 => Near(cl, now))
      /\ \A c \in UdpCalls : cl[c].deadline = udpCall[c].deadline
  BY <1>1, CountedKeeps
<1>3. /\ now \in Nat /\ jumps \in Nat /\ timer \in Nat \cup {-1} /\ fired \in Nat \cup {-1}
      /\ plist \in Seq(UdpCalls)
  BY <1>1, <1>2, UdpOpen DEF ListSound, Distinct
<1>4. CASE Udp!Completing(r) = {}
  <2>1. Udp!ResetTimeout(cl, plist, nextTimeout, timer)
    BY <1>4 DEF Udp!GotReply
  <2> HIDE DEF cl
  <2>2. plist # <<>> => plist[1] \in UdpCalls
    BY <1>3
  <2>3. jumps = 0 /\ plist # <<>> => Covers(cl[plist[1]].deadline, timer, fired', now)
    BY <1>1, <1>2, <2>2, UdpOpen
  <2> QED
    BY <1>1, <1>2, <1>3, <2>1, <2>3, ResetKeeps
<1>5. CASE Udp!Completing(r) # {}
  <2> DEFINE first == Udp!First(Udp!Completing(r))
  <2>1. Udp!ResetTimeout(Udp!Answer(cl, plist[first], "ok"), Udp!RemoveAt(plist, first),
                         nextTimeout, timer)
    BY <1>5 DEF Udp!GotReply
  <2>2. Udp!Completing(r) \subseteq DOMAIN plist /\ DOMAIN plist \in SUBSET Nat
    BY <1>3 DEF Udp!Completing, Udp!Matching
  <2>3. first \in DOMAIN plist
    BY <1>5, <2>2, FirstIn
  <2>4. "ok" \in UdpErrors
    BY DEF UdpErrors
  <2> HIDE DEF cl, first
  <2> QED
    BY <1>1, <1>2, <1>3, <2>1, <2>3, <2>4, AnswerStep
<1> QED
  BY <1>4, <1>5

\* The timer fires.
LEMMA UdpTimeoutStep ==
    ASSUME UdpInv, Udp!Timeout
    PROVE  UdpInv'
<1>1. loop # "ended" /\ UNCHANGED <<now, jumps, loop>> /\ fired' = -1
  BY DEF Udp!Timeout
<1>2. /\ ListSound(udpCall, plist) /\ Known(udpCall, nextTimeout) /\ (jumps = 0 => Near(udpCall, now))
      /\ now \in Nat /\ jumps \in Nat /\ timer \in Nat \cup {-1} /\ plist \in Seq(UdpCalls)
  BY <1>1, UdpOpen DEF ListSound, Distinct
<1>3. None \notin UdpCalls /\ Known(udpCall, None)
  BY MatcherAssumption DEF Udp!MatcherAssumption, Known
<1>4. CASE Udp!Due = {}
  <2>1. Udp!ResetTimeout(udpCall, plist, None, timer)
    BY <1>4 DEF Udp!Timeout
  <2>2. plist # <<>> => plist[1] \in UdpCalls
    BY <1>2
  <2> QED
    BY <1>1, <1>2, <1>3, <2>1, <2>2, ResetKeeps
<1>5. CASE Udp!Due # {}
  <2> DEFINE first == Udp!First(Udp!Due)
  <2>1. Udp!ResetTimeout(Udp!Answer(udpCall, plist[first], "timeout"),
                         Udp!RemoveAt(plist, first), None, timer)
    BY <1>5 DEF Udp!Timeout
  <2>2. Udp!Due \subseteq DOMAIN plist /\ DOMAIN plist \in SUBSET Nat
    BY <1>2 DEF Udp!Due
  <2>3. first \in DOMAIN plist
    BY <1>5, <2>2, FirstIn
  <2>4. "timeout" \in UdpErrors
    BY DEF UdpErrors
  <2> HIDE DEF first
  <2> QED
    BY <1>1, <1>2, <2>1, <2>3, <2>4, AnswerStep
<1> QED
  BY <1>4, <1>5

\* Closing answers everyone in the list, and nobody waits any longer.
LEMMA EndLoopStep ==
    ASSUME UdpInv, Udp!EndLoop
    PROVE  UdpInv'
<1>1. /\ loop # "ended" /\ loop' = "ended" /\ UNCHANGED <<now, jumps, plist, nextTimeout, timer, fired>>
      /\ udpCall' = [c \in UdpCalls |-> IF c \in Udp!Range(plist)
                                        THEN Udp!Answered(udpCall[c], "closed") ELSE udpCall[c]]
  BY DEF Udp!EndLoop
<1>2. /\ ListSound(udpCall, plist) /\ Known(udpCall, nextTimeout)
      /\ now \in Nat /\ jumps \in Nat /\ timer \in Nat \cup {-1} /\ fired \in Nat \cup {-1}
      /\ CallsSound(udpCall) /\ Distinct(plist) /\ udpCall \in [UdpCalls -> UdpCall]
  BY <1>1, UdpOpen DEF ListSound, CallsSound
<1>3. \A c : c \in Udp!Range(plist) <=> Listed(plist, c)
  BY DEF Udp!Range, Listed
<1>4. ASSUME NEW c \in UdpCalls, Listed(plist, c)
      PROVE  LET x == Udp!Answered(udpCall[c], "closed")
             IN  x \in UdpCall /\ x.st = "done" /\ Len(x.answers) = 1
  <2>1. udpCall[c].st # "done" /\ "closed" \in UdpErrors
    BY <1>2, <1>4 DEF ListSound, UdpErrors
  <2> DEFINE a == Udp!Answer(udpCall, c, "closed")
  <2>2. CallsSound(a) /\ a[c].st = "done"
    BY <1>2, <2>1, AnswerCalls
  <2>3. a[c] = Udp!Answered(udpCall[c], "closed")
    BY <1>2 DEF Udp!Answer
  <2> HIDE DEF a
  <2>4. a[c] \in UdpCall /\ Len(a[c].answers) = 1
    BY <2>2 DEF CallsSound
  <2> QED
    BY <2>2, <2>3, <2>4
<1>5. ASSUME NEW c \in UdpCalls
      PROVE  /\ udpCall'[c] \in UdpCall /\ udpCall'[c].st # "pending"
             /\ Len(udpCall'[c].answers) = IF udpCall'[c].st = "done" THEN 1 ELSE 0
             /\ udpCall[c].st \in {"pending", "done"} => udpCall'[c].st = "done"
  <2>1. CASE Listed(plist, c)
    <3>1. udpCall'[c] = Udp!Answered(udpCall[c], "closed")
      BY <1>1, <1>3, <2>1
    <3> QED
      BY <1>4, <2>1, <3>1
  <2>2. CASE ~Listed(plist, c)
    <3>1. udpCall'[c] = udpCall[c]
      BY <1>1, <1>3, <2>2
    <3> QED
      BY <1>2, <2>2, <3>1 DEF ListSound, CallsSound
  <2> QED
    BY <2>1, <2>2
<1>6. udpCall' \in [UdpCalls -> UdpCall]
  BY <1>1, <1>5
<1>7. CallsSound(udpCall') /\ Known(udpCall', nextTimeout) /\ Near(udpCall', now)
  BY <1>2, <1>5, <1>6 DEF CallsSound, Known, Near
<1> QED
  BY <1>1, <1>2, <1>5, <1>7 DEF UdpInv

\* The clock, the timer and close leave the calls and the list alone.
LEMMA ClockStep ==
    ASSUME UdpInv, Udp!Fire \/ Udp!Close \/ Udp!Tick \/ Udp!ClockJump \/ UNCHANGED Udp!vars
    PROVE  UdpInv'
<1>1. /\ now \in Nat /\ jumps \in Nat /\ timer \in Nat \cup {-1} /\ fired \in Nat \cup {-1}
      /\ CallsSound(udpCall) /\ Distinct(plist) /\ Known(udpCall, nextTimeout)
  BY DEF UdpInv
<1>2. UNCHANGED <<udpCall, plist, nextTimeout>> /\ (loop' = "ended" <=> loop = "ended")
  BY DEF Udp!Fire, Udp!Close, Udp!Tick, Udp!ClockJump, Udp!vars
<1>3. /\ now' \in Nat /\ jumps' \in Nat /\ timer' \in Nat \cup {-1} /\ fired' \in Nat \cup {-1}
      /\ jumps' = 0 => jumps = 0
  BY <1>1 DEF Udp!Fire, Udp!Close, Udp!Tick, Udp!ClockJump, Udp!vars
<1>4. ASSUME jumps' = 0
      PROVE  now <= now' /\ \A dl \in Nat : Covers(dl, timer, fired, now) => Covers(dl, timer', fired', now')
  BY <1>1, <1>4 DEF Udp!Fire, Udp!Close, Udp!Tick, Udp!ClockJump, Udp!vars, Covers
<1>5. ASSUME jumps' = 0 PROVE Near(udpCall, now')
  <2>1. Near(udpCall, now) /\ RespTimeout \in Nat /\ \A c \in UdpCalls : udpCall[c].deadline \in Nat
    BY <1>1, <1>3, <1>5, MatcherAssumption DEF UdpInv, Udp!MatcherAssumption, CallsSound, UdpCall
  <2> QED
    BY <1>1, <1>3, <1>4, <1>5, <2>1 DEF Near
<1>6. ASSUME jumps' = 0, loop # "ended", plist # <<>>
      PROVE  nextTimeout = plist[1] /\ Covers(udpCall[plist[1]].deadline, timer', fired', now')
  <2>1. nextTimeout = plist[1] /\ Covers(udpCall[plist[1]].deadline, timer, fired, now)
    BY <1>3, <1>6, UdpOpen
  <2>2. plist[1] \in UdpCalls /\ udpCall[plist[1]].deadline \in Nat
    BY <1>1, <1>6 DEF Distinct, CallsSound, UdpCall
  <2> QED
    BY <1>4, <1>6, <2>1, <2>2
<1>7. IF loop' = "ended" THEN \A c \in UdpCalls : udpCall[c].st # "pending" ELSE ListSound(udpCall, plist)
  BY <1>2 DEF UdpInv
<1> QED
  BY <1>1, <1>2, <1>3, <1>5, <1>6, <1>7 DEF UdpInv

\* Every step of the transport keeps UdpInv.
LEMMA UdpStep == UdpInv /\ [Udp!Next]_(Udp!vars) => UdpInv'
<1> SUFFICES ASSUME UdpInv, [Udp!Next]_(Udp!vars) PROVE UdpInv'
  OBVIOUS
<1>1. CASE UNCHANGED Udp!vars
  BY <1>1, ClockStep
<1>2. CASE Udp!Progress
  BY <1>2, AddPendingStep, PendingClosedStep, UdpTimeoutStep, EndLoopStep, ClockStep DEF Udp!Progress
<1>3. CASE \E c \in UdpCalls : Udp!Write(c) \/ \E kind \in DOMAIN Udp!PType, n \in Remotes : Udp!Call(c, kind, n)
  <2>1. DOMAIN Udp!PType = {"ping", "waitping", "findnode"}
    BY DEF Udp!PType
  <2> QED
    BY <1>3, <2>1, UdpWriteStep, CallStep
<1>4. ASSUME NEW r \in Udp!Replies, Udp!GotReply(r) PROVE UdpInv'
  <2>1. r.n \in Nat
    BY MatcherAssumption DEF Udp!Replies, Udp!MatcherAssumption
  <2> QED
    BY <1>4, <2>1, GotReplyStep
<1>5. CASE Udp!Close \/ Udp!ClockJump
  BY <1>5, ClockStep
<1> QED
  BY <1>1, <1>2, <1>3, <1>4, <1>5 DEF Udp!Next

\* Cardinality in the instance is Cardinality.
LEMMA UdpCardinality == \A S : Udp!Cardinality(S) = Cardinality(S)
BY DEF Udp!Cardinality, Cardinality

\* UdpInv says more than RepliesSound.
LEMMA UdpInvSound == UdpInv => RepliesSound
<1> SUFFICES ASSUME UdpInv PROVE RepliesSound
  OBVIOUS
<1>1. Udp!TimerCoversHead
  <2> SUFFICES ASSUME loop # "ended", plist # <<>>, jumps = 0
               PROVE  nextTimeout = Head(plist) /\ Covers(udpCall[Head(plist)].deadline, timer, fired, now)
    BY DEF Udp!TimerCoversHead, Covers
  <2>1. Head(plist) = plist[1]
    BY TailWithout, UdpOpen DEF ListSound
  <2> QED
    BY <2>1, UdpOpen
<1>2. ASSUME NEW c \in UdpCalls
      PROVE  /\ Len(udpCall[c].answers) <= 1
             /\ udpCall[c].st = "pending" => Listed(plist, c)
             /\ loop # "ended" => Cardinality({i \in DOMAIN plist : plist[i] = c})
                                  = IF udpCall[c].st = "pending" THEN 1 ELSE 0
  <2>1. Len(udpCall[c].answers) <= 1
    BY DEF UdpInv, CallsSound
  <2>2. udpCall[c].st = "pending" => Listed(plist, c)
    BY DEF UdpInv, ListSound
  <2>3. ASSUME loop # "ended"
        PROVE  Cardinality({i \in DOMAIN plist : plist[i] = c}) = IF udpCall[c].st = "pending" THEN 1 ELSE 0
    <3>1. ListSound(udpCall, plist)
      BY <2>3, UdpOpen
    <3>2. CASE udpCall[c].st = "pending"
      <4>1. PICK i \in DOMAIN plist : plist[i] = c
        BY <3>1, <3>2 DEF ListSound, Listed
      <4>2. {j \in DOMAIN plist : plist[j] = c} = {i}
        BY <3>1, <4>1 DEF ListSound, Distinct
      <4> QED
        BY <3>2, <4>2, FS_Singleton
    <3>3. CASE udpCall[c].st # "pending"
      <4>1. {j \in DOMAIN plist : plist[j] = c} = {}
        BY <3>1, <3>3 DEF ListSound, Listed
      <4> QED
        BY <3>3, <4>1, FS_EmptySet
    <3> QED
      BY <3>2, <3>3
  <2> QED
    BY <2>1, <2>2, <2>3
<1>3. Udp!AnsweredOnce
  BY <1>2, UdpCardinality DEF Udp!AnsweredOnce, Listed
<1> QED
  BY <1>1, <1>3 DEF RepliesSound, Udp!RepliesSound

\* discover/udp.go: every pending call is answered at most once, and one that
\* waits is covered by the timer unless the clock has jumped (RepliesSound).
THEOREM MatcherSound == Udp!Spec => []RepliesSound
BY UdpInit, UdpStep, UdpInvSound, PTL DEF Udp!Spec

-----------------------------------------------------------------------------
(* The handshakes (p2p/rlpx.go, p2p/peer.go, setupConn of p2p/server.go)   *)

\* Induction, for a set of natural numbers.
LEMMA Induction ==
    ASSUME NEW P \in SUBSET Nat, 0 \in P, \A n \in Nat : n \in P => n + 1 \in P
    PROVE  P = Nat
<1> SUFFICES ASSUME P # Nat PROVE FALSE OBVIOUS
<1> DEFINE T == Nat \ P
<1>1. PICK m \in T : \A n \in T : m <= n BY Least
<1>2. m # 0 /\ m - 1 \in Nat /\ m - 1 \notin T BY <1>1
<1> QED BY <1>2

-----------------------------------------------------------------------------
\* Of capabilities, one comes before all others.
IsFirst(q, S) == q \in S /\ \A c \in S : c = q \/ Handshake!Before(q, c)

\* What matchProtocols has after some rounds, of the protocols S in common: r.rest
\* are still to come and later than all that has matched, what has matched lies
\* below r.offset without overlap, and the last match ends there.
Apart(m, n) == m.offset + m.proto.length <= n.offset \/ n.offset + n.proto.length <= m.offset
Match(S) == [proto : S, offset : Nat]
Newest(S, res, rest) ==
    \A p \in S \ rest : \E m \in res : m.proto.name = p.name /\ m.proto.version >= p.version
Layout(res, off) ==
    /\ \A m \in res : m.offset >= 16 /\ m.offset + m.proto.length <= off
    /\ \A m, n \in res : m # n => Apart(m, n) /\ m.proto.name # n.proto.name
    /\ \A m \in res : (\A n \in res : n.proto.name <= m.proto.name) => m.offset + m.proto.length = off
RoundSound(r, S) ==
    /\ r.rest \in SUBSET S /\ r.offset \in Nat /\ r.offset >= 16 /\ r.result \in SUBSET Match(S)
    /\ Layout(r.result, r.offset)
    /\ \A m \in r.result, c \in r.rest : Handshake!Before(m.proto, c)
    /\ Newest(S, r.result, r.rest)

\* The protocols are as HandshakeAssumption says.
LEMMA ProtosSound ==
    /\ \A p \in Protos : p.name \in Nat /\ p.version \in Nat /\ p.length \in Nat /\ p.length > 0
    /\ \A p, q \in Protos : p.name = q.name /\ p.version = q.version => p = q
    /\ Offers \subseteq SUBSET Protos /\ IsFiniteSet(Protos)
<1>1. IsFiniteSet(Protos) BY HandshakeAssumption DEF Handshake!HandshakeAssumption, Handshake!IsFiniteSet, IsFiniteSet
<1> QED BY <1>1, HandshakeAssumption DEF Handshake!HandshakeAssumption

\* The order is total.
LEMMA FirstCap ==
    ASSUME NEW S \in SUBSET Protos, S # {}
    PROVE  \E q : IsFirst(q, S)
<1> DEFINE N == {p.name : p \in S}
<1>1. N \in SUBSET Nat /\ N # {} BY ProtosSound
<1>2. PICK n \in N : \A k \in N : n <= k
  <2> HIDE DEF N
  <2> QED BY <1>1, Least
<1> DEFINE T == {p \in S : p.name = n}
           V == {p.version : p \in T}
<1>3. V \in SUBSET Nat /\ V # {} BY ProtosSound
<1>4. PICK v \in V : \A k \in V : v <= k
  <2> HIDE DEF V
  <2> QED BY <1>3, Least
<1>5. PICK q \in T : q.version = v BY <1>4
<1>6. ASSUME NEW c \in S, c # q PROVE Handshake!Before(q, c)
  <2>1. c \in Protos /\ q \in Protos /\ q.name = n BY <1>5
  <2>2. n <= c.name BY <1>2
  <2>3. c.name \in Nat /\ q.name \in Nat /\ c.version \in Nat /\ q.version \in Nat BY <2>1, ProtosSound
  <2>4. CASE c.name = n
    <3>1. c.version \in V BY <2>4
    <3>2. v <= c.version BY <1>4, <3>1
    <3>3. c.version # q.version BY <1>6, <2>1, <2>4, ProtosSound
    <3> HIDE DEF V, T, N
    <3> QED BY <1>5, <2>1, <2>3, <2>4, <3>2, <3>3 DEF Handshake!Before
  <2>5. CASE c.name # n
    <3> HIDE DEF V, T, N
    <3> QED BY <2>1, <2>2, <2>3, <2>5 DEF Handshake!Before
  <2> QED BY <2>4, <2>5
<1>7. q \in S BY <1>5
<1> QED BY <1>6, <1>7 DEF IsFirst

\* A match is put at the end of the others.
LEMMA LayoutGrows ==
    ASSUME NEW S \in SUBSET Protos, NEW res \in SUBSET Match(S), NEW off \in Nat, off >= 16, NEW p \in S,
           \A m \in res : m.offset >= 16 /\ m.offset + m.proto.length <= off,
           \A m, n \in res : m # n => Apart(m, n) /\ m.proto.name # n.proto.name,
           \A m \in res : m.proto.name < p.name
    PROVE  Layout(res \cup {[proto |-> p, offset |-> off]}, off + p.length)
<1> DEFINE new == [proto |-> p, offset |-> off]
           all == res \cup {new}
           end == off + p.length
<1>1. p.length \in Nat /\ p.length > 0 /\ p.name \in Nat BY ProtosSound
<1>2. \A m \in res : m.offset \in Nat /\ m.proto \in Protos BY DEF Match
<1>3. \A m \in res : m.proto.length \in Nat /\ m.proto.name \in Nat BY <1>2, ProtosSound
<1>4. new.proto = p /\ new.offset = off OBVIOUS
<1> HIDE DEF new
<1>5. \A m \in all : m.offset >= 16 /\ m.offset + m.proto.length <= end BY <1>1, <1>2, <1>3, <1>4
<1>6. \A m \in res : Apart(m, new) /\ Apart(new, m) /\ m.proto.name # new.proto.name
  BY <1>1, <1>2, <1>3, <1>4 DEF Apart
<1>7. \A m, n \in all : m # n => Apart(m, n) /\ m.proto.name # n.proto.name BY <1>6
<1>8. ASSUME NEW m \in all, \A n \in all : n.proto.name <= m.proto.name PROVE m.offset + m.proto.length = end
  <2>1. p.name <= m.proto.name BY <1>4, <1>8
  <2>2. m \notin res BY <1>1, <1>3, <2>1
  <2> QED BY <1>4, <2>2
<1> QED BY <1>5, <1>7, <1>8 DEF Layout, new

\* A round of matchProtocols keeps what is true of the matches.
LEMMA MatchOneSound ==
    ASSUME NEW S \in SUBSET Protos, NEW r, RoundSound(r, S), r.rest # {}
    PROVE  /\ RoundSound(Handshake!MatchOne(r), S)
           /\ \E p \in r.rest : Handshake!MatchOne(r).rest = r.rest \ {p}
<1> DEFINE p == CHOOSE q \in r.rest : \A c \in r.rest : c = q \/ Handshake!Before(q, c)
           same == {m \in r.result : m.proto.name = p.name}
           offset == IF same = {} THEN r.offset ELSE r.offset - (CHOOSE m \in same : TRUE).proto.length
           new == [proto |-> p, offset |-> offset]
           res == (r.result \ same) \cup {new}
<1>1. Handshake!MatchOne(r) = [rest |-> r.rest \ {p}, offset |-> offset + p.length, result |-> res]
  BY DEF Handshake!MatchOne
<1>2. r.rest \in SUBSET S /\ r.offset \in Nat /\ r.offset >= 16 /\ r.result \in SUBSET Match(S)
      /\ Layout(r.result, r.offset) /\ Newest(S, r.result, r.rest)
      /\ \A m \in r.result, c \in r.rest : Handshake!Before(m.proto, c)
  BY DEF RoundSound
<1>3. p \in r.rest /\ \A c \in r.rest : c = p \/ Handshake!Before(p, c)
  <2>1. \E q \in r.rest : \A c \in r.rest : c = q \/ Handshake!Before(q, c)
    BY <1>2, FirstCap DEF IsFirst
  <2> QED BY <2>1
<1> HIDE DEF p
<1>4. p \in S /\ p \in Protos /\ p.length \in Nat /\ p.length > 0 /\ p.name \in Nat /\ p.version \in Nat
  BY <1>2, <1>3, ProtosSound
<1>5. \A m \in r.result : /\ m.offset \in Nat /\ m.proto \in S /\ m.proto.length \in Nat /\ m.proto.length > 0
                          /\ m.proto.name \in Nat /\ m.proto.version \in Nat
  BY <1>2, ProtosSound DEF Match
<1>6. \A m \in r.result : m.proto.name <= p.name /\ (m.proto.name = p.name => m.proto.version < p.version)
  BY <1>2, <1>3, <1>4, <1>5 DEF Handshake!Before
<1>7. /\ offset \in Nat /\ offset >= 16
      /\ \A m \in r.result \ same : m.offset >= 16 /\ m.offset + m.proto.length <= offset
  <2>1. CASE same = {}
    BY <1>2, <2>1 DEF Layout
  <2>2. CASE same # {}
    <3> DEFINE o == CHOOSE m \in same : TRUE
    <3>1. o \in same BY <2>2
    <3> HIDE DEF o
    <3>2. o \in r.result /\ o.proto.name = p.name BY <3>1
    <3>3. \A n \in r.result : n.proto.name <= o.proto.name BY <1>6, <3>2
    <3>4. o.offset + o.proto.length = r.offset /\ o.offset >= 16 BY <1>2, <3>2, <3>3 DEF Layout
    <3>5. offset = r.offset - o.proto.length BY <2>2 DEF o
    <3>6. offset = o.offset BY <1>5, <3>2, <3>4, <3>5
    <3>7. ASSUME NEW m \in r.result \ same PROVE m.offset >= 16 /\ m.offset + m.proto.length <= o.offset
      <4>1. m \in r.result /\ m # o BY <3>1
      <4>2. m.offset >= 16 /\ m.offset + m.proto.length <= r.offset /\ Apart(m, o)
        BY <1>2, <3>2, <4>1 DEF Layout
      <4> QED BY <1>5, <3>2, <3>4, <4>1, <4>2 DEF Apart
    <3> HIDE DEF offset
    <3> QED BY <1>5, <3>2, <3>4, <3>6, <3>7
  <2> QED BY <2>1, <2>2
<1> HIDE DEF offset
<1>8. \A m \in r.result \ same : m.proto.name < p.name BY <1>4, <1>5, <1>6
<1>9. r.result \ same \in SUBSET Match(S)
      /\ \A m, n \in r.result \ same : m # n => Apart(m, n) /\ m.proto.name # n.proto.name
  BY <1>2 DEF Layout
<1>10. Layout(res, offset + p.length)
  <2> DEFINE others == r.result \ same
  <2> HIDE DEF same, others
  <2>1. others \in SUBSET Match(S) /\ \A m, n \in others : m # n => Apart(m, n) /\ m.proto.name # n.proto.name
    BY <1>9 DEF others
  <2>2. \A m \in others : m.offset >= 16 /\ m.offset + m.proto.length <= offset BY <1>7 DEF others
  <2>3. \A m \in others : m.proto.name < p.name BY <1>8 DEF others
  <2>4. Layout(others \cup {[proto |-> p, offset |-> offset]}, offset + p.length)
    BY <1>4, <1>7, <2>1, <2>2, <2>3, LayoutGrows
  <2> QED BY <2>4 DEF others
<1>11. new \in Match(S) /\ new.proto = p BY <1>4, <1>7 DEF Match
<1>12. res \in SUBSET Match(S) BY <1>9, <1>11
<1> HIDE DEF new
<1>13. \A m \in res, c \in r.rest \ {p} : Handshake!Before(m.proto, c) BY <1>2, <1>3, <1>11
<1>14. Newest(S, res, r.rest \ {p})
  <2> SUFFICES ASSUME NEW q \in S, q \notin r.rest \/ q = p
               PROVE  \E m \in res : m.proto.name = q.name /\ m.proto.version >= q.version
    BY DEF Newest
  <2>1. CASE q = p BY <1>4, <1>11, <2>1
  <2>2. CASE q # p
    <3>1. PICK m \in r.result : m.proto.name = q.name /\ m.proto.version >= q.version
      BY <1>2, <2>2 DEF Newest
    <3>2. CASE m \in same
      <4>1. m.proto.name = p.name /\ m.proto.version < p.version BY <1>6, <3>2
      <4>2. q.version \in Nat BY ProtosSound
      <4> QED BY <1>4, <1>5, <1>11, <3>1, <4>1, <4>2
    <3>3. CASE m \notin same BY <3>1, <3>3
    <3> QED BY <3>2, <3>3
  <2> QED BY <2>1, <2>2
<1> DEFINE t == Handshake!MatchOne(r)
<1>15. t.rest = r.rest \ {p} /\ t.offset = offset + p.length /\ t.result = res BY <1>1
<1>16. offset + p.length \in Nat /\ offset + p.length >= 16 BY <1>4, <1>7
<1> HIDE DEF t, res
<1>17. RoundSound(t, S) BY <1>2, <1>10, <1>12, <1>13, <1>14, <1>15, <1>16 DEF RoundSound
<1> QED BY <1>3, <1>15, <1>17 DEF t

\* The rounds of matchProtocols, as a function of their number.
Rounds(f, S, n) ==
    \A i \in 0..n : f[i] = IF i = 0 THEN [rest |-> S, offset |-> 16, result |-> {}]
                           ELSE Handshake!MatchOne(f[i - 1])

\* There is such a function.
LEMMA RoundsRun ==
    ASSUME NEW S
    PROVE  \A n \in Nat : \E f : f = [i \in 0..n |-> f[i]] /\ Rounds(f, S, n)
<1> DEFINE P == {n \in Nat : \E f : f = [i \in 0..n |-> f[i]] /\ Rounds(f, S, n)}
           first == [rest |-> S, offset |-> 16, result |-> {}]
<1>1. 0 \in P
  <2> DEFINE f == [i \in 0..0 |-> first]
  <2>1. f = [i \in 0..0 |-> f[i]] /\ Rounds(f, S, 0) BY DEF Rounds
  <2> QED BY <2>1
<1>2. ASSUME NEW n \in Nat, n \in P PROVE n + 1 \in P
  <2>1. PICK f : f = [i \in 0..n |-> f[i]] /\ Rounds(f, S, n) BY <1>2
  <2> DEFINE h == [i \in 0..(n + 1) |-> IF i = n + 1 THEN Handshake!MatchOne(f[n]) ELSE f[i]]
  <2>2. h = [i \in 0..(n + 1) |-> h[i]] OBVIOUS
  <2>3. ASSUME NEW i \in 0..(n + 1)
        PROVE  h[i] = IF i = 0 THEN first ELSE Handshake!MatchOne(h[i - 1])
    <3>1. CASE i = n + 1
      <4>1. h[n] = f[n] /\ i # 0 /\ i - 1 = n /\ h[i] = Handshake!MatchOne(f[n]) BY <3>1
      <4> HIDE DEF h
      <4> QED BY <4>1
    <3>2. CASE i \in 0..n
      <4>1. h[i] = f[i] /\ (i # 0 => h[i - 1] = f[i - 1]) BY <3>2
      <4>2. f[i] = IF i = 0 THEN first ELSE Handshake!MatchOne(f[i - 1]) BY <2>1, <3>2 DEF Rounds
      <4> HIDE DEF h, first
      <4> QED BY <4>1, <4>2
    <3> QED BY <3>1, <3>2
  <2> HIDE DEF h
  <2>4. Rounds(h, S, n + 1) BY <2>3 DEF Rounds
  <2>5. \E g : g = [i \in 0..(n + 1) |-> g[i]] /\ Rounds(g, S, n + 1) BY <2>2, <2>4
  <2> QED BY <2>5
<1> HIDE DEF P
<1>3. P = Nat
  <2>1. P \in SUBSET Nat BY DEF P
  <2> QED BY <1>1, <1>2, <2>1, Induction
<1> QED BY <1>3 DEF P

\* What matchProtocols returns: matches that do not overlap, one for each name in
\* common, in the latest version.
Matched(res, S) ==
    /\ res \in SUBSET Match(S) /\ \A m \in res : m.offset >= 16
    /\ \A m, n \in res : m # n => Apart(m, n)
    /\ Newest(S, res, {})

\* matchProtocols, by induction over its rounds.
LEMMA ProtocolsMatched ==
    ASSUME NEW ours \in SUBSET Protos, NEW caps \in SUBSET Protos
    PROVE  Matched(Handshake!MatchProtocols(ours, caps), caps \cap ours)
<1> DEFINE S == caps \cap ours
           N == Handshake!Cardinality(S)
           F(f) == [n \in 0..N |-> IF n = 0 THEN [rest |-> S, offset |-> 16, result |-> {}]
                                   ELSE Handshake!MatchOne(f[n - 1])]
           up == CHOOSE f : f = F(f)
<1>1. Handshake!MatchProtocols(ours, caps) = up[N].result
  BY DEF Handshake!MatchProtocols, Handshake!baseProtocolLength
<1> HIDE DEF N
<1>2. N = Cardinality(S) BY DEF N, Handshake!Cardinality, Cardinality
<1>3. IsFiniteSet(S) /\ S \in SUBSET Protos /\ N \in Nat
  <2>1. IsFiniteSet(S) BY ProtosSound, FS_Subset
  <2> QED BY <1>2, <2>1, FS_CardinalityType
<1>4. \E f : f = F(f)
  <2>1. PICK f : f = [i \in 0..N |-> f[i]] /\ Rounds(f, S, N)
    <3> HIDE DEF S
    <3> QED BY <1>3, RoundsRun, Zenon
  <2>2. \A i \in 0..N : f[i] = F(f)[i]
    <3> HIDE DEF S
    <3> QED BY <2>1 DEF Rounds
  <2>3. f = F(f)
    <3> HIDE DEF S
    <3> QED BY <2>1, <2>2
  <2> QED BY <2>3
<1>5. up = F(up) BY <1>4
<1> HIDE DEF S
<1>6. \A i \in 0..N : up[i] = IF i = 0 THEN [rest |-> S, offset |-> 16, result |-> {}]
                              ELSE Handshake!MatchOne(up[i - 1])
  BY <1>5
<1> HIDE DEF up, F
<1> DEFINE Sound(i) == RoundSound(up[i], S) /\ Cardinality(up[i].rest) = N - i
           P == {i \in Nat : i <= N => Sound(i)}
<1>7. 0 \in P
  <2> DEFINE first == [rest |-> S, offset |-> 16, result |-> {}]
  <2>1. up[0] = first BY <1>3, <1>6
  <2>2. first.rest = S /\ first.offset = 16 /\ first.result = {} OBVIOUS
  <2> HIDE DEF first
  <2>3. RoundSound(first, S) BY <2>2 DEF RoundSound, Layout, Newest
  <2>4. Cardinality(first.rest) = N - 0 BY <1>2, <1>3, <2>2
  <2>5. Sound(0) BY <2>1, <2>3, <2>4
  <2> HIDE DEF Sound
  <2> QED BY <2>5
<1>8. ASSUME NEW n \in Nat, n \in P PROVE n + 1 \in P
  <2> SUFFICES ASSUME n + 1 <= N PROVE Sound(n + 1) OBVIOUS
  <2>1. Sound(n) BY <1>3, <1>8
  <2>2. up[n + 1] = Handshake!MatchOne(up[n]) BY <1>3, <1>6
  <2>3. IsFiniteSet(up[n].rest)
    <3>1. up[n].rest \in SUBSET S BY <2>1 DEF RoundSound
    <3> QED BY <1>3, <3>1, FS_Subset
  <2>4. up[n].rest # {}
    <3>1. Cardinality(up[n].rest) # 0 BY <1>3, <2>1
    <3> QED BY <3>1, FS_EmptySet
  <2>5. RoundSound(up[n + 1], S) /\ \E p \in up[n].rest : up[n + 1].rest = up[n].rest \ {p}
    <3>1. RoundSound(up[n], S) BY <2>1
    <3> DEFINE r == up[n]
    <3> HIDE DEF r
    <3>2. RoundSound(r, S) /\ r.rest # {} BY <2>4, <3>1 DEF r
    <3>3. RoundSound(Handshake!MatchOne(r), S) /\ \E p \in r.rest : Handshake!MatchOne(r).rest = r.rest \ {p}
      BY <1>3, <3>2, MatchOneSound, Zenon
    <3>4. up[n + 1] = Handshake!MatchOne(r) BY <2>2 DEF r
    <3> DEFINE t == Handshake!MatchOne(r)
    <3> HIDE DEF t
    <3>5. RoundSound(t, S) /\ \E p \in r.rest : t.rest = r.rest \ {p} BY <3>3 DEF t
    <3>6. up[n + 1] = t BY <3>4 DEF t
    <3> QED BY <3>5, <3>6 DEF r
  <2>6. Cardinality(up[n + 1].rest) = N - (n + 1)
    <3>1. PICK p \in up[n].rest : up[n + 1].rest = up[n].rest \ {p} BY <2>5
    <3>2. Cardinality(up[n].rest \ {p}) = Cardinality(up[n].rest) - 1 BY <2>3, FS_RemoveElement
    <3> QED BY <1>3, <2>1, <3>1, <3>2
  <2> QED BY <2>5, <2>6
<1> HIDE DEF P, Sound
<1>9. P = Nat
  <2>1. P \in SUBSET Nat BY DEF P
  <2> QED BY <1>7, <1>8, <2>1, Induction
<1>10. RoundSound(up[N], S) /\ up[N].rest = {}
  <2>1. Sound(N) BY <1>3, <1>9 DEF P
  <2>2. up[N].rest \in SUBSET S BY <2>1 DEF Sound, RoundSound
  <2>3. IsFiniteSet(up[N].rest) BY <1>3, <2>2, FS_Subset
  <2>4. Cardinality(up[N].rest) = 0 BY <1>3, <2>1 DEF Sound
  <2> QED BY <2>1, <2>3, <2>4, FS_EmptySet DEF Sound
<1>11. Matched(up[N].result, S) BY <1>10 DEF RoundSound, Layout, Matched
<1> QED BY <1>1, <1>11 DEF S

\* The two sides, and the stages of setupConn after doEncHandshake.
HsSides == {Handshake!I, Handshake!R}
LateStages == {"posthandshake", "protohandshake", "addpeer", "up"}

\* What a side sends: its packet, the frame of its protocol handshake or of a
\* refusal, and one more frame.  intact is left to the wire.
RespMsg == Handshake!Packet(Handshake!I, Handshake!AuthMsg.format, [nonce |-> "respNonce", ephemeral |-> "respKey"])
PacketOf(s) == IF s = Handshake!I THEN Handshake!AuthMsg ELSE RespMsg
SecOf(s) == Handshake!Secrets(s, Handshake!Other(s), Handshake!AuthMsg, RespMsg)
BodyOf(s) == [id |-> s, version |-> Handshake!Version(s), caps |-> offers[s]]
MatchOf(s) == Handshake!MatchProtocols(offers[s], offers[Handshake!Other(s)])
Snap(n) == IF n = 1 /\ ~old THEN TRUE ELSE FALSE
FrameOf(s, n, code, body, ok) ==
    [kind |-> "frame", code |-> code, body |-> body, snappy |-> Snap(n),
     key |-> SecOf(s).key, mac |-> <<SecOf(s).egress, n>>, intact |-> ok]

Intact == IF damaged THEN {TRUE, FALSE} ELSE {TRUE}
Sealed(s, ok) ==
    [kind |-> "packet", to |-> PacketOf(s).to, format |-> PacketOf(s).format, body |-> PacketOf(s).body, intact |-> ok]
Packets(s) == {Sealed(s, ok) : ok \in Intact}
FirstFrames(s) == {FrameOf(s, 0, 0, BodyOf(s), ok) : ok \in Intact} \cup {FrameOf(s, 0, 1, None, ok) : ok \in Intact}
NextFrames(s) ==
    {FrameOf(s, 1, 1, None, ok) : ok \in Intact}
    \cup UNION {{FrameOf(s, 1, m.offset + m.proto.length - 1, m.proto, ok) : m \in MatchOf(s)} : ok \in Intact}
SentBy(s) == [n \in 0..2 |-> IF n = 0 THEN Packets(s) ELSE IF n = 1 THEN FirstFrames(s) ELSE NextFrames(s)]

\* The wire w holds what was sent from number lo up to before hi.
Carries(w, M, lo, hi) ==
    /\ w \in Seq(M[0] \cup M[1] \cup M[2])
    /\ lo \in Nat /\ hi \in 0..3 /\ lo + Len(w) = hi
    /\ \A i \in 1..Len(w) : w[i] \in M[lo + i - 1]

\* How far the encryption handshake is: nothing sent, auth sent, auth opened and
\* answered, the answer opened.
Begun(ph, s) == IF s = Handshake!I THEN ph >= 1 ELSE ph >= 2
Opened(ph, s) == IF s = Handshake!I THEN ph = 3 ELSE ph >= 2

HsTypes ==
    /\ old \in BOOLEAN /\ damaged \in BOOLEAN /\ badFrames \in Nat
    /\ offers \in [HsSides -> Offers] /\ stage \in [HsSides -> LateStages \cup {"auth", "resp", "closed"}]
    /\ out \in [HsSides -> Nat] /\ inn \in [HsSides -> Nat] /\ snappy \in [HsSides -> BOOLEAN]
    /\ sec = [s \in HsSides |-> sec[s]] /\ hs = [s \in HsSides |-> hs[s]]
    /\ running = [s \in HsSides |-> running[s]] /\ wire = [s \in HsSides |-> wire[s]]

\* A side in a late stage has sent and read what the stage says.
SideSound(s) ==
    /\ stage[s] = "posthandshake" => out[s] = 0 /\ inn[s] = 0 /\ snappy[s] = Snap(0)
    /\ stage[s] = "protohandshake" => out[s] = 1 /\ inn[s] = 0 /\ snappy[s] = Snap(0)
    /\ stage[s] = "addpeer" => /\ out[s] = 1 /\ inn[s] = 1 /\ snappy[s] = Snap(1)
                               /\ hs[s] = BodyOf(Handshake!Other(s))
    /\ stage[s] = "up" => /\ out[s] \in {1, 2} /\ inn[s] \in {1, 2} /\ snappy[s] = Snap(1)
                          /\ running[s] = MatchOf(s)

\* A side has frames and secrets once it has opened the other's packet.
SideAt(ph, s) ==
    /\ ~Opened(ph, s) => /\ out[s] = 0 /\ inn[s] = 0 /\ snappy[s] = Snap(0)
                         /\ stage[s] \in {"auth", "resp", "closed"}
    /\ Opened(ph, s) => /\ stage[s] \in LateStages \cup {"closed"}
                        /\ sec[s] = SecOf(s) /\ dials = Handshake!R
WireAt(ph, s) ==
    Carries(wire[s], SentBy(s), IF Opened(ph, Handshake!Other(s)) THEN 1 + inn[Handshake!Other(s)] ELSE 0,
            IF Begun(ph, s) THEN 1 + out[s] ELSE 0)
PhaseSound(ph) ==
    /\ \A s \in HsSides : SideAt(ph, s) /\ WireAt(ph, s)
    /\ stage[Handshake!I] = "auth" => ph = 0
    /\ stage[Handshake!I] = "resp" => ph \in {1, 2}
    /\ stage[Handshake!R] = "auth" => ph \in {0, 1}
    /\ stage[Handshake!R] # "resp"

HsInv ==
    /\ HsTypes /\ \A s \in HsSides : SideSound(s)
    /\ \E ph \in 0..3 : PhaseSound(ph)
    /\ ~damaged => badFrames = 0

-----------------------------------------------------------------------------
\* The next of what was sent is written.
LEMMA CarriesAppend ==
    ASSUME NEW M, NEW w, NEW lo, NEW hi, Carries(w, M, lo, hi), hi \in 0..2, NEW p \in M[hi]
    PROVE  Carries(Append(w, p), M, lo, hi + 1)
<1> DEFINE U == M[0] \cup M[1] \cup M[2]
<1>1. w \in Seq(U) /\ lo \in Nat /\ hi \in 0..2 /\ lo + Len(w) = hi BY DEF Carries
<1>2. p \in U BY <1>1
<1>3. \A i \in 1..Len(w) : w[i] \in M[lo + i - 1] BY DEF Carries
<1> HIDE DEF U
<1>4. Append(w, p) \in Seq(U) /\ Len(Append(w, p)) = Len(w) + 1 /\ Append(w, p)[Len(w) + 1] = p
      /\ \A i \in 1..Len(w) : Append(w, p)[i] = w[i]
  BY <1>1, <1>2
<1>5. ASSUME NEW i \in 1..(Len(w) + 1) PROVE Append(w, p)[i] \in M[lo + i - 1]
  <2>1. CASE i = Len(w) + 1
    <3>1. lo + i - 1 = hi BY <1>1, <2>1
    <3> QED BY <1>4, <2>1, <3>1
  <2>2. CASE i \in 1..Len(w) BY <1>3, <1>4, <2>2
  <2> QED BY <1>1, <2>1, <2>2
<1>6. lo + Len(Append(w, p)) = hi + 1 BY <1>1, <1>4
<1> QED BY <1>1, <1>4, <1>5, <1>6 DEF Carries, U

\* The first of what is on the wire is read.
LEMMA CarriesTail ==
    ASSUME NEW M, NEW w, NEW lo, NEW hi, Carries(w, M, lo, hi), w # <<>>
    PROVE  w[1] \in M[lo] /\ lo < hi /\ Carries(Tail(w), M, lo + 1, hi)
<1> DEFINE U == M[0] \cup M[1] \cup M[2]
<1>1. w \in Seq(U) /\ lo \in Nat /\ hi \in 0..3 /\ lo + Len(w) = hi /\ \A i \in 1..Len(w) : w[i] \in M[lo + i - 1]
  BY DEF Carries
<1> HIDE DEF U
<1>2. Len(w) \in Nat /\ Len(w) > 0 BY <1>1
<1>3. w[1] \in M[lo] /\ lo < hi
  <2>1. w[1] \in M[lo + 1 - 1] BY <1>1, <1>2
  <2> QED BY <1>1, <1>2, <2>1
<1>4. Tail(w) \in Seq(U) /\ Len(Tail(w)) = Len(w) - 1 /\ \A i \in 1..(Len(w) - 1) : Tail(w)[i] = w[i + 1]
  BY <1>1, <1>2
<1>5. ASSUME NEW i \in 1..(Len(w) - 1) PROVE Tail(w)[i] \in M[(lo + 1) + i - 1]
  <2>1. i + 1 \in 1..Len(w) /\ lo + (i + 1) - 1 = (lo + 1) + i - 1 BY <1>1, <1>2
  <2> QED BY <1>1, <1>4, <2>1
<1> QED BY <1>1, <1>2, <1>3, <1>4, <1>5 DEF Carries, U

\* More may be on the wire, and its first message may be another one.
LEMMA CarriesMore ==
    ASSUME NEW M, NEW L, NEW w, NEW lo, NEW hi, Carries(w, M, lo, hi), \A n \in 0..2 : M[n] \subseteq L[n]
    PROVE  /\ Carries(w, L, lo, hi)
           /\ \A p : w # <<>> /\ p \in L[lo] => Carries([w EXCEPT ![1] = p], L, lo, hi)
<1> DEFINE U == M[0] \cup M[1] \cup M[2]
           V == L[0] \cup L[1] \cup L[2]
<1>1. w \in Seq(U) /\ lo \in Nat /\ hi \in 0..3 /\ lo + Len(w) = hi /\ \A i \in 1..Len(w) : w[i] \in M[lo + i - 1]
  BY DEF Carries
<1>2. U \subseteq V OBVIOUS
<1> HIDE DEF U, V
<1>3. w \in Seq(V) BY <1>1, <1>2
<1>4. \A i \in 1..Len(w) : lo + i - 1 \in 0..2 BY <1>1
<1>5. \A i \in 1..Len(w) : w[i] \in L[lo + i - 1] BY <1>1, <1>4
<1>6. Carries(w, L, lo, hi) BY <1>1, <1>3, <1>5 DEF Carries, V
<1>7. ASSUME NEW p, w # <<>>, p \in L[lo] PROVE Carries([w EXCEPT ![1] = p], L, lo, hi)
  <2>1. Len(w) \in Nat /\ Len(w) > 0 /\ lo \in 0..2 BY <1>1, <1>7
  <2>2. p \in V BY <1>7, <2>1 DEF V
  <2> DEFINE v == [w EXCEPT ![1] = p]
  <2>3. v \in Seq(V) /\ Len(v) = Len(w) /\ v[1] = p /\ \A i \in 2..Len(w) : v[i] = w[i] BY <1>3, <2>1, <2>2
  <2> HIDE DEF v
  <2>4. ASSUME NEW i \in 1..Len(v) PROVE v[i] \in L[lo + i - 1]
    <3>1. CASE i = 1
      <4>1. lo + i - 1 = lo BY <1>1, <3>1
      <4> QED BY <1>7, <2>3, <3>1, <4>1
    <3>2. CASE i # 1
      <4>1. i \in 2..Len(w) /\ i \in 1..Len(w) BY <2>1, <2>3, <3>2
      <4> QED BY <1>5, <2>3, <4>1
    <3> QED BY <3>1, <3>2
  <2>5. Carries(v, L, lo, hi) BY <1>1, <2>3, <2>4 DEF Carries, V
  <2> QED BY <2>5 DEF v
<1> QED BY <1>6, <1>7

\* Nothing has been sent.
LEMMA CarriesNothing ==
    ASSUME NEW M PROVE Carries(<<>>, M, 0, 0)
BY DEF Carries

-----------------------------------------------------------------------------
\* The sides.
LEMMA SidesTwo ==
    /\ Handshake!I \in HsSides /\ Handshake!R \in HsSides /\ Handshake!I # Handshake!R
    /\ HsSides = Handshake!Sides
    /\ \A s \in HsSides : /\ Handshake!Other(s) \in HsSides /\ Handshake!Other(s) # s
                          /\ Handshake!Other(Handshake!Other(s)) = s
                          /\ \A t \in HsSides : t = s \/ t = Handshake!Other(s)
BY DEF HsSides, Handshake!Sides, Handshake!I, Handshake!R, Handshake!Other

\* What the values above are made of does not change.
LEMMA HsConstant ==
    ASSUME UNCHANGED <<old, dials, offers>>
    PROVE  \A s \in HsSides :
              /\ SecOf(s)' = SecOf(s) /\ BodyOf(s)' = BodyOf(s) /\ MatchOf(s)' = MatchOf(s)
              /\ PacketOf(s)' = PacketOf(s)
              /\ \A n : Snap(n)' = Snap(n)
              /\ damaged' = damaged => SentBy(s)' = SentBy(s)
<1> SUFFICES ASSUME NEW s \in HsSides
             PROVE  /\ SecOf(s)' = SecOf(s) /\ BodyOf(s)' = BodyOf(s) /\ MatchOf(s)' = MatchOf(s)
                    /\ PacketOf(s)' = PacketOf(s)
                    /\ \A n : Snap(n)' = Snap(n)
                    /\ damaged' = damaged => SentBy(s)' = SentBy(s)
  OBVIOUS
<1>1. Handshake!AuthMsg' = Handshake!AuthMsg BY DEF Handshake!AuthMsg
<1>2. RespMsg' = RespMsg BY <1>1 DEF RespMsg
<1>3. SecOf(s)' = SecOf(s) BY <1>1, <1>2 DEF SecOf
<1>4. BodyOf(s)' = BodyOf(s) BY DEF BodyOf, Handshake!Version
<1>5. MatchOf(s)' = MatchOf(s) BY DEF MatchOf
<1>6. PacketOf(s)' = PacketOf(s) BY <1>1, <1>2 DEF PacketOf
<1>7. \A n : Snap(n)' = Snap(n) BY DEF Snap
<1>8. ASSUME damaged' = damaged PROVE SentBy(s)' = SentBy(s)
  BY <1>3, <1>4, <1>5, <1>6, <1>8 DEF SentBy, Packets, Sealed, FirstFrames, NextFrames, FrameOf, Intact, Snap
<1> QED BY <1>3, <1>4, <1>5, <1>6, <1>7, <1>8

\* Two nodes that are about to connect.
LEMMA HsInitSound == Handshake!Init => HsInv
<1> SUFFICES ASSUME Handshake!Init PROVE HsInv OBVIOUS
<1>1. /\ old \in BOOLEAN /\ offers \in [HsSides -> Offers]
      /\ stage = [s \in HsSides |-> "auth"] /\ sec = [s \in HsSides |-> None]
      /\ out = [s \in HsSides |-> 0] /\ inn = [s \in HsSides |-> 0] /\ snappy = [s \in HsSides |-> FALSE]
      /\ hs = [s \in HsSides |-> None] /\ running = [s \in HsSides |-> {}]
      /\ wire = [s \in HsSides |-> <<>>] /\ damaged = FALSE /\ badFrames = 0
  BY SidesTwo DEF Handshake!Init
<1>2. HsTypes
  <2>1. sec = [s \in HsSides |-> sec[s]] /\ hs = [s \in HsSides |-> hs[s]]
    BY <1>1
  <2>2. running = [s \in HsSides |-> running[s]] /\ wire = [s \in HsSides |-> wire[s]] BY <1>1
  <2>3. stage \in [HsSides -> LateStages \cup {"auth", "resp", "closed"}] BY <1>1
  <2>4. out \in [HsSides -> Nat] /\ inn \in [HsSides -> Nat] BY <1>1
  <2>5. snappy \in [HsSides -> BOOLEAN] BY <1>1
  <2> QED BY <1>1, <2>1, <2>2, <2>3, <2>4, <2>5 DEF HsTypes
<1>3. \A s \in HsSides : SideSound(s) BY <1>1 DEF SideSound
<1>4. \A s \in HsSides : ~Opened(0, s) /\ ~Begun(0, s) BY DEF Opened, Begun
<1>5. \A s \in HsSides : SideAt(0, s) BY <1>1, <1>4 DEF SideAt, Snap
<1>6. \A s \in HsSides : WireAt(0, s) BY <1>1, <1>4, SidesTwo, CarriesNothing DEF WireAt
<1>7. PhaseSound(0) BY <1>1, <1>5, <1>6, SidesTwo DEF PhaseSound
<1> QED BY <1>1, <1>2, <1>3, <1>7 DEF HsInv

\* The side s goes on, after the encryption handshake.
LEMMA LateStep ==
    ASSUME HsInv, NEW ph \in 0..3, PhaseSound(ph), NEW s \in HsSides, Opened(ph, s),
           NEW st \in LateStages \cup {"closed"}, stage' = [stage EXCEPT ![s] = st],
           UNCHANGED <<old, dials, offers, sec, damaged>>, HsTypes', SideSound(s)',
           LET o == Handshake!Other(s)
           IN  /\ out'[o] = out[o] /\ inn'[o] = inn[o] /\ snappy'[o] = snappy[o]
               /\ hs'[o] = hs[o] /\ running'[o] = running[o],
           \A t \in HsSides : WireAt(ph, t)',
           ~damaged => badFrames' = 0
    PROVE  HsInv'
<1> DEFINE o == Handshake!Other(s)
<1>1. o \in HsSides /\ o # s /\ \A t \in HsSides : t = s \/ t = o BY SidesTwo
<1>2. stage'[s] = st /\ stage'[o] = stage[o] BY <1>1 DEF HsInv, HsTypes
<1>3. /\ out'[o] = out[o] /\ inn'[o] = inn[o] /\ snappy'[o] = snappy[o]
      /\ hs'[o] = hs[o] /\ running'[o] = running[o]
  OBVIOUS
<1>4. SideSound(o) BY <1>1 DEF HsInv
<1>5. /\ SecOf(s)' = SecOf(s) /\ SecOf(o)' = SecOf(o) /\ MatchOf(o)' = MatchOf(o)
      /\ BodyOf(Handshake!Other(o))' = BodyOf(Handshake!Other(o)) /\ Snap(0)' = Snap(0) /\ Snap(1)' = Snap(1)
  BY <1>1, SidesTwo, HsConstant
<1> HIDE DEF o
<1>6. SideSound(o)' BY <1>2, <1>3, <1>4, <1>5 DEF SideSound
<1>7. SideAt(ph, o)'
  <2>1. SideAt(ph, o) BY <1>1 DEF PhaseSound
  <2> QED BY <1>2, <1>3, <1>5, <2>1 DEF SideAt, Opened
<1>8. SideAt(ph, s)'
  <2>1. SideAt(ph, s) BY DEF PhaseSound
  <2> QED BY <1>2, <1>5, <2>1 DEF SideAt, Opened
<1>9. PhaseSound(ph)'
  <2>1. st # "auth" /\ st # "resp" BY DEF LateStages
  <2>2. \A t \in HsSides : stage'[t] \in {"auth", "resp"} => stage'[t] = stage[t] BY <1>1, <1>2, <2>1
  <2>3. \A t \in HsSides : SideAt(ph, t)' BY <1>1, <1>7, <1>8
  <2>4. Handshake!I \in HsSides /\ Handshake!R \in HsSides BY SidesTwo
  <2>5. /\ stage[Handshake!I] = "auth" => ph = 0
        /\ stage[Handshake!I] = "resp" => ph \in {1, 2}
        /\ stage[Handshake!R] = "auth" => ph \in {0, 1}
        /\ stage[Handshake!R] # "resp"
    BY DEF PhaseSound
  <2> QED BY <2>2, <2>3, <2>4, <2>5 DEF PhaseSound
<1> QED BY <1>1, <1>6, <1>9 DEF HsInv

\* It writes a frame.
LEMMA LateWrites ==
    ASSUME HsInv, NEW ph \in 0..3, PhaseSound(ph), NEW s \in HsSides, Opened(ph, s),
           UNCHANGED <<old, dials, offers, damaged, inn>>, out[s] \in {0, 1},
           NEW f \in SentBy(s)[1 + out[s]],
           wire' = [wire EXCEPT ![s] = Append(@, f)], out' = [out EXCEPT ![s] = @ + 1]
    PROVE  /\ \A t \in HsSides : WireAt(ph, t)'
           /\ out' \in [HsSides -> Nat] /\ wire' = [t \in HsSides |-> wire'[t]]
           /\ out'[s] = out[s] + 1 /\ \A t \in HsSides : t # s => out'[t] = out[t]
<1> DEFINE o == Handshake!Other(s)
<1>1. o \in HsSides /\ o # s /\ \A t \in HsSides : t = s \/ t = o BY SidesTwo
<1>2. out \in [HsSides -> Nat] /\ wire = [t \in HsSides |-> wire[t]] BY DEF HsInv, HsTypes
<1>3. /\ out' \in [HsSides -> Nat] /\ out'[s] = out[s] + 1
      /\ \A t \in HsSides : t # s => out'[t] = out[t]
  BY <1>2
<1>4. wire' = [t \in HsSides |-> wire'[t]] /\ wire'[s] = Append(wire[s], f)
      /\ \A t \in HsSides : t # s => wire'[t] = wire[t]
  BY <1>2
<1>5. \A t \in HsSides : SentBy(t)' = SentBy(t) BY HsConstant
<1>6. Begun(ph, s) BY DEF Begun, Opened
<1>7. WireAt(ph, s)'
  <2> DEFINE lo == IF Opened(ph, o) THEN 1 + inn[o] ELSE 0
  <2>1. Carries(wire[s], SentBy(s), lo, 1 + out[s]) BY <1>6 DEF PhaseSound, WireAt
  <2> HIDE DEF lo
  <2>2. 1 + out[s] \in 0..2 OBVIOUS
  <2>3. Carries(Append(wire[s], f), SentBy(s), lo, (1 + out[s]) + 1) BY <2>1, <2>2, CarriesAppend
  <2>4. (1 + out[s]) + 1 = 1 + out'[s] BY <1>3
  <2>5. Carries(wire'[s], SentBy(s)', lo, 1 + out'[s]) BY <1>4, <1>5, <2>3, <2>4
  <2> QED BY <1>6, <2>5 DEF WireAt, lo, Opened, Begun
<1>8. WireAt(ph, o)'
  <2>1. WireAt(ph, o) BY <1>1 DEF PhaseSound
  <2>2. wire'[o] = wire[o] /\ out'[o] = out[o] /\ SentBy(o)' = SentBy(o) BY <1>1, <1>3, <1>4, <1>5
  <2> HIDE DEF o
  <2> QED BY <2>1, <2>2 DEF WireAt, Opened, Begun
<1> QED BY <1>1, <1>3, <1>4, <1>7, <1>8

\* It reads one.
LEMMA LateReads ==
    ASSUME HsInv, NEW ph \in 0..3, PhaseSound(ph), NEW s \in HsSides, Opened(ph, s),
           UNCHANGED <<old, dials, offers, damaged, out>>,
           wire[Handshake!Other(s)] # <<>>,
           wire' = [wire EXCEPT ![Handshake!Other(s)] = Tail(@)], inn' = [inn EXCEPT ![s] = @ + 1]
    PROVE  /\ \A t \in HsSides : WireAt(ph, t)'
           /\ inn' \in [HsSides -> Nat] /\ wire' = [t \in HsSides |-> wire'[t]]
           /\ inn'[s] = inn[s] + 1 /\ \A t \in HsSides : t # s => inn'[t] = inn[t]
           /\ inn[s] \in {0, 1}
           /\ wire[Handshake!Other(s)][1] \in SentBy(Handshake!Other(s))[1 + inn[s]]
<1> DEFINE o == Handshake!Other(s)
<1>1. o \in HsSides /\ o # s /\ \A t \in HsSides : t = s \/ t = o BY SidesTwo
<1>a. Handshake!Other(o) = s BY SidesTwo
<1>2. inn \in [HsSides -> Nat] /\ wire = [t \in HsSides |-> wire[t]] BY DEF HsInv, HsTypes
<1>3. /\ inn' \in [HsSides -> Nat] /\ inn'[s] = inn[s] + 1
      /\ \A t \in HsSides : t # s => inn'[t] = inn[t]
  BY <1>2
<1>b. wire[o] # <<>> /\ wire' = [wire EXCEPT ![o] = Tail(@)] OBVIOUS
<1> HIDE DEF o
<1>4. wire' = [t \in HsSides |-> wire'[t]] /\ wire'[o] = Tail(wire[o])
      /\ \A t \in HsSides : t # o => wire'[t] = wire[t]
  BY <1>1, <1>2, <1>b
<1>5. \A t \in HsSides : SentBy(t)' = SentBy(t) BY HsConstant
<1>6. WireAt(ph, o)' /\ inn[s] \in {0, 1} /\ wire[o][1] \in SentBy(o)[1 + inn[s]]
  <2> DEFINE hi == IF Begun(ph, o) THEN 1 + out[o] ELSE 0
  <2>1. Carries(wire[o], SentBy(o), 1 + inn[s], hi) BY <1>1, <1>a DEF PhaseSound, WireAt
  <2> HIDE DEF hi
  <2>2. /\ wire[o][1] \in SentBy(o)[1 + inn[s]] /\ 1 + inn[s] < hi
        /\ Carries(Tail(wire[o]), SentBy(o), (1 + inn[s]) + 1, hi)
    BY <1>b, <2>1, CarriesTail
  <2>3. inn[s] \in Nat /\ hi \in 0..3 BY <1>2, <2>1 DEF Carries
  <2>4. inn[s] \in {0, 1} BY <2>2, <2>3
  <2>5. (1 + inn[s]) + 1 = 1 + inn'[s] BY <1>3, <2>3
  <2>6. Carries(wire'[o], SentBy(o)', 1 + inn'[s], hi) BY <1>1, <1>4, <1>5, <2>2, <2>5
  <2>7. WireAt(ph, o)' BY <1>a, <2>6 DEF WireAt, hi, Opened, Begun
  <2> QED BY <2>2, <2>4, <2>7
<1>7. WireAt(ph, s)'
  <2>1. WireAt(ph, s) BY DEF PhaseSound
  <2>2. wire'[s] = wire[s] /\ SentBy(s)' = SentBy(s) /\ inn'[o] = inn[o] /\ Handshake!Other(s) = o
    BY <1>1, <1>3, <1>4, <1>5 DEF o
  <2> QED BY <2>1, <2>2 DEF WireAt, Opened, Begun
<1> QED BY <1>1, <1>3, <1>4, <1>6, <1>7 DEF o

\* In a late stage a side has opened the other's packet.
LEMMA LateOpened ==
    ASSUME HsInv, NEW s \in HsSides, stage[s] \in LateStages
    PROVE  sec[s] = SecOf(s) /\ \E ph \in 0..3 : PhaseSound(ph) /\ Opened(ph, s)
<1>1. PICK ph \in 0..3 : PhaseSound(ph) BY DEF HsInv
<1>2. SideAt(ph, s) BY <1>1 DEF PhaseSound
<1>3. Opened(ph, s) BY <1>2 DEF SideAt, LateStages
<1> QED BY <1>1, <1>2, <1>3 DEF SideAt

\* The secrets of both sides, made of the same two packets.
LEMMA SecretsAgree ==
    ASSUME NEW s \in HsSides
    PROVE  LET o == Handshake!Other(s)
           IN  /\ SecOf(s).ingress = SecOf(o).egress /\ SecOf(s).key = SecOf(o).key
               /\ SecOf(s).remote = o
<1>1. CASE s = Handshake!I
  BY <1>1 DEF SecOf, Handshake!Secrets, Handshake!Other, Handshake!I, Handshake!R
<1>2. CASE s = Handshake!R
  BY <1>2 DEF SecOf, Handshake!Secrets, Handshake!Other, Handshake!I, Handshake!R
<1> QED BY <1>1, <1>2 DEF HsSides

\* A frame, as its writer makes it.
LEMMA FrameMade ==
    ASSUME HsInv, NEW s \in HsSides, NEW n \in {0, 1}, sec[s] = SecOf(s), out[s] = n, snappy[s] = Snap(n),
           NEW code, NEW body
    PROVE  /\ Handshake!Frame(s, code, body) = FrameOf(s, n, code, body, TRUE)
           /\ n = 0 /\ code = 0 /\ body = BodyOf(s) => Handshake!Frame(s, code, body) \in SentBy(s)[1 + n]
           /\ code = 1 /\ body = None => Handshake!Frame(s, code, body) \in SentBy(s)[1 + n]
           /\ n = 1 => \A m \in MatchOf(s) : code = m.offset + m.proto.length - 1 /\ body = m.proto =>
                           Handshake!Frame(s, code, body) \in SentBy(s)[1 + n]
<1>1. Handshake!Frame(s, code, body) = FrameOf(s, n, code, body, TRUE) BY DEF Handshake!Frame, FrameOf
<1>2. TRUE \in Intact BY DEF Intact
<1>3. n = 0 => SentBy(s)[1 + n] = FirstFrames(s) BY DEF SentBy
<1>4. n = 1 => SentBy(s)[1 + n] = NextFrames(s) BY DEF SentBy
<1>5. ASSUME n = 0, code = 0, body = BodyOf(s) PROVE FrameOf(s, n, code, body, TRUE) \in SentBy(s)[1 + n]
  <2>1. FrameOf(s, 0, 0, BodyOf(s), TRUE) \in FirstFrames(s) BY <1>2 DEF FirstFrames
  <2> QED BY <1>3, <1>5, <2>1
<1>6. ASSUME code = 1, body = None PROVE FrameOf(s, n, code, body, TRUE) \in SentBy(s)[1 + n]
  <2>1. FrameOf(s, 0, 1, None, TRUE) \in FirstFrames(s) BY <1>2 DEF FirstFrames
  <2>2. FrameOf(s, 1, 1, None, TRUE) \in NextFrames(s) BY <1>2 DEF NextFrames
  <2>3. CASE n = 0 BY <1>3, <1>6, <2>1, <2>3
  <2>4. CASE n = 1 BY <1>4, <1>6, <2>2, <2>4
  <2> QED BY <2>3, <2>4
<1>7. ASSUME n = 1, NEW m \in MatchOf(s), code = m.offset + m.proto.length - 1, body = m.proto
      PROVE  FrameOf(s, n, code, body, TRUE) \in SentBy(s)[1 + n]
  <2> DEFINE T(ok) == {FrameOf(s, 1, k.offset + k.proto.length - 1, k.proto, ok) : k \in MatchOf(s)}
  <2>0. FrameOf(s, 1, m.offset + m.proto.length - 1, m.proto, TRUE) \in T(TRUE) BY Zenon
  <2>1. FrameOf(s, 1, m.offset + m.proto.length - 1, m.proto, TRUE) \in NextFrames(s)
    <3>1. NextFrames(s) = {FrameOf(s, 1, 1, None, ok) : ok \in Intact} \cup UNION {T(ok) : ok \in Intact}
      BY DEF NextFrames
    <3> HIDE DEF T
    <3> QED BY <1>2, <2>0, <3>1
  <2> QED BY <1>4, <1>7, <2>1
<1> QED BY <1>1, <1>5, <1>6, <1>7

\* A frame, as its reader finds it: its MAC agrees, and it is refused only when
\* it was damaged.
LEMMA FrameFound ==
    ASSUME HsInv, NEW s \in HsSides, NEW n \in {0, 1}, sec[s] = SecOf(s), inn[s] = n, snappy[s] = Snap(n),
           NEW f \in SentBy(Handshake!Other(s))[1 + n]
    PROVE  /\ ~damaged => Handshake!Accepts(s, f)
           /\ f.code = 0 => n = 0 /\ f.body = BodyOf(Handshake!Other(s))
           /\ n = 0 => f.code \in {0, 1}
           /\ n = 1 => f.code = 1 \/ \E m \in MatchOf(Handshake!Other(s)) :
                                        f.code = m.offset + m.proto.length - 1 /\ f.body = m.proto
<1> DEFINE o == Handshake!Other(s)
<1>0. o \in HsSides BY SidesTwo
<1>1. SecOf(s).ingress = SecOf(o).egress /\ SecOf(s).key = SecOf(o).key BY SecretsAgree
<1> HIDE DEF o
<1> DEFINE Fits(code, body) ==
             \/ n = 0 /\ code = 0 /\ body = BodyOf(o)
             \/ code = 1
             \/ n = 1 /\ \E m \in MatchOf(o) : code = m.offset + m.proto.length - 1 /\ body = m.proto
<1>2. PICK ok \in Intact : \E code, body : f = FrameOf(o, n, code, body, ok) /\ Fits(code, body)
  <2>1. CASE n = 0
    <3>1. f \in FirstFrames(o) BY <2>1 DEF SentBy, o
    <3>2. PICK ok \in Intact : f = FrameOf(o, 0, 0, BodyOf(o), ok) \/ f = FrameOf(o, 0, 1, None, ok)
      BY <3>1 DEF FirstFrames
    <3>3. Fits(0, BodyOf(o)) /\ Fits(1, None) BY <2>1
    <3> HIDE DEF Fits
    <3> QED BY <2>1, <3>2, <3>3
  <2>2. CASE n = 1
    <3>1. f \in NextFrames(o) BY <2>2 DEF SentBy, o
    <3>2. PICK ok \in Intact : \/ f = FrameOf(o, 1, 1, None, ok)
                               \/ \E m \in MatchOf(o) :
                                     f = FrameOf(o, 1, m.offset + m.proto.length - 1, m.proto, ok)
      BY <3>1 DEF NextFrames
    <3>3. Fits(1, None) /\ \A m \in MatchOf(o) : Fits(m.offset + m.proto.length - 1, m.proto) BY <2>2
    <3> HIDE DEF Fits
    <3> QED BY <2>2, <3>2, <3>3
  <2> QED BY <2>1, <2>2
<1>x. PICK code, body : f = FrameOf(o, n, code, body, ok) /\ Fits(code, body) BY <1>2
<1>3. f.kind = "frame" /\ f.code = code /\ f.body = body /\ f.snappy = Snap(n)
      /\ f.key = SecOf(o).key /\ f.mac = <<SecOf(o).egress, n>> /\ f.intact = ok
  BY <1>x DEF FrameOf
<1>4. ~damaged => Handshake!Accepts(s, f)
  <2>1. ~damaged => ok = TRUE BY <1>2 DEF Intact
  <2> QED BY <1>1, <1>3, <2>1 DEF Handshake!Accepts
<1>5. \A m \in MatchOf(o) : m.offset + m.proto.length - 1 >= 16
  <2>1. offers[o] \in SUBSET Protos /\ offers[Handshake!Other(o)] \in SUBSET Protos
    BY <1>0, SidesTwo, ProtosSound DEF HsInv, HsTypes
  <2> DEFINE S == offers[Handshake!Other(o)] \cap offers[o]
  <2>2. Matched(MatchOf(o), S) BY <2>1, ProtocolsMatched DEF MatchOf
  <2>3. S \in SUBSET Protos BY <2>1
  <2> HIDE DEF S
  <2>4. \A m \in MatchOf(o) : m.offset \in Nat /\ m.offset >= 16 /\ m.proto \in Protos BY <2>2, <2>3 DEF Matched, Match
  <2> QED BY <2>4, ProtosSound
<1>6. f.code = 0 => n = 0 /\ f.body = BodyOf(o) BY <1>x, <1>3, <1>5
<1>7. n = 0 => f.code \in {0, 1} BY <1>x, <1>3
<1>8. n = 1 => f.code = 1 \/ \E m \in MatchOf(o) : f.code = m.offset + m.proto.length - 1 /\ f.body = m.proto
  BY <1>x, <1>3
<1> QED BY <1>4, <1>6, <1>7, <1>8 DEF o

\* The types, for the lemmas about handlers.
LEMMA HsTyped ==
    ASSUME HsInv
    PROVE  HsTypes /\ (~damaged => badFrames = 0) /\ \A s \in HsSides : SideSound(s)
BY DEF HsInv

\* Posthandshake: the protocol handshake is sent.
LEMMA PosthandshakeStep ==
    ASSUME HsInv, NEW s \in HsSides, Handshake!Posthandshake(s)
    PROVE  HsInv'
<1> DEFINE o == Handshake!Other(s)
<1>1. /\ stage[s] = "posthandshake" /\ stage' = [stage EXCEPT ![s] = "protohandshake"]
      /\ wire' = [wire EXCEPT ![s] = Append(@, Handshake!Frame(s, 0, BodyOf(s)))]
      /\ out' = [out EXCEPT ![s] = @ + 1]
      /\ UNCHANGED <<old, dials, offers, sec, inn, snappy, hs, running, damaged, badFrames>>
  BY DEF Handshake!Posthandshake, Handshake!WriteFrame, Handshake!Send, Handshake!Goto, Handshake!handshakeMsg, BodyOf
<1>2. stage[s] \in LateStages BY <1>1 DEF LateStages
<1>3. PICK ph \in 0..3 : PhaseSound(ph) /\ Opened(ph, s) BY <1>2, LateOpened
<1>4. sec[s] = SecOf(s) BY <1>2, LateOpened
<1>5. HsTypes /\ SideSound(s) /\ (~damaged => badFrames = 0) BY HsTyped
<1>6. out[s] = 0 /\ inn[s] = 0 /\ snappy[s] = Snap(0) BY <1>1, <1>5 DEF SideSound
<1>7. Handshake!Frame(s, 0, BodyOf(s)) \in SentBy(s)[1 + out[s]] BY <1>4, <1>6, FrameMade
<1>8. /\ \A t \in HsSides : WireAt(ph, t)'
      /\ out' \in [HsSides -> Nat] /\ wire' = [t \in HsSides |-> wire'[t]]
      /\ out'[s] = out[s] + 1 /\ \A t \in HsSides : t # s => out'[t] = out[t]
  BY <1>1, <1>3, <1>6, <1>7, LateWrites
<1>9. stage' \in [HsSides -> LateStages \cup {"auth", "resp", "closed"}] /\ stage'[s] = "protohandshake"
  BY <1>1, <1>5 DEF HsTypes, LateStages
<1>10. HsTypes' BY <1>1, <1>5, <1>8, <1>9 DEF HsTypes
<1>11. SideSound(s)'
  <2>1. Snap(0)' = Snap(0) BY <1>1 DEF Snap
  <2> QED BY <1>1, <1>6, <1>8, <1>9, <2>1 DEF SideSound
<1>12. o \in HsSides /\ o # s BY SidesTwo
<1>13. /\ out'[o] = out[o] /\ inn'[o] = inn[o] /\ snappy'[o] = snappy[o]
       /\ hs'[o] = hs[o] /\ running'[o] = running[o]
  BY <1>1, <1>8, <1>12
<1>14. "protohandshake" \in LateStages \cup {"closed"} BY DEF LateStages
<1> QED BY <1>1, <1>3, <1>5, <1>8, <1>10, <1>11, <1>13, <1>14, LateStep

\* rlpx.close: the reason is sent.
LEMMA RefuseStep ==
    ASSUME HsInv, NEW s \in HsSides, Handshake!Refuse(s)
    PROVE  HsInv'
<1> DEFINE o == Handshake!Other(s)
<1>1. /\ stage[s] \in {"posthandshake", "addpeer"} /\ stage' = [stage EXCEPT ![s] = "closed"]
      /\ wire' = [wire EXCEPT ![s] = Append(@, Handshake!Frame(s, 1, None))]
      /\ out' = [out EXCEPT ![s] = @ + 1]
      /\ UNCHANGED <<old, dials, offers, sec, inn, snappy, hs, running, damaged, badFrames>>
  BY DEF Handshake!Refuse, Handshake!WriteFrame, Handshake!Send, Handshake!Goto, Handshake!discMsg
<1>2. stage[s] \in LateStages BY <1>1 DEF LateStages
<1>3. PICK ph \in 0..3 : PhaseSound(ph) /\ Opened(ph, s) BY <1>2, LateOpened
<1>4. sec[s] = SecOf(s) BY <1>2, LateOpened
<1>5. HsTypes /\ SideSound(s) /\ (~damaged => badFrames = 0) BY HsTyped
<1>6. out[s] \in {0, 1} /\ snappy[s] = Snap(out[s]) BY <1>1, <1>5 DEF SideSound
<1>7. Handshake!Frame(s, 1, None) \in SentBy(s)[1 + out[s]] BY <1>4, <1>6, FrameMade
<1>8. /\ \A t \in HsSides : WireAt(ph, t)'
      /\ out' \in [HsSides -> Nat] /\ wire' = [t \in HsSides |-> wire'[t]]
      /\ out'[s] = out[s] + 1 /\ \A t \in HsSides : t # s => out'[t] = out[t]
  BY <1>1, <1>3, <1>6, <1>7, LateWrites
<1>9. stage' \in [HsSides -> LateStages \cup {"auth", "resp", "closed"}] /\ stage'[s] = "closed"
  BY <1>1, <1>5 DEF HsTypes
<1>10. HsTypes' BY <1>1, <1>5, <1>8, <1>9 DEF HsTypes
<1>11. SideSound(s)' BY <1>9 DEF SideSound
<1>12. o \in HsSides /\ o # s BY SidesTwo
<1>13. /\ out'[o] = out[o] /\ inn'[o] = inn[o] /\ snappy'[o] = snappy[o]
       /\ hs'[o] = hs[o] /\ running'[o] = running[o]
  BY <1>1, <1>8, <1>12
<1> QED BY <1>1, <1>3, <1>5, <1>8, <1>10, <1>11, <1>13, LateStep

\* A protocol's first message.
LEMMA SendFirstStep ==
    ASSUME HsInv, NEW s \in HsSides, NEW m \in running[s], Handshake!SendFirst(s, m)
    PROVE  HsInv'
<1> DEFINE o == Handshake!Other(s)
           code == m.offset + m.proto.length - 1
<1>1. /\ stage[s] = "up" /\ stage' = stage /\ out[s] = 1
      /\ wire' = [wire EXCEPT ![s] = Append(@, Handshake!Frame(s, code, m.proto))]
      /\ out' = [out EXCEPT ![s] = @ + 1]
      /\ UNCHANGED <<old, dials, offers, sec, inn, snappy, hs, running, damaged, badFrames>>
  BY DEF Handshake!SendFirst, Handshake!WriteFrame, Handshake!Send
<1>2. stage[s] \in LateStages BY <1>1 DEF LateStages
<1>3. PICK ph \in 0..3 : PhaseSound(ph) /\ Opened(ph, s) BY <1>2, LateOpened
<1>4. sec[s] = SecOf(s) BY <1>2, LateOpened
<1>5. HsTypes /\ SideSound(s) /\ (~damaged => badFrames = 0) BY HsTyped
<1>6. inn[s] \in {1, 2} /\ snappy[s] = Snap(1) /\ running[s] = MatchOf(s) BY <1>1, <1>5 DEF SideSound
<1>7. Handshake!Frame(s, code, m.proto) \in SentBy(s)[1 + out[s]]
  <2>1. m \in MatchOf(s) BY <1>6
  <2> HIDE DEF code
  <2>2. code = m.offset + m.proto.length - 1 BY DEF code
  <2> QED BY <1>1, <1>4, <1>6, <2>1, <2>2, FrameMade
<1> HIDE DEF code
<1>8. /\ \A t \in HsSides : WireAt(ph, t)'
      /\ out' \in [HsSides -> Nat] /\ wire' = [t \in HsSides |-> wire'[t]]
      /\ out'[s] = out[s] + 1 /\ \A t \in HsSides : t # s => out'[t] = out[t]
  BY <1>1, <1>3, <1>7, LateWrites
<1>9. stage' \in [HsSides -> LateStages \cup {"auth", "resp", "closed"}] /\ stage' = [stage EXCEPT ![s] = "up"]
  BY <1>1, <1>5 DEF HsTypes
<1>10. HsTypes' BY <1>1, <1>5, <1>8, <1>9 DEF HsTypes
<1>11. SideSound(s)'
  <2>1. Snap(1)' = Snap(1) /\ MatchOf(s)' = MatchOf(s) BY <1>1, HsConstant
  <2> QED BY <1>1, <1>6, <1>8, <2>1 DEF SideSound
<1>12. o \in HsSides /\ o # s BY SidesTwo
<1>13. /\ out'[o] = out[o] /\ inn'[o] = inn[o] /\ snappy'[o] = snappy[o]
       /\ hs'[o] = hs[o] /\ running'[o] = running[o]
  BY <1>1, <1>8, <1>12
<1>14. "up" \in LateStages \cup {"closed"} BY DEF LateStages
<1> QED BY <1>1, <1>3, <1>5, <1>8, <1>9, <1>10, <1>11, <1>13, <1>14, LateStep

\* Addpeer: the protocols to run are those in common.
LEMMA AddpeerStep ==
    ASSUME HsInv, NEW s \in HsSides, Handshake!Addpeer(s)
    PROVE  HsInv'
<1> DEFINE o == Handshake!Other(s)
<1>1. /\ stage[s] = "addpeer" /\ stage' = [stage EXCEPT ![s] = "up"]
      /\ running' = [running EXCEPT ![s] = Handshake!MatchProtocols(offers[s], hs[s].caps)]
      /\ UNCHANGED <<old, dials, offers, sec, out, inn, snappy, hs, wire, damaged, badFrames>>
  BY DEF Handshake!Addpeer, Handshake!Goto
<1>2. stage[s] \in LateStages BY <1>1 DEF LateStages
<1>3. PICK ph \in 0..3 : PhaseSound(ph) /\ Opened(ph, s) BY <1>2, LateOpened
<1>5. HsTypes /\ SideSound(s) /\ (~damaged => badFrames = 0) BY HsTyped
<1>6. out[s] = 1 /\ inn[s] = 1 /\ snappy[s] = Snap(1) /\ hs[s] = BodyOf(o) BY <1>1, <1>5 DEF SideSound
<1>7. Handshake!MatchProtocols(offers[s], hs[s].caps) = MatchOf(s) BY <1>6 DEF BodyOf, MatchOf
<1>8. \A t \in HsSides : WireAt(ph, t)'
  <2>1. \A t \in HsSides : WireAt(ph, t) BY <1>3 DEF PhaseSound
  <2>2. \A t \in HsSides : SentBy(t)' = SentBy(t) BY <1>1, HsConstant
  <2> QED BY <1>1, <2>1, <2>2 DEF WireAt, Opened, Begun
<1>9. stage' \in [HsSides -> LateStages \cup {"auth", "resp", "closed"}] /\ stage'[s] = "up"
  BY <1>1, <1>5 DEF HsTypes, LateStages
<1>a. running' = [t \in HsSides |-> running'[t]] /\ running'[s] = MatchOf(s)
      /\ \A t \in HsSides : t # s => running'[t] = running[t]
  BY <1>1, <1>5, <1>7 DEF HsTypes
<1>10. HsTypes' BY <1>1, <1>5, <1>9, <1>a DEF HsTypes
<1>11. SideSound(s)'
  <2>1. Snap(1)' = Snap(1) /\ MatchOf(s)' = MatchOf(s) BY <1>1, HsConstant
  <2> QED BY <1>1, <1>6, <1>9, <1>a, <2>1 DEF SideSound
<1>12. o \in HsSides /\ o # s BY SidesTwo
<1>13. /\ out'[o] = out[o] /\ inn'[o] = inn[o] /\ snappy'[o] = snappy[o]
       /\ hs'[o] = hs[o] /\ running'[o] = running[o]
  BY <1>1, <1>a, <1>12
<1>14. "up" \in LateStages \cup {"closed"} BY DEF LateStages
<1> QED BY <1>1, <1>3, <1>5, <1>8, <1>10, <1>11, <1>13, <1>14, LateStep

\* Both sides compress, or neither.
LEMMA SnappyAgreed ==
    ASSUME old \in BOOLEAN, NEW s \in HsSides, NEW o, o = Handshake!Other(s)
    PROVE  (Handshake!Version(s) >= 5 /\ BodyOf(o).version >= 5) <=> Snap(1)
<1>1. BodyOf(o).version = Handshake!Version(o) BY DEF BodyOf
<1>2. CASE s = Handshake!I
  BY <1>1, <1>2 DEF Snap, Handshake!Version, Handshake!Other, Handshake!I, Handshake!R
<1>3. CASE s = Handshake!R
  BY <1>1, <1>3 DEF Snap, Handshake!Version, Handshake!Other, Handshake!I, Handshake!R
<1> QED BY <1>2, <1>3 DEF HsSides

\* readProtocolHandshake.
LEMMA ReadProtoHandshakeStep ==
    ASSUME HsInv, NEW s \in HsSides, Handshake!ReadProtoHandshake(s)
    PROVE  HsInv'
<1> DEFINE o == Handshake!Other(s)
           f == wire[o][1]
           ok == Handshake!Accepts(s, f)
           shakes == ok /\ f.code = 0 /\ f.body.id = sec[s].remote
<1>1. /\ stage[s] = "protohandshake" /\ wire[o] # <<>>
      /\ wire' = [wire EXCEPT ![o] = Tail(@)] /\ inn' = [inn EXCEPT ![s] = @ + 1]
      /\ badFrames' = IF ok THEN badFrames ELSE badFrames + 1
      /\ UNCHANGED <<old, dials, offers, sec, out, running, damaged>>
  BY DEF Handshake!ReadProtoHandshake
<1>2. /\ shakes => /\ stage' = [stage EXCEPT ![s] = "addpeer"] /\ hs' = [hs EXCEPT ![s] = f.body]
                   /\ snappy' = [snappy EXCEPT ![s] = Handshake!Version(s) >= 5 /\ f.body.version >= 5]
      /\ ~shakes => stage' = [stage EXCEPT ![s] = "closed"] /\ UNCHANGED <<hs, snappy>>
  BY DEF Handshake!ReadProtoHandshake, Handshake!Goto, Handshake!handshakeMsg, Handshake!snappyProtocolVersion
<1> HIDE DEF o
<1>3. o \in HsSides /\ o # s /\ o = Handshake!Other(s) BY SidesTwo DEF o
<1>4. stage[s] \in LateStages BY <1>1 DEF LateStages
<1>5. PICK ph \in 0..3 : PhaseSound(ph) /\ Opened(ph, s) BY <1>4, LateOpened
<1>6. sec[s] = SecOf(s) BY <1>4, LateOpened
<1>7. HsTypes /\ SideSound(s) /\ (~damaged => badFrames = 0) BY HsTyped
<1>8. out[s] = 1 /\ inn[s] = 0 /\ snappy[s] = Snap(0) BY <1>1, <1>7 DEF SideSound
<1>9. /\ \A t \in HsSides : WireAt(ph, t)'
      /\ inn' \in [HsSides -> Nat] /\ wire' = [t \in HsSides |-> wire'[t]]
      /\ inn'[s] = inn[s] + 1 /\ \A t \in HsSides : t # s => inn'[t] = inn[t]
      /\ f \in SentBy(o)[1 + inn[s]]
  BY <1>1, <1>3, <1>5, LateReads
<1>10. (~damaged => ok) /\ (f.code = 0 => f.body = BodyOf(o))
  <2> HIDE DEF f
  <2>1. f \in SentBy(o)[1 + 0] BY <1>8, <1>9
  <2> QED BY <1>3, <1>6, <1>8, <2>1, FrameFound
<1> HIDE DEF f, ok
<1>11. badFrames' \in Nat /\ (~damaged => badFrames' = 0) BY <1>1, <1>7, <1>10 DEF HsTypes
<1>12. CASE shakes
  <2>1. f.body = BodyOf(o) BY <1>10, <1>12
  <2>2. /\ stage' = [stage EXCEPT ![s] = "addpeer"] /\ hs' = [hs EXCEPT ![s] = BodyOf(o)]
        /\ snappy' = [snappy EXCEPT ![s] = Handshake!Version(s) >= 5 /\ BodyOf(o).version >= 5]
    BY <1>2, <1>12, <2>1
  <2> HIDE DEF shakes
  <2>3. stage' \in [HsSides -> LateStages \cup {"auth", "resp", "closed"}] /\ stage'[s] = "addpeer"
    BY <1>7, <2>2 DEF HsTypes, LateStages
  <2>4. hs' = [t \in HsSides |-> hs'[t]] /\ hs'[s] = BodyOf(o) /\ \A t \in HsSides : t # s => hs'[t] = hs[t]
    BY <1>7, <2>2 DEF HsTypes
  <2>5. snappy' \in [HsSides -> BOOLEAN] /\ (snappy'[s] <=> Handshake!Version(s) >= 5 /\ BodyOf(o).version >= 5)
        /\ \A t \in HsSides : t # s => snappy'[t] = snappy[t]
    <3> DEFINE b == Handshake!Version(s) >= 5 /\ BodyOf(o).version >= 5
    <3>1. b \in BOOLEAN OBVIOUS
    <3>2. snappy \in [HsSides -> BOOLEAN] /\ snappy' = [snappy EXCEPT ![s] = b] BY <1>7, <2>2 DEF HsTypes
    <3> HIDE DEF b
    <3>3. snappy' \in [HsSides -> BOOLEAN] /\ snappy'[s] = b /\ \A t \in HsSides : t # s => snappy'[t] = snappy[t]
      BY <3>1, <3>2
    <3> QED BY <3>3 DEF b
  <2>6. snappy'[s] = Snap(1)
    <3>1. snappy'[s] <=> Snap(1) BY <1>3, <1>7, <2>5, SnappyAgreed DEF HsTypes
    <3>2. Snap(1) \in BOOLEAN BY DEF Snap
    <3>3. snappy'[s] \in BOOLEAN BY <2>5
    <3> QED BY <3>1, <3>2, <3>3
  <2>7. HsTypes' BY <1>1, <1>7, <1>9, <1>11, <2>3, <2>4, <2>5 DEF HsTypes
  <2>8. SideSound(s)'
    <3>1. Snap(1)' = Snap(1) /\ BodyOf(o)' = BodyOf(o) BY <1>1, <1>3, HsConstant
    <3> QED BY <1>1, <1>3, <1>8, <1>9, <2>3, <2>4, <2>6, <3>1 DEF SideSound
  <2>9. /\ out'[o] = out[o] /\ inn'[o] = inn[o] /\ snappy'[o] = snappy[o]
        /\ hs'[o] = hs[o] /\ running'[o] = running[o]
    BY <1>1, <1>3, <1>9, <2>4, <2>5
  <2>10. "addpeer" \in LateStages \cup {"closed"} BY DEF LateStages
  <2> QED BY <1>1, <1>3, <1>5, <1>9, <1>11, <2>2, <2>7, <2>8, <2>9, <2>10, LateStep
<1>13. CASE ~shakes
  <2>1. stage' = [stage EXCEPT ![s] = "closed"] /\ UNCHANGED <<hs, snappy>> BY <1>2, <1>13
  <2>2. stage' \in [HsSides -> LateStages \cup {"auth", "resp", "closed"}] /\ stage'[s] = "closed"
    BY <1>7, <2>1 DEF HsTypes
  <2> HIDE DEF shakes
  <2>3. HsTypes' BY <1>1, <1>7, <1>9, <1>11, <2>1, <2>2 DEF HsTypes
  <2>4. SideSound(s)' BY <2>2 DEF SideSound
  <2>5. /\ out'[o] = out[o] /\ inn'[o] = inn[o] /\ snappy'[o] = snappy[o]
        /\ hs'[o] = hs[o] /\ running'[o] = running[o]
    BY <1>1, <1>3, <1>9, <2>1
  <2> QED BY <1>1, <1>3, <1>5, <1>9, <1>11, <2>1, <2>3, <2>4, <2>5, LateStep
<1> QED BY <1>12, <1>13

\* What both sides run is the same, and a code is in the range of one protocol.
LEMMA SameProtocols ==
    ASSUME HsInv, NEW s \in HsSides
    PROVE  /\ MatchOf(s) = MatchOf(Handshake!Other(s))
           /\ Matched(MatchOf(s), offers[Handshake!I] \cap offers[Handshake!R])
           /\ \A m \in MatchOf(s) : /\ m.offset \in Nat /\ m.proto.length \in Nat
                                    /\ m.proto.length > 0 /\ m.offset >= 16
<1> DEFINE o == Handshake!Other(s)
<1>1. o \in HsSides /\ Handshake!Other(o) = s BY SidesTwo
<1>2. offers[s] \in SUBSET Protos /\ offers[o] \in SUBSET Protos BY <1>1, ProtosSound DEF HsInv, HsTypes
<1>3. MatchOf(s) = Handshake!MatchProtocols(offers[s], offers[o]) BY DEF MatchOf
<1>4. MatchOf(o) = Handshake!MatchProtocols(offers[o], offers[s]) BY <1>1 DEF MatchOf
<1>5. offers[s] \cap offers[o] = offers[o] \cap offers[s] OBVIOUS
<1>6. Handshake!MatchProtocols(offers[s], offers[o]) = Handshake!MatchProtocols(offers[o], offers[s])
  BY <1>5 DEF Handshake!MatchProtocols
<1>7. offers[o] \cap offers[s] = offers[Handshake!I] \cap offers[Handshake!R]
  BY DEF HsSides, Handshake!Other, Handshake!I, Handshake!R
<1>8. Matched(MatchOf(s), offers[o] \cap offers[s]) BY <1>2, <1>3, ProtocolsMatched
<1>9. \A m \in MatchOf(s) : m.offset \in Nat /\ m.offset >= 16 /\ m.proto \in Protos
  BY <1>2, <1>8 DEF Matched, Match
<1> QED BY <1>3, <1>4, <1>6, <1>7, <1>8, <1>9, ProtosSound

\* The read loop.
LEMMA ReadFirstStep ==
    ASSUME HsInv, NEW s \in HsSides, Handshake!ReadFirst(s)
    PROVE  HsInv'
<1> DEFINE o == Handshake!Other(s)
           f == wire[o][1]
           found == {m \in running[s] : f.code \in m.offset .. m.offset + m.proto.length - 1}
           good == Handshake!Accepts(s, f) /\ (f.code = 1 \/ \E m \in found : found = {m} /\ m.proto = f.body)
<1>1. /\ stage[s] = "up" /\ wire[o] # <<>>
      /\ wire' = [wire EXCEPT ![o] = Tail(@)] /\ inn' = [inn EXCEPT ![s] = @ + 1]
      /\ badFrames' = IF good THEN badFrames ELSE badFrames + 1
      /\ stage' = stage \/ stage' = [stage EXCEPT ![s] = "closed"]
      /\ UNCHANGED <<old, dials, offers, sec, out, snappy, hs, running, damaged>>
  BY DEF Handshake!ReadFirst, Handshake!Goto, Handshake!discMsg
<1> HIDE DEF o
<1>3. o \in HsSides /\ o # s /\ o = Handshake!Other(s) BY SidesTwo DEF o
<1>4. stage[s] \in LateStages BY <1>1 DEF LateStages
<1>5. PICK ph \in 0..3 : PhaseSound(ph) /\ Opened(ph, s) BY <1>4, LateOpened
<1>6. sec[s] = SecOf(s) BY <1>4, LateOpened
<1>7. HsTypes /\ SideSound(s) /\ (~damaged => badFrames = 0) BY HsTyped
<1>8. out[s] \in {1, 2} /\ inn[s] \in {1, 2} /\ snappy[s] = Snap(1) /\ running[s] = MatchOf(s)
  BY <1>1, <1>7 DEF SideSound
<1>9. /\ \A t \in HsSides : WireAt(ph, t)'
      /\ inn' \in [HsSides -> Nat] /\ wire' = [t \in HsSides |-> wire'[t]]
      /\ inn'[s] = inn[s] + 1 /\ \A t \in HsSides : t # s => inn'[t] = inn[t]
      /\ inn[s] \in {0, 1} /\ f \in SentBy(o)[1 + inn[s]]
  BY <1>1, <1>3, <1>5, LateReads
<1>10. inn[s] = 1 BY <1>8, <1>9
<1>11. /\ ~damaged => Handshake!Accepts(s, f)
       /\ f.code = 1 \/ \E m \in MatchOf(o) : f.code = m.offset + m.proto.length - 1 /\ f.body = m.proto
  <2> HIDE DEF f
  <2>1. f \in SentBy(o)[1 + 1] BY <1>9, <1>10
  <2> QED BY <1>3, <1>6, <1>8, <1>10, <2>1, FrameFound
<1> HIDE DEF f
<1>12. ~damaged => good
  <2>1. CASE f.code = 1 BY <1>11, <2>1
  <2>2. CASE f.code # 1
    <3>1. MatchOf(o) = MatchOf(s) /\ Matched(MatchOf(s), offers[Handshake!I] \cap offers[Handshake!R])
          /\ \A m \in MatchOf(s) : m.offset \in Nat /\ m.proto.length \in Nat /\ m.proto.length > 0
      BY <1>3, SameProtocols
    <3>2. PICK m \in MatchOf(s) : f.code = m.offset + m.proto.length - 1 /\ f.body = m.proto
      BY <1>11, <2>2, <3>1
    <3>3. m \in found BY <1>8, <3>1, <3>2
    <3>4. \A k \in found : k = m
      <4> SUFFICES ASSUME NEW k \in found, k # m PROVE FALSE OBVIOUS
      <4>1. k \in MatchOf(s) /\ f.code \in k.offset .. k.offset + k.proto.length - 1 BY <1>8
      <4>2. Apart(k, m) BY <3>1, <3>2, <4>1 DEF Matched
      <4> QED BY <3>1, <3>2, <4>1, <4>2 DEF Apart
    <3>5. found = {m} BY <3>3, <3>4
    <3> HIDE DEF found
    <3> QED BY <1>11, <3>2, <3>3, <3>5
  <2> QED BY <2>1, <2>2
<1> HIDE DEF good, found
<1>13. badFrames' \in Nat /\ (~damaged => badFrames' = 0) BY <1>1, <1>7, <1>12 DEF HsTypes
<1>14. PICK st \in {"up", "closed"} : stage' = [stage EXCEPT ![s] = st]
  <2>1. stage = [stage EXCEPT ![s] = "up"] BY <1>1, <1>7 DEF HsTypes
  <2> QED BY <1>1, <2>1
<1>15. stage' \in [HsSides -> LateStages \cup {"auth", "resp", "closed"}] /\ stage'[s] = st
  BY <1>7, <1>14 DEF HsTypes, LateStages
<1>16. HsTypes' BY <1>1, <1>7, <1>9, <1>13, <1>15 DEF HsTypes
<1>17. SideSound(s)'
  <2>1. Snap(1)' = Snap(1) /\ MatchOf(s)' = MatchOf(s) BY <1>1, HsConstant
  <2> QED BY <1>1, <1>8, <1>9, <1>10, <1>14, <1>15, <2>1 DEF SideSound
<1>18. /\ out'[o] = out[o] /\ inn'[o] = inn[o] /\ snappy'[o] = snappy[o]
       /\ hs'[o] = hs[o] /\ running'[o] = running[o]
  BY <1>1, <1>3, <1>9
<1>19. st \in LateStages \cup {"closed"} BY DEF LateStages
<1> QED BY <1>1, <1>3, <1>5, <1>9, <1>13, <1>14, <1>16, <1>17, <1>18, <1>19, LateStep

\* A side gives up.
LEMMA CloseStep ==
    ASSUME HsInv, NEW s \in HsSides, stage' = [stage EXCEPT ![s] = "closed"],
           UNCHANGED <<old, dials, offers, sec, out, inn, snappy, hs, running, wire, damaged, badFrames>>
    PROVE  HsInv'
<1>1. PICK ph \in 0..3 : PhaseSound(ph) BY DEF HsInv
<1>2. HsTypes /\ (~damaged => badFrames = 0) /\ \A t \in HsSides : SideSound(t) BY HsTyped
<1>3. /\ stage' \in [HsSides -> LateStages \cup {"auth", "resp", "closed"}] /\ stage'[s] = "closed"
      /\ \A t \in HsSides : t # s => stage'[t] = stage[t]
  BY <1>2 DEF HsTypes
<1>4. \A t \in HsSides : /\ SecOf(t)' = SecOf(t) /\ MatchOf(t)' = MatchOf(t) /\ BodyOf(t)' = BodyOf(t)
                         /\ Snap(0)' = Snap(0) /\ Snap(1)' = Snap(1) /\ SentBy(t)' = SentBy(t)
  BY HsConstant
<1>5. HsTypes' BY <1>2, <1>3 DEF HsTypes
<1>6. ASSUME NEW t \in HsSides PROVE SideSound(t)' /\ SideAt(ph, t)' /\ WireAt(ph, t)'
  <2>1. SideSound(t) /\ SideAt(ph, t) /\ WireAt(ph, t) BY <1>1, <1>2 DEF PhaseSound
  <2>2. WireAt(ph, t)' BY <1>4, <2>1 DEF WireAt, Opened, Begun
  <2>3. SideSound(t)'
    <3>1. CASE t = s BY <1>3, <3>1 DEF SideSound
    <3>2. CASE t # s
      <4>1. BodyOf(Handshake!Other(t))' = BodyOf(Handshake!Other(t)) BY <1>4, SidesTwo
      <4>2. stage'[t] = stage[t] BY <1>3, <3>2
      <4> QED BY <1>4, <2>1, <4>1, <4>2 DEF SideSound
    <3> QED BY <3>1, <3>2
  <2>4. SideAt(ph, t)'
    <3>1. stage'[t] = stage[t] \/ stage'[t] = "closed" BY <1>3
    <3> QED BY <1>4, <2>1, <3>1 DEF SideAt, Opened
  <2> QED BY <2>2, <2>3, <2>4
<1>7. PhaseSound(ph)'
  <2>1. \A t \in HsSides : stage'[t] # "closed" => stage'[t] = stage[t] BY <1>3
  <2>2. Handshake!I \in HsSides /\ Handshake!R \in HsSides BY SidesTwo
  <2>3. /\ stage[Handshake!I] = "auth" => ph = 0
        /\ stage[Handshake!I] = "resp" => ph \in {1, 2}
        /\ stage[Handshake!R] = "auth" => ph \in {0, 1}
        /\ stage[Handshake!R] # "resp"
    BY <1>1 DEF PhaseSound
  <2> QED BY <1>6, <2>1, <2>2, <2>3 DEF PhaseSound
<1> QED BY <1>2, <1>5, <1>6, <1>7 DEF HsInv

\* What damage does to a packet and to a frame.
LEMMA PacketDamaged ==
    ASSUME NEW to, NEW format, NEW body, NEW ok, NEW no, NEW p,
           p = [kind |-> "packet", to |-> to, format |-> format, body |-> body, intact |-> ok]
    PROVE  [p EXCEPT !.intact = no]
              = [kind |-> "packet", to |-> to, format |-> format, body |-> body, intact |-> no]
OBVIOUS

\* The same for a frame.
LEMMA FrameDamaged ==
    ASSUME NEW code, NEW body, NEW sn, NEW key, NEW mac, NEW ok, NEW no, NEW p,
           p = [kind |-> "frame", code |-> code, body |-> body, snappy |-> sn, key |-> key, mac |-> mac, intact |-> ok]
    PROVE  [p EXCEPT !.intact = no]
              = [kind |-> "frame", code |-> code, body |-> body, snappy |-> sn, key |-> key, mac |-> mac, intact |-> no]
OBVIOUS

\* The packets.
LEMMA PacketsAre ==
    ASSUME NEW s \in HsSides
    PROVE  /\ PacketOf(s) = Sealed(s, TRUE) /\ PacketOf(s) \in Packets(s)
           /\ \A p \in Packets(s) : p.kind = "packet" /\ p.to = PacketOf(s).to /\ (p.intact => p = PacketOf(s))
           /\ SentBy(s)[0] = Packets(s)
<1>1. PICK to, format, body : PacketOf(s) = [kind |-> "packet", to |-> to, format |-> format, body |-> body, intact |-> TRUE]
  BY DEF PacketOf, RespMsg, Handshake!AuthMsg, Handshake!Packet
<1>2. PacketOf(s) = Sealed(s, TRUE) BY <1>1 DEF Sealed
<1>3. TRUE \in Intact /\ Intact \subseteq BOOLEAN BY DEF Intact
<1>4. PacketOf(s) \in Packets(s) BY <1>2, <1>3 DEF Packets
<1>5. ASSUME NEW p \in Packets(s) PROVE p.kind = "packet" /\ p.to = PacketOf(s).to /\ (p.intact => p = PacketOf(s))
  <2>1. PICK ok \in Intact : p = Sealed(s, ok) BY DEF Packets
  <2>2. p.kind = "packet" /\ p.intact = ok /\ p.to = PacketOf(s).to BY <2>1 DEF Sealed
  <2>3. p.intact => ok = TRUE BY <1>3, <2>2
  <2> QED BY <1>2, <2>1, <2>2, <2>3
<1>6. SentBy(s)[0] = Packets(s) BY DEF SentBy
<1> QED BY <1>2, <1>4, <1>5, <1>6

\* initiatorEncHandshake sends auth.
LEMMA SendAuthStep ==
    ASSUME HsInv, Handshake!SendAuth
    PROVE  HsInv'
<1> DEFINE a == Handshake!I
           b == Handshake!R
<1>1. /\ stage[a] = "auth" /\ stage' = [stage EXCEPT ![a] = "resp"]
      /\ wire' = [wire EXCEPT ![a] = Append(@, PacketOf(a))]
      /\ UNCHANGED <<old, dials, offers, sec, out, inn, snappy, hs, running, damaged, badFrames>>
  BY DEF Handshake!SendAuth, Handshake!Goto, Handshake!Send, Handshake!frameVars, PacketOf
<1>2. a \in HsSides /\ b \in HsSides /\ a # b /\ Handshake!Other(a) = b /\ Handshake!Other(b) = a
      /\ \A t \in HsSides : t = a \/ t = b
  BY SidesTwo DEF Handshake!Other, HsSides
<1>3. PICK ph \in 0..3 : PhaseSound(ph) BY DEF HsInv
<1>4. ph = 0 BY <1>1, <1>3 DEF PhaseSound
<1>5. HsTypes /\ (~damaged => badFrames = 0) /\ SideSound(b) BY <1>2, HsTyped
<1>6. /\ ~Opened(0, a) /\ ~Opened(0, b) /\ ~Opened(1, a) /\ ~Opened(1, b)
      /\ ~Begun(0, a) /\ ~Begun(0, b) /\ Begun(1, a) /\ ~Begun(1, b)
  BY <1>2 DEF Opened, Begun
<1> HIDE DEF a, b
<1>7. SideAt(0, a) /\ SideAt(0, b) /\ WireAt(0, a) /\ WireAt(0, b) BY <1>2, <1>3, <1>4 DEF PhaseSound
<1>8. /\ stage' \in [HsSides -> LateStages \cup {"auth", "resp", "closed"}] /\ stage'[a] = "resp"
      /\ stage'[b] = stage[b]
  BY <1>1, <1>2, <1>5 DEF HsTypes
<1>9. wire' = [t \in HsSides |-> wire'[t]] /\ wire'[a] = Append(wire[a], PacketOf(a)) /\ wire'[b] = wire[b]
  BY <1>1, <1>2, <1>5 DEF HsTypes
<1>10. \A t \in HsSides : /\ MatchOf(t)' = MatchOf(t) /\ BodyOf(t)' = BodyOf(t) /\ SecOf(t)' = SecOf(t)
                          /\ Snap(0)' = Snap(0) /\ Snap(1)' = Snap(1) /\ SentBy(t)' = SentBy(t)
  BY <1>1, HsConstant
<1>11. HsTypes' BY <1>1, <1>5, <1>8, <1>9 DEF HsTypes
<1>12. SideSound(a)' BY <1>8 DEF SideSound
<1>13. SideSound(b)' BY <1>1, <1>2, <1>5, <1>8, <1>10 DEF SideSound
<1>14. SideAt(1, a)' BY <1>1, <1>2, <1>6, <1>7, <1>8, <1>10 DEF SideAt, Opened
<1>15. SideAt(1, b)' BY <1>1, <1>2, <1>6, <1>7, <1>8, <1>10 DEF SideAt, Opened
<1>16. WireAt(1, a)'
  <2>1. Carries(wire[a], SentBy(a), 0, 0) /\ out[a] = 0 BY <1>2, <1>6, <1>7 DEF WireAt, SideAt
  <2>2. PacketOf(a) \in SentBy(a)[0] BY <1>2, PacketsAre
  <2>3. Carries(wire'[a], SentBy(a), 0, 0 + 1) BY <1>9, <2>1, <2>2, CarriesAppend
  <2>4. 1 + out'[a] = 0 + 1 BY <1>1, <2>1
  <2>5. Carries(wire'[a], SentBy(a)', 0, 1 + out'[a]) BY <1>2, <1>10, <2>3, <2>4
  <2> QED BY <1>2, <1>6, <2>5 DEF WireAt, Opened, Begun
<1>17. WireAt(1, b)'
  <2>1. Carries(wire[b], SentBy(b), 0, 0) BY <1>2, <1>6, <1>7 DEF WireAt
  <2>2. Carries(wire'[b], SentBy(b)', 0, 0) BY <1>2, <1>9, <1>10, <2>1
  <2> QED BY <1>2, <1>6, <2>2 DEF WireAt, Opened, Begun
<1>18. PhaseSound(1)'
  <2>1. \A t \in HsSides : SideAt(1, t)' /\ WireAt(1, t)' BY <1>2, <1>14, <1>15, <1>16, <1>17
  <2>2. stage[b] # "resp" BY <1>3 DEF PhaseSound, b
  <2> QED BY <1>8, <2>1, <2>2 DEF PhaseSound, a, b
<1>19. \A t \in HsSides : SideSound(t)' BY <1>2, <1>12, <1>13
<1> QED BY <1>1, <1>5, <1>11, <1>18, <1>19 DEF HsInv

\* What may be on a wire when something was damaged.
LEMMA DamagedSent ==
    ASSUME NEW s \in HsSides, UNCHANGED <<old, dials, offers>>, damaged' = TRUE
    PROVE  \A n \in 0..2 : /\ SentBy(s)[n] \subseteq SentBy(s)'[n]
                           /\ \A p \in SentBy(s)[n] : [p EXCEPT !.intact = FALSE] \in SentBy(s)'[n]
<1> DEFINE D == {TRUE, FALSE}
           P1 == {Sealed(s, ok) : ok \in D}
           F1 == {FrameOf(s, 0, 0, BodyOf(s), ok) : ok \in D} \cup {FrameOf(s, 0, 1, None, ok) : ok \in D}
           N1 == {FrameOf(s, 1, 1, None, ok) : ok \in D}
                 \cup UNION {{FrameOf(s, 1, m.offset + m.proto.length - 1, m.proto, ok) : m \in MatchOf(s)} : ok \in D}
<1>1. Intact' = D /\ Intact \subseteq D BY DEF Intact
<1>2. /\ SecOf(s)' = SecOf(s) /\ BodyOf(s)' = BodyOf(s) /\ MatchOf(s)' = MatchOf(s) /\ PacketOf(s)' = PacketOf(s)
      /\ \A n : Snap(n)' = Snap(n)
  BY HsConstant
<1>3. FALSE \in D OBVIOUS
<1> HIDE DEF D
<1>4. Packets(s)' = P1 BY <1>1, <1>2 DEF Packets, Sealed
<1>5. FirstFrames(s)' = F1 BY <1>1, <1>2 DEF FirstFrames, FrameOf, Snap
<1>6. NextFrames(s)' = N1 BY <1>1, <1>2 DEF NextFrames, FrameOf, Snap
<1>7. SentBy(s)' = [n \in 0..2 |-> IF n = 0 THEN P1 ELSE IF n = 1 THEN F1 ELSE N1] BY <1>4, <1>5, <1>6 DEF SentBy
<1>8. ASSUME NEW p \in Packets(s) PROVE p \in P1 /\ [p EXCEPT !.intact = FALSE] \in P1
  <2>1. PICK ok \in Intact : p = Sealed(s, ok) BY DEF Packets
  <2>2. [p EXCEPT !.intact = FALSE] = Sealed(s, FALSE)
    <3>1. PICK no : no = FALSE OBVIOUS
    <3>2. [p EXCEPT !.intact = no] = Sealed(s, no)
      <4> DEFINE to == PacketOf(s).to
                 format == PacketOf(s).format
                 body == PacketOf(s).body
      <4>1. p = [kind |-> "packet", to |-> to, format |-> format, body |-> body, intact |-> ok] BY <2>1 DEF Sealed
      <4>2. Sealed(s, no) = [kind |-> "packet", to |-> to, format |-> format, body |-> body, intact |-> no] BY DEF Sealed
      <4> HIDE DEF to, format, body
      <4> QED BY <4>1, <4>2, PacketDamaged
    <3> QED BY <3>1, <3>2, Zenon
  <2>3. Sealed(s, FALSE) \in P1 /\ Sealed(s, ok) \in P1 BY <1>1, <1>3
  <2> QED BY <2>1, <2>2, <2>3
<1>9. ASSUME NEW n, NEW code, NEW body, NEW ok
      PROVE  [FrameOf(s, n, code, body, ok) EXCEPT !.intact = FALSE] = FrameOf(s, n, code, body, FALSE)
  <2>1. PICK no : no = FALSE OBVIOUS
  <2>2. [FrameOf(s, n, code, body, ok) EXCEPT !.intact = no] = FrameOf(s, n, code, body, no)
    <3> DEFINE sn == Snap(n)
               key == SecOf(s).key
               mac == <<SecOf(s).egress, n>>
               F(b) == [kind |-> "frame", code |-> code, body |-> body, snappy |-> sn, key |-> key, mac |-> mac, intact |-> b]
    <3>1. \A b : FrameOf(s, n, code, body, b) = F(b) BY DEF FrameOf
    <3> HIDE DEF sn, key, mac
    <3>2. [F(ok) EXCEPT !.intact = no] = F(no)
      <4>1. PICK p : p = F(ok) OBVIOUS
      <4>2. [p EXCEPT !.intact = no] = F(no) BY <4>1, FrameDamaged
      <4> HIDE DEF F
      <4> QED BY <4>1, <4>2
    <3> HIDE DEF F
    <3> QED BY <3>1, <3>2
  <2> QED BY <2>1, <2>2, Zenon
<1>10. ASSUME NEW p \in FirstFrames(s) PROVE p \in F1 /\ [p EXCEPT !.intact = FALSE] \in F1
  <2>1. PICK ok \in Intact : p = FrameOf(s, 0, 0, BodyOf(s), ok) \/ p = FrameOf(s, 0, 1, None, ok) BY DEF FirstFrames
  <2>2. \A d \in D : FrameOf(s, 0, 0, BodyOf(s), d) \in F1 /\ FrameOf(s, 0, 1, None, d) \in F1 OBVIOUS
  <2> HIDE DEF F1
  <2>3. CASE p = FrameOf(s, 0, 0, BodyOf(s), ok)
    <3>1. [p EXCEPT !.intact = FALSE] = FrameOf(s, 0, 0, BodyOf(s), FALSE) BY <1>9, <2>3
    <3> QED BY <1>1, <1>3, <2>2, <2>3, <3>1
  <2>4. CASE p = FrameOf(s, 0, 1, None, ok)
    <3>1. [p EXCEPT !.intact = FALSE] = FrameOf(s, 0, 1, None, FALSE) BY <1>9, <2>4
    <3> QED BY <1>1, <1>3, <2>2, <2>4, <3>1
  <2> QED BY <2>1, <2>3, <2>4
<1>11. ASSUME NEW p \in NextFrames(s) PROVE p \in N1 /\ [p EXCEPT !.intact = FALSE] \in N1
  <2> DEFINE M(m, d) == FrameOf(s, 1, m.offset + m.proto.length - 1, m.proto, d)
             T(d) == {M(m, d) : m \in MatchOf(s)}
  <2>1. PICK ok \in Intact : p = FrameOf(s, 1, 1, None, ok) \/ \E m \in MatchOf(s) : p = M(m, ok) BY DEF NextFrames
  <2>2. N1 = {FrameOf(s, 1, 1, None, d) : d \in D} \cup UNION {T(d) : d \in D} OBVIOUS
  <2>3. \A d \in D : FrameOf(s, 1, 1, None, d) \in N1 OBVIOUS
  <2>4. ASSUME NEW d \in D, NEW m \in MatchOf(s) PROVE M(m, d) \in N1
    <3>1. M(m, d) \in T(d) BY Zenon
    <3> HIDE DEF T, M, N1
    <3> QED BY <2>2, <3>1
  <2>5. \A m : [M(m, ok) EXCEPT !.intact = FALSE] = M(m, FALSE) BY <1>9
  <2> HIDE DEF N1, M
  <2>6. CASE p = FrameOf(s, 1, 1, None, ok)
    <3>1. [p EXCEPT !.intact = FALSE] = FrameOf(s, 1, 1, None, FALSE) BY <1>9, <2>6
    <3> QED BY <1>1, <1>3, <2>3, <2>6, <3>1
  <2>7. CASE \E m \in MatchOf(s) : p = M(m, ok)
    <3>1. PICK m \in MatchOf(s) : p = M(m, ok) BY <2>7
    <3>2. [p EXCEPT !.intact = FALSE] = M(m, FALSE) BY <2>5, <3>1
    <3> QED BY <1>1, <1>3, <2>4, <3>1, <3>2
  <2> QED BY <2>1, <2>6, <2>7
<1> HIDE DEF P1, F1, N1
<1>12. SentBy(s)[0] = Packets(s) /\ SentBy(s)[1] = FirstFrames(s) /\ SentBy(s)[2] = NextFrames(s) BY DEF SentBy
<1>13. SentBy(s)'[0] = P1 /\ SentBy(s)'[1] = F1 /\ SentBy(s)'[2] = N1 BY <1>7
<1> SUFFICES ASSUME NEW n \in 0..2, NEW p \in SentBy(s)[n]
             PROVE  p \in SentBy(s)'[n] /\ [p EXCEPT !.intact = FALSE] \in SentBy(s)'[n]
  OBVIOUS
<1>14. n = 0 \/ n = 1 \/ n = 2 OBVIOUS
<1>15. CASE n = 0 BY <1>8, <1>12, <1>13, <1>15
<1>16. CASE n = 1 BY <1>10, <1>12, <1>13, <1>16
<1>17. CASE n = 2 BY <1>11, <1>12, <1>13, <1>17
<1> QED BY <1>14, <1>15, <1>16, <1>17

\* A packet is damaged.
LEMMA DamageStep ==
    ASSUME HsInv, NEW s \in HsSides, Handshake!Damage(s)
    PROVE  HsInv'
<1>1. /\ wire[s] # <<>> /\ damaged' = TRUE
      /\ wire' = [wire EXCEPT ![s] = [wire[s] EXCEPT ![1] = Handshake!Damaged(wire[s][1])]]
      /\ UNCHANGED <<old, dials, offers, stage, sec, out, inn, snappy, hs, running, badFrames>>
  BY DEF Handshake!Damage, Handshake!frameVars
<1> DEFINE p == Handshake!Damaged(wire[s][1])
<1>2. PICK ph \in 0..3 : PhaseSound(ph) BY DEF HsInv
<1>3. HsTypes /\ (~damaged => badFrames = 0) /\ \A t \in HsSides : SideSound(t) BY HsTyped
<1>4. wire' = [wire EXCEPT ![s] = [wire[s] EXCEPT ![1] = p]] BY <1>1
<1>5. \A t \in HsSides, n \in 0..2 :
         /\ SentBy(t)[n] \subseteq SentBy(t)'[n]
         /\ \A q \in SentBy(t)[n] : [q EXCEPT !.intact = FALSE] \in SentBy(t)'[n]
  BY <1>1, DamagedSent
<1>6. wire' = [t \in HsSides |-> wire'[t]] /\ wire'[s] = [wire[s] EXCEPT ![1] = p]
      /\ \A t \in HsSides : t # s => wire'[t] = wire[t]
  <2> HIDE DEF p
  <2> QED BY <1>3, <1>4 DEF HsTypes
<1>7. HsTypes' BY <1>1, <1>3, <1>6 DEF HsTypes
<1>8. \A t \in HsSides : /\ SecOf(t)' = SecOf(t) /\ MatchOf(t)' = MatchOf(t) /\ BodyOf(t)' = BodyOf(t)
                         /\ Snap(0)' = Snap(0) /\ Snap(1)' = Snap(1)
  BY <1>1, HsConstant
<1>9. ASSUME NEW t \in HsSides PROVE SideSound(t)' /\ SideAt(ph, t)'
  <2>1. SideSound(t) /\ SideAt(ph, t) BY <1>2, <1>3 DEF PhaseSound
  <2>2. BodyOf(Handshake!Other(t))' = BodyOf(Handshake!Other(t)) BY <1>8, SidesTwo
  <2>3. SideSound(t)' BY <1>1, <1>8, <2>1, <2>2 DEF SideSound
  <2>4. SideAt(ph, t)' BY <1>1, <1>8, <2>1 DEF SideAt, Opened
  <2> QED BY <2>3, <2>4
<1>10. ASSUME NEW t \in HsSides PROVE WireAt(ph, t)'
  <2> DEFINE lo == IF Opened(ph, Handshake!Other(t)) THEN 1 + inn[Handshake!Other(t)] ELSE 0
             hi == IF Begun(ph, t) THEN 1 + out[t] ELSE 0
             w == wire[t]
             M == SentBy(t)
             L == SentBy(t)'
  <2>1. Carries(w, M, lo, hi) BY <1>2 DEF PhaseSound, WireAt
  <2>2. \A n \in 0..2 : M[n] \subseteq L[n] BY <1>5
  <2>3. Carries(wire'[t], L, lo, hi)
    <3>1. CASE t # s
      <4>1. wire'[t] = w BY <1>6, <3>1
      <4> HIDE DEF lo, hi, w, M, L
      <4>2. Carries(w, L, lo, hi) BY <2>1, <2>2, CarriesMore
      <4> QED BY <4>1, <4>2
    <3>2. CASE t = s
      <4>1. wire'[t] = [w EXCEPT ![1] = p] /\ w # <<>> BY <1>1, <1>6, <3>2
      <4>2. w[1] \in M[lo] /\ lo < hi
        <5> HIDE DEF lo, hi, w, M
        <5> QED BY <2>1, <4>1, CarriesTail
      <4>3. lo \in 0..2
        <5> HIDE DEF lo, hi, w, M
        <5> QED BY <2>1, <4>2 DEF Carries
      <4>4. p \in L[lo]
        <5>1. p = [w[1] EXCEPT !.intact = FALSE] BY <3>2 DEF Handshake!Damaged
        <5> HIDE DEF lo, w, p
        <5> QED BY <1>5, <4>2, <4>3, <5>1
      <4> HIDE DEF lo, hi, w, M, L, p
      <4>5. Carries([w EXCEPT ![1] = p], L, lo, hi) BY <2>1, <2>2, <4>1, <4>4, CarriesMore
      <4> QED BY <4>1, <4>5
    <3> QED BY <3>1, <3>2
  <2> HIDE DEF w
  <2> QED BY <1>1, <2>3 DEF WireAt, Opened, Begun
<1>11. PhaseSound(ph)' BY <1>1, <1>2, <1>9, <1>10 DEF PhaseSound
<1> QED BY <1>1, <1>7, <1>9, <1>11 DEF HsInv

\* receiverEncHandshake: auth is opened and answered, or the receiver gives up.
LEMMA ReceiveAuthStep ==
    ASSUME HsInv, Handshake!ReceiveAuth
    PROVE  HsInv'
<1> DEFINE a == Handshake!I
           b == Handshake!R
           auth == wire[a][1]
           resp == Handshake!Packet(auth.body.id, auth.format, [nonce |-> "respNonce", ephemeral |-> "respKey"])
<1>1. /\ stage[b] = "auth" /\ wire[a] # <<>>
      /\ UNCHANGED <<old, dials, offers, out, inn, snappy, hs, running, damaged, badFrames>>
  BY DEF Handshake!ReceiveAuth, Handshake!frameVars
<1>2. /\ Handshake!Opens(b, auth) =>
            /\ wire' = [wire EXCEPT ![a] = Tail(@), ![b] = Append(@, resp)]
            /\ sec' = [sec EXCEPT ![b] = Handshake!Secrets(b, auth.body.id, auth, resp)]
            /\ stage' = [stage EXCEPT ![b] = "posthandshake"]
      /\ ~Handshake!Opens(b, auth) => stage' = [stage EXCEPT ![b] = "closed"] /\ UNCHANGED <<wire, sec>>
  BY DEF Handshake!ReceiveAuth, Handshake!Goto
<1>3. a \in HsSides /\ b \in HsSides /\ a # b /\ Handshake!Other(a) = b /\ Handshake!Other(b) = a
      /\ \A t \in HsSides : t = a \/ t = b
  BY SidesTwo DEF Handshake!Other, HsSides
<1>4. CASE ~Handshake!Opens(b, auth)
  BY <1>1, <1>2, <1>3, <1>4, CloseStep
<1>5. CASE Handshake!Opens(b, auth)
  <2>1. PICK ph \in 0..3 : PhaseSound(ph) BY DEF HsInv
  <2>2. ph \in {0, 1} BY <1>1, <2>1 DEF PhaseSound
  <2>3. /\ ~Opened(ph, a) /\ ~Opened(ph, b) /\ ~Begun(ph, b)
        /\ ~Opened(2, a) /\ Opened(2, b) /\ Begun(2, a) /\ Begun(2, b)
        /\ Begun(ph, a) => ph = 1
    BY <1>3, <2>2 DEF Opened, Begun
  <2>4. SideAt(ph, a) /\ SideAt(ph, b) /\ WireAt(ph, a) /\ WireAt(ph, b) BY <1>3, <2>1 DEF PhaseSound
  <2>5. out[a] = 0 /\ inn[a] = 0 /\ out[b] = 0 /\ inn[b] = 0 /\ snappy[b] = Snap(0)
        /\ snappy[a] = Snap(0) /\ stage[a] \in {"auth", "resp", "closed"}
    BY <2>3, <2>4 DEF SideAt
  <2>6. Carries(wire[a], SentBy(a), 0, IF Begun(ph, a) THEN 1 ELSE 0) BY <1>3, <2>3, <2>4, <2>5 DEF WireAt
  <2>7. /\ auth \in SentBy(a)[0] /\ 0 < (IF Begun(ph, a) THEN 1 ELSE 0)
        /\ Carries(Tail(wire[a]), SentBy(a), 0 + 1, IF Begun(ph, a) THEN 1 ELSE 0)
    BY <1>1, <2>6, CarriesTail
  <2>8. ph = 1 /\ Carries(Tail(wire[a]), SentBy(a), 1, 1) BY <2>3, <2>7
  <2>9. auth = PacketOf(a) /\ dials = b
    <3>1. auth.intact /\ auth.to = b BY <1>5 DEF Handshake!Opens
    <3>2. auth \in Packets(a) BY <1>3, <2>7, PacketsAre
    <3>3. auth = PacketOf(a) BY <1>3, <3>1, <3>2, PacketsAre
    <3>4. PacketOf(a) = Handshake!AuthMsg BY DEF PacketOf
    <3>5. Handshake!AuthMsg.to = dials BY DEF Handshake!AuthMsg, Handshake!Packet
    <3> HIDE DEF auth
    <3> QED BY <3>1, <3>3, <3>4, <3>5
  <2>10. auth = Handshake!AuthMsg /\ auth.body.id = a BY <2>9 DEF PacketOf, Handshake!AuthMsg, Handshake!Packet
  <2>11. resp = RespMsg /\ RespMsg = PacketOf(b) BY <1>3, <2>10 DEF RespMsg, PacketOf
  <2>12. Handshake!Secrets(b, auth.body.id, auth, resp) = SecOf(b) BY <1>3, <2>10, <2>11 DEF SecOf
  <2>13. HsTypes /\ (~damaged => badFrames = 0) /\ SideSound(a) BY <1>3, HsTyped
  <2> HIDE DEF auth, resp
  <2>14. /\ stage' \in [HsSides -> LateStages \cup {"auth", "resp", "closed"}] /\ stage'[b] = "posthandshake"
         /\ stage'[a] = stage[a]
    <3>1. stage' = [stage EXCEPT ![b] = "posthandshake"] BY <1>2, <1>5
    <3> QED BY <1>3, <2>13, <3>1 DEF HsTypes, LateStages
  <2>15. wire' = [t \in HsSides |-> wire'[t]] /\ wire'[a] = Tail(wire[a]) /\ wire'[b] = Append(wire[b], PacketOf(b))
    <3>1. wire' = [wire EXCEPT ![a] = Tail(@), ![b] = Append(@, PacketOf(b))] BY <1>2, <1>5, <2>11
    <3> QED BY <1>3, <2>13, <3>1 DEF HsTypes
  <2>16. sec' = [t \in HsSides |-> sec'[t]] /\ sec'[b] = SecOf(b)
    <3>1. sec' = [sec EXCEPT ![b] = SecOf(b)] BY <1>2, <1>5, <2>12
    <3> QED BY <1>3, <2>13, <3>1 DEF HsTypes
  <2>17. \A t \in HsSides : /\ SecOf(t)' = SecOf(t) /\ MatchOf(t)' = MatchOf(t) /\ BodyOf(t)' = BodyOf(t)
                            /\ Snap(0)' = Snap(0) /\ Snap(1)' = Snap(1) /\ SentBy(t)' = SentBy(t)
    BY <1>1, HsConstant
  <2>18. HsTypes' BY <1>1, <2>13, <2>14, <2>15, <2>16 DEF HsTypes
  <2>19. SideSound(b)' BY <1>1, <1>3, <2>5, <2>14, <2>17 DEF SideSound
  <2>20. SideSound(a)' BY <1>1, <1>3, <2>13, <2>14, <2>17 DEF SideSound
  <2>21. SideAt(2, a)' BY <1>1, <1>3, <2>3, <2>5, <2>14, <2>17 DEF SideAt, Opened
  <2>22. SideAt(2, b)'
    <3>1. Opened(2, b)' /\ stage'[b] \in LateStages /\ sec'[b] = SecOf(b)' /\ dials' = Handshake!R
      BY <1>1, <1>3, <2>3, <2>9, <2>14, <2>16, <2>17 DEF Opened, LateStages
    <3> QED BY <3>1 DEF SideAt
  <2>23. WireAt(2, a)'
    <3>1. Carries(wire'[a], SentBy(a)', 1 + inn'[b], 1 + out'[a])
      <4>1. 1 + inn'[b] = 1 /\ 1 + out'[a] = 1 BY <1>1, <2>5
      <4> QED BY <1>3, <2>8, <2>15, <2>17, <4>1
    <3> QED BY <1>3, <2>3, <3>1 DEF WireAt, Opened, Begun
  <2>24. WireAt(2, b)'
    <3>1. Carries(wire[b], SentBy(b), 0, 0) BY <1>3, <2>3, <2>4 DEF WireAt
    <3>2. PacketOf(b) \in SentBy(b)[0] BY <1>3, PacketsAre
    <3>3. Carries(Append(wire[b], PacketOf(b)), SentBy(b), 0, 0 + 1) BY <3>1, <3>2, CarriesAppend
    <3>4. Carries(wire'[b], SentBy(b)', 0, 1 + out'[b])
      <4>1. 1 + out'[b] = 0 + 1 BY <1>1, <2>5
      <4> QED BY <1>3, <2>15, <2>17, <3>3, <4>1
    <3> QED BY <1>3, <2>3, <3>4 DEF WireAt, Opened, Begun
  <2>25. stage[a] # "auth" BY <2>1, <2>8 DEF PhaseSound
  <2> HIDE DEF a, b
  <2>26. PhaseSound(2)'
    <3>1. \A t \in HsSides : SideAt(2, t)' /\ WireAt(2, t)' BY <1>3, <2>21, <2>22, <2>23, <2>24
    <3> QED BY <2>14, <2>25, <3>1 DEF PhaseSound, a, b
  <2>27. \A t \in HsSides : SideSound(t)' BY <1>3, <2>19, <2>20
  <2> QED BY <1>1, <2>13, <2>18, <2>26, <2>27 DEF HsInv
<1> QED BY <1>4, <1>5

\* initiatorEncHandshake opens the answer, or the initiator gives up.
LEMMA ReceiveAuthRespStep ==
    ASSUME HsInv, Handshake!ReceiveAuthResp
    PROVE  HsInv'
<1> DEFINE a == Handshake!I
           b == Handshake!R
           resp == wire[b][1]
<1>1. /\ stage[a] = "resp" /\ wire[b] # <<>>
      /\ UNCHANGED <<old, dials, offers, out, inn, snappy, hs, running, damaged, badFrames>>
  BY DEF Handshake!ReceiveAuthResp, Handshake!frameVars
<1>2. /\ Handshake!Opens(a, resp) =>
            /\ wire' = [wire EXCEPT ![b] = Tail(@)]
            /\ sec' = [sec EXCEPT ![a] = Handshake!Secrets(a, dials, Handshake!AuthMsg, resp)]
            /\ stage' = [stage EXCEPT ![a] = "posthandshake"]
      /\ ~Handshake!Opens(a, resp) => stage' = [stage EXCEPT ![a] = "closed"] /\ UNCHANGED <<wire, sec>>
  BY DEF Handshake!ReceiveAuthResp, Handshake!Goto
<1>3. a \in HsSides /\ b \in HsSides /\ a # b /\ Handshake!Other(a) = b /\ Handshake!Other(b) = a
      /\ \A t \in HsSides : t = a \/ t = b
  BY SidesTwo DEF Handshake!Other, HsSides
<1>4. CASE ~Handshake!Opens(a, resp)
  BY <1>1, <1>2, <1>3, <1>4, CloseStep
<1>5. CASE Handshake!Opens(a, resp)
  <2>1. PICK ph \in 0..3 : PhaseSound(ph) BY DEF HsInv
  <2>2. ph \in {1, 2} BY <1>1, <2>1 DEF PhaseSound
  <2>3. SideAt(ph, a) /\ SideAt(ph, b) /\ WireAt(ph, a) /\ WireAt(ph, b) BY <1>3, <2>1 DEF PhaseSound
  <2>4. ~Opened(ph, a) /\ (Begun(ph, b) => ph = 2) BY <1>3, <2>2 DEF Opened, Begun
  <2>5. ph = 2 /\ resp \in SentBy(b)[0] /\ Carries(Tail(wire[b]), SentBy(b), 1, 1 + out[b])
    <3> DEFINE hi == IF Begun(ph, b) THEN 1 + out[b] ELSE 0
    <3>1. Carries(wire[b], SentBy(b), 0, hi) BY <1>3, <2>3, <2>4 DEF WireAt
    <3> HIDE DEF hi
    <3>2. resp \in SentBy(b)[0] /\ 0 < hi /\ Carries(Tail(wire[b]), SentBy(b), 0 + 1, hi)
      BY <1>1, <3>1, CarriesTail
    <3> HIDE DEF resp
    <3>3. Begun(ph, b) BY <3>2 DEF hi
    <3> QED BY <2>4, <3>2, <3>3 DEF hi
  <2>6. /\ ~Opened(2, a) /\ Opened(2, b) /\ Begun(2, a) /\ Begun(2, b)
        /\ Opened(3, a) /\ Opened(3, b) /\ Begun(3, a) /\ Begun(3, b)
    BY <1>3 DEF Opened, Begun
  <2>7. SideAt(2, a) /\ SideAt(2, b) /\ WireAt(2, a) BY <2>3, <2>5
  <2>8. out[a] = 0 /\ inn[a] = 0 /\ snappy[a] = Snap(0) BY <2>6, <2>7 DEF SideAt
  <2>9. stage[b] \in LateStages \cup {"closed"} /\ sec[b] = SecOf(b) /\ dials = b BY <2>6, <2>7 DEF SideAt
  <2>10. resp = RespMsg
    <3>1. resp.intact BY <1>5 DEF Handshake!Opens
    <3>2. resp \in Packets(b) BY <1>3, <2>5, PacketsAre
    <3>3. resp = PacketOf(b) BY <1>3, <3>1, <3>2, PacketsAre
    <3>4. PacketOf(b) = RespMsg BY <1>3 DEF PacketOf
    <3> QED BY <3>3, <3>4
  <2>11. Handshake!Secrets(a, dials, Handshake!AuthMsg, resp) = SecOf(a) BY <1>3, <2>9, <2>10 DEF SecOf
  <2>12. HsTypes /\ (~damaged => badFrames = 0) /\ SideSound(b) BY <1>3, HsTyped
  <2> HIDE DEF resp
  <2>13. /\ stage' \in [HsSides -> LateStages \cup {"auth", "resp", "closed"}] /\ stage'[a] = "posthandshake"
         /\ stage'[b] = stage[b]
    <3>1. stage' = [stage EXCEPT ![a] = "posthandshake"] BY <1>2, <1>5
    <3> QED BY <1>3, <2>12, <3>1 DEF HsTypes, LateStages
  <2>14. wire' = [t \in HsSides |-> wire'[t]] /\ wire'[b] = Tail(wire[b]) /\ wire'[a] = wire[a]
    <3>1. wire' = [wire EXCEPT ![b] = Tail(@)] BY <1>2, <1>5
    <3> QED BY <1>3, <2>12, <3>1 DEF HsTypes
  <2>15. sec' = [t \in HsSides |-> sec'[t]] /\ sec'[a] = SecOf(a) /\ sec'[b] = sec[b]
    <3>1. sec' = [sec EXCEPT ![a] = SecOf(a)] BY <1>2, <1>5, <2>11
    <3> QED BY <1>3, <2>12, <3>1 DEF HsTypes
  <2>16. \A t \in HsSides : /\ SecOf(t)' = SecOf(t) /\ MatchOf(t)' = MatchOf(t) /\ BodyOf(t)' = BodyOf(t)
                            /\ Snap(0)' = Snap(0) /\ Snap(1)' = Snap(1) /\ SentBy(t)' = SentBy(t)
    BY <1>1, HsConstant
  <2>17. HsTypes' BY <1>1, <2>12, <2>13, <2>14, <2>15 DEF HsTypes
  <2>18. SideSound(a)' BY <1>1, <1>3, <2>8, <2>13, <2>16 DEF SideSound
  <2>19. SideSound(b)' BY <1>1, <1>3, <2>12, <2>13, <2>16 DEF SideSound
  <2>20. SideAt(3, a)'
    <3>1. Opened(3, a)' /\ stage'[a] \in LateStages /\ sec'[a] = SecOf(a)' /\ dials' = Handshake!R
      BY <1>1, <1>3, <2>6, <2>9, <2>13, <2>15, <2>16 DEF Opened, LateStages
    <3> QED BY <3>1 DEF SideAt
  <2>21. SideAt(3, b)'
    <3>1. Opened(3, b)' /\ stage'[b] \in LateStages \cup {"closed"} /\ sec'[b] = SecOf(b)' /\ dials' = Handshake!R
      BY <1>1, <1>3, <2>6, <2>9, <2>13, <2>15, <2>16 DEF Opened
    <3> QED BY <3>1 DEF SideAt
  <2>22. WireAt(3, a)'
    <3>1. Carries(wire[a], SentBy(a), 1 + inn[b], 1 + out[a]) BY <1>3, <2>6, <2>7 DEF WireAt
    <3>2. Carries(wire'[a], SentBy(a)', 1 + inn'[b], 1 + out'[a]) BY <1>1, <1>3, <2>14, <2>16, <3>1
    <3> QED BY <1>3, <2>6, <3>2 DEF WireAt, Opened, Begun
  <2>23. WireAt(3, b)'
    <3>1. Carries(wire'[b], SentBy(b)', 1 + inn'[a], 1 + out'[b])
      <4>1. 1 + inn'[a] = 1 /\ 1 + out'[b] = 1 + out[b] BY <1>1, <2>8
      <4> QED BY <1>3, <2>5, <2>14, <2>16, <4>1
    <3> QED BY <1>3, <2>6, <3>1 DEF WireAt, Opened, Begun
  <2>24. stage[b] # "auth" /\ stage[b] # "resp" BY <2>9 DEF LateStages
  <2> HIDE DEF a, b
  <2>25. PhaseSound(3)'
    <3>1. \A t \in HsSides : SideAt(3, t)' /\ WireAt(3, t)' BY <1>3, <2>20, <2>21, <2>22, <2>23
    <3> QED BY <2>13, <2>24, <3>1 DEF PhaseSound, a, b
  <2>26. \A t \in HsSides : SideSound(t)' BY <1>3, <2>18, <2>19
  <2> QED BY <1>1, <2>12, <2>17, <2>25, <2>26 DEF HsInv
<1> QED BY <1>4, <1>5

\* The deadline of the handshake passes.
LEMMA HsTimeoutStep ==
    ASSUME HsInv, NEW s \in HsSides, Handshake!Timeout(s)
    PROVE  HsInv'
<1>1. stage' = [stage EXCEPT ![s] = "closed"]
      /\ UNCHANGED <<old, dials, offers, sec, out, inn, snappy, hs, running, wire, damaged, badFrames>>
  BY DEF Handshake!Timeout, Handshake!Goto, Handshake!frameVars
<1> QED BY <1>1, CloseStep

\* Every step of the handshakes keeps HsInv.
LEMMA HsStep == HsInv /\ [Handshake!Next]_(Handshake!vars) => HsInv'
<1> SUFFICES ASSUME HsInv, [Handshake!Next]_(Handshake!vars) PROVE HsInv' OBVIOUS
<1>1. CASE UNCHANGED Handshake!vars
  <2>1. UNCHANGED <<old, dials, offers, stage, sec, out, inn, snappy, hs, running, wire, damaged, badFrames>>
    BY <1>1 DEF Handshake!vars
  <2>2. \A t \in HsSides : /\ SecOf(t)' = SecOf(t) /\ MatchOf(t)' = MatchOf(t) /\ BodyOf(t)' = BodyOf(t)
                           /\ Snap(0)' = Snap(0) /\ Snap(1)' = Snap(1) /\ SentBy(t)' = SentBy(t)
    BY <2>1, HsConstant
  <2>3. PICK ph \in 0..3 : PhaseSound(ph) BY DEF HsInv
  <2>4. HsTypes' BY <2>1 DEF HsInv, HsTypes
  <2>5. ASSUME NEW t \in HsSides PROVE SideSound(t)' /\ SideAt(ph, t)' /\ WireAt(ph, t)'
    <3>1. SideSound(t) /\ SideAt(ph, t) /\ WireAt(ph, t) BY <2>3 DEF HsInv, PhaseSound
    <3>2. BodyOf(Handshake!Other(t))' = BodyOf(Handshake!Other(t)) BY <2>2, SidesTwo
    <3>3. SideSound(t)' BY <2>1, <2>2, <3>1, <3>2 DEF SideSound
    <3>4. SideAt(ph, t)' BY <2>1, <2>2, <3>1 DEF SideAt, Opened
    <3>5. WireAt(ph, t)' BY <2>1, <2>2, <3>1 DEF WireAt, Opened, Begun
    <3> QED BY <3>3, <3>4, <3>5
  <2>6. PhaseSound(ph)' BY <2>1, <2>3, <2>5 DEF PhaseSound
  <2> QED BY <2>1, <2>4, <2>5, <2>6 DEF HsInv
<1>2. CASE Handshake!SendAuth BY <1>2, SendAuthStep
<1>3. CASE Handshake!ReceiveAuth BY <1>3, ReceiveAuthStep
<1>4. CASE Handshake!ReceiveAuthResp BY <1>4, ReceiveAuthRespStep
<1>5. ASSUME NEW s \in HsSides, Handshake!Posthandshake(s) PROVE HsInv' BY <1>5, PosthandshakeStep
<1>6. ASSUME NEW s \in HsSides, Handshake!Refuse(s) PROVE HsInv' BY <1>6, RefuseStep
<1>7. ASSUME NEW s \in HsSides, Handshake!ReadProtoHandshake(s) PROVE HsInv' BY <1>7, ReadProtoHandshakeStep
<1>8. ASSUME NEW s \in HsSides, Handshake!Addpeer(s) PROVE HsInv' BY <1>8, AddpeerStep
<1>9. ASSUME NEW s \in HsSides, Handshake!ReadFirst(s) PROVE HsInv' BY <1>9, ReadFirstStep
<1>10. ASSUME NEW s \in HsSides, Handshake!Timeout(s) PROVE HsInv' BY <1>10, HsTimeoutStep
<1>11. ASSUME NEW s \in HsSides, Handshake!Damage(s) PROVE HsInv' BY <1>11, DamageStep
<1>12. ASSUME NEW s \in HsSides, NEW m \in running[s], Handshake!SendFirst(s, m) PROVE HsInv'
  BY <1>12, SendFirstStep
<1>13. HsSides = Handshake!Sides BY SidesTwo
<1> QED BY <1>1, <1>2, <1>3, <1>4, <1>5, <1>6, <1>7, <1>8, <1>9, <1>10, <1>11, <1>12, <1>13 DEF Handshake!Next

\* HsInv says that both sides agree.
LEMMA HsInvSound == HsInv => Handshake!SetupAgrees
<1> SUFFICES ASSUME HsInv PROVE Handshake!SetupAgrees OBVIOUS
<1> DEFINE S == offers[Handshake!I] \cap offers[Handshake!R]
<1>1. ASSUME NEW s \in HsSides, stage[s] = "up"
      PROVE  /\ sec[s] = SecOf(s) /\ sec[s].remote = Handshake!Other(s)
             /\ snappy[s] = Snap(1) /\ running[s] = MatchOf(s) /\ Matched(running[s], S)
  <2>1. stage[s] \in LateStages BY <1>1 DEF LateStages
  <2>2. sec[s] = SecOf(s) BY <2>1, LateOpened
  <2>3. sec[s].remote = Handshake!Other(s) BY <2>2, SecretsAgree
  <2>4. snappy[s] = Snap(1) /\ running[s] = MatchOf(s) BY <1>1 DEF HsInv, SideSound
  <2>5. Matched(MatchOf(s), S) BY SameProtocols
  <2> QED BY <2>2, <2>3, <2>4, <2>5
<1>2. ASSUME NEW s \in Handshake!Sides, stage[s] = "up"
      PROVE  /\ sec[s].remote = Handshake!Other(s)
             /\ \A m, n \in running[s] : m # n =>
                   m.offset + m.proto.length <= n.offset \/ n.offset + n.proto.length <= m.offset
             /\ \A m \in running[s] : m.offset >= Handshake!baseProtocolLength /\ m.proto \in S
             /\ \A p \in S : \E m \in running[s] : m.proto.name = p.name /\ m.proto.version >= p.version
  <2>1. sec[s].remote = Handshake!Other(s) /\ Matched(running[s], S) BY <1>1, <1>2, SidesTwo
  <2> HIDE DEF S
  <2>2. \A m, n \in running[s] : m # n =>
           m.offset + m.proto.length <= n.offset \/ n.offset + n.proto.length <= m.offset
    BY <2>1 DEF Matched, Apart
  <2>3. \A m \in running[s] : m.offset >= Handshake!baseProtocolLength /\ m.proto \in S
    BY <2>1 DEF Matched, Match, Handshake!baseProtocolLength
  <2>4. \A p \in S : \E m \in running[s] : m.proto.name = p.name /\ m.proto.version >= p.version
    BY <2>1 DEF Matched, Newest
  <2> QED BY <2>1, <2>2, <2>3, <2>4
<1>3. ASSUME stage[Handshake!I] = "up", stage[Handshake!R] = "up"
      PROVE  /\ sec[Handshake!I].egress = sec[Handshake!R].ingress /\ sec[Handshake!R].egress = sec[Handshake!I].ingress
             /\ snappy[Handshake!I] = snappy[Handshake!R] /\ running[Handshake!I] = running[Handshake!R]
  <2>1. Handshake!Other(Handshake!I) = Handshake!R /\ Handshake!Other(Handshake!R) = Handshake!I
        /\ Handshake!I \in HsSides /\ Handshake!R \in HsSides
    BY SidesTwo DEF Handshake!Other
  <2>2. SecOf(Handshake!I).egress = SecOf(Handshake!R).ingress /\ SecOf(Handshake!R).egress = SecOf(Handshake!I).ingress
    BY <2>1, SecretsAgree
  <2>3. MatchOf(Handshake!I) = MatchOf(Handshake!R) BY <2>1, SameProtocols
  <2> QED BY <1>1, <1>3, <2>1, <2>2, <2>3
<1>4. ~damaged => badFrames = 0 BY DEF HsInv
<1> QED BY <1>2, <1>3, <1>4 DEF Handshake!SetupAgrees

\* p2p/rlpx.go, p2p/peer.go: two nodes that both run the peer agree on it
\* (SetupAgrees).
THEOREM SetupSound == Handshake!Spec => []Handshake!SetupAgrees
BY HsInitSound, HsStep, HsInvSound, PTL DEF Handshake!Spec

\* A connection to a peer is sound (LinkSound): both sides agree on what was set
\* up, the frames between them are whole, and a pipe in place of the connection
\* delivers what was written.
THEOREM LinkIsSound == Handshake!Spec /\ Link!Spec /\ Pipe!Spec => []LinkSound
BY SetupSound, FramesAreWhole, PipeIsSound, PTL DEF LinkSound

=============================================================================
