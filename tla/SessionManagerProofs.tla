------------------------ MODULE SessionManagerProofs ------------------------
(* Theorems about SessionManager, for any number of sessions, calls and crashes. *)
EXTENDS SessionManager, TLAPS

\* Only the call at the head of the queue has gone past its start, and each kind of call passes
\* through the stages of its own; until initialize() returns it is the only thing that runs.
HolderInv ==
    /\ \A p \in Ops :
        /\ op[p].at # "start" => queue # <<>> /\ p = Head(queue)
        /\ op[p].at \in {"opening", "reopening"} => op[p].kind = "open"
        /\ op[p].at = "closing" => op[p].kind \in {"new", "open"}
        /\ op[p].at = "minting" => op[p].kind \in {"new", "boot"}
        /\ op[p].at \in {"attaching", "activating"} => op[p].kind \in {"new", "open", "boot"}
        /\ op[p].at = "fixing" => op[p].kind = "boot"
        /\ op[p].at = "renaming" => op[p].kind = "rename"
        /\ op[p].at = "touching" => op[p].kind = "touch"
        /\ op[p].kind = "boot" <=> ~ready /\ p \in Range(queue)
    /\ ~ready => Len(queue) = 1 /\ sums = {}

\* Calls and runs of the Summarizer name sessions that were minted.  A session that is opened is not the
\* active one, which changes only at the end.
IdsInv ==
    /\ activeId \in Known \cup {NoSession} /\ activeFile \in Known \cup {NoSession}
    /\ ready => activeId # NoSession
    /\ \A run \in sums : run.id \in Known /\ (run.at # "reading" => run.read \in Metas)
    /\ \A p \in Ops :
        /\ op[p].kind \in {"open", "delete", "rename"} => op[p].id \in Known
        /\ op[p].at \in {"opening", "reopening", "renaming", "touching", "attaching", "activating", "fixing"} =>
              op[p].id \in Known /\ op[p].target \in Metas
        /\ op[p].at = "closing" =>
              activeId # NoSession /\ op[p].old \in Metas /\ (op[p].kind = "open" => op[p].target \in Metas)
        /\ op[p].kind = "open" /\ op[p].at \in {"opening", "closing", "reopening"} => op[p].id # activeId
        /\ op[p].at \in {"activating", "fixing"} => op[p].id = activeId
        /\ op[p].at = "touching" => op[p].id = activeId

\* What a call is going to write back is what is on disk, unless the Summarizer wrote since.
Fresh(s, m) == meta[s] = m \/ writer[s] = "summarizer"
ReadsInv ==
    /\ MutexKeepsWrites
    /\ \A p \in Ops :
        /\ op[p].at \in {"opening", "reopening", "renaming", "touching"} => Fresh(op[p].id, op[p].target)
        /\ op[p].at = "closing" =>
              /\ Fresh(activeId, op[p].old)
              /\ op[p].kind = "open" => Fresh(op[p].id, op[p].target)
        /\ op[p].kind = "boot" /\ op[p].at \in {"attaching", "activating", "fixing"} =>
              meta[op[p].id] = op[p].target

\* active.json names a session that is there, and it is the active one but while one is being activated.
Present(s) == meta[s] # NoMeta \/ s \in discarded
FilesInv ==
    /\ activeFile # NoSession => Present(activeFile)
    /\ \A p \in Ops : op[p].at \in {"attaching", "activating", "fixing"} => Present(op[p].id)
    /\ \A p \in Ops : op[p].at = "fixing" => activeFile = op[p].id
    /\ ready /\ (\A p \in Ops : op[p].at # "activating") => activeFile = activeId
    /\ activeId # NoSession /\ activeId \notin discarded => linked

\* Which sessions are marked active, as long as the Summarizer has dropped no write: the one being opened
\* from when it is written, the active one until it is closed, and before the first crash no other.
Marked(s) == meta[s].status = "active"
Changing == {"minting", "reopening", "attaching", "activating"}
MarkedOnly ==
    \A s \in Known : Marked(s) =>
        \/ s = activeId /\ \A p \in Ops : op[p].at \notin {"minting", "reopening", "attaching"}
        \/ \E p \in Ops : op[p].at = "attaching" /\ s = op[p].id
MarksInv ==
    ~SummarizerClobbered =>
        /\ \A p \in Ops :
            /\ op[p].at \in {"attaching", "activating"} /\ op[p].kind \in {"new", "open"}
                 /\ op[p].id \notin discarded => Marked(op[p].id)
            /\ op[p].at \in {"renaming", "touching"} /\ op[p].id \notin discarded =>
                 op[p].target.status = meta[op[p].id].status
            /\ op[p].at = "renaming" /\ op[p].target.status = "active" => op[p].id = activeId \/ crashes > 0
        /\ ready /\ activeId \notin discarded /\ (\A p \in Ops : op[p].at \notin Changing) => Marked(activeId)
        /\ crashes = 0 => MarkedOnly

\* The first initialize() finds nothing.
FirstInv ==
    crashes = 0 /\ ~ready =>
        \A p \in Ops : /\ op[p].kind = "boot" /\ op[p].at \in {"start", "minting"} => minted = 0
                       /\ op[p].at # "fixing" 
                       /\ op[p].kind = "boot" /\ op[p].at \in {"attaching", "activating"} => Marked(op[p].id)

ManagerInv == TypeOK /\ HolderInv /\ IdsInv /\ ReadsInv /\ FilesInv /\ MarksInv /\ FirstInv

-----------------------------------------------------------------------------
(* Facts about the queue.                                                  *)

\* A call that joins the queue comes last.
LEMMA AppendFacts ==
    ASSUME NEW S, NEW q \in Seq(S), IsInjective(q), NEW p \in S, p \notin Range(q)
    PROVE  /\ Append(q, p) \in Seq(S) /\ IsInjective(Append(q, p)) /\ Append(q, p) # <<>>
           /\ Len(Append(q, p)) = Len(q) + 1
           /\ Range(Append(q, p)) = Range(q) \cup {p}
           /\ q # <<>> => Head(Append(q, p)) = Head(q)
<1>0. Append(q, p) \in Seq(S) /\ Len(Append(q, p)) = Len(q) + 1 /\ Len(q) \in Nat
  OBVIOUS
<1>1. Append(q, p) \in Seq(S) /\ Append(q, p) # <<>> /\ Len(Append(q, p)) = Len(q) + 1
  BY <1>0
<1>2. /\ DOMAIN q = 1..Len(q) /\ DOMAIN Append(q, p) = 1..(Len(q) + 1)
      /\ \A i \in 1..Len(q) : Append(q, p)[i] = q[i]
      /\ Append(q, p)[Len(q) + 1] = p /\ Len(q) \in Nat
  OBVIOUS
<1>3. IsInjective(Append(q, p))
  BY <1>2 DEF IsInjective, Range
<1>4. Range(Append(q, p)) = Range(q) \cup {p}
  BY <1>2 DEF Range
<1>5. ASSUME q # <<>> PROVE Head(Append(q, p)) = Head(q)
  <2>1. 1 \in 1..Len(q) /\ Head(q) = q[1] /\ Head(Append(q, p)) = Append(q, p)[1]
    BY <1>1, <1>5
  <2> QED
    BY <1>2, <2>1
<1> QED
  BY <1>1, <1>3, <1>4, <1>5

\* The head leaves, and nothing else does.
LEMMA TailFacts ==
    ASSUME NEW S, NEW q \in Seq(S), IsInjective(q), q # <<>>
    PROVE  /\ Tail(q) \in Seq(S) /\ IsInjective(Tail(q))
           /\ Len(Tail(q)) = Len(q) - 1
           /\ Head(q) \in Range(q)
           /\ Range(Tail(q)) = Range(q) \ {Head(q)}
<1>1. /\ Tail(q) \in Seq(S) /\ Len(Tail(q)) = Len(q) - 1 /\ Len(q) \in Nat \ {0}
      /\ Head(q) = q[1]
      /\ DOMAIN q = 1..Len(q) /\ DOMAIN Tail(q) = 1..(Len(q) - 1)
      /\ \A i \in 1..(Len(q) - 1) : Tail(q)[i] = q[i + 1]
  OBVIOUS
<1>2. IsInjective(Tail(q))
  <2> SUFFICES ASSUME NEW i \in 1..(Len(q) - 1), NEW j \in 1..(Len(q) - 1), Tail(q)[i] = Tail(q)[j]
               PROVE  i = j
    BY <1>1 DEF IsInjective
  <2>1. i + 1 \in 1..Len(q) /\ j + 1 \in 1..Len(q) /\ q[i + 1] = q[j + 1]
    BY <1>1
  <2> QED
    BY <1>1, <2>1 DEF IsInjective
<1>3. Head(q) \in Range(q)
  BY <1>1 DEF Range
<1>4. ASSUME NEW x \in Range(Tail(q)) PROVE x \in Range(q) \ {Head(q)}
  <2>1. PICK i \in 1..(Len(q) - 1) : x = q[i + 1]
    BY <1>1 DEF Range
  <2>2. i + 1 \in 1..Len(q) /\ 1 \in 1..Len(q) /\ i + 1 # 1
    BY <1>1
  <2> QED
    BY <1>1, <2>1, <2>2 DEF Range, IsInjective
<1>5. ASSUME NEW x \in Range(q) \ {Head(q)} PROVE x \in Range(Tail(q))
  <2>1. PICK i \in 1..Len(q) : x = q[i]
    BY <1>1 DEF Range
  <2>2. i - 1 \in 1..(Len(q) - 1) /\ (i - 1) + 1 = i
    BY <1>1, <2>1
  <2>3. Tail(q)[i - 1] = x
    BY <1>1, <2>1, <2>2
  <2> QED
    BY <1>1, <2>2, <2>3 DEF Range
<1> QED
  BY <1>1, <1>2, <1>3, <1>4, <1>5

\* The call that holds the mutex is the only one that is past its start.
LEMMA HolderFacts ==
    ASSUME TypeOK, HolderInv, NEW p \in Ops, NEW stage, Holds(p, stage)
    PROVE  /\ op[p].at = stage /\ p \in Range(queue) /\ op[p] # Idle /\ queue # <<>> /\ p = Head(queue)
           /\ \A q \in Ops : q # p => op[q].at = "start"
<1>1. queue \in Seq(Ops) /\ IsInjective(queue) /\ queue # <<>> /\ Head(queue) = p /\ op[p].at = stage
  BY DEF TypeOK, CallsOK, Holds
<1>2. p \in Range(queue)
  BY <1>1, TailFacts
<1> QED
  BY <1>1, <1>2 DEF HolderInv, TypeOK, CallsOK

-----------------------------------------------------------------------------
(* The queue and the calls in it.                                          *)

LEMMA CallRecords ==
    /\ Idle \in Calls
    /\ \A k \in Kinds, id \in Sessions \cup {NoSession} :
          Call(k, id) \in Calls /\ Call(k, id).at = "start" /\ Call(k, id).kind = k /\ Call(k, id).id = id
             /\ Call(k, id) # Idle
    /\ \A c \in Calls : c.at # "start" => c # Idle
    /\ Idle.at = "start" /\ Idle.kind = "idle"
<1>1. Idle \in Calls /\ Idle.at = "start" /\ Idle.kind = "idle"
  BY DEF Idle, Call, Calls, Stages
<1>2. ASSUME NEW k \in Kinds, NEW id \in Sessions \cup {NoSession}
      PROVE  Call(k, id) \in Calls /\ Call(k, id).at = "start" /\ Call(k, id).kind = k /\ Call(k, id).id = id
                /\ Call(k, id) # Idle
  <2>1. Call(k, id) \in Calls /\ Call(k, id).at = "start" /\ Call(k, id).kind = k /\ Call(k, id).id = id
    BY DEF Call, Calls, Stages, Kinds
  <2> QED
    BY <1>1, <2>1 DEF Kinds
<1> QED
  BY <1>1, <1>2

LEMMA EnqueueKeepsCalls ==
    ASSUME CallsOK, NEW p \in Ops, NEW kind \in Kinds,
           NEW id \in Sessions \cup {NoSession}, Enqueue(p, kind, id)
    PROVE  /\ CallsOK'
           /\ op' = [op EXCEPT ![p] = Call(kind, id)]
           /\ queue # <<>> => queue' # <<>> /\ Head(queue') = Head(queue)
           /\ queue' # <<>> /\ Range(queue') = Range(queue) \cup {p} /\ p \notin Range(queue)
<1>1. p \notin Range(queue)
  BY DEF Enqueue, CallsOK
<1>2. /\ queue' \in Seq(Ops) /\ IsInjective(queue') /\ queue' # <<>>
      /\ Range(queue') = Range(queue) \cup {p}
      /\ queue # <<>> => Head(queue') = Head(queue)
  BY <1>1, AppendFacts DEF Enqueue, CallsOK
<1>3. op' = [op EXCEPT ![p] = Call(kind, id)]
  BY DEF Enqueue
<1>4. Call(kind, id) \in Calls /\ Call(kind, id) # Idle
  BY CallRecords
<1> QED
  BY <1>1, <1>2, <1>3, <1>4 DEF CallsOK

\* A call that holds the mutex takes a step and keeps it.
LEMMA StepKeepsCalls ==
    ASSUME CallsOK, NEW p \in Ops, p \in Range(queue), NEW c \in Calls, c # Idle,
           op' = [op EXCEPT ![p] = c], queue' = queue
    PROVE  CallsOK'
  BY DEF CallsOK

LEMMA FinishKeepsCalls ==
    ASSUME CallsOK, NEW p \in Ops, queue # <<>>, Head(queue) = p, Finish(p)
    PROVE  CallsOK' /\ Range(queue') = Range(queue) \ {p} /\ op' = [op EXCEPT ![p] = Idle]
<1>1. /\ queue' \in Seq(Ops) /\ IsInjective(queue')
      /\ Range(queue') = Range(queue) \ {p}
  BY TailFacts DEF Finish, CallsOK
<1>2. op' = [op EXCEPT ![p] = Idle] /\ Idle \in Calls
  BY CallRecords DEF Finish
<1> QED
  BY <1>1, <1>2 DEF CallsOK

LEMMA FinishAppendingKeepsCalls ==
    ASSUME CallsOK, NEW p \in Ops, queue # <<>>, Head(queue) = p, FinishAppending(p)
    PROVE  /\ CallsOK' /\ Range(queue') = Range(queue) /\ queue' # <<>>
           /\ op' = [op EXCEPT ![p] = Call("touch", NoSession)]
<1>1. /\ Tail(queue) \in Seq(Ops) /\ IsInjective(Tail(queue)) /\ p \in Range(queue)
      /\ Range(Tail(queue)) = Range(queue) \ {p}
  BY TailFacts DEF CallsOK
<1>2. queue' \in Seq(Ops) /\ IsInjective(queue') /\ Range(queue') = Range(queue) /\ queue' # <<>>
  <2>1. p \notin Range(Tail(queue)) /\ queue' = Append(Tail(queue), p)
    BY <1>1 DEF FinishAppending
  <2>2. /\ queue' \in Seq(Ops) /\ IsInjective(queue') /\ queue' # <<>>
        /\ Range(queue') = Range(Tail(queue)) \cup {p}
    <3> DEFINE q == Tail(queue)
    <3>1. q \in Seq(Ops) /\ IsInjective(q) /\ p \notin Range(q)
      BY <1>1, <2>1
    <3> HIDE DEF q
    <3>2. /\ Append(q, p) \in Seq(Ops) /\ IsInjective(Append(q, p)) /\ Append(q, p) # <<>>
          /\ Range(Append(q, p)) = Range(q) \cup {p}
      BY <3>1, AppendFacts
    <3> QED
      BY <2>1, <3>2 DEF q
  <2> QED
    BY <1>1, <2>2
<1>3. /\ op' = [op EXCEPT ![p] = Call("touch", NoSession)]
      /\ Call("touch", NoSession) \in Calls
      /\ Call("touch", NoSession) # Idle
  BY CallRecords DEF FinishAppending, Kinds
<1> QED
  BY <1>1, <1>2, <1>3 DEF CallsOK

\* The daemon that starts has one call, its initialize().
LEMMA BootingCalls ==
    ASSUME NEW p \in Ops, queue' = <<p>>,
           op' = [q \in Ops |-> IF q = p THEN Call("boot", NoSession) ELSE Idle]
    PROVE  CallsOK' /\ Range(queue') = {p} /\ Len(queue') = 1
<1>1. queue' \in Seq(Ops) /\ IsInjective(queue') /\ Range(queue') = {p} /\ Len(queue') = 1
  BY DEF IsInjective, Range
<1>2. Call("boot", NoSession) \in Calls
      /\ Call("boot", NoSession) # Idle /\ Idle \in Calls
  BY CallRecords DEF Kinds
<1> QED
  BY <1>1, <1>2 DEF CallsOK

\* What the holder may do with the queue: take a step and keep it, or return and let the next one in.
LEMMA HolderKeepsCalls ==
    ASSUME CallsOK, NEW p \in Ops, p \in Range(queue), queue' = queue,
           op' = [op EXCEPT ![p] = op'[p]], op'[p] \in Calls, op'[p].at # "start"
    PROVE  CallsOK'
  BY StepKeepsCalls, CallRecords

\* The Summarizer does not take the mutex.
LEMMA SumKeepsCalls ==
    ASSUME NEW run \in sums, SumStep(run) \/ SumFails(run) PROVE queue' = queue /\ op' = op
<1>1. SumReadMeta(run) \/ SumLoad(run) \/ SumRemove(run) \/ SumWrite(run) \/ SumFails(run)
  BY DEF SumStep
<1>2. ASSUME SumReadMeta(run) \/ SumLoad(run) \/ SumFails(run) PROVE queue' = queue /\ op' = op
  BY <1>2 DEF SumReadMeta, SumLoad, SumFails
<1>3. ASSUME SumRemove(run) \/ SumWrite(run) PROVE queue' = queue /\ op' = op
  <2>1. SumRemove(run) => queue' = queue /\ op' = op
    BY DEF SumRemove
  <2>2. SumWrite(run) => queue' = queue /\ op' = op
    BY DEF SumWrite
  <2> QED
    BY <1>3, <2>1, <2>2
<1> QED
  BY <1>1, <1>2, <1>3

\* The queue stays a queue of the calls under way.
LEMMA CallsStep == TypeOK /\ HolderInv /\ [Next]_vars => CallsOK'
<1> SUFFICES ASSUME TypeOK, HolderInv, [Next]_vars PROVE CallsOK'
  OBVIOUS
<1>a. /\ CallsOK /\ op \in [Ops -> Calls]
      /\ meta \in [Sessions -> Metas \cup {NoMeta}] /\ minted \in 0..MaxSessions /\ Known \subseteq Sessions
      /\ activeId \in Sessions \cup {NoSession} /\ activeFile \in Sessions \cup {NoSession}
  BY ManagerAssumption DEF TypeOK, CallsOK, DataOK, Known, Sessions
<1>b. ASSUME NEW p \in Ops, NEW kind \in {"new", "open", "delete", "rename", "touch"},
             NEW id \in Sessions \cup {NoSession}, Enqueue(p, kind, id)
      PROVE  CallsOK'
  BY <1>a, <1>b, EnqueueKeepsCalls DEF Kinds
<1>1. ASSUME NEW p \in Ops, NewSession(p) PROVE CallsOK'
  <2>1. \E id \in Sessions \cup {NoSession} : Enqueue(p, "new", id)
    BY <1>a, <1>1 DEF NewSession, Request
  <2> QED
    BY <2>1, <1>b
<1>2. ASSUME NEW p \in Ops, OpenSession(p) PROVE CallsOK'
  <2>1. \E id \in Sessions \cup {NoSession} : Enqueue(p, "open", id)
    BY <1>a, <1>2 DEF OpenSession, Request
  <2> QED
    BY <2>1, <1>b
<1>3. ASSUME NEW p \in Ops, DeleteSession(p) PROVE CallsOK'
  <2>1. \E id \in Sessions \cup {NoSession} : Enqueue(p, "delete", id)
    BY <1>a, <1>3 DEF DeleteSession, Request
  <2> QED
    BY <2>1, <1>b
<1>4. ASSUME NEW p \in Ops, RenameSession(p) PROVE CallsOK'
  <2>1. \E id \in Sessions \cup {NoSession} : Enqueue(p, "rename", id)
    BY <1>a, <1>4 DEF RenameSession, Request
  <2> QED
    BY <2>1, <1>b
<1>5. ASSUME NEW p \in Ops, AppendEvent(p) PROVE CallsOK'
  <2>1. Enqueue(p, "touch", NoSession) /\ NoSession \in Sessions \cup {NoSession}
    BY <1>5 DEF AppendEvent
  <2> QED
    BY <2>1, <1>b
<1>6. ASSUME NEW p \in Ops, BeginNew(p) PROVE CallsOK'
  <2>1. Holds(p, "start") /\ p \in Range(queue) /\ queue # <<>> /\ Head(queue) = p
    BY <1>6, HolderFacts DEF BeginNew, StartClose
  <2>2. queue' = queue /\ op' = [op EXCEPT ![p] = op'[p]] /\ op'[p] \in Calls /\ op'[p].at # "start"
    BY <1>a, <1>6 DEF BeginNew, StartClose, Calls, Stages
  <2> QED
    BY <1>a, <2>1, <2>2, HolderKeepsCalls
<1>7. ASSUME NEW p \in Ops, BeginOpen(p) PROVE CallsOK'
  <2>1. Holds(p, "start") /\ p \in Range(queue) /\ queue # <<>> /\ Head(queue) = p
    BY <1>7, HolderFacts DEF BeginOpen
  <2>2. CASE Finish(p)
    BY <1>a, <2>1, <2>2, FinishKeepsCalls
  <2>3. CASE ~Finish(p)
    <3>1. queue' = queue /\ op' = [op EXCEPT ![p] = op'[p]] /\ op'[p] \in Calls /\ op'[p].at # "start"
      BY <1>a, <1>7, <2>3 DEF BeginOpen, Calls, Stages
    <3> QED
      BY <1>a, <2>1, <3>1, HolderKeepsCalls
  <2> QED
    BY <2>2, <2>3
<1>8. ASSUME NEW p \in Ops, OpenAfterRead(p) PROVE CallsOK'
  <2>1. Holds(p, "opening") /\ p \in Range(queue) /\ queue # <<>> /\ Head(queue) = p
    BY <1>8, HolderFacts DEF OpenAfterRead, StartClose
  <2>2. queue' = queue /\ op' = [op EXCEPT ![p] = op'[p]] /\ op'[p] \in Calls /\ op'[p].at # "start"
    BY <1>a, <1>8 DEF OpenAfterRead, StartClose, Calls, Stages
  <2> QED
    BY <1>a, <2>1, <2>2, HolderKeepsCalls
<1>9. ASSUME NEW p \in Ops, CloseOld(p) PROVE CallsOK'
  <2>1. Holds(p, "closing") /\ p \in Range(queue) /\ queue # <<>> /\ Head(queue) = p
    BY <1>9, HolderFacts DEF CloseOld, Goto
  <2>2. queue' = queue /\ op' = [op EXCEPT ![p] = op'[p]] /\ op'[p] \in Calls /\ op'[p].at # "start"
    BY <1>a, <1>9 DEF CloseOld, Goto, Calls, Stages
  <2> QED
    BY <1>a, <2>1, <2>2, HolderKeepsCalls
<1>10. ASSUME NEW p \in Ops, Mint(p) PROVE CallsOK'
  <2>1. Holds(p, "minting") /\ p \in Range(queue) /\ queue # <<>> /\ Head(queue) = p
    BY <1>10, HolderFacts DEF Mint
  <2>2. queue' = queue /\ op' = [op EXCEPT ![p] = op'[p]] /\ op'[p] \in Calls /\ op'[p].at # "start"
    <3>1. minted' \in Sessions /\ FreshMeta \in Metas
      BY <1>a, <1>10, ManagerAssumption DEF Mint, Sessions, FreshMeta, Metas
    <3>2. queue' = queue
             /\ op' = [op EXCEPT ![p] = [op[p] EXCEPT !.at = "attaching", !.id = minted', !.target = FreshMeta]]
      BY <1>a, <1>10 DEF Mint
    <3>3. /\ [op[p] EXCEPT !.at = "attaching", !.id = minted', !.target = FreshMeta] \in Calls
          /\ [op[p] EXCEPT !.at = "attaching", !.id = minted', !.target = FreshMeta].at # "start"
      BY <1>a, <3>1 DEF Calls, Stages
    <3> QED
      BY <1>a, <3>2, <3>3
  <2> QED
    BY <1>a, <2>1, <2>2, HolderKeepsCalls
<1>11. ASSUME NEW p \in Ops, Reopen(p) PROVE CallsOK'
  <2>1. Holds(p, "reopening") /\ p \in Range(queue) /\ queue # <<>> /\ Head(queue) = p
    BY <1>11, HolderFacts DEF Reopen, Goto
  <2>2. queue' = queue /\ op' = [op EXCEPT ![p] = op'[p]] /\ op'[p] \in Calls /\ op'[p].at # "start"
    BY <1>a, <1>11 DEF Reopen, Goto, Calls, Stages
  <2> QED
    BY <1>a, <2>1, <2>2, HolderKeepsCalls
<1>12. ASSUME NEW p \in Ops, Attach(p) PROVE CallsOK'
  <2>1. Holds(p, "attaching") /\ p \in Range(queue) /\ queue # <<>> /\ Head(queue) = p
    BY <1>12, HolderFacts DEF Attach, Goto
  <2>2. queue' = queue /\ op' = [op EXCEPT ![p] = op'[p]] /\ op'[p] \in Calls /\ op'[p].at # "start"
    BY <1>a, <1>12 DEF Attach, Goto, Calls, Stages
  <2> QED
    BY <1>a, <2>1, <2>2, HolderKeepsCalls
<1>13. ASSUME NEW p \in Ops, Activate(p) PROVE CallsOK'
  <2>1. Holds(p, "activating") /\ p \in Range(queue) /\ queue # <<>> /\ Head(queue) = p
    BY <1>13, HolderFacts DEF Activate, Goto
  <2>2. op[p].kind \in {"new", "open", "boot"}
    BY <2>1 DEF Holds, HolderInv
  <2>3. CASE Goto(p, "fixing")
    <3>1. queue' = queue /\ op' = [op EXCEPT ![p] = op'[p]] /\ op'[p] \in Calls /\ op'[p].at # "start"
      BY <1>a, <2>3 DEF Goto, Calls, Stages
    <3> QED
      BY <1>a, <2>1, <3>1, HolderKeepsCalls
  <2>4. Goto(p, "fixing") \/ Finish(p) \/ FinishAppending(p)
    BY <1>a, <1>13, <2>2 DEF Activate, Calls
  <2> QED
    BY <1>a, <2>1, <2>3, <2>4, FinishKeepsCalls, FinishAppendingKeepsCalls
<1>14. ASSUME NEW p \in Ops, Delete(p) PROVE CallsOK'
  <2>1. Holds(p, "start") /\ p \in Range(queue) /\ queue # <<>> /\ Head(queue) = p
    BY <1>14, HolderFacts DEF Delete
  <2>2. Finish(p)
    BY <1>14 DEF Delete
  <2> QED
    BY <1>a, <2>1, <2>2, FinishKeepsCalls
<1>15. ASSUME NEW p \in Ops, BeginRename(p) PROVE CallsOK'
  <2>1. Holds(p, "start") /\ p \in Range(queue) /\ queue # <<>> /\ Head(queue) = p
    BY <1>15, HolderFacts DEF BeginRename, ReadBack
  <2>2. CASE Finish(p)
    BY <1>a, <2>1, <2>2, FinishKeepsCalls
  <2>3. CASE ~Finish(p)
    <3>1. queue' = queue /\ op' = [op EXCEPT ![p] = op'[p]] /\ op'[p] \in Calls /\ op'[p].at # "start"
      BY <1>a, <1>15, <2>3 DEF BeginRename, ReadBack, Calls, Stages
    <3> QED
      BY <1>a, <2>1, <3>1, HolderKeepsCalls
  <2> QED
    BY <2>2, <2>3
<1>16. ASSUME NEW p \in Ops, Rename(p) PROVE CallsOK'
  <2>1. Holds(p, "renaming") /\ p \in Range(queue) /\ queue # <<>> /\ Head(queue) = p
    BY <1>16, HolderFacts DEF Rename, WriteBack
  <2>2. Finish(p)
    BY <1>16 DEF Rename, WriteBack
  <2> QED
    BY <1>a, <2>1, <2>2, FinishKeepsCalls
<1>17. ASSUME NEW p \in Ops, BeginTouch(p) PROVE CallsOK'
  <2>1. Holds(p, "start") /\ p \in Range(queue) /\ queue # <<>> /\ Head(queue) = p
    BY <1>17, HolderFacts DEF BeginTouch, ReadBack
  <2>2. CASE Finish(p)
    BY <1>a, <2>1, <2>2, FinishKeepsCalls
  <2>3. CASE ~Finish(p)
    <3>1. queue' = queue /\ op' = [op EXCEPT ![p] = op'[p]] /\ op'[p] \in Calls /\ op'[p].at # "start"
      BY <1>a, <1>17, <2>3 DEF BeginTouch, ReadBack, Calls, Stages
    <3> QED
      BY <1>a, <2>1, <3>1, HolderKeepsCalls
  <2> QED
    BY <2>2, <2>3
<1>18. ASSUME NEW p \in Ops, Touch(p) PROVE CallsOK'
  <2>1. Holds(p, "touching") /\ p \in Range(queue) /\ queue # <<>> /\ Head(queue) = p
    BY <1>18, HolderFacts DEF Touch, WriteBack
  <2>2. Finish(p)
    BY <1>18 DEF Touch, WriteBack
  <2> QED
    BY <1>a, <2>1, <2>2, FinishKeepsCalls
<1>19. ASSUME NEW p \in Ops, Boot(p) PROVE CallsOK'
  <2>1. Holds(p, "start") /\ p \in Range(queue) /\ queue # <<>> /\ Head(queue) = p
    BY <1>19, HolderFacts DEF Boot
  <2>2. queue' = queue /\ op' = [op EXCEPT ![p] = op'[p]] /\ op'[p] \in Calls /\ op'[p].at # "start"
    BY <1>a, <1>19 DEF Boot, Calls, Stages
  <2> QED
    BY <1>a, <2>1, <2>2, HolderKeepsCalls
<1>20. ASSUME NEW p \in Ops, Fix(p) PROVE CallsOK'
  <2>1. Holds(p, "fixing") /\ p \in Range(queue) /\ queue # <<>> /\ Head(queue) = p
    BY <1>20, HolderFacts DEF Fix
  <2>2. FinishAppending(p)
    BY <1>20 DEF Fix
  <2> QED
    BY <1>a, <2>1, <2>2, FinishAppendingKeepsCalls
<1>21. ASSUME NEW run \in sums, SumStep(run) \/ SumFails(run) PROVE CallsOK'
  BY <1>a, <1>21, SumKeepsCalls DEF CallsOK
<1>22. ASSUME NEW s \in Sessions, ReadJournal(s) \/ Flush(s) PROVE CallsOK'
  BY <1>a, <1>22 DEF CallsOK, ReadJournal, Flush
<1>23. CASE Crash
  BY <1>23, BootingCalls DEF Crash
<1>24. CASE UNCHANGED vars
  BY <1>a, <1>24 DEF CallsOK, vars
<1> QED
  BY <1>1, <1>2, <1>3, <1>4, <1>5, <1>6, <1>7, <1>8, <1>9, <1>10, <1>11, <1>12, <1>13, <1>14, <1>15,
     <1>16, <1>17, <1>18, <1>19, <1>20, <1>21, <1>22, <1>23, <1>24 DEF Next, CommandStep, OpStep

-----------------------------------------------------------------------------
(* The types of the rest.                                                  *)

LEMMA MetaFields ==
    /\ \A m \in Metas : m.title \in {"none", "auto", "user"} /\ m.status \in {"active", "closed"} /\ m # NoMeta
    /\ FreshMeta \in Metas /\ FreshMeta.status = "active" /\ NoMeta.status = "none"
<1>1. \A m \in Metas : m.title \in {"none", "auto", "user"} /\ m.status \in {"active", "closed"}
  BY DEF Metas
<1>2. FreshMeta \in Metas /\ FreshMeta.status = "active" /\ NoMeta.status = "none"
  BY DEF Metas, FreshMeta, NoMeta
<1> QED
  BY <1>1, <1>2

LEMMA StatusUpdate ==
    ASSUME NEW m \in Metas, NEW status \in {"active", "closed"}
    PROVE  [m EXCEPT !.status = status] \in Metas /\ [m EXCEPT !.status = status].status = status
  BY DEF Metas

LEMMA TitleUpdate ==
    ASSUME NEW m \in Metas, NEW title \in {"none", "auto", "user"}
    PROVE  [m EXCEPT !.title = title] \in Metas /\ [m EXCEPT !.title = title].status = m.status
  BY DEF Metas

LEMMA SummaryUpdate ==
    ASSUME NEW m \in Metas, NEW summary \in BOOLEAN
    PROVE  /\ [m EXCEPT !.title = "auto", !.summary = summary] \in Metas
           /\ [m EXCEPT !.title = "auto", !.summary = summary].status = m.status
  BY DEF Metas

LEMMA WriteKeepsTypes ==
    ASSUME DataOK, NEW who \in {"mutex", "summarizer"}, NEW s \in Sessions, NEW new \in Metas, NEW read,
           Write(who, s, read, new), minted' \in minted..MaxSessions, s <= minted'
    PROVE  /\ meta' \in [Sessions -> Metas \cup {NoMeta}] /\ writer' \in [Sessions -> {"mutex", "summarizer"}]
           /\ \A t \in Sessions : t > minted' => meta'[t] = NoMeta
  BY DEF DataOK, Write, Sessions

LEMMA RemoveKeepsTypes ==
    ASSUME DataOK, NEW s \in Sessions, RemoveDir(s), minted' = minted
    PROVE  /\ meta' \in [Sessions -> Metas \cup {NoMeta}]
           /\ journal' \in [Sessions -> {"none", "empty", "buffered", "events"}] /\ linked' \in BOOLEAN
           /\ \A t \in Sessions : t > minted' => meta'[t] = NoMeta
  BY DEF DataOK, RemoveDir

LEMMA BufferedTypes ==
    ASSUME DataOK PROVE Buffered \in [Sessions -> {"none", "empty", "buffered", "events"}]
  BY DEF DataOK, Buffered

LEMMA DataStep == ManagerInv /\ [Next]_vars => DataOK'
<1> SUFFICES ASSUME ManagerInv, [Next]_vars PROVE DataOK'
  OBVIOUS
<1>a. TypeOK /\ DataOK /\ HolderInv /\ IdsInv /\ op \in [Ops -> Calls] /\ Known \subseteq Sessions
      /\ activeId \in Sessions \cup {NoSession} /\ MaxSessions \in Nat /\ minted \in 0..MaxSessions
      /\ \A s \in Known : s \in Sessions /\ s <= minted
  BY ManagerAssumption DEF ManagerInv, TypeOK, CallsOK, DataOK, Known, Sessions
<1>1. ASSUME NEW p \in Ops, NewSession(p) \/ OpenSession(p) \/ DeleteSession(p) \/ RenameSession(p) PROVE DataOK'
  <2>1. UNCHANGED <<meta, journal, activeFile, activeId, linked, ready, sums, minted, runs, crashes, writer, discarded>>
        /\ commands' = commands + 1
    BY <1>1 DEF NewSession, OpenSession, DeleteSession, RenameSession, Request, diskVars, memoryVars, history
  <2> QED
    BY <1>a, <2>1 DEF DataOK
<1>2. ASSUME NEW p \in Ops, AppendEvent(p) PROVE DataOK'
  BY <1>a, <1>2, BufferedTypes DEF DataOK, AppendEvent, memoryVars, history
<1>3. ASSUME NEW p \in Ops, BeginNew(p) \/ BeginOpen(p) \/ OpenAfterRead(p) \/ BeginRename(p) \/ BeginTouch(p) \/ Boot(p) PROVE DataOK'
  <2>1. UNCHANGED <<meta, journal, activeFile, activeId, linked, ready, sums, minted, runs, commands, crashes,
                    writer, discarded>>
    BY <1>3 DEF BeginNew, BeginOpen, OpenAfterRead, BeginRename, BeginTouch, ReadBack, Boot, diskVars,
       memoryVars, history
  <2> QED
    BY <1>a, <2>1 DEF DataOK
<1>4. ASSUME NEW p \in Ops, CloseOld(p) PROVE DataOK'
  <2>1. activeId \in Known /\ activeId \in Sessions /\ op[p].old \in Metas
    BY <1>a, <1>4 DEF CloseOld, Holds, IdsInv
  <2>2. [op[p].old EXCEPT !.status = "closed"] \in Metas
    BY <2>1, StatusUpdate
  <2>3. Write("mutex", activeId, op[p].old, [op[p].old EXCEPT !.status = "closed"]) /\ minted' = minted
    BY <1>4 DEF CloseOld
  <2>4. meta' \in [Sessions -> Metas \cup {NoMeta}] /\ writer' \in [Sessions -> {"mutex", "summarizer"}]
        /\ \A t \in Sessions : t > minted' => meta'[t] = NoMeta
    BY <1>a, <2>1, <2>2, <2>3, WriteKeepsTypes
  <2>5. [run |-> runs + 1, id |-> activeId, at |-> "reading", read |-> NoMeta] \in SumRuns
    BY <1>a, <2>1 DEF SumRuns, DataOK
  <2> QED
    BY <1>a, <1>4, <2>4, <2>5 DEF DataOK, CloseOld, memoryVars
<1>5. ASSUME NEW p \in Ops, Mint(p) PROVE DataOK'
  <2>1. minted' \in Sessions /\ minted' \in minted..MaxSessions /\ FreshMeta \in Metas
    BY <1>a, <1>5 DEF Mint, Sessions, FreshMeta, Metas
  <2>2. Write("mutex", minted', NoMeta, FreshMeta)
    BY <1>5 DEF Mint
  <2>3. meta' \in [Sessions -> Metas \cup {NoMeta}] /\ writer' \in [Sessions -> {"mutex", "summarizer"}]
        /\ \A t \in Sessions : t > minted' => meta'[t] = NoMeta
    <3>1. minted' <= minted'
      BY <2>1 DEF Sessions
    <3> QED
      BY <1>a, <2>1, <2>2, <3>1, WriteKeepsTypes
  <2> QED
    BY <1>a, <1>5, <2>1, <2>3 DEF DataOK, Mint, memoryVars
<1>6. ASSUME NEW p \in Ops, Reopen(p) PROVE DataOK'
  <2>1. op[p].id \in Known /\ op[p].target \in Metas
    BY <1>a, <1>6 DEF Reopen, Holds, IdsInv
  <2>2. [op[p].target EXCEPT !.status = "active"] \in Metas
    BY <2>1, StatusUpdate
  <2>3. Write("mutex", op[p].id, op[p].target, [op[p].target EXCEPT !.status = "active"]) /\ minted' = minted
    BY <1>6 DEF Reopen
  <2>4. meta' \in [Sessions -> Metas \cup {NoMeta}] /\ writer' \in [Sessions -> {"mutex", "summarizer"}]
        /\ \A t \in Sessions : t > minted' => meta'[t] = NoMeta
    BY <1>a, <2>1, <2>2, <2>3, WriteKeepsTypes
  <2> QED
    BY <1>a, <1>6, <2>4, BufferedTypes DEF DataOK, Reopen, FinishAppending, memoryVars
<1>7. ASSUME NEW p \in Ops, Fix(p) PROVE DataOK'
  <2>1. op[p].id \in Known /\ op[p].target \in Metas
    BY <1>a, <1>7 DEF Fix, Holds, IdsInv
  <2>2. [op[p].target EXCEPT !.status = "active"] \in Metas
    BY <2>1, StatusUpdate
  <2>3. Write("mutex", op[p].id, op[p].target, [op[p].target EXCEPT !.status = "active"]) /\ minted' = minted
    BY <1>7 DEF Fix
  <2>4. meta' \in [Sessions -> Metas \cup {NoMeta}] /\ writer' \in [Sessions -> {"mutex", "summarizer"}]
        /\ \A t \in Sessions : t > minted' => meta'[t] = NoMeta
    BY <1>a, <2>1, <2>2, <2>3, WriteKeepsTypes
  <2> QED
    BY <1>a, <1>7, <2>4, BufferedTypes DEF DataOK, Fix, FinishAppending, memoryVars
<1>8. ASSUME NEW p \in Ops, Rename(p) \/ Touch(p) PROVE DataOK'
  <2>1. op[p].id \in Known /\ op[p].target \in Metas
    BY <1>a, <1>8 DEF Rename, Touch, WriteBack, Holds, IdsInv
  <2>2. PICK title \in {"none", "auto", "user"} :
          Write("mutex", op[p].id, op[p].target, [op[p].target EXCEPT !.title = title])
    <3>1. CASE Rename(p)
      BY <3>1 DEF Rename, WriteBack
    <3>2. CASE Touch(p)
      <4>1. op[p].target.title \in {"none", "auto", "user"}
        BY <2>1, MetaFields
      <4> QED
        BY <3>2, <4>1 DEF Touch, WriteBack
    <3> QED
      BY <1>8, <3>1, <3>2
  <2>3. [op[p].target EXCEPT !.title = title] \in Metas
    BY <2>1, TitleUpdate
  <2>4. UNCHANGED <<journal, activeFile, memoryVars, sums, minted, runs, commands, crashes, discarded>>
    BY <1>8 DEF Rename, Touch, WriteBack
  <2>5. meta' \in [Sessions -> Metas \cup {NoMeta}] /\ writer' \in [Sessions -> {"mutex", "summarizer"}]
        /\ \A t \in Sessions : t > minted' => meta'[t] = NoMeta
    BY <1>a, <2>1, <2>2, <2>3, <2>4, WriteKeepsTypes
  <2> QED
    BY <1>a, <2>4, <2>5 DEF DataOK, memoryVars
<1>9. ASSUME NEW p \in Ops, Attach(p) PROVE DataOK'
  <2>1. op[p].id \in Sessions
    BY <1>a, <1>9 DEF Attach, Holds, IdsInv
  <2> QED
    BY <1>a, <1>9, <2>1 DEF DataOK, Attach, history
<1>10. ASSUME NEW p \in Ops, Activate(p) PROVE DataOK'
  <2>1. op[p].id \in Sessions /\ op[p].kind \in {"new", "open", "boot"}
    BY <1>a, <1>10 DEF Activate, Holds, IdsInv, HolderInv
  <2>2. /\ UNCHANGED <<meta, activeId, linked, sums, minted, runs, commands, crashes, writer, discarded>>
        /\ journal' = journal \/ journal' = Buffered
        /\ ready' = ready \/ ready' = TRUE
        /\ activeFile' = op[p].id
    BY <1>10, <2>1 DEF Activate, FinishAppending, history
  <2> QED
    BY <1>a, <2>1, <2>2, BufferedTypes DEF DataOK
<1>11. ASSUME NEW p \in Ops, Delete(p) PROVE DataOK'
  <2>1. op[p].id \in Sessions
    BY <1>a, <1>11 DEF Delete, Holds, IdsInv
  <2>2. /\ UNCHANGED <<activeFile, activeId, ready, sums, minted, runs, commands, crashes, discarded>>
        /\ \/ RemoveDir(op[p].id) /\ writer' = [writer EXCEPT ![op[p].id] = "mutex"]
           \/ UNCHANGED <<meta, journal, linked, writer>>
    BY <1>11 DEF Delete
  <2>3. CASE RemoveDir(op[p].id) /\ writer' = [writer EXCEPT ![op[p].id] = "mutex"]
    BY <1>a, <2>1, <2>2, <2>3, RemoveKeepsTypes DEF DataOK
  <2>4. CASE UNCHANGED <<meta, journal, linked, writer>>
    BY <1>a, <2>2, <2>4 DEF DataOK
  <2> QED
    BY <2>2, <2>3, <2>4
<1>12. ASSUME NEW run \in sums, SumReadMeta(run) \/ SumFails(run) PROVE DataOK'
  <2>1. run \in SumRuns /\ run.id \in Sessions
    BY <1>a DEF DataOK, SumRuns
  <2>2. meta[run.id] \in Metas \cup {NoMeta}
    BY <1>a, <2>1 DEF DataOK
  <2>3. [run EXCEPT !.at = "loading", !.read = meta[run.id]] \in SumRuns
    BY <2>1, <2>2 DEF SumRuns
  <2> QED
    BY <1>a, <1>12, <2>3 DEF DataOK, SumReadMeta, SumFails, EndRun, diskVars, memoryVars, history
<1>13. ASSUME NEW run \in sums, SumLoad(run) PROVE DataOK'
  <2>1. run \in SumRuns /\ run.id \in Sessions
    BY <1>a DEF DataOK, SumRuns
  <2>2. [run EXCEPT !.at = "summarizing"] \in SumRuns /\ [run EXCEPT !.at = "removing"] \in SumRuns
    BY <2>1 DEF SumRuns
  <2> QED
    BY <1>a, <1>13, <2>1, <2>2 DEF DataOK, SumLoad, memoryVars, history
<1>14. ASSUME NEW run \in sums, SumRemove(run) PROVE DataOK'
  <2>1. run.id \in Sessions
    BY <1>a DEF DataOK, SumRuns
  <2> QED
    BY <1>a, <1>14, <2>1, RemoveKeepsTypes DEF DataOK, SumRemove, EndRun
<1>15. ASSUME NEW run \in sums, SumWrite(run) PROVE DataOK'
  <2>1. run.id \in Known /\ run.read \in Metas
    BY <1>a, <1>15 DEF SumWrite, IdsInv
  <2>2. \E new \in Metas : Write("summarizer", run.id, run.read, new)
    <3>1. PICK summary \in BOOLEAN :
            Write("summarizer", run.id, run.read, [run.read EXCEPT !.title = "auto", !.summary = summary])
      BY <1>15, Zenon DEF SumWrite
    <3>2. [run.read EXCEPT !.title = "auto", !.summary = summary] \in Metas
      BY <2>1, SummaryUpdate, Zenon
    <3> QED
      BY <3>1, <3>2, Zenon
  <2>3. PICK new \in Metas : Write("summarizer", run.id, run.read, new)
    BY <2>2
  <2>4. /\ UNCHANGED <<journal, activeFile, memoryVars, minted, runs, commands, crashes, discarded>>
        /\ sums' \subseteq sums
    BY <1>15 DEF SumWrite, EndRun
  <2>5. meta' \in [Sessions -> Metas \cup {NoMeta}] /\ writer' \in [Sessions -> {"mutex", "summarizer"}]
        /\ \A t \in Sessions : t > minted' => meta'[t] = NoMeta
    BY <1>a, <2>1, <2>2, <2>3, <2>4, WriteKeepsTypes
  <2> QED
    BY <1>a, <2>4, <2>5 DEF DataOK, memoryVars
<1>16. ASSUME NEW s \in Sessions, ReadJournal(s) \/ Flush(s) PROVE DataOK'
  BY <1>a, <1>16 DEF DataOK, ReadJournal, Flush, memoryVars, history
<1>17. CASE Crash
  <2>1. /\ UNCHANGED <<meta, activeFile, minted, runs, commands, writer, discarded>>
        /\ crashes' = crashes + 1 /\ activeId' = NoSession /\ linked' = FALSE /\ ready' = FALSE /\ sums' = {}
        /\ journal' = [s \in Sessions |-> IF journal[s] = "buffered" THEN "empty" ELSE journal[s]]
    BY <1>17 DEF Crash, history
  <2> QED
    <3>1. journal' \in [Sessions -> {"none", "empty", "buffered", "events"}]
      BY <1>a, <2>1 DEF DataOK
    <3>2. sums' \subseteq SumRuns /\ crashes' \in Nat /\ activeId' \in Sessions \cup {NoSession}
      BY <1>a, <2>1 DEF DataOK
    <3> QED
      BY <1>a, <2>1, <3>1, <3>2 DEF DataOK
<1>18. CASE UNCHANGED vars
  BY <1>a, <1>18 DEF DataOK, vars, diskVars, memoryVars, history
<1> QED
  BY <1>1, <1>2, <1>3, <1>4, <1>5, <1>6, <1>7, <1>8, <1>9, <1>10, <1>11, <1>12, <1>13, <1>14, <1>15, <1>16, <1>17, <1>18 DEF Next, CommandStep, OpStep, SumStep

-----------------------------------------------------------------------------
(* What a step of the holder does to the calls.                            *)

\* p holds the mutex at some stage; nobody else is past the start, and nobody else moves.
Takes(p, at) ==
    /\ op[p].at = at /\ queue # <<>> /\ p = Head(queue) /\ p \in Range(queue)
    /\ \A q \in Ops : q # p => op[q].at = "start" /\ op'[q] = op[q]
\* It goes on to another stage, ...
Moves(p, at) == queue' = queue /\ op'[p].kind = op[p].kind /\ op'[p].at = at
Keeps(p) == op'[p].id = op[p].id /\ op'[p].target = op[p].target
\* ... returns, or returns and asks again for the touch() of what it appended.
Returns(p) == op'[p] = Idle /\ Range(queue') = Range(queue) \ {p}
Touches(p) == op'[p] = Call("touch", NoSession) /\ Range(queue') = Range(queue)

\* close(old) is about to write back what it read, or there is nothing to close.
Closes(p, next) ==
    \/ Moves(p, "closing") /\ activeId # NoSession /\ meta[activeId] # NoMeta /\ op'[p].old = meta[activeId]
    \/ Moves(p, next)
Reads(p, id, at) == Moves(p, at) /\ meta[id] # NoMeta /\ op'[p].id = id /\ op'[p].target = meta[id]

LEMMA TakesFacts ==
    ASSUME TypeOK, HolderInv, NEW p \in Ops, NEW at, Holds(p, at), NEW c, op' = [op EXCEPT ![p] = c]
    PROVE  Takes(p, at) /\ op'[p] = c
<1>1. op \in [Ops -> Calls]
  BY DEF TypeOK, CallsOK
<1> QED
  BY <1>1, HolderFacts DEF Takes

LEMMA ReturnFacts ==
    ASSUME TypeOK, HolderInv, NEW p \in Ops, NEW at, Holds(p, at), Finish(p)
    PROVE  Takes(p, at) /\ Returns(p)
<1>1. CallsOK /\ queue # <<>> /\ Head(queue) = p
  BY HolderFacts DEF TypeOK
<1> QED
  BY <1>1, FinishKeepsCalls, TakesFacts DEF Returns

LEMMA TouchFacts ==
    ASSUME TypeOK, HolderInv, NEW p \in Ops, NEW at, Holds(p, at), FinishAppending(p)
    PROVE  Takes(p, at) /\ Touches(p)
<1>1. CallsOK /\ queue # <<>> /\ Head(queue) = p
  BY HolderFacts DEF TypeOK
<1> QED
  BY <1>1, FinishAppendingKeepsCalls, TakesFacts DEF Touches

LEMMA BeginNewShape ==
    ASSUME TypeOK, HolderInv, NEW p \in Ops, BeginNew(p)
    PROVE  Takes(p, "start") /\ op[p].kind = "new" /\ Closes(p, "minting")
<1>a. op \in [Ops -> Calls] /\ Holds(p, "start") /\ op[p].at = "start"
  BY DEF BeginNew, Holds, TypeOK, CallsOK
<1>b. op[p].kind = "new"
  BY <1>a DEF HolderInv, BeginNew
<1>1. CASE activeId # NoSession /\ meta[activeId] # NoMeta
  <2>1. queue' = queue /\ op' = [op EXCEPT ![p] = [op[p] EXCEPT !.at = "closing", !.old = meta[activeId]]]
    BY <1>a, <1>1 DEF BeginNew, StartClose
  <2>2. Takes(p, "start") /\ op'[p] = [op[p] EXCEPT !.at = "closing", !.old = meta[activeId]]
    BY <1>a, <2>1, TakesFacts
  <2> QED
    BY <1>a, <1>b, <1>1, <2>1, <2>2 DEF Closes, Moves, Keeps, Calls
<1>2. CASE ~(activeId # NoSession /\ meta[activeId] # NoMeta)
  <2>1. queue' = queue /\ op' = [op EXCEPT ![p] = [op[p] EXCEPT !.at = "minting"]]
    BY <1>a, <1>b, <1>2 DEF BeginNew, StartClose
  <2>2. Takes(p, "start") /\ op'[p] = [op[p] EXCEPT !.at = "minting"]
    BY <1>a, <2>1, TakesFacts
  <2> QED
    BY <1>a, <1>b, <2>1, <2>2 DEF Closes, Moves, Keeps, Calls
<1> QED
  BY <1>1, <1>2

LEMMA BeginOpenShape ==
    ASSUME TypeOK, HolderInv, NEW p \in Ops, BeginOpen(p)
    PROVE  Takes(p, "start") /\ op[p].kind = "open"
              /\ (Returns(p) \/ (op[p].id # activeId /\ Reads(p, op[p].id, "opening")))
<1>a. op \in [Ops -> Calls] /\ Holds(p, "start") /\ op[p].at = "start"
  BY DEF BeginOpen, Holds, TypeOK, CallsOK
<1>1. CASE Finish(p)
  <2>1. op[p].kind = "open"
    BY DEF BeginOpen
  <2>2. Takes(p, "start") /\ Returns(p)
    BY <1>a, <1>1, ReturnFacts
  <2> QED
    BY <2>1, <2>2
<1>2. CASE ~Finish(p)
  <2>1. queue' = queue /\ op' = [op EXCEPT ![p] = [op[p] EXCEPT !.at = "opening", !.target = meta[op[p].id]]] /\ op[p].kind = "open"
        /\ op[p].id # activeId /\ meta[op[p].id] # NoMeta
    BY <1>a, <1>2 DEF BeginOpen
  <2>2. Takes(p, "start") /\ op'[p] = [op[p] EXCEPT !.at = "opening", !.target = meta[op[p].id]]
    BY <1>a, <2>1, TakesFacts
  <2> QED
    BY <1>a, <2>1, <2>2 DEF Reads, Moves, Calls
<1> QED
  BY <1>1, <1>2

LEMMA OpenAfterReadShape ==
    ASSUME TypeOK, HolderInv, NEW p \in Ops, OpenAfterRead(p)
    PROVE  Takes(p, "opening") /\ op[p].kind = "open" /\ Closes(p, "reopening") /\ Keeps(p)
<1>a. op \in [Ops -> Calls] /\ Holds(p, "opening") /\ op[p].at = "opening"
  BY DEF OpenAfterRead, Holds, TypeOK, CallsOK
<1>b. op[p].kind = "open"
  BY <1>a DEF HolderInv, OpenAfterRead
<1>1. CASE activeId # NoSession /\ meta[activeId] # NoMeta
  <2>1. queue' = queue /\ op' = [op EXCEPT ![p] = [op[p] EXCEPT !.at = "closing", !.old = meta[activeId]]]
    BY <1>a, <1>1 DEF OpenAfterRead, StartClose
  <2>2. Takes(p, "opening") /\ op'[p] = [op[p] EXCEPT !.at = "closing", !.old = meta[activeId]]
    BY <1>a, <2>1, TakesFacts
  <2> QED
    BY <1>a, <1>b, <1>1, <2>1, <2>2 DEF Closes, Moves, Keeps, Calls
<1>2. CASE ~(activeId # NoSession /\ meta[activeId] # NoMeta)
  <2>1. queue' = queue /\ op' = [op EXCEPT ![p] = [op[p] EXCEPT !.at = "reopening"]]
    BY <1>a, <1>b, <1>2 DEF OpenAfterRead, StartClose
  <2>2. Takes(p, "opening") /\ op'[p] = [op[p] EXCEPT !.at = "reopening"]
    BY <1>a, <2>1, TakesFacts
  <2> QED
    BY <1>a, <1>b, <2>1, <2>2 DEF Closes, Moves, Keeps, Calls
<1> QED
  BY <1>1, <1>2

LEMMA CloseOldShape ==
    ASSUME TypeOK, HolderInv, NEW p \in Ops, CloseOld(p)
    PROVE  Takes(p, "closing") /\ Keeps(p)
           /\ Moves(p, IF op[p].kind = "new" THEN "minting" ELSE "reopening")
<1>a. op \in [Ops -> Calls] /\ Holds(p, "closing") /\ op[p].at = "closing"
  BY DEF CloseOld, Holds, TypeOK, CallsOK
<1>1. queue' = queue /\ op' = [op EXCEPT ![p] = [op[p] EXCEPT !.at = IF op[p].kind = "new" THEN "minting" ELSE "reopening"]]
  BY <1>a DEF CloseOld, Goto
<1>2. Takes(p, "closing") /\ op'[p] = [op[p] EXCEPT !.at = IF op[p].kind = "new" THEN "minting" ELSE "reopening"]
  BY <1>a, <1>1, TakesFacts
<1> QED
  BY <1>a, <1>1, <1>2 DEF Moves, Keeps, Calls, CloseOld, Goto

LEMMA MintShape ==
    ASSUME TypeOK, HolderInv, NEW p \in Ops, Mint(p)
    PROVE  Takes(p, "minting") /\ Moves(p, "attaching")
           /\ op'[p].id = minted' /\ op'[p].target = FreshMeta
<1>a. op \in [Ops -> Calls] /\ Holds(p, "minting") /\ op[p].at = "minting"
  BY DEF Mint, Holds, TypeOK, CallsOK
<1>1. queue' = queue /\ op' = [op EXCEPT ![p] = [op[p] EXCEPT !.at = "attaching", !.id = minted', !.target = FreshMeta]]
  BY <1>a DEF Mint
<1>2. Takes(p, "minting") /\ op'[p] = [op[p] EXCEPT !.at = "attaching", !.id = minted', !.target = FreshMeta]
  BY <1>a, <1>1, TakesFacts
<1> QED
  BY <1>a, <1>1, <1>2 DEF Moves, Keeps, Calls, Mint

LEMMA ReopenShape ==
    ASSUME TypeOK, HolderInv, NEW p \in Ops, Reopen(p)
    PROVE  Takes(p, "reopening") /\ Moves(p, "attaching") /\ Keeps(p)
<1>a. op \in [Ops -> Calls] /\ Holds(p, "reopening") /\ op[p].at = "reopening"
  BY DEF Reopen, Holds, TypeOK, CallsOK
<1>1. queue' = queue /\ op' = [op EXCEPT ![p] = [op[p] EXCEPT !.at = "attaching"]]
  BY <1>a DEF Reopen, Goto
<1>2. Takes(p, "reopening") /\ op'[p] = [op[p] EXCEPT !.at = "attaching"]
  BY <1>a, <1>1, TakesFacts
<1> QED
  BY <1>a, <1>1, <1>2 DEF Moves, Keeps, Calls, Reopen, Goto

LEMMA AttachShape ==
    ASSUME TypeOK, HolderInv, NEW p \in Ops, Attach(p)
    PROVE  Takes(p, "attaching") /\ Moves(p, "activating") /\ Keeps(p)
<1>a. op \in [Ops -> Calls] /\ Holds(p, "attaching") /\ op[p].at = "attaching"
  BY DEF Attach, Holds, TypeOK, CallsOK
<1>1. queue' = queue /\ op' = [op EXCEPT ![p] = [op[p] EXCEPT !.at = "activating"]]
  BY <1>a DEF Attach, Goto
<1>2. Takes(p, "attaching") /\ op'[p] = [op[p] EXCEPT !.at = "activating"]
  BY <1>a, <1>1, TakesFacts
<1> QED
  BY <1>a, <1>1, <1>2 DEF Moves, Keeps, Calls, Attach, Goto

LEMMA ActivateShape ==
    ASSUME TypeOK, HolderInv, NEW p \in Ops, Activate(p)
    PROVE  Takes(p, "activating") /\ 
           \/ op[p].kind = "new" /\ Returns(p) /\ ready' = ready
           \/ op[p].kind = "open" /\ Touches(p) /\ ready' = ready
           \/ op[p].kind = "boot" /\ op[p].target.status = "active" /\ Touches(p) /\ ready' = TRUE
           \/ op[p].kind = "boot" /\ op[p].target.status # "active" /\ Moves(p, "fixing") /\ Keeps(p) /\ ready' = ready
<1>a. op \in [Ops -> Calls] /\ Holds(p, "activating") /\ op[p].at = "activating"
  BY DEF Activate, Holds, TypeOK, CallsOK
<1>b. op[p].kind \in {"new", "open", "boot"}
  BY <1>a DEF HolderInv
<1>1. CASE op[p].kind = "new"
  <2>1. Finish(p) /\ ready' = ready
    BY <1>1 DEF Activate
  <2> QED
    BY <1>a, <1>1, <2>1, ReturnFacts
<1>2. CASE op[p].kind = "open"
  <2>1. FinishAppending(p) /\ ready' = ready
    BY <1>2 DEF Activate
  <2> QED
    BY <1>a, <1>2, <2>1, TouchFacts
<1>3. CASE op[p].kind = "boot" /\ op[p].target.status = "active"
  <2>1. FinishAppending(p) /\ ready' = TRUE
    BY <1>3 DEF Activate
  <2> QED
    BY <1>a, <1>3, <2>1, TouchFacts
<1>4. CASE op[p].kind = "boot" /\ op[p].target.status # "active"
  <2>1. queue' = queue /\ op' = [op EXCEPT ![p] = [op[p] EXCEPT !.at = "fixing"]] /\ ready' = ready
    BY <1>a, <1>4 DEF Activate, Goto
  <2>2. Takes(p, "activating") /\ op'[p] = [op[p] EXCEPT !.at = "fixing"]
    BY <1>a, <2>1, TakesFacts
  <2> QED
    BY <1>a, <1>4, <2>1, <2>2 DEF Moves, Keeps, Calls
<1> QED
  BY <1>b, <1>1, <1>2, <1>3, <1>4

LEMMA DeleteShape ==
    ASSUME TypeOK, HolderInv, NEW p \in Ops, Delete(p)
    PROVE  Takes(p, "start") /\ op[p].kind = "delete" /\ Returns(p)
<1>a. op \in [Ops -> Calls] /\ Holds(p, "start") /\ op[p].at = "start"
  BY DEF Delete, Holds, TypeOK, CallsOK
<1> QED
  BY <1>a, ReturnFacts DEF Delete

LEMMA BeginRenameShape ==
    ASSUME TypeOK, HolderInv, NEW p \in Ops, BeginRename(p)
    PROVE  Takes(p, "start") /\ op[p].kind = "rename"
              /\ (Returns(p) \/ Reads(p, op[p].id, "renaming"))
<1>a. op \in [Ops -> Calls] /\ Holds(p, "start") /\ op[p].at = "start"
  BY DEF BeginRename, ReadBack, Holds, TypeOK, CallsOK
<1>1. CASE Finish(p)
  <2>1. op[p].kind = "rename"
    BY DEF BeginRename, ReadBack
  <2>2. Takes(p, "start") /\ Returns(p)
    BY <1>a, <1>1, ReturnFacts
  <2> QED
    BY <2>1, <2>2
<1>2. CASE ~Finish(p)
  <2>1. queue' = queue /\ op' = [op EXCEPT ![p] = [op[p] EXCEPT !.at = "renaming", !.id = op[p].id, !.target = meta[op[p].id]]] /\ op[p].kind = "rename"
        /\ meta[op[p].id] # NoMeta
    BY <1>a, <1>2 DEF BeginRename, ReadBack
  <2>2. Takes(p, "start") /\ op'[p] = [op[p] EXCEPT !.at = "renaming", !.id = op[p].id, !.target = meta[op[p].id]]
    BY <1>a, <2>1, TakesFacts
  <2> QED
    BY <1>a, <2>1, <2>2 DEF Reads, Moves, Calls
<1> QED
  BY <1>1, <1>2

LEMMA RenameShape ==
    ASSUME TypeOK, HolderInv, NEW p \in Ops, Rename(p)
    PROVE  Takes(p, "renaming") /\ Returns(p)
<1>a. op \in [Ops -> Calls] /\ Holds(p, "renaming") /\ op[p].at = "renaming"
  BY DEF Rename, WriteBack, Holds, TypeOK, CallsOK
<1> QED
  BY <1>a, ReturnFacts DEF Rename, WriteBack

LEMMA BeginTouchShape ==
    ASSUME TypeOK, HolderInv, NEW p \in Ops, BeginTouch(p)
    PROVE  Takes(p, "start") /\ op[p].kind = "touch"
              /\ (Returns(p) \/ (activeId # NoSession /\ Reads(p, activeId, "touching")))
<1>a. op \in [Ops -> Calls] /\ Holds(p, "start") /\ op[p].at = "start"
  BY DEF BeginTouch, ReadBack, Holds, TypeOK, CallsOK
<1>1. CASE Finish(p)
  <2>1. op[p].kind = "touch"
    BY DEF BeginTouch, ReadBack
  <2>2. Takes(p, "start") /\ Returns(p)
    BY <1>a, <1>1, ReturnFacts
  <2> QED
    BY <2>1, <2>2
<1>2. CASE ~Finish(p)
  <2>1. queue' = queue /\ op' = [op EXCEPT ![p] = [op[p] EXCEPT !.at = "touching", !.id = activeId, !.target = meta[activeId]]] /\ op[p].kind = "touch"
        /\ activeId # NoSession /\ meta[activeId] # NoMeta
    BY <1>a, <1>2 DEF BeginTouch, ReadBack
  <2>2. Takes(p, "start") /\ op'[p] = [op[p] EXCEPT !.at = "touching", !.id = activeId, !.target = meta[activeId]]
    BY <1>a, <2>1, TakesFacts
  <2> QED
    BY <1>a, <2>1, <2>2 DEF Reads, Moves, Calls
<1> QED
  BY <1>1, <1>2

LEMMA TouchShape ==
    ASSUME TypeOK, HolderInv, NEW p \in Ops, Touch(p)
    PROVE  Takes(p, "touching") /\ Returns(p)
<1>a. op \in [Ops -> Calls] /\ Holds(p, "touching") /\ op[p].at = "touching"
  BY DEF Touch, WriteBack, Holds, TypeOK, CallsOK
<1> QED
  BY <1>a, ReturnFacts DEF Touch, WriteBack

LEMMA BootShape ==
    ASSUME TypeOK, HolderInv, NEW p \in Ops, Boot(p)
    PROVE  Takes(p, "start") /\ op[p].kind = "boot"
           /\ \/ activeFile # NoSession /\ Reads(p, activeFile, "attaching")
              \/ ~(activeFile # NoSession /\ meta[activeFile] # NoMeta) /\ Moves(p, "minting")
<1>a. op \in [Ops -> Calls] /\ Holds(p, "start") /\ op[p].at = "start"
  BY DEF Boot, Holds, TypeOK, CallsOK
<1>1. CASE activeFile # NoSession /\ meta[activeFile] # NoMeta
  <2>1. /\ queue' = queue /\ op[p].kind = "boot"
        /\ op' = [op EXCEPT ![p] = [op[p] EXCEPT !.at = "attaching", !.id = activeFile, !.target = meta[activeFile]]]
    BY <1>a, <1>1 DEF Boot
  <2>2. /\ Takes(p, "start")
        /\ op'[p] = [op[p] EXCEPT !.at = "attaching", !.id = activeFile, !.target = meta[activeFile]]
    BY <1>a, <2>1, TakesFacts
  <2> QED
    BY <1>a, <1>1, <2>1, <2>2 DEF Reads, Moves, Calls
<1>2. CASE ~(activeFile # NoSession /\ meta[activeFile] # NoMeta)
  <2>1. queue' = queue /\ op' = [op EXCEPT ![p] = [op[p] EXCEPT !.at = "minting"]] /\ op[p].kind = "boot"
    BY <1>a, <1>2 DEF Boot
  <2>2. Takes(p, "start") /\ op'[p] = [op[p] EXCEPT !.at = "minting"]
    BY <1>a, <2>1, TakesFacts
  <2> QED
    BY <1>a, <1>2, <2>1, <2>2 DEF Moves, Calls
<1> QED
  BY <1>1, <1>2

LEMMA FixShape ==
    ASSUME TypeOK, HolderInv, NEW p \in Ops, Fix(p)
    PROVE  Takes(p, "fixing") /\ Touches(p)
<1>a. op \in [Ops -> Calls] /\ Holds(p, "fixing") /\ op[p].at = "fixing"
  BY DEF Fix, Holds, TypeOK, CallsOK
<1> QED
  BY <1>a, TouchFacts DEF Fix

-----------------------------------------------------------------------------
(* The mutex.                                                              *)

LEMMA HolderStep == ManagerInv /\ [Next]_vars => HolderInv'
<1> SUFFICES ASSUME ManagerInv, [Next]_vars PROVE HolderInv'
  OBVIOUS
<1>a. TypeOK /\ HolderInv /\ CallsOK /\ op \in [Ops -> Calls] /\ Known \subseteq Sessions
      /\ queue \in Seq(Ops) /\ Len(queue) \in Nat
  BY ManagerAssumption DEF ManagerInv, TypeOK, CallsOK, DataOK, Known, Sessions
<1>b. CallsOK' /\ op' \in [Ops -> Calls]
  BY <1>a, CallsStep DEF CallsOK
<1>c. \A p \in Ops : (op[p].at = "start" /\ op[p].kind = "idle") \/ p \in Range(queue)
  BY <1>a, CallRecords DEF CallsOK
<1>d. \A id \in Sessions \cup {NoSession} : Call("touch", id).at = "start" /\ Call("touch", id).kind = "touch"
  BY CallRecords DEF Kinds
<1>e. ASSUME NEW p \in Ops, NEW kind \in {"new", "open", "delete", "rename", "touch"},
             NEW id \in Sessions \cup {NoSession}, Enqueue(p, kind, id), ready, ready' = ready
      PROVE  HolderInv'
  <2>1. /\ op' = [op EXCEPT ![p] = Call(kind, id)] /\ queue' # <<>>
        /\ queue # <<>> => Head(queue') = Head(queue)
        /\ Range(queue') = Range(queue) \cup {p} /\ p \notin Range(queue)
    BY <1>a, <1>e, EnqueueKeepsCalls DEF Kinds
  <2>2. Call(kind, id).at = "start" /\ Call(kind, id).kind = kind
    BY CallRecords DEF Kinds
  <2> QED
    BY <1>a, <1>e, <2>1, <2>2 DEF HolderInv
<1>f. ~ready => \A p \in Range(queue) : p = Head(queue)
  <2> SUFFICES ASSUME ~ready, NEW p \in Range(queue) PROVE p = Head(queue)
    OBVIOUS
  <2>1. Len(queue) = 1
    BY <1>a DEF HolderInv
  <2>2. DOMAIN queue = {1} /\ Head(queue) = queue[1]
    BY <1>a, <2>1
  <2> QED
    BY <2>2 DEF Range
<1>1. ASSUME NEW p \in Ops, NewSession(p) PROVE HolderInv'
  <2>1. \E id \in Sessions \cup {NoSession} : Enqueue(p, "new", id) /\ ready /\ ready' = ready
    BY <1>a, <1>1 DEF NewSession, Request, memoryVars
  <2> QED
    BY <2>1, <1>e
<1>2. ASSUME NEW p \in Ops, OpenSession(p) PROVE HolderInv'
  <2>1. \E id \in Sessions \cup {NoSession} : Enqueue(p, "open", id) /\ ready /\ ready' = ready
    BY <1>a, <1>2 DEF OpenSession, Request, memoryVars
  <2> QED
    BY <2>1, <1>e
<1>3. ASSUME NEW p \in Ops, DeleteSession(p) PROVE HolderInv'
  <2>1. \E id \in Sessions \cup {NoSession} : Enqueue(p, "delete", id) /\ ready /\ ready' = ready
    BY <1>a, <1>3 DEF DeleteSession, Request, memoryVars
  <2> QED
    BY <2>1, <1>e
<1>4. ASSUME NEW p \in Ops, RenameSession(p) PROVE HolderInv'
  <2>1. \E id \in Sessions \cup {NoSession} : Enqueue(p, "rename", id) /\ ready /\ ready' = ready
    BY <1>a, <1>4 DEF RenameSession, Request, memoryVars
  <2> QED
    BY <2>1, <1>e
<1>5. ASSUME NEW p \in Ops, AppendEvent(p) PROVE HolderInv'
  <2>1. Enqueue(p, "touch", NoSession) /\ ready /\ ready' = ready /\ NoSession \in Sessions \cup {NoSession}
    BY <1>5 DEF AppendEvent, memoryVars
  <2> QED
    BY <2>1, <1>e
<1>6. ASSUME NEW p \in Ops, BeginNew(p) PROVE HolderInv'
  <2>1. sums' = sums /\ ready' = ready
    BY <1>6 DEF BeginNew, memoryVars
  <2> QED
    BY <1>a, <1>b, <1>c, <1>d, <1>6, <2>1, BeginNewShape, CallRecords
       DEF HolderInv, Takes, Moves, Keeps, Returns, Touches, Closes, Reads
<1>7. ASSUME NEW p \in Ops, BeginOpen(p) PROVE HolderInv'
  <2>1. sums' = sums /\ ready' = ready
    BY <1>7 DEF BeginOpen, memoryVars
  <2> QED
    BY <1>a, <1>b, <1>c, <1>d, <1>7, <2>1, BeginOpenShape, CallRecords
       DEF HolderInv, Takes, Moves, Keeps, Returns, Touches, Closes, Reads
<1>8. ASSUME NEW p \in Ops, OpenAfterRead(p) PROVE HolderInv'
  <2>1. sums' = sums /\ ready' = ready
    BY <1>8 DEF OpenAfterRead, memoryVars
  <2> QED
    BY <1>a, <1>b, <1>c, <1>d, <1>8, <2>1, OpenAfterReadShape, CallRecords
       DEF HolderInv, Takes, Moves, Keeps, Returns, Touches, Closes, Reads
<1>9. ASSUME NEW p \in Ops, CloseOld(p) PROVE HolderInv'
  <2>1. ready' = ready /\ ready
    BY <1>a, <1>9, CloseOldShape DEF CloseOld, HolderInv, memoryVars, Takes
  <2> QED
    BY <1>a, <1>b, <1>c, <1>d, <1>9, <2>1, CloseOldShape, CallRecords
       DEF HolderInv, Takes, Moves, Keeps, Returns, Touches, Closes, Reads
<1>10. ASSUME NEW p \in Ops, Mint(p) PROVE HolderInv'
  <2>1. sums' = sums /\ ready' = ready
    BY <1>10 DEF Mint, memoryVars
  <2> QED
    BY <1>a, <1>b, <1>c, <1>d, <1>10, <2>1, MintShape, CallRecords
       DEF HolderInv, Takes, Moves, Keeps, Returns, Touches, Closes, Reads
<1>11. ASSUME NEW p \in Ops, Reopen(p) PROVE HolderInv'
  <2>1. sums' = sums /\ ready' = ready
    BY <1>11 DEF Reopen, memoryVars
  <2> QED
    BY <1>a, <1>b, <1>c, <1>d, <1>11, <2>1, ReopenShape, CallRecords
       DEF HolderInv, Takes, Moves, Keeps, Returns, Touches, Closes, Reads
<1>12. ASSUME NEW p \in Ops, Attach(p) PROVE HolderInv'
  <2>1. sums' = sums /\ ready' = ready
    BY <1>12 DEF Attach, memoryVars
  <2> QED
    BY <1>a, <1>b, <1>c, <1>d, <1>12, <2>1, AttachShape, CallRecords
       DEF HolderInv, Takes, Moves, Keeps, Returns, Touches, Closes, Reads
<1>13. ASSUME NEW p \in Ops, Activate(p) PROVE HolderInv'
  <2>1. sums' = sums /\ Takes(p, "activating")
    BY <1>a, <1>13, ActivateShape DEF Activate
  <2>2. CASE op[p].kind \in {"new", "open"}
    <3>1. ready /\ ready' = ready /\ (Returns(p) \/ Touches(p))
      BY <1>a, <1>13, <2>1, <2>2, ActivateShape DEF HolderInv, Takes
    <3> QED
      BY <1>a, <1>b, <1>d, <2>1, <3>1, CallRecords DEF HolderInv, Takes, Returns, Touches
  <2>3. CASE op[p].kind = "boot" /\ ready' = TRUE /\ Touches(p)
    BY <1>a, <1>b, <1>c, <1>d, <1>f, <2>1, <2>3 DEF HolderInv, Takes, Touches
  <2>4. CASE op[p].kind = "boot" /\ ready' = ready /\ Moves(p, "fixing")
    BY <1>a, <1>b, <1>c, <2>1, <2>4 DEF HolderInv, Takes, Moves
  <2> QED
    BY <1>a, <1>13, <2>2, <2>3, <2>4, ActivateShape
<1>14. ASSUME NEW p \in Ops, Delete(p) PROVE HolderInv'
  <2>1. sums' = sums /\ ready' = ready
    BY <1>14 DEF Delete, memoryVars
  <2> QED
    BY <1>a, <1>b, <1>c, <1>d, <1>14, <2>1, DeleteShape, CallRecords
       DEF HolderInv, Takes, Moves, Keeps, Returns, Touches, Closes, Reads
<1>15. ASSUME NEW p \in Ops, BeginRename(p) PROVE HolderInv'
  <2>1. sums' = sums /\ ready' = ready
    BY <1>15 DEF BeginRename, memoryVars, ReadBack
  <2> QED
    BY <1>a, <1>b, <1>c, <1>d, <1>15, <2>1, BeginRenameShape, CallRecords
       DEF HolderInv, Takes, Moves, Keeps, Returns, Touches, Closes, Reads
<1>16. ASSUME NEW p \in Ops, Rename(p) PROVE HolderInv'
  <2>1. sums' = sums /\ ready' = ready
    BY <1>16 DEF Rename, memoryVars, WriteBack
  <2> QED
    BY <1>a, <1>b, <1>c, <1>d, <1>16, <2>1, RenameShape, CallRecords
       DEF HolderInv, Takes, Moves, Keeps, Returns, Touches, Closes, Reads
<1>17. ASSUME NEW p \in Ops, BeginTouch(p) PROVE HolderInv'
  <2>1. sums' = sums /\ ready' = ready
    BY <1>17 DEF BeginTouch, memoryVars, ReadBack
  <2> QED
    BY <1>a, <1>b, <1>c, <1>d, <1>17, <2>1, BeginTouchShape, CallRecords
       DEF HolderInv, Takes, Moves, Keeps, Returns, Touches, Closes, Reads
<1>18. ASSUME NEW p \in Ops, Touch(p) PROVE HolderInv'
  <2>1. sums' = sums /\ ready' = ready
    BY <1>18 DEF Touch, memoryVars, WriteBack
  <2> QED
    BY <1>a, <1>b, <1>c, <1>d, <1>18, <2>1, TouchShape, CallRecords
       DEF HolderInv, Takes, Moves, Keeps, Returns, Touches, Closes, Reads
<1>19. ASSUME NEW p \in Ops, Boot(p) PROVE HolderInv'
  <2>1. sums' = sums /\ ready' = ready
    BY <1>19 DEF Boot, memoryVars
  <2> QED
    BY <1>a, <1>b, <1>c, <1>d, <1>19, <2>1, BootShape, CallRecords
       DEF HolderInv, Takes, Moves, Keeps, Returns, Touches, Closes, Reads
<1>20. ASSUME NEW p \in Ops, Fix(p) PROVE HolderInv'
  <2>1. sums' = sums /\ ready' = TRUE
    BY <1>20 DEF Fix
  <2> QED
    BY <1>a, <1>b, <1>c, <1>d, <1>f, <1>20, <2>1, FixShape, CallRecords
       DEF HolderInv, Takes, Moves, Keeps, Returns, Touches, Closes, Reads
<1>21. ASSUME NEW run \in sums, SumStep(run) \/ SumFails(run) PROVE HolderInv'
  <2>1. ready' = ready /\ ready
    <3>1. ready
      BY <1>a, <1>21 DEF HolderInv
    <3>2. SumReadMeta(run) \/ SumLoad(run) \/ SumFails(run) => ready' = ready
      BY DEF SumReadMeta, SumLoad, SumFails, memoryVars
    <3>3. SumRemove(run) => ready' = ready
      BY DEF SumRemove
    <3>4. SumWrite(run) => ready' = ready
      BY DEF SumWrite, memoryVars
    <3> QED
      BY <1>21, <3>1, <3>2, <3>3, <3>4 DEF SumStep
  <2>2. queue' = queue /\ op' = op
    BY <1>21, SumKeepsCalls
  <2> QED
    BY <1>a, <2>1, <2>2 DEF HolderInv
<1>22. ASSUME NEW s \in Sessions, ReadJournal(s) \/ Flush(s) PROVE HolderInv'
  BY <1>a, <1>22 DEF HolderInv, ReadJournal, Flush, memoryVars
<1>23. CASE Crash
  <2>1. PICK p \in Ops : /\ queue' = <<p>>
                         /\ op' = [q \in Ops |-> IF q = p THEN Call("boot", NoSession) ELSE Idle]
    BY <1>23 DEF Crash
  <2>2. sums' = {} /\ ready' = FALSE /\ Range(queue') = {p} /\ Len(queue') = 1
    BY <1>23, <2>1, BootingCalls DEF Crash
  <2>3. Call("boot", NoSession).at = "start" /\ Call("boot", NoSession).kind = "boot"
    BY CallRecords DEF Kinds
  <2> QED
    BY <2>1, <2>2, <2>3, CallRecords DEF HolderInv
<1>24. CASE UNCHANGED vars
  BY <1>a, <1>24 DEF HolderInv, vars, memoryVars
<1> QED
  BY <1>1, <1>2, <1>3, <1>4, <1>5, <1>6, <1>7, <1>8, <1>9, <1>10, <1>11, <1>12, <1>13, <1>14, <1>15, <1>16, <1>17, <1>18, <1>19, <1>20, <1>21, <1>22, <1>23, <1>24
     DEF Next, CommandStep, OpStep

-----------------------------------------------------------------------------
(* The sessions that calls and runs name.                                  *)

LEMMA IdsStep == ManagerInv /\ [Next]_vars => IdsInv'
<1> SUFFICES ASSUME ManagerInv, [Next]_vars PROVE IdsInv'
  OBVIOUS
<1>a. TypeOK /\ DataOK /\ HolderInv /\ IdsInv /\ op \in [Ops -> Calls] /\ minted \in Nat
      /\ meta \in [Sessions -> Metas \cup {NoMeta}] /\ Known \subseteq Sessions /\ 0 \notin Sessions
      /\ \A s \in Sessions : meta[s] # NoMeta => s \in Known /\ meta[s] \in Metas
  BY ManagerAssumption DEF ManagerInv, TypeOK, CallsOK, DataOK, Known, Sessions
<1>b. op' \in [Ops -> Calls]
  BY <1>a, CallsStep DEF CallsOK
<1>c. Idle.at = "start" /\ Idle.kind = "idle" /\ Call("touch", NoSession).at = "start"
      /\ Call("touch", NoSession).kind = "touch"
  BY CallRecords DEF Kinds
<1>d. minted' = minted => Known' = Known
  BY DEF Known
<1>e. ASSUME NEW p \in Ops, NEW kind \in {"new", "open", "delete", "rename", "touch"},
             NEW id \in Known \cup {NoSession}, kind \in {"open", "delete", "rename"} => id \in Known,
             Enqueue(p, kind, id), UNCHANGED <<activeFile, activeId, linked, ready, sums, minted>>
      PROVE  IdsInv'
  <2>1. op' = [op EXCEPT ![p] = Call(kind, id)]
    BY <1>e DEF Enqueue
  <2>2. Call(kind, id).at = "start" /\ Call(kind, id).kind = kind /\ Call(kind, id).id = id
    BY <1>a, <1>e, CallRecords DEF Kinds
  <2> QED
    BY <1>a, <1>d, <1>e, <2>1, <2>2 DEF IdsInv
<1>1. ASSUME NEW p \in Ops, NewSession(p) PROVE IdsInv'
  <2>1. PICK id \in {NoSession} : Request(p, "new", id)
    BY <1>1 DEF NewSession
  <2>2. Enqueue(p, "new", id) /\ UNCHANGED <<activeFile, activeId, linked, ready, sums, minted>>
    BY <2>1 DEF Request, diskVars, memoryVars
  <2> QED
    BY <2>2, <1>e
<1>2. ASSUME NEW p \in Ops, OpenSession(p) PROVE IdsInv'
  <2>1. PICK id \in Known : Request(p, "open", id)
    BY <1>2 DEF OpenSession
  <2>2. Enqueue(p, "open", id) /\ UNCHANGED <<activeFile, activeId, linked, ready, sums, minted>>
    BY <2>1 DEF Request, diskVars, memoryVars
  <2> QED
    BY <2>2, <1>e
<1>3. ASSUME NEW p \in Ops, DeleteSession(p) PROVE IdsInv'
  <2>1. PICK id \in Known : Request(p, "delete", id)
    BY <1>3 DEF DeleteSession
  <2>2. Enqueue(p, "delete", id) /\ UNCHANGED <<activeFile, activeId, linked, ready, sums, minted>>
    BY <2>1 DEF Request, diskVars, memoryVars
  <2> QED
    BY <2>2, <1>e
<1>4. ASSUME NEW p \in Ops, RenameSession(p) PROVE IdsInv'
  <2>1. PICK id \in Known : Request(p, "rename", id)
    BY <1>4 DEF RenameSession
  <2>2. Enqueue(p, "rename", id) /\ UNCHANGED <<activeFile, activeId, linked, ready, sums, minted>>
    BY <2>1 DEF Request, diskVars, memoryVars
  <2> QED
    BY <2>2, <1>e
<1>5. ASSUME NEW p \in Ops, AppendEvent(p) PROVE IdsInv'
  <2>1. Enqueue(p, "touch", NoSession) /\ UNCHANGED <<activeFile, activeId, linked, ready, sums, minted>>
    BY <1>5 DEF AppendEvent, memoryVars
  <2> QED
    BY <2>1, <1>e
<1>6. ASSUME NEW p \in Ops, BeginNew(p) PROVE IdsInv'
  <2>1. UNCHANGED <<activeFile, activeId, ready, sums, minted>>
    BY <1>6 DEF BeginNew, diskVars, memoryVars
  <2> QED
    BY <1>a, <1>b, <1>c, <1>d, <1>6, <2>1, BeginNewShape
       DEF IdsInv, HolderInv, Takes, Moves, Keeps, Returns, Touches, Closes, Reads
<1>7. ASSUME NEW p \in Ops, BeginOpen(p) PROVE IdsInv'
  <2>1. UNCHANGED <<activeFile, activeId, ready, sums, minted>>
    BY <1>7 DEF BeginOpen, diskVars, memoryVars
  <2> QED
    BY <1>a, <1>b, <1>c, <1>d, <1>7, <2>1, BeginOpenShape
       DEF IdsInv, HolderInv, Takes, Moves, Keeps, Returns, Touches, Closes, Reads
<1>8. ASSUME NEW p \in Ops, OpenAfterRead(p) PROVE IdsInv'
  <2>1. UNCHANGED <<activeFile, activeId, ready, sums, minted>>
    BY <1>8 DEF OpenAfterRead, diskVars, memoryVars
  <2> QED
    BY <1>a, <1>b, <1>c, <1>d, <1>8, <2>1, OpenAfterReadShape
       DEF IdsInv, HolderInv, Takes, Moves, Keeps, Returns, Touches, Closes, Reads
<1>9. ASSUME NEW p \in Ops, CloseOld(p) PROVE IdsInv'
  <2>1. UNCHANGED <<activeFile, activeId, ready, minted>>
    BY <1>9 DEF CloseOld, diskVars, memoryVars
  <2>2. Takes(p, "closing") /\ Moves(p, IF op[p].kind = "new" THEN "minting" ELSE "reopening") /\ Keeps(p)
    BY <1>a, <1>9, CloseOldShape
  <2>3. op[p].kind \in {"new", "open"} /\ activeId \in Known /\ (op[p].kind = "open" => op[p].id \in Known)
        /\ (op[p].kind = "open" => op[p].target \in Metas /\ op[p].id # activeId)
    BY <1>a, <2>2 DEF Takes, IdsInv, HolderInv
  <2>4. \A run \in sums' : run.id \in Known /\ (run.at # "reading" => run.read \in Metas)
    BY <1>a, <1>9, <2>3 DEF CloseOld, IdsInv
  <2> QED
    BY <1>a, <1>b, <1>d, <2>1, <2>2, <2>3, <2>4 DEF IdsInv, Takes, Moves, Keeps
<1>10. ASSUME NEW p \in Ops, Mint(p) PROVE IdsInv'
  <2>1. UNCHANGED <<activeFile, activeId, ready, sums>> /\ minted' = minted + 1
    BY <1>10 DEF Mint, diskVars, memoryVars
  <2>2. Known \subseteq Known' /\ minted' \in Known'
    BY <1>a, <2>1 DEF Known
  <2>3. Takes(p, "minting") /\ Moves(p, "attaching") /\ op'[p].id = minted' /\ op'[p].target = FreshMeta
    BY <1>a, <1>10, MintShape
  <2>4. op[p].kind \in {"new", "boot"} /\ FreshMeta \in Metas
    BY <1>a, <2>3, MetaFields DEF Takes, HolderInv
  <2>5. \A q \in Ops : q # p => op'[q] = op[q] /\ op'[q].at = "start"
    BY <2>3 DEF Takes
  <2>6. op'[p].at = "attaching" /\ op'[p].kind = op[p].kind
    BY <2>3 DEF Moves
  <2> QED
    BY <1>a, <2>1, <2>2, <2>3, <2>4, <2>5, <2>6 DEF IdsInv
<1>11. ASSUME NEW p \in Ops, Reopen(p) PROVE IdsInv'
  <2>1. UNCHANGED <<activeFile, activeId, ready, sums, minted>>
    BY <1>11 DEF Reopen, diskVars, memoryVars
  <2> QED
    BY <1>a, <1>b, <1>c, <1>d, <1>11, <2>1, ReopenShape
       DEF IdsInv, HolderInv, Takes, Moves, Keeps, Returns, Touches, Closes, Reads
<1>12. ASSUME NEW p \in Ops, Attach(p) PROVE IdsInv'
  <2>1. UNCHANGED <<activeFile, ready, sums, minted>> /\ activeId' = op[p].id
    BY <1>12 DEF Attach, diskVars, memoryVars
  <2>2. Takes(p, "attaching") /\ Moves(p, "activating") /\ Keeps(p)
    BY <1>a, <1>12, AttachShape
  <2>3. op[p].id \in Known /\ op[p].target \in Metas /\ op[p].kind \in {"new", "open", "boot"}
    BY <1>a, <2>2 DEF Takes, IdsInv, HolderInv
  <2>4. \A q \in Ops : q # p => op'[q] = op[q] /\ op'[q].at = "start"
    BY <2>2 DEF Takes
  <2>5. op'[p].at = "activating" /\ op'[p].kind = op[p].kind /\ op'[p].id = op[p].id /\ op'[p].target = op[p].target
    BY <2>2 DEF Moves, Keeps
  <2> QED
    BY <1>a, <1>d, <2>1, <2>3, <2>4, <2>5 DEF IdsInv, Known, NoSession
<1>13. ASSUME NEW p \in Ops, Activate(p) PROVE IdsInv'
  <2>1. UNCHANGED <<activeId, sums, minted>> /\ activeFile' = op[p].id
    BY <1>13 DEF Activate
  <2>2. Takes(p, "activating") /\ op[p].id \in Known /\ op[p].id = activeId /\ op[p].target \in Metas
        /\ op[p].kind \in {"new", "open", "boot"}
    BY <1>a, <1>13, ActivateShape DEF Takes, IdsInv, HolderInv
  <2>3. ready' => activeId' # NoSession
    BY <1>a, <2>1, <2>2 DEF NoSession
  <2>4. \/ op'[p].at = "start" /\ op'[p].kind \in {"idle", "touch"}
        \/ op'[p].at = "fixing" /\ op'[p].kind = op[p].kind /\ op[p].kind = "boot" /\ Keeps(p)
    BY <1>a, <1>c, <1>13, ActivateShape DEF Returns, Touches, Moves
  <2>5. \A q \in Ops : q # p => op'[q] = op[q] /\ op'[q].at = "start"
    BY <2>2 DEF Takes
  <2> QED
    BY <1>a, <1>d, <2>1, <2>2, <2>3, <2>4, <2>5 DEF IdsInv, Keeps
<1>14. ASSUME NEW p \in Ops, Delete(p) PROVE IdsInv'
  <2>1. UNCHANGED <<activeFile, activeId, ready, sums, minted>>
    BY <1>14 DEF Delete, diskVars, memoryVars
  <2> QED
    BY <1>a, <1>b, <1>c, <1>d, <1>14, <2>1, DeleteShape
       DEF IdsInv, HolderInv, Takes, Moves, Keeps, Returns, Touches, Closes, Reads
<1>15. ASSUME NEW p \in Ops, BeginRename(p) PROVE IdsInv'
  <2>1. UNCHANGED <<activeFile, activeId, ready, sums, minted>>
    BY <1>15 DEF BeginRename, diskVars, memoryVars, ReadBack
  <2> QED
    BY <1>a, <1>b, <1>c, <1>d, <1>15, <2>1, BeginRenameShape
       DEF IdsInv, HolderInv, Takes, Moves, Keeps, Returns, Touches, Closes, Reads
<1>16. ASSUME NEW p \in Ops, Rename(p) PROVE IdsInv'
  <2>1. UNCHANGED <<activeFile, activeId, ready, sums, minted>>
    BY <1>16 DEF Rename, diskVars, memoryVars, WriteBack
  <2> QED
    BY <1>a, <1>b, <1>c, <1>d, <1>16, <2>1, RenameShape
       DEF IdsInv, HolderInv, Takes, Moves, Keeps, Returns, Touches, Closes, Reads
<1>17. ASSUME NEW p \in Ops, BeginTouch(p) PROVE IdsInv'
  <2>1. UNCHANGED <<activeFile, activeId, ready, sums, minted>>
    BY <1>17 DEF BeginTouch, diskVars, memoryVars, ReadBack
  <2> QED
    BY <1>a, <1>b, <1>c, <1>d, <1>17, <2>1, BeginTouchShape
       DEF IdsInv, HolderInv, Takes, Moves, Keeps, Returns, Touches, Closes, Reads
<1>18. ASSUME NEW p \in Ops, Touch(p) PROVE IdsInv'
  <2>1. UNCHANGED <<activeFile, activeId, ready, sums, minted>>
    BY <1>18 DEF Touch, diskVars, memoryVars, WriteBack
  <2> QED
    BY <1>a, <1>b, <1>c, <1>d, <1>18, <2>1, TouchShape
       DEF IdsInv, HolderInv, Takes, Moves, Keeps, Returns, Touches, Closes, Reads
<1>19. ASSUME NEW p \in Ops, Boot(p) PROVE IdsInv'
  <2>1. UNCHANGED <<activeFile, activeId, ready, sums, minted>>
    BY <1>19 DEF Boot, diskVars, memoryVars
  <2> QED
    BY <1>a, <1>b, <1>c, <1>d, <1>19, <2>1, BootShape
       DEF IdsInv, HolderInv, Takes, Moves, Keeps, Returns, Touches, Closes, Reads
<1>20. ASSUME NEW p \in Ops, Fix(p) PROVE IdsInv'
  <2>1. UNCHANGED <<activeFile, activeId, sums, minted>> /\ ready' = TRUE
    BY <1>20 DEF Fix, diskVars, memoryVars
  <2>2. Takes(p, "fixing") /\ op[p].id \in Known /\ op[p].id = activeId
    BY <1>a, <1>20, FixShape DEF Takes, IdsInv
  <2>3. op'[p].at = "start" /\ op'[p].kind = "touch"
    BY <1>a, <1>c, <1>20, FixShape DEF Touches
  <2>5. \A q \in Ops : q # p => op'[q] = op[q] /\ op'[q].at = "start"
    BY <2>2 DEF Takes
  <2> QED
    BY <1>a, <1>d, <2>1, <2>2, <2>3, <2>5 DEF IdsInv, NoSession
<1>21. ASSUME NEW run \in sums, SumStep(run) \/ SumFails(run) PROVE IdsInv'
  <2>1. queue' = queue /\ op' = op
    BY <1>21, SumKeepsCalls
  <2>2. /\ UNCHANGED <<activeFile, activeId, ready, minted>>
        /\ \A r \in sums' : r.id \in Known /\ (r.at # "reading" => r.read \in Metas)
    <3>1. run \in SumRuns /\ run.id \in Known
      BY <1>a DEF DataOK, IdsInv
    <3>2. CASE SumReadMeta(run)
      <4>1. CASE meta[run.id] = NoMeta
        BY <1>a, <3>2, <4>1 DEF SumReadMeta, EndRun, IdsInv, diskVars, memoryVars
      <4>2. CASE meta[run.id] # NoMeta
        <5> DEFINE new == [run EXCEPT !.at = "loading", !.read = meta[run.id]]
        <5>1. new.id = run.id /\ new.read = meta[run.id] /\ meta[run.id] \in Metas
          BY <1>a, <3>1, <4>2 DEF SumRuns
        <5>2. sums' = (sums \ {run}) \cup {new} /\ UNCHANGED <<activeFile, activeId, ready, minted>>
          BY <3>2, <4>2 DEF SumReadMeta, diskVars, memoryVars
        <5> HIDE DEF new
        <5> QED
          BY <1>a, <3>1, <5>1, <5>2 DEF IdsInv
      <4> QED
        BY <4>1, <4>2
    <3>3. CASE SumLoad(run)
      <4> DEFINE new == [run EXCEPT !.at = IF journal[run.id] = "events" THEN "summarizing" ELSE "removing"]
      <4>1. new.id = run.id /\ new.read = run.read
        BY <3>1 DEF SumRuns
      <4>2. run.read \in Metas
        BY <1>a, <3>3 DEF SumLoad, IdsInv
      <4>3. sums' = (sums \ {run}) \cup {new} /\ UNCHANGED <<activeFile, activeId, ready, minted>>
        BY <3>3 DEF SumLoad, memoryVars
      <4> HIDE DEF new
      <4> QED
        BY <1>a, <3>1, <4>1, <4>2, <4>3 DEF IdsInv
    <3>4. CASE SumRemove(run)
      BY <1>a, <3>4 DEF SumRemove, EndRun, IdsInv
    <3>5. CASE SumWrite(run)
      BY <1>a, <3>5 DEF SumWrite, EndRun, IdsInv, memoryVars
    <3>6. CASE SumFails(run)
      BY <1>a, <3>6 DEF SumFails, EndRun, IdsInv, diskVars, memoryVars
    <3> QED
      BY <1>21, <3>2, <3>3, <3>4, <3>5, <3>6 DEF SumStep
  <2> QED
    BY <1>a, <1>d, <2>1, <2>2 DEF IdsInv
<1>22. ASSUME NEW s \in Sessions, ReadJournal(s) \/ Flush(s) PROVE IdsInv'
  BY <1>a, <1>d, <1>22 DEF IdsInv, ReadJournal, Flush, memoryVars
<1>23. CASE Crash
  <2>1. /\ UNCHANGED <<activeFile, minted>> /\ activeId' = NoSession /\ ready' = FALSE /\ sums' = {}
        /\ \A p \in Ops : op'[p] = Idle \/ op'[p] = Call("boot", NoSession)
    BY <1>23 DEF Crash
  <2>2. Call("boot", NoSession).at = "start" /\ Call("boot", NoSession).kind = "boot"
    BY CallRecords DEF Kinds
  <2> QED
    BY <1>a, <1>c, <1>d, <2>1, <2>2 DEF IdsInv
<1>24. CASE UNCHANGED vars
  BY <1>a, <1>d, <1>24 DEF IdsInv, vars, diskVars, memoryVars
<1> QED
  BY <1>1, <1>2, <1>3, <1>4, <1>5, <1>6, <1>7, <1>8, <1>9, <1>10, <1>11, <1>12, <1>13, <1>14, <1>15, <1>16, <1>17, <1>18, <1>19, <1>20, <1>21, <1>22, <1>23, <1>24
     DEF Next, CommandStep, OpStep

-----------------------------------------------------------------------------
(* What the holder read is still there when it writes it back.             *)

LEMMA WriteFacts ==
    ASSUME DataOK, NEW who \in {"mutex", "summarizer"}, NEW s \in Sessions, NEW read, NEW new, Write(who, s, read, new)
    PROVE  /\ meta'[s] = new /\ writer'[s] = who
           /\ \A t \in Sessions : t # s => meta'[t] = meta[t] /\ writer'[t] = writer[t]
           /\ MutexKeepsWrites /\ (who = "mutex" => Fresh(s, read)) => MutexKeepsWrites'
<1>1. /\ meta'[s] = new /\ writer'[s] = who
      /\ \A t \in Sessions : t # s => meta'[t] = meta[t] /\ writer'[t] = writer[t]
  BY DEF Write, DataOK
<1>2. ASSUME MutexKeepsWrites, who = "mutex" => Fresh(s, read) PROVE MutexKeepsWrites'
  <2>1. clobbers' = clobbers \/ (meta[s] # read /\ clobbers' = clobbers \cup {<<who, writer[s], s>>})
    BY DEF Write
  <2>2. meta[s] # read => ~(who = "mutex" /\ writer[s] = "mutex")
    BY <1>2 DEF Fresh
  <2>3. \A t : meta[s] # read => <<who, writer[s], s>> # <<"mutex", "mutex", t>>
    BY <2>2
  <2>4. \A t \in Sessions : <<"mutex", "mutex", t>> \in clobbers' => <<"mutex", "mutex", t>> \in clobbers
    BY <2>1, <2>3
  <2> QED
    BY <1>2, <2>4 DEF MutexKeepsWrites
<1> QED
  BY <1>1, <1>2

LEMMA ReadsStep == ManagerInv /\ [Next]_vars => ReadsInv'
<1> SUFFICES ASSUME ManagerInv, [Next]_vars PROVE ReadsInv'
  OBVIOUS
<1>a. TypeOK /\ DataOK /\ HolderInv /\ IdsInv /\ ReadsInv /\ MutexKeepsWrites /\ op \in [Ops -> Calls]
      /\ Known \subseteq Sessions /\ minted \in Nat
      /\ \A s \in Sessions : s > minted => meta[s] = NoMeta
  BY ManagerAssumption DEF ManagerInv, TypeOK, CallsOK, DataOK, ReadsInv, Known, Sessions
<1>c. Idle.at = "start" /\ Idle.kind = "idle" /\ Call("touch", NoSession).at = "start"
      /\ Call("touch", NoSession).kind = "touch"
  BY CallRecords DEF Kinds
<1>e. ASSUME NEW p \in Ops, op' = op \/ (op'[p].at = "start" /\ \A q \in Ops : q # p => op'[q] = op[q]),
             UNCHANGED <<meta, writer, clobbers, activeId>>
      PROVE  ReadsInv'
  BY <1>a, <1>e DEF ReadsInv, Fresh, MutexKeepsWrites
\* p is the holder, so what it has read is all that is to be kept
<1>f. ASSUME NEW p \in Ops, NEW at, Takes(p, at), op'[p].at = "start", MutexKeepsWrites' PROVE ReadsInv'
  BY <1>f DEF ReadsInv, Takes
<1>1. ASSUME NEW p \in Ops, NewSession(p) \/ OpenSession(p) \/ DeleteSession(p) \/ RenameSession(p) \/ AppendEvent(p)
      PROVE  ReadsInv'
  <2>1. PICK kind \in Kinds, id \in Sessions \cup {NoSession} :
           Enqueue(p, kind, id) /\ UNCHANGED <<meta, writer, clobbers, activeId>>
    BY <1>a, <1>1 DEF NewSession, OpenSession, DeleteSession, RenameSession, Request, AppendEvent, diskVars,
       memoryVars, history, Kinds
  <2>2. op'[p].at = "start" /\ \A q \in Ops : q # p => op'[q] = op[q]
    BY <1>a, <2>1, CallRecords DEF Enqueue
  <2> QED
    BY <2>1, <2>2, <1>e
<1>2. ASSUME NEW p \in Ops, BeginNew(p) PROVE ReadsInv'
  <2>1. UNCHANGED <<meta, writer, clobbers, activeId>>
    BY <1>2 DEF BeginNew, diskVars, memoryVars, history
  <2> QED
    BY <1>a, <1>c, <1>2, <2>1, BeginNewShape
       DEF ReadsInv, HolderInv, Takes, Moves, Keeps, Returns, Closes, Reads, Fresh, MutexKeepsWrites
<1>3. ASSUME NEW p \in Ops, OpenAfterRead(p) PROVE ReadsInv'
  <2>1. UNCHANGED <<meta, writer, clobbers, activeId>>
    BY <1>3 DEF OpenAfterRead, diskVars, memoryVars, history
  <2> QED
    BY <1>a, <1>c, <1>3, <2>1, OpenAfterReadShape
       DEF ReadsInv, HolderInv, Takes, Moves, Keeps, Returns, Closes, Reads, Fresh, MutexKeepsWrites
<1>4. ASSUME NEW p \in Ops, BeginOpen(p) PROVE ReadsInv'
  <2>1. UNCHANGED <<meta, writer, clobbers, activeId>>
    BY <1>4 DEF BeginOpen, diskVars, memoryVars, history
  <2> QED
    BY <1>a, <1>c, <1>4, <2>1, BeginOpenShape
       DEF ReadsInv, HolderInv, Takes, Moves, Keeps, Returns, Closes, Reads, Fresh, MutexKeepsWrites
<1>5. ASSUME NEW p \in Ops, BeginRename(p) PROVE ReadsInv'
  <2>1. UNCHANGED <<meta, writer, clobbers, activeId>>
    BY <1>5 DEF BeginRename, ReadBack, diskVars, memoryVars, history
  <2> QED
    BY <1>a, <1>c, <1>5, <2>1, BeginRenameShape
       DEF ReadsInv, HolderInv, Takes, Moves, Keeps, Returns, Closes, Reads, Fresh, MutexKeepsWrites
<1>6. ASSUME NEW p \in Ops, BeginTouch(p) PROVE ReadsInv'
  <2>1. UNCHANGED <<meta, writer, clobbers, activeId>>
    BY <1>6 DEF BeginTouch, ReadBack, diskVars, memoryVars, history
  <2> QED
    BY <1>a, <1>c, <1>6, <2>1, BeginTouchShape
       DEF ReadsInv, HolderInv, Takes, Moves, Keeps, Returns, Closes, Reads, Fresh, MutexKeepsWrites
<1>7. ASSUME NEW p \in Ops, Boot(p) PROVE ReadsInv'
  <2>1. UNCHANGED <<meta, writer, clobbers, activeId>>
    BY <1>7 DEF Boot, diskVars, memoryVars, history
  <2> QED
    BY <1>a, <1>c, <1>7, <2>1, BootShape
       DEF ReadsInv, HolderInv, Takes, Moves, Keeps, Returns, Closes, Reads, Fresh, MutexKeepsWrites
<1>8. ASSUME NEW p \in Ops, CloseOld(p) PROVE ReadsInv'
  <2>1. Takes(p, "closing") /\ Moves(p, IF op[p].kind = "new" THEN "minting" ELSE "reopening") /\ Keeps(p)
    BY <1>a, <1>8, CloseOldShape
  <2>2. /\ activeId \in Sessions /\ Fresh(activeId, op[p].old) /\ op[p].kind \in {"new", "open"}
        /\ op[p].kind = "open" => op[p].id \in Sessions /\ Fresh(op[p].id, op[p].target) /\ op[p].id # activeId
    BY <1>a, <2>1 DEF Takes, ReadsInv, IdsInv, HolderInv
  <2>3. \E new : Write("mutex", activeId, op[p].old, new)
    BY <1>8 DEF CloseOld
  <2>4. MutexKeepsWrites' /\ \A t \in Sessions : t # activeId => meta'[t] = meta[t] /\ writer'[t] = writer[t]
    BY <1>a, <2>2, <2>3, WriteFacts
  <2>5. op'[p].at \in {"minting", "reopening"} /\ (op'[p].at = "reopening" => op[p].kind = "open")
        /\ op'[p].id = op[p].id /\ op'[p].target = op[p].target /\ op'[p].kind = op[p].kind
    BY <2>1, <2>2 DEF Moves, Keeps
  <2>6. op'[p].at = "reopening" => Fresh(op[p].id, op[p].target)'
    BY <2>2, <2>4, <2>5 DEF Fresh
  <2> QED
    BY <2>1, <2>2, <2>4, <2>5, <2>6 DEF ReadsInv, Takes
<1>9. ASSUME NEW p \in Ops, Mint(p) PROVE ReadsInv'
  <2>1. Takes(p, "minting") /\ Moves(p, "attaching") /\ op'[p].id = minted' /\ op'[p].target = FreshMeta
    BY <1>a, <1>9, MintShape
  <2>2. Write("mutex", minted', NoMeta, FreshMeta) /\ minted' \in Sessions /\ meta[minted'] = NoMeta
    BY <1>a, <1>9, ManagerAssumption DEF Mint, Sessions
  <2>3. MutexKeepsWrites' /\ meta'[minted'] = FreshMeta
    BY <1>a, <2>2, WriteFacts DEF Fresh
  <2> QED
    BY <2>1, <2>3 DEF ReadsInv, Takes, Moves
<1>10. ASSUME NEW p \in Ops, Reopen(p) PROVE ReadsInv'
  <2>1. Takes(p, "reopening") /\ Moves(p, "attaching")
    BY <1>a, <1>10, ReopenShape
  <2>2. op[p].id \in Sessions /\ Fresh(op[p].id, op[p].target) /\ op[p].kind = "open"
    BY <1>a, <2>1 DEF Takes, ReadsInv, IdsInv, HolderInv
  <2>3. \E new : Write("mutex", op[p].id, op[p].target, new)
    BY <1>10 DEF Reopen
  <2>4. MutexKeepsWrites'
    BY <1>a, <2>2, <2>3, WriteFacts
  <2> QED
    BY <2>1, <2>2, <2>4 DEF ReadsInv, Takes, Moves
<1>11. ASSUME NEW p \in Ops, Attach(p) PROVE ReadsInv'
  <2>1. Takes(p, "attaching") /\ Moves(p, "activating") /\ Keeps(p) /\ UNCHANGED <<meta, writer, clobbers>>
    BY <1>a, <1>11, AttachShape DEF Attach, history
  <2> QED
    BY <1>a, <2>1 DEF ReadsInv, Takes, Moves, Keeps, MutexKeepsWrites
<1>12. ASSUME NEW p \in Ops, Activate(p) PROVE ReadsInv'
  <2>1. Takes(p, "activating") /\ UNCHANGED <<meta, writer, clobbers>>
    BY <1>a, <1>12, ActivateShape DEF Activate, history
  <2>2. MutexKeepsWrites'
    BY <1>a, <2>1 DEF MutexKeepsWrites
  <2>3. CASE op'[p].at = "start"
    BY <2>1, <2>2, <2>3, <1>f
  <2>4. CASE Moves(p, "fixing") /\ Keeps(p)
    BY <1>a, <2>1, <2>2, <2>4 DEF ReadsInv, Takes, Moves, Keeps
  <2> QED
    BY <1>a, <1>c, <1>12, <2>3, <2>4, ActivateShape DEF Returns, Touches
<1>13. ASSUME NEW p \in Ops, Fix(p) PROVE ReadsInv'
  <2>1. Takes(p, "fixing") /\ op'[p].at = "start"
    BY <1>a, <1>c, <1>13, FixShape DEF Touches
  <2>2. op[p].id \in Sessions /\ Fresh(op[p].id, op[p].target)
    BY <1>a, <2>1 DEF Takes, ReadsInv, IdsInv, HolderInv, Fresh
  <2>3. \E new : Write("mutex", op[p].id, op[p].target, new)
    BY <1>13 DEF Fix
  <2> QED
    BY <1>a, <1>f, <2>1, <2>2, <2>3, WriteFacts
<1>14. ASSUME NEW p \in Ops, Rename(p) PROVE ReadsInv'
  <2>1. Takes(p, "renaming") /\ op'[p].at = "start"
    BY <1>a, <1>c, <1>14, RenameShape DEF Returns
  <2>2. op[p].id \in Sessions /\ Fresh(op[p].id, op[p].target)
    BY <1>a, <2>1 DEF Takes, ReadsInv, IdsInv
  <2>3. \E new : Write("mutex", op[p].id, op[p].target, new)
    BY <1>14 DEF Rename, WriteBack
  <2> QED
    BY <1>a, <1>f, <2>1, <2>2, <2>3, WriteFacts
<1>15. ASSUME NEW p \in Ops, Touch(p) PROVE ReadsInv'
  <2>1. Takes(p, "touching") /\ op'[p].at = "start"
    BY <1>a, <1>c, <1>15, TouchShape DEF Returns
  <2>2. op[p].id \in Sessions /\ Fresh(op[p].id, op[p].target)
    BY <1>a, <2>1 DEF Takes, ReadsInv, IdsInv
  <2>3. \E new : Write("mutex", op[p].id, op[p].target, new)
    BY <1>15 DEF Touch, WriteBack
  <2> QED
    BY <1>a, <1>f, <2>1, <2>2, <2>3, WriteFacts
<1>16. ASSUME NEW p \in Ops, Delete(p) PROVE ReadsInv'
  <2>1. Takes(p, "start") /\ op'[p].at = "start"
    BY <1>a, <1>c, <1>16, DeleteShape DEF Returns
  <2>2. clobbers' = clobbers
    BY <1>16 DEF Delete
  <2>3. MutexKeepsWrites'
    BY <1>a, <2>2 DEF MutexKeepsWrites
  <2> QED
    BY <1>f, <2>1, <2>3
<1>17. ASSUME NEW run \in sums, SumStep(run) \/ SumFails(run) PROVE ReadsInv'
  <2>1. op' = op /\ run.id \in Sessions /\ ready
    BY <1>a, <1>17, SumKeepsCalls DEF HolderInv, IdsInv
  <2>2. activeId' = activeId /\ MutexKeepsWrites'
        /\ \A s \in Sessions : writer'[s] = "summarizer" \/ (meta'[s] = meta[s] /\ writer'[s] = writer[s])
    <3>1. CASE SumReadMeta(run) \/ SumLoad(run) \/ SumFails(run)
      <4>1. UNCHANGED <<meta, writer, clobbers, activeId>>
        BY <3>1 DEF SumReadMeta, SumLoad, SumFails, diskVars, memoryVars, history
      <4> QED
        BY <1>a, <4>1 DEF MutexKeepsWrites
    <3>2. CASE SumRemove(run)
      <4>1. activeId' = activeId /\ clobbers' \subseteq clobbers \cup {<<"summarizer", writer[run.id], run.id>>}
        BY <3>2 DEF SumRemove
      <4>2. \A t : <<"mutex", "mutex", t>> # <<"summarizer", writer[run.id], run.id>>
        OBVIOUS
      <4>3. MutexKeepsWrites'
        BY <1>a, <4>1, <4>2 DEF MutexKeepsWrites
      <4> QED
        BY <1>a, <2>1, <3>2, <4>1, <4>3 DEF SumRemove, RemoveDir, DataOK
    <3>3. CASE SumWrite(run)
      <4>1. \E new : Write("summarizer", run.id, run.read, new) /\ activeId' = activeId
        BY <3>3, Zenon DEF SumWrite, memoryVars
      <4> QED
        BY <1>a, <2>1, <4>1, WriteFacts
    <3> QED
      BY <1>17, <3>1, <3>2, <3>3 DEF SumStep
  <2>3. \A p \in Ops : op[p].kind # "boot"
    BY <1>a, <2>1 DEF HolderInv
  <2>4. \A p \in Ops : op[p].at \in {"opening", "reopening", "renaming", "touching"} => op[p].id \in Sessions
    BY <1>a DEF IdsInv
  <2>5. \A p \in Ops : op[p].at = "closing" => activeId \in Sessions /\ (op[p].kind = "open" => op[p].id \in Sessions)
    BY <1>a DEF IdsInv
  <2> QED
    BY <1>a, <2>1, <2>2, <2>3, <2>4, <2>5 DEF ReadsInv, Fresh
<1>18. ASSUME NEW s \in Sessions, ReadJournal(s) \/ Flush(s) PROVE ReadsInv'
  BY <1>a, <1>18 DEF ReadsInv, Fresh, MutexKeepsWrites, ReadJournal, Flush, memoryVars, history
<1>19. CASE Crash
  <2>1. /\ clobbers' = clobbers
        /\ \A p \in Ops : op'[p] = Idle \/ op'[p] = Call("boot", NoSession)
    BY <1>19 DEF Crash, history
  <2>2. Call("boot", NoSession).at = "start"
    BY CallRecords DEF Kinds
  <2> QED
    BY <1>a, <1>c, <2>1, <2>2 DEF ReadsInv, MutexKeepsWrites
<1>20. CASE UNCHANGED vars
  BY <1>a, <1>20 DEF ReadsInv, Fresh, MutexKeepsWrites, vars, diskVars, memoryVars, history
<1> QED
  BY <1>1, <1>2, <1>3, <1>4, <1>5, <1>6, <1>7, <1>8, <1>9, <1>10, <1>11, <1>12, <1>13, <1>14, <1>15, <1>16, <1>17, <1>18, <1>19, <1>20
     DEF Next, CommandStep, OpStep

-----------------------------------------------------------------------------
(* active.json.                                                            *)

LEMMA FilesStep == ManagerInv /\ [Next]_vars => FilesInv'
<1> SUFFICES ASSUME ManagerInv, [Next]_vars PROVE FilesInv'
  OBVIOUS
<1>a. TypeOK /\ DataOK /\ HolderInv /\ IdsInv /\ ReadsInv /\ FilesInv /\ op \in [Ops -> Calls]
      /\ Known \subseteq Sessions /\ activeFile \in Sessions \cup {NoSession} /\ minted \in Nat
      /\ meta \in [Sessions -> Metas \cup {NoMeta}]
  BY ManagerAssumption DEF ManagerInv, TypeOK, CallsOK, DataOK, IdsInv, Known, Sessions
<1>c. Idle.at = "start" /\ Idle.kind = "idle" /\ Call("touch", NoSession).at = "start"
      /\ Call("touch", NoSession).kind = "touch"
  BY CallRecords DEF Kinds
\* most steps leave active.json, the active session and its stream alone, and remove no session
<1>d. ASSUME NEW p \in Ops, UNCHANGED <<activeFile, activeId, linked, ready, discarded>>,
             op[p].at \notin {"activating", "fixing"}, op'[p].at \notin {"activating", "fixing"}, op'[p].at = "attaching" => op'[p].id \in Sessions,
            
             \A q \in Ops : q # p => op'[q] = op[q],
             \A s \in Sessions : op'[p].at = "attaching" /\ s = op'[p].id => Present(s)',
             \A s \in Sessions : meta[s] # NoMeta => meta'[s] # NoMeta
      PROVE  FilesInv'
  <2>1. \A s \in Sessions : Present(s) => Present(s)'
    BY <1>d DEF Present
  <2>2. \A q \in Ops : op[q].at \in {"attaching", "activating", "fixing"} => op[q].id \in Sessions
    BY <1>a DEF IdsInv
  <2> QED
    BY <1>a, <1>d, <2>1, <2>2 DEF FilesInv
<1>1. ASSUME NEW p \in Ops, NewSession(p) \/ OpenSession(p) \/ DeleteSession(p) \/ RenameSession(p) \/ AppendEvent(p)
      PROVE  FilesInv'
  <2>1. PICK kind \in Kinds, id \in Sessions \cup {NoSession} :
           Enqueue(p, kind, id) /\ UNCHANGED <<meta, activeFile, activeId, linked, ready, discarded>>
    BY <1>a, <1>1 DEF NewSession, OpenSession, DeleteSession, RenameSession, Request, AppendEvent, diskVars,
       memoryVars, history, Kinds
  <2>2. op[p].at = "start" /\ op'[p].at = "start" /\ \A q \in Ops : q # p => op'[q] = op[q]
    BY <1>a, <1>c, <2>1, CallRecords DEF Enqueue
  <2> QED
    BY <2>1, <2>2, <1>d
<1>2. ASSUME NEW p \in Ops, BeginNew(p) PROVE FilesInv'
  <2>1. UNCHANGED <<meta, activeFile, activeId, linked, ready, discarded>>
    BY <1>2 DEF BeginNew, diskVars, memoryVars, history
  <2>2. /\ op[p].at \notin {"activating", "fixing"} /\ op'[p].at \notin {"attaching", "activating", "fixing"}
        /\ \A q \in Ops : q # p => op'[q] = op[q]
    BY <1>a, <1>c, <1>2, BeginNewShape DEF Takes, Moves, Returns, Closes, Reads
  <2> QED
    BY <1>d, <2>1, <2>2
<1>3. ASSUME NEW p \in Ops, OpenAfterRead(p) PROVE FilesInv'
  <2>1. UNCHANGED <<meta, activeFile, activeId, linked, ready, discarded>>
    BY <1>3 DEF OpenAfterRead, diskVars, memoryVars, history
  <2>2. /\ op[p].at \notin {"activating", "fixing"} /\ op'[p].at \notin {"attaching", "activating", "fixing"}
        /\ \A q \in Ops : q # p => op'[q] = op[q]
    BY <1>a, <1>c, <1>3, OpenAfterReadShape DEF Takes, Moves, Returns, Closes, Reads
  <2> QED
    BY <1>d, <2>1, <2>2
<1>4. ASSUME NEW p \in Ops, BeginOpen(p) PROVE FilesInv'
  <2>1. UNCHANGED <<meta, activeFile, activeId, linked, ready, discarded>>
    BY <1>4 DEF BeginOpen, diskVars, memoryVars, history
  <2>2. /\ op[p].at \notin {"activating", "fixing"} /\ op'[p].at \notin {"attaching", "activating", "fixing"}
        /\ \A q \in Ops : q # p => op'[q] = op[q]
    BY <1>a, <1>c, <1>4, BeginOpenShape DEF Takes, Moves, Returns, Closes, Reads
  <2> QED
    BY <1>d, <2>1, <2>2
<1>5. ASSUME NEW p \in Ops, BeginRename(p) PROVE FilesInv'
  <2>1. UNCHANGED <<meta, activeFile, activeId, linked, ready, discarded>>
    BY <1>5 DEF BeginRename, ReadBack, diskVars, memoryVars, history
  <2>2. /\ op[p].at \notin {"activating", "fixing"} /\ op'[p].at \notin {"attaching", "activating", "fixing"}
        /\ \A q \in Ops : q # p => op'[q] = op[q]
    BY <1>a, <1>c, <1>5, BeginRenameShape DEF Takes, Moves, Returns, Closes, Reads
  <2> QED
    BY <1>d, <2>1, <2>2
<1>6. ASSUME NEW p \in Ops, BeginTouch(p) PROVE FilesInv'
  <2>1. UNCHANGED <<meta, activeFile, activeId, linked, ready, discarded>>
    BY <1>6 DEF BeginTouch, ReadBack, diskVars, memoryVars, history
  <2>2. /\ op[p].at \notin {"activating", "fixing"} /\ op'[p].at \notin {"attaching", "activating", "fixing"}
        /\ \A q \in Ops : q # p => op'[q] = op[q]
    BY <1>a, <1>c, <1>6, BeginTouchShape DEF Takes, Moves, Returns, Closes, Reads
  <2> QED
    BY <1>d, <2>1, <2>2
<1>7. ASSUME NEW p \in Ops, Boot(p) PROVE FilesInv'
  <2>1. UNCHANGED <<meta, activeFile, activeId, linked, ready, discarded>>
    BY <1>7 DEF Boot, diskVars, memoryVars, history
  <2>2. Takes(p, "start") /\ \/ activeFile # NoSession /\ Reads(p, activeFile, "attaching")
                             \/ Moves(p, "minting")
    BY <1>a, <1>7, BootShape
  <2>3. op'[p].at = "attaching" => op'[p].id \in Sessions /\ meta'[op'[p].id] # NoMeta
    BY <1>a, <2>1, <2>2 DEF Reads, Moves
  <2>4. /\ op[p].at = "start" /\ op'[p].at \notin {"activating", "fixing"}
        /\ \A q \in Ops : q # p => op'[q] = op[q]
    BY <2>2 DEF Takes, Moves, Reads
  <2> QED
    BY <1>a, <1>d, <2>1, <2>3, <2>4 DEF Present
<1>8. ASSUME NEW p \in Ops, CloseOld(p) PROVE FilesInv'
  <2>1. Takes(p, "closing") /\ activeId \in Sessions /\ op[p].old \in Metas /\ op'[p].id = op[p].id
        /\ op'[p].at \in {"minting", "reopening"}
    BY <1>a, <1>8, CloseOldShape DEF Takes, Moves, Keeps, IdsInv
  <2>2. \E new \in Metas : Write("mutex", activeId, op[p].old, new)
    BY <1>8, <2>1, StatusUpdate DEF CloseOld
  <2>3. meta'[activeId] # NoMeta /\ \A s \in Sessions : meta[s] # NoMeta => meta'[s] # NoMeta
    BY <1>a, <2>1, <2>2, WriteFacts, MetaFields
  <2>4. UNCHANGED <<activeFile, activeId, linked, ready, discarded>>
    BY <1>8 DEF CloseOld, memoryVars
  <2> QED
    BY <1>d, <2>1, <2>3, <2>4 DEF Takes, Present
<1>9. ASSUME NEW p \in Ops, Reopen(p) PROVE FilesInv'
  <2>1. Takes(p, "reopening") /\ op[p].id \in Sessions /\ op[p].target \in Metas /\ op'[p].id = op[p].id
        /\ op'[p].at = "attaching"
    BY <1>a, <1>9, ReopenShape DEF Takes, Moves, Keeps, IdsInv
  <2>2. \E new \in Metas : Write("mutex", op[p].id, op[p].target, new)
    BY <1>9, <2>1, StatusUpdate DEF Reopen
  <2>3. meta'[op[p].id] # NoMeta /\ \A s \in Sessions : meta[s] # NoMeta => meta'[s] # NoMeta
    BY <1>a, <2>1, <2>2, WriteFacts, MetaFields
  <2>4. UNCHANGED <<activeFile, activeId, linked, ready, discarded>>
    BY <1>9 DEF Reopen, memoryVars
  <2> QED
    BY <1>d, <2>1, <2>3, <2>4 DEF Takes, Present
<1>10. ASSUME NEW p \in Ops, Mint(p) PROVE FilesInv'
  <2>1. Takes(p, "minting") /\ Moves(p, "attaching") /\ op'[p].id = minted' /\ minted' \in Sessions
    <3>1. Takes(p, "minting") /\ Moves(p, "attaching") /\ op'[p].id = minted'
      BY <1>a, <1>10, MintShape
    <3>2. minted' \in Sessions
      BY <1>a, <1>10, ManagerAssumption DEF Mint, Sessions
    <3> QED
      BY <3>1, <3>2
  <2>2. Write("mutex", minted', NoMeta, FreshMeta) /\ UNCHANGED <<activeFile, activeId, linked, ready, discarded>>
    BY <1>10 DEF Mint, memoryVars
  <2>3. meta'[minted'] # NoMeta /\ \A s \in Sessions : meta[s] # NoMeta => meta'[s] # NoMeta
    BY <1>a, <2>1, <2>2, WriteFacts, MetaFields
  <2> QED
    BY <1>d, <2>1, <2>2, <2>3 DEF Takes, Moves, Present
<1>11. ASSUME NEW p \in Ops, Rename(p) PROVE FilesInv'
  <2>1. Takes(p, "renaming") /\ op'[p].at = "start" /\ op[p].id \in Sessions /\ op[p].target \in Metas
    BY <1>a, <1>c, <1>11, RenameShape DEF Takes, Returns, IdsInv
  <2>2. \E new \in Metas : Write("mutex", op[p].id, op[p].target, new)
    BY <1>11, <2>1, TitleUpdate, MetaFields DEF Rename, WriteBack
  <2>3. \A s \in Sessions : meta[s] # NoMeta => meta'[s] # NoMeta
    BY <1>a, <2>1, <2>2, WriteFacts, MetaFields
  <2>4. UNCHANGED <<activeFile, activeId, linked, ready, discarded>>
    BY <1>11 DEF Rename, WriteBack, memoryVars
  <2> QED
    BY <1>d, <2>1, <2>3, <2>4 DEF Takes
<1>12. ASSUME NEW p \in Ops, Touch(p) PROVE FilesInv'
  <2>1. Takes(p, "touching") /\ op'[p].at = "start" /\ op[p].id \in Sessions /\ op[p].target \in Metas
    BY <1>a, <1>c, <1>12, TouchShape DEF Takes, Returns, IdsInv
  <2>2. \E new \in Metas : Write("mutex", op[p].id, op[p].target, new)
    BY <1>12, <2>1, TitleUpdate, MetaFields DEF Touch, WriteBack
  <2>3. \A s \in Sessions : meta[s] # NoMeta => meta'[s] # NoMeta
    BY <1>a, <2>1, <2>2, WriteFacts, MetaFields
  <2>4. UNCHANGED <<activeFile, activeId, linked, ready, discarded>>
    BY <1>12 DEF Touch, WriteBack, memoryVars
  <2> QED
    BY <1>d, <2>1, <2>3, <2>4 DEF Takes
<1>13. ASSUME NEW p \in Ops, Attach(p) PROVE FilesInv'
  <2>1. Takes(p, "attaching") /\ Moves(p, "activating") /\ Keeps(p) /\ op[p].id \in Sessions
    BY <1>a, <1>13, AttachShape DEF Takes, IdsInv
  <2>2. UNCHANGED <<meta, activeFile, ready, discarded>> /\ activeId' = op[p].id /\ linked' = TRUE
    BY <1>13 DEF Attach, history
  <2>3. op'[p].at = "activating" /\ op'[p].id = op[p].id /\ \A q \in Ops : q # p => op'[q].at = "start"
    BY <2>1 DEF Takes, Moves, Keeps
  <2>4. Present(op[p].id) /\ (activeFile # NoSession => Present(activeFile))
    BY <1>a, <2>1 DEF FilesInv, Takes
  <2> QED
    BY <2>2, <2>3, <2>4 DEF FilesInv, Present
<1>14. ASSUME NEW p \in Ops, Activate(p) PROVE FilesInv'
  <2>1. Takes(p, "activating") /\ op[p].id \in Sessions /\ op[p].id = activeId
        /\ Present(op[p].id) /\ (activeId \notin discarded /\ activeId # NoSession => linked)
    BY <1>a, <1>14, ActivateShape DEF Takes, IdsInv, FilesInv
  <2>2. UNCHANGED <<meta, activeId, linked, discarded>> /\ activeFile' = op[p].id
    BY <1>14 DEF Activate, history
  <2>3. \/ op'[p].at = "start"
        \/ op'[p].at = "fixing" /\ op'[p].id = op[p].id
    BY <1>a, <1>c, <1>14, ActivateShape DEF Returns, Touches, Moves, Keeps
  <2>4. \A q \in Ops : q # p => op'[q].at = "start"
    BY <2>1 DEF Takes
  <2> QED
    BY <2>1, <2>2, <2>3, <2>4 DEF FilesInv, Present
<1>15. ASSUME NEW p \in Ops, Fix(p) PROVE FilesInv'
  <2>1. Takes(p, "fixing") /\ op'[p].at = "start" /\ op[p].id \in Sessions /\ op[p].target \in Metas
        /\ op[p].id = activeId /\ activeFile = op[p].id
    BY <1>a, <1>c, <1>15, FixShape DEF Takes, Touches, IdsInv, FilesInv
  <2>2. \E new \in Metas : Write("mutex", op[p].id, op[p].target, new)
    BY <1>15, <2>1, StatusUpdate DEF Fix
  <2>3. \A s \in Sessions : meta[s] # NoMeta => meta'[s] # NoMeta
    BY <1>a, <2>1, <2>2, WriteFacts, MetaFields
  <2>4. UNCHANGED <<activeFile, activeId, linked, discarded>>
    BY <1>15 DEF Fix
  <2>5. \A q \in Ops : q # p => op'[q].at = "start"
    BY <2>1 DEF Takes
  <2> QED
    BY <1>a, <2>1, <2>3, <2>4, <2>5 DEF FilesInv, Present
<1>16. ASSUME NEW p \in Ops, Delete(p) PROVE FilesInv'
  <2>1. Takes(p, "start") /\ op'[p].at = "start" /\ op[p].kind = "delete" /\ op[p].id \in Sessions
    BY <1>a, <1>c, <1>16, DeleteShape DEF Returns, IdsInv
  <2>2. activeFile = activeId /\ activeFile # NoSession /\ ready
    BY <1>a, <2>1 DEF HolderInv, FilesInv, IdsInv, Takes
  <2>3. /\ UNCHANGED <<activeFile, activeId, ready, discarded>>
        /\ \/ op[p].id # activeId /\ RemoveDir(op[p].id)
           \/ UNCHANGED <<meta, linked>>
    BY <1>16 DEF Delete
  <2>4. meta'[activeFile] = meta[activeFile] /\ linked' = linked
    BY <1>a, <2>1, <2>2, <2>3 DEF RemoveDir, DataOK
  <2>5. \A q \in Ops : q # p => op'[q].at = "start"
    BY <2>1 DEF Takes
  <2> QED
    BY <1>a, <2>1, <2>2, <2>3, <2>4, <2>5 DEF FilesInv, Present
<1>17. ASSUME NEW run \in sums, SumStep(run) \/ SumFails(run) PROVE FilesInv'
  <2>1. op' = op /\ run.id \in Sessions
    BY <1>a, <1>17, SumKeepsCalls DEF IdsInv
  <2>2. /\ UNCHANGED <<activeFile, activeId, ready>> /\ (activeId \notin discarded' => linked' = linked)
        /\ discarded \subseteq discarded'
        /\ \A s \in Sessions : Present(s) => Present(s)'
    <3>1. CASE SumReadMeta(run) \/ SumLoad(run) \/ SumFails(run)
      <4>1. UNCHANGED <<meta, activeFile, activeId, ready, linked, discarded>>
        BY <3>1 DEF SumReadMeta, SumLoad, SumFails, diskVars, memoryVars, history
      <4> QED
        BY <4>1 DEF Present
    <3>2. CASE SumRemove(run)
      <4>1. /\ UNCHANGED <<activeFile, activeId, ready>> /\ discarded' = discarded \cup {run.id}
            /\ meta' = [meta EXCEPT ![run.id] = NoMeta] /\ linked' = (linked /\ run.id # activeId)
        BY <3>2 DEF SumRemove, RemoveDir
      <4>2. \A s \in Sessions : Present(s) => Present(s)'
        BY <1>a, <2>1, <4>1 DEF Present
      <4>3. activeId \notin discarded' => linked' = linked
        <5>1. linked \in BOOLEAN
          BY <1>a DEF DataOK
        <5>2. activeId \notin discarded' => run.id # activeId
          BY <4>1
        <5> QED
          BY <4>1, <5>1, <5>2
      <4> QED
        BY <4>1, <4>2, <4>3
    <3>3. CASE SumWrite(run)
      <4>1. run.read \in Metas
        BY <1>a, <3>3 DEF SumWrite, IdsInv
      <4>2. /\ \E new \in Metas : Write("summarizer", run.id, run.read, new)
            /\ UNCHANGED <<activeFile, activeId, ready, linked, discarded>>
        BY <3>3, <4>1, SummaryUpdate, Zenon DEF SumWrite, memoryVars
      <4>3. \A s \in Sessions : meta[s] # NoMeta => meta'[s] # NoMeta
        BY <1>a, <2>1, <4>2, WriteFacts, MetaFields
      <4> QED
        BY <4>2, <4>3 DEF Present
    <3> QED
      BY <1>17, <3>1, <3>2, <3>3 DEF SumStep
  <2>3. \A p \in Ops : op[p].at \in {"attaching", "activating", "fixing"} => op[p].id \in Sessions
    BY <1>a DEF IdsInv
  <2> QED
    BY <1>a, <2>1, <2>2, <2>3 DEF FilesInv
<1>18. ASSUME NEW s \in Sessions, ReadJournal(s) \/ Flush(s) PROVE FilesInv'
  BY <1>a, <1>18 DEF FilesInv, Present, ReadJournal, Flush, memoryVars, history
<1>19. CASE Crash
  <2>1. /\ UNCHANGED <<meta, activeFile, discarded>> /\ activeId' = NoSession /\ ready' = FALSE
        /\ \A p \in Ops : op'[p] = Idle \/ op'[p] = Call("boot", NoSession)
    BY <1>19 DEF Crash, history
  <2>2. Call("boot", NoSession).at = "start"
    BY CallRecords DEF Kinds
  <2> QED
    BY <1>a, <1>c, <2>1, <2>2 DEF FilesInv, Present
<1>20. CASE UNCHANGED vars
  BY <1>a, <1>20 DEF FilesInv, Present, vars, diskVars, memoryVars, history
<1> QED
  BY <1>1, <1>2, <1>3, <1>4, <1>5, <1>6, <1>7, <1>8, <1>9, <1>10, <1>11, <1>12, <1>13, <1>14, <1>15, <1>16, <1>17, <1>18, <1>19, <1>20
     DEF Next, CommandStep, OpStep

-----------------------------------------------------------------------------
(* The first initialize().                                                 *)

\* Until initialize() has returned it is alone.
LEMMA OnlyOne ==
    ASSUME CallsOK, HolderInv, ~ready, NEW p \in Ops, p \in Range(queue), NEW q \in Ops, q # p
    PROVE  q \notin Range(queue) /\ op[q].kind # "boot"
<1>1. queue \in Seq(Ops) /\ Len(queue) = 1
  BY DEF CallsOK, HolderInv
<1>2. DOMAIN queue = {1}
  BY <1>1
<1> QED
  BY <1>2 DEF Range, HolderInv

\* The steps of the other calls are not those of initialize().
LEMMA ActionKinds ==
    ASSUME TypeOK, HolderInv, NEW p \in Ops, OpStep(p)
    PROVE  op[p].kind = "boot" => Boot(p) \/ Mint(p) \/ Attach(p) \/ Activate(p) \/ Fix(p)
<1>1. BeginNew(p) \/ BeginOpen(p) \/ OpenAfterRead(p) \/ Delete(p) => op[p].kind # "boot"
  BY BeginNewShape, BeginOpenShape, OpenAfterReadShape, DeleteShape
<1>2. BeginRename(p) \/ BeginTouch(p) => op[p].kind # "boot"
  BY BeginRenameShape, BeginTouchShape
<1>3. CloseOld(p) \/ Reopen(p) \/ Rename(p) \/ Touch(p) => op[p].kind # "boot"
  BY CloseOldShape, ReopenShape, RenameShape, TouchShape DEF Takes, HolderInv
<1> QED
  BY <1>1, <1>2, <1>3 DEF OpStep

LEMMA FirstStep == ManagerInv /\ [Next]_vars => FirstInv'
<1> SUFFICES ASSUME ManagerInv, [Next]_vars, crashes' = 0, ~ready' PROVE FirstInv'
  BY DEF FirstInv
<1>a. TypeOK /\ DataOK /\ HolderInv /\ IdsInv /\ ReadsInv /\ FirstInv /\ op \in [Ops -> Calls]
      /\ CallsOK /\ Known \subseteq Sessions /\ minted \in Nat /\ crashes \in Nat
  BY ManagerAssumption DEF ManagerInv, TypeOK, CallsOK, DataOK, Known, Sessions
<1>c. Idle.at = "start" /\ Idle.kind = "idle" /\ Call("touch", NoSession).at = "start"
      /\ Call("touch", NoSession).kind = "touch"
  BY CallRecords DEF Kinds
<1>d. CASE ready
  <2>1. ready' # ready => Crash
    <3>1. CASE Crash
      BY <3>1
    <3>2. CASE CommandStep \/ UNCHANGED vars \/ \E s \in Sessions : Flush(s)
      BY <1>d, <3>2 DEF CommandStep, NewSession, OpenSession, DeleteSession, RenameSession, Request, AppendEvent,
         ReadJournal, Flush, vars, memoryVars
    <3>3. ASSUME NEW run \in sums, SumStep(run) \/ SumFails(run) PROVE ready' = ready
      <4>1. SumReadMeta(run) \/ SumLoad(run) \/ SumFails(run) => ready' = ready
        BY DEF SumReadMeta, SumLoad, SumFails, memoryVars
      <4>2. SumRemove(run) => ready' = ready
        BY DEF SumRemove
      <4>3. SumWrite(run) => ready' = ready
        BY DEF SumWrite, memoryVars
      <4> QED
        BY <3>3, <4>1, <4>2, <4>3 DEF SumStep
    <3>4. ASSUME NEW p \in Ops, OpStep(p) PROVE ready' = ready \/ ready' = TRUE
      <4>1. BeginNew(p) \/ BeginOpen(p) \/ OpenAfterRead(p) \/ CloseOld(p) \/ Mint(p) \/ Reopen(p) \/ Boot(p)
               => ready' = ready
        BY DEF BeginNew, BeginOpen, OpenAfterRead, CloseOld, Mint, Reopen, Boot, memoryVars
      <4>2. BeginRename(p) \/ BeginTouch(p) \/ Rename(p) \/ Touch(p) \/ Attach(p) \/ Delete(p) => ready' = ready
        BY DEF BeginRename, BeginTouch, ReadBack, Rename, Touch, WriteBack, Attach, Delete, memoryVars
      <4>3. Activate(p) \/ Fix(p) => ready' = ready \/ ready' = TRUE
        BY <1>a, ActivateShape DEF Fix
      <4> QED
        BY <3>4, <4>1, <4>2, <4>3 DEF OpStep
    <3> QED
      BY <1>d, <3>1, <3>2, <3>3, <3>4 DEF Next
  <2>2. ready' # ready
    BY <1>d
  <2>3. crashes' = crashes + 1
    BY <2>1, <2>2 DEF Crash
  <2> QED
    BY <1>a, <2>3
<1>e. CASE ~ready
  <2>a. \A at : \A p \in Ops : Takes(p, at) => op[p].kind = "boot"
    BY <1>a, <1>e DEF HolderInv, Takes
  <2>b. crashes' = crashes => /\ \A p \in Ops : op[p].kind = "boot" /\ op[p].at \in {"start", "minting"} => minted = 0
                              /\ \A p \in Ops : op[p].at # "fixing"
                              /\ \A p \in Ops : op[p].kind = "boot" /\ op[p].at \in {"attaching", "activating"} =>
                                    Marked(op[p].id)
    BY <1>a, <1>e DEF FirstInv
  <2>1. ASSUME NEW p \in Ops, Boot(p) PROVE FirstInv'
    <3>1. UNCHANGED <<minted, crashes>> /\ op[p].kind = "boot" /\ op[p].at = "start" /\ Takes(p, "start")
      BY <1>a, <2>1, BootShape DEF Boot, Takes
    <3>2. minted = 0 /\ activeFile = NoSession
      BY <1>a, <2>b, <3>1 DEF IdsInv, Known, NoSession
    <3>3. op'[p].at = "minting" /\ \A q \in Ops : q # p => op'[q].at = "start"
      BY <1>a, <2>1, <3>1, <3>2, BootShape DEF Moves, Takes
    <3> QED
      BY <3>1, <3>2, <3>3 DEF FirstInv
  <2>2. ASSUME NEW p \in Ops, Mint(p) PROVE FirstInv'
    <3>1. Takes(p, "minting") /\ Moves(p, "attaching") /\ op'[p].id = minted' /\ minted' \in Sessions
      <4>1. Takes(p, "minting") /\ Moves(p, "attaching") /\ op'[p].id = minted'
        BY <1>a, <2>2, MintShape
      <4>2. minted' \in Sessions
        BY <1>a, <2>2, ManagerAssumption DEF Mint, Sessions
      <4> QED
        BY <4>1, <4>2
    <3>2. Write("mutex", minted', NoMeta, FreshMeta)
      BY <2>2 DEF Mint
    <3>3. meta'[minted'].status = "active"
      BY <1>a, <3>1, <3>2, WriteFacts, MetaFields
    <3>4. \A q \in Ops : q # p => op'[q] = op[q] /\ op[q].kind # "boot" /\ op[q].at = "start"
      BY <1>a, <1>e, <3>1, OnlyOne DEF Takes
    <3> QED
      BY <3>1, <3>3, <3>4 DEF FirstInv, Marked, Moves
  <2>3. ASSUME NEW p \in Ops, Attach(p) PROVE FirstInv'
    <3>1. Takes(p, "attaching") /\ Moves(p, "activating") /\ Keeps(p) /\ UNCHANGED <<meta, crashes>>
      BY <1>a, <2>3, AttachShape DEF Attach
    <3>2. Marked(op[p].id)
      BY <2>a, <2>b, <3>1 DEF Takes
    <3>3. \A q \in Ops : q # p => op'[q] = op[q] /\ op[q].kind # "boot" /\ op[q].at = "start"
      BY <1>a, <1>e, <3>1, OnlyOne DEF Takes
    <3> QED
      BY <3>1, <3>2, <3>3 DEF FirstInv, Moves, Keeps, Marked
  <2>4. ASSUME NEW p \in Ops, Activate(p) PROVE FirstInv'
    <3>1. Takes(p, "activating") /\ op[p].kind = "boot" /\ crashes' = crashes
      BY <1>a, <2>4, <2>a, ActivateShape DEF Activate
    <3>2. meta[op[p].id] = op[p].target /\ Marked(op[p].id)
      BY <1>a, <2>b, <3>1 DEF Takes, ReadsInv
    <3>3. ready' = TRUE
      BY <1>a, <2>4, <3>1, <3>2, ActivateShape DEF Marked
    <3> QED
      BY <3>3
  <2>5. ASSUME NEW p \in Ops, Fix(p) PROVE FirstInv'
    BY <2>5 DEF Fix
  <2>6. ASSUME NEW p \in Ops, OpStep(p), ~Boot(p), ~Mint(p), ~Attach(p), ~Activate(p), ~Fix(p) PROVE FALSE
    <3>1. op[p].kind = "boot" /\ p \in Ops
      <4>1. \E at : Holds(p, at)
        BY <2>6 DEF OpStep, BeginNew, BeginOpen, OpenAfterRead, CloseOld, Reopen, Delete, BeginRename, Rename,
           BeginTouch, Touch, ReadBack, WriteBack
      <4>2. p \in Range(queue)
        BY <1>a, <4>1, HolderFacts
      <4> QED
        BY <1>a, <1>e, <4>2 DEF HolderInv
    <3> QED
      BY <1>a, <2>6, <3>1, ActionKinds
  <2>7. ASSUME Crash PROVE FALSE
    BY <1>a, <2>7 DEF Crash
  <2>8. ASSUME CommandStep PROVE FALSE
    BY <1>e, <2>8 DEF CommandStep, NewSession, OpenSession, DeleteSession, RenameSession, Request, AppendEvent, ReadJournal
  <2>9. ASSUME NEW run \in sums, SumStep(run) \/ SumFails(run) PROVE FALSE
    BY <1>a, <1>e, <2>9 DEF HolderInv
  <2>10. ASSUME UNCHANGED vars \/ \E s \in Sessions : Flush(s) PROVE FirstInv'
    <3>1. UNCHANGED <<op, meta, crashes, minted>>
      BY <2>10 DEF vars, diskVars, Flush
    <3> QED
      BY <2>b, <3>1 DEF FirstInv, Marked
  <2> QED
    BY <2>1, <2>2, <2>3, <2>4, <2>5, <2>6, <2>7, <2>8, <2>9, <2>10 DEF Next
<1> QED
  BY <1>d, <1>e

-----------------------------------------------------------------------------
(* Which sessions are marked active.                                       *)

\* A write of the Summarizer that drops nobody's leaves the status as it is.
LEMMA SummarizerKeepsMarks ==
    ASSUME TypeOK, IdsInv, NEW run \in sums, SumStep(run) \/ SumFails(run), ~SummarizerClobbered'
    PROVE  /\ ~SummarizerClobbered /\ discarded \subseteq discarded' /\ run.id \in Sessions
           /\ UNCHANGED <<activeId, ready, crashes, minted, activeFile>>
           /\ \A s \in Sessions : \/ s \in discarded' /\ meta'[s].status # "active"
                                  \/ meta'[s].status = meta[s].status
<1>a. DataOK /\ meta \in [Sessions -> Metas \cup {NoMeta}] /\ run.id \in Sessions
  BY ManagerAssumption DEF TypeOK, DataOK, IdsInv, Known, Sessions
<1>b. clobbers \subseteq clobbers' => ~SummarizerClobbered
  BY DEF SummarizerClobbered
<1>1. CASE SumReadMeta(run) \/ SumLoad(run) \/ SumFails(run)
  <2>1. UNCHANGED <<meta, activeFile, activeId, ready, discarded, crashes, minted, clobbers>>
    BY <1>1 DEF SumReadMeta, SumLoad, SumFails, diskVars, memoryVars, history
  <2> QED
    BY <1>a, <1>b, <2>1
<1>2. CASE SumRemove(run)
  <2>1. /\ UNCHANGED <<activeFile, activeId, ready, crashes, minted>> /\ discarded' = discarded \cup {run.id}
        /\ clobbers \subseteq clobbers' /\ meta' = [meta EXCEPT ![run.id] = NoMeta]
    BY <1>2 DEF SumRemove, RemoveDir
  <2> QED
    BY <1>a, <1>b, <2>1, MetaFields
<1>3. CASE SumWrite(run)
  <2>1. run.read \in Metas
    BY <1>3 DEF SumWrite, IdsInv
  <2>2. \E new \in Metas : new.status = run.read.status /\ Write("summarizer", run.id, run.read, new)
    <3>1. PICK summary \in BOOLEAN :
            Write("summarizer", run.id, run.read, [run.read EXCEPT !.title = "auto", !.summary = summary])
      BY <1>3, Zenon DEF SumWrite
    <3>2. /\ [run.read EXCEPT !.title = "auto", !.summary = summary] \in Metas
          /\ [run.read EXCEPT !.title = "auto", !.summary = summary].status = run.read.status
      BY <2>1, SummaryUpdate, Zenon
    <3> QED
      BY <3>1, <3>2, Zenon
  <2>3. UNCHANGED <<activeFile, activeId, ready, crashes, minted, discarded>>
    BY <1>3 DEF SumWrite, memoryVars
  <2>4. PICK new \in Metas : new.status = run.read.status /\ Write("summarizer", run.id, run.read, new)
    BY <2>2
  <2>5. /\ clobbers \subseteq clobbers' /\ meta' = [meta EXCEPT ![run.id] = new]
        /\ meta[run.id] # run.read => <<"summarizer", writer[run.id], run.id>> \in clobbers'
    BY <2>4 DEF Write
  <2>6. <<"summarizer", writer[run.id], run.id>>[1] = "summarizer"
    OBVIOUS
  <2>7. meta[run.id] = run.read
    BY <2>5, <2>6 DEF SummarizerClobbered
  <2> QED
    BY <1>a, <1>b, <2>3, <2>4, <2>5, <2>7
<1> QED
  BY <1>1, <1>2, <1>3 DEF SumStep


LEMMA MarksStep == ManagerInv /\ [Next]_vars => MarksInv'
<1> SUFFICES ASSUME ManagerInv, [Next]_vars, ~SummarizerClobbered' PROVE MarksInv'
  BY DEF MarksInv
<1>a. TypeOK /\ DataOK /\ CallsOK /\ HolderInv /\ IdsInv /\ ReadsInv /\ FirstInv /\ MarksInv /\ op \in [Ops -> Calls]
      /\ Known \subseteq Sessions /\ minted \in Nat /\ activeId \in Known \cup {NoSession} /\ crashes \in Nat
      /\ meta \in [Sessions -> Metas \cup {NoMeta}] /\ NoSession \notin Sessions
  BY ManagerAssumption DEF ManagerInv, TypeOK, CallsOK, DataOK, IdsInv, Known, Sessions, NoSession
<1>b. clobbers \subseteq clobbers' => ~SummarizerClobbered
  BY DEF SummarizerClobbered
<1>c. Idle.at = "start" /\ Idle.kind = "idle" /\ Call("touch", NoSession).at = "start"
      /\ Call("touch", NoSession).kind = "touch"
  BY CallRecords DEF Kinds
<1>d. minted' = minted => Known' = Known
  BY DEF Known
\* a step that leaves files and sessions alone, of a call that is not changing the active session
<1>e. ASSUME NEW p \in Ops, UNCHANGED <<meta, clobbers, activeId, discarded, ready, crashes, minted>>,
             op[p].at \notin Changing, op'[p].at \notin Changing \cup {"renaming", "touching"},
             \A q \in Ops : q # p => op'[q] = op[q]
      PROVE  MarksInv'
  BY <1>a, <1>b, <1>d, <1>e DEF MarksInv, MarkedOnly, Marked, Changing
\* the holder returns
<1>f. ASSUME NEW p \in Ops, NEW at, Takes(p, at), op'[p].at = "start",
             ready' /\ activeId' \notin discarded' => Marked(activeId)',
             crashes' = 0 => \A s \in Known' : Marked(s)' => s = activeId'
      PROVE  MarksInv'
  BY <1>f DEF MarksInv, MarkedOnly, Takes
\* what the invariant says of the holder
<1>g. ASSUME NEW p \in Ops, NEW at, Takes(p, at), ~SummarizerClobbered
      PROVE  /\ ready /\ activeId \notin discarded /\ at \notin Changing => Marked(activeId)
             /\ crashes = 0 /\ at \in {"minting", "reopening"} => \A s \in Known : ~Marked(s)
             /\ crashes = 0 /\ at = "attaching" => \A s \in Known : Marked(s) => s = op[p].id
             /\ crashes = 0 => \A s \in Known : Marked(s) => s = activeId \/ (at = "attaching" /\ s = op[p].id)
  BY <1>a, <1>g DEF MarksInv, MarkedOnly, Takes, Changing
<1>h. ASSUME NEW p \in Ops, NEW at, Takes(p, at), op[p].kind # "boot" PROVE ready
  BY <1>a, <1>h DEF HolderInv, Takes
<1>1. ASSUME NEW p \in Ops, NewSession(p) \/ OpenSession(p) \/ DeleteSession(p) \/ RenameSession(p) \/ AppendEvent(p)
      PROVE  MarksInv'
  <2>1. PICK kind \in Kinds, id \in Sessions \cup {NoSession} :
           Enqueue(p, kind, id) /\ UNCHANGED <<meta, clobbers, activeId, discarded, ready, crashes, minted>>
    BY <1>a, <1>1 DEF NewSession, OpenSession, DeleteSession, RenameSession, Request, AppendEvent, diskVars,
       memoryVars, history, Kinds
  <2>2. op[p].at = "start" /\ op'[p].at = "start" /\ \A q \in Ops : q # p => op'[q] = op[q]
    BY <1>a, <1>c, <2>1, CallRecords DEF Enqueue
  <2> QED
    BY <2>1, <2>2, <1>e DEF Changing
<1>2. ASSUME NEW p \in Ops, BeginOpen(p) PROVE MarksInv'
  <2>1. UNCHANGED <<meta, clobbers, activeId, discarded, ready, crashes, minted>>
    BY <1>2 DEF BeginOpen, diskVars, memoryVars, history
  <2>2. Takes(p, "start") /\ op'[p].at \in {"start", "opening"}
    BY <1>a, <1>c, <1>2, BeginOpenShape DEF Returns, Reads, Moves
  <2> QED
    BY <2>1, <2>2, <1>e DEF Takes, Changing
<1>3. ASSUME NEW p \in Ops, BeginNew(p) PROVE MarksInv'
  <2>1. UNCHANGED <<meta, clobbers, activeId, discarded, ready, crashes, minted>> /\ Takes(p, "start") /\ Closes(p, "minting")
    BY <1>a, <1>3, BeginNewShape DEF BeginNew, diskVars, memoryVars, history
  <2>2. CASE op'[p].at = "closing"
    BY <2>1, <2>2, <1>e DEF Takes, Changing
  <2>3. CASE ~(activeId # NoSession /\ meta[activeId] # NoMeta) /\ op'[p].at = "minting"
    <3>1. crashes = 0 => \A s \in Known : ~Marked(s)
      BY <1>a, <1>b, <1>g, <2>1, <2>3, MetaFields DEF Marked
    <3>2. \A q \in Ops : q # p => op'[q].at = "start"
      BY <2>1 DEF Takes
    <3> QED
      BY <1>d, <2>1, <2>3, <3>1, <3>2 DEF MarksInv, MarkedOnly, Marked, Changing
  <2> QED
    BY <1>a, <1>3, <2>1, <2>2, <2>3 DEF Closes, Moves, BeginNew, StartClose, Calls
<1>4. ASSUME NEW p \in Ops, OpenAfterRead(p) PROVE MarksInv'
  <2>1. UNCHANGED <<meta, clobbers, activeId, discarded, ready, crashes, minted>> /\ Takes(p, "opening") /\ Closes(p, "reopening")
    BY <1>a, <1>4, OpenAfterReadShape DEF OpenAfterRead, diskVars, memoryVars, history
  <2>2. CASE op'[p].at = "closing"
    BY <2>1, <2>2, <1>e DEF Takes, Changing
  <2>3. CASE ~(activeId # NoSession /\ meta[activeId] # NoMeta) /\ op'[p].at = "reopening"
    <3>1. crashes = 0 => \A s \in Known : ~Marked(s)
      BY <1>a, <1>b, <1>g, <2>1, <2>3, MetaFields DEF Marked
    <3>2. \A q \in Ops : q # p => op'[q].at = "start"
      BY <2>1 DEF Takes
    <3> QED
      BY <1>d, <2>1, <2>3, <3>1, <3>2 DEF MarksInv, MarkedOnly, Marked, Changing
  <2> QED
    BY <1>a, <1>4, <2>1, <2>2, <2>3 DEF Closes, Moves, OpenAfterRead, StartClose, Calls
<1>5. ASSUME NEW p \in Ops, CloseOld(p) PROVE MarksInv'
  <2>1. /\ Takes(p, "closing") /\ Moves(p, IF op[p].kind = "new" THEN "minting" ELSE "reopening") /\ Keeps(p)
        /\ UNCHANGED <<activeId, discarded, ready, crashes, minted>>
    BY <1>a, <1>5, CloseOldShape DEF CloseOld, memoryVars
  <2>2. activeId \in Sessions /\ op[p].old \in Metas
    BY <1>a, <2>1 DEF Takes, IdsInv
  <2>3. \E new \in Metas : new.status = "closed" /\ Write("mutex", activeId, op[p].old, new)
    BY <1>5, <2>2, StatusUpdate DEF CloseOld
  <2>4. meta'[activeId].status = "closed" /\ \A s \in Sessions : s # activeId => (Marked(s)' <=> Marked(s))
    <3>1. meta'[activeId].status = "closed" /\ \A s \in Sessions : s # activeId => meta'[s] = meta[s]
      BY <1>a, <2>2, <2>3, WriteFacts
    <3> QED
      BY <3>1 DEF Marked
  <2>5. crashes = 0 => \A s \in Known : ~Marked(s)'
    BY <1>a, <1>b, <1>g, <2>1, <2>3, <2>4 DEF Write, Marked
  <2>6. op'[p].at \in {"minting", "reopening"} /\ \A q \in Ops : q # p => op'[q].at = "start"
    BY <2>1 DEF Takes, Moves
  <2> QED
    BY <1>d, <2>1, <2>5, <2>6 DEF MarksInv, MarkedOnly, Changing
<1>6. ASSUME NEW p \in Ops, Mint(p) PROVE MarksInv'
  <2>1. /\ Takes(p, "minting") /\ Moves(p, "attaching") /\ op'[p].id = minted' /\ minted' \in Sessions
        /\ minted' = minted + 1 /\ UNCHANGED <<activeId, discarded, ready, crashes>>
        /\ Write("mutex", minted', NoMeta, FreshMeta)
    <3>1. Takes(p, "minting") /\ Moves(p, "attaching") /\ op'[p].id = minted'
      BY <1>a, <1>6, MintShape
    <3>2. minted' \in Sessions /\ minted' = minted + 1
      BY <1>a, <1>6, ManagerAssumption DEF Mint, Sessions
    <3>3. UNCHANGED <<activeId, discarded, ready, crashes>> /\ Write("mutex", minted', NoMeta, FreshMeta)
      BY <1>6 DEF Mint, memoryVars
    <3> QED
      BY <3>1, <3>2, <3>3
  <2>2. /\ meta'[minted'].status = "active"
        /\ \A s \in Sessions : s # minted' => (Marked(s)' <=> Marked(s))
    <3>1. meta'[minted'] = FreshMeta /\ \A s \in Sessions : s # minted' => meta'[s] = meta[s]
      BY <1>a, <2>1, WriteFacts
    <3> QED
      BY <3>1, MetaFields DEF Marked
  <2>3. crashes = 0 => \A s \in Known : ~Marked(s)
    BY <1>a, <1>b, <1>g, <2>1 DEF Write
  <2>4. Known' = Known \cup {minted'}
    BY <1>a, <2>1 DEF Known
  <2>5. op'[p].at = "attaching" /\ \A q \in Ops : q # p => op'[q].at = "start"
    BY <2>1 DEF Takes, Moves
  <2>6. crashes' = 0 => \A s \in Known' : Marked(s)' => s = op'[p].id
    BY <1>a, <2>1, <2>2, <2>3, <2>4
  <2> QED
    BY <2>1, <2>2, <2>5, <2>6 DEF MarksInv, MarkedOnly, Marked, Changing
<1>7. ASSUME NEW p \in Ops, Reopen(p) PROVE MarksInv'
  <2>1. /\ Takes(p, "reopening") /\ Moves(p, "attaching") /\ Keeps(p)
        /\ UNCHANGED <<activeId, discarded, ready, crashes, minted>>
    BY <1>a, <1>7, ReopenShape DEF Reopen, memoryVars
  <2>2. op[p].id \in Sessions /\ op[p].target \in Metas
    BY <1>a, <2>1 DEF Takes, IdsInv
  <2>3. \E new \in Metas : new.status = "active" /\ Write("mutex", op[p].id, op[p].target, new)
    BY <1>7, <2>2, StatusUpdate DEF Reopen
  <2>4. meta'[op[p].id].status = "active" /\ \A s \in Sessions : s # op[p].id => (Marked(s)' <=> Marked(s))
    <3>1. meta'[op[p].id].status = "active" /\ \A s \in Sessions : s # op[p].id => meta'[s] = meta[s]
      BY <1>a, <2>2, <2>3, WriteFacts
    <3> QED
      BY <3>1 DEF Marked
  <2>5. crashes = 0 => \A s \in Known : Marked(s)' => s = op[p].id
    BY <1>a, <1>b, <1>g, <2>1, <2>3, <2>4 DEF Write
  <2>6. op'[p].at = "attaching" /\ op'[p].id = op[p].id /\ \A q \in Ops : q # p => op'[q].at = "start"
    BY <2>1 DEF Takes, Moves, Keeps
  <2> QED
    BY <1>d, <2>1, <2>4, <2>5, <2>6 DEF MarksInv, MarkedOnly, Marked, Changing
<1>8. ASSUME NEW p \in Ops, Attach(p) PROVE MarksInv'
  <2>1. /\ Takes(p, "attaching") /\ Moves(p, "activating") /\ Keeps(p)
        /\ UNCHANGED <<meta, clobbers, discarded, ready, crashes, minted>> /\ activeId' = op[p].id
    BY <1>a, <1>8, AttachShape DEF Attach, history
  <2>2. op'[p].at = "activating" /\ op'[p].id = op[p].id /\ op'[p].kind = op[p].kind
        /\ \A q \in Ops : q # p => op'[q].at = "start"
    BY <2>1 DEF Takes, Moves, Keeps
  <2>3. op[p].kind \in {"new", "open"} /\ op[p].id \notin discarded => Marked(op[p].id)
    BY <1>a, <1>b, <2>1 DEF MarksInv, Takes
  <2>4. crashes = 0 => \A s \in Known : Marked(s) => s = op[p].id
    BY <1>a, <1>b, <1>g, <2>1
  <2> QED
    BY <1>d, <2>1, <2>2, <2>3, <2>4 DEF MarksInv, MarkedOnly, Marked, Changing
<1>9. ASSUME NEW p \in Ops, Activate(p) PROVE MarksInv'
  <2>1. /\ Takes(p, "activating") /\ op[p].id = activeId
        /\ UNCHANGED <<meta, clobbers, activeId, discarded, crashes, minted>>
    BY <1>a, <1>9, ActivateShape DEF Activate, history, Takes, IdsInv
  <2>2. crashes = 0 => \A s \in Known : Marked(s) => s = activeId
    BY <1>a, <1>b, <1>g, <2>1
  <2>3. CASE op[p].kind \in {"new", "open"}
    <3>1. activeId \notin discarded => Marked(activeId)
      BY <1>a, <1>b, <2>1, <2>3 DEF MarksInv, Takes
    <3>2. op'[p].at = "start"
      BY <1>a, <1>c, <1>9, <2>3, ActivateShape DEF Returns, Touches
    <3> QED
      BY <1>d, <1>f, <2>1, <2>2, <3>1, <3>2 DEF Marked
  <2>4. CASE op[p].kind = "boot" /\ op[p].target.status = "active"
    <3>1. Marked(activeId) /\ op'[p].at = "start"
      BY <1>a, <1>c, <1>9, <2>1, <2>4, ActivateShape DEF ReadsInv, Takes, Marked, Touches
    <3> QED
      BY <1>d, <1>f, <2>1, <2>2, <3>1 DEF Marked
  <2>5. CASE op[p].kind = "boot" /\ op[p].target.status # "active"
    <3>1. op'[p].at = "fixing" /\ op'[p].id = op[p].id /\ ready' = ready
      BY <1>a, <1>9, <2>5, ActivateShape DEF Moves, Keeps
    <3>2. ~ready /\ \A q \in Ops : q # p => op'[q].at = "start"
      BY <1>a, <2>1, <2>5 DEF HolderInv, Takes
    <3> QED
      BY <1>d, <2>1, <2>2, <3>1, <3>2 DEF MarksInv, MarkedOnly, Marked, Changing
  <2> QED
    BY <1>a, <1>9, <2>3, <2>4, <2>5, ActivateShape
<1>10. ASSUME NEW p \in Ops, Fix(p) PROVE MarksInv'
  <2>1. /\ Takes(p, "fixing") /\ op'[p].at = "start" /\ op[p].id \in Sessions /\ op[p].target \in Metas
        /\ op[p].id = activeId /\ op[p].kind = "boot" /\ UNCHANGED <<activeId, discarded, crashes, minted>>
    BY <1>a, <1>c, <1>10, FixShape DEF Fix, Takes, Touches, IdsInv, HolderInv
  <2>2. \E new \in Metas : new.status = "active" /\ Write("mutex", op[p].id, op[p].target, new)
    BY <1>10, <2>1, StatusUpdate DEF Fix
  <2>3. Marked(activeId)'
    BY <1>a, <2>1, <2>2, WriteFacts DEF Marked
  <2>4. crashes # 0
    BY <1>a, <2>1 DEF FirstInv, HolderInv, Takes
  <2> QED
    BY <1>f, <2>1, <2>3, <2>4
<1>11. ASSUME NEW p \in Ops, Delete(p) PROVE MarksInv'
  <2>1. /\ Takes(p, "start") /\ op'[p].at = "start" /\ op[p].kind = "delete" /\ op[p].id \in Sessions
        /\ UNCHANGED <<activeId, clobbers, discarded, ready, crashes, minted>>
    BY <1>a, <1>c, <1>11, DeleteShape DEF Delete, Takes, Returns, IdsInv
  <2>2. \/ op[p].id # activeId /\ meta' = [meta EXCEPT ![op[p].id] = NoMeta]
        \/ meta' = meta
    BY <1>11 DEF Delete, RemoveDir
  <2>3. /\ \A s \in Sessions : Marked(s)' => Marked(s)
        /\ activeId \in Sessions => (Marked(activeId)' <=> Marked(activeId))
    BY <1>a, <2>1, <2>2, MetaFields DEF Marked
  <2>4. ready /\ activeId \in Sessions
    BY <1>a, <1>h, <2>1 DEF IdsInv
  <2> QED
    BY <1>a, <1>b, <1>d, <1>f, <1>g, <2>1, <2>3, <2>4 DEF Changing
<1>12. ASSUME NEW p \in Ops, BeginRename(p) PROVE MarksInv'
  <2>1. UNCHANGED <<meta, clobbers, activeId, discarded, ready, crashes, minted>> /\ Takes(p, "start") /\ op[p].kind # "boot"
    BY <1>a, <1>12, BeginRenameShape DEF BeginRename, ReadBack, diskVars, memoryVars, history
  <2>2. CASE Returns(p)
    BY <1>c, <2>1, <2>2, <1>e DEF Takes, Returns, Changing
  <2>3. CASE Reads(p, op[p].id, "renaming")
    <3>1. /\ op'[p].at = "renaming" /\ op'[p].id = op[p].id /\ op'[p].target = meta[op[p].id]
          /\ \A q \in Ops : q # p => op'[q].at = "start"
      BY <2>1, <2>3 DEF Reads, Moves, Takes
    <3>2. op[p].id \in Known
      BY <1>a, <1>h, <1>12, <2>1, BeginRenameShape DEF IdsInv, Takes
    <3>3. ~SummarizerClobbered /\ (crashes = 0 => \A s \in Known : Marked(s) => s = activeId)
          /\ (ready /\ activeId \notin discarded => Marked(activeId))
      BY <1>b, <1>g, <2>1 DEF Changing
    <3>4. op'[p].target.status = "active" => op'[p].id = activeId \/ crashes > 0
      BY <1>a, <3>1, <3>2, <3>3 DEF Marked
    <3> QED
      BY <1>d, <2>1, <3>1, <3>3, <3>4 DEF MarksInv, MarkedOnly, Marked, Changing
  <2> QED
    BY <1>a, <1>12, <2>2, <2>3, BeginRenameShape
<1>13. ASSUME NEW p \in Ops, BeginTouch(p) PROVE MarksInv'
  <2>1. UNCHANGED <<meta, clobbers, activeId, discarded, ready, crashes, minted>> /\ Takes(p, "start") /\ op[p].kind # "boot"
    BY <1>a, <1>13, BeginTouchShape DEF BeginTouch, ReadBack, diskVars, memoryVars, history
  <2>2. CASE Returns(p)
    BY <1>c, <2>1, <2>2, <1>e DEF Takes, Returns, Changing
  <2>3. CASE Reads(p, activeId, "touching")
    <3>1. /\ op'[p].at = "touching" /\ op'[p].id = activeId /\ op'[p].target = meta[activeId]
          /\ \A q \in Ops : q # p => op'[q].at = "start"
      BY <2>1, <2>3 DEF Reads, Moves, Takes
    <3>2. activeId \in Known
      BY <1>a, <1>h, <1>13, <2>1, BeginTouchShape DEF IdsInv, Takes
    <3>3. ~SummarizerClobbered /\ (crashes = 0 => \A s \in Known : Marked(s) => s = activeId)
          /\ (ready /\ activeId \notin discarded => Marked(activeId))
      BY <1>b, <1>g, <2>1 DEF Changing
    <3>4. op'[p].target.status = "active" => op'[p].id = activeId \/ crashes > 0
      BY <1>a, <3>1, <3>2, <3>3 DEF Marked
    <3> QED
      BY <1>d, <2>1, <3>1, <3>3, <3>4 DEF MarksInv, MarkedOnly, Marked, Changing
  <2> QED
    BY <1>a, <1>13, <2>2, <2>3, BeginTouchShape
<1>14. ASSUME NEW p \in Ops, Rename(p) PROVE MarksInv'
  <2>1. /\ Takes(p, "renaming") /\ op'[p].at = "start" /\ op[p].id \in Known /\ op[p].target \in Metas
        /\ op[p].kind # "boot" /\ UNCHANGED <<activeId, discarded, ready, crashes, minted>>
    BY <1>a, <1>c, <1>14, RenameShape DEF Rename, WriteBack, Takes, Returns, IdsInv, HolderInv, memoryVars
  <2>2. \E new \in Metas : new.status = op[p].target.status /\ Write("mutex", op[p].id, op[p].target, new)
    BY <1>14, <2>1, TitleUpdate, MetaFields DEF Rename, WriteBack
  <2>3. /\ meta'[op[p].id].status = op[p].target.status
        /\ \A s \in Sessions : s # op[p].id => meta'[s] = meta[s]
    BY <1>a, <2>1, <2>2, WriteFacts
  <2>4. ~SummarizerClobbered
    BY <1>b, <2>2 DEF Write
  <2>5. ready /\ activeId \in Known /\ (crashes = 0 => \A s \in Known : Marked(s) => s = activeId)
        /\ (activeId \notin discarded => Marked(activeId))
    BY <1>a, <1>g, <1>h, <2>1, <2>4 DEF Changing, IdsInv
  <2>6. /\ op[p].id \notin discarded => op[p].target.status = meta[op[p].id].status
        /\ op[p].target.status = "active" => op[p].id = activeId \/ crashes > 0
    BY <1>a, <2>1, <2>4 DEF MarksInv, Takes, IdsInv
  <2>7. crashes = 0 => \A s \in Known : Marked(s)' => s = activeId
    BY <1>a, <2>1, <2>3, <2>5, <2>6 DEF Marked
  <2>8. activeId \notin discarded => Marked(activeId)'
    BY <1>a, <2>1, <2>3, <2>5, <2>6 DEF Marked
  <2> QED
    BY <1>d, <1>f, <2>1, <2>7, <2>8
<1>15. ASSUME NEW p \in Ops, Touch(p) PROVE MarksInv'
  <2>1. /\ Takes(p, "touching") /\ op'[p].at = "start" /\ op[p].id \in Known /\ op[p].target \in Metas
        /\ op[p].kind # "boot" /\ UNCHANGED <<activeId, discarded, ready, crashes, minted>>
    BY <1>a, <1>c, <1>15, TouchShape DEF Touch, WriteBack, Takes, Returns, IdsInv, HolderInv, memoryVars
  <2>2. \E new \in Metas : new.status = op[p].target.status /\ Write("mutex", op[p].id, op[p].target, new)
    BY <1>15, <2>1, TitleUpdate, MetaFields DEF Touch, WriteBack
  <2>3. /\ meta'[op[p].id].status = op[p].target.status
        /\ \A s \in Sessions : s # op[p].id => meta'[s] = meta[s]
    BY <1>a, <2>1, <2>2, WriteFacts
  <2>4. ~SummarizerClobbered
    BY <1>b, <2>2 DEF Write
  <2>5. ready /\ activeId \in Known /\ (crashes = 0 => \A s \in Known : Marked(s) => s = activeId)
        /\ (activeId \notin discarded => Marked(activeId))
    BY <1>a, <1>g, <1>h, <2>1, <2>4 DEF Changing, IdsInv
  <2>6. /\ op[p].id \notin discarded => op[p].target.status = meta[op[p].id].status
        /\ op[p].target.status = "active" => op[p].id = activeId \/ crashes > 0
    BY <1>a, <2>1, <2>4 DEF MarksInv, Takes, IdsInv
  <2>7. crashes = 0 => \A s \in Known : Marked(s)' => s = activeId
    BY <1>a, <2>1, <2>3, <2>5, <2>6 DEF Marked
  <2>8. activeId \notin discarded => Marked(activeId)'
    BY <1>a, <2>1, <2>3, <2>5, <2>6 DEF Marked
  <2> QED
    BY <1>d, <1>f, <2>1, <2>7, <2>8
<1>16. ASSUME NEW p \in Ops, Boot(p) PROVE MarksInv'
  <2>1. UNCHANGED <<meta, clobbers, activeId, discarded, ready, crashes, minted>> /\ Takes(p, "start") /\ op[p].kind = "boot" /\ ~ready
        /\ op'[p].at \in {"minting", "attaching"} /\ op'[p].kind = "boot"
    BY <1>a, <1>16, BootShape DEF Boot, diskVars, memoryVars, history, Takes, Moves, Reads, HolderInv
  <2>2. crashes = 0 => Known = {}
    BY <1>a, <2>1 DEF FirstInv, Takes, Known
  <2>3. \A q \in Ops : q # p => op'[q].at = "start"
    BY <2>1 DEF Takes
  <2> QED
    BY <1>d, <2>1, <2>2, <2>3 DEF MarksInv, MarkedOnly
<1>17. ASSUME NEW run \in sums, SumStep(run) \/ SumFails(run) PROVE MarksInv'
  <2>1. /\ ~SummarizerClobbered /\ discarded \subseteq discarded'
        /\ UNCHANGED <<op, activeId, ready, crashes, minted>>
        /\ \A s \in Sessions : \/ s \in discarded' /\ meta'[s].status # "active"
                               \/ meta'[s].status = meta[s].status
    BY <1>a, <1>17, SumKeepsCalls, SummarizerKeepsMarks
  <2>2. /\ \A s \in Sessions : Marked(s)' => Marked(s)
        /\ \A s \in Sessions : s \notin discarded' => (Marked(s)' <=> Marked(s))
    BY <2>1 DEF Marked
  <2>3. \A p \in Ops : op[p].at \in {"renaming", "touching", "attaching", "activating"} => op[p].id \in Sessions
    BY <1>a DEF IdsInv
  <2>4. ASSUME NEW p \in Ops, op[p].at \in {"renaming", "touching"}, op[p].id \notin discarded'
        PROVE  op[p].target.status = meta'[op[p].id].status
    BY <1>a, <2>1, <2>3, <2>4 DEF MarksInv
  <2>5. ASSUME NEW p \in Ops, op[p].at \in {"attaching", "activating"}, op[p].kind \in {"new", "open"},
               op[p].id \notin discarded'
        PROVE  Marked(op[p].id)'
    <3>1. Marked(op[p].id) /\ op[p].id \in Sessions
      BY <2>1, <2>3, <2>5, <1>a DEF MarksInv
    <3> QED
      BY <2>1, <2>2, <2>5, <3>1
  <2>6. ready' /\ activeId' \notin discarded' /\ (\A p \in Ops : op'[p].at \notin Changing) => Marked(activeId)'
    BY <1>a, <2>1, <2>2 DEF MarksInv, IdsInv
  <2>7. crashes' = 0 => MarkedOnly'
    BY <1>a, <1>d, <2>1, <2>2 DEF MarksInv, MarkedOnly
  <2>8. \A p \in Ops : op'[p].at = "renaming" /\ op'[p].target.status = "active" => op'[p].id = activeId' \/ crashes' > 0
    BY <1>a, <2>1 DEF MarksInv
  <2> QED
    BY <2>1, <2>4, <2>5, <2>6, <2>7, <2>8 DEF MarksInv
<1>18. ASSUME NEW s \in Sessions, ReadJournal(s) \/ Flush(s) PROVE MarksInv'
  <2>1. UNCHANGED <<meta, clobbers, activeId, discarded, ready, crashes, minted>> /\ op' = op
    BY <1>18 DEF ReadJournal, Flush, memoryVars, history
  <2> QED
    BY <1>a, <1>b, <1>d, <2>1 DEF MarksInv, MarkedOnly, Marked
<1>19. CASE Crash
  <2>1. /\ crashes' = crashes + 1 /\ ready' = FALSE
        /\ \A p \in Ops : op'[p] = Idle \/ op'[p] = Call("boot", NoSession)
    BY <1>19 DEF Crash
  <2>2. Call("boot", NoSession).at = "start"
    BY CallRecords DEF Kinds
  <2> QED
    BY <1>a, <1>c, <2>1, <2>2 DEF MarksInv
<1>20. CASE UNCHANGED vars
  <2>1. UNCHANGED <<meta, clobbers, activeId, discarded, ready, crashes, minted>> /\ op' = op
    BY <1>20 DEF vars, diskVars, memoryVars, history
  <2> QED
    BY <1>a, <1>b, <1>d, <2>1 DEF MarksInv, MarkedOnly, Marked
<1> QED
  BY <1>1, <1>2, <1>3, <1>4, <1>5, <1>6, <1>7, <1>8, <1>9, <1>10, <1>11, <1>12, <1>13, <1>14, <1>15, <1>16, <1>17, <1>18, <1>19, <1>20
     DEF Next, CommandStep, OpStep

-----------------------------------------------------------------------------
(* The theorems.                                                           *)

LEMMA ManagerInit == Init => ManagerInv
<1> SUFFICES ASSUME Init PROVE ManagerInv
  OBVIOUS
<1>1. PICK p \in Ops : queue = <<p>> /\ op = [q \in Ops |-> IF q = p THEN Call("boot", NoSession) ELSE Idle]
  BY DEF Init
<1>2. queue \in Seq(Ops) /\ IsInjective(queue) /\ Range(queue) = {p} /\ Len(queue) = 1
  BY <1>1 DEF IsInjective, Range
<1>3. /\ Call("boot", NoSession) \in Calls /\ Call("boot", NoSession) # Idle /\ Idle \in Calls
      /\ Call("boot", NoSession).at = "start" /\ Call("boot", NoSession).kind = "boot"
      /\ Idle.at = "start" /\ Idle.kind = "idle"
  BY CallRecords DEF Kinds
<1>4. CallsOK
  BY <1>1, <1>2, <1>3 DEF CallsOK
<1>5. DataOK
  <2>1. /\ meta \in [Sessions -> Metas \cup {NoMeta}] /\ journal \in [Sessions -> {"none", "empty", "buffered", "events"}]
        /\ writer \in [Sessions -> {"mutex", "summarizer"}] /\ \A s \in Sessions : meta[s] = NoMeta
    BY DEF Init
  <2>2. /\ activeFile = NoSession /\ activeId = NoSession /\ linked = FALSE /\ ready = FALSE /\ sums = {}
        /\ minted = 0 /\ runs = 0 /\ commands = 0 /\ crashes = 0 /\ discarded = {}
    BY DEF Init
  <2>3. minted \in 0..MaxSessions
    BY <2>2, ManagerAssumption
  <2>5. linked \in BOOLEAN /\ ready \in BOOLEAN
    BY <2>2, Zenon
  <2>4. /\ activeFile \in Sessions \cup {NoSession} /\ activeId \in Sessions \cup {NoSession}
        /\ sums \subseteq SumRuns /\ runs \in Nat /\ commands \in Nat /\ crashes \in Nat /\ discarded \subseteq Sessions
    BY <2>2
  <2> QED
    BY <2>1, <2>3, <2>4, <2>5 DEF DataOK
<1>6. \A q \in Ops : op[q].at = "start" /\ (op[q].kind = "boot" <=> q = p) /\ op[q].kind \in {"boot", "idle"}
  BY <1>1, <1>3
<1>7. HolderInv
  BY <1>2, <1>6 DEF HolderInv, Init
<1>8. IdsInv
  BY <1>6 DEF IdsInv, Init
<1>9. ReadsInv /\ FilesInv /\ FirstInv
  BY <1>6 DEF ReadsInv, FilesInv, FirstInv, MutexKeepsWrites, Init
<1>10. Known = {}
  BY DEF Init, Known
<1>11. MarksInv
  BY <1>6, <1>10 DEF MarksInv, MarkedOnly, Init
<1> QED
  BY <1>4, <1>5, <1>7, <1>8, <1>9, <1>11 DEF ManagerInv, TypeOK

\* The files, the memory and the calls under way stay in step, whatever clients ask for, however the steps
\* of the Summarizer fall between those of the calls, and wherever the daemon goes down.
THEOREM ManagerStaysConsistent == Spec => []ManagerInv
<1>1. Init => ManagerInv
  BY ManagerInit
<1>2. ManagerInv /\ [Next]_vars => ManagerInv'
  BY CallsStep, DataStep, HolderStep, IdsStep, ReadsStep, FilesStep, MarksStep, FirstStep DEF ManagerInv, TypeOK
<1> QED
  BY <1>1, <1>2, PTL DEF Spec

\* withLock() (SessionManager.ts:54): no call behind the mutex drops what another one wrote, for any number
\* of calls and sessions, though each writes back a meta.json it read several awaits earlier.
THEOREM MutexLosesNoWrite == Spec => []MutexKeepsWrites
<1>1. ManagerInv => MutexKeepsWrites
  BY DEF ManagerInv, ReadsInv
<1> QED
  BY <1>1, ManagerStaysConsistent, PTL

\* deleteSession() (SessionManager.ts:137): what active.json names is on disk in every state, so also in
\* the one a crash leaves for initialize(), unless the Summarizer removed it.
THEOREM ActiveSessionSurvives == Spec => []RestartFindsSession
<1>1. ManagerInv => RestartFindsSession
  BY DEF ManagerInv, FilesInv, Present, RestartFindsSession
<1> QED
  BY <1>1, ManagerStaysConsistent, PTL

\* openSession(), newSession() and initialize() (SessionManager.ts:61): between calls active.json, the
\* statuses in the meta files and the stream agree with the session in memory, unless the Summarizer
\* dropped a write or removed that session; in every state a restart finds the session it was in.
THEOREM DiskAgreesWithMemory == Spec => []DiskInvariant
<1>1. ManagerInv => RestartFindsSession
  BY DEF ManagerInv, FilesInv, Present, RestartFindsSession
<1>2. ManagerInv => DiskInvariant
  <2> SUFFICES ASSUME ManagerInv, Quiet, activeId \notin discarded, ~SummarizerClobbered
               PROVE  /\ activeFile = activeId /\ linked /\ meta[activeId].status = "active"
                      /\ \A s \in Known : meta[s].status = "active" => s = activeId \/ crashes > 0
    BY <1>1 DEF ManagerInv, DiskInvariant, DiskAgrees
  <2>1. \A p \in Ops : op[p].at = "start"
    BY DEF ManagerInv, HolderInv, Quiet, TypeOK, CallsOK
  <2>2. activeFile = activeId /\ linked
    BY <2>1 DEF ManagerInv, FilesInv, IdsInv, Quiet
  <2>3. Marked(activeId) /\ (crashes = 0 => MarkedOnly)
    BY <2>1 DEF ManagerInv, MarksInv, Quiet, Changing
  <2>4. crashes \in Nat
    BY DEF ManagerInv, TypeOK, DataOK
  <2> QED
    BY <2>1, <2>2, <2>3, <2>4 DEF MarkedOnly, Marked
<1> QED
  BY <1>2, ManagerStaysConsistent, PTL

-----------------------------------------------------------------------------
(* SessionManager implements SessionStore.                                 *)

LEMMA MetaWritten ==
    ASSUME DataOK, NEW who \in {"mutex", "summarizer"}, NEW s \in Sessions, NEW read, NEW new \in Metas,
           Write(who, s, read, new)
    PROVE  /\ Promise!Store(s, new.title)
           /\ who = "mutex" => Disturbed' = Disturbed \ {s}
           /\ who = "summarizer" => Disturbed' = Disturbed \cup {s}
<1>1. /\ meta'[s] = new /\ writer'[s] = who /\ new # NoMeta
      /\ \A t \in Sessions : t # s => meta'[t] = meta[t] /\ writer'[t] = writer[t]
  BY WriteFacts, MetaFields
<1>2. Stored' = Stored \cup {s}
  BY <1>1 DEF Stored
<1>3. TitleOf' = [TitleOf EXCEPT ![s] = new.title]
  BY <1>1 DEF TitleOf
<1>4. /\ who = "mutex" => Disturbed' = Disturbed \ {s}
      /\ who = "summarizer" => Disturbed' = Disturbed \cup {s}
  BY <1>1 DEF Disturbed
<1> QED
  BY <1>2, <1>3, <1>4 DEF Promise!Store

LEMMA MetaRemoved ==
    ASSUME DataOK, NEW s \in Sessions, NEW who \in {"mutex", "summarizer"}, RemoveDir(s),
           writer' = [writer EXCEPT ![s] = who]
    PROVE  /\ Promise!Remove(s)
           /\ who = "mutex" => Disturbed' = Disturbed \ {s}
           /\ who = "summarizer" => Disturbed' = Disturbed \cup {s}
<1>1. /\ meta'[s] = NoMeta /\ writer'[s] = who /\ NoMeta.title = "none"
      /\ \A t \in Sessions : t # s => meta'[t] = meta[t] /\ writer'[t] = writer[t]
  BY DEF DataOK, RemoveDir, NoMeta
<1>2. Stored' = Stored \ {s}
  BY <1>1 DEF Stored
<1>3. TitleOf' = [TitleOf EXCEPT ![s] = "none"]
  BY <1>1 DEF TitleOf
<1>4. /\ who = "mutex" => Disturbed' = Disturbed \ {s}
      /\ who = "summarizer" => Disturbed' = Disturbed \cup {s}
  BY <1>1 DEF Disturbed
<1> QED
  BY <1>2, <1>3, <1>4 DEF Promise!Remove

LEMMA NothingStored ==
    ASSUME UNCHANGED <<meta, writer, activeFile, minted, discarded>>
    PROVE  UNCHANGED Promise!vars
BY DEF Promise!vars, Known, Stored, TitleOf, Disturbed

\* A call that writes back what it read with the same title does nothing, unless the Summarizer was there.
LEMMA WriteBackRefines ==
    ASSUME DataOK, NEW s \in Sessions, NEW read \in Metas, NEW new \in Metas, new.title = read.title,
           Fresh(s, read), Write("mutex", s, read, new), UNCHANGED <<activeFile, minted, discarded>>
    PROVE  [Promise!Next]_Promise!vars
<1>1. Promise!Store(s, new.title) /\ Disturbed' = Disturbed \ {s} /\ UNCHANGED <<activeFile, Known, discarded>>
  BY MetaWritten DEF Known
<1>2. CASE writer[s] = "summarizer"
  <2>1. s \in Disturbed /\ new.title \in Promise!Titles
    BY <1>2 DEF Disturbed, Promise!Titles, Metas
  <2>2. Promise!PutBack(s)
    BY <1>1, <2>1 DEF Promise!PutBack, Promise!ByCommand
  <2> QED
    BY <2>2 DEF Promise!Next
<1>3. CASE writer[s] # "summarizer"
  <2>1. s \notin Disturbed /\ meta[s] = read
    BY <1>3 DEF Disturbed, Fresh
  <2>2. s \in Stored /\ TitleOf[s] = new.title /\ TitleOf = [TitleOf EXCEPT ![s] = TitleOf[s]]
    BY <2>1, MetaFields DEF Stored, TitleOf
  <2>3. Stored' = Stored /\ TitleOf' = TitleOf /\ Disturbed' = Disturbed
    BY <1>1, <2>1, <2>2 DEF Promise!Store
  <2> QED
    BY <1>1, <2>3 DEF Promise!vars
<1> QED
  BY <1>2, <1>3

LEMMA ManagerInitRefines == Init => Promise!Init
BY DEF Init, Promise!Init, Known, Stored, TitleOf, Disturbed, NoMeta

\* Each step of a call, of the Summarizer or of the daemon is a command of SessionStore or changes nothing there.
LEMMA ManagerStepRefines == ManagerInv /\ [Next]_vars => [Promise!Next]_Promise!vars
<1> SUFFICES ASSUME ManagerInv, [Next]_vars PROVE [Promise!Next]_Promise!vars
  OBVIOUS
<1>a. /\ TypeOK /\ DataOK /\ CallsOK /\ HolderInv /\ IdsInv /\ ReadsInv /\ FilesInv
      /\ op \in [Ops -> Calls] /\ minted \in 0..MaxSessions /\ Known \subseteq Sessions
  BY ManagerAssumption DEF ManagerInv, TypeOK, CallsOK, DataOK, Known, Sessions
<1>b. UNCHANGED <<meta, writer, activeFile, minted, discarded>> => UNCHANGED Promise!vars
  BY NothingStored
<1>1. ASSUME NEW p \in Ops, NewSession(p) \/ OpenSession(p) \/ DeleteSession(p) \/ RenameSession(p) \/ AppendEvent(p)
      PROVE  UNCHANGED Promise!vars
  BY <1>b, <1>1 DEF NewSession, OpenSession, DeleteSession, RenameSession, AppendEvent, Request, diskVars, history
<1>2. ASSUME NEW s \in Sessions, ReadJournal(s) \/ Flush(s) PROVE UNCHANGED Promise!vars
  BY <1>b, <1>2 DEF ReadJournal, Flush, history
<1>3. ASSUME NEW p \in Ops, BeginNew(p) \/ BeginOpen(p) \/ OpenAfterRead(p) \/ BeginRename(p) \/ BeginTouch(p) \/ Boot(p)
      PROVE  UNCHANGED Promise!vars
  BY <1>b, <1>3 DEF BeginNew, BeginOpen, OpenAfterRead, BeginRename, BeginTouch, ReadBack, Boot, diskVars, history
<1>4. ASSUME NEW p \in Ops, Attach(p) PROVE UNCHANGED Promise!vars
  BY <1>b, <1>4 DEF Attach, history
<1>5. ASSUME NEW p \in Ops, CloseOld(p) PROVE [Promise!Next]_Promise!vars
  <2>1. /\ activeId \in Sessions /\ op[p].old \in Metas /\ Fresh(activeId, op[p].old)
        /\ UNCHANGED <<activeFile, minted, discarded>>
    BY <1>a, <1>5, CloseOldShape DEF CloseOld, Takes, IdsInv, ReadsInv
  <2> DEFINE new == [op[p].old EXCEPT !.status = "closed"]
  <2>2. new \in Metas /\ new.title = op[p].old.title /\ Write("mutex", activeId, op[p].old, new)
    BY <1>5, <2>1 DEF CloseOld, Metas
  <2> HIDE DEF new
  <2> QED
    BY <1>a, <2>1, <2>2, WriteBackRefines
<1>6. ASSUME NEW p \in Ops, Mint(p) PROVE Promise!Next
  <2>1. /\ minted' = minted + 1 /\ minted' \in Sessions /\ minted' \notin Known
        /\ Known' = Known \cup {minted'} /\ UNCHANGED <<activeFile, discarded>>
        /\ Write("mutex", minted', NoMeta, FreshMeta)
    <3>1. /\ minted < MaxSessions /\ minted' = minted + 1 /\ UNCHANGED <<activeFile, discarded>>
          /\ Write("mutex", minted', NoMeta, FreshMeta)
      BY <1>6 DEF Mint
    <3>2. minted \in Nat /\ MaxSessions \in Nat
      BY <1>a, ManagerAssumption
    <3>3. minted' \in Sessions /\ minted' \notin Known /\ Known' = Known \cup {minted'}
      BY <3>1, <3>2 DEF Sessions, Known
    <3> QED
      BY <3>1, <3>3
  <2>2. FreshMeta \in Metas /\ FreshMeta.title = "none"
    BY DEF FreshMeta, Metas
  <2>3. PICK s \in Sessions : s = minted'
    BY <2>1
  <2>4. Promise!Store(s, "none") /\ Disturbed' = Disturbed \ {s}
    <3>1. Write("mutex", s, NoMeta, FreshMeta)
      BY <2>1, <2>3
    <3> QED
      BY <1>a, <2>2, <3>1, MetaWritten
  <2>5. Promise!Create(s)
    BY <2>1, <2>3, <2>4 DEF Promise!Create, Promise!ByCommand
  <2> QED
    BY <2>5 DEF Promise!Next
<1>7. ASSUME NEW p \in Ops, Reopen(p) PROVE [Promise!Next]_Promise!vars
  <2>1. /\ op[p].id \in Sessions /\ op[p].target \in Metas /\ Fresh(op[p].id, op[p].target)
        /\ UNCHANGED <<activeFile, minted, discarded>>
    BY <1>a, <1>7, ReopenShape DEF Reopen, Takes, IdsInv, ReadsInv
  <2> DEFINE new == [op[p].target EXCEPT !.status = "active"]
  <2>2. new \in Metas /\ new.title = op[p].target.title /\ Write("mutex", op[p].id, op[p].target, new)
    BY <1>7, <2>1 DEF Reopen, Metas
  <2> HIDE DEF new
  <2> QED
    BY <1>a, <2>1, <2>2, WriteBackRefines
<1>8. ASSUME NEW p \in Ops, Activate(p) PROVE Promise!Next
  <2>1. op[p].id \in Sessions /\ Present(op[p].id)
    BY <1>a, <1>8, ActivateShape DEF Takes, IdsInv, FilesInv
  <2>2. activeFile' = op[p].id /\ UNCHANGED <<meta, writer, minted, discarded>>
    BY <1>8 DEF Activate, history
  <2>3. op[p].id \in Stored \cup discarded /\ UNCHANGED <<Known, Stored, TitleOf, Disturbed, discarded>>
    BY <2>1, <2>2 DEF Present, Known, Stored, TitleOf, Disturbed
  <2>4. Promise!Select(op[p].id)
    BY <2>2, <2>3 DEF Promise!Select
  <2> QED
    BY <2>1, <2>4 DEF Promise!Next
<1>9. ASSUME NEW p \in Ops, Fix(p) PROVE [Promise!Next]_Promise!vars
  <2>1. Takes(p, "fixing") /\ op[p].kind = "boot"
    BY <1>a, <1>9, FixShape DEF Takes, HolderInv
  <2>2. /\ op[p].id \in Sessions /\ op[p].target \in Metas /\ Fresh(op[p].id, op[p].target)
        /\ UNCHANGED <<activeFile, minted, discarded>>
    BY <1>a, <1>9, <2>1 DEF Fix, Takes, IdsInv, ReadsInv, Fresh
  <2> DEFINE new == [op[p].target EXCEPT !.status = "active"]
  <2>3. new \in Metas /\ new.title = op[p].target.title /\ Write("mutex", op[p].id, op[p].target, new)
    BY <1>9, <2>2 DEF Fix, Metas
  <2> HIDE DEF new
  <2> QED
    BY <1>a, <2>2, <2>3, WriteBackRefines
<1>10. ASSUME NEW p \in Ops, Touch(p) PROVE [Promise!Next]_Promise!vars
  <2>1. /\ op[p].id \in Sessions /\ op[p].target \in Metas /\ Fresh(op[p].id, op[p].target)
        /\ UNCHANGED <<activeFile, minted, discarded>>
    BY <1>a, <1>10, TouchShape DEF Touch, WriteBack, Takes, IdsInv, ReadsInv
  <2> DEFINE new == [op[p].target EXCEPT !.title = op[p].target.title]
  <2>2. new \in Metas /\ new.title = op[p].target.title /\ Write("mutex", op[p].id, op[p].target, new)
    BY <1>10, <2>1 DEF Touch, WriteBack, Metas
  <2> HIDE DEF new
  <2> QED
    BY <1>a, <2>1, <2>2, WriteBackRefines
<1>11. ASSUME NEW p \in Ops, Rename(p) PROVE Promise!Next
  <2>1. /\ op[p].id \in Sessions /\ op[p].target \in Metas /\ Fresh(op[p].id, op[p].target)
        /\ UNCHANGED <<activeFile, minted, discarded>>
    BY <1>a, <1>11, RenameShape DEF Rename, WriteBack, Takes, IdsInv, ReadsInv
  <2> DEFINE new == [op[p].target EXCEPT !.title = "user"]
  <2>2. new \in Metas /\ new.title = "user" /\ Write("mutex", op[p].id, op[p].target, new)
    BY <1>11, <2>1 DEF Rename, WriteBack, Metas
  <2> HIDE DEF new
  <2>3. Promise!Store(op[p].id, "user") /\ Disturbed' = Disturbed \ {op[p].id}
    BY <1>a, <2>1, <2>2, MetaWritten
  <2>4. op[p].id \in Stored \cup Disturbed
    BY <2>1, MetaFields DEF Stored, Disturbed, Fresh
  <2>5. Promise!Rename(op[p].id)
    BY <2>1, <2>3, <2>4 DEF Promise!Rename, Promise!ByCommand, Known
  <2> QED
    BY <2>1, <2>5 DEF Promise!Next
<1>12. ASSUME NEW p \in Ops, Delete(p) PROVE [Promise!Next]_Promise!vars
  <2>1. Takes(p, "start") /\ op[p].kind = "delete" /\ op[p].id \in Known /\ UNCHANGED <<activeFile, minted, discarded>>
    BY <1>a, <1>12, DeleteShape DEF Delete, Takes, IdsInv
  <2>2. CASE op[p].id = activeId
    BY <1>b, <1>12, <2>1, <2>2 DEF Delete
  <2>3. CASE op[p].id # activeId
    <3>1. RemoveDir(op[p].id) /\ writer' = [writer EXCEPT ![op[p].id] = "mutex"]
      BY <1>12, <2>3 DEF Delete
    <3>2. activeFile = activeId
      BY <1>a, <2>1 DEF FilesInv, HolderInv, Takes
    <3>3. Promise!Remove(op[p].id) /\ Disturbed' = Disturbed \ {op[p].id}
      BY <1>a, <2>1, <3>1, MetaRemoved
    <3>4. Promise!Delete(op[p].id)
      BY <2>1, <2>3, <3>2, <3>3 DEF Promise!Delete, Promise!ByCommand, Known
    <3> QED
      BY <1>a, <2>1, <3>4 DEF Promise!Next
  <2> QED
    BY <2>2, <2>3
<1>13. ASSUME NEW run \in sums, SumReadMeta(run) \/ SumLoad(run) \/ SumFails(run) PROVE UNCHANGED Promise!vars
  BY <1>b, <1>13 DEF SumReadMeta, SumLoad, SumFails, diskVars, history
<1>14. ASSUME NEW run \in sums, SumRemove(run) PROVE Promise!Next
  <2>1. /\ run.id \in Known /\ run.id \in Sessions /\ RemoveDir(run.id)
        /\ writer' = [writer EXCEPT ![run.id] = "summarizer"]
        /\ discarded' = discarded \cup {run.id} /\ UNCHANGED <<activeFile, minted>>
    BY <1>a, <1>14 DEF SumRemove, IdsInv
  <2>2. Promise!Remove(run.id) /\ Disturbed' = Disturbed \cup {run.id}
    BY <1>a, <2>1, MetaRemoved
  <2>3. Promise!Discard(run.id)
    BY <2>1, <2>2 DEF Promise!Discard, Known
  <2> QED
    BY <2>1, <2>3 DEF Promise!Next
<1>15. ASSUME NEW run \in sums, SumWrite(run) PROVE Promise!Next
  <2>1. run.id \in Known /\ run.id \in Sessions /\ run.read \in Metas /\ UNCHANGED <<activeFile, minted, discarded>>
    BY <1>a, <1>15 DEF SumWrite, IdsInv
  <2>2. PICK summary \in BOOLEAN :
          Write("summarizer", run.id, run.read, [run.read EXCEPT !.title = "auto", !.summary = summary])
    BY <1>15, Zenon DEF SumWrite
  <2> DEFINE new == [run.read EXCEPT !.title = "auto", !.summary = summary]
  <2>3. new \in Metas
    BY <2>1, SummaryUpdate, Zenon
  <2>4. new.title = "auto"
    BY <2>1 DEF Metas
  <2>5. Write("summarizer", run.id, run.read, new)
    BY <2>2
  <2> HIDE DEF new
  <2>6. Promise!Store(run.id, "auto") /\ Disturbed' = Disturbed \cup {run.id}
    BY <1>a, <2>1, <2>3, <2>4, <2>5, MetaWritten
  <2>7. Promise!Summarize(run.id)
    BY <2>1, <2>6 DEF Promise!Summarize, Known
  <2> QED
    BY <2>1, <2>7 DEF Promise!Next
<1>16. CASE Crash
  BY <1>b, <1>16 DEF Crash, history
<1>17. CASE UNCHANGED vars
  BY <1>b, <1>17 DEF vars, diskVars, history
<1> QED
  BY <1>1, <1>2, <1>3, <1>4, <1>5, <1>6, <1>7, <1>8, <1>9, <1>10, <1>11, <1>12, <1>13, <1>14, <1>15, <1>16, <1>17
     DEF Next, CommandStep, OpStep, SumStep

\* renameSession() and touch() (SessionManager.ts:197, 213): for any number of calls, sessions, summaries
\* and crashes, what the calls do to the sessions on disk is what commands that take effect one at a time
\* would do: none brings back a deleted session, drops a rename or uses an id again, and active.json
\* always names a session made before.
THEOREM CommandsTakeEffectAtOnce == Spec => CommandsAreAtomic
<1>1. Init => Promise!Init
  BY ManagerInitRefines
<1>2. ManagerInv /\ [Next]_vars => [Promise!Next]_Promise!vars
  BY ManagerStepRefines
<1> QED
  BY <1>1, <1>2, ManagerStaysConsistent, PTL DEF Spec, CommandsAreAtomic, Promise!Spec
=============================================================================
