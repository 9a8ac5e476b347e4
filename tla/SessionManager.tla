--------------------------- MODULE SessionManager ---------------------------
(***************************************************************************)
(* The sessions of a workspace on disk                                     *)
(* (packages/daemon/src/session/SessionManager.ts): minting, opening,      *)
(* deleting, renaming and touching them behind one mutex, the Summarizer   *)
(* that works on closed sessions outside that mutex, and what a crash      *)
(* between any two writes leaves for the next initialize().                *)
(*                                                                         *)
(* A step ends at an await: each reads or writes one file.  An I/O error   *)
(* in a command is an unhandled rejection, which ends the process: it is   *)
(* a crash at that point.                                                  *)
(***************************************************************************)
EXTENDS Naturals, Sequences, FiniteSets, SequencesExt

CONSTANTS MaxSessions,  \* bound: sessions minted
          Ops,          \* bound: calls that wait for or hold the mutex at once
          Commands,     \* the commands that occur in this instance
          MaxCommands,  \* bound: commands
          MaxCrashes    \* bound: crashes

ASSUME ManagerAssumption ==
    /\ MaxSessions \in Nat \ {0} /\ MaxCommands \in Nat /\ MaxCrashes \in Nat
    /\ Commands \subseteq {"new", "open", "delete", "rename", "read"}

Sessions == 1..MaxSessions   \* ULIDs, in the order they are minted
NoSession == 0

\* meta.json: the fields that matter; "auto" titles and summaries come from the Summarizer
Metas == [status : {"active", "closed"}, title : {"none", "auto", "user"}, summary : BOOLEAN]
NoMeta == [status |-> "none", title |-> "none", summary |-> FALSE]
FreshMeta == [status |-> "active", title |-> "none", summary |-> FALSE]

VARIABLES meta,       \* per session: its meta.json, or NoMeta
          journal,    \* per session: "none", "empty", "buffered" (events not yet in the file), "events"
          activeFile, \* active.json
          activeId,   \* SessionManager.activeId
          linked,     \* the open journal stream still has a file in the tree
          ready,      \* initialize() has returned
          queue,      \* the mutex: its head holds it, the others wait in order
          op,         \* what each call in the queue is doing
          sums,       \* Summarizer.run() calls under way
          minted,     \* sessions minted
          runs,       \* Summarizer runs started
          commands, crashes

\* History.
VARIABLES writer,     \* per session: who last wrote its meta.json, "mutex" or "summarizer"
          clobbers,   \* <<by, of, session>>: a write by one dropped what the other wrote meanwhile
          discarded   \* sessions the Summarizer removed as empty

diskVars == <<meta, journal, activeFile>>
memoryVars == <<activeId, linked, ready>>
history == <<writer, clobbers, discarded>>
vars == <<diskVars, memoryVars, queue, op, sums, minted, runs, commands, crashes, history>>

Call(kind, id) == [kind |-> kind, id |-> id, at |-> "start", target |-> NoMeta, old |-> NoMeta]
Idle == Call("idle", NoSession)
Kinds == {"boot", "new", "open", "delete", "rename", "touch"}
Stages == {"start", "opening", "closing", "minting", "reopening", "attaching", "activating",
           "fixing", "renaming", "touching"}
Calls == [kind : Kinds \cup {"idle"},
          id : Sessions \cup {NoSession}, at : Stages,
          target : Metas \cup {NoMeta}, old : Metas \cup {NoMeta}]
SumRuns == [run : Nat, id : Sessions, read : Metas \cup {NoMeta},
            at : {"reading", "loading", "removing", "summarizing"}]

\* a call is in the queue from when it asks for the mutex until it returns
CallsOK ==
    /\ op \in [Ops -> Calls]
    /\ queue \in Seq(Ops) /\ IsInjective(queue)
    /\ \A p \in Ops : op[p] = Idle <=> p \notin Range(queue)

\* a session that was not minted has no meta.json
DataOK ==
    /\ meta \in [Sessions -> Metas \cup {NoMeta}]
    /\ journal \in [Sessions -> {"none", "empty", "buffered", "events"}]
    /\ activeFile \in Sessions \cup {NoSession} /\ activeId \in Sessions \cup {NoSession}
    /\ linked \in BOOLEAN /\ ready \in BOOLEAN
    /\ sums \subseteq SumRuns
    /\ minted \in 0..MaxSessions /\ runs \in Nat /\ commands \in Nat /\ crashes \in Nat
    /\ writer \in [Sessions -> {"mutex", "summarizer"}]
    /\ \A s \in Sessions : s > minted => meta[s] = NoMeta
    /\ discarded \subseteq Sessions

TypeOK == CallsOK /\ DataOK

\* an empty workspace whose daemon calls initialize()
Init ==
    /\ meta = [s \in Sessions |-> NoMeta]
    /\ journal = [s \in Sessions |-> "none"]
    /\ activeFile = NoSession /\ activeId = NoSession /\ linked = FALSE /\ ready = FALSE
    /\ \E p \in Ops :
        /\ queue = <<p>>
        /\ op = [q \in Ops |-> IF q = p THEN Call("boot", NoSession) ELSE Idle]
    /\ sums = {} /\ minted = 0 /\ runs = 0 /\ commands = 0 /\ crashes = 0
    /\ writer = [s \in Sessions |-> "mutex"]
    /\ clobbers = {} /\ discarded = {}

-----------------------------------------------------------------------------
(* The mutex and the files.                                                *)

Enqueue(p, kind, id) ==
    /\ op[p] = Idle
    /\ queue' = Append(queue, p)
    /\ op' = [op EXCEPT ![p] = Call(kind, id)]

\* Slip: calls do not wait for the one before them.
HoldsUnlocked(p, stage) == op[p].kind # "idle" /\ op[p].at = stage

\* withLock(): a call runs once every earlier one has settled
Holds(p, stage) == queue # <<>> /\ Head(queue) = p /\ op[p].at = stage

Goto(p, stage) == op' = [op EXCEPT ![p].at = stage] /\ UNCHANGED queue

\* Slip: the mutex is not released.
FinishHolding(p) ==
    /\ op' = [op EXCEPT ![p] = Idle]
    /\ UNCHANGED queue

\* the call settles, with or without having done something, and releases the mutex
Finish(p) ==
    /\ op' = [op EXCEPT ![p] = Idle]
    /\ queue' = Tail(queue)

\* writeMetaAtomic() of what was read earlier with some fields replaced
Write(who, s, read, new) ==
    /\ meta' = [meta EXCEPT ![s] = new]
    /\ writer' = [writer EXCEPT ![s] = who]
    /\ clobbers' = IF meta[s] # read THEN clobbers \cup {<<who, writer[s], s>>} ELSE clobbers

\* rm -r of the session's directory
RemoveDir(s) ==
    /\ meta' = [meta EXCEPT ![s] = NoMeta]
    /\ journal' = [journal EXCEPT ![s] = "none"]
    /\ linked' = (linked /\ s # activeId)

-----------------------------------------------------------------------------
(* Commands arrive; each waits for the mutex.                              *)

Request(p, kind, id) ==
    /\ ready /\ commands < MaxCommands
    /\ commands' = commands + 1
    /\ Enqueue(p, kind, id)
    /\ UNCHANGED <<diskVars, memoryVars, sums, minted, runs, crashes, history>>

\* new_session, or the IdleSweeper's tick
NewSession(p) == "new" \in Commands /\ Request(p, "new", NoSession)

\* the others name any session the browser was ever told of
Known == 1..minted
OpenSession(p) == "open" \in Commands /\ \E id \in Known : Request(p, "open", id)
DeleteSession(p) == "delete" \in Commands /\ \E id \in Known : Request(p, "delete", id)
RenameSession(p) == "rename" \in Commands /\ \E id \in Known : Request(p, "rename", id)

\* an event is written to the active session's stream; a file that was removed keeps nothing
Buffered == IF linked /\ journal[activeId] = "empty"
            THEN [journal EXCEPT ![activeId] = "buffered"] ELSE journal

\* the session pushes an event: storage.append(), whose onAppend calls touch()
AppendEvent(p) ==
    /\ ready /\ commands < MaxCommands
    /\ commands' = commands + 1
    /\ Enqueue(p, "touch", NoSession)
    /\ journal' = Buffered
    /\ UNCHANGED <<meta, activeFile, memoryVars, sums, minted, runs, crashes, history>>

\* the write stream gets to the file
Flush(s) ==
    /\ journal[s] = "buffered"
    /\ journal' = [journal EXCEPT ![s] = "events"]
    /\ UNCHANGED <<meta, activeFile, memoryVars, queue, op, sums, minted, runs,
                   commands, crashes, history>>

\* readJournal(), without the mutex: FileJournal.open() makes the directory of a session that has none
ReadJournal(s) ==
    /\ "read" \in Commands
    /\ ready /\ commands < MaxCommands /\ s \in Known
    /\ commands' = commands + 1
    /\ journal' = IF journal[s] = "none" THEN [journal EXCEPT ![s] = "empty"] ELSE journal
    /\ UNCHANGED <<meta, activeFile, memoryVars, queue, op, sums, minted, runs, crashes, history>>

-----------------------------------------------------------------------------
(* The steps of a call that holds the mutex.                               *)

\* close(old) reads the meta of the active session
StartClose(p) ==
    IF activeId # NoSession /\ meta[activeId] # NoMeta
    THEN op' = [op EXCEPT ![p].at = "closing", ![p].old = meta[activeId]]
    ELSE op' = [op EXCEPT ![p].at = IF op[p].kind = "new" THEN "minting" ELSE "reopening"]

BeginNew(p) ==
    /\ Holds(p, "start") /\ op[p].kind = "new"
    /\ StartClose(p)
    /\ UNCHANGED <<diskVars, memoryVars, queue, sums, minted, runs, commands, crashes, history>>

\* openSession() of the active session, or of one that has no meta, does nothing
BeginOpen(p) ==
    /\ Holds(p, "start") /\ op[p].kind = "open"
    /\ LET id == op[p].id IN
        IF id = activeId \/ meta[id] = NoMeta
        THEN Finish(p)
        ELSE /\ op' = [op EXCEPT ![p].at = "opening", ![p].target = meta[id]]
             /\ UNCHANGED queue
    /\ UNCHANGED <<diskVars, memoryVars, sums, minted, runs, commands, crashes, history>>

OpenAfterRead(p) ==
    /\ Holds(p, "opening")
    /\ StartClose(p)
    /\ UNCHANGED <<diskVars, memoryVars, queue, sums, minted, runs, commands, crashes, history>>

\* Slip: the old session keeps its status.
CloseOldUnmarked(p) ==
    /\ Holds(p, "closing")
    /\ Goto(p, IF op[p].kind = "new" THEN "minting" ELSE "reopening")
    /\ UNCHANGED <<diskVars, memoryVars, sums, runs, minted, commands, crashes, history>>

\* close(old) writes "closed" and starts the summarizer without waiting for it
CloseOld(p) ==
    /\ Holds(p, "closing")
    /\ Write("mutex", activeId, op[p].old, [op[p].old EXCEPT !.status = "closed"])
    /\ runs' = runs + 1
    /\ sums' = sums \cup {[run |-> runs + 1, id |-> activeId, at |-> "reading", read |-> NoMeta]}
    /\ Goto(p, IF op[p].kind = "new" THEN "minting" ELSE "reopening")
    /\ UNCHANGED <<journal, activeFile, memoryVars, minted, commands, crashes, discarded>>

Mint(p) ==
    /\ Holds(p, "minting")
    /\ minted < MaxSessions
    /\ minted' = minted + 1
    /\ Write("mutex", minted', NoMeta, FreshMeta)
    /\ op' = [op EXCEPT ![p].at = "attaching", ![p].id = minted', ![p].target = FreshMeta]
    /\ UNCHANGED <<journal, activeFile, memoryVars, queue, sums, runs, commands, crashes,
                   discarded>>

\* the target is written with the meta read before its predecessor was closed
Reopen(p) ==
    /\ Holds(p, "reopening")
    /\ Write("mutex", op[p].id, op[p].target, [op[p].target EXCEPT !.status = "active"])
    /\ Goto(p, "attaching")
    /\ UNCHANGED <<journal, activeFile, memoryVars, sums, minted, runs, commands, crashes,
                   discarded>>

\* attach(): the old journal is flushed and closed, the new one opened and loaded
Attach(p) ==
    /\ Holds(p, "attaching")
    /\ activeId' = op[p].id
    /\ linked' = TRUE
    /\ LET flushed == [s \in Sessions |-> IF s = activeId /\ journal[s] = "buffered"
                                          THEN "events" ELSE journal[s]]
       IN  journal' = [flushed EXCEPT ![op[p].id] = IF @ = "none" THEN "empty" ELSE @]
    /\ Goto(p, "activating")
    /\ UNCHANGED <<meta, activeFile, ready, sums, minted, runs, commands, crashes, history>>

\* the event appended when a session is opened (session_resumed) or started (session_status); the
\* call is over and the touch() of the append queues up in its place
FinishAppending(p) ==
    /\ journal' = Buffered
    /\ op' = [op EXCEPT ![p] = Call("touch", NoSession)]
    /\ queue' = Append(Tail(queue), p)

\* writeActive(); initialize() still has to set the status of a session that was closed
Activate(p) ==
    /\ Holds(p, "activating")
    /\ activeFile' = op[p].id
    /\ CASE op[p].kind = "boot" /\ op[p].target.status # "active" ->
               Goto(p, "fixing") /\ UNCHANGED <<journal, ready>>
         [] op[p].kind = "boot" /\ op[p].target.status = "active" ->
               FinishAppending(p) /\ ready' = TRUE
         [] op[p].kind = "open" -> FinishAppending(p) /\ UNCHANGED ready
         [] op[p].kind = "new" -> Finish(p) /\ UNCHANGED <<journal, ready>>
    /\ UNCHANGED <<meta, activeId, linked, sums, minted, runs, commands, crashes, history>>

Fix(p) ==
    /\ Holds(p, "fixing")
    /\ Write("mutex", op[p].id, op[p].target, [op[p].target EXCEPT !.status = "active"])
    /\ FinishAppending(p)
    /\ ready' = TRUE
    /\ UNCHANGED <<activeFile, activeId, linked, sums, minted, runs, commands, crashes,
                   discarded>>

\* Slip: the check against the active session is missing.
DeleteAny(p) ==
    /\ Holds(p, "start") /\ op[p].kind = "delete"
    /\ RemoveDir(op[p].id)
    /\ writer' = [writer EXCEPT ![op[p].id] = "mutex"]
    /\ Finish(p)
    /\ UNCHANGED <<activeFile, activeId, ready, sums, minted, runs, commands, crashes,
                   clobbers, discarded>>

\* deleteSession() refuses the active session
Delete(p) ==
    /\ Holds(p, "start") /\ op[p].kind = "delete"
    /\ IF op[p].id = activeId
       THEN /\ Finish(p)
            /\ UNCHANGED <<meta, journal, linked, writer>>
       ELSE /\ RemoveDir(op[p].id)
            /\ writer' = [writer EXCEPT ![op[p].id] = "mutex"]
            /\ Finish(p)
    /\ UNCHANGED <<activeFile, activeId, ready, sums, minted, runs, commands, crashes,
                   clobbers, discarded>>

\* renameSession() and touch() read the meta, then write it back with one field replaced
ReadBack(p, kind, id, stage) ==
    /\ Holds(p, "start") /\ op[p].kind = kind
    /\ IF id = NoSession \/ meta[id] = NoMeta
       THEN Finish(p)
       ELSE /\ op' = [op EXCEPT ![p].at = stage, ![p].id = id, ![p].target = meta[id]]
            /\ UNCHANGED queue
    /\ UNCHANGED <<diskVars, memoryVars, sums, minted, runs, commands, crashes, history>>

WriteBack(p, stage, title) ==
    /\ Holds(p, stage)
    /\ Write("mutex", op[p].id, op[p].target, [op[p].target EXCEPT !.title = title])
    /\ Finish(p)
    /\ UNCHANGED <<journal, activeFile, memoryVars, sums, minted, runs, commands, crashes,
                   discarded>>

BeginRename(p) == ReadBack(p, "rename", op[p].id, "renaming")
Rename(p) == WriteBack(p, "renaming", "user")
BeginTouch(p) == ReadBack(p, "touch", activeId, "touching")
Touch(p) == WriteBack(p, "touching", op[p].target.title)

-----------------------------------------------------------------------------
(* Summarizer.run(), without the mutex.                                    *)

EndRun(run) == sums' = sums \ {run}

SumReadMeta(run) ==
    /\ run.at = "reading"
    /\ IF meta[run.id] = NoMeta
       THEN EndRun(run)
       ELSE sums' = (sums \ {run}) \cup {[run EXCEPT !.at = "loading", !.read = meta[run.id]]}
    /\ UNCHANGED <<diskVars, memoryVars, queue, op, minted, runs, commands, crashes, history>>

\* FileJournal.open() makes the file if it is gone; events still in a write buffer are not read
SumLoad(run) ==
    /\ run.at = "loading"
    /\ journal' = IF journal[run.id] = "none" THEN [journal EXCEPT ![run.id] = "empty"] ELSE journal
    /\ LET next == IF journal[run.id] = "events" THEN "summarizing" ELSE "removing" IN
        sums' = (sums \ {run}) \cup {[run EXCEPT !.at = next]}
    /\ UNCHANGED <<meta, activeFile, memoryVars, queue, op, minted, runs, commands, crashes, history>>

\* a session without events is removed, whatever it has become since it was read
SumRemove(run) ==
    /\ run.at = "removing"
    /\ RemoveDir(run.id)
    /\ discarded' = discarded \cup {run.id}
    /\ writer' = [writer EXCEPT ![run.id] = "summarizer"]
    /\ clobbers' = IF meta[run.id] # run.read
                   THEN clobbers \cup {<<"summarizer", writer[run.id], run.id>>} ELSE clobbers
    /\ EndRun(run)
    /\ UNCHANGED <<activeFile, activeId, ready, queue, op, minted, runs, commands, crashes>>

\* the engine's reply, or the fallback title when it fails, is written into the meta read at first
SumWrite(run) ==
    /\ run.at = "summarizing"
    /\ \E summary \in BOOLEAN :
          Write("summarizer", run.id, run.read, [run.read EXCEPT !.title = "auto", !.summary = summary])
    /\ EndRun(run)
    /\ UNCHANGED <<journal, activeFile, memoryVars, queue, op, minted, runs, commands, crashes,
                   discarded>>

\* an I/O error in a run is logged
SumFails(run) ==
    /\ EndRun(run)
    /\ UNCHANGED <<diskVars, memoryVars, queue, op, minted, runs, commands, crashes, history>>

-----------------------------------------------------------------------------
(* Crash, and initialize() of the next daemon.                             *)

Crash ==
    /\ crashes < MaxCrashes
    /\ crashes' = crashes + 1
    /\ journal' = [s \in Sessions |-> IF journal[s] = "buffered" THEN "empty" ELSE journal[s]]
    /\ activeId' = NoSession /\ linked' = FALSE /\ ready' = FALSE
    /\ sums' = {}
    /\ \E p \in Ops :
        /\ queue' = <<p>>
        /\ op' = [q \in Ops |-> IF q = p THEN Call("boot", NoSession) ELSE Idle]
    /\ UNCHANGED <<meta, activeFile, minted, runs, commands, history>>

\* initialize(): readActive(), readMeta()
Boot(p) ==
    /\ Holds(p, "start") /\ op[p].kind = "boot"
    /\ IF activeFile # NoSession /\ meta[activeFile] # NoMeta
       THEN op' = [op EXCEPT ![p].at = "attaching", ![p].id = activeFile, ![p].target = meta[activeFile]]
       ELSE op' = [op EXCEPT ![p].at = "minting"]
    /\ UNCHANGED <<diskVars, memoryVars, queue, sums, minted, runs, commands, crashes, history>>

-----------------------------------------------------------------------------

CommandStep ==
    \/ \E p \in Ops : \/ NewSession(p) \/ OpenSession(p) \/ DeleteSession(p)
                      \/ RenameSession(p) \/ AppendEvent(p)
    \/ \E s \in Sessions : ReadJournal(s)

OpStep(p) ==
    \/ BeginNew(p) \/ BeginOpen(p) \/ OpenAfterRead(p) \/ CloseOld(p)
    \/ Mint(p) \/ Reopen(p) \/ Attach(p) \/ Activate(p)
    \/ Delete(p) \/ BeginRename(p) \/ Rename(p) \/ BeginTouch(p) \/ Touch(p)
    \/ Boot(p) \/ Fix(p)

SumStep(run) == SumReadMeta(run) \/ SumLoad(run) \/ SumRemove(run) \/ SumWrite(run)

Next ==
    \/ CommandStep
    \/ \E p \in Ops : OpStep(p)
    \/ \E run \in sums : SumStep(run) \/ SumFails(run)
    \/ \E s \in Sessions : Flush(s)
    \/ Crash

Spec == Init /\ [][Next]_vars

\* file operations return
FairSpec == Spec /\ \A p \in Ops : WF_vars(OpStep(p))

-----------------------------------------------------------------------------
(* What the manager promises.                                              *)

\* SessionManager.ts:211-214: calls behind the mutex never drop one another's writes to a meta.json,
\* though each writes back what it read several awaits earlier.
MutexKeepsWrites == \A s \in Sessions : <<"mutex", "mutex", s>> \notin clobbers

\* no call is under way
Quiet == ready /\ queue = <<>>

\* a run of the Summarizer, which does not take the mutex, dropped somebody's write
SummarizerClobbered == \E c \in clobbers : c[1] = "summarizer"

\* Between calls the disk agrees with memory: active.json names the session being written, its file
\* is in the tree, and it is the one marked active, unless the Summarizer dropped a write or removed
\* it; after a crash other sessions may be left marked active.
DiskAgrees ==
    Quiet /\ activeId \notin discarded /\ ~SummarizerClobbered =>
        /\ activeFile = activeId
        /\ linked
        /\ meta[activeId].status = "active"
        /\ \A s \in Known : meta[s].status = "active" => s = activeId \/ crashes > 0

\* A restart comes back with the session that was last activated: whatever the clients opened, closed
\* and deleted, active.json names a session that is on disk, unless the Summarizer removed it.
RestartFindsSession ==
    activeFile # NoSession /\ activeFile \notin discarded => meta[activeFile] # NoMeta

\* Memory and disk are in a state the code knows, agree between calls, and let a restart find its session.
DiskInvariant == TypeOK /\ DiskAgrees /\ RestartFindsSession

\* Every call that waits for the mutex gets it and returns, or the daemon goes down.
CallsReturn == \A p \in Ops : (op[p].kind # "idle") ~> (op[p].kind = "idle")

\* What SessionStore speaks of, in the state of the manager.
Stored == {s \in Sessions : meta[s] # NoMeta}
TitleOf == [s \in Sessions |-> meta[s].title]
Disturbed == {s \in Sessions : writer[s] = "summarizer"}
Promise == INSTANCE SessionStore
           WITH used <- Known, stored <- Stored, title <- TitleOf, current <- activeFile,
                disturbed <- Disturbed

\* SessionManager.ts:197-198 and 210-213: calls that take several awaits each, and may die at any, do to
\* the sessions on disk what commands would that take effect one at a time, but for the Summarizer: no
\* rename is lost to a touch, and no write brings back a session that was deleted.
CommandsAreAtomic == Promise!Spec
=============================================================================
