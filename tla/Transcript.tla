----------------------------- MODULE Transcript -----------------------------
(***************************************************************************)
(* What the pages show of a session while its turns run: the MockEngine    *)
(* driven by a Session (Session.ts), the events it pushes, and each page's *)
(* SessionModel (packages/web/src/session-model.ts), the reducer behind    *)
(* the transcript, the permission prompt and the bundle of changed files.  *)
(* Users type, answer and interrupt from any page, at any moment the       *)
(* Composer and the prompt let them.                                       *)
(*                                                                         *)
(* The links are reliable while they last.  EventDelivery.tla has the      *)
(* relay, the daemon's own reconnections and the limits of the replay      *)
(* window; here a page may lose its socket, come back and resume, and the  *)
(* window holds the whole session.                                         *)
(***************************************************************************)
EXTENDS MockEngine, FiniteSets, SequencesExt

CONSTANTS Pages,         \* browsers, by clientInstanceId
          MaxMessages,   \* bound: messages typed
          Large,         \* turns whose file is over MAX_FILE_BYTES
          MaxInterrupts, \* bound: times an Interrupt button is pressed
          MaxDownloads,  \* bound: downloads asked for
          MaxDrops       \* bound: sockets that break

ASSUME TranscriptAssumption ==
    /\ Large \subseteq Turns
    /\ MaxMessages \in Nat /\ MaxInterrupts \in Nat /\ MaxDownloads \in Nat /\ MaxDrops \in Nat

None == 0

VARIABLES currentTurn,   \* Session.currentTurnId
          lastTurn,      \* turn ids are fresh: the last one handed out
          armed,         \* requests in Session.pending, each with its timer running
          allowed,       \* the user allowed Write for the session
          log,           \* events in SessionStorage; their numbers are their positions
          link,          \* per page: "off"; "open": the socket is registered; "on": conn_ack has come
          sent,          \* per page: commands the daemon has not handled
          inbox,         \* per page: frames it has not read
          highestSeq,    \* Connection.highestSeq
          page           \* per page: its SessionModel

\* History and counters.
VARIABLES gapped,        \* pages whose cursor went past an event they never got
          cut,           \* pages that sent a message while a turn was on their screen
          answered,      \* per page: the last request it answered
          rewound,       \* per page: the last request an old session_status took from its screen
          got,           \* per page: what its downloads brought
          typed, pressed, asked, drops

sessionVars == <<currentTurn, lastTurn, armed, allowed>>
netVars == <<link, sent, inbox>>
history == <<gapped, cut, answered, rewound, got>>
bounds == <<typed, pressed, asked, drops>>
vars == <<engineVars, sessionVars, log, netVars, highestSeq, page, history, bounds>>

States == {"idle", "thinking", "awaiting-approval", "tool-running"}

Status(state) == Event("session_status", None, state)
System == Event("system_message", None, "")

\* every setState() pushes a status, so the Session's state is the last one in the log
LastStatus(events) ==
    events[Max({i \in DOMAIN events : events[i].type = "session_status"})]

-----------------------------------------------------------------------------
(* The SessionModel.  Items carry what tells them apart; the bubble of a   *)
(* user's own message, which only its page shows, is left out.             *)

Bubble(t, text, streaming) == [kind |-> "assistant", of |-> t, text |-> text, streaming |-> streaming]
ToolCard(t) == [kind |-> "tool", of |-> t, output |-> FALSE, result |-> "none"]
Line(kind, text) == [kind |-> kind, text |-> text]
Bundle(paths) == [kind |-> "bundle", paths |-> paths]

\* `live` is the position of the streaming bubble, `edits` the tool calls whose file is not known to be
\* written, `changed` the files this turn changed
EmptyModel == [items |-> <<>>, live |-> 0, edits |-> {}, changed |-> {}, pending |-> None, state |-> "idle"]

Show(m, item) == [m EXCEPT !.items = Append(@, item)]

\* Slip: the bubble is closed but stays the one deltas go to.
CloseLiveKeeping(m) ==
    IF m.live = 0 THEN m ELSE [m EXCEPT !.items[m.live].streaming = FALSE]

CloseLive(m) ==
    IF m.live = 0 THEN m ELSE [m EXCEPT !.items[m.live].streaming = FALSE, !.live = 0]

AppendDelta(m, t) ==
    IF m.live # 0 THEN m
    ELSE [Show(m, Bubble(t, "partial", TRUE)) EXCEPT !.live = Len(m.items) + 1]

Finalize(m, t) ==
    IF m.live # 0 THEN [m EXCEPT !.items[m.live] = Bubble(t, "final", FALSE), !.live = 0]
    ELSE Show(m, Bubble(t, "final", FALSE))

\* findTool(): the tool's card is updated where there is one
IsCard(item, t) == item.kind = "tool" /\ item.of = t

CardOutput(item, t) == IF IsCard(item, t) THEN [item EXCEPT !.output = TRUE] ELSE item
CardResult(item, t, result) == IF IsCard(item, t) THEN [item EXCEPT !.result = result] ELSE item

OnToolStream(m, t) ==
    [m EXCEPT !.items = [i \in DOMAIN m.items |-> CardOutput(m.items[i], t)]]

OnToolResult(m, e) ==
    [m EXCEPT
        !.items = [i \in DOMAIN m.items |-> CardResult(m.items[i], e.of, e.arg)],
        !.edits = @ \ {e.of},
        !.changed = IF e.of \in m.edits /\ e.arg = "ok" THEN @ \cup {e.of} ELSE @]

\* Slip: only an idle session takes the prompt away.
OnStatusKeeping(m, state) ==
    [m EXCEPT !.state = state, !.pending = IF state = "idle" THEN None ELSE @]

OnStatus(m, state) ==
    [m EXCEPT !.state = state,
              !.pending = IF state = "awaiting-approval" THEN @ ELSE None]

\* Slip: the files of the turn are still there in the next one.
OnTurnCompleteKeeping(m, status) ==
    LET closed == [CloseLive(m) EXCEPT !.pending = None, !.edits = {}]
    IN  IF status # "ok" THEN Show(closed, Line("system", status))
        ELSE IF m.changed # {} THEN Show(closed, Bundle(m.changed))
        ELSE closed

OnTurnComplete(m, status) ==
    LET closed == [CloseLive(m) EXCEPT !.pending = None, !.edits = {}, !.changed = {}]
    IN  IF status # "ok" THEN Show(closed, Line("system", status))
        ELSE IF m.changed # {} THEN Show(closed, Bundle(m.changed))
        ELSE closed

\* SessionModel.apply() on the events of a turn
Reduce(m, e) ==
    CASE e.type = "assistant_delta" -> AppendDelta(m, e.of)
      [] e.type = "assistant_message" -> Finalize(m, e.of)
      [] e.type = "tool_use" -> [Show(CloseLive(m), ToolCard(e.of)) EXCEPT !.edits = @ \cup {e.of}]
      [] e.type = "tool_stream" -> OnToolStream(m, e.of)
      [] e.type = "tool_result" -> OnToolResult(m, e)
      [] e.type = "permission_request" -> [m EXCEPT !.pending = e.of]
      [] e.type = "session_status" -> OnStatus(m, e.arg)
      [] e.type = "turn_complete" -> OnTurnComplete(m, e.arg)
      [] e.type \in {"system_message", "error"} -> Show(m, Line(e.type, ""))

\* reduceEventsToItems(): the model a page makes of a journal it fetched, and its transcript
ModelOf(events) ==
    LET model[i \in 0..Len(events)] == IF i = 0 THEN EmptyModel ELSE Reduce(model[i - 1], events[i])
    IN  model[Len(events)]

ItemsOf(events) == ModelOf(events).items

-----------------------------------------------------------------------------
(* Downloads: the cards of the transcript ask for files of the workspace.  *)

\* file_data, the out-of-band reply: the file of turn t asked for by a tool card ("file") or by the
\* bundle card ("zip"), the turn whose content was found there (None: no file), and what came
FileData(t, via, by, what) == [type |-> "file_data", of |-> t, via |-> via, by |-> by, what |-> what]

\* readFile(): a write to the same path may not have begun, have emptied the file and written part of
\* it, or all of it.  A read that a write overlaps counts as one during the write.
Readable(q) ==
    {file[q]} \cup (IF step = "writing" /\ PathOf[currentTurn] = q
                    THEN {Version(currentTurn, "half"), Version(currentTurn, "whole")}
                    ELSE {})

\* a file over the cap is cut by serveFileRequest() and left out of the zip by serveBundleRequest(),
\* which has nothing to send then: a turn of this engine changes one file.  Only what is found counts.
Served(version, via) ==
    LET overCap == IF via = "file" THEN "cut" ELSE "error"
    IN  IF version = Missing THEN {"error"}
        ELSE IF version.by \notin Large THEN {version.part}
        ELSE {overCap} \cup ({version.part} \ {"whole"})

-----------------------------------------------------------------------------

Events ==
    [type : {"assistant_delta", "assistant_message", "tool_use", "tool_stream", "tool_result",
             "permission_request", "session_status", "turn_complete", "system_message", "error"},
     of : Turns \cup {None},
     arg : States \cup {"", "Write", "ok", "failed", "error", "interrupted"}]

Downloads ==
    [type : {"file_data"}, of : Turns, via : {"file", "zip"}, by : Turns \cup {None},
     what : {"whole", "half", "cut", "error"}]

\* file_request and bundle_request
DownloadCommands == [type : {"download"}, of : Turns, via : {"file", "zip"}]

Commands ==
    [type : {"user_message"}, withFile : BOOLEAN]
    \cup [type : {"permission_response"}, of : Turns, decision : {"approve", "deny"}, scope : {"once", "session"}]
    \cup [type : {"interrupt"}]
    \cup DownloadCommands
    \cup [type : {"resume"}, since : Nat]

TypeOK ==
    /\ EngineTypeOK
    /\ currentTurn \in Turns \cup {None} /\ lastTurn \in Turns \cup {None}
    /\ armed \subseteq Turns /\ allowed \in BOOLEAN
    /\ log \in Seq(Events)
    /\ link \in [Pages -> {"off", "open", "on"}]
    /\ sent \in [Pages -> Seq(Commands)]
    /\ \A p \in Pages : inbox[p] \in Seq([seq : 1..Len(log), event : Events] \cup [seq : {0}, event : Downloads])
    /\ \A p \in Pages : got[p] \subseteq Downloads
    /\ highestSeq \in [Pages -> 0..Len(log)]
    /\ \A p \in Pages :
        /\ page[p].live \in 0..Len(page[p].items)
        /\ page[p].live # 0 => page[p].items[page[p].live].streaming
        /\ page[p].edits \cup page[p].changed \subseteq Turns
        /\ page[p].pending \in Turns \cup {None}
        /\ page[p].state \in States
    /\ gapped \cup cut \subseteq Pages
    /\ answered \in [Pages -> Turns \cup {None}] /\ rewound \in [Pages -> Turns \cup {None}]

\* a Session just bound, whose first status every page has been sent
Init ==
    /\ EngineInit
    /\ currentTurn = None /\ lastTurn = None /\ armed = {} /\ allowed = FALSE
    /\ log = <<Status("idle")>>
    /\ link = [p \in Pages |-> "on"]
    /\ sent = [p \in Pages |-> <<>>]
    /\ inbox = [p \in Pages |-> <<[seq |-> 1, event |-> Status("idle")]>>]
    /\ highestSeq = [p \in Pages |-> 0]
    /\ page = [p \in Pages |-> EmptyModel]
    /\ gapped = {} /\ cut = {}
    /\ answered = [p \in Pages |-> None] /\ rewound = [p \in Pages |-> None]
    /\ got = [p \in Pages |-> {}]
    /\ typed = 0 /\ pressed = 0 /\ asked = 0 /\ drops = 0

-----------------------------------------------------------------------------
(* The Session.                                                            *)

\* onEngineEvent(): what the Session pushes for an event of the engine
Forward(e) ==
    CASE e.type = "tool_use" -> <<Status("tool-running"), e>>
      [] e.type = "turn_complete" -> <<e, Status("idle")>>
      [] OTHER -> <<e>>

ForwardAll(events) == FlattenSeq([i \in DOMAIN events |-> Forward(events[i])])

Frames(events, from) == [i \in DOMAIN events |-> [seq |-> from + i, event |-> events[i]]]

\* push(): number and store, then broadcast
Push(inboxes, events) ==
    /\ log' = log \o events
    /\ inbox' = [p \in Pages |->
                   IF link[p] = "off" THEN inboxes[p] ELSE inboxes[p] \o Frames(events, Len(log))]

\* completeTurn() closes the current turn when the engine says so
Close(events) ==
    currentTurn' = IF \E i \in DOMAIN events : events[i].type = "turn_complete" THEN None ELSE currentTurn

\* events of the engine reach the Session
Emit(events) ==
    /\ Push(inbox, ForwardAll(events))
    /\ Close(events)

Handling(p, type) == sent[p] # <<>> /\ Head(sent[p]).type = type
Handled(p) == sent' = [sent EXCEPT ![p] = Tail(@)]

pageUnchanged == UNCHANGED <<highestSeq, page, history, bounds>>

\* startTurn(): a message during a turn is only warned about
OnUserMessage(p) ==
    /\ Handling(p, "user_message")
    /\ Handled(p)
    /\ \/ /\ currentTurn # None
          /\ Push(inbox, <<System>>)
          /\ UNCHANGED <<engineVars, currentTurn, lastTurn>>
       \/ /\ currentTurn = None
          /\ lastTurn < MaxTurns
          /\ lastTurn' = lastTurn + 1
          /\ currentTurn' = lastTurn'
          /\ Send(Head(sent[p]).withFile)
          /\ Push(inbox, <<Status("thinking")>> \o ForwardAll(SendEmits(lastTurn')))
    /\ UNCHANGED <<armed, allowed, link>>
    /\ pageUnchanged

Answering ==
    /\ Answer
    /\ Emit(AnswerEmits(currentTurn))
    /\ UNCHANGED <<lastTurn, armed, allowed, link, sent>>
    /\ pageUnchanged

\* onEnginePermission(): the policy approves a tool the user allowed, otherwise the user is asked
OnEnginePermission ==
    /\ RequestPermission(allowed)
    /\ IF allowed
       THEN /\ Push(inbox, <<System>> \o ForwardAll(SettleEmits(currentTurn, "approve")))
            /\ UNCHANGED armed
       ELSE /\ Push(inbox, <<Status("awaiting-approval"), Event("permission_request", currentTurn, "")>>)
            /\ armed' = armed \cup {currentTurn}
    /\ UNCHANGED <<currentTurn, lastTurn, allowed, link, sent>>
    /\ pageUnchanged

\* approveTool / denyTool for request r: only the one the engine waits on is settled
SettleRequest(r, decision, before) ==
    LET settles == step = "asking" /\ currentTurn = r
        events == IF settles THEN SettleEmits(r, decision) ELSE <<>>
    IN  /\ IF settles THEN Settle(decision) ELSE UNCHANGED engineVars
        /\ Push(inbox, before \o ForwardAll(events))
        /\ Close(events)

\* resolvePermission(): an answer to a request that is not pending is only warned about
OnPermissionResponse(p) ==
    /\ Handling(p, "permission_response")
    /\ Handled(p)
    /\ LET cmd == Head(sent[p]) IN
        \/ /\ cmd.of \notin armed
           /\ Push(inbox, <<System>>)
           /\ UNCHANGED <<engineVars, currentTurn, armed, allowed>>
        \/ /\ cmd.of \in armed
           /\ armed' = armed \ {cmd.of}
           /\ allowed' = (allowed \/ (cmd.decision = "approve" /\ cmd.scope = "session"))
           /\ SettleRequest(cmd.of, cmd.decision, <<>>)
    /\ UNCHANGED <<lastTurn, link>>
    /\ pageUnchanged

\* timeoutPermission(): default-deny
TimeoutPermission(r) ==
    /\ r \in armed
    /\ armed' = armed \ {r}
    /\ SettleRequest(r, "deny", <<System>>)
    /\ UNCHANGED <<lastTurn, allowed, link, sent>>
    /\ pageUnchanged

\* the engine unwinds; an interrupted request stays in Session.pending until its timer fires
OnInterrupt(p) ==
    /\ Handling(p, "interrupt")
    /\ Handled(p)
    /\ Interrupt
    /\ Emit(InterruptEmits(currentTurn))
    /\ UNCHANGED <<lastTurn, armed, allowed, link>>
    /\ pageUnchanged

WriteEnds(ok) ==
    /\ FinishWrite(currentTurn, ok)
    /\ Emit(FinishWriteEmits(currentTurn, ok))
    /\ UNCHANGED <<lastTurn, armed, allowed, link, sent>>
    /\ pageUnchanged

\* backfill(): everything after the page's cursor, then the current status under a number it has
OnResume(p) ==
    /\ Handling(p, "resume")
    /\ Handled(p)
    /\ LET since == Head(sent[p]).since
           frames == Frames(SubSeq(log, since + 1, Len(log)), since)
                     \o <<[seq |-> Len(log), event |-> LastStatus(log)]>>
       IN  inbox' = IF link[p] = "off" THEN inbox ELSE [inbox EXCEPT ![p] = @ \o frames]
    /\ UNCHANGED <<engineVars, sessionVars, log, link>>
    /\ pageUnchanged

\* serveFileRequest() and serveBundleRequest(): the reply goes to the page that asked
OnDownload(p) ==
    /\ Handling(p, "download")
    /\ Handled(p)
    /\ LET cmd == Head(sent[p]) IN
        \E version \in Readable(PathOf[cmd.of]) : \E what \in Served(version, cmd.via) :
          inbox' = IF link[p] = "off" THEN inbox
                   ELSE [inbox EXCEPT ![p] = Append(@, [seq |-> 0, event |->
                                                FileData(cmd.of, cmd.via, version.by, what)])]
    /\ UNCHANGED <<engineVars, sessionVars, log, link>>
    /\ pageUnchanged

-----------------------------------------------------------------------------
(* The pages.                                                              *)

daemonUnchanged == UNCHANGED <<engineVars, sessionVars, log>>

\* Connection.send(): nothing is kept for a socket that is not open
SendCommand(p, cmd) ==
    sent' = IF link[p] = "off" THEN sent ELSE [sent EXCEPT ![p] = Append(@, cmd)]

\* addLocalUserMessage(): a new turn is assumed to begin
AddLocalUserMessage(m) == [m EXCEPT !.edits = {}, !.changed = {}, !.live = 0]

\* submit(): the Composer sends whenever the connection is ready, a turn running or not
SendMessage(p) ==
    /\ typed < MaxMessages
    /\ link[p] = "on"
    /\ typed' = typed + 1
    /\ page' = [page EXCEPT ![p] = AddLocalUserMessage(@)]
    /\ \E withFile \in BOOLEAN : SendCommand(p, [type |-> "user_message", withFile |-> withFile])
    /\ cut' = IF AddLocalUserMessage(page[p]) # page[p] THEN cut \cup {p} ELSE cut
    /\ UNCHANGED <<link, inbox, highestSeq, gapped, answered, rewound, got, pressed, asked, drops>>
    /\ daemonUnchanged

\* decide(): the prompt is cleared at once, whether or not the answer can be sent
Decide(p) ==
    /\ page[p].pending # None
    /\ page' = [page EXCEPT ![p].pending = None]
    /\ answered' = [answered EXCEPT ![p] = page[p].pending]
    /\ \E choice \in {<<"approve", "once">>, <<"approve", "session">>, <<"deny", "once">>} :
          SendCommand(p, [type |-> "permission_response", of |-> page[p].pending,
                          decision |-> choice[1], scope |-> choice[2]])
    /\ UNCHANGED <<link, inbox, highestSeq, gapped, cut, rewound, got, bounds>>
    /\ daemonUnchanged

\* the Interrupt button is there while the page shows a busy session
PressInterrupt(p) ==
    /\ pressed < MaxInterrupts
    /\ page[p].state # "idle"
    /\ pressed' = pressed + 1
    /\ SendCommand(p, [type |-> "interrupt"])
    /\ UNCHANGED <<link, inbox, highestSeq, page, history, typed, asked, drops>>
    /\ daemonUnchanged

\* requestFile() and requestBundle(): the button of a tool card, the chip of a bundle card
RequestDownload(p) ==
    /\ asked < MaxDownloads
    /\ asked' = asked + 1
    /\ \E item \in ToSet(page[p].items) :
        \/ /\ item.kind = "tool"
           /\ SendCommand(p, [type |-> "download", of |-> item.of, via |-> "file"])
        \/ /\ item.kind = "bundle"
           /\ \E t \in item.paths : SendCommand(p, [type |-> "download", of |-> t, via |-> "zip"])
    /\ UNCHANGED <<link, inbox, highestSeq, page, history, typed, pressed, drops>>
    /\ daemonUnchanged

\* Slip: a frame whose number was seen is applied again.
ReadAgain(p) ==
    /\ inbox[p] # <<>>
    /\ inbox' = [inbox EXCEPT ![p] = Tail(@)]
    /\ LET frame == Head(inbox[p]) IN
        /\ highestSeq' = [highestSeq EXCEPT ![p] = IF frame.seq > @ THEN frame.seq ELSE @]
        /\ page' = [page EXCEPT ![p] = IF frame.seq = 0 THEN @ ELSE Reduce(@, frame.event)]
    /\ UNCHANGED <<link, sent, history, bounds>>
    /\ daemonUnchanged

\* handleFileData(): the browser saves the file, and a line says so (left out like the user's bubbles)
ReadFileData(p) ==
    /\ inbox[p] # <<>> /\ Head(inbox[p]).seq = 0
    /\ inbox' = [inbox EXCEPT ![p] = Tail(@)]
    /\ got' = [got EXCEPT ![p] = @ \cup {Head(inbox[p]).event}]
    /\ UNCHANGED <<link, sent, highestSeq, page, gapped, cut, answered, rewound, bounds>>
    /\ daemonUnchanged

\* the number of the frame takes the page's cursor past an event that the frame does not bring: frames
\* were lost, or the frame is the status at the end of an answer to a resume of an earlier connection
SkipsAnEvent(frame, cursor) ==
    frame.seq > cursor /\ (frame.seq > cursor + 1 \/ frame.event # log[frame.seq])

\* applyEnvelope() and apply(): an event whose number was seen is dropped, unless it is a status
Read(p) ==
    /\ inbox[p] # <<>> /\ Head(inbox[p]).seq # 0
    /\ inbox' = [inbox EXCEPT ![p] = Tail(@)]
    /\ LET frame == Head(inbox[p])
           again == frame.seq <= highestSeq[p]
           applies == frame.event.type = "session_status" \/ ~again
           next == IF applies THEN Reduce(page[p], frame.event) ELSE page[p]
       IN  /\ highestSeq' = [highestSeq EXCEPT ![p] = IF again THEN @ ELSE frame.seq]
           /\ page' = [page EXCEPT ![p] = next]
           /\ gapped' = IF SkipsAnEvent(frame, highestSeq[p]) THEN gapped \cup {p} ELSE gapped
           /\ rewound' = [rewound EXCEPT ![p] =
                             IF again /\ next.pending # page[p].pending THEN page[p].pending ELSE @]
    /\ UNCHANGED <<link, sent, cut, answered, got, bounds>>
    /\ daemonUnchanged

\* the socket breaks: the first n commands on their way still arrive, frames do not; the page
\* keeps what it shows, or is reloaded and starts from nothing
Drop(p) ==
    /\ drops < MaxDrops
    /\ link[p] # "off"
    /\ drops' = drops + 1
    /\ link' = [link EXCEPT ![p] = "off"]
    /\ inbox' = [inbox EXCEPT ![p] = <<>>]
    /\ \E n \in 0..Len(sent[p]) : sent' = [sent EXCEPT ![p] = SubSeq(@, 1, n)]
    /\ \/ UNCHANGED <<highestSeq, page, history>>
       \/ /\ highestSeq' = [highestSeq EXCEPT ![p] = 0]
          /\ page' = [page EXCEPT ![p] = EmptyModel]
          /\ gapped' = gapped \ {p} /\ cut' = cut \ {p}
          /\ answered' = [answered EXCEPT ![p] = None]
          /\ rewound' = [rewound EXCEPT ![p] = None]
          /\ got' = [got EXCEPT ![p] = {}]
    /\ UNCHANGED <<typed, pressed, asked>>
    /\ daemonUnchanged

\* the relay registers the new socket, and from then on broadcasts reach it
Reopen(p) ==
    /\ link[p] = "off"
    /\ link' = [link EXCEPT ![p] = "open"]
    /\ UNCHANGED <<sent, inbox>>
    /\ daemonUnchanged /\ pageUnchanged

\* conn_ack: the page is ready and resumes from its cursor
OnAck(p) ==
    /\ link[p] = "open"
    /\ link' = [link EXCEPT ![p] = "on"]
    /\ SendCommand(p, [type |-> "resume", since |-> highestSeq[p]])
    /\ UNCHANGED inbox
    /\ daemonUnchanged /\ pageUnchanged

-----------------------------------------------------------------------------

DaemonStep ==
    \/ \E p \in Pages : OnUserMessage(p) \/ OnPermissionResponse(p) \/ OnInterrupt(p) \/ OnResume(p)
                        \/ OnDownload(p)
    \/ Answering
    \/ OnEnginePermission
    \/ \E r \in Turns : TimeoutPermission(r)
    \/ \E ok \in BOOLEAN : WriteEnds(ok)

PageStep ==
    \E p \in Pages :
        \/ SendMessage(p) \/ Decide(p) \/ PressInterrupt(p) \/ RequestDownload(p)
        \/ Read(p) \/ ReadFileData(p)
        \/ Drop(p) \/ Reopen(p) \/ OnAck(p)

Next == DaemonStep \/ PageStep

Spec == Init /\ [][Next]_vars

-----------------------------------------------------------------------------
(* What a page shows.                                                      *)

\* session-model.ts:331-333, a past session is shown by "the exact same transcript-building rules as the
\* live view": whatever a page lived through (reconnections, replays, frames it had already applied),
\* once all frames are read its transcript is what it would build from the journal up to its cursor.  Excepted are pages
\* with a hole, and pages that sent a message into a running turn, which makes them close the
\* bubble they were filling and forget the files of that turn.
LiveViewIsJournalView ==
    (\A p \in Pages : inbox[p] = <<>>) =>
        \A p \in Pages \ (gapped \cup cut) : page[p].items = ItemsOf(SubSeq(log, 1, highestSeq[p]))

\* the page is connected and has handled everything sent to it
CaughtUp(p) ==
    /\ link[p] = "on" /\ inbox[p] = <<>>
    /\ \A i \in DOMAIN sent[p] : sent[p][i].type # "resume"

\* When no turn runs, a page that followed the turns has no bubble still streaming, and it offers one
\* download card for each turn that wrote its file, with that file and no other, through denials,
\* timeouts, failed writes and interrupts, wherever they fell.
FinishedTurnsAreWhole ==
    \A p \in Pages \ (gapped \cup cut) : CaughtUp(p) /\ currentTurn = None =>
        LET items == ToSet(page[p].items) IN
        /\ \A item \in items : item.kind = "assistant" => ~item.streaming
        /\ {item.paths : item \in {i \in items : i.kind = "bundle"}} = {{t} : t \in written}

\* What a page gets from the download card of a turn, on any page and at any time, is the whole file as
\* that turn or a later one has left it, or an error if that content is over the cap.  Only a later
\* turn that writes the same path can spoil it, while it writes or when its write failed halfway: then
\* the card may bring part of that turn's content, and serveBundleRequest() says nothing of it.
CardsGiveFinishedFiles ==
    \A p \in Pages : \A d \in got[p] : d.via = "zip" =>
        \/ d.by >= d.of /\ d.what = IF d.by \in Large THEN "error" ELSE "whole"
        \/ d.by > d.of /\ PathOf[d.by] = PathOf[d.of] /\ d.what = "half"

Waiting == IF step = "asking" THEN currentTurn ELSE None

\* A page shows a prompt when and only when the engine waits for that answer, on every page, whoever
\* else answers, times out or interrupts.  Excepted are a page that has answered it, and one whose
\* prompt an old status took away (see PromptSurvivesResume).
PromptsAgree ==
    \A p \in Pages \ gapped : CaughtUp(p) =>
        \/ page[p].pending = Waiting
        \/ page[p].pending = None /\ Waiting \in {answered[p], rewound[p]}

\* protocol-client.ts:220, "session_status/machine_state are idempotent snapshots": applying again the
\* statuses a backfill repeats changes nothing, so the prompt of a request that is still waiting
\* for this page stays on its screen.
PromptSurvivesResume ==
    \A p \in Pages \ gapped : CaughtUp(p) =>
        \/ page[p].pending = Waiting
        \/ page[p].pending = None /\ Waiting = answered[p]
=============================================================================
