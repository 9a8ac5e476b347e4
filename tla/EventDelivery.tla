--------------------------- MODULE EventDelivery ----------------------------
(***************************************************************************)
(* How the events of a session reach the browsers: the daemon numbers,     *)
(* journals and broadcasts them (Session.push, Daemon.emit); the relay     *)
(* copies every frame of the daemon to the browsers registered at that     *)
(* moment; a browser (Connection) orders them by number, and on every      *)
(* (re)connection says hello, waits for the ack and resumes from the       *)
(* highest number it has seen.                                             *)
(*                                                                         *)
(* A frame the daemon sends while its link is up is put at once in the     *)
(* inbox of the browser it is addressed to: one addressed to another       *)
(* browser is ignored on arrival (applyEnvelope), and a delay between the  *)
(* daemon and the relay is the daemon sending later.                       *)
(***************************************************************************)
EXTENDS EventLog, FiniteSets

CONSTANTS Browsers,    \* clientInstanceIds; a reloaded page keeps its own
          PushKinds,   \* the kinds of event the session pushes in this instance
          MaxEvents,   \* bound: events the session pushes
          MaxDrops,    \* bound: connections that break
          MaxRestarts, \* bound: restarts of the daemon
          MaxLost      \* bound: journal records lost by a crash

ASSUME DeliveryAssumption ==
    /\ PushKinds \subseteq Kinds
    /\ MaxEvents \in Nat /\ MaxDrops \in Nat /\ MaxRestarts \in Nat /\ MaxLost \in Nat

VARIABLES log,         \* SessionStorage of the session
          records,     \* events in its journal
          flushed,     \* how many of them are known to be in the file
          link,        \* the daemon's connection: "none"; "stale": the relay has not noticed it broke;
                       \* "registering": relay_registered is on its way; "up": the transport is set
          verifying,   \* per browser: resume commands the daemon is verifying
          toDaemon,    \* per browser: frames it sent that the daemon has not read
          inbox,       \* per browser: frames it has not read
          registered,  \* browsers whose socket the relay has registered
          highestSeq,  \* Connection.highestSeq
          toolOffset   \* Connection.toolOffsets of the tool, 0 when it has no entry

\* What the page shows, and history.
VARIABLES seen,        \* per browser: ids of the transcript, in the order applied
          shownStatus, \* per browser: the last session_status applied
          status,      \* the last session_status pushed
          produced,    \* events pushed, also the last id
          drops, restarts, lost,
          awaiting,    \* browsers connected (again) that have not yet had the answer to their resume
          raced,       \* browsers that applied something else meanwhile
          doubled,     \* browsers answered from a window that held events twice
          misled       \* browsers reloaded since a resume that was answered with output of a tool

logVars == <<log, records, flushed, produced, status>>
netVars == <<link, verifying, toDaemon, inbox, registered>>
pageVars == <<highestSeq, toolOffset, seen, shownStatus>>
history == <<awaiting, raced, doubled, misled>>
vars == <<logVars, netVars, pageVars, drops, restarts, lost, history>>

Ids == Nat
Events == [seq : Nat, kind : Kinds, offset : Nat, body : Seq(Ids)]
Logs == [seq : Nat, replay : Seq(Events), total : Nat, window : Seq(Ids)]

\* frames read by a browser; `via` tells a broadcast ("live") from the answer to its resume (the last
\* event of which is the "snapshot") and from the answer to one of an earlier connection ("stale")
Plain(type) == [type |-> type]
EventFrame(e, via) == [type |-> "event", event |-> e, via |-> via]

Hello == [type |-> "hello", fresh |-> TRUE]
Resume(since, offset) == [type |-> "resume", since |-> since, offset |-> offset, fresh |-> TRUE]

Frames == [type : {"registered", "peer_online", "ack"}]
            \cup [type : {"event"}, event : Events, via : {"live", "answer", "snapshot", "stale"}]
Resumes == [type : {"resume"}, since : Nat, offset : Nat, fresh : BOOLEAN]
Commands == Resumes \cup [type : {"hello"}, fresh : BOOLEAN]

TypeOK ==
    /\ log \in Logs /\ Len(log.replay) <= MaxReplay /\ Len(log.window) <= MaxStream
    /\ records \in Seq(Events) /\ flushed \in 0..Len(records)
    /\ produced \in Nat /\ status \in 0..produced
    /\ link \in {"none", "stale", "registering", "up"}
    /\ verifying \in [Browsers -> Seq(Resumes)] /\ toDaemon \in [Browsers -> Seq(Commands)]
    /\ inbox \in [Browsers -> Seq(Frames)]
    /\ registered \subseteq Browsers /\ awaiting \subseteq registered
    /\ \A b \in Browsers \ registered : inbox[b] = <<>>
    /\ highestSeq \in [Browsers -> Nat] /\ toolOffset \in [Browsers -> Nat]
    /\ seen \in [Browsers -> Seq(Ids)] /\ shownStatus \in [Browsers -> Ids]
    /\ drops \in Nat /\ restarts \in Nat /\ lost \in Nat
    /\ raced \cup doubled \cup misled \subseteq Browsers

\* a fresh session whose daemon has registered; no browser is there yet
Init ==
    /\ log = EmptyLog /\ records = <<>> /\ flushed = 0 /\ produced = 0 /\ status = 0
    /\ link = "up"
    /\ verifying = [b \in Browsers |-> <<>>]
    /\ toDaemon = [b \in Browsers |-> <<>>]
    /\ inbox = [b \in Browsers |-> <<>>]
    /\ registered = {}
    /\ highestSeq = [b \in Browsers |-> 0]
    /\ toolOffset = [b \in Browsers |-> 0]
    /\ seen = [b \in Browsers |-> <<>>]
    /\ shownStatus = [b \in Browsers |-> 0]
    /\ drops = 0 /\ restarts = 0 /\ lost = 0
    /\ awaiting = {} /\ raced = {} /\ doubled = {} /\ misled = {}

-----------------------------------------------------------------------------
(* Sending.  Daemon.sendRaw drops a frame when no transport is set.        *)

Reaches(b) == link = "up" /\ b \in registered

SendTo(b, frames) ==
    inbox' = IF Reaches(b) THEN [inbox EXCEPT ![b] = @ \o frames] ELSE inbox

Broadcast(e) ==
    inbox' = [b \in Browsers |->
                IF Reaches(b) THEN Append(inbox[b], EventFrame(e, "live")) ELSE inbox[b]]

\* Session.push(): number, journal, then broadcast to whoever is connected
Push(kind) ==
    /\ produced < MaxEvents
    /\ LET e == Stamped(log, kind, produced + 1) IN
        /\ log' = AppendEvent(log, e)
        /\ records' = Append(records, e)
        /\ Broadcast(e)
    /\ produced' = produced + 1
    /\ status' = IF kind = "status" THEN produced' ELSE status
    /\ UNCHANGED <<flushed, link, verifying, toDaemon, registered, pageVars,
                   drops, restarts, lost, history>>

-----------------------------------------------------------------------------
(* The daemon reads what browsers send.                                    *)

\* conn_hello is answered at once
ReceiveHello(b) ==
    /\ link = "up"
    /\ toDaemon[b] # <<>> /\ Head(toDaemon[b]).type = "hello"
    /\ toDaemon' = [toDaemon EXCEPT ![b] = Tail(@)]
    /\ SendTo(b, <<Plain("ack")>>)
    /\ UNCHANGED <<logVars, link, verifying, registered, pageVars,
                   drops, restarts, lost, history>>

\* a resume command goes to CommandVerifier.verify(), which awaits
ReceiveResume(b) ==
    /\ link = "up"
    /\ toDaemon[b] # <<>> /\ Head(toDaemon[b]).type = "resume"
    /\ toDaemon' = [toDaemon EXCEPT ![b] = Tail(@)]
    /\ verifying' = [verifying EXCEPT ![b] = Append(@, Head(toDaemon[b]))]
    /\ UNCHANGED <<logVars, link, inbox, registered, pageVars,
                   drops, restarts, lost, history>>

\* Slip: events are replayed from one past the client's position.
BackfillOffByOne(since, offset) ==
    EventsSince(log, since + 1) \o
    <<[seq |-> log.seq, kind |-> "status", offset |-> 0, body |-> <<status>>]>>

\* output of the tool that the page lacks and that none of the events since carries
Recovered(since, offset) ==
    LET events == EventsSince(log, since)
        covered == \E i \in DOMAIN events : events[i].kind = "stream"
    IN  IF offset > 0 /\ ~covered THEN Splice(log, offset) ELSE <<>>

Snapshot == [seq |-> log.seq, kind |-> "status", offset |-> 0, body |-> <<status>>]

\* backfill(): the events after `since`, then the output recovered, then the status
Backfill(since, offset) == EventsSince(log, since) \o Recovered(since, offset) \o <<Snapshot>>

\* the verified command is handled, over whatever transport is set by now
AnswerResume(b) ==
    /\ verifying[b] # <<>>
    /\ verifying' = [verifying EXCEPT ![b] = Tail(@)]
    /\ LET cmd == Head(verifying[b])
           answer == Backfill(cmd.since, cmd.offset)
           via(i) == IF ~cmd.fresh THEN "stale" ELSE IF i < Len(answer) THEN "answer" ELSE "snapshot"
           reloaded == highestSeq[b] < cmd.since
       IN  /\ SendTo(b, [i \in DOMAIN answer |-> EventFrame(answer[i], via(i))])
           /\ misled' = IF reloaded /\ Recovered(cmd.since, cmd.offset) # <<>>
                        THEN misled \cup {b} ELSE misled
    /\ doubled' = IF Cardinality(ToSet(log.replay)) < Len(log.replay)
                  THEN doubled \cup {b} ELSE doubled
    /\ UNCHANGED <<logVars, link, toDaemon, registered, pageVars,
                   drops, restarts, lost, awaiting, raced>>

-----------------------------------------------------------------------------
(* The browser reads what the daemon and the relay send.                   *)

\* the socket opens, registers, and the relay accepts it
BrowserConnect(b) ==
    /\ b \notin registered
    /\ registered' = registered \cup {b}
    /\ inbox' = [inbox EXCEPT ![b] = <<Plain("registered")>>]
    /\ UNCHANGED <<logVars, link, verifying, toDaemon, pageVars,
                   drops, restarts, lost, history>>

Reading(b, type) == inbox[b] # <<>> /\ Head(inbox[b]).type = type

\* Slip: a daemon that comes back is not greeted.
OnPeerUnheeded(b) ==
    /\ Reading(b, "peer_online")
    /\ inbox' = [inbox EXCEPT ![b] = Tail(@)]
    /\ awaiting' = awaiting \cup {b}
    /\ UNCHANGED <<logVars, link, verifying, toDaemon, registered, pageVars,
                   drops, restarts, lost, raced, doubled, misled>>

SayHello(b, type) ==
    /\ Reading(b, type)
    /\ inbox' = [inbox EXCEPT ![b] = Tail(@)]
    /\ toDaemon' = [toDaemon EXCEPT ![b] = Append(@, Hello)]
    /\ awaiting' = awaiting \cup {b}
    /\ UNCHANGED <<logVars, link, verifying, registered, pageVars,
                   drops, restarts, lost, raced, doubled, misled>>

\* relay_registered, and relay_peer{online: true}: hello
OnRegistered(b) == SayHello(b, "registered")
OnPeerOnline(b) == SayHello(b, "peer_online")

\* conn_ack: resume from the cursor
OnAck(b) ==
    /\ Reading(b, "ack")
    /\ inbox' = [inbox EXCEPT ![b] = Tail(@)]
    /\ toDaemon' = [toDaemon EXCEPT ![b] = Append(@, Resume(highestSeq[b], toolOffset[b]))]
    /\ UNCHANGED <<logVars, link, verifying, registered, pageVars,
                   drops, restarts, lost, history>>

\* Slip: an event is applied although its number was seen.
ApplyDuplicate(b, e) ==
    /\ highestSeq' = [highestSeq EXCEPT ![b] = IF e.seq > @ THEN e.seq ELSE @]
    /\ IF e.kind = "status"
       THEN shownStatus' = [shownStatus EXCEPT ![b] = e.body[1]] /\ UNCHANGED seen
       ELSE seen' = [seen EXCEPT ![b] = @ \o e.body] /\ UNCHANGED shownStatus
    /\ UNCHANGED toolOffset

\* Slip: a status whose number was seen is dropped like any other event.
ApplyStatusOnce(b, e) ==
    IF e.seq <= highestSeq[b]
    THEN UNCHANGED pageVars
    ELSE /\ highestSeq' = [highestSeq EXCEPT ![b] = e.seq]
         /\ IF e.kind = "status"
            THEN shownStatus' = [shownStatus EXCEPT ![b] = e.body[1]] /\ UNCHANGED seen
            ELSE seen' = [seen EXCEPT ![b] = @ \o e.body] /\ UNCHANGED shownStatus
         /\ UNCHANGED toolOffset

\* applyEnvelope(): duplicates are dropped, except status, which always applies
Apply(b, e) ==
    IF e.kind # "status" /\ e.seq <= highestSeq[b]
    THEN UNCHANGED pageVars
    ELSE /\ highestSeq' = [highestSeq EXCEPT ![b] = IF e.seq > @ THEN e.seq ELSE @]
         /\ LET next == e.offset + Len(e.body) IN
            toolOffset' = [toolOffset EXCEPT ![b] =
                             IF e.kind = "stream" /\ next > @ THEN next ELSE @]
         /\ IF e.kind = "status"
            THEN shownStatus' = [shownStatus EXCEPT ![b] = e.body[1]] /\ UNCHANGED seen
            ELSE seen' = [seen EXCEPT ![b] = @ \o e.body] /\ UNCHANGED shownStatus

OnEvent(b) ==
    /\ Reading(b, "event")
    /\ inbox' = [inbox EXCEPT ![b] = Tail(@)]
    /\ LET frame == Head(inbox[b]) IN
        /\ Apply(b, frame.event)
        /\ awaiting' = IF frame.via = "snapshot" THEN awaiting \ {b} ELSE awaiting
        /\ raced' = IF frame.via \in {"live", "stale"} THEN raced \cup (awaiting \cap {b}) ELSE raced
    /\ UNCHANGED <<logVars, link, verifying, toDaemon, registered, drops, restarts, lost, doubled, misled>>

-----------------------------------------------------------------------------
(* Connections break and come back; the daemon restarts.                   *)

\* frames of a connection that broke: the first n still arrive
Outlive(frames, n) == [i \in 1..n |-> [frames[i] EXCEPT !.fresh = FALSE]]

\* onClose() of the browser's socket; a page that is reloaded starts a new Connection
BrowserDrop(b) ==
    /\ drops < MaxDrops
    /\ b \in registered
    /\ drops' = drops + 1
    /\ registered' = registered \ {b}
    /\ inbox' = [inbox EXCEPT ![b] = <<>>]
    /\ \E n \in 0..Len(toDaemon[b]) :
          toDaemon' = [toDaemon EXCEPT ![b] = Outlive(@, n)]
    /\ verifying' = [verifying EXCEPT ![b] = Outlive(@, Len(@))]
    /\ awaiting' = awaiting \ {b}
    /\ \/ UNCHANGED <<pageVars, raced, doubled, misled>>
       \/ /\ highestSeq' = [highestSeq EXCEPT ![b] = 0]
          /\ toolOffset' = [toolOffset EXCEPT ![b] = 0]
          /\ seen' = [seen EXCEPT ![b] = <<>>]
          /\ shownStatus' = [shownStatus EXCEPT ![b] = 0]
          /\ raced' = raced \ {b}
          /\ doubled' = doubled \ {b}
          /\ misled' = misled \ {b}
    /\ UNCHANGED <<logVars, link, restarts, lost>>

\* DaemonClient.onClose() clears the transport; the relay sees the socket close now or later
LinkDrop ==
    /\ drops < MaxDrops
    /\ link \in {"up", "registering"}
    /\ drops' = drops + 1
    /\ link' \in {"none", "stale"}
    /\ UNCHANGED <<logVars, verifying, toDaemon, inbox, registered, pageVars,
                   restarts, lost, history>>

\* routeBrowserToDaemon() with no daemon, or into a dead socket
RelayLoses(b) ==
    /\ link \in {"none", "stale"}
    /\ toDaemon[b] # <<>>
    /\ toDaemon' = [toDaemon EXCEPT ![b] = Tail(@)]
    /\ UNCHANGED <<logVars, link, verifying, inbox, registered, pageVars,
                   drops, restarts, lost, history>>

\* the relay registers the daemon's new socket, replacing a stale one, and tells the browsers
DaemonReconnect ==
    /\ link \in {"none", "stale"}
    /\ link' = "registering"
    /\ inbox' = [b \in Browsers |->
                   IF b \in registered THEN Append(inbox[b], Plain("peer_online")) ELSE inbox[b]]
    /\ UNCHANGED <<logVars, verifying, toDaemon, registered, pageVars,
                   drops, restarts, lost, history>>

\* relay_registered reaches DaemonClient.handleRelayFrame(): setTransport
DaemonRegistered ==
    /\ link = "registering"
    /\ link' = "up"
    /\ UNCHANGED <<logVars, verifying, toDaemon, inbox, registered, pageVars,
                   drops, restarts, lost, history>>

\* what Session.start() pushes: the recovery of a dirty turn, if there is one, and the status
StartKinds == {<<"status">>, <<"text", "text", "status">>}

\* The journal is loaded by SessionManager.attach() and again by Session.start().  Between the two
\* daemons nothing is pushed, verified or sent, so going down and coming back is one step.  A crash
\* loses whole records here: what it makes of a line that it tears is in Session.tla.
Restart ==
    /\ restarts < MaxRestarts
    /\ restarts' = restarts + 1
    /\ link' \in {"none", "stale"}
    /\ verifying' = [b \in Browsers |-> <<>>]
    /\ \E n \in flushed..Len(records), kinds \in StartKinds :
        /\ lost + Len(records) - n <= MaxLost
        /\ lost' = lost + Len(records) - n
        /\ produced + Len(kinds) <= MaxEvents
        /\ produced' = produced + Len(kinds)
        /\ flushed' = n
        /\ LET kept == SubSeq(records, 1, n)
               loaded == Load(Load(EmptyLog, kept), kept)
               pushed == [i \in DOMAIN kinds |-> [seq |-> loaded.seq + i, kind |-> kinds[i],
                                                 offset |-> 0, body |-> <<produced + i>>]]
           IN  /\ log' = Load(loaded, pushed) \* append() of each, the numbers go up
               /\ records' = kept \o pushed
    /\ status' = produced'
    /\ UNCHANGED <<toDaemon, inbox, registered, pageVars, drops, history>>

-----------------------------------------------------------------------------

DaemonStep ==
    \/ \E kind \in PushKinds : Push(kind)
    \/ \E b \in Browsers : ReceiveHello(b) \/ ReceiveResume(b) \/ AnswerResume(b)
    \/ DaemonRegistered

BrowserStep ==
    \E b \in Browsers :
        \/ BrowserConnect(b)
        \/ OnRegistered(b)
        \/ OnPeerOnline(b)
        \/ OnAck(b)
        \/ OnEvent(b)

NetworkStep ==
    \/ \E b \in Browsers : BrowserDrop(b) \/ RelayLoses(b)
    \/ LinkDrop
    \/ DaemonReconnect

Next == DaemonStep \/ BrowserStep \/ NetworkStep \/ Restart

Spec == Init /\ [][Next]_vars

\* Both ends reconnect, frames of a live connection are read, verification ends.  Nothing makes the
\* session push, and connections may break until the bound is reached.
Fairness ==
    /\ \A b \in Browsers :
        /\ WF_vars(ReceiveHello(b)) /\ WF_vars(ReceiveResume(b)) /\ WF_vars(AnswerResume(b))
        /\ WF_vars(BrowserConnect(b))
        /\ WF_vars(OnRegistered(b)) /\ WF_vars(OnPeerOnline(b))
        /\ WF_vars(OnAck(b)) /\ WF_vars(OnEvent(b))
    /\ WF_vars(DaemonReconnect)
    /\ WF_vars(DaemonRegistered)

FairSpec == Spec /\ Fairness

-----------------------------------------------------------------------------
(* What a browser can rely on.                                             *)

\* session-model.ts:6, "The Connection guarantees events arrive in seq order with no duplicates": a
\* page applies the events of the transcript in the order the session produced them, each at most
\* once, through reconnections, overlapping backfills and restarts that reuse numbers.  The output
\* recovered for a resume of before the page was reloaded is excepted: a page that lacks the events
\* it follows does not drop it.
InOrderOnce ==
    \A b \in Browsers \ misled : \A i, j \in DOMAIN seen[b] : i < j => seen[b][i] < seen[b][j]

\* events of the journal the page has passed without applying them
Holes(b) ==
    {e \in ToSet(records) : /\ e.kind # "status"
                            /\ e.seq <= highestSeq[b]
                            /\ ~Contains(seen[b], e.body[1])}

\* protocol-client.ts:4-5, "on (re)connect issues a resume to backfill what it missed": a page has no
\* hole that the replay window could fill, but for three causes: an event was applied between
\* (re)connecting and the answer to the resume, which moved the cursor past what the resume asks
\* for; a crash lost the end of the journal and its numbers were given out again; or the answer
\* came from a window loaded twice.
HolesAreExplained ==
    \A b \in Browsers \ (raced \cup doubled) :
        lost = 0 => Holes(b) \cap ToSet(log.replay) = {}

\* the page is connected, has the answer to its resume and has read everything sent to it
Settled(b) == link = "up" /\ b \in registered \ awaiting /\ inbox[b] = <<>>

\* A page with nothing left to read shows the session status the daemon is in, whatever old
\* statuses the backfill repeated and whichever numbers it has already seen.
StatusIsCurrent == \A b \in Browsers : Settled(b) => shownStatus[b] = status

\* However connections and the daemon went down, every page catches up with the session's numbers.
CatchesUp == \A b \in Browsers : []<>(highestSeq[b] >= log.seq)
=============================================================================
